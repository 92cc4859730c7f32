------------------------- MODULE MCWhiteboardEvents -------------------------
(***************************************************************************)
(* Instances of WhiteboardEvents for TLC.                                  *)
(***************************************************************************)
EXTENDS WhiteboardEvents, TLC

CONSTANTS a, b, c, u,           \* streams
          d, e, f, g,           \* calls
          ann, bob, dot,        \* users; "d.t" is one that ntui rejects
          r1, r2, bad, empty    \* rooms; bad holds a wildcard

McUsers == {ann, bob, dot}
McRooms == {r1, r2, bad, empty}
McClean == {ann, bob, r1, r2, empty}
McUserOf == (a :> ann) @@ (b :> bob) @@ (c :> ann) @@ (u :> dot)
              @@ (d :> bob) @@ (e :> ann) @@ (f :> bob) @@ (g :> bob)
McRoomOf == (a :> r1) @@ (b :> r1) @@ (c :> r1) @@ (u :> r1)

\* d sends one drawing to two rooms, f to one; e names a room that ntui
\* rejects; g holds the event that only the server sends.
McRoomsOf == (d :> <<r2, r1>>) @@ (e :> <<r1, bad>>) @@ (f :> <<r1>>) @@ (g :> <<r1>>)
McKindOf == (d :> "drawing") @@ (e :> "drawing") @@ (f :> "drawing")
              @@ (g :> "usersintheroom")

\* Each instance takes the part of these functions that it needs.
McOnly(f_, S) == [x \in S |-> f_[x]]
McUserOfRpc == McOnly(McUserOf, Streams \cup Calls)
McRoomOfRpc == McOnly(McRoomOf, Streams)
McRoomsOfRpc == McOnly(McRoomsOf, Calls)
McKindOfRpc == McOnly(McKindOf, Calls)
=============================================================================
