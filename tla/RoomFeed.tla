------------------------------ MODULE RoomFeed ------------------------------
(***************************************************************************)
(* What the whiteboard's event streams promise, without handlers, broker   *)
(* or buffers: one append-only feed of events for the whole server, and    *)
(* for each stream the places of the feed its client was sent.  A stream   *)
(* starts with place 0, which stands for the number of users in its room,  *)
(* and then only moves forward, over events of its room by other users.    *)
(* It may skip events: delivery is at most once.                           *)
(***************************************************************************)
EXTENDS Naturals, Sequences

CONSTANTS Streams, Calls, Rooms, UserOf, RoomOf

VARIABLES feed, got

feedVars == <<feed, got>>

MembershipKinds == {"userjoinedroom", "userleftroom"}

Init == feed = << >> /\ got = [s \in Streams |-> << >>]

Published(p, kind) == \E n \in DOMAIN feed : feed[n].by = p /\ feed[n].kind = kind

\* A stream joins at most once, leaves at most once and never joins after it
\* left; the other events come from calls.
Publish(p, r, kind) ==
  /\ p \in Streams => r = RoomOf[p] /\ kind \in MembershipKinds
  /\ p \in Calls => kind \notin MembershipKinds
  /\ kind \in MembershipKinds => ~Published(p, kind) /\ ~Published(p, "userleftroom")
  /\ feed' = Append(feed, [by |-> p, room |-> r, kind |-> kind])
  /\ got' = got

Announce(s) ==
  /\ got[s] = << >>
  /\ got' = [got EXCEPT ![s] = <<0>>]
  /\ feed' = feed

Receive(s, n) ==
  /\ got[s] # << >> /\ n > got[s][Len(got[s])]
  /\ feed[n].room = RoomOf[s] /\ UserOf[feed[n].by] # UserOf[s]
  /\ got' = [got EXCEPT ![s] = Append(@, n)]
  /\ feed' = feed

Kinds == MembershipKinds \cup {"drawing"}

Next ==
  \/ \E p \in Streams \cup Calls, r \in Rooms, kind \in Kinds : Publish(p, r, kind)
  \/ \E s \in Streams : Announce(s) \/ \E n \in DOMAIN feed : Receive(s, n)

Spec == Init /\ [][Next]_feedVars
=============================================================================
