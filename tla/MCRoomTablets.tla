--------------------------- MODULE MCRoomTablets ---------------------------
(***************************************************************************)
(* An instance of RoomTablets for TLC: the counter is followed on a tablet *)
(* that draws nothing and receives the lines of two others.                *)
(***************************************************************************)
EXTENDS RoomTablets, TLC

CONSTANTS ann, bob, cyd,   \* tablets
          x, y, z          \* lines

McAuthorOf == x :> ann @@ y :> bob @@ z :> ann

\* All pass under the counter: x is drawn with the pen, y with the eraser,
\* and z with the eraser taken in the middle of a line that began in black.
McSpotOf ==
  LET spot(tip, white) == [x |-> 1300, y |-> 72, tip |-> tip, white |-> white]
  IN  x :> spot(6, FALSE) @@ y :> spot(50, TRUE) @@ z :> spot(150, TRUE)

McSentSpotOf == [McSpotOf EXCEPT ![z].white = FALSE]

\* The digits share a stroke, and one has a stroke that the other has not.
McGlyph == 0 :> <<1, 2>> @@ 1 :> <<2>>
=============================================================================
