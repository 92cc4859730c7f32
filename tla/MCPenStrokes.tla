---------------------------- MODULE MCPenStrokes ----------------------------
(***************************************************************************)
(* Instances of PenStrokes for TLC: the constants are numbers and need no  *)
(* definition beyond a set of fingers.                                     *)
(***************************************************************************)
EXTENDS PenStrokes

OneHand == {1}
TwoHands == {1, 2}
=============================================================================
