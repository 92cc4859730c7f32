---------------------------- MODULE MCDrawingApp ----------------------------
(***************************************************************************)
(* Instances of DrawingApp for TLC: the constants are numbers.             *)
(***************************************************************************)
EXTENDS DrawingApp
=============================================================================
