-------------------------- MODULE MCScreenSharing --------------------------
(***************************************************************************)
(* Instance of ScreenSharing for TLC.                                      *)
(***************************************************************************)
EXTENDS ScreenSharing

CONSTANTS t1, t2,            \* tablets
          blank, line, none  \* pictures; no picture
=============================================================================
