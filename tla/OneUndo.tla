------------------------------ MODULE OneUndo ------------------------------
(***************************************************************************)
(* What the drawing application promises of its pen lines: the page shows  *)
(* all that was drawn since it was last cleared, and "Undo" takes off the  *)
(* last finished line, with what was drawn of a line since, and nothing    *)
(* else.  It also brings back what clear took off since the line before    *)
(* ended, and what it took off before that is gone for good.  There is one *)
(* undo per finished line, none for the first.                             *)
(*                                                                         *)
(* A mark is <<line, n>>, as in module DrawingApp.                         *)
(***************************************************************************)
EXTENDS Integers

VARIABLES page,      \* the marks that show
          count,     \* how many lines were begun
          drawing,   \* whether the last one is in progress
          undoable,
          cleared,       \* cleared since the last line ended
          clearedBefore  \* cleared between the two ends before

clearVars == <<cleared, clearedBefore>>
undoVars == <<page, count, drawing, undoable, clearVars>>

Init ==
  /\ page = {} /\ count = 0 /\ drawing = FALSE /\ undoable = FALSE
  /\ cleared = {} /\ clearedBefore = {}

Finished == IF drawing THEN count - 1 ELSE count

\* A line begins or goes on; a point may be too few to show.
Draw ==
  /\ drawing' = TRUE
  /\ count' = Finished + 1
  /\ page' = page \/ \E m \in page' : m[1] = count' /\ page' = page \cup {m}
  /\ UNCHANGED <<undoable, clearVars>>

Finish ==
  /\ drawing /\ drawing' = FALSE
  /\ undoable' = (Finished > 0)
  /\ cleared' = {} /\ clearedBefore' = cleared
  /\ UNCHANGED <<page, count>>

\* A line in progress is cut: what is cleared of it is gone for good.
Clear ==
  /\ page' = {}
  /\ cleared' = cleared \cup {m \in page : m[1] <= Finished}
  /\ UNCHANGED <<count, drawing, undoable, clearedBefore>>

Undo ==
  /\ undoable /\ undoable' = FALSE
  /\ page' = {m \in page \cup cleared \cup clearedBefore : m[1] < Finished}
  /\ cleared' = {} /\ clearedBefore' = {}
  /\ UNCHANGED <<count, drawing>>

Next == Draw \/ Finish \/ Clear \/ Undo

Spec == Init /\ [][Next]_undoVars
=============================================================================
