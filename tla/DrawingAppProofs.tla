-------------------------- MODULE DrawingAppProofs --------------------------
(***************************************************************************)
(* Proofs about DrawingApp: what is saved, what undo takes away and what a *)
(* change of width keeps, for any brush, any number of lines and of marks. *)
(***************************************************************************)
EXTENDS DrawingApp, TLAPS

\* The part of TypeOK the arguments below rest on, and that a saved canvas is
\* an Option.
MarksOK ==
  /\ canvas \subseteq Mark /\ buff \subseteq Mark
  /\ \A c \in saved \cup prev : c \subseteq Mark
  /\ \A c, d \in saved : c = d
  /\ \A c, d \in prev : c = d
  /\ brush \in Int
  /\ drawing \in BOOLEAN
  /\ lines \in Nat /\ marks \in Nat
  /\ undone \subseteq 1..marks

SafeInv == MarksOK /\ SaveInv

\* Steps that touch no canvas, saved or shown, and no line.
Aside == UNCHANGED <<canvas, saveVars, drawing, lines, marks>>

\* Something is painted over what the canvas shows: by line 0 or by the line
\* in progress.
PaintsOn(line) ==
  /\ Paint(canvas, line)
  /\ line = 0 \/ (ui = "ready" /\ drawing' /\ line = lines')
  /\ UNCHANGED <<saveVars, brush>>

\* The line in progress goes on, or a new one may begin.
LineSteps ==
  /\ drawing' \in BOOLEAN
  /\ IF drawing THEN drawing' /\ lines' = lines
     ELSE IF drawing' THEN lines' = lines + 1 ELSE lines' = lines

-----------------------------------------------------------------------------
(* Each way a step can change the canvases.                                *)

LEMMA AsideSafe ==
  ASSUME SafeInv, Aside, brush' \in Int
  PROVE  SafeInv'
BY DEF SafeInv, MarksOK, SaveInv, Aside, LastFinished, saveVars

\* A new line may begin with the step.
LEMMA BeginSafe ==
  ASSUME SafeInv, UNCHANGED <<canvas, saveVars, brush, marks>>,
         drawing' = TRUE, IF drawing THEN lines' = lines ELSE lines' = lines + 1
  PROVE  SafeInv'
<1>1. MarksOK'
  BY DEF SafeInv, MarksOK, saveVars
<1>2. LastFinished' = LastFinished /\ lines <= lines'
  BY DEF SafeInv, MarksOK, LastFinished
<1>3. \A m \in canvas \cup UNION (saved \cup prev) : m[1] \in Nat
  BY DEF SafeInv, MarksOK, Mark
<1>4. SaveInv'
  BY <1>2, <1>3 DEF SafeInv, MarksOK, SaveInv, saveVars
<1>5. QED
  BY <1>1, <1>4 DEF SafeInv

LEMMA PaintSafe ==
  ASSUME SafeInv, NEW line \in Nat, PaintsOn(line), LineSteps
  PROVE  SafeInv'
<1> DEFINE new == <<line, marks + 1>>
<1>1. canvas' = canvas \cup {new} /\ marks' = marks + 1
  BY DEF PaintsOn, Paint
<1>2. UNCHANGED <<saved, prev, ui, buff, undone>>
  BY DEF PaintsOn, saveVars
<1>3. MarksOK'
  <2>1. canvas' \subseteq Mark /\ brush' = brush /\ lines' \in Nat /\ marks' \in Nat
    BY <1>1 DEF SafeInv, MarksOK, PaintsOn, LineSteps, Mark
  <2>2. undone' \subseteq 1..marks'
    BY <1>1, <1>2 DEF SafeInv, MarksOK
  <2>3. QED
    BY <1>2, <2>1, <2>2 DEF SafeInv, MarksOK, LineSteps
<1>4. lines <= lines' /\ LastFinished' = LastFinished
  <2>1. lines \in Nat
    BY DEF SafeInv, MarksOK
  <2>2. CASE drawing
    BY <2>1, <2>2 DEF LineSteps, LastFinished
  <2>3. CASE ~drawing /\ drawing'
    BY <2>1, <2>3 DEF LineSteps, LastFinished
  <2>4. CASE ~drawing /\ ~drawing'
    BY <2>1, <2>4 DEF LineSteps, LastFinished
  <2>5. QED
    BY <2>2, <2>3, <2>4
<1>5. \A m \in canvas \cup UNION (saved \cup prev) : m[1] \in Nat
  BY DEF SafeInv, MarksOK, Mark
<1>6. new[1] = line /\ (line = 0 \/ (ui = "ready" /\ drawing' /\ line = lines'))
  BY DEF PaintsOn
<1>7. new[2] = marks + 1 /\ new[2] \notin undone /\ line <= lines'
  BY <1>3, <1>6 DEF SafeInv, MarksOK
<1> HIDE DEF new
<1>8. \A m \in canvas' : m[1] = 0 \/ (drawing' /\ m[1] = lines')
        \/ IF saved' = {} THEN ui' = "restored" ELSE \A s \in saved' : m \in s
  BY <1>1, <1>2, <1>6 DEF SafeInv, SaveInv, LineSteps
<1>9. \A m \in canvas' \cup UNION (saved' \cup prev') :
        m[1] <= lines' /\ m[2] \notin undone'
  <2> SUFFICES ASSUME NEW m \in canvas' \cup UNION (saved' \cup prev')
               PROVE  m[1] <= lines' /\ m[2] \notin undone'
    OBVIOUS
  <2>1. CASE m = new
    BY <1>2, <1>6, <1>7, <2>1
  <2>2. CASE m \in canvas \cup UNION (saved \cup prev)
    <3>1. m[1] <= lines /\ m[2] \notin undone /\ m[1] \in Nat
      BY <1>5, <2>2 DEF SafeInv, SaveInv
    <3>2. QED
      BY <1>2, <1>3, <1>4, <3>1 DEF SafeInv, MarksOK
  <2>3. QED
    BY <1>1, <1>2, <2>1, <2>2
<1>10. SaveInv'
  <2>1. ui' \in {"dumped", "inverting"} =>
          buff' \subseteq canvas' /\ \A m \in canvas' \ buff' : m[1] = 0
    BY <1>1, <1>2, <1>6 DEF SafeInv, SaveInv
  <2>2. QED
    BY <1>2, <1>4, <1>8, <1>9, <2>1 DEF SafeInv, SaveInv
<1>11. QED
  BY <1>3, <1>10 DEF SafeInv

LEMMA SaveSafe ==
  ASSUME SafeInv, drawing \/ ui = "restored", SaveCanvas,
         ui \in {"ready", "restored"}, ui' = "ready",
         UNCHANGED <<canvas, buff, undone, brush, lines, marks>>,
         drawing' = IF ui = "restored" THEN drawing ELSE FALSE
  PROVE  SafeInv'
<1>1. MarksOK'
  BY DEF SafeInv, MarksOK, SaveCanvas
<1>2. saved' = {canvas} /\ prev' = saved
  BY DEF SafeInv, SaveInv, SaveCanvas
<1>3. \A p \in prev', s \in saved' : \A m \in s \ p : m[1] = 0 \/ m[1] >= LastFinished'
  <2> SUFFICES ASSUME NEW p \in saved, NEW m \in canvas \ p
               PROVE  m[1] = 0 \/ m[1] >= LastFinished'
    BY <1>2
  <2>1. m[1] = 0 \/ (drawing /\ m[1] = lines)
    BY DEF SafeInv, SaveInv
  <2>2. ui # "restored"
    BY DEF SafeInv, SaveInv
  <2>3. LastFinished' = lines /\ lines \in Nat
    BY <2>2 DEF LastFinished, SafeInv, MarksOK
  <2>4. QED
    BY <2>1, <2>3
<1>4. \A m \in canvas' \cup UNION (saved' \cup prev') :
        m[1] <= lines' /\ m[2] \notin undone'
  BY <1>2 DEF SafeInv, SaveInv
<1>5. SaveInv'
  BY <1>2, <1>3, <1>4 DEF SaveInv
<1>6. QED
  BY <1>1, <1>5 DEF SafeInv

LEMMA UndoSafe ==
  ASSUME SafeInv, OnUndo, UNCHANGED <<brush, drawing, lines>>, ui = "ready"
  PROVE  SafeInv'
<1>1. CASE prev = {}
  BY <1>1, AsideSafe DEF OnUndo, Aside, SafeInv, MarksOK
<1>2. CASE prev # {}
  <2>1. /\ canvas' \in prev /\ prev' = {} /\ saved' = {} /\ ui' = "restored"
        /\ undone' = undone \cup NotOn(canvas') /\ UNCHANGED <<buff, marks>>
    BY <1>2 DEF OnUndo
  <2>2. MarksOK'
    <3>1. undone' \subseteq 1..marks'
      BY <2>1 DEF NotOn, SafeInv, MarksOK
    <3>2. QED
      BY <2>1, <3>1 DEF SafeInv, MarksOK
  <2>3. \A m \in canvas' : m[1] <= lines' /\ m[2] \notin undone'
    BY <2>1 DEF NotOn, SafeInv, SaveInv
  <2>4. SaveInv'
    BY <2>1, <2>3 DEF SaveInv
  <2>5. QED
    BY <2>2, <2>4 DEF SafeInv
<1>3. QED
  BY <1>1, <1>2

\* The clear button: what is saved stays saved.
LEMMA ClearSafe ==
  ASSUME SafeInv, MiddleOrLeftButton
  PROVE  SafeInv'
<1>1. canvas' = {} /\ UNCHANGED <<saved, prev, ui, buff, undone, brush, drawing, lines, marks>>
  BY DEF MiddleOrLeftButton, saveVars, modeVars, penVars
<1>2. ui = "ready"
  BY DEF MiddleOrLeftButton, Ready
<1>3. LastFinished' = LastFinished
  BY <1>1 DEF LastFinished
<1>4. MarksOK'
  BY <1>1 DEF SafeInv, MarksOK
<1>5. SaveInv'
  BY <1>1, <1>2, <1>3 DEF SafeInv, SaveInv
<1>6. QED
  BY <1>4, <1>5 DEF SafeInv

LEMMA DumpSafe ==
  ASSUME SafeInv, NEW next \in {"dumped", "inverting"}, Dump(next), ui = "ready",
         UNCHANGED <<brush, drawing, lines>>
  PROVE  SafeInv'
BY DEF SafeInv, MarksOK, SaveInv, Dump, LastFinished

\* A tapped button, or one the stylus clicks.
LEMMA ClickSafe ==
  ASSUME SafeInv, Clicked, ui = "ready", UNCHANGED <<drawing, lines>>
  PROVE  SafeInv'
<1>1. CASE OnUndo /\ UNCHANGED modeVars
  BY <1>1, UndoSafe DEF modeVars
<1>2. CASE \E next \in {"dumped", "inverting"} : Dump(next) /\ UNCHANGED modeVars
  BY <1>2, DumpSafe DEF modeVars
<1>3. CASE /\ \/ brush' = Toggled(brush) /\ UNCHANGED touchMode
              \/ \E delta \in WidthSteps :
                   ChangeBrushWidth(delta) /\ UNCHANGED touchMode
              \/ ToggleTouchMode /\ UNCHANGED brush
           /\ UNCHANGED <<canvas, saveVars, marks>>
  <2>1. brush' \in Int
    BY <1>3, AppAssumption
       DEF SafeInv, MarksOK, Toggled, ChangeBrushWidth, WidthSteps, Clamped, Size, Erasing
  <2>2. QED
    BY <1>3, <2>1, AsideSafe DEF Aside
<1>4. QED
  BY <1>1, <1>2, <1>3 DEF Clicked

LEMMA RestoreSafe ==
  ASSUME SafeInv, Restore
  PROVE  SafeInv'
<1>1. canvas' = buff \cup {<<0, marks + 1>>} /\ marks' = marks + 1
  BY DEF Restore, Paint
<1>2. brush' \in Int
  BY DEF Restore, Toggled, SafeInv, MarksOK
<1>3. /\ ui \in {"dumped", "inverting"} /\ ui' = "ready"
      /\ UNCHANGED <<saved, prev, buff, undone, drawing, lines>>
  BY DEF Restore, penVars
<1>4. MarksOK'
  <2>1. canvas' \subseteq Mark
    BY <1>1 DEF SafeInv, MarksOK, Mark
  <2>2. undone' \subseteq 1..marks'
    BY <1>1, <1>3 DEF SafeInv, MarksOK
  <2>3. QED
    BY <1>1, <1>2, <1>3, <2>1, <2>2 DEF SafeInv, MarksOK
<1>5. LastFinished' = LastFinished
  BY <1>3 DEF LastFinished
<1>6. \A m \in canvas' : m \in canvas \/ m = <<0, marks + 1>>
  BY <1>1, <1>3 DEF SafeInv, SaveInv
<1>7. marks + 1 \notin undone /\ lines \in Nat
  BY DEF SafeInv, MarksOK
<1>8. \A m \in canvas' : m[1] <= lines' /\ m[2] \notin undone'
  BY <1>3, <1>6, <1>7 DEF SafeInv, SaveInv
<1>9. \A m \in canvas' : m[1] = 0 \/ (drawing' /\ m[1] = lines')
        \/ IF saved' = {} THEN ui' = "restored" ELSE \A s \in saved' : m \in s
  BY <1>3, <1>6 DEF SafeInv, SaveInv
<1>10. SaveInv'
  BY <1>3, <1>5, <1>8, <1>9 DEF SafeInv, SaveInv
<1>11. QED
  BY <1>4, <1>10 DEF SafeInv

-----------------------------------------------------------------------------
LEMMA InitSafe == Init => SafeInv
<1> SUFFICES ASSUME Init PROVE SafeInv
  OBVIOUS
<1>1. MarksOK
  <2>1. canvas = {} /\ buff = {} /\ saved = {} /\ prev = {}
    BY DEF Init
  <2>2. brush = 0 /\ lines = 0 /\ marks = 0 /\ undone = {}
    BY DEF Init
  <2>3. drawing \in BOOLEAN
    BY DEF Init
  <2>4. QED
    BY <2>1, <2>2, <2>3 DEF MarksOK
<1>2. SaveInv
  BY DEF Init, SaveInv
<1>3. QED
  BY <1>1, <1>2 DEF SafeInv

LEMMA NextSafe == SafeInv /\ [Next]_vars => SafeInv'
<1> SUFFICES ASSUME SafeInv, [Next]_vars PROVE SafeInv'
  OBVIOUS
<1>1. CASE TapButton
  BY <1>1, ClickSafe DEF TapButton, Ready, penVars
<1>2. CASE UndoSaves
  BY <1>2, SaveSafe DEF UndoSaves, modeVars, penVars
<1>3. CASE Restore
  BY <1>3, RestoreSafe
<1>4. CASE DrawInside
  <2>1. drawing' = TRUE /\ IF drawing THEN lines' = lines ELSE lines' = lines + 1
    BY <1>4 DEF DrawInside
  <2>2. lines' \in Nat
    BY <2>1 DEF SafeInv, MarksOK
  <2>3. CASE UNCHANGED <<canvas, marks>>
    BY <1>4, <2>1, <2>3, BeginSafe DEF DrawInside, modeVars
  <2>4. CASE Paint(canvas, lines')
    <3>1. PaintsOn(lines')
      BY <1>4, <2>1, <2>4 DEF DrawInside, Ready, PaintsOn, modeVars
    <3>2. QED
      BY <2>1, <2>2, <3>1, PaintSafe DEF LineSteps
  <2>5. QED
    BY <1>4, <2>3, <2>4 DEF DrawInside
<1>5. CASE DrawOutside
  <2>1. CASE Clicked
    BY <1>5, <2>1, ClickSafe DEF DrawOutside, Ready
  <2>2. CASE UNCHANGED <<canvas, saveVars, modeVars, marks>>
    BY <1>5, <2>2, AsideSafe
       DEF DrawOutside, Aside, modeVars, SafeInv, MarksOK
  <2>3. QED
    BY <1>5, <2>1, <2>2 DEF DrawOutside
<1>6. CASE Lift
  <2>1. CASE drawing
    BY <1>6, <2>1, SaveSafe DEF Lift, Ready, modeVars
  <2>2. CASE ~drawing
    BY <1>6, <2>2, AsideSafe DEF Lift, Aside, saveVars, modeVars, SafeInv, MarksOK
  <2>3. QED
    BY <2>1, <2>2
<1>7. CASE TouchCanvas \/ Companion
  <2>1. PaintsOn(0) /\ UNCHANGED <<drawing, lines>>
    BY <1>7 DEF TouchCanvas, Companion, PaintsOn, modeVars, penVars
  <2>2. QED
    BY <2>1, PaintSafe DEF LineSteps, SafeInv, MarksOK
<1>8. CASE HoverFar \/ ToolPen \/ OtherTool \/ RightButton \/ PowerButton
             \/ UNCHANGED vars
  BY <1>8, AsideSafe DEF HoverFar, ToolPen, OtherTool, RightButton, PowerButton,
     vars, Aside, saveVars, modeVars, penVars, SafeInv, MarksOK
<1>9. CASE MiddleOrLeftButton
  BY <1>9, ClearSafe
<1>10. QED
  BY <1>1, <1>2, <1>3, <1>4, <1>5, <1>6, <1>7, <1>8, <1>9 DEF Next

\* The invariant behind undo, for any number of lines, marks and glyphs.
THEOREM SavesAreSafe == Spec => []SaveInv
BY InitSafe, NextSafe, PTL DEF Spec, SafeInv

\* Between lines the saved canvas holds every pen line that is shown.
THEOREM NothingUnsaved == Spec => []SavedHasAllLines
<1>1. SafeInv => SavedHasAllLines
  BY DEF SafeInv, SaveInv, SavedHasAllLines
<1>2. QED
  BY <1>1, InitSafe, NextSafe, PTL DEF Spec

\* What an undo left off the canvas never shows again, however often it is
\* cleared, saved, undone, dumped and written back.
THEOREM UndoneNeverShows == Spec => []UndoneStaysUndone
<1>1. SafeInv => UndoneStaysUndone
  BY DEF SafeInv, SaveInv, UndoneStaysUndone
<1>2. QED
  BY <1>1, InitSafe, NextSafe, PTL DEF Spec

-----------------------------------------------------------------------------
(* The promise of module OneUndo.                                          *)

LEMMA FinishedIsNat == ASSUME SafeInv, UndoInv PROVE LastFinished \in Int
BY DEF SafeInv, MarksOK, LastFinished

\* Nothing that undo rests on changes: UndoInv looks at no mark of line 0 or
\* of the line in progress.
LEMMA PaintKeepsUndo ==
  ASSUME SafeInv, UndoInv, UNCHANGED <<saved, prev>>, LastFinished' = LastFinished,
         ui' = ui \/ (ui # "restored" /\ ui' # "restored"),
         \A m \in canvas' \ canvas : m[1] = 0 \/ ui # "restored"
  PROVE  UndoInv'
<1>1. ui' = "restored" => ui = "restored" /\ LastFinished > 0
  BY DEF UndoInv
<1>2. ui' = "restored" => \A m \in canvas' : m[1] <= LastFinished
  BY <1>1, FinishedIsNat DEF UndoInv
<1>3. QED
  BY <1>1, <1>2 DEF UndoInv

LEMMA BeginKeepsFinished ==
  ASSUME SafeInv, drawing' = TRUE, lines' = IF drawing THEN lines ELSE lines + 1
  PROVE  LastFinished' = LastFinished
BY DEF SafeInv, MarksOK, LastFinished

LEMMA UndoKeepsUndo ==
  ASSUME SafeInv, UndoInv, OnUndo, ui = "ready", UNCHANGED <<drawing, lines>>
  PROVE  UndoInv'
<1>1. LastFinished' = LastFinished
  BY DEF LastFinished
<1>2. CASE prev = {}
  BY <1>1, <1>2 DEF OnUndo, saveVars, UndoInv
<1>3. CASE prev # {}
  <2>1. canvas' \in prev /\ prev' = {} /\ saved' = {} /\ ui' = "restored"
    BY <1>3 DEF OnUndo
  <2>2. \A m \in canvas' : m[1] < LastFinished
    BY <2>1 DEF UndoInv
  <2>3. \A m \in canvas' : m[1] \in Int
    BY <2>1 DEF SafeInv, MarksOK, Mark
  <2>4. QED
    BY <1>1, <1>3, <2>1, <2>2, <2>3, FinishedIsNat DEF UndoInv
<1>4. QED
  BY <1>2, <1>3

LEMMA ClickKeepsUndo ==
  ASSUME SafeInv, UndoInv, Clicked, ui = "ready", UNCHANGED <<drawing, lines>>
  PROVE  UndoInv'
<1>1. LastFinished' = LastFinished
  BY DEF LastFinished
<1>2. CASE OnUndo
  BY <1>2, UndoKeepsUndo
<1>3. CASE \E next \in {"dumped", "inverting"} : Dump(next)
  BY <1>1, <1>3, PaintKeepsUndo DEF Dump
<1>4. CASE UNCHANGED <<canvas, saveVars>>
  BY <1>1, <1>4, PaintKeepsUndo DEF saveVars
<1>5. QED
  BY <1>2, <1>3, <1>4 DEF Clicked

\* A line that ends is saved, and what was saved before it can be restored.
LEMMA LiftKeepsUndo ==
  ASSUME SafeInv, UndoInv, Lift
  PROVE  UndoInv'
<1>1. CASE drawing
  <2>1. LastFinished = lines - 1 /\ LastFinished' = lines /\ lines \in Nat
    BY <1>1 DEF Lift, LastFinished, SafeInv, MarksOK
  <2>2. ui = "ready" /\ ui' = "ready" /\ canvas' = canvas
    BY DEF Lift, Ready
  <2>3. saved' = {canvas} /\ prev' = IF saved = {} THEN prev ELSE saved
    BY <1>1 DEF Lift, SaveCanvas
  <2>4. saved = {} => prev = {}
    BY DEF SafeInv, SaveInv
  <2>5. \A m \in canvas : m[1] \in Nat /\ m[1] <= lines
    BY DEF SafeInv, MarksOK, SaveInv, Mark
  <2>6. \A s \in saved : \A m \in s : m[1] < LastFinished'
    <3>1. \A s \in saved : \A m \in s : m[1] <= LastFinished /\ m[1] \in Nat
      BY DEF UndoInv, SafeInv, MarksOK, Mark
    <3>2. QED
      BY <2>1, <3>1
  <2>7. lines > 0
    BY <2>1 DEF UndoInv
  <2>8. QED
    BY <2>1, <2>2, <2>3, <2>4, <2>5, <2>6, <2>7 DEF UndoInv
<1>2. CASE ~drawing
  <2>1. LastFinished' = LastFinished
    BY <1>2 DEF Lift, LastFinished
  <2>2. QED
    BY <1>2, <2>1, PaintKeepsUndo DEF Lift
<1>3. QED
  BY <1>1, <1>2

LEMMA UndoInit == Init => UndoInv
<1> SUFFICES ASSUME Init PROVE UndoInv
  OBVIOUS
<1>1. saved = {} /\ prev = {} /\ ui = "ready"
  BY DEF Init
<1>2. LastFinished = 0
  BY DEF Init, LastFinished
<1>3. QED
  BY <1>1, <1>2 DEF UndoInv

LEMMA UndoNext == ASSUME SafeInv, UndoInv, [Next]_vars PROVE UndoInv'
<1>1. CASE TapButton
  BY <1>1, ClickKeepsUndo DEF TapButton, Ready, penVars
<1>2. CASE UndoSaves
  <2>1. LastFinished' = LastFinished
    BY <1>2 DEF UndoSaves, penVars, LastFinished
  <2>2. saved' = {canvas} /\ prev' = {} /\ ui' = "ready" /\ ui = "restored"
    BY <1>2 DEF UndoSaves, SaveCanvas, SafeInv, SaveInv
  <2>3. QED
    BY <2>1, <2>2 DEF UndoInv
<1>3. CASE Restore
  <2>1. LastFinished' = LastFinished
    BY <1>3 DEF Restore, penVars, LastFinished
  <2>2. ui # "restored" /\ ui' # "restored" /\ UNCHANGED <<saved, prev>>
    BY <1>3 DEF Restore
  <2>3. QED
    BY <2>1, <2>2, PaintKeepsUndo
<1>4. CASE DrawInside
  <2>1. LastFinished' = LastFinished
    BY <1>4, BeginKeepsFinished DEF DrawInside
  <2>2. ui = "ready" /\ ui' = "ready" /\ UNCHANGED <<saved, prev>>
    BY <1>4 DEF DrawInside, Ready, saveVars
  <2>3. QED
    BY <2>1, <2>2, PaintKeepsUndo
<1>5. CASE DrawOutside
  <2>1. CASE Clicked
    BY <1>5, <2>1, ClickKeepsUndo DEF DrawOutside, Ready
  <2>2. CASE UNCHANGED <<canvas, saveVars>>
    <3>1. LastFinished' = LastFinished
      BY <1>5 DEF DrawOutside, LastFinished
    <3>2. QED
      BY <2>2, <3>1, PaintKeepsUndo DEF saveVars
  <2>3. QED
    BY <1>5, <2>1, <2>2 DEF DrawOutside
<1>6. CASE Lift
  BY <1>6, LiftKeepsUndo
<1>7. CASE TouchCanvas \/ MiddleOrLeftButton \/ Companion
  <2>1. \A m \in canvas' \ canvas : m[1] = 0
    BY <1>7 DEF TouchCanvas, MiddleOrLeftButton, Companion, Paint
  <2>2. UNCHANGED <<saved, prev, ui, drawing, lines>>
    BY <1>7 DEF TouchCanvas, MiddleOrLeftButton, Companion, saveVars, penVars
  <2>3. QED
    BY <2>1, <2>2, PaintKeepsUndo DEF LastFinished
<1>8. CASE HoverFar \/ ToolPen \/ OtherTool \/ RightButton \/ PowerButton
             \/ UNCHANGED vars
  <2>1. UNCHANGED <<canvas, saved, prev, ui, drawing, lines>>
    BY <1>8 DEF HoverFar, ToolPen, OtherTool, RightButton, PowerButton, vars,
       saveVars, penVars
  <2>2. QED
    BY <2>1, PaintKeepsUndo DEF LastFinished
<1>9. QED
  BY <1>1, <1>2, <1>3, <1>4, <1>5, <1>6, <1>7, <1>8 DEF Next

-----------------------------------------------------------------------------
\* What the companion, a finger or a written-back copy paint is no pen line.
LEMMA NoPenLine ==
  ASSUME UNCHANGED <<PenMarks(canvas), lines, drawing, saved, prev>>
  PROVE  UNCHANGED Undoing!undoVars
<1>1. PenMarks(UNION saved) \ canvas = PenMarks(UNION saved) \ PenMarks(canvas)
  BY DEF PenMarks
<1>2. (PenMarks(UNION saved) \ canvas)' = PenMarks(UNION saved)' \ PenMarks(canvas)'
  BY DEF PenMarks
<1>3. /\ PenMarks(UNION saved)' = PenMarks(UNION saved)
      /\ PenMarks(UNION prev)' = PenMarks(UNION prev)
  BY DEF PenMarks
<1>4. QED
  BY <1>1, <1>2, <1>3 DEF Undoing!undoVars, Undoing!clearVars

\* A finished line that shows is saved.
LEMMA FinishedIsSaved ==
  ASSUME SafeInv, ui = "ready", NEW m \in PenMarks(canvas), m[1] <= LastFinished
  PROVE  m \in UNION saved
<1>1. m \in canvas /\ m[1] # 0
  BY DEF PenMarks
<1>2. lines \in Nat
  BY DEF SafeInv, MarksOK
<1>3. ~(drawing /\ m[1] = lines)
  BY <1>2 DEF LastFinished
<1>4. saved # {} /\ \A s \in saved : m \in s
  BY <1>1, <1>3 DEF SafeInv, SaveInv
<1>5. QED
  BY <1>4

\* Undo shows what PREV holds: of what is saved, and of what was cleared, the
\* lines before the last finished one.
LEMMA PrevIsBefore ==
  ASSUME SafeInv, UndoInv, ui = "ready", NEW p \in prev
  PROVE  PenMarks(p) =
           {m \in PenMarks(canvas) \cup (PenMarks(UNION saved) \ canvas)
                    \cup (PenMarks(UNION prev) \ UNION saved) : m[1] < LastFinished}
<1> DEFINE S == UNION saved
           before == {m \in PenMarks(canvas) \cup (PenMarks(S) \ canvas)
                              \cup (PenMarks(UNION prev) \ S) : m[1] < LastFinished}
<1>1. UNION prev = p
  BY DEF SafeInv, MarksOK
<1>2. ASSUME NEW m \in PenMarks(p) PROVE m \in before
  <2>1. m \in p /\ m[1] # 0 /\ m[1] < LastFinished
    BY DEF PenMarks, UndoInv
  <2>2. m \in PenMarks(canvas) \cup (PenMarks(S) \ canvas) \cup (PenMarks(p) \ S)
    BY <2>1 DEF PenMarks
  <2>3. QED
    BY <1>1, <2>1, <2>2
<1>3. ASSUME NEW m \in before PROVE m \in PenMarks(p)
  <2>1. m[1] < LastFinished /\ m[1] # 0
    BY DEF PenMarks
  <2>2. m \in S \cup p
    <3>1. CASE m \in PenMarks(canvas)
      <4>1. m[1] \in Int
        BY <3>1 DEF PenMarks, SafeInv, MarksOK, Mark
      <4>2. m[1] <= LastFinished
        BY <2>1, <4>1, FinishedIsNat
      <4>3. QED
        BY <3>1, <4>2, FinishedIsSaved
    <3>2. CASE m \in PenMarks(S)
      BY <3>2 DEF PenMarks
    <3>3. CASE m \in PenMarks(UNION prev)
      BY <1>1, <3>3 DEF PenMarks
    <3>4. QED
      BY <3>1, <3>2, <3>3
  <2>3. CASE m \notin p
    <3>1. PICK s \in saved : m \in s \ p
      BY <2>2, <2>3
    <3>2. m[1] >= LastFinished
      BY <2>1, <3>1 DEF SafeInv, SaveInv
    <3>3. m[1] \in Int
      BY <3>1 DEF SafeInv, MarksOK, Mark
    <3>4. QED
      BY <2>1, <3>2, <3>3, FinishedIsNat
  <2>4. QED
    BY <2>1, <2>3 DEF PenMarks
<1>4. QED
  BY <1>2, <1>3

LEMMA UndoUndoes ==
  ASSUME SafeInv, UndoInv, OnUndo, ui = "ready", UNCHANGED <<lines, drawing>>
  PROVE  Undoing!Undo \/ UNCHANGED Undoing!undoVars
<1>1. CASE prev = {}
  BY <1>1, NoPenLine DEF OnUndo, saveVars, PenMarks
<1>2. CASE prev # {}
  <2>1. canvas' \in prev /\ prev' = {} /\ saved' = {}
    BY <1>2 DEF OnUndo
  <2>2. PenMarks(canvas)' =
          {m \in PenMarks(canvas) \cup (PenMarks(UNION saved) \ canvas)
                   \cup (PenMarks(UNION prev) \ UNION saved) : m[1] < LastFinished}
    <3>1. PICK p \in prev : canvas' = p
      BY <2>1
    <3>2. PenMarks(canvas)' = PenMarks(p)
      BY <3>1 DEF PenMarks
    <3>3. QED
      BY <3>2, PrevIsBefore
  <2>3. /\ (PenMarks(UNION saved) \ canvas)' = {}
        /\ (PenMarks(UNION prev) \ UNION saved)' = {}
    BY <2>1 DEF PenMarks
  <2>4. QED
    BY <1>2, <2>1, <2>2, <2>3 DEF Undoing!Undo, Undoing!Finished, LastFinished
<1>3. QED
  BY <1>1, <1>2

LEMMA ClickUndoes ==
  ASSUME SafeInv, UndoInv, Clicked, ui = "ready", UNCHANGED <<lines, drawing>>
  PROVE  Undoing!Undo \/ UNCHANGED Undoing!undoVars
<1>1. CASE OnUndo
  BY <1>1, UndoUndoes
<1>2. CASE UNCHANGED <<canvas, saved, prev>>
  BY <1>2, NoPenLine DEF PenMarks
<1>3. QED
  BY <1>1, <1>2 DEF Clicked, Dump, saveVars

LEMMA ClearClears ==
  ASSUME SafeInv, UndoInv, MiddleOrLeftButton
  PROVE  Undoing!Clear
<1>1. canvas' = {} /\ UNCHANGED <<saved, prev, lines, drawing>> /\ ui = "ready"
  BY DEF MiddleOrLeftButton, Ready, saveVars, penVars
<1>2. PenMarks(canvas)' = {}
  BY <1>1 DEF PenMarks
<1>3. (PenMarks(UNION saved) \ canvas)' = PenMarks(UNION saved)
  BY <1>1 DEF PenMarks
<1>4. \A m \in UNION saved : m[1] <= LastFinished
  BY DEF UndoInv
<1>5. \A m \in PenMarks(canvas) : m[1] <= LastFinished => m \in UNION saved
  BY <1>1, FinishedIsSaved
<1>6. PenMarks(UNION saved) =
        (PenMarks(UNION saved) \ canvas)
          \cup {m \in PenMarks(canvas) : m[1] <= LastFinished}
  BY <1>4, <1>5 DEF PenMarks
<1>7. (PenMarks(UNION prev) \ UNION saved)' = PenMarks(UNION prev) \ UNION saved
  BY <1>1 DEF PenMarks
<1>8. QED
  BY <1>1, <1>2, <1>3, <1>6, <1>7 DEF Undoing!Clear, Undoing!Finished, LastFinished

LEMMA DrawDraws ==
  ASSUME SafeInv, UndoInv, DrawInside
  PROVE  Undoing!Draw
<1>1. /\ drawing' = TRUE /\ lines' = LastFinished + 1 /\ lines' # 0
      /\ LastFinished < lines'
  BY DEF DrawInside, LastFinished, UndoInv, SafeInv, MarksOK
<1>2. UNCHANGED <<saved, prev>>
  BY DEF DrawInside, saveVars
<1>3. \/ canvas' = canvas
      \/ canvas' = canvas \cup {<<lines', marks + 1>>}
  BY DEF DrawInside, Paint
<1>4. \/ PenMarks(canvas)' = PenMarks(canvas)
      \/ \E m \in PenMarks(canvas)' :
           m[1] = lines' /\ PenMarks(canvas)' = PenMarks(canvas) \cup {m}
  <2>1. CASE canvas' = canvas
    BY <2>1 DEF PenMarks
  <2>2. CASE canvas' = canvas \cup {<<lines', marks + 1>>}
    <3> DEFINE new == <<lines', marks + 1>>
    <3>1. canvas' = canvas \cup {new} /\ new[1] = lines'
      BY <2>2
    <3>2. PenMarks(canvas)' = PenMarks(canvas) \cup {new}
      BY <1>1, <3>1 DEF PenMarks
    <3>3. QED
      BY <3>1, <3>2
  <2>3. QED
    BY <1>3, <2>1, <2>2
<1>5. (PenMarks(UNION saved) \ canvas)' = PenMarks(UNION saved) \ canvas
  <2>1. \A m \in UNION saved : m[1] <= LastFinished /\ m[1] \in Int
    BY DEF UndoInv, SafeInv, MarksOK, Mark
  <2>2. <<lines', marks + 1>> \notin UNION saved
    <3>1. <<lines', marks + 1>>[1] = lines'
      OBVIOUS
    <3>2. ~(lines' <= LastFinished)
      BY <1>1, FinishedIsNat
    <3>3. QED
      BY <2>1, <3>1, <3>2
  <2>3. PenMarks(UNION saved)' = PenMarks(UNION saved)
    BY <1>2 DEF PenMarks
  <2>4. \A m \in PenMarks(UNION saved) : m \in UNION saved
    BY DEF PenMarks
  <2>5. \A m \in PenMarks(UNION saved) : m \in canvas' <=> m \in canvas
    BY <1>3, <2>2, <2>4
  <2>6. QED
    BY <2>3, <2>5
<1>6. (PenMarks(UNION prev) \ UNION saved)' = PenMarks(UNION prev) \ UNION saved
  BY <1>2 DEF PenMarks
<1>7. (prev # {})' = (prev # {})
  BY <1>2
<1>8. QED
  BY <1>1, <1>4, <1>5, <1>6, <1>7
     DEF Undoing!Draw, Undoing!Finished, Undoing!clearVars, LastFinished

LEMMA LiftFinishes ==
  ASSUME SafeInv, UndoInv, Lift
  PROVE  Undoing!Finish \/ UNCHANGED Undoing!undoVars
<1>1. canvas' = canvas /\ lines' = lines /\ drawing' = FALSE
  BY DEF Lift
<1>2. PenMarks(canvas)' = PenMarks(canvas)
  BY <1>1 DEF PenMarks
<1>3. CASE drawing
  <2>1. saved' = {canvas} /\ prev' = saved
    BY <1>3 DEF Lift, SaveCanvas, SafeInv, SaveInv
  <2>2. (saved = {} <=> LastFinished = 0) /\ LastFinished >= 0
    BY DEF UndoInv, Lift, Ready
  <2>3. (prev' # {}) <=> LastFinished > 0
    BY <2>1, <2>2, FinishedIsNat
  <2>4. (PenMarks(UNION saved) \ canvas)' = {}
    BY <1>1, <2>1 DEF PenMarks
  <2>5. (PenMarks(UNION prev) \ UNION saved)' = PenMarks(UNION saved) \ canvas
    BY <2>1 DEF PenMarks
  <2>6. (prev # {})' = (Undoing!Finished > 0)
    <3>1. Undoing!Finished = LastFinished
      BY DEF Undoing!Finished, LastFinished
    <3>2. QED
      BY <2>3, <3>1
  <2>7. QED
    BY <1>1, <1>2, <1>3, <2>4, <2>5, <2>6 DEF Undoing!Finish
<1>4. CASE ~drawing
  <2>1. UNCHANGED <<lines, drawing, saved, prev>>
    BY <1>1, <1>4 DEF Lift, SafeInv, MarksOK
  <2>2. QED
    BY <1>2, <2>1, NoPenLine
<1>5. QED
  BY <1>3, <1>4

\* A copy that is written back lacks no pen line.
LEMMA RestoreAddsNoPenLine ==
  ASSUME SafeInv, Restore
  PROVE  UNCHANGED PenMarks(canvas)
<1>1. canvas' = buff \cup {<<0, marks + 1>>}
  BY DEF Restore, Paint
<1>2. buff \subseteq canvas /\ \A m \in canvas \ buff : m[1] = 0
  BY DEF Restore, SafeInv, SaveInv
<1>3. QED
  BY <1>1, <1>2 DEF PenMarks

\* After an undo the canvas is saved anew.
LEMMA UndoSavesNothingNew ==
  ASSUME SafeInv, UndoSaves
  PROVE  UNCHANGED Undoing!undoVars
<1>1. saved = {} /\ prev = {} /\ saved' = {canvas} /\ prev' = {}
  BY DEF UndoSaves, SaveCanvas, SafeInv, SaveInv
<1>2. UNCHANGED <<canvas, lines, drawing>>
  BY DEF UndoSaves, penVars
<1>3. UNCHANGED PenMarks(canvas)
  BY <1>2 DEF PenMarks
<1>4. PenMarks(UNION saved) \ canvas = {} /\ PenMarks(UNION prev) \ UNION saved = {}
  BY <1>1 DEF PenMarks
<1>5. /\ (PenMarks(UNION saved) \ canvas)' = {}
      /\ (PenMarks(UNION prev) \ UNION saved)' = {}
  BY <1>1, <1>2 DEF PenMarks
<1>6. (prev # {})' = (prev # {})
  BY <1>1
<1>7. QED
  BY <1>2, <1>3, <1>4, <1>5, <1>6 DEF Undoing!undoVars, Undoing!clearVars

LEMMA OneUndoStep ==
  ASSUME SafeInv, UndoInv, [Next]_vars
  PROVE  [Undoing!Next]_Undoing!undoVars
<1>1. CASE TapButton
  BY <1>1, ClickUndoes DEF TapButton, Ready, penVars, Undoing!Next
<1>2. CASE UndoSaves
  BY <1>2, UndoSavesNothingNew
<1>3. CASE Restore
  BY <1>3, RestoreAddsNoPenLine, NoPenLine DEF Restore, penVars
<1>4. CASE DrawInside
  BY <1>4, DrawDraws DEF Undoing!Next
<1>5. CASE DrawOutside
  <2>1. CASE Clicked
    BY <1>5, <2>1, ClickUndoes DEF DrawOutside, Ready, Undoing!Next
  <2>2. CASE UNCHANGED <<canvas, saveVars>>
    BY <1>5, <2>2, NoPenLine DEF DrawOutside, saveVars, PenMarks
  <2>3. QED
    BY <1>5, <2>1, <2>2 DEF DrawOutside
<1>6. CASE Lift
  BY <1>6, LiftFinishes DEF Undoing!Next
<1>7. CASE TouchCanvas \/ Companion
  <2>1. canvas' = canvas \cup {<<0, marks + 1>>}
    BY <1>7 DEF TouchCanvas, Companion, Paint
  <2>2. UNCHANGED <<saved, prev, drawing, lines>>
    BY <1>7 DEF TouchCanvas, Companion, saveVars, penVars
  <2>3. PenMarks(canvas)' = PenMarks(canvas)
    BY <2>1 DEF PenMarks
  <2>4. QED
    BY <2>2, <2>3, NoPenLine
<1>8. CASE HoverFar \/ ToolPen \/ OtherTool \/ RightButton \/ PowerButton
             \/ UNCHANGED vars
  <2>1. UNCHANGED <<canvas, saved, prev, drawing, lines>>
    BY <1>8 DEF HoverFar, ToolPen, OtherTool, RightButton, PowerButton, vars,
       saveVars, penVars
  <2>2. QED
    BY <2>1, NoPenLine DEF PenMarks
<1>9. CASE MiddleOrLeftButton
  BY <1>9, ClearClears DEF Undoing!Next
<1>10. QED
  BY <1>1, <1>2, <1>3, <1>4, <1>5, <1>6, <1>7, <1>8, <1>9 DEF Next

\* Two saved canvases, taken and emptied in the order of the code, and a clear
\* button that knows of neither amount to one undo of exactly the last finished
\* line, which brings back what was cleared since the line before it ended.
THEOREM OneUndoRefinement == Spec => ImplementsOneUndo
<1>1. Init => Undoing!Init
  <2> SUFFICES ASSUME Init PROVE Undoing!Init
    OBVIOUS
  <2>1. canvas = {} /\ saved = {} /\ prev = {} /\ lines = 0 /\ drawing = FALSE
    BY DEF Init
  <2>2. PenMarks(canvas) = {} /\ PenMarks(UNION saved) = {} /\ PenMarks(UNION prev) = {}
    BY <2>1 DEF PenMarks
  <2>3. QED
    BY <2>1, <2>2 DEF Undoing!Init
<1>2. QED
  BY <1>1, InitSafe, NextSafe, UndoInit, UndoNext, OneUndoStep, PTL
     DEF Spec, ImplementsOneUndo, Undoing!Spec

-----------------------------------------------------------------------------
(* The brush.                                                              *)

\* A clamped width is never zero, so its sign is not lost.
LEMMA ClampedIsAWidth ==
  ASSUME NEW n \in Int
  PROVE  Clamped(n) \in 1..MaxSize
BY AppAssumption DEF Clamped

\* A change of width leaves the eraser an eraser and the pen a pen.
THEOREM WidthNeverFlips == Spec => WidthKeepsInk
<1>1. ASSUME SafeInv, [Next]_vars
      PROVE  Size(brush') # Size(brush) => Erasing(brush') = Erasing(brush)
  <2>1. brush \in Int
    BY <1>1 DEF SafeInv, MarksOK
  <2>2. \/ brush' = brush
        \/ brush' = Toggled(brush)
        \/ \E delta \in WidthSteps : ChangeBrushWidth(delta)
    BY <1>1 DEF Next, TapButton, UndoSaves, Restore, DrawInside, DrawOutside, Lift,
       HoverFar, ToolPen, OtherTool, TouchCanvas, RightButton, MiddleOrLeftButton,
       PowerButton, Companion, Clicked, vars, modeVars
  <2>3. CASE brush' = brush \/ brush' = Toggled(brush)
    BY <2>1, <2>3 DEF Toggled, Size
  <2>4. CASE \E delta \in WidthSteps : ChangeBrushWidth(delta)
    <3>1. PICK delta \in WidthSteps : ChangeBrushWidth(delta)
      BY <2>4
    <3>2. Size(brush) + delta \in Int
      BY <2>1, AppAssumption DEF Size, WidthSteps
    <3>3. Clamped(Size(brush) + delta) \in 1..MaxSize
      BY <3>2, ClampedIsAWidth
    <3>4. QED
      BY <2>1, <3>1, <3>3, AppAssumption DEF ChangeBrushWidth, Erasing
  <2>5. QED
    BY <2>2, <2>3, <2>4
<1>2. QED
  BY <1>1, InitSafe, NextSafe, PTL DEF Spec, WidthKeepsInk

-----------------------------------------------------------------------------
(* Type correctness: MarksOK above, and the rest.                          *)

ModesOK ==
  /\ ui \in {"ready", "restored", "dumped", "inverting"}
  /\ brush \in (-MaxSize)..MaxSize /\ touchMode \in TouchModes
  /\ wacom \in 0..2
  /\ app \in {"running", "exited", "panicked"}

SwitchesOK == unpressed \in BOOLEAN /\ inRange \in BOOLEAN /\ touch \in BOOLEAN

\* A toggled or widened brush stays within its bounds.
LEMMA BrushInRange ==
  ASSUME brush \in (-MaxSize)..MaxSize,
         \/ brush' = brush
         \/ brush' = Toggled(brush)
         \/ \E delta \in WidthSteps : ChangeBrushWidth(delta)
  PROVE  brush' \in (-MaxSize)..MaxSize
<1>1. MaxSize \in Nat /\ Skip \in Nat
  BY AppAssumption
<1>2. CASE brush' = brush \/ brush' = Toggled(brush)
  BY <1>1, <1>2 DEF Toggled
<1>3. CASE \E delta \in WidthSteps : ChangeBrushWidth(delta)
  <2>1. PICK delta \in WidthSteps : ChangeBrushWidth(delta)
    BY <1>3
  <2>2. Size(brush) + delta \in Int
    BY <1>1 DEF Size, WidthSteps
  <2>3. Clamped(Size(brush) + delta) \in 1..MaxSize
    BY <2>2, ClampedIsAWidth
  <2>4. QED
    BY <1>1, <2>1, <2>3 DEF ChangeBrushWidth
<1>4. QED
  BY <1>2, <1>3

LEMMA ClickModes ==
  ASSUME ModesOK, Clicked
  PROVE  /\ brush' \in (-MaxSize)..MaxSize /\ touchMode' \in TouchModes
         /\ ui' \in {"ready", "restored", "dumped", "inverting"}
<1>1. brush' \in (-MaxSize)..MaxSize
  BY BrushInRange DEF Clicked, modeVars, ModesOK
<1>2. touchMode' \in TouchModes
  BY DEF Clicked, modeVars, ModesOK, ToggleTouchMode, TouchModes
<1>3. ui' \in {"ready", "restored", "dumped", "inverting"}
  BY DEF Clicked, OnUndo, Dump, saveVars, ModesOK
<1>4. QED
  BY <1>1, <1>2, <1>3

LEMMA NextModes == ModesOK /\ [Next]_vars => ModesOK'
<1> SUFFICES ASSUME ModesOK, [Next]_vars PROVE ModesOK'
  OBVIOUS
<1>1. CASE TapButton
  BY <1>1, ClickModes DEF TapButton, penVars, deviceVars, ModesOK
<1>2. CASE DrawOutside
  <2>1. wacom' = 0 /\ app' = app
    BY <1>2 DEF DrawOutside, deviceVars
  <2>2. CASE Clicked
    BY <2>1, <2>2, ClickModes DEF ModesOK
  <2>3. CASE UNCHANGED <<saveVars, modeVars>>
    BY <2>1, <2>3 DEF saveVars, modeVars, ModesOK
  <2>4. QED
    BY <1>2, <2>2, <2>3 DEF DrawOutside
<1>3. CASE Restore
  <2>1. brush' \in (-MaxSize)..MaxSize
    BY <1>3, BrushInRange DEF Restore, ModesOK
  <2>2. ui' = "ready" /\ UNCHANGED <<touchMode, penVars, deviceVars>>
    BY <1>3 DEF Restore
  <2>3. QED
    BY <2>1, <2>2 DEF penVars, deviceVars, ModesOK
<1>4. CASE DrawInside
  BY <1>4 DEF DrawInside, saveVars, modeVars, deviceVars, ModesOK
<1>5. CASE UndoSaves \/ Lift \/ HoverFar \/ ToolPen \/ OtherTool \/ RightButton
             \/ PowerButton \/ UNCHANGED vars
  <2>1. /\ UNCHANGED modeVars
        /\ ui' = "ready" \/ ui' = ui
        /\ wacom' = 0 \/ wacom' = wacom
        /\ app' = "exited" \/ app' = "panicked" \/ app' = app
    BY <1>5 DEF UndoSaves, Lift, HoverFar, ToolPen, OtherTool, RightButton,
       PowerButton, vars, saveVars, penVars, deviceVars
  <2>2. QED
    BY <2>1 DEF ModesOK, modeVars
<1>6. CASE TouchCanvas \/ MiddleOrLeftButton \/ Companion
  BY <1>6 DEF TouchCanvas, MiddleOrLeftButton, Companion, saveVars, modeVars,
     penVars, deviceVars, ModesOK
<1>7. QED
  BY <1>1, <1>2, <1>3, <1>4, <1>5, <1>6 DEF Next

LEMMA NextSwitches == SwitchesOK /\ [Next]_vars => SwitchesOK'
<1> SUFFICES ASSUME SwitchesOK, [Next]_vars PROVE SwitchesOK'
  OBVIOUS
<1>1. unpressed' = TRUE \/ unpressed' = FALSE \/ unpressed' = unpressed
  BY DEF Next, TapButton, UndoSaves, Restore, DrawInside, DrawOutside, Lift, HoverFar,
     ToolPen, OtherTool, TouchCanvas, RightButton, MiddleOrLeftButton, PowerButton,
     Companion, vars, penVars
<1>2. inRange' = ~inRange \/ inRange' = inRange
  BY DEF Next, TapButton, UndoSaves, Restore, DrawInside, DrawOutside, Lift, HoverFar,
     ToolPen, OtherTool, TouchCanvas, RightButton, MiddleOrLeftButton, PowerButton,
     Companion, vars, deviceVars
<1>3. touch' = ~touch \/ touch' = touch
  BY DEF Next, TapButton, UndoSaves, Restore, DrawInside, DrawOutside, Lift, HoverFar,
     ToolPen, OtherTool, TouchCanvas, RightButton, MiddleOrLeftButton, PowerButton,
     Companion, vars, deviceVars
<1>4. QED
  BY <1>1, <1>2, <1>3 DEF SwitchesOK

\* The types of the canvases, the modes and the devices; the brush never gets
\* wider than MaxSize, drawing or erasing.
THEOREM TypeCorrect == Spec => []TypeOK
<1>1. Init => ModesOK
  <2>1. 0 \in (-MaxSize)..MaxSize
    BY AppAssumption
  <2>2. QED
    BY <2>1 DEF Init, ModesOK, TouchModes, OnlyUI
<1>2. Init => SwitchesOK
  BY DEF Init, SwitchesOK
<1>3. SafeInv /\ ModesOK /\ SwitchesOK => TypeOK
  BY DEF SafeInv, MarksOK, ModesOK, SwitchesOK, TypeOK
<1>4. QED
  BY <1>1, <1>2, <1>3, InitSafe, NextSafe, NextModes, NextSwitches, PTL DEF Spec
=============================================================================
