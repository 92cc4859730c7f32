----------------------------- MODULE DrawingApp -----------------------------
(***************************************************************************)
(* The stand-alone drawing application (bin/marauder.rs, modes/*.rs).      *)
(*                                                                         *)
(* One thread runs the event loop and all callbacks; a companion thread    *)
(* paints glyphs on the same framebuffer.  The canvas is saved when a line *)
(* ends, in SAVED_CANVAS, and what that held before moves on to            *)
(* SAVED_CANVAS_PREV, which "Undo" restores.  Zoom, blur and invert dump   *)
(* the canvas, change the copy and write it back.  Two of the physical     *)
(* buttons clear the framebuffer and leave what is saved as it is.         *)
(*                                                                         *)
(* A canvas is the set of marks it was made with: a mark is <<line, n>>    *)
(* for the n-th thing painted, part of a pen line or, with line 0, a       *)
(* glyph, a finger's shape, or a change of the whole canvas.  Marks that a *)
(* later one hides are still there.  The Option around a saved canvas is a *)
(* set with at most one member.                                            *)
(***************************************************************************)
EXTENDS Integers

CONSTANTS MaxSize,   \* the widest brush, 99 in the code
          Skip,      \* the step of "--" and "++", 10 in the code
          MaxMarks, MaxLines   \* bounds on what is painted

ASSUME AppAssumption ==
  /\ MaxSize \in Nat \ {0} /\ Skip \in Nat \ {0}
  /\ MaxMarks \in Nat /\ MaxLines \in Nat

VARIABLES canvas,     \* what the framebuffer shows of CANVAS_REGION
          saved,      \* SAVED_CANVAS
          prev,       \* SAVED_CANVAS_PREV
          ui,         \* "ready", or in the middle of a button's handler
          buff,       \* the canvas such a handler dumped
          brush,      \* G_DRAW_MODE
          touchMode,  \* G_TOUCH_MODE
          wacom,      \* how many points WACOM_HISTORY holds
          drawing,    \* DRAWING
          unpressed,  \* UNPRESS_OBSERVED
          inRange,    \* WACOM_IN_RANGE
          touch,      \* whether multitouch is active
          app,        \* "running", "exited" or "panicked"
          lines,      \* history: how many lines were begun
          marks,      \* history: how many marks were painted
          undone      \* history: which of them an undo left off the canvas

saveVars == <<saved, prev, ui, buff, undone>>
modeVars == <<brush, touchMode>>
penVars == <<wacom, drawing, unpressed, lines>>
deviceVars == <<inRange, touch, app>>
vars == <<canvas, saveVars, modeVars, penVars, deviceVars, marks>>

Mark == Nat \X Nat
TouchModes == 1..5   \* OnlyUI, Bezier, Circles, Diamonds, FillDiamonds
OnlyUI == 1

TypeOK ==
  /\ canvas \subseteq Mark /\ buff \subseteq Mark
  /\ \A c \in saved \cup prev : c \subseteq Mark
  /\ ui \in {"ready", "restored", "dumped", "inverting"}
  /\ brush \in (-MaxSize)..MaxSize /\ touchMode \in TouchModes
  /\ wacom \in 0..2
  /\ drawing \in BOOLEAN /\ unpressed \in BOOLEAN
  /\ inRange \in BOOLEAN /\ touch \in BOOLEAN
  /\ app \in {"running", "exited", "panicked"}
  /\ lines \in Nat /\ marks \in Nat
  /\ undone \subseteq 1..marks

Init ==
  /\ canvas = {} /\ buff = {} /\ ui = "ready"
  /\ saved = {} /\ prev = {}
  /\ brush = 0 /\ touchMode = OnlyUI
  /\ wacom = 0 /\ drawing = FALSE /\ unpressed = FALSE
  /\ inRange = FALSE /\ touch = TRUE
  /\ app = "running"
  /\ lines = 0 /\ marks = 0 /\ undone = {}

Ready == app = "running" /\ ui = "ready"

Paint(c, line) ==
  /\ marks < MaxMarks /\ marks' = marks + 1
  /\ canvas' = c \cup {<<line, marks + 1>>}

-----------------------------------------------------------------------------
(* Saving and undoing.                                                     *)

\* save_canvas
SaveCanvas ==
  /\ saved' = {canvas}
  /\ prev' = IF saved = {} THEN prev ELSE saved

NotOn(c) == {n \in 1..marks : \A m \in c : m[2] # n}

\* Mutant of OnUndo: SAVED_CANVAS keeps what was undone.
UndoKeepsSaved ==
  IF prev = {} THEN UNCHANGED <<canvas, saveVars, marks>>
  ELSE /\ canvas' \in prev
       /\ prev' = {} /\ ui' = "restored"
       /\ undone' = undone \cup NotOn(canvas')
       /\ UNCHANGED <<saved, buff, marks>>

\* on_undo up to the point where the canvas is saved again
OnUndo ==
  IF prev = {} THEN UNCHANGED <<canvas, saveVars, marks>>
  ELSE /\ canvas' \in prev
       /\ prev' = {} /\ saved' = {} /\ ui' = "restored"
       /\ undone' = undone \cup NotOn(canvas')
       /\ UNCHANGED <<buff, marks>>

UndoSaves ==
  /\ app = "running" /\ ui = "restored"
  /\ SaveCanvas
  /\ ui' = "ready"
  /\ UNCHANGED <<canvas, buff, undone, modeVars, penVars, deviceVars, marks>>

\* on_zoom_out, on_blur_canvas and on_invert_canvas dump the canvas ...
Dump(next) ==
  /\ buff' = canvas /\ ui' = next
  /\ UNCHANGED <<canvas, saved, prev, undone, marks>>

-----------------------------------------------------------------------------
(* The brush, one integer: drawing if it is not negative, else erasing.    *)

Erasing(i) == i < 0
Size(i) == IF i < 0 THEN -i ELSE i

Toggled(i) == -i

\* Mutants of Clamped: from no width at all; one too wide.
ClampedToZero(n) == IF n < 0 THEN 0 ELSE IF n > MaxSize THEN MaxSize ELSE n
ClampedTooWide(n) == IF n < 1 THEN 1 ELSE IF n > MaxSize THEN MaxSize + 1 ELSE n

Clamped(n) == IF n < 1 THEN 1 ELSE IF n > MaxSize THEN MaxSize ELSE n

\* The buttons "--", "-", "+" and "++".
WidthSteps == {-Skip, -1, 1, Skip}

ChangeBrushWidth(delta) ==
  LET size == Clamped(Size(brush) + delta)
  IN  brush' = IF Erasing(brush) THEN -size ELSE size

ToggleTouchMode == touchMode' = IF touchMode = 5 THEN 1 ELSE touchMode + 1

-----------------------------------------------------------------------------
(* The event loop.                                                         *)

\* A button outside the canvas.
Clicked ==
  \/ OnUndo /\ UNCHANGED modeVars
  \/ \E next \in {"dumped", "inverting"} : Dump(next) /\ UNCHANGED modeVars
  \/ /\ \/ brush' = Toggled(brush) /\ UNCHANGED touchMode
        \/ \E delta \in WidthSteps :
             ChangeBrushWidth(delta) /\ UNCHANGED touchMode
        \/ ToggleTouchMode /\ UNCHANGED brush
     /\ UNCHANGED <<canvas, saveVars, marks>>

\* ... and write the changed copy back, over what was painted meanwhile.
Restore ==
  /\ app = "running" /\ ui \in {"dumped", "inverting"}
  /\ Paint(buff, 0)
  /\ ui' = "ready"
  /\ brush' = IF ui = "inverting" THEN Toggled(brush) ELSE brush
  /\ UNCHANGED <<saved, prev, buff, undone, touchMode, penVars, deviceVars>>

TapButton ==
  /\ Ready /\ touch
  /\ Clicked
  /\ UNCHANGED <<penVars, deviceVars>>

\* Draw inside the canvas: every third point paints.
DrawInside ==
  /\ Ready
  /\ IF drawing THEN UNCHANGED lines
     ELSE lines < MaxLines /\ lines' = lines + 1
  /\ drawing' = TRUE
  /\ IF wacom < 2
     THEN wacom' = wacom + 1 /\ UNCHANGED <<canvas, marks>>
     ELSE wacom' = 2 /\ Paint(canvas, lines')
  /\ UNCHANGED <<saveVars, modeVars, unpressed, deviceVars>>

\* Draw outside: the stylus clicks the button it is on, if it hovered since
\* it last clicked.
DrawOutside ==
  /\ Ready
  /\ wacom' = 0 /\ unpressed' = FALSE
  /\ \/ unpressed /\ Clicked
     \/ UNCHANGED <<canvas, saveVars, modeVars, marks>>
  /\ UNCHANGED <<drawing, lines, deviceVars>>

\* Mutant of Lift: a line that ends is not saved.
LiftUnsaved ==
  /\ Ready
  /\ wacom' = 0 /\ drawing' = FALSE
  /\ UNCHANGED <<canvas, saveVars, modeVars, unpressed, lines, deviceVars, marks>>

\* Another: it is saved whether a line ends or not, as after a mere touch.
LiftAlwaysSaves ==
  /\ Ready
  /\ wacom' = 0 /\ drawing' = FALSE
  /\ SaveCanvas
  /\ UNCHANGED <<canvas, ui, buff, undone, modeVars, unpressed, lines,
                 deviceVars, marks>>

\* The pen loses contact.
Lift ==
  /\ Ready
  /\ wacom' = 0 /\ drawing' = FALSE
  /\ IF drawing THEN SaveCanvas ELSE UNCHANGED <<saved, prev>>
  /\ UNCHANGED <<canvas, ui, buff, undone, modeVars, unpressed, lines,
                 deviceVars, marks>>

HoverFar ==
  /\ Ready
  /\ wacom' = 0 /\ unpressed' = TRUE
  /\ UNCHANGED <<canvas, saveVars, modeVars, drawing, lines, deviceVars, marks>>

ToolPen ==
  /\ Ready
  /\ inRange' = ~inRange
  /\ UNCHANGED <<canvas, saveVars, modeVars, penVars, touch, app, marks>>

\* Any other instrument is unreachable!().
OtherTool ==
  /\ Ready
  /\ app' = "panicked"
  /\ UNCHANGED <<canvas, saveVars, modeVars, penVars, inRange, touch, marks>>

\* on_touch_handler
TouchCanvas ==
  /\ Ready /\ touch /\ touchMode # OnlyUI
  /\ Paint(canvas, 0)
  /\ UNCHANGED <<saveVars, modeVars, penVars, deviceVars>>

\* on_button_press, filtered while the pen is in range
RightButton ==
  /\ Ready /\ ~inRange
  /\ touch' = ~touch
  /\ UNCHANGED <<canvas, saveVars, modeVars, penVars, inRange, app, marks>>

\* app.clear(): neither saved canvas is told.
MiddleOrLeftButton ==
  /\ Ready /\ ~inRange
  /\ canvas' = {}
  /\ UNCHANGED <<saveVars, modeVars, penVars, deviceVars, marks>>

PowerButton ==
  /\ Ready /\ ~inRange
  /\ app' = "exited"
  /\ UNCHANGED <<canvas, saveVars, modeVars, penVars, inRange, touch, marks>>

\* The companion thread, whatever the event loop is doing.
Companion ==
  /\ app = "running"
  /\ Paint(canvas, 0)
  /\ UNCHANGED <<saveVars, modeVars, penVars, deviceVars>>

Next ==
  \/ TapButton \/ UndoSaves \/ Restore
  \/ DrawInside \/ DrawOutside \/ Lift \/ HoverFar \/ ToolPen \/ OtherTool
  \/ TouchCanvas \/ RightButton \/ MiddleOrLeftButton \/ PowerButton
  \/ Companion

Spec == Init /\ [][Next]_vars

-----------------------------------------------------------------------------
LastFinished == IF drawing THEN lines - 1 ELSE lines

\* What an undo left off the canvas never shows again: no saved canvas and
\* no dumped copy brings it back, although an undo does bring back what the
\* clear button took off.
UndoneStaysUndone == \A m \in canvas : m[2] \notin undone

\* What the canvas shows of the pen lines is what module OneUndo promises:
\* two saved canvases, one of them emptied before it is saved again, and a
\* clear button that knows of neither, amount to one undo that takes exactly
\* the last finished line, whatever zoom, blur, invert, fingers and the
\* companion paint around it.
PenMarks(c) == {m \in c : m[1] # 0}

Undoing == INSTANCE OneUndo
  WITH page <- PenMarks(canvas), count <- lines, undoable <- prev # {},
       cleared <- PenMarks(UNION saved) \ canvas,
       clearedBefore <- PenMarks(UNION prev) \ UNION saved

ImplementsOneUndo == Undoing!Spec

\* Between lines the saved canvas holds every pen line that is shown: the
\* next line can be undone without losing another.
SavedHasAllLines ==
  ui = "ready" =>
    \A m \in canvas :
      \/ m[1] = 0
      \/ drawing /\ m[1] = lines
      \/ \E s \in saved : m \in s

\* Why undo is safe: an inductive invariant behind the properties above.
\* What SAVED_CANVAS lacks of the canvas is of the line in progress, what
\* PREV lacks of SAVED_CANVAS is at most one finished line; a handler that
\* will write a copy back has one that lacks only what the companion painted.
\* Neither holds what was undone.
SaveInv ==
  /\ \A m \in canvas : m[1] = 0 \/ (drawing /\ m[1] = lines)
       \/ IF saved = {} THEN ui = "restored" ELSE \A s \in saved : m \in s
  /\ prev # {} => saved # {}
  /\ \A p \in prev, s \in saved : \A m \in s \ p : m[1] = 0 \/ m[1] >= LastFinished
  /\ \A m \in canvas \cup UNION (saved \cup prev) :
       m[1] <= lines /\ m[2] \notin undone
  /\ ui = "restored" => saved = {} /\ prev = {}
  /\ ui \in {"dumped", "inverting"} =>
       buff \subseteq canvas /\ \A m \in canvas \ buff : m[1] = 0

\* Exactly: what is saved is the canvas as it was when the last line ended, and
\* PREV as it was when the one before ended.
UndoInv ==
  /\ LastFinished >= 0
  /\ \A p \in prev : \A m \in p : m[1] < LastFinished
  /\ \A s \in saved : \A m \in s : m[1] <= LastFinished
  /\ prev # {} => LastFinished > 0
  /\ saved = {} <=> LastFinished = 0 \/ ui = "restored"
  /\ ui = "restored" => LastFinished > 0 /\ \A m \in canvas : m[1] <= LastFinished

\* Whichever buttons are used, a change of width does not turn the eraser
\* into a pen: the sign of G_DRAW_MODE survives.
WidthKeepsInk ==
  [][Size(brush') # Size(brush) => Erasing(brush') = Erasing(brush)]_vars

\* marauder.rs:213 "Invert the draw color as well for more natural UX".
InvertInvertsInk ==
  [][ui = "inverting" /\ ui' = "ready" => Erasing(brush') # Erasing(brush)]_vars
=============================================================================
