------------------------------ MODULE Buttons ------------------------------
(***************************************************************************)
(* The two toolbar buttons of the whiteboard tablet (buttons.rs), held with *)
(* a finger while the pen draws.  A button tracks one finger, by the        *)
(* tracking id the touch screen gives it; the areas of the buttons are      *)
(* disjoint.  Every touch event is offered to both buttons (on_tch).        *)
(***************************************************************************)
EXTENDS Integers

CONSTANT Fingers   \* tracking ids

\* -1 stands for "not pressed"; press() and unpress() assert it is no finger.
ASSUME FingersAssumption == Fingers \subseteq Nat

Off == -1

VARIABLES inner,   \* the finger each button tracks, or Off
          at       \* where the touch screen last reported each finger

buttonVars == <<inner, at>>

Btns == {"erase", "times3"}
Places == Btns \cup {"elsewhere", "up"}

ButtonsTypeOK ==
  /\ inner \in [Btns -> Fingers \cup {Off}]
  /\ at \in [Fingers -> Places]

ButtonsInit ==
  /\ inner = [b \in Btns |-> Off]
  /\ at = [f \in Fingers |-> "up"]

IsPressed(b) == inner[b] # Off

\* Mutant of ProcessEvent: sliding off the button does not reset it.
StickyEvent(b, f, place) ==
  IF place = b THEN f
  ELSE IF place = "up" /\ inner[b] = f THEN Off ELSE inner[b]

\* What button b tracks after finger f was reported at place.  A finger on
\* the button takes it over whichever finger it tracked (swap); elsewhere or
\* lifted, it resets the button only if it is the one (compare_exchange).
ProcessEvent(b, f, place) ==
  IF place = b THEN f ELSE IF inner[b] = f THEN Off ELSE inner[b]

OnTch(f, place) ==
  /\ at[f] = "up" => place # "up"
  /\ at' = [at EXCEPT ![f] = place]
  /\ inner' = [b \in Btns |-> ProcessEvent(b, f, place)]

-----------------------------------------------------------------------------
\* A pressed button has the finger it tracks on it, however two hands come,
\* slide and go: no order of touches leaves the eraser or the wide pen stuck.
PressedByAFinger ==
  \A b \in Btns : IsPressed(b) => inner[b] \in Fingers /\ at[inner[b]] = b
=============================================================================
