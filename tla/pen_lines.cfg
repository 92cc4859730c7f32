SPECIFICATION Spec
CONSTANTS
  Fingers <- OneHand
  MaxInputs = 5
CHECK_DEADLOCK FALSE
INVARIANT LiftsSeparateLines
