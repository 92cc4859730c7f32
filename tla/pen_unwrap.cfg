SPECIFICATION Spec
CONSTANTS
  Fingers <- OneHand
  MaxInputs = 6
CHECK_DEADLOCK FALSE
INVARIANT SendNeverPanics
