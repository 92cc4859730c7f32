SPECIFICATION FairSpec
CONSTANTS
  Fingers <- TwoHands
  MaxInputs = 7
CHECK_DEADLOCK FALSE
INVARIANTS TypeOK PressedByAFinger PointsInOrder OthersGetEverySegment OneInkLooksTheSame
PROPERTIES ImplementsRelay DrawingsAreSent
