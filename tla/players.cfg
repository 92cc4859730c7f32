SPECIFICATION FairSpec
CONSTANTS
  JsonlRing = 4
  NdjsonRing = 2
  MaxInputs = 9
  MaxStrokes = 8
  U8 <- SmallU8
  U16 <- SmallU16
  I16 <- SmallI16
  Writings <- ThreeWords
CHECK_DEADLOCK FALSE
INVARIANTS TypeOK ShownIsHeld LeftoversOnlyAfterError DrawsWhatIsWritten
PROPERTIES OldestGoesFirst XochitlReturns
