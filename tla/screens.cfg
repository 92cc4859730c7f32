SPECIFICATION FairSpec
CONSTANTS
  t1 = t1  t2 = t2
  blank = blank  line = line  none = none
  Tablets = {t1, t2}
  Pictures = {blank, line}
  Blank = blank
  None = none
  WakeupEvery = 2
  MaxEdits = 2
  MaxFailures = 1
  MaxLosses = 1
INVARIANTS TypeOK SkippedWasStored
PROPERTIES LastCanvasStored PageCatchesUp
