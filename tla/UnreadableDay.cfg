SPECIFICATION Spec
CONSTANTS
  W = 11
  FirstDay <- Summer
  LastDay <- Summer
  LinesOn <- FarLines
INVARIANT StoredDayIsReadable
CHECK_DEADLOCK FALSE
