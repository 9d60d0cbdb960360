SPECIFICATION Spec
CONSTANTS
  W = 11
  FirstDay <- LeapWinter
  LastDay <- NextSpring
  LinesOn <- Lines
INVARIANTS ShortDateIsRecent BoxSaysWhatIsStored AmountIsTheOneTyped
PROPERTY EditKeepsOrdinaryDate
CHECK_DEADLOCK FALSE
