SPECIFICATION FairSpec
CONSTANTS
  MaxPushes = 2
  MaxReruns = 1
  MinVersions = 2
  MaxPowerCuts = 1
  MaxOutages = 1
INVARIANTS BinaryIsWhole RestsOnCheckedImage LatestIsNewestPublished
PROPERTIES UpdatesMoveForward GoodLatestIsServed
CHECK_DEADLOCK FALSE
