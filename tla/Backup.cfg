SPECIFICATION FairSpec
CONSTANTS
  MaxDay = 6
  Firsts = {4}
  Window = 3
  MaxFaults = 2
INVARIANTS OnlySoundSnapshots DailiesNeverRunOut LastDaysAreKept NamesAreTrue RecentOrAlarmed
PROPERTY NightIsMadeUp
CHECK_DEADLOCK FALSE
