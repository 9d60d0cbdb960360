SPECIFICATION GuardSpec
CONSTANTS
  Clients = {c1, c2, c3}
  MaxAttempts = 2
  Window = 2
  SweepThreshold = 2
  MaxTime = 7
  DayLength = 2
  MaxAge = 1
  MaxKey = 2
  MaxInFlight = 1
SYMMETRY ClientSymmetry
INVARIANT SessionLastsWhileUsed
PROPERTIES BudgetSpec FloodIsSwept
CHECK_DEADLOCK FALSE
