SPECIFICATION GuardSpec
CONSTANTS
  Clients = {c1}
  MaxAttempts = 2
  Window = 2
  SweepThreshold = 2
  MaxTime = 3
  DayLength = 2
  MaxAge = 1
  MaxKey = 1
  MaxInFlight = 2
INVARIANT LogoutEndsSession
CHECK_DEADLOCK FALSE
