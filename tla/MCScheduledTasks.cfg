\* One schedule, the ticker and one RunNow call.
SPECIFICATION FairSpec
CONSTANTS
  Schedules = {s1}
  Callers = {c1}
  Kinds <- MCKinds
  MaxClock = 2
  MaxEdits = 3
  MaxFailures = 2
  Ticker = Ticker
  None = None
  Deleted = Deleted
INVARIANTS
  OneActiveRun
PROPERTIES
  PausedStaysPaused
  DueIsServed
CHECK_DEADLOCK FALSE
