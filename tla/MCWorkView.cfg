\* One turn, one stop call, a stream of one update, fair timers; the server may die.
CONSTANTS
  None = None
  Leases = {l1}
  Stoppers = {s1}
  TTL = 1
  TombstoneTTL = 2
  MaxLag = 0
  MaxStall = 1
  MaxDelay = 0
  MaxStatus = 0
  MaxClock = 2
  Capacity = 1
  ClosedRetention = 2
SPECIFICATION ViewFairSpec
INVARIANTS
  ViewAgrees
PROPERTY
  ViewClears
  StopAnswered
CHECK_DEADLOCK FALSE
