\* One turn and three stop calls; the lease can expire and its tombstone lapse.
CONSTANTS
  None = None
  Leases = {l1}
  Stoppers = {s1, s2, s3}
  TTL = 1
  TombstoneTTL = 1
  MaxLag = 0
  MaxStall = 1
  MaxDelay = 1
  MaxStatus = 1
  MaxClock = 2
SPECIFICATION Spec
SYMMETRY Symmetry
CONSTRAINT StatusOrThreeStops
INVARIANTS
  StopOwned
  FailureIsOwn
  EndedStaysEnded
  RevisionsIdentify
CHECK_DEADLOCK FALSE
