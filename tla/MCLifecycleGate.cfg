\* Three goroutines, fair scheduling.
SPECIFICATION FairSpec
CONSTANTS
  Procs = {p1, p2, p3}
  MaxDepth = 2
  MaxChan = 3
INVARIANT FlagsMatchOwner
PROPERTIES ImplementsExclusion AdmissionReopens
