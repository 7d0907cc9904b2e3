\* Three calls on one conversation, a replay cache of one turn.
SPECIFICATION FairSpec
CONSTANTS
  c1 = c1
  c2 = c2
  c3 = c3
  Calls = {c1, c2, c3}
  Keys = {"k1"}
  TurnIDs = {"t1", "t2"}
  Bodies = {"chat", "other", "image"}
  MediaBodies = {"image"}
  Workloads <- ThreeCalls
  MaxCompleted = 1
  None = None
INVARIANTS
  OneActiveTurn
  ControlHasOwner
  ResetExcludesTurns
  NeverExecutedTwice
  AnsweredWithOwnTurn
PROPERTIES
  ControlsEnd
  SupersedeGetsIn
CHECK_DEADLOCK FALSE
