\* One task of a room, one of an agent, up to three failures.
SPECIFICATION Spec
CONSTANTS
  RoomTasks = {r1}
  AgentTasks = {a1}
  MaxSeq = 5
  MaxFailures = 3
  None = None
INVARIANTS
  CommittedTogether
  MemoryIsDurable
PROPERTY
  HistoryGrows
CHECK_DEADLOCK FALSE
