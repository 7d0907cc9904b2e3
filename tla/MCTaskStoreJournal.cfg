\* One task of an agent, one failed save.
SPECIFICATION Spec
CONSTANTS
  RoomTasks = {}
  AgentTasks = {a1}
  MaxSeq = 4
  MaxFailures = 1
  None = None
INVARIANT
  Recoverable
CHECK_DEADLOCK FALSE
