\* One room with a queue: second attempts, a plan that is extended, a worker
\* that leaves, and a delivery that fails or a restart.
SPECIFICATION FairSpec
CONSTANTS
  None = None
  a = a
  b = b
  p1 = p1
  p2 = p2
  c1 = c1
  c2 = c2
  w1 = w1
  Rooms = {a}
  Workers = {w1}
  Parents = {p1, p2}
  Children = {c1, c2}
  Callers = {h1}
  RoomOf <- OneRoom
  Plans <- QueuePlans
  Reports = {"review"}
  Outcomes = {"succeeded", "stopped"}
  Movable <- RosterOfA
  Deletable = {}
  Leavers <- TheWorker
  MaxAttempt = 2
  MaxFailures = 1
INVARIANTS
  ResultOfCurrentAttempt
  SomethingReady
  RoomQueueOrder
PROPERTIES
  NextParentWoken
