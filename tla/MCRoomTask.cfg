\* Two rooms that share a worker, two handlers, a delivery that fails or a
\* restart, and the deletion of a room in the middle of it.
SPECIFICATION FairSpec
CONSTANTS
  None = None
  a = a
  b = b
  p1 = p1
  p2 = p2
  c1 = c1
  c2 = c2
  w1 = w1
  Rooms = {a, b}
  Workers = {w1}
  Parents = {p1, p2}
  Children = {c1, c2}
  Callers = {h1, h2}
  RoomOf <- TwoRooms
  Plans <- SharedPlans
  Reports = {}
  Outcomes = {"stopped"}
  Movable = {}
  Deletable = {a}
  Leavers <- LastPerson
  MaxAttempt = 1
  MaxFailures = 1
INVARIANTS
  OneTaskPerWorker
  NoOrphans
PROPERTIES
  NeverReplayed
  WaitersReleased
