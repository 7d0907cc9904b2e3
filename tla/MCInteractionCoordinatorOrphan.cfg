SPECIFICATION Spec
CONSTANTS
  Native = {n1}
  Detached = {}
  Responders = {r1}
  MaxTurns = 2
  None = None
INVARIANT NativeEndsWithTurn
CHECK_DEADLOCK FALSE
