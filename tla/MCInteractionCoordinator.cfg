\* A native request, a detached question, two responders, three turns.
SPECIFICATION Spec
CONSTANTS
  Native = {n1}
  Detached = {d1}
  Responders = {r1, r2}
  MaxTurns = 3
  None = None
SYMMETRY Symmetry
INVARIANTS
  AcknowledgedTruly
  TurnsOrderAnswers
  AnswersNotLost
  NotifiedOnce
  DeadlineHolds
PROPERTY TerminalIsFinal
CHECK_DEADLOCK FALSE
