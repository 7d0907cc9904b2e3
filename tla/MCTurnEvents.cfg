\* An image, a background video and a detached question in one turn.
SPECIFICATION Spec
CONSTANTS
  Images = {i1}
  Videos = {v1}
  Questions = {"detached"}
  MaxOutputs = 1
  MaxProgress = 0
  MaxAttempts = 2
  None = None
INVARIANTS
  EmittedInOrder
  OneOutcome
  VideoReported
CHECK_DEADLOCK FALSE
