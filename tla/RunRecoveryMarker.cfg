SPECIFICATION Spec
CONSTANTS
  InitialState = "ready"
  Expedited = FALSE
  Moves <- BuildThenReview
  LimitResets = 2
  ReadLimit = 20
  Failing = {"clear"}
  MaxErrors = 1
  MaxRestarts = 0
  MaxComments = 2
  MaxEpicReads = 0
  MaxEmptyRuns = 0
  MaxRuns = 3
  MaxInbox = 2
INVARIANTS LiveRunIsMarked
CHECK_DEADLOCK FALSE
