SPECIFICATION Spec
CONSTANTS
  InitialState = "ready"
  Expedited = TRUE
  Moves <- BuildThenReview
  LimitResets = 2
  ReadLimit = 20
  Failing = {}
  MaxErrors = 0
  MaxRestarts = 0
  MaxComments = 1
  MaxEpicReads = 1
  MaxEmptyRuns = 0
  MaxRuns = 3
  MaxInbox = 2
INVARIANTS OneLiveRun
CHECK_DEADLOCK FALSE
