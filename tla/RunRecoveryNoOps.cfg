SPECIFICATION Spec
CONSTANTS
  InitialState = "ready"
  Expedited = TRUE
  Moves <- BuildOnly
  LimitResets = 2
  ReadLimit = 20
  Failing = {}
  MaxErrors = 0
  MaxRestarts = 0
  MaxComments = 0
  MaxEpicReads = 0
  MaxEmptyRuns = 3
  MaxRuns = 4
  MaxInbox = 1
INVARIANTS NoOpsAreFailures
CHECK_DEADLOCK FALSE
