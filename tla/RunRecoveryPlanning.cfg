SPECIFICATION Spec
CONSTANTS
  InitialState = "spec-approved"
  Expedited = FALSE
  Moves <- PlanAndDesign
  LimitResets = 2
  ReadLimit = 20
  Failing = {}
  MaxErrors = 0
  MaxRestarts = 1
  MaxComments = 0
  MaxEpicReads = 0
  MaxEmptyRuns = 1
  MaxRuns = 4
  MaxInbox = 1
PROPERTIES RestartsFindWork
CHECK_DEADLOCK FALSE
