SPECIFICATION Spec
CONSTANTS
  InitialState = "ready"
  Expedited = TRUE
  Moves <- BuildThenReview
  LimitResets = 2
  ReadLimit = 20
  Failing = {}
  MaxErrors = 0
  MaxRestarts = 0
  MaxComments = 0
  MaxEpicReads = 0
  MaxEmptyRuns = 0
  MaxRuns = 3
  MaxInbox = 2
PROPERTIES DoubleDetectionIsHarmless
CHECK_DEADLOCK FALSE
