SPECIFICATION Spec
CONSTANTS
  InitialState = "ready"
  Expedited = FALSE
  Moves <- BuildThenReview
  LimitResets = 2
  ReadLimit = 20
  Failing = {}
  MaxErrors = 0
  MaxRestarts = 0
  MaxComments = 2
  MaxEpicReads = 0
  MaxEmptyRuns = 0
  MaxRuns = 3
  MaxInbox = 2
PROPERTIES CommentsActOnTheIssueAsItIs
CHECK_DEADLOCK FALSE
