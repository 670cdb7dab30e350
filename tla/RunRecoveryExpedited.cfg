SPECIFICATION FairSpec
CONSTANTS
  InitialState = "ready"
  Expedited = TRUE
  Moves <- BuildThenReview
  LimitResets = 2
  ReadLimit = 20
  Failing = {"route", "start", "finish", "chain", "repos"}
  MaxErrors = 1
  MaxRestarts = 0
  MaxComments = 0
  MaxEpicReads = 1
  MaxEmptyRuns = 0
  MaxRuns = 2
  MaxInbox = 1
PROPERTIES BrokenChainResumes
CHECK_DEADLOCK FALSE
