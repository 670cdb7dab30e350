SPECIFICATION FairSpec
CONSTANTS
  InitialState = "ready"
  Expedited = FALSE
  Moves <- BuildThenReview
  LimitResets = 2
  ReadLimit = 20
  Failing = {"block"}
  MaxErrors = 1
  MaxRestarts = 0
  MaxComments = 1
  MaxEpicReads = 0
  MaxEmptyRuns = 0
  MaxRuns = 6
  MaxInbox = 2
PROPERTIES GivingUpHolds
CHECK_DEADLOCK FALSE
