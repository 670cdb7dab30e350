SPECIFICATION FairSpec
CONSTANTS
  InitialState = "ready"
  Expedited = FALSE
  Moves <- BuildOnly
  LimitResets = 2
  ReadLimit = 20
  Failing = {"route"}
  MaxErrors = 2
  MaxRestarts = 1
  MaxComments = 1
  MaxEpicReads = 0
  MaxEmptyRuns = 0
  MaxRuns = 4
  MaxInbox = 2
PROPERTIES InterruptedStartsAgain
CHECK_DEADLOCK FALSE
