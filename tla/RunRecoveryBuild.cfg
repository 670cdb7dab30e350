SPECIFICATION FairSpec
CONSTANTS
  InitialState = "ready"
  Expedited = FALSE
  Moves <- BuildOnly
  LimitResets = 2
  ReadLimit = 3
  Failing = {"route", "start", "finish", "clear", "repos", "notice", "block"}
  MaxErrors = 1
  MaxRestarts = 1
  MaxComments = 1
  MaxEpicReads = 0
  MaxEmptyRuns = 0
  MaxRuns = 8
  MaxInbox = 3
INVARIANTS RetriesAreCapped
PROPERTIES RestartsFindWork UnfinishedIsAnswered StaleMarkerGoes
CHECK_DEADLOCK FALSE
