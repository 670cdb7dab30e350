CONSTANTS
  Policies = {"gate", "advisory", "staging"}
  NumCases = 1
  Deps <- NoDeps
  Built = 1
  MaxReports = 1
  MaxEvents = 3
  MaxInbox = 1
SPECIFICATION FairSpec
INVARIANTS TypeOK ClosedCaseIsSettled ReportedBugHoldsGS RetestMeansFixed
PROPERTIES EpicCompletes
CHECK_DEADLOCK FALSE
