CONSTANTS
  Policies = {"gate", "advisory", "staging"}
  NumCases = 1
  Deps <- OneDep
  Built = 1
  MaxReports = 0
  MaxEvents = 3
  MaxInbox = 1
SPECIFICATION FairSpec
PROPERTIES FailureIsFiled
CHECK_DEADLOCK FALSE
