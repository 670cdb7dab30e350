CONSTANTS
  Policies = {"gate"}
  NumCases = 0
  Deps <- NoDeps
  Built = 1
  MaxReports = 1
  MaxEvents = 2
  MaxInbox = 1
SPECIFICATION FairSpec
PROPERTIES FixedIsRetested
CHECK_DEADLOCK FALSE
