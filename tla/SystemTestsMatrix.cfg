CONSTANTS
  Policies = {"staging"}
  NumCases = 1
  Deps <- NoDeps
  Built = 1
  MaxReports = 0
  MaxEvents = 3
  MaxInbox = 1
SPECIFICATION FairSpec
PROPERTIES MatrixIsPosted
CHECK_DEADLOCK FALSE
