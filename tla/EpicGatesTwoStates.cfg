SPECIFICATION Spec
CONSTANTS
  Listed = TRUE
  Labellers = {"lead"}
  Tidy = {TRUE}
  SystemTests = TRUE
  MaxActs = 2
  MaxFaults = 0
  MaxInbox = 2
INVARIANTS OneState
CHECK_DEADLOCK FALSE
