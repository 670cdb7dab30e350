SPECIFICATION Spec
CONSTANTS
  Listed = TRUE
  Labellers = {"lead", "member"}
  Tidy = {TRUE}
  SystemTests = TRUE
  MaxActs = 2
  MaxFaults = 0
  MaxInbox = 2
INVARIANTS OnlyApproversOpen
CHECK_DEADLOCK FALSE
