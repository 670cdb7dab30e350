SPECIFICATION FairSpec
CONSTANTS
  Listed = TRUE
  Labellers = {"lead", "member"}
  Tidy = {TRUE}
  SystemTests = TRUE
  MaxActs = 3
  MaxFaults = 1
  MaxInbox = 2
INVARIANTS NoStageBeforeItsGate
PROPERTIES ApprovalIsActedOn ExpeditedAdvances
CHECK_DEADLOCK FALSE
