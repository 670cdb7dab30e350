SPECIFICATION FairSpec
CONSTANTS
  Listed = TRUE
  Labellers = {"lead"}
  Tidy = {TRUE}
  SystemTests = TRUE
  MaxActs = 2
  MaxFaults = 0
  MaxInbox = 2
PROPERTIES MarkerIsNeverOverlooked
CHECK_DEADLOCK FALSE
