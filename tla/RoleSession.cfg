CONSTANTS
  MaxFixes = 1
  MaxRounds = 2
  MaxWork = 2
  MaxOthers = 1
  MaxFaults = 1
SPECIFICATION FairSpec
INVARIANTS UnfinishedWorkComesBack SuccessIsDelivered CarrierStaysHome ConversationsStartOver
PROPERTIES RunEnds
CHECK_DEADLOCK FALSE
