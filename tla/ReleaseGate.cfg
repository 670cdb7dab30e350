\* One issue parked beforehand and one filed, with nobody listed for the gate;
\* one change of milestone, and one call that raises or one stop.
SPECIFICATION FairSpec
CONSTANTS
  Size = 2
  Parked = {1}
  Approvers = FALSE
  Verdicts = {"ready"}
  MaxTrackers = 1
  MaxActs = 2
  MaxChanges = 1
  MaxFaults = 1
  MaxInbox = 1
INVARIANTS NothingBeforeTheGate OneReceipt ReceiptIsComplete
PROPERTIES ApprovedIsDispatched AddedEntersIntake
CHECK_DEADLOCK FALSE
