\* Somebody is listed for the gate and the event of the approval is lost.
SPECIFICATION FairSpec
CONSTANTS
  Size = 2
  Parked = {1}
  Approvers = TRUE
  Verdicts = {"ready"}
  MaxTrackers = 1
  MaxActs = 2
  MaxChanges = 0
  MaxFaults = 0
  MaxInbox = 1
PROPERTY ApprovedIsDispatched
CHECK_DEADLOCK FALSE
