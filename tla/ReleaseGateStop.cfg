\* The process stops between the receipt and the intake runs.
SPECIFICATION FairSpec
CONSTANTS
  Size = 2
  Parked = {1}
  Approvers = FALSE
  Verdicts = {"ready"}
  MaxTrackers = 1
  MaxActs = 2
  MaxChanges = 0
  MaxFaults = 1
  MaxInbox = 1
PROPERTY ReleasedIsStarted
CHECK_DEADLOCK FALSE
