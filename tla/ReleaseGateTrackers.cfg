\* The milestone and an issue in it open trackers at once.
SPECIFICATION FairSpec
CONSTANTS
  Size = 2
  Parked = {1}
  Approvers = FALSE
  Verdicts = {"ready"}
  MaxTrackers = 2
  MaxActs = 2
  MaxChanges = 1
  MaxFaults = 0
  MaxInbox = 1
INVARIANT OneTracker
CHECK_DEADLOCK FALSE
