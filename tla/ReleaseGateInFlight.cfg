\* A milestone is changed before the issue has left intake and judged after.
SPECIFICATION FairSpec
CONSTANTS
  Size = 2
  Parked = {1}
  Approvers = FALSE
  Verdicts = {"ready"}
  MaxTrackers = 1
  MaxActs = 2
  MaxChanges = 1
  MaxFaults = 0
  MaxInbox = 1
INVARIANT InFlightStaysPut
CHECK_DEADLOCK FALSE
