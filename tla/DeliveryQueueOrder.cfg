\* Four deliveries, three of one issue; two slots, batches of two, one restart
\* and no failing statement.
SPECIFICATION Spec
CONSTANTS
  d1 = d1
  d2 = d2
  d3 = d3
  d4 = d4
  none = none
  Size = 4
  Deliveries <- MCDeliveries
  Payload <- MCPayload
  Absent = none
  Concurrency = 2
  Limit = 2
  MaxRestarts = 1
  MaxDbErrors = 0
INVARIANTS
  OneAtATimePerIssue
  InOrderPerIssue
  LockTableIsCounted
PROPERTIES
  KeepsPromise
