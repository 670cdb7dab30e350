\* Three deliveries, two of one issue, under fairness; two slots, batches of
\* two, one restart and two failing statements.
SPECIFICATION FairSpec
CONSTANTS
  d1 = d1
  d2 = d2
  d3 = d3
  d4 = d4
  none = none
  Size = 3
  Deliveries <- MCDeliveries
  Payload <- MCPayload
  Absent = none
  Concurrency = 2
  Limit = 2
  MaxRestarts = 1
  MaxDbErrors = 2
INVARIANTS
  SlotsConserved
  ProcessingIsOwned
  AtMostOncePerProcess
  OneAtATimePerIssue
  InOrderPerIssue
PROPERTIES
  KeepsPromise
  AcceptedIsStamped
