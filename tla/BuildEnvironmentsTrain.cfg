\* A release train over two repos, under fairness; one session slot, the process dies once.
SPECIFICATION FairSpec
CONSTANTS
  r1 = r1
  r2 = r2
  r3 = r3
  None = None
  Runs <- ThreeRuns
  Job <- TrainJobs
  MaxParallel = 1
  MaxCloses = 0
  MaxSweeps = 0
  MaxRestarts = 1
INVARIANTS
  OneStagingTurnEach
PROPERTY EveryRunEnds
CHECK_DEADLOCK FALSE
