SPECIFICATION Spec
CONSTANTS
  r1 = r1
  r2 = r2
  r3 = r3
  None = None
  Runs <- ThreeRuns
  Job <- StagingJobs
  MaxParallel = 1
  MaxCloses = 0
  MaxSweeps = 0
  MaxRestarts = 0
PROPERTY FirstComeFirstServed
CHECK_DEADLOCK FALSE
