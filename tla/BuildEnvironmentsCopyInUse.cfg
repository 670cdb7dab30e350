SPECIFICATION Spec
CONSTANTS
  r1 = r1
  r2 = r2
  r3 = r3
  None = None
  Runs <- ThreeRuns
  Job <- IssueJobs
  MaxParallel = 1
  MaxCloses = 1
  MaxSweeps = 1
  MaxRestarts = 0
PROPERTY ACopyInUseIsSkipped
CHECK_DEADLOCK FALSE
