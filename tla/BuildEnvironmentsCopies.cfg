\* Two merges into one epic's branch and a run without issue workspaces; two
\* slots, one issue closes, one pass of the sweep, the process dies once.
SPECIFICATION Spec
CONSTANTS
  r1 = r1
  r2 = r2
  r3 = r3
  None = None
  Runs <- ThreeRuns
  Job <- MergeJobs
  MaxParallel = 2
  MaxCloses = 1
  MaxSweeps = 1
  MaxRestarts = 1
INVARIANTS
  OneReleasePerTarget
  OneRunPerEnvironment
  ReportIsTrue
PROPERTY OnlyTheUnreadableIsTakenAway
CHECK_DEADLOCK FALSE
