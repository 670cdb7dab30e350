CONSTANTS
  MaxFixes = 1
  MaxRounds = 2
  MaxWork = 2
  MaxOthers = 1
  MaxFaults = 1
SPECIFICATION Spec
INVARIANTS StartsFromGitHub WorkOffTheBranchComesBack WorkSurvivesStop RefusedIsDropped PushedIsWhatWasTested
CHECK_DEADLOCK FALSE
