CONSTANTS
  Repos = {"api", "web"}
  Epics = {"wide", "small"}
  Train <- Trains
  ReadIn <- Reads
  MaxPRs = 3
  MaxFaults = 1
SPECIFICATION FairSpec
INVARIANTS ShippedEverywhere
CHECK_DEADLOCK FALSE
