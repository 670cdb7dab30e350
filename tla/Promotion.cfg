CONSTANTS
  Repos = {"api", "web"}
  Epics = {"wide", "small"}
  Train <- Trains
  ReadIn <- Reads
  MaxPRs = 2
  MaxFaults = 2
SPECIFICATION FairSpec
INVARIANTS ShippedIsMerged ToldOnce TasksShipToo
PROPERTIES MergedEpicShips
CHECK_DEADLOCK FALSE
