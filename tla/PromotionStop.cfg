CONSTANTS
  Repos = {"api", "web"}
  Epics = {"wide", "small"}
  Train <- Trains
  ReadIn <- Reads
  MaxPRs = 3
  MaxFaults = 1
SPECIFICATION FairSpec
PROPERTIES ShipSurvivesStop
CHECK_DEADLOCK FALSE
