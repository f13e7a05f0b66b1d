SPECIFICATION HostSpec
CONSTANTS
  NUM_GRF = 2
  NUM_COLS_PER_BL = 4
  RA12 = 9
  MaxSystems = 2
  Systems <- TheSystems
INVARIANTS HostTypeOK GeometryAgrees WeightsPlaced ResultsInOrder SumsComplete StreamKept
CHECK_DEADLOCK FALSE
