SPECIFICATION HostSpec
CONSTANTS
  NUM_GRF = 2
  NUM_COLS_PER_BL = 4
  RA12 = 9
  MaxSystems = 1
  Systems <- WholeMemory
INVARIANT StreamKept
CHECK_DEADLOCK FALSE
