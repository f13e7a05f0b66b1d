SPECIFICATION ProgramSpec
CONSTANTS
  NUM_RANKS = 1
  NUM_BANKS = 16
  NUM_BANK_GROUPS = 4
  AL = 0
  BL = 4
  RL = 5
  WL = 2
  tCCDS = 2
  tCCDL = 3
  tRCDRD = 4
  tRCDWR = 3
  tRAS = 8
  tRC = 11
  tRP = 3
  tRRDS = 1
  tRRDL = 2
  tRTPL = 4
  tWR = 3
  tWTRS = 1
  tWTRL = 2
  tRTRS = 1
  tREFI = 40
  tRFC = 8
  tCMD = 1
  NUM_GRF = 4
  NUM_PIM_RANKS = 1
  NUM_COLS_PER_BL = 16
  WriteData <- Carried
  Sessions <- ReluThenTree
INVARIANT ResultCorrect
CHECK_DEADLOCK FALSE
