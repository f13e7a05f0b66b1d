SPECIFICATION SystemSpec
CONSTANTS
  NUM_RANKS = 1
  NUM_BANKS = 16
  NUM_BANK_GROUPS = 4
  AL = 0
  BL = 4
  RL = 20
  WL = 8
  tCCDS = 2
  tCCDL = 4
  tRCDRD = 14
  tRCDWR = 10
  tRAS = 33
  tRC = 47
  tRP = 14
  tRRDS = 4
  tRRDL = 6
  tRTPL = 5
  tWR = 16
  tWTRS = 4
  tWTRL = 9
  tRTRS = 1
  tREFI = 240
  tRFC = 100
  tCMD = 1
  CMD_QUEUE_DEPTH = 64
  SCHEDULING_POLICY = "RankThenBank"
  TRANS_QUEUE_DEPTH = 64
  NUM_GRF = 8
  NUM_PIM_RANKS = 1
  NUM_COLS_PER_BL = 32
  WriteData <- Carried
  CLIENT = "eager"
  MaxTransactions = 1000
  Addresses <- KernelAddresses
  Job <- Relu
  PRELOAD = 4
  RESULTS = 2
INVARIANTS NoFault AccessAsIntended BusesExclusive
CHECK_DEADLOCK FALSE
