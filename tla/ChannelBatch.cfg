SPECIFICATION FairSpec
CONSTANTS
  NUM_RANKS = 1
  NUM_BANKS = 2
  NUM_BANK_GROUPS = 2
  AL = 0
  BL = 4
  RL = 5
  WL = 2
  tCCDS = 2
  tCCDL = 3
  tRCDRD = 4
  tRCDWR = 3
  tRAS = 8
  tRC = 11
  tRP = 3
  tRRDS = 1
  tRRDL = 2
  tRTPL = 4
  tWR = 3
  tWTRS = 1
  tWTRL = 2
  tRTRS = 1
  tREFI = 40
  tRFC = 8
  tCMD = 1
  CMD_QUEUE_DEPTH = 2
  SCHEDULING_POLICY = "RankThenBank"
  TRANS_QUEUE_DEPTH = 2
  NUM_GRF = 8
  WriteData <- NoData
  Addresses <- OneRank
  MaxTransactions = 3
  CLIENT = "batch"
INVARIANTS TypeOK RanksAgree BusesExclusive StandstillOnlyAtBarrier
PROPERTIES RunTerminates OwnReadReturned ImplementsFlow
CHECK_DEADLOCK FALSE
