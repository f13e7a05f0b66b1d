SPECIFICATION FrontSpec
CONSTANTS
  DramClkFreqHz = 2
  CpuClkFreqHz = {0, 3}
  NUM_CHANS = 2
  NUM_RANKS = 2
  TRANS_QUEUE_DEPTH = 1
  CMD_QUEUE_DEPTH = 1
  EPOCH_LENGTH = 2
  maxNumber = 3
  MaxTransactions = 3
INVARIANTS FrontTypeOK NoDrift EveryAccessCounted RowsMatchHeader
PROPERTIES OneFileOfItsOwn RunReturned
CHECK_DEADLOCK FALSE
