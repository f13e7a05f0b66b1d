SPECIFICATION FlowSpec
CONSTANTS
  NUM_RANKS = 2
  TRANS_QUEUE_DEPTH = 2
  CMD_QUEUE_DEPTH = 2
  Addresses <- MCAddresses
  MaxTransactions = 4
  CLIENT = "batch"
INVARIANTS TypeOK Accounting NothingLeftBehind
PROPERTIES SameAddressOrder BarrierOrder
CHECK_DEADLOCK FALSE
