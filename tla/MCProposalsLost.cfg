SPECIFICATION Spec
CONSTANTS
  K = 1
  Leads <- MCOneInstance
  Txs <- MCTwoTxs
  MaxBlock = 2
  MaxView = 2
  MaxSubmits = 1
INVARIANTS
  NoTransactionLost
CHECK_DEADLOCK FALSE
