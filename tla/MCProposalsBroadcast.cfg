SPECIFICATION Spec
CONSTANTS
  K = 1
  Leads <- MCOneInstance
  Txs <- MCTwoTxs
  MaxBlock = 2
  MaxView = 2
  MaxSubmits = 1
INVARIANTS
  BroadcastsProposedBlock
CHECK_DEADLOCK FALSE
