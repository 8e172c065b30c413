SPECIFICATION FairSpec
CONSTANTS
  K = 2
  Leads <- MCLeads
  Txs <- MCTxs
  MaxBlock = 2
  MaxView = 2
  MaxSubmits = 1
INVARIANTS
  TypeOK
  OnePlacePerArrival
  ProposedInArrivalOrder
  OneTimelyProposalPerView
PROPERTIES
  RequestAnswered
CHECK_DEADLOCK FALSE
