SPECIFICATION FairSpec
CONSTANTS
  N = 3
  Triggers <- MCTriggers
  NumPeers = 2
  Holders <- MCHolders
  Self = 1
  Stores <- MCStores
  MaxFaults = 1
PROPERTIES
  FetchedByLaterFinalization
CHECK_DEADLOCK FALSE
