SPECIFICATION FairSpec
CONSTANTS
  N = 3
  Triggers <- MCTriggers
  NumPeers = 2
  Self = 1
  Holders <- MCHolders
  Stores <- MCStores
  MaxFaults = 1
INVARIANTS
  TypeOK
  SeenIsAccountedFor
  NoHoleBelowSent
  NoLeakedRequest
  AnsweredWithBlockAskedFor
PROPERTIES
  EventuallyForwarded
CHECK_DEADLOCK FALSE
