SPECIFICATION FairSpec
CONSTANTS
  Validators <- MCValidators
  K = 1
  Gatling <- MCFirst
  Gossiping <- MCValidators
  Generating <- MCFirst
  Genesis = 1
  StartDelay = 0
  Duration = 1
  MaxNow = 2
  MaxEvents = 1
  Faulty <- MCFaulty
  MaxFaults = 1
  ClientTxs <- MCClientTxs
INVARIANTS
  TypeOK
  GossipOutlivesCrash
  QuietBeforeGenesis
  NeverReturns
PROPERTIES
  GossipReachesPool
  EventsReachThread
  ErrorReachesMain
CHECK_DEADLOCK FALSE
