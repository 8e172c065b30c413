SPECIFICATION FairSpec
CONSTANTS
  Honest <- MCHonest
  MaxFaulty = 1
  Quorum = 3
  Leader <- MCLeader
  Blocks <- MCBlocks
  SynchronyBound = 1
  MaxView = 2
  MaxNow = 1
  MaxCrashed = 1
INVARIANTS
  TypeOK
  CertifiedChain
  CertifiedBlockKept
PROPERTIES
  FinalizedHandledAndStored
CHECK_DEADLOCK FALSE
