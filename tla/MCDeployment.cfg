SPECIFICATION SetupSpec
CONSTANTS
  Peers <- MCPeers
  Regions <- MCRegions
  StartPorts <- MCStartPorts
  Times <- MCTimes
  MaxRuns = 2
  InstanceCounts <- MCInstanceCounts
  ProposalViews <- MCProposalViews
INVARIANTS
  FilesFit
  SpreadOverRegions
  InstancesApart
PROPERTIES
  SelectionEnds
CHECK_DEADLOCK FALSE
