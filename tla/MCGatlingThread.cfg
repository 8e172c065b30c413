SPECIFICATION FairSpec
CONSTANTS
  K = 3
  Views <- MCViews
INVARIANTS
  TypeOK
  LogIsGlobalOrder
  WaitsOnlyForLaggard
  QueueWithinWindow
PROPERTIES
  ImplementsGlobalOrder
  OrderableBlockLogged
CHECK_DEADLOCK FALSE
