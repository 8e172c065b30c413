SPECIFICATION FairSpec
CONSTANTS
  K = 2
  Views <- MCViews
INVARIANTS
  Agreement
PROPERTIES
  LoggedEverywhere
CHECK_DEADLOCK FALSE
