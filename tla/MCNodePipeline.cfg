SPECIFICATION FairSpec
CONSTANTS
  K = 2
  Views <- MCViews
  MaxHeight <- MCMaxHeight
  MaxQueue = 1
  MaxRestarts = 1
INVARIANTS
  ForwardedInHeightOrder
  NothingWithheld
  SameLogAgain
PROPERTIES
  ThreadAsSpecified
  LoggedByEveryRun
CHECK_DEADLOCK FALSE
