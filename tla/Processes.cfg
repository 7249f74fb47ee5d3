SPECIFICATION FairSpec
CONSTANTS
  NumWorkers = 2
  MaxRequests = 3
  MaxSignals = 2
  MaxCrashes = 1
INVARIANTS
  ProcessInv
PROPERTIES
  StopEnds
  ParentFollows
CHECK_DEADLOCK FALSE
