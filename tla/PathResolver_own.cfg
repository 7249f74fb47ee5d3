SPECIFICATION ResolverSpec
CONSTANTS
  INITIAL_CAPACITY = 2
  NULL = NULL
  w1 = w1
  w2 = w2
  Workers <- MCWorkers
  Items <- MCItems
  MaxItems = 5
  MaxOps = 0
  Calls <- MCCalls
INVARIANT SplitsOwn
