SPECIFICATION Spec
CONSTANTS
  WheelSize = 3
  Timeout = 1
  InitialHashSize = 2
  Nodes = {1, 2, 3, 4}
  NULL = NULL
  Listen = listenfd
  Fds = {0, 1, 2}
  MaxConns = 3
  MaxMessages = 1
  MaxHangups = 2
  MaxTransfers = 2
  MaxOpens = 1
INVARIANTS
  WheelInv
  CurrentNodeListed
  FirstNodeIsOwn
  SilentIsClosed
  TransferOwnUntilCut
PROPERTIES
  ImplementsTimers
