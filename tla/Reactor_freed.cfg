SPECIFICATION Spec
CONSTANTS
  WheelSize = 4
  Timeout = 2
  InitialHashSize = 2
  Nodes = {1, 2, 3, 4, 5, 6}
  NULL = NULL
  Listen = listenfd
  Fds = {0, 1, 2}
  MaxConns = 3
  MaxMessages = 2
  MaxHangups = 0
  MaxTransfers = 0
  MaxOpens = 0
INVARIANTS
  VisitsLive
