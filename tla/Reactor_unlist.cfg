SPECIFICATION FairSpec
CONSTANTS
  WheelSize = 4
  Timeout = 2
  InitialHashSize = 2
  Nodes = {1, 2, 3, 4, 5, 6}
  NULL = NULL
  Listen = listenfd
  Fds = {0, 1, 2}
  MaxConns = 2
  MaxMessages = 1
  MaxHangups = 2
  MaxTransfers = 0
  MaxOpens = 0
PROPERTIES
  DeletesUser
