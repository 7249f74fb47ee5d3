SPECIFICATION Spec
CONSTANTS
  Chunk = 2
  Block = 3
  Threshold = 4
  IntMax = 7
  MSG = MSG
  MsgLen = 4
  MaxLen = 7
  MaxFaults = 2
INVARIANTS
  StoredInv
  ReturnsWhole
  LeavesTheRest
PROPERTIES
  Ends
