SPECIFICATION TableSpec
CONSTANTS
  MAX_SIZE = 5
  k1 = k1
  k2 = k2
  k3 = k3
  k4 = k4
  Keys <- MCKeys
  hash <- MCHash
  Values = {v1, v2}
  EMPTY = EMPTY
  NoKey = NoKey
  MaxOps = 5
INVARIANTS
  TableInv
