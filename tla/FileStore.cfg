SPECIFICATION Spec
CONSTANTS
  Workers = {w1, w2}
  Paths = {p1, p2}
  Hashes = {h1, h2}
  Size = 2
  NULL = NULL
  MaxTasks = 3
  MaxRm = 1
  MaxHangups = 1
  MaxResets = 1
  MaxCrashes = 1
  MaxRefused = 1
INVARIANTS
  IInv
  ListedIsStored
  SentIsWhole
  LinksCover
