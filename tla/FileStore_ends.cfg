SPECIFICATION Spec
CONSTANTS
  Workers = {w1, w2}
  Paths = {p1, p2}
  Hashes = {h1}
  Size = 2
  NULL = NULL
  MaxTasks = 2
  MaxRm = 1
  MaxHangups = 0
  MaxResets = 1
  MaxCrashes = 0
  MaxRefused = 0
INVARIANTS
  EndsNormally
