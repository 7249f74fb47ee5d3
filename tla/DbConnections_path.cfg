SPECIFICATION Spec
CONSTANTS
  Workers = {w1, w2}
  PoolSize = 1
  Limit = 3
  Commands = {"gets", "cd"}
  MaxCommands = 2
  NULL = NULL
INVARIANTS
  CurPathIsOwn
