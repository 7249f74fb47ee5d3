SPECIFICATION Spec
CONSTANTS
  Workers = {w1, w2}
  PoolSize = 2
  Limit = 4
  Commands = {"pwd", "gets", "cd", "rm", "rmdir", "puts", "instant", "ls", "mkdir"}
  MaxCommands = 4
  NULL = NULL
INVARIANTS
  ConnsInv
  PendingIsAwaited
  ReadsOwn
