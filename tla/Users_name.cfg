SPECIFICATION Spec
CONSTANTS
  Workers = {w1, w2}
  Fds = {0, 1}
  Names = {ann, bob}
  NULL = NULL
  MaxConns = 3
  MaxTasks = 4
  MaxHangups = 0
  MaxTimeouts = 1
INVARIANT InOwnName
