SPECIFICATION Spec
CONSTANTS
  Sessions = {s1, s2}
  Args <- MCArgsDeep
  Names = {"f"}
  User = user
  Admin = admin
  NULL = NULL
  MaxTasks = 4
  MaxCrashes = 1
  MaxRefused = 1
INVARIANTS
  OwnRows
  NoOrphans
