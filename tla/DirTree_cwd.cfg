SPECIFICATION Spec
CONSTANTS
  Sessions = {s1}
  Args <- MCArgs
  Names = {"f"}
  User = user
  Admin = admin
  NULL = NULL
  MaxTasks = 3
  MaxCrashes = 0
  MaxRefused = 0
INVARIANTS
  CwdExists
