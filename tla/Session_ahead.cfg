SPECIFICATION Spec
CONSTANTS
  Workers = {w1, w2}
  Size = 2
  MaxCommands = 1
  MaxErrors = 1
  Patient = FALSE
  NoName = FALSE
INVARIANTS
  InStep
