SPECIFICATION FairSpec
CONSTANTS
  Workers = {w1, w2}
  Size = 2
  MaxCommands = 5
  MaxErrors = 1
  Patient = TRUE
  NoName = TRUE
INVARIANTS
  Understood
  TransfersWhole
  OneReader
PROPERTIES
  Returns
