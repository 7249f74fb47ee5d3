SPECIFICATION FairSpec
CONSTANTS
  Workers = {w1, w2}
  Main = main
  Tasks = {t1, t2}
  NULL = NULL
PROPERTIES
  ShutdownCompletes
