SPECIFICATION FairSpec
CONSTANTS
  Workers = {w1, w2}
  Main = main
  Tasks = {t1, t2, t3}
  NULL = NULL
INVARIANTS
  IInv
  ExclusiveTask
  DrainBeforeExit
  NoLostWakeup
PROPERTIES
  EveryTaskServed
  StopCompletes
  ImplementsPool
