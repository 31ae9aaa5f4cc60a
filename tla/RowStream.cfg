SPECIFICATION FairSpec
CONSTANTS
  Tasks = {t1, t2}
  Cap = 3
  BatchRows = 2
  MaxRows = 4
  MaxSets = 2
  None = None
INVARIANTS
  IInv
  OwnRowsInOrder
  OkIsComplete
  HeaderBeforeRows
PROPERTIES
  CancelStopsTaking
  EveryStreamEnds
\* Every task runs one call; the system stops when all have ended.
CHECK_DEADLOCK FALSE
