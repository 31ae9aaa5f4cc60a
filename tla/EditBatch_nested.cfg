SPECIFICATION Spec
CONSTANTS
  Tasks = {t1, t2, t3}
  MaxPerKind = 1
  UserSql = {"write", "begin", "commit", "rollback"}
  EditsDropped = TRUE
  None = None
SYMMETRY Symmetry
INVARIANTS
  ReportedIsStored
  WholeOrNothing
  CleanSession
\* Every task runs one call; the system stops when all have ended.
CHECK_DEADLOCK FALSE
