SPECIFICATION Spec
CONSTANTS
  Tasks = {t1, t2, t3}
  MaxPerKind = 1
  UserSql = {"write"}
  EditsDropped = FALSE
  None = None
SYMMETRY Symmetry
PROPERTY
  ImplementsAtomic
\* Every task runs one call; the system stops when all have ended.
CHECK_DEADLOCK FALSE
