SPECIFICATION Spec
CONSTANTS
  N = 2
  MaxDdl = 3
  Shapes <- MCShapes
  Absent = Absent
INVARIANTS
  IInv
  UntouchedIsExact
  PartsAreWhole
  SnapshotKeepsCatalog
\* A scan ends.
CHECK_DEADLOCK FALSE
