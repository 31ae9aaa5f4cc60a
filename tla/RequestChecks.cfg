SPECIFICATION Spec
CONSTANTS
  None = None
  Absent = Absent
  WriteWords <- MCWriteWords
  MetadataWords <- MCMetadataWords
  MaxSqlBytes = 5
  NotSet = NotSet
  MaxInt = 1000
  BadIds = {"bad"}
  Features <- MCFeatures
  Texts <- MCTexts
  Queries <- MCQueries
  Cells <- MCCells
  EngineProfiles <- MCEngineProfiles
  Plans <- MCPlans
  MaxTables = 1
  NoNode = NoNode
INVARIANTS
  SplitsOutsideQuotes
  WritesAreSeen
  PromptsSuffice
  BoundAsSupplied
  CellsSurvive
  AcceptedEnginesConnect
  PlanHangsTogether
\* A call returns.
CHECK_DEADLOCK FALSE
