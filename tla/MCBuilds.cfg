\* The same programs over three builds.
CONSTANTS
  Obj <- TreeObj
  Top <- TreeTop
  Aux <- TreeAux
  Version = {1, 2}
  FirstVersion = 1
  Source <- TreeSource
  Debug = {TRUE, FALSE}
  OBJ_STACK_LIMIT = 3
  MaxBuilds = 3
  MaxEdits = 1
  NoRecord = NoRecord
  None = None
  ObjsLimit = 3
  VarLimit = 60
  Byte <- Bytes
  Record <- Records
  MaxEntries = 3
  MaxRecordLength = 5
  SizeBytes = 18
SPECIFICATION BuildsSpec
INVARIANTS
  TypeOK
  Balanced
  SitesHaveRecords
  SameBytes
  SecondBuildSame
  ImagesOfProgram
  LayoutOfProgram
  RecordsReadBack
PROPERTY
  ImplementsDebugTable
CHECK_DEADLOCK FALSE
