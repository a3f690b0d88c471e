\* A file that a grandchild includes is edited between two builds.
CONSTANTS
  Obj <- DeepObj
  Top <- ToolTop
  Aux <- DeepAux
  Version = {1, 2}
  FirstVersion = 1
  Source <- DeepSource
  Debug = {FALSE}
  OBJ_STACK_LIMIT = 16
  MaxBuilds = 2
  MaxEdits = 1
  NoRecord = NoRecord
  None = None
SPECIFICATION Spec
INVARIANT
  SameMeaning
CHECK_DEADLOCK FALSE
