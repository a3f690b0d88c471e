\* The same program is built a second time, with nothing changed.
CONSTANTS
  Obj <- DeepObj
  Top <- DeepTop
  Aux <- DeepAux
  Version = {1, 2}
  FirstVersion = 1
  Source <- DeepSource
  Debug = {FALSE}
  OBJ_STACK_LIMIT = 16
  MaxBuilds = 2
  MaxEdits = 0
  NoRecord = NoRecord
  None = None
SPECIFICATION Spec
INVARIANT
  SameMeaning
CHECK_DEADLOCK FALSE
