\* A third build takes an entry that was stored above a hit.
CONSTANTS
  Obj <- TreeObj
  Top <- TreeTop
  Aux <- TreeAux
  Version = {1, 2}
  FirstVersion = 1
  Source <- TreeSource
  Debug = {TRUE}
  OBJ_STACK_LIMIT = 16
  MaxBuilds = 3
  MaxEdits = 0
  NoRecord = NoRecord
  None = None
SPECIFICATION Spec
INVARIANT
  SameMeaning
CHECK_DEADLOCK FALSE
