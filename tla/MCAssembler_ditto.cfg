CONSTANTS
  SBits = 3
  ABits = 8
  CogLimit = 13
  LutBase = 14
  HubBase = 16
  HubLimit = 200
  ObjLimit = 300
SPECIFICATION ZeroSpec
INVARIANT NothingOfZeroDitto
CHECK_DEADLOCK FALSE
