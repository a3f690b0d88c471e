SPECIFICATION NearSpec
CONSTANTS
  IfLimit = 2
  CaseLimit = 2
  CaseFastLimit = 2
  Start = 200
  VarBytes = 2
  PassBound = 8
INVARIANT OnInstruction
CHECK_DEADLOCK FALSE
