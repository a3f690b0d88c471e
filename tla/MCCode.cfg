CONSTANTS
  Numbers <- AroundPowers
  IfLimit = 2
  CaseLimit = 2
  CaseFastLimit = 2
  Start = 200
  VarBytes = 2
  PassBound = 8
  ExpBits = 5
  ManBits = 2
  Capacity = 2048
  StructsHubLimit = 1048575
  SubResults = 2
  ParamsLimit = 4
  ResultsLimit = 3
  StringLimit = 20
  SBits = 3
  ABits = 8
  CogLimit = 13
  LutBase = 14
  HubBase = 16
  HubLimit = 200
  ObjLimit = 300
  MethodParamsLimit = 127
SPECIFICATION Spec
INVARIANTS
  BlocksStayWhole
  ExpressionsKeepMeaning
  VariablesReached
  CallsDeliver
  AssembledAsWritten
  ImageWhole
  SymbolsStand
  DebugShows
  NumbersReadBack
PROPERTY
  BlocksFollowSource
CHECK_DEADLOCK FALSE
