CONSTANTS
  Symbols = {__FILE__, FOO}
  Builtins = {__FILE__}
  TextBuiltins = {__FILE__}
  Undefs = {__FILE__}
  NoSymbol = NoSymbol
  MaxLines = 5
  MaxNest = 1
  SymbolLimit = 3
  MaxConstant = 15
  MaxExponent = 3
  LongBits <- MCLongBits
  Imported <- MCImported
  HubOrgLimit = 36
  SubsLimit = 3
  MethodParams = 3
  MethodResults = 2
  LocalsLimit = 24
  ExpBits = 5
  ManBits = 2
SPECIFICATION SourceSpec
INVARIANTS
  TypeOK
  EmittingIsNested
  EmittedAsWritten
  SubstitutedIsDefined
  DoneIsBalanced
  ElementsAsWritten
  ConstantsDeclared
  MemoryOwned
  RefusedRightly
  ChainsOfFour
  FoldsToMeaning
PROPERTIES
  ImplementsConditionalText
  TextEnds
CHECK_DEADLOCK FALSE
