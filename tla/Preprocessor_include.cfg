SPECIFICATION Spec
CONSTANTS
  Symbols = {__FILE__, FOO}
  Builtins = {__FILE__}
  TextBuiltins = {__FILE__}
  Undefs = {__FILE__}
  NoSymbol = NoSymbol
  MaxLines = 3
  MaxNest = 1
PROPERTY IncludedOnlyWhenTaken
CHECK_DEADLOCK FALSE
