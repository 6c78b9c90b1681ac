SPECIFICATION LSpec
CONSTANTS
  Names = {"x"}
  FunctionNames = {"f"}
  Storages = {"none", "static", "extern"}
  Initializers = {"none", "constant"}
  ParameterLists <- MCParameterLists
  MaxDepth = 3
  MaxItems = 4
  MaxUnits = 2
INVARIANT ValidProgramsLink
CHECK_DEADLOCK FALSE
