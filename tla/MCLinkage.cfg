SPECIFICATION LSpec
CONSTANTS
  Names = {"x"}
  FunctionNames = {"f"}
  Storages = {"none", "static", "extern"}
  Initializers = {"none", "constant"}
  ParameterLists <- MCParameterLists
  MaxDepth = 3
  MaxItems = 4
  MaxUnits = 2
INVARIANTS
  SameNameSameEntity
  AcceptsExactlyValidUnits
  SymbolsAreComplete
  UsesReachTheirDefinition
  OnlyLocalStaticsClash
CHECK_DEADLOCK FALSE
