CONSTANTS
  MaxSpecifiers = 4
  MaxModifiers = 3
  MaxDeclarations = 2
  ParameterLists <- ParameterListsDef
SPECIFICATION DeclaratorSpec
INVARIANTS
  SpecifiersMeanWhatCSays
  DeclaredTypesAreThoseOfC
  TypeNamesRoundTrip
PROPERTY
  VerdictsAreThoseOfC
