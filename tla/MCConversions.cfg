SPECIFICATION Spec
CONSTANTS
  IntBits = 3
  LongBits = 6
  Halves <- MCHalves
  Expressions <- MCExpressions
INVARIANTS
  LiteralsAreThoseOfC
  TypesAreThoseOfC
  CodeAssembles
  ValuesAreThoseOfC
  StaticObjectsStartAsInC
CHECK_DEADLOCK FALSE
