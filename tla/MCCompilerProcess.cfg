SPECIFICATION Spec
\* Every process may have ended or been killed.
CHECK_DEADLOCK FALSE
CONSTANTS
  p1 = p1
  p2 = p2
  Processes = {p1, p2}
  Arguments <- MCArguments
  Kind <- MCKind
  Unwritable <- MCUnwritable
SYMMETRY Symmetry
INVARIANTS
  MixUpsOnlyThroughTemp
PROPERTIES
  SequentialRunsBuild
  StatusTellsOnlyOwnErrors
  LeavesExactlyWhatIsKept
