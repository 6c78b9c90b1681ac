CONSTANTS
  v1 = v1
  v2 = v2
  v3 = v3
  Local <- MCLocal
  MaxParams = 2
  MaxFunctions = 2

SPECIFICATION Spec

INVARIANTS
  AccessesDoNotOverlap
  AccessesInsideFrame
  AccessesAligned

PROPERTY SlotsNeverMove

\* The build stops after its last function.
CHECK_DEADLOCK FALSE
