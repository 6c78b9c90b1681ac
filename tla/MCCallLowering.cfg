SPECIFICATION Spec
CONSTANTS
  MaxGPRegs = 1
  MaxSIMDRegs = 1
  Function <- MCFunction
  Signature <- MCSignature
  MaxCalls = 3
  MaxNesting = 2
INVARIANTS
  CallsGetTheirOwnArguments
  SameTypesSamePlaces
  ArgumentsArrive
  ArgumentsDoNotCollide
CHECK_DEADLOCK FALSE
