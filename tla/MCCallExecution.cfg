SPECIFICATION Spec
CONSTANTS
  MaxGPRegs = 1
  MaxSIMDRegs = 1
  Function <- MCFunction
  Main = "main"
  Signature <- MCSignature
  Returns <- MCReturns
  a = a
  b = b
  c = c
  d = d
  r = r
  z = z
  Value = {a, b, c, d, r, z}
  ArgumentsOf <- MCArguments
  Assigned = {z}
  Returned = {r}
  Zero = z
  Junk = Junk
  StackBytes = 176
INVARIANTS
  StackBalanced
PROPERTY
  CallsImplemented
CHECK_DEADLOCK FALSE
