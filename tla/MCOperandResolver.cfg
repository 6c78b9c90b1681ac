CONSTANTS
  v_i = v_i
  v_p = v_p
  v_q = v_q
  Var4 = {v_i}
  Var8 <- MCVar8
  Global4 = {1}
  Global8 = {2}
  Constant = {7001}
  GPPool = {9, 10, 11, 12, 13, 14, 15}
  SIMDPool = {16, 17, 18, 19, 20, 21, 22, 23, 24, 25, 26, 27, 28, 29, 30, 31}
  Fill = {0, 244, 4090}
  StackSlots = {1, 30, 600}

SPECIFICATION Spec

INVARIANTS
  ScratchRegistersConserved
  CodeEncodes
  ResolvedCodeCorrect
  ExhaustionIsExact

\* The compiler stops when an exception ends it.
CHECK_DEADLOCK FALSE
