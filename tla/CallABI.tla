------------------------------ MODULE CallABI ------------------------------
(***************************************************************************)
(* Where an argument of a call goes (ABIHandler in                         *)
(* src/src/asm/abi_handler.cpp).  The handler counts the integer and the   *)
(* floating-point registers it has handed out and the bytes of stack; the  *)
(* code of the caller and the code of the callee are generated at          *)
(* different times, each from a handler of its own state, and must agree.  *)
(***************************************************************************)
EXTENDS FrameLayout

CONSTANTS
  MaxGPRegs,    \* kMaxGPRegs: 8 in the code
  MaxSIMDRegs   \* kMaxSIMDRegs: 8 in the code

ASSUME RegsAssumption == MaxGPRegs \in Nat /\ MaxSIMDRegs \in Nat

SlotSize == 8           \* kSlotSize
FrameRecordSize == 16   \* kFrameRecordSize: the saved x29 and x30

\* What the handler looks at in a Type.
Type == [float : BOOLEAN, size : Size]

ABI == [gp : Nat, simd : Nat, stack : Nat]

Reset == [gp |-> 0, simd |-> 0, stack |-> 0]

\* Arguments live in w/x or d registers or in memory at a distance from the
\* end of the frame record of the callee ("stack").
Location == [kind : {"gp", "simd", "stack"}, at : Nat]

InRegister(abi, type) == IF type.float THEN abi.simd < MaxSIMDRegs
                                       ELSE abi.gp < MaxGPRegs

\* The handler after an argument of this type, in both roles.
Advance(abi, type) ==
  IF ~ InRegister(abi, type) THEN [abi EXCEPT !.stack = @ + SlotSize]
  ELSE IF type.float THEN [abi EXCEPT !.simd = @ + 1]
  ELSE [abi EXCEPT !.gp = @ + 1]

\* Caller side: the register, or the offset from sp after it was lowered by
\* StackArgsSize.
NextCallArgument(abi, type) ==
  IF ~ InRegister(abi, type) THEN [kind |-> "stack", at |-> abi.stack]
  ELSE IF type.float THEN [kind |-> "simd", at |-> abi.simd]
  ELSE [kind |-> "gp", at |-> abi.gp]

\* Mutant: the callee forgets the frame record it pushed.
FormalBelowRecord(abi, type) ==
  IF InRegister(abi, type) THEN NextCallArgument(abi, type)
  ELSE [kind |-> "stack", at |-> abi.stack]

\* Callee side: the same registers, or the offset from x29.
NextFormalParameter(abi, type) ==
  IF InRegister(abi, type) THEN NextCallArgument(abi, type)
  ELSE [kind |-> "stack", at |-> FrameRecordSize + abi.stack]

\* Mutant: the stack pointer is lowered by exactly the bytes that are used.
StackArgsUnrounded(abi) == abi.stack

StackArgsSize(abi) == RoundUp(abi.stack, 16)

\* x29 of the callee is FrameRecordSize below the sp of the caller at the call.
SamePlace(caller, callee) ==
  /\ caller.kind = callee.kind
  /\ callee.at = IF caller.kind = "stack" THEN caller.at + FrameRecordSize
                                          ELSE caller.at
=============================================================================
