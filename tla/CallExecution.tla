--------------------------- MODULE CallExecution ---------------------------
(***************************************************************************)
(* The calls of a running program, executed by the instructions that       *)
(* IRBuilder emits: the call sequence (LowerCall), the prologue and the    *)
(* moves of the parameters into the frame (AddFunctionPrologue,            *)
(* LowerFunction), the return and the epilogue (LowerControl,              *)
(* AddFunctionEpilogue).  What the body of a function does in between is   *)
(* left open: it assigns to its variables and calls any function.          *)
(*                                                                         *)
(* Memory is the 4-byte words written so far.  A word remembers which part *)
(* it is of which value, so that a load sees anything else than exactly    *)
(* what one store wrote as Junk.  Whatever is below sp may be overwritten  *)
(* at any time and is lost; so are the argument registers in a body.       *)
(***************************************************************************)
EXTENDS CallABI, SequencesExt

CONSTANTS
  Function, Main,
  Signature,   \* parameter types
  Returns,     \* result type; results are 8 bytes wide here
  Value, Zero, \* values of expressions
  Junk,        \* no value of an expression
  ArgumentsOf, \* bound: the lists of arguments each function is called with
  Assigned,    \* bound: the values assigned to variables
  Returned,    \* bound: the values returned
  StackBytes   \* bound: bytes of stack

ASSUME FunctionAssumption ==
  /\ Main \in Function /\ Junk \notin Function
  /\ Signature \in [Function -> Seq(Type)]
  /\ Returns \in [Function -> Type]
  /\ Signature[Main] = <<>>
  /\ Zero \in Value /\ Junk \notin Value
  /\ Assigned \subseteq Value /\ Returned \subseteq Value
  /\ \A f \in Function : ArgumentsOf[f] \subseteq [DOMAIN Signature[f] -> Value]

VARIABLES
  pc,             \* where the program is
  regs,           \* the argument registers
  x29, x30, sp,   \* frame pointer, return address, stack pointer
  mem,            \* the stack
  event           \* the latest operation of the program

vars == <<pc, regs, x29, x30, sp, mem, event>>

-----------------------------------------------------------------------------
(* The code of each function *)

\* A function has its parameters and one temporary for results of calls.
Variables(f) == 1 .. Len(Signature[f]) + 1

ResultOf(f) == Len(Signature[f]) + 1

VariableSize(f, i) == IF i \in DOMAIN Signature[f] THEN Signature[f][i].size ELSE 8

\* The variables get their slots one after the other.
Frame == [f \in Function |->
  LET frame[i \in 0 .. ResultOf(f)] ==
        IF i = 0 THEN EmptyFrame ELSE Place(frame[i - 1], i, VariableSize(f, i))
  IN  frame[ResultOf(f)]]

FrameSize(f) == AlignedFrameSize(Frame[f], 16)

\* The program has the stack its first activation needs.
ASSUME StackAssumption ==
  StackBytes \in Nat /\ FrameRecordSize + FrameSize(Main) <= StackBytes

\* The handler in the loops of LowerCall and LowerFunction, which ask it about
\* one type after the other: its state when i of them have been asked about.
Handler == [f \in Function |->
  LET abi[i \in 0 .. Len(Signature[f])] ==
        IF i = 0 THEN Reset ELSE Advance(abi[i - 1], Signature[f][i])
  IN  abi]

CallArguments ==
  [f \in Function |-> [i \in DOMAIN Signature[f] |->
     NextCallArgument(Handler[f][i - 1], Signature[f][i])]]
FormalParameters ==
  [f \in Function |-> [i \in DOMAIN Signature[f] |->
     NextFormalParameter(Handler[f][i - 1], Signature[f][i])]]

\* The stack bytes LowerCall subtracts from sp and adds again.
CallBytes(f) == StackArgsSize(Handler[f][Len(Signature[f])])

\* Results are in x0 and d0, which are argument registers too: the code has 8 of
\* each.
ASSUME ReturnRegisterAssumption == MaxGPRegs > 0 /\ MaxSIMDRegs > 0

\* GetReturnRegister.
ReturnRegister(f) == [kind |-> IF Returns[f].float THEN "simd" ELSE "gp", at |-> 0]

-----------------------------------------------------------------------------
(* The machine *)

Register == [kind : {"gp"}, at : 0 .. MaxGPRegs - 1]
            \cup [kind : {"simd"}, at : 0 .. MaxSIMDRegs - 1]

AllJunk == [r \in Register |-> Junk]

Address == {-4 * k : k \in 1 .. StackBytes \div 4}

\* The words of a value of 4 or 8 bytes.
Words(address, size) == {address, address + size - 4}

Store(m, address, size, value) ==
  [a \in DOMAIN m \cup Words(address, size) |->
     IF a \in Words(address, size) THEN <<a - address, value>> ELSE m[a]]

Load(m, address, size) ==
  IF /\ Words(address, size) \subseteq DOMAIN m
     /\ \A a \in Words(address, size) : m[a] = <<a - address, m[address][2]>>
  THEN m[address][2] ELSE Junk

\* What is left of the stack once sp is at `bottom`.
Popped(m, bottom) == Restrict(m, {a \in DOMAIN m : a >= bottom})

\* A return address is the place after the call of `callee` in `function`;
\* the first activation returns to Exit.
ReturnAddress(function, callee) == <<"return", function, callee>>
Exit == ReturnAddress(Main, Main)
ReturnAddresses == {ReturnAddress(f, g) : f, g \in Function}

\* StrInstruction(x29, x30, [sp, -16]!) writes a frame record.
PushRecord(m, address, frame_pointer, return_address) ==
  Store(Store(m, address, 8, <<"pointer", frame_pointer>>), address + 8, 8, return_address)

\* LdrInstruction reads it back; what is no frame record ends the program.
SavedX29(m, address) ==
  LET saved == Load(m, address, 8)
  IN  IF saved \in {<<"pointer", a>> : a \in Address} THEN saved[2] ELSE 0

SavedX30(m, address) ==
  LET saved == Load(m, address + 8, 8)
  IN  IF saved \in ReturnAddresses THEN saved ELSE Exit

Init ==
  /\ pc = [at |-> "entry", function |-> Main]
  /\ regs = AllJunk
  /\ x29 = 0
  /\ x30 = Exit
  /\ sp = 0
  /\ mem = <<>>
  /\ event = [op |-> "start"]

\* Fits: the program does not run out of stack.
Fits(f) == sp - CallBytes(f) - FrameRecordSize - FrameSize(f) >= -StackBytes

\* The memory when LowerCall has stored the arguments that go on the stack.
StoredArguments(f, args, base) ==
  LET stored[i \in 0 .. Len(Signature[f])] ==
        IF i = 0 THEN mem
        ELSE IF CallArguments[f][i].kind # "stack" THEN stored[i - 1]
        ELSE Store(stored[i - 1], base + CallArguments[f][i].at,
                   Signature[f][i].size, args[i])
  IN  stored[Len(Signature[f])]

\* The registers when it has moved the others.
MovedArguments(f, args) ==
  LET at == CallArguments[f]
  IN  [r \in Register |-> IF \E i \in DOMAIN at : at[i] = r
                          THEN args[CHOOSE i \in DOMAIN at : at[i] = r] ELSE regs[r]]

\* Mutant: arguments on the stack are stored before sp is lowered.
CallStoresFirst(f, args) ==
  /\ pc.at = "body"
  /\ Fits(f)
  /\ regs' = MovedArguments(f, args)
  /\ sp' = sp - CallBytes(f)
  /\ mem' = StoredArguments(f, args, sp)
  /\ x30' = ReturnAddress(pc.function, f)
  /\ pc' = [at |-> "entry", function |-> f]
  /\ event' = [op |-> "call", function |-> f, args |-> args]
  /\ UNCHANGED x29

\* LowerCall: register arguments are moved, sp is lowered, stack arguments are
\* stored relative to it, and bl sets x30.
Call(f, args) ==
  /\ pc.at = "body"
  /\ Fits(f)
  /\ regs' = MovedArguments(f, args)
  /\ sp' = sp - CallBytes(f)
  /\ mem' = StoredArguments(f, args, sp - CallBytes(f))
  /\ x30' = ReturnAddress(pc.function, f)
  /\ pc' = [at |-> "entry", function |-> f]
  /\ event' = [op |-> "call", function |-> f, args |-> args]
  /\ UNCHANGED x29

\* The parameter a function finds at one of its locations.
Incoming(f, i, m, frame_pointer) ==
  LET location == FormalParameters[f][i]
  IN  IF location.kind = "stack"
      THEN Load(m, frame_pointer + location.at, Signature[f][i].size)
      ELSE regs[location]

MoveParameter(f, i, frame_pointer, m) ==
  Store(m, frame_pointer - Frame[f].offsets[i], VariableSize(f, i),
        Incoming(f, i, m, frame_pointer))

\* The memory when LowerFunction has moved the parameters into their slots.
MovedParameters(f, frame_pointer, pushed) ==
  LET moved[i \in 0 .. Len(Signature[f])] ==
        IF i = 0 THEN pushed
        ELSE MoveParameter(f, i, frame_pointer, moved[i - 1])
  IN  moved[Len(Signature[f])]

\* AddFunctionPrologue and the moves of LowerFunction: x29 and x30 are pushed,
\* x29 points at them, sp is lowered by the frame, and every parameter is moved
\* into its slot.
Enter ==
  LET f      == pc.function
      record == sp - FrameRecordSize
  IN  /\ pc.at = "entry"
      /\ x29' = record
      /\ sp' = record - FrameSize(f)
      /\ mem' = MovedParameters(f, record, PushRecord(mem, record, x29, x30))
      /\ regs' = AllJunk
      /\ pc' = [at |-> "body", function |-> f]
      /\ event' = [op |-> "none"]
      /\ UNCHANGED x30

Assign(i, v) ==
  /\ pc.at = "body"
  /\ mem' = Store(mem, x29 - Frame[pc.function].offsets[i],
                  VariableSize(pc.function, i), v)
  /\ event' = [op |-> "assign", var |-> i, value |-> v]
  /\ UNCHANGED <<pc, regs, x29, x30, sp>>

\* AddFunctionEpilogue: sp is x29, the frame record is popped, ret follows x30.
Leave(v) ==
  LET f == pc.function
      return_address == SavedX30(mem, x29)
  IN  /\ regs' = [AllJunk EXCEPT ![ReturnRegister(f)] = v]
      /\ x29' = SavedX29(mem, x29)
      /\ x30' = return_address
      /\ sp' = x29 + FrameRecordSize
      /\ mem' = Popped(mem, x29 + FrameRecordSize)
      /\ pc' = [at |-> IF return_address = Exit THEN "exit" ELSE "returned",
                function |-> return_address[2]]
      /\ event' = [op |-> "return", value |-> v]

\* LowerControl: the result is moved to the return register.
Return(v) ==
  /\ pc.at = "body"
  /\ Leave(v)

\* The end of the body: mov x0, 0.
FallOffEnd ==
  /\ pc.at = "body"
  /\ ~ Returns[pc.function].float
  /\ Leave(Zero)

\* Mutant: sp is not raised again after a call with arguments on the stack.
AfterCallForgetsStack ==
  LET f == pc.function
      g == x30[3]
  IN  /\ pc.at = "returned"
      /\ mem' = Store(mem, x29 - Frame[f].offsets[ResultOf(f)],
                      8, regs[ReturnRegister(g)])
      /\ regs' = AllJunk
      /\ pc' = [at |-> "body", function |-> f]
      /\ event' = [op |-> "none"]
      /\ UNCHANGED <<x29, x30, sp>>

\* The rest of LowerCall: sp is raised and the result is moved to its variable.
AfterCall ==
  LET f == pc.function
      g == x30[3]
  IN  /\ pc.at = "returned"
      /\ sp' = sp + CallBytes(g)
      /\ mem' = Store(Popped(mem, sp + CallBytes(g)),
                      x29 - Frame[f].offsets[ResultOf(f)],
                      8, regs[ReturnRegister(g)])
      /\ regs' = AllJunk
      /\ pc' = [at |-> "body", function |-> f]
      /\ event' = [op |-> "none"]
      /\ UNCHANGED <<x29, x30>>

Next ==
  \/ \E f \in Function \ {Main} :
       \E args \in ArgumentsOf[f] : Call(f, args)
  \/ Enter
  \/ \E i \in Variables(pc.function), v \in Assigned : Assign(i, v)
  \/ \E v \in Returned : Return(v)
  \/ FallOffEnd
  \/ AfterCall

Spec == Init /\ [][Next]_vars

-----------------------------------------------------------------------------
\* Whatever a body has called, with however many arguments on the stack, it runs
\* with sp exactly its frame below x29 and a multiple of 16, as every call
\* requires; and a finished program has given back the whole stack.
StackBalanced ==
  /\ pc.at = "body" => sp = x29 - FrameSize(pc.function)
  /\ pc.at = "exit" => sp = 0 /\ x29 = 0
  /\ sp % 16 = 0

-----------------------------------------------------------------------------
(* Refinement: the activations a debugger would find by following x29. *)

FrameVars(f, frame_pointer) ==
  [i \in Variables(f) |->
     Load(mem, frame_pointer - Frame[f].offsets[i], VariableSize(f, i))]

MaxActivations == StackBytes \div 32

\* The function a return address is in; none after the first activation.
Caller(return_address) == IF return_address = Exit THEN Junk ELSE return_address[2]

\* The frame k calls below that of `f` at x29; none below the first activation.
FramesBelow(f) ==
  LET frames[k \in Nat] ==
        IF k = 0
        THEN IF f = Junk THEN {} ELSE {[function |-> f, frame_pointer |-> x29]}
        ELSE {[function |-> Caller(SavedX30(mem, callee.frame_pointer)),
               frame_pointer |-> SavedX29(mem, callee.frame_pointer)] :
                callee \in {c \in frames[k - 1] : Caller(SavedX30(mem, c.frame_pointer)) # Junk}}
  IN  [k \in 0 .. MaxActivations - 1 |-> frames[k]]

\* The activations a debugger would list, the first one first.
Unwound(f) ==
  LET frames == FramesBelow(f)
      depth  == Cardinality({k \in DOMAIN frames : frames[k] # {}})
  IN  [i \in 1 .. depth |->
         CHOOSE activation \in
           {[function |-> frame.function,
             vars |-> FrameVars(frame.function, frame.frame_pointer)] :
               frame \in frames[depth - i]} : TRUE]

\* A function that is about to be entered has its arguments where it will look
\* for them; a caller that is about to go on has the result in the register.
Stack ==
  CASE pc.at = "exit" -> <<>>
    [] pc.at = "body" -> Unwound(pc.function)
    [] pc.at = "entry" ->
         Append(Unwound(Caller(x30)),
                [function |-> pc.function,
                 vars |-> [i \in Variables(pc.function) |->
                             IF i \in DOMAIN Signature[pc.function]
                             THEN Incoming(pc.function, i, mem, sp - FrameRecordSize)
                             ELSE Junk]])
    [] pc.at = "returned" ->
         LET found == Unwound(pc.function)
         IN  [found EXCEPT ![Len(found)].vars[ResultOf(pc.function)] =
                             regs[ReturnRegister(x30[3])]]

Source == INSTANCE CallSemantics WITH stack <- Stack, Undefined <- Junk

\* The emitted instructions implement calls: arguments arrive, results return to
\* the caller, and no variable of any activation changes otherwise.
CallsImplemented == Source!Spec
=============================================================================
