------------------------ MODULE CallLowering_proofs ------------------------
(***************************************************************************)
(* Proofs about CallLowering.  The first inductive invariant says that     *)
(* every sequence of locations was produced by a run of the handler from   *)
(* its reset state (a "trace").  That two traces over the same types       *)
(* agree, and that the counters of a trace never decrease, follows by      *)
(* induction over the arguments.  The second one, further down, is about   *)
(* which arguments a call gets.                                            *)
(***************************************************************************)
EXTENDS CallLowering, NaturalsBySets

CallerTrace(p, t) ==
  /\ t \in [0 .. Len(p) -> ABI]
  /\ t[0] = Reset
  /\ \A i \in 1 .. Len(p) :
       /\ t[i] = Advance(t[i-1], p[i].type)
       /\ p[i].location = NextCallArgument(t[i-1], p[i].type)

CalleeTrace(q, u) ==
  /\ u \in [0 .. Len(q) -> ABI]
  /\ u[0] = Reset
  /\ \A i \in 1 .. Len(q) :
       /\ u[i] = Advance(u[i-1], q[i].type)
       /\ q[i].location = NextFormalParameter(u[i-1], q[i].type)

Traced ==
  /\ \A n \in 1 .. Len(sites) : \E t :
       /\ CallerTrace(sites[n].arguments, t)
       /\ sites[n].stack_args_size = StackArgsSize(t[Len(sites[n].arguments)])
  /\ \A e \in entries : \E u : CalleeTrace(e.parameters, u)
  /\ phase = "call" =>
       /\ placed \in Seq(Argument)
       /\ \E t : CallerTrace(placed, t) /\ abi = t[Len(placed)]
  /\ phase = "function" =>
       /\ placed \in Seq(Parameter)
       /\ \E u : CalleeTrace(placed, u) /\ abi = u[Len(placed)]

Working ==
  /\ phase = "call" => tac # <<>> /\ Head(tac).op = "call"
  /\ phase = "function" => tac # <<>> /\ Head(tac).op = "function"
  /\ \A k \in 1 .. Len(visiting) - 1 :
       Len(visiting[k].evaluated) < Len(Signature[visiting[k].function])

IInv == TypeOK /\ Working /\ Traced

-----------------------------------------------------------------------------
(* The handler *)

LEMMA ABIFacts ==
  ASSUME NEW a \in ABI, NEW type \in Type
  PROVE  /\ Advance(a, type) \in ABI
         /\ NextCallArgument(a, type) \in Location
         /\ NextFormalParameter(a, type) \in Location
         /\ SamePlace(NextCallArgument(a, type), NextFormalParameter(a, type))
  BY RegsAssumption DEF ABI, Type, Size, Location, Advance, NextCallArgument,
       NextFormalParameter, SamePlace, InRegister, SlotSize, FrameRecordSize

LEMMA AdvanceBound ==
  ASSUME NEW a \in ABI, NEW type \in Type,
         a.gp <= MaxGPRegs, a.simd <= MaxSIMDRegs
  PROVE  /\ Advance(a, type).gp <= MaxGPRegs
         /\ Advance(a, type).simd <= MaxSIMDRegs
  BY RegsAssumption DEF ABI, Type, Size, Advance, InRegister, SlotSize

\* The counter that gives the location moves past it; the others stay.
LEMMA AdvanceFields ==
  ASSUME NEW a \in ABI, NEW type \in Type
  PROVE  LET b == Advance(a, type)
             l == NextCallArgument(a, type)
         IN  \/ /\ l.kind = "gp" /\ l.at = a.gp
                /\ b.gp = a.gp + 1 /\ b.simd = a.simd /\ b.stack = a.stack
             \/ /\ l.kind = "simd" /\ l.at = a.simd
                /\ b.gp = a.gp /\ b.simd = a.simd + 1 /\ b.stack = a.stack
             \/ /\ l.kind = "stack" /\ l.at = a.stack
                /\ b.gp = a.gp /\ b.simd = a.simd /\ b.stack = a.stack + 8
  BY DEF ABI, Advance, NextCallArgument, SlotSize

LEMMA StackArgsSizeFacts ==
  ASSUME NEW a \in ABI
  PROVE  /\ StackArgsSize(a) \in Nat
         /\ StackArgsSize(a) >= a.stack
         /\ StackArgsSize(a) % 16 = 0
  BY DEF ABI, StackArgsSize, RoundUp, Padding

\* One step of a trace, counted from its end or from its start.
LEMMA CallerStepAt ==
  ASSUME NEW p \in Seq(Argument), NEW t, CallerTrace(p, t), NEW i \in 1 .. Len(p)
  PROVE  /\ t[i-1] \in ABI
         /\ t[i] \in ABI
         /\ p[i] \in Argument
         /\ p[i].type \in Type
         /\ t[i] = Advance(t[i-1], p[i].type)
         /\ p[i].location = NextCallArgument(t[i-1], p[i].type)
<1>1. i - 1 \in 0 .. Len(p) /\ i \in 0 .. Len(p) /\ p[i] \in Argument
  OBVIOUS
<1> QED
  BY <1>1 DEF CallerTrace, Argument

LEMMA CallerStep ==
  ASSUME NEW p \in Seq(Argument), NEW t, CallerTrace(p, t),
         NEW n \in Nat, n + 1 <= Len(p)
  PROVE  /\ t[n] \in ABI
         /\ t[n+1] \in ABI
         /\ p[n+1].type \in Type
         /\ t[n+1] = Advance(t[n], p[n+1].type)
<1> DEFINE i == n + 1
<1>1. i \in 1 .. Len(p) /\ i - 1 = n
  OBVIOUS
<1> HIDE DEF i
<1>2. t[i-1] \in ABI /\ t[i] \in ABI /\ p[i].type \in Type /\ t[i] = Advance(t[i-1], p[i].type)
  BY <1>1, CallerStepAt
<1> QED
  BY <1>1, <1>2 DEF i

LEMMA CalleeStep ==
  ASSUME NEW q, NEW u, Len(q) \in Nat, CalleeTrace(q, u),
         NEW n \in Nat, n + 1 <= Len(q)
  PROVE  u[n+1] = Advance(u[n], q[n+1].type)
<1> DEFINE i == n + 1
<1>1. i \in 1 .. Len(q) /\ i - 1 = n
  OBVIOUS
<1>2. u[i] = Advance(u[i-1], q[i].type)
  BY <1>1 DEF CalleeTrace
<1> QED
  BY <1>1, <1>2

\* Two traces over the same types are the same.
LEMMA TracesAgree ==
  ASSUME NEW p \in Seq(Argument), NEW q \in Seq(Parameter), NEW t, NEW u,
         CallerTrace(p, t), CalleeTrace(q, u),
         NEW k \in Nat, k <= Len(p), k <= Len(q),
         \A j \in 1 .. k : p[j].type = q[j].type
  PROVE  t[k] = u[k]
<1> DEFINE S == {n \in Nat : n <= k => t[n] = u[n]}
<1>1. 0 \in S
  BY DEF CallerTrace, CalleeTrace
<1>2. ASSUME NEW n \in Nat, n \in S PROVE n + 1 \in S
  <2> SUFFICES ASSUME n + 1 <= k PROVE t[n+1] = u[n+1]
    OBVIOUS
  <2>1. t[n+1] = Advance(t[n], p[n+1].type)
    BY CallerStep
  <2>2. u[n+1] = Advance(u[n], q[n+1].type)
    BY CalleeStep
  <2>3. n + 1 \in 1 .. k
    OBVIOUS
  <2> QED
    BY <1>2, <2>1, <2>2, <2>3
<1>3. \A n \in Nat : n \in S
  <2> HIDE DEF S
  <2> QED
    BY <1>1, <1>2, SetInduction
<1> QED
  BY <1>3

\* The counters of a trace never decrease.
LEMMA TraceGrows ==
  ASSUME NEW p \in Seq(Argument), NEW t, CallerTrace(p, t),
         NEW i \in 0 .. Len(p), NEW j \in 0 .. Len(p), i <= j
  PROVE  /\ t[i].gp <= t[j].gp
         /\ t[i].simd <= t[j].simd
         /\ t[i].stack <= t[j].stack
<1> DEFINE Beyond(a, b) == a.gp <= b.gp /\ a.simd <= b.simd /\ a.stack <= b.stack
           S == {n \in Nat : i <= n /\ n <= Len(p) => Beyond(t[i], t[n])}
<1>1. t[i] \in ABI
  BY DEF CallerTrace
<1>2. \A n \in Nat : n <= i => n \in S
  BY <1>1 DEF ABI
<1>3. ASSUME NEW n \in Nat, n \in S PROVE n + 1 \in S
  <2>1. CASE n + 1 <= i
    BY <1>2, <2>1
  <2>2. CASE n + 1 > Len(p)
    BY <2>2
  <2>3. CASE n + 1 > i /\ n + 1 <= Len(p)
    <3>1. /\ t[n] \in ABI /\ p[n+1].type \in Type
          /\ t[n+1] = Advance(t[n], p[n+1].type)
      BY <2>3, CallerStep
    <3>2. Beyond(t[i], t[n])
      BY <1>3, <2>3
    <3>3. Beyond(t[n], t[n+1])
      BY <3>1, AdvanceFields DEF ABI
    <3>4. t[n+1] \in ABI
      BY <2>3, CallerStep
    <3>5. Beyond(t[i], t[n+1])
      BY <1>1, <3>1, <3>2, <3>3, <3>4 DEF ABI
    <3> QED
      BY <3>5
  <2> QED
    BY <2>1, <2>2, <2>3
<1>4. \A n \in Nat : n \in S
  <2>1. 0 \in S
    BY <1>2
  <2> HIDE DEF S
  <2> QED
    BY <1>3, <2>1, SetInduction
<1>5. j \in S
  BY <1>4
<1> QED
  BY <1>5

\* The stack bytes of a trace are a multiple of the slot size.
LEMMA TraceInSlots ==
  ASSUME NEW p \in Seq(Argument), NEW t, CallerTrace(p, t), NEW k \in 0 .. Len(p)
  PROVE  t[k].stack % SlotSize = 0
<1> DEFINE S == {n \in Nat : n <= Len(p) => t[n].stack % SlotSize = 0}
<1>1. 0 \in S
  BY DEF CallerTrace, Reset, SlotSize
<1>2. ASSUME NEW n \in Nat, n \in S PROVE n + 1 \in S
  <2> SUFFICES ASSUME n + 1 <= Len(p) PROVE t[n+1].stack % SlotSize = 0
    OBVIOUS
  <2>1. /\ t[n] \in ABI /\ p[n+1].type \in Type
        /\ t[n+1] = Advance(t[n], p[n+1].type)
    BY CallerStep
  <2> QED
    BY <1>2, <2>1 DEF Advance, ABI, SlotSize
<1>3. \A n \in Nat : n \in S
  <2> HIDE DEF S
  <2> QED
    BY <1>1, <1>2, SetInduction
<1> QED
  BY <1>3

\* Every location is counted: it is the value of one of the counters, which
\* then moves past it.
LEMMA LocationCounted ==
  ASSUME NEW p \in Seq(Argument), NEW t, CallerTrace(p, t), NEW i \in 1 .. Len(p)
  PROVE  LET l == p[i].location
         IN  \/ l.kind = "gp" /\ l.at = t[i-1].gp /\ t[i].gp = l.at + 1
             \/ l.kind = "simd" /\ l.at = t[i-1].simd /\ t[i].simd = l.at + 1
             \/ l.kind = "stack" /\ l.at = t[i-1].stack /\ t[i].stack = l.at + SlotSize
<1>1. /\ t[i-1] \in ABI /\ p[i].type \in Type
      /\ t[i] = Advance(t[i-1], p[i].type)
      /\ p[i].location = NextCallArgument(t[i-1], p[i].type)
  BY CallerStepAt
<1> QED
  BY <1>1, AdvanceFields DEF ABI, SlotSize
-----------------------------------------------------------------------------
(* Steps *)

\* The empty trace, and one more argument at the end of a trace.
LEMMA TraceBegins ==
  /\ \E t : CallerTrace(<<>>, t) /\ Reset = t[Len(<<>>)]
  /\ \E u : CalleeTrace(<<>>, u) /\ Reset = u[Len(<<>>)]
<1> DEFINE t == [k \in 0 .. Len(<<>>) |-> Reset]
<1>1. Reset \in ABI
  BY DEF Reset, ABI
<1>2. CallerTrace(<<>>, t) /\ Reset = t[Len(<<>>)]
  BY <1>1 DEF CallerTrace
<1>3. CalleeTrace(<<>>, t) /\ Reset = t[Len(<<>>)]
  BY <1>1 DEF CalleeTrace
<1> QED
  BY <1>2, <1>3

LEMMA CallerTraceExtends ==
  ASSUME NEW p \in Seq(Argument), NEW t, CallerTrace(p, t), NEW a \in Argument,
         a.location = NextCallArgument(t[Len(p)], a.type)
  PROVE  \E v : /\ CallerTrace(Append(p, a), v)
                /\ v[Len(Append(p, a))] = Advance(t[Len(p)], a.type)
<1> DEFINE n == Len(p)
           q == Append(p, a)
           v == [k \in 0 .. n + 1 |-> IF k <= n THEN t[k] ELSE Advance(t[n], a.type)]
<1>1. n \in Nat /\ Len(q) = n + 1 /\ q[n+1] = a /\ \A i \in 1 .. n : q[i] = p[i]
  OBVIOUS
<1>2. t[n] \in ABI /\ t \in [0 .. n -> ABI]
  BY <1>1 DEF CallerTrace
<1>3. Advance(t[n], a.type) \in ABI
  BY <1>2, ABIFacts DEF Argument
<1>4. v \in [0 .. Len(q) -> ABI] /\ v[0] = Reset
  BY <1>1, <1>2, <1>3 DEF CallerTrace
<1>5. ASSUME NEW i \in 1 .. Len(q)
      PROVE  /\ v[i] = Advance(v[i-1], q[i].type)
             /\ q[i].location = NextCallArgument(v[i-1], q[i].type)
  <2>1. CASE i = n + 1
    BY <1>1, <2>1
  <2>2. CASE i \in 1 .. n
    BY <1>1, <2>2 DEF CallerTrace
  <2> QED
    BY <1>1, <2>1, <2>2
<1>6. v[Len(q)] = Advance(t[n], a.type)
  BY <1>1
<1>7. CallerTrace(q, v)
  BY <1>4, <1>5 DEF CallerTrace
<1> QED
  BY <1>6, <1>7

LEMMA CalleeTraceExtends ==
  ASSUME NEW p \in Seq(Parameter), NEW t, CalleeTrace(p, t), NEW a \in Parameter,
         a.location = NextFormalParameter(t[Len(p)], a.type)
  PROVE  \E v : /\ CalleeTrace(Append(p, a), v)
                /\ v[Len(Append(p, a))] = Advance(t[Len(p)], a.type)
<1> DEFINE n == Len(p)
           q == Append(p, a)
           v == [k \in 0 .. n + 1 |-> IF k <= n THEN t[k] ELSE Advance(t[n], a.type)]
<1>1. n \in Nat /\ Len(q) = n + 1 /\ q[n+1] = a /\ \A i \in 1 .. n : q[i] = p[i]
  OBVIOUS
<1>2. t[n] \in ABI /\ t \in [0 .. n -> ABI]
  BY <1>1 DEF CalleeTrace
<1>3. Advance(t[n], a.type) \in ABI
  BY <1>2, ABIFacts DEF Parameter
<1>4. v \in [0 .. Len(q) -> ABI] /\ v[0] = Reset
  BY <1>1, <1>2, <1>3 DEF CalleeTrace
<1>5. ASSUME NEW i \in 1 .. Len(q)
      PROVE  /\ v[i] = Advance(v[i-1], q[i].type)
             /\ q[i].location = NextFormalParameter(v[i-1], q[i].type)
  <2>1. CASE i = n + 1
    BY <1>1, <2>1
  <2>2. CASE i \in 1 .. n
    BY <1>1, <2>2 DEF CalleeTrace
  <2> QED
    BY <1>1, <2>1, <2>2
<1>6. v[Len(q)] = Advance(t[n], a.type)
  BY <1>1
<1>7. CalleeTrace(q, v)
  BY <1>4, <1>5 DEF CalleeTrace
<1> QED
  BY <1>6, <1>7

LEMMA FrontLast ==
  ASSUME NEW S, NEW s \in Seq(S), s # <<>>
  PROVE  /\ Front(s) \in Seq(S)
         /\ Len(Front(s)) = Len(s) - 1
         /\ \A k \in 1 .. Len(s) - 1 : Front(s)[k] = s[k]
         /\ Last(s) \in S /\ Last(s) = s[Len(s)]
<1>1. Len(s) \in Nat /\ Len(s) - 1 \in Nat /\ Len(s) \in 1 .. Len(s)
  OBVIOUS
<1> DEFINE n == Len(s) - 1
<1>2. Front(s) \in Seq(S) /\ Len(Front(s)) = n
  <2>1. n \in Nat /\ \A i \in 1 .. n : s[i] \in S
    BY <1>1
  <2>2. Front(s) = SubSeq(s, 1, n)
    BY DEF Front
  <2> HIDE DEF n
  <2> QED
    BY <2>1, <2>2
<1>3. \A k \in 1 .. Len(s) - 1 : Front(s)[k] = s[k]
  BY <1>1 DEF Front
<1>4. Last(s) \in S /\ Last(s) = s[Len(s)]
  BY <1>1 DEF Last
<1> QED
  BY <1>2, <1>3, <1>4

\* When an argument has been evaluated the enclosing visits stay well typed and
\* only the innermost one changes.
LEMMA EvaluatedFacts ==
  ASSUME NEW stack \in Seq(CallExpression), stack # <<>>, NEW id \in Nat,
         Len(Last(stack).evaluated) < Len(Signature[Last(stack).function])
  PROVE  /\ Evaluated(stack, id) \in Seq(CallExpression)
         /\ Len(Evaluated(stack, id)) = Len(stack)
         /\ \A k \in 1 .. Len(stack) - 1 : Evaluated(stack, id)[k] = stack[k]
<1> DEFINE call == Last(stack)
           n == Len(call.evaluated) + 1
           type == Signature[call.function][n]
           operand == [id |-> id, type |-> type]
           new == [call EXCEPT !.evaluated = Append(@, operand)]
<1>1. call \in CallExpression
  BY FrontLast
<1>2. call.evaluated \in Seq(Operand) /\ call.function \in Function
  BY <1>1 DEF CallExpression
<1>3. Signature[call.function] \in Seq(Type) /\ n \in 1 .. Len(Signature[call.function])
  BY <1>2, SignatureAssumption
<1>4. operand \in Operand
  BY <1>3 DEF Operand
<1>5. new \in CallExpression
  <2>1. Append(call.evaluated, operand) \in Seq(Operand)
    <3> HIDE DEF operand, call
    <3> QED
      BY <1>2, <1>4
  <2> HIDE DEF operand, call
  <2> QED
    BY <1>1, <2>1 DEF CallExpression
<1>6. Evaluated(stack, id) = Append(Front(stack), new)
  BY DEF Evaluated
<1> HIDE DEF new
<1>7. /\ Front(stack) \in Seq(CallExpression)
      /\ Len(Front(stack)) = Len(stack) - 1
      /\ \A k \in 1 .. Len(stack) - 1 : Front(stack)[k] = stack[k]
  BY FrontLast
<1> QED
  BY <1>5, <1>6, <1>7

LEMMA InitIInv == Init => IInv
  BY RegsAssumption DEF Init, IInv, TypeOK, Working, Traced, Reset, ABI

LEMMA StepIInv == IInv /\ [Next]_vars => IInv'
<1> SUFFICES ASSUME IInv, [Next]_vars PROVE IInv'
  OBVIOUS
<1> USE DEF IInv
<1>1. ASSUME NEW f \in Function, VisitFunctionDefinition(f) PROVE IInv'
  <2>1. FunctionInstruction(f) \in Instruction
    BY DEF FunctionInstruction, Instruction
  <2> QED
    BY <1>1, <2>1 DEF VisitFunctionDefinition, TypeOK, Working, Traced
<1>2. ASSUME NEW f \in Function, BeginCall(f) PROVE IInv'
  <2> DEFINE call == [function |-> f, evaluated |-> <<>>]
  <2>1. call \in CallExpression
    BY DEF CallExpression
  <2>2. visiting' = Append(visiting, call)
    BY <1>2 DEF BeginCall
  <2>3. ASSUME NEW k \in 1 .. Len(visiting') - 1
        PROVE  Len(visiting'[k].evaluated) < Len(Signature[visiting'[k].function])
    <3>1. visiting'[k] = visiting[k] /\ k \in 1 .. Len(visiting)
      BY <2>2 DEF TypeOK
    <3>2. CASE k = Len(visiting)
      BY <1>2, <3>1, <3>2 DEF BeginCall, Last
    <3> QED
      BY <3>1, <3>2 DEF Working, TypeOK
  <2> HIDE DEF call
  <2>4. TypeOK'
    BY <1>2, <2>1, <2>2 DEF BeginCall, TypeOK
  <2>5. Working'
    BY <1>2, <2>3 DEF BeginCall, Working
  <2> QED
    BY <1>2, <2>4, <2>5 DEF BeginCall, Traced
<1>3. CASE EvaluateArgument
  <2>1. visiting' = Evaluated(visiting, 0) /\ visiting # <<>>
    BY <1>3 DEF EvaluateArgument
  <2>2. /\ visiting' \in Seq(CallExpression)
        /\ Len(visiting') = Len(visiting)
        /\ \A k \in 1 .. Len(visiting) - 1 : visiting'[k] = visiting[k]
    BY <1>3, <2>1, EvaluatedFacts DEF EvaluateArgument, TypeOK
  <2> QED
    BY <1>3, <2>2 DEF EvaluateArgument, TypeOK, Working, Traced
<1>4. CASE FinishVisiting
  BY <1>4 DEF FinishVisiting, TypeOK, Working, Traced
<1>5. CASE LowerParam
  <2>1. Head(tac) \in Instruction /\ Head(tac).op = "param" /\ Tail(tac) \in Seq(Instruction)
    BY <1>5 DEF LowerParam, TypeOK
  <2>2. Head(tac).operand \in Operand
    BY <2>1 DEF Instruction
  <2> QED
    BY <1>5, <2>1, <2>2 DEF LowerParam, TypeOK, Working, Traced
<1>6. CASE BeginLowerCall
  BY <1>6, TraceBegins, RegsAssumption
    DEF BeginLowerCall, TypeOK, Working, Traced, Reset, ABI
<1>7. CASE BeginLowerFunction
  BY <1>7, TraceBegins, RegsAssumption
    DEF BeginLowerFunction, TypeOK, Working, Traced, Reset, ABI
<1>8. CASE PlaceArgument
  <2> DEFINE arg == Head(pending_args)
             a == [id |-> arg.id, type |-> arg.type,
                   location |-> NextCallArgument(abi, arg.type)]
  <2>1. arg \in Operand /\ pending_args' \in Seq(Operand)
    BY <1>8 DEF PlaceArgument, TypeOK
  <2>2. a \in Argument /\ arg.type \in Type
    BY <2>1, ABIFacts DEF TypeOK, Argument, Operand
  <2>3. placed \in Seq(Argument) /\ placed' = Append(placed, a) /\ abi' = Advance(abi, arg.type)
    BY <1>8 DEF PlaceArgument, Traced
  <2>4. TypeOK'
    BY <1>8, <2>1, <2>2, <2>3, ABIFacts, AdvanceBound DEF PlaceArgument, TypeOK
  <2>5. \E v : CallerTrace(placed', v) /\ abi' = v[Len(placed')]
    <3>1. PICK t : CallerTrace(placed, t) /\ abi = t[Len(placed)]
      BY <1>8 DEF PlaceArgument, Traced
    <3>2. a.type = arg.type /\ a.location = NextCallArgument(t[Len(placed)], a.type)
      BY <3>1
    <3> HIDE DEF a
    <3> QED
      BY <2>2, <2>3, <3>1, <3>2, CallerTraceExtends
  <2>6. Traced'
    BY <1>8, <2>2, <2>3, <2>5 DEF PlaceArgument, Traced
  <2> QED
    BY <1>8, <2>4, <2>6 DEF PlaceArgument, Working
<1>9. CASE PlaceParameter
  <2> DEFINE type == Signature[Head(tac).function][Len(placed) + 1]
             a == [type |-> type, location |-> NextFormalParameter(abi, type)]
  <2>1. placed \in Seq(Parameter) /\ placed' = Append(placed, a) /\ abi' = Advance(abi, type)
    BY <1>9 DEF PlaceParameter, Traced
  <2>2. type \in Type
    <3>1. Head(tac) \in Instruction /\ Head(tac).op = "function"
      BY <1>9 DEF PlaceParameter, TypeOK, Working
    <3>2. Signature[Head(tac).function] \in Seq(Type)
      BY <3>1, SignatureAssumption DEF Instruction
    <3> QED
      BY <1>9, <2>1, <3>2 DEF PlaceParameter
  <2>3. a \in Parameter
    BY <2>2, ABIFacts DEF TypeOK, Parameter
  <2>4. TypeOK'
    BY <1>9, <2>1, <2>2, <2>3, ABIFacts, AdvanceBound DEF PlaceParameter, TypeOK
  <2>5. \E v : CalleeTrace(placed', v) /\ abi' = v[Len(placed')]
    <3>1. PICK u : CalleeTrace(placed, u) /\ abi = u[Len(placed)]
      BY <1>9 DEF PlaceParameter, Traced
    <3>2. a.type = type /\ a.location = NextFormalParameter(u[Len(placed)], a.type)
      BY <3>1
    <3> HIDE DEF a
    <3> QED
      BY <2>1, <2>3, <3>1, <3>2, CalleeTraceExtends
  <2>6. Traced'
    BY <1>9, <2>1, <2>3, <2>5 DEF PlaceParameter, Traced
  <2> QED
    BY <1>9, <2>4, <2>6 DEF PlaceParameter, Working
<1>10. CASE EndLowerCall
  <2> DEFINE site == [function |-> Head(tac).function, arguments |-> placed,
                      stack_args_size |-> StackArgsSize(abi)]
  <2>1. Head(tac) \in Instruction /\ Head(tac).op = "call" /\ Tail(tac) \in Seq(Instruction)
    BY <1>10 DEF EndLowerCall, TypeOK, Working
  <2>2. site \in Site
    BY <1>10, <2>1, StackArgsSizeFacts
      DEF EndLowerCall, Traced, TypeOK, Site, Instruction
  <2>3. PICK t : CallerTrace(placed, t) /\ abi = t[Len(placed)]
    BY <1>10 DEF EndLowerCall, Traced
  <2>4. sites' = Append(sites, site)
    BY <1>10 DEF EndLowerCall
  <2>5. TypeOK'
    BY <1>10, <2>1, <2>2, <2>4 DEF EndLowerCall, TypeOK
  <2>6. ASSUME NEW n \in 1 .. Len(sites')
        PROVE  \E v : /\ CallerTrace(sites'[n].arguments, v)
                      /\ sites'[n].stack_args_size
                           = StackArgsSize(v[Len(sites'[n].arguments)])
    <3>1. CASE n = Len(sites) + 1
      <4>1. sites'[n] = site
        BY <2>4, <3>1 DEF TypeOK
      <4>2. site.arguments = placed /\ site.stack_args_size = StackArgsSize(t[Len(placed)])
        BY <2>3
      <4> HIDE DEF site
      <4> QED
        BY <2>3, <4>1, <4>2
    <3>2. CASE n \in 1 .. Len(sites)
      BY <2>4, <3>2 DEF TypeOK, Traced
    <3> QED
      BY <2>4, <3>1, <3>2 DEF TypeOK
  <2>7. Traced'
    BY <1>10, <2>6 DEF EndLowerCall, Traced
  <2> QED
    BY <1>10, <2>5, <2>7 DEF EndLowerCall, Working
<1>11. CASE EndLowerFunction
  <2> DEFINE entry == [function |-> Head(tac).function, parameters |-> placed]
  <2>1. Head(tac) \in Instruction /\ Head(tac).op = "function" /\ Tail(tac) \in Seq(Instruction)
    BY <1>11 DEF EndLowerFunction, TypeOK, Working
  <2>2. entry \in Entry /\ \E u : CalleeTrace(entry.parameters, u)
    BY <1>11, <2>1 DEF EndLowerFunction, Traced, TypeOK, Entry, Instruction
  <2>3. entries' = entries \cup {entry}
    BY <1>11 DEF EndLowerFunction
  <2>4. Traced'
    BY <1>11, <2>2, <2>3 DEF EndLowerFunction, Traced
  <2>5. TypeOK'
    BY <1>11, <2>1, <2>2, <2>3 DEF EndLowerFunction, TypeOK
  <2> QED
    BY <1>11, <2>4, <2>5 DEF EndLowerFunction, Working
<1>12. CASE EndCall
  <2> DEFINE call == Last(visiting)
             outer == Front(visiting)
             params == [i \in DOMAIN call.evaluated |-> Param(call.evaluated[i])]
  <2>1. call \in CallExpression /\ outer \in Seq(CallExpression)
    BY <1>12, FrontLast DEF EndCall, TypeOK
  <2>2. params \in Seq(Instruction) /\ <<Call(call.function)>> \in Seq(Instruction)
    BY <2>1 DEF CallExpression, Param, Call, Instruction
  <2>3. tac' \in Seq(Instruction) /\ source' \in Seq(CallExpression)
    BY <1>12, <2>1, <2>2 DEF EndCall, TypeOK
  <2>4. /\ Len(outer) = Len(visiting) - 1
        /\ \A k \in 1 .. Len(outer) : outer[k] = visiting[k]
    BY <1>12, FrontLast DEF EndCall, TypeOK
  <2>5. CASE outer = <<>>
    <3>1. visiting' = <<>> /\ UNCHANGED <<phase, pending_args, abi, placed, sites, entries>>
      BY <1>12, <2>5 DEF EndCall
    <3>2. phase = "visiting"
      BY <1>12 DEF EndCall
    <3>3. TypeOK'
      BY <2>3, <3>1 DEF TypeOK
    <3>4. Working'
      BY <3>1, <3>2 DEF Working
    <3>5. Traced'
      BY <3>1, <3>2 DEF Traced
    <3> QED
      BY <3>3, <3>4, <3>5
  <2>6. CASE outer # <<>>
    <3>1. Last(outer) = visiting[Len(outer)] /\ Len(outer) \in 1 .. Len(visiting) - 1
      BY <1>12, <2>1, <2>4, <2>6 DEF EndCall, Last, TypeOK
    <3>2. Len(Last(outer).evaluated) < Len(Signature[Last(outer).function])
      BY <3>1 DEF Working
    <3>3. visiting' = Evaluated(outer, Len(source) + 1) /\ Len(source) + 1 \in Nat
      BY <1>12, <2>6 DEF EndCall, TypeOK
    <3> HIDE DEF outer
    <3>4. /\ visiting' \in Seq(CallExpression)
          /\ Len(visiting') = Len(outer)
          /\ \A k \in 1 .. Len(outer) - 1 : visiting'[k] = outer[k]
      BY <2>1, <2>6, <3>2, <3>3, EvaluatedFacts
    <3>5. ASSUME NEW k \in 1 .. Len(visiting') - 1 PROVE visiting'[k] = visiting[k]
      <4>1. k \in 1 .. Len(outer) - 1 /\ k \in 1 .. Len(outer)
        BY <2>1, <3>4
      <4> QED
        BY <2>4, <3>4, <4>1
    <3>6. Working'
      <4>1. ASSUME NEW k \in 1 .. Len(visiting') - 1
            PROVE  Len(visiting'[k].evaluated) < Len(Signature[visiting'[k].function])
        <5>1. visiting'[k] = visiting[k] /\ k \in 1 .. Len(visiting) - 1
          BY <2>1, <2>4, <3>4, <3>5
        <5> QED
          BY <5>1 DEF Working
      <4> QED
        BY <1>12, <4>1 DEF EndCall, Working
    <3>7. TypeOK'
      BY <1>12, <2>3, <3>4 DEF EndCall, TypeOK
    <3> QED
      BY <1>12, <3>6, <3>7 DEF EndCall, Traced
  <2> QED
    BY <2>5, <2>6
<1>13. CASE UNCHANGED vars
  BY <1>13 DEF vars, TypeOK, Working, Traced
<1> QED
  BY <1>1, <1>2, <1>3, <1>4, <1>5, <1>6, <1>7, <1>8, <1>9, <1>10, <1>11, <1>12,
     <1>13 DEF Next

LEMMA Invariance == Spec => []IInv
  BY InitIInv, StepIInv, PTL DEF Spec

-----------------------------------------------------------------------------
(* Theorems *)

\* The variables keep their types and the handler never numbers a register that
\* is not an argument register.
THEOREM TypeCorrect == Spec => []TypeOK
<1>1. IInv => TypeOK
  BY DEF IInv
<1> QED
  BY <1>1, Invariance, PTL

\* Wherever a call site and a definition see the same parameter types, however
\* many, they agree on the place of each, for every number of registers.
THEOREM PlacesAgree == Spec => []SameTypesSamePlaces
<1>1. IInv => SameTypesSamePlaces
  <2> SUFFICES ASSUME IInv, NEW n \in DOMAIN sites, NEW e \in entries,
                      NEW i \in DOMAIN sites[n].arguments \cap DOMAIN e.parameters,
                      \A j \in 1 .. i : sites[n].arguments[j].type = e.parameters[j].type
               PROVE  SamePlace(sites[n].arguments[i].location, e.parameters[i].location)
    BY DEF SameTypesSamePlaces
  <2> DEFINE p == sites[n].arguments
             q == e.parameters
  <2>1. sites[n] \in Site /\ e \in Entry /\ n \in 1 .. Len(sites)
    BY DEF IInv, TypeOK
  <2>2. p \in Seq(Argument) /\ q \in Seq(Parameter)
    BY <2>1 DEF Site, Entry
  <2>3. PICK t : CallerTrace(p, t)
    BY <2>1 DEF IInv, Traced
  <2>4. PICK u : CalleeTrace(q, u)
    BY DEF IInv, Traced
  <2>5. /\ i \in 1 .. Len(p) /\ i \in 1 .. Len(q)
        /\ i - 1 \in Nat /\ i - 1 <= Len(p) /\ i - 1 <= Len(q)
    BY <2>2
  <2>6. /\ \A j \in 1 .. i - 1 : p[j].type = q[j].type
        /\ p[i].type = q[i].type
    BY <2>5
  <2> HIDE DEF p, q
  <2>7. t[i-1] = u[i-1]
    BY <2>2, <2>3, <2>4, <2>5, <2>6, TracesAgree
  <2>8. /\ t[i-1] \in ABI /\ p[i].type \in Type
        /\ p[i].location = NextCallArgument(t[i-1], p[i].type)
    BY <2>2, <2>3, <2>5, CallerStepAt
  <2>9. q[i].location = NextFormalParameter(u[i-1], q[i].type)
    BY <2>4, <2>5 DEF CalleeTrace
  <2>10. SamePlace(p[i].location, q[i].location)
    BY <2>6, <2>7, <2>8, <2>9, ABIFacts
  <2> QED
    BY <2>10 DEF p, q
<1> QED
  BY <1>1, Invariance, PTL

\* The arguments of a call, however many, are in different registers and in
\* disjoint, aligned bytes of the area sp was lowered by.
THEOREM NoCollision == Spec => []ArgumentsDoNotCollide
<1>1. ASSUME NEW p \in Seq(Argument), NEW t, CallerTrace(p, t),
             NEW i \in 1 .. Len(p), NEW j \in 1 .. Len(p), i < j
      PROVE  ~ Overlap(p[i], p[j]) /\ ~ Overlap(p[j], p[i])
  <2>1. /\ i \in 0 .. Len(p) /\ j - 1 \in 0 .. Len(p) /\ i <= j - 1
    BY <1>1
  <2>2. LET l == p[i].location
        IN  \/ l.kind = "gp" /\ t[i].gp = l.at + 1
            \/ l.kind = "simd" /\ t[i].simd = l.at + 1
            \/ l.kind = "stack" /\ t[i].stack = l.at + 8
    BY <1>1, LocationCounted DEF SlotSize
  <2>3. LET l == p[j].location
        IN  \/ l.kind = "gp" /\ l.at = t[j-1].gp
            \/ l.kind = "simd" /\ l.at = t[j-1].simd
            \/ l.kind = "stack" /\ l.at = t[j-1].stack
    BY <1>1, LocationCounted
  <2>4. /\ t[i].gp <= t[j-1].gp
        /\ t[i].simd <= t[j-1].simd
        /\ t[i].stack <= t[j-1].stack
    BY <2>1, <1>1, TraceGrows
  <2>5. /\ p[i].location.at \in Nat /\ p[j].location.at \in Nat
        /\ p[i].type.size \in {4, 8} /\ p[j].type.size \in {4, 8}
    BY <1>1, CallerStepAt DEF Argument, Location, Type, Size
  <2>6. t[i] \in ABI /\ t[j-1] \in ABI
    BY <1>1, CallerStepAt
  <2>7. p[i].location.kind = p[j].location.kind =>
          p[i].location.at + (IF p[i].location.kind = "stack" THEN 8 ELSE 1)
            <= p[j].location.at
    BY <2>2, <2>3, <2>4, <2>5, <2>6 DEF ABI
  <2> QED
    BY <2>5, <2>7 DEF Overlap
<1>2. ASSUME NEW p \in Seq(Argument), NEW t, CallerTrace(p, t), NEW i \in 1 .. Len(p),
             p[i].location.kind = "stack"
      PROVE  /\ p[i].location.at + p[i].type.size <= StackArgsSize(t[Len(p)])
             /\ p[i].location.at % p[i].type.size = 0
  <2> DEFINE n == Len(p)
  <2>1. i - 1 \in 0 .. n /\ i \in 0 .. n /\ n \in 0 .. n /\ i <= n
    OBVIOUS
  <2>2. p[i].location.at = t[i-1].stack /\ t[i].stack = p[i].location.at + 8
    BY <1>2, LocationCounted DEF SlotSize
  <2>3. t[i].stack <= t[n].stack
    BY <2>1, <1>2, TraceGrows
  <2>4. t[i-1].stack % 8 = 0
    BY <2>1, <1>2, TraceInSlots DEF SlotSize
  <2>5. p[i].location.at \in Nat /\ p[i].type.size \in {4, 8}
    BY <1>2, CallerStepAt DEF Argument, Location, Type, Size
  <2>6. t[n] \in ABI /\ t[i] \in ABI
    BY <2>1, <1>2 DEF CallerTrace
  <2>7. StackArgsSize(t[n]) >= t[n].stack /\ StackArgsSize(t[n]) \in Nat
    BY <2>6, StackArgsSizeFacts
  <2>8. t[n].stack \in Nat /\ t[i].stack \in Nat
    BY <2>6 DEF ABI
  <2>9. p[i].location.at + 8 <= StackArgsSize(t[n])
    BY <2>2, <2>3, <2>5, <2>7, <2>8
  <2>10. p[i].location.at % p[i].type.size = 0
    <3>1. \A x \in Nat : x % 8 = 0 => x % 4 = 0
      OBVIOUS
    <3>2. p[i].location.at % 8 = 0
      BY <2>2, <2>4
    <3> QED
      BY <2>5, <3>1, <3>2
  <2> QED
    BY <2>5, <2>7, <2>9, <2>10
<1>3. IInv => ArgumentsDoNotCollide
  <2> SUFFICES ASSUME IInv, NEW n \in DOMAIN sites
               PROVE  LET site == sites[n]
                      IN  /\ \A i, j \in DOMAIN site.arguments :
                               i # j => ~ Overlap(site.arguments[i], site.arguments[j])
                          /\ \A i \in DOMAIN site.arguments :
                               site.arguments[i].location.kind = "stack" =>
                                 /\ site.arguments[i].location.at
                                      + site.arguments[i].type.size
                                      <= site.stack_args_size
                                 /\ site.arguments[i].location.at
                                      % site.arguments[i].type.size = 0
                          /\ site.stack_args_size % 16 = 0
    BY DEF ArgumentsDoNotCollide
  <2> DEFINE p == sites[n].arguments
  <2>1. sites[n] \in Site /\ n \in 1 .. Len(sites)
    BY DEF IInv, TypeOK
  <2>2. p \in Seq(Argument) /\ DOMAIN p = 1 .. Len(p) /\ Len(p) \in Nat
    BY <2>1 DEF Site
  <2>3. PICK t : CallerTrace(p, t) /\ sites[n].stack_args_size = StackArgsSize(t[Len(p)])
    BY <2>1 DEF IInv, Traced
  <2> HIDE DEF p
  <2>4. ASSUME NEW i \in DOMAIN p, NEW j \in DOMAIN p, i # j
        PROVE  ~ Overlap(p[i], p[j])
    <3>1. i \in 1 .. Len(p) /\ j \in 1 .. Len(p) /\ (i < j \/ j < i)
      BY <2>2, <2>4
    <3> QED
      BY <1>1, <2>2, <2>3, <3>1
  <2>5. ASSUME NEW i \in DOMAIN p, p[i].location.kind = "stack"
        PROVE  /\ p[i].location.at + p[i].type.size <= sites[n].stack_args_size
               /\ p[i].location.at % p[i].type.size = 0
    BY <1>2, <2>2, <2>3, <2>5
  <2>6. sites[n].stack_args_size % 16 = 0
    BY <2>2, <2>3, StackArgsSizeFacts DEF CallerTrace
  <2> QED
    BY <2>4, <2>5, <2>6 DEF p
<1> QED
  BY <1>3, Invariance, PTL

-----------------------------------------------------------------------------
(***************************************************************************)
(* Calls get their own arguments, however deep they are nested.            *)
(*                                                                         *)
(* A Call does not name its Params.  The invariant says where they are:    *)
(* there are positions `start` such that the n-th call of the source       *)
(* occupies the positions from start[n] on, its Params and then its Call,  *)
(* one call after the other and only functions between them.  Positions    *)
(* count from the first instruction ever emitted: c of them were lowered.  *)
(* The queue holds the Params of the call that is next, as far as c goes.  *)
(* That both ends agree where arguments are then follows from the types:   *)
(* a call, a definition and the signature have the same.                   *)
(***************************************************************************)

\* The position of the Call; what stands at position q of the n-th call.
End(src, start, n) == start[n] + Len(src[n].evaluated)

At(src, start, n, q) ==
  IF q = End(src, start, n) THEN Call(src[n].function)
  ELSE Param(src[n].evaluated[q - start[n] + 1])

\* `code` is what is left of the instructions of the calls src, after c of them
\* and after the code of `done` calls.
Layout(src, code, done, start, c) ==
  /\ start \in [1 .. Len(src) -> Nat \ {0}]
  /\ c \in Nat
  /\ \A m, n \in 1 .. Len(src) : m < n => End(src, start, m) < start[n]
  /\ \A n \in 1 .. Len(src) : n <= done => End(src, start, n) <= c
  /\ \A n \in 1 .. Len(src) : n > done =>
       c < End(src, start, n) /\ End(src, start, n) <= c + Len(code)
  /\ \A n \in 1 .. Len(src) : \A p \in 1 .. Len(code) :
       start[n] <= p + c /\ p + c <= End(src, start, n) =>
         code[p] = At(src, start, n, p + c)
  /\ \A p \in 1 .. Len(code) :
       \/ code[p].op = "function"
       \/ \E n \in 1 .. Len(src) : start[n] <= p + c /\ p + c <= End(src, start, n)

Untyped(a) == [id |-> a.id, type |-> a.type]

\* The queue and the arguments placed, beside the arguments of call n.
Progress(start, c) ==
  LET n  == Len(sites) + 1
      ev == source[n].evaluated
  IN  /\ phase = "visiting" => c = 0 /\ sites = <<>> /\ pending_args = <<>>
      /\ phase = "function" => pending_args = <<>>
      /\ phase \in {"lowering", "function"} =>
           /\ n > Len(source) => pending_args = <<>>
           /\ n <= Len(source) =>
                /\ \/ pending_args = <<>> /\ c < start[n]
                   \/ pending_args # <<>> /\ c + 1 = start[n] + Len(pending_args)
                /\ \A i \in 1 .. Len(pending_args) :
                     i <= Len(ev) /\ pending_args[i] = ev[i]
      /\ phase = "call" =>
           /\ n <= Len(source) /\ c + 1 = End(source, start, n)
           /\ Len(placed) + Len(pending_args) = Len(ev)
           /\ \A i \in 1 .. Len(placed) : Untyped(placed[i]) = ev[i]
           /\ \A i \in 1 .. Len(pending_args) : pending_args[i] = ev[Len(placed) + i]

\* The code of the n-th call has the arguments of the n-th call.
Own(n) ==
  /\ sites[n].function = source[n].function
  /\ Len(sites[n].arguments) = Len(source[n].evaluated)
  /\ \A i \in 1 .. Len(source[n].evaluated) :
       Untyped(sites[n].arguments[i]) = source[n].evaluated[i]

OInv ==
  /\ IInv
  /\ Len(sites) <= Len(source)
  /\ \A n \in 1 .. Len(sites) : Own(n)
  /\ \E start, c : Layout(source, tac, Len(sites), start, c) /\ Progress(start, c)

-----------------------------------------------------------------------------
(* The layout.                                                             *)

LEMMA EndIsNat ==
  ASSUME NEW src \in Seq(CallExpression), NEW start \in [1 .. Len(src) -> Nat \ {0}],
         NEW n \in 1 .. Len(src)
  PROVE  /\ start[n] \in Nat /\ start[n] >= 1
         /\ Len(src[n].evaluated) \in Nat
         /\ End(src, start, n) \in Nat
         /\ start[n] <= End(src, start, n)
<1>1. src[n] \in CallExpression
  OBVIOUS
<1>2. src[n].evaluated \in Seq(Operand)
  BY <1>1 DEF CallExpression
<1>3. Len(src[n].evaluated) \in Nat
  BY <1>2
<1> QED BY <1>3 DEF End

\* What is not a function belongs to the call that is next.
LEMMA HeadOfCode ==
  ASSUME NEW src \in Seq(CallExpression), NEW code \in Seq(Instruction), code # <<>>,
         NEW done \in Nat, NEW start, NEW c, Layout(src, code, done, start, c),
         code[1].op # "function"
  PROVE  /\ done + 1 \in 1 .. Len(src)
         /\ start[done + 1] <= c + 1 /\ c + 1 <= End(src, start, done + 1)
         /\ code[1] = At(src, start, done + 1, c + 1)
<1> DEFINE m == done + 1
<1>1. 1 \in 1 .. Len(code) /\ c \in Nat /\ start \in [1 .. Len(src) -> Nat \ {0}]
  BY DEF Layout
<1>2. PICK n \in 1 .. Len(src) : start[n] <= 1 + c /\ 1 + c <= End(src, start, n)
  BY <1>1 DEF Layout
<1>3. n > done
  <2>1. End(src, start, n) \in Nat
    BY <1>1, EndIsNat
  <2>2. n <= done => End(src, start, n) <= c
    BY DEF Layout
  <2> QED BY <1>1, <1>2, <2>1, <2>2
<1>4. m \in 1 .. Len(src) /\ m <= n
  BY <1>3
<1>5. c < End(src, start, m)
  BY <1>4 DEF Layout
<1>6. ~(m < n)
  <2> SUFFICES ASSUME m < n PROVE FALSE
    OBVIOUS
  <2>1. End(src, start, m) < start[n]
    BY <1>4 DEF Layout
  <2> HIDE DEF m
  <2>2. End(src, start, m) \in Nat /\ start[n] \in Nat
    BY <1>1, <1>4, EndIsNat
  <2> QED BY <1>1, <1>2, <1>5, <2>1, <2>2
<1>7. n = m
  BY <1>4, <1>6
<1>8. code[1] = At(src, start, n, 1 + c)
  BY <1>1, <1>2 DEF Layout
<1> QED BY <1>1, <1>2, <1>4, <1>7, <1>8

\* One instruction is lowered; it ends the next call exactly if that is done.
LEMMA TailLayout ==
  ASSUME NEW src \in Seq(CallExpression), NEW code \in Seq(Instruction), code # <<>>,
         NEW done \in Nat, NEW start, NEW c, Layout(src, code, done, start, c),
         NEW new_done \in {done, done + 1},
         new_done = done =>
           (done + 1 \in 1 .. Len(src) => c + 1 # End(src, start, done + 1)),
         new_done = done + 1 =>
           done + 1 \in 1 .. Len(src) /\ c + 1 = End(src, start, done + 1)
  PROVE  Layout(src, Tail(code), new_done, start, c + 1)
<1> DEFINE rest == Tail(code)
<1>1. start \in [1 .. Len(src) -> Nat \ {0}] /\ c \in Nat
  BY DEF Layout
<1>2. /\ Len(rest) = Len(code) - 1 /\ Len(code) \in Nat /\ Len(code) >= 1
      /\ \A p \in 1 .. Len(rest) : rest[p] = code[p + 1] /\ p + 1 \in 1 .. Len(code)
  OBVIOUS
<1> HIDE DEF rest
<1>3. ASSUME NEW m \in 1 .. Len(src), NEW n \in 1 .. Len(src), m < n
      PROVE  End(src, start, m) < start[n] /\ End(src, start, m) < End(src, start, n)
  <2>1. End(src, start, m) < start[n]
    BY <1>3 DEF Layout
  <2>2. /\ End(src, start, m) \in Nat /\ End(src, start, n) \in Nat
        /\ start[n] \in Nat /\ start[n] <= End(src, start, n)
    BY <1>1, EndIsNat
  <2> QED BY <2>1, <2>2
<1>4. ASSUME NEW n \in 1 .. Len(src), n <= new_done
      PROVE  End(src, start, n) <= c + 1
  <2>1. CASE n <= done
    BY <1>1, <2>1, EndIsNat DEF Layout
  <2>2. CASE n = done + 1
    BY <1>1, <1>4, <2>2
  <2> QED BY <1>4, <2>1, <2>2
<1>5. ASSUME NEW n \in 1 .. Len(src), n > new_done
      PROVE  c + 1 < End(src, start, n) /\ End(src, start, n) <= c + 1 + Len(rest)
  <2>1. c < End(src, start, n) /\ End(src, start, n) <= c + Len(code)
    BY <1>5 DEF Layout
  <2>2. End(src, start, n) \in Nat
    BY <1>1, EndIsNat
  <2>3. c + 1 # End(src, start, n)
    <3> DEFINE m == done + 1
    <3>1. m \in 1 .. Len(src) /\ m <= n
      BY <1>5
    <3>2. CASE n = m
      BY <1>5, <3>1, <3>2
    <3>3. CASE m < n
      <4>1. End(src, start, m) < End(src, start, n) /\ c < End(src, start, m)
        <5> HIDE DEF m
        <5>1. End(src, start, m) < End(src, start, n)
          BY <1>3, <3>1, <3>3
        <5>2. m > done
          BY DEF m
        <5>3. c < End(src, start, m)
          BY <3>1, <5>2 DEF Layout
        <5> QED BY <5>1, <5>3
      <4>2. End(src, start, m) \in Nat
        BY <1>1, <3>1, EndIsNat
      <4> HIDE DEF m
      <4> QED BY <1>1, <2>2, <4>1, <4>2
    <3> HIDE DEF m
    <3> QED BY <3>1, <3>2, <3>3
  <2> QED BY <1>1, <1>2, <2>1, <2>2, <2>3
<1>6. ASSUME NEW n \in 1 .. Len(src), NEW p \in 1 .. Len(rest),
             start[n] <= p + (c + 1), p + (c + 1) <= End(src, start, n)
      PROVE  rest[p] = At(src, start, n, p + (c + 1))
  <2> DEFINE q == p + 1
  <2>1. q \in 1 .. Len(code) /\ rest[p] = code[q] /\ q + c = p + (c + 1)
    BY <1>1, <1>2
  <2> HIDE DEF q
  <2>2. code[q] = At(src, start, n, q + c)
    BY <1>6, <2>1 DEF Layout
  <2> QED BY <2>1, <2>2
<1>7. ASSUME NEW p \in 1 .. Len(rest)
      PROVE  \/ rest[p].op = "function"
             \/ \E n \in 1 .. Len(src) :
                  start[n] <= p + (c + 1) /\ p + (c + 1) <= End(src, start, n)
  <2> DEFINE q == p + 1
  <2>1. q \in 1 .. Len(code) /\ rest[p] = code[q] /\ q + c = p + (c + 1)
    BY <1>1, <1>2
  <2> HIDE DEF q
  <2> QED BY <2>1 DEF Layout
<1>8. c + 1 \in Nat
  BY <1>1
<1>9. \A m, n \in 1 .. Len(src) : m < n => End(src, start, m) < start[n]
  BY <1>3
<1> QED BY <1>1, <1>4, <1>5, <1>6, <1>7, <1>8, <1>9 DEF Layout, rest

\* A function is emitted.
LEMMA FunctionLayout ==
  ASSUME NEW src \in Seq(CallExpression), NEW code \in Seq(Instruction),
         NEW start, Layout(src, code, 0, start, 0),
         NEW i \in Instruction, i.op = "function"
  PROVE  Layout(src, Append(code, i), 0, start, 0)
<1> DEFINE more == Append(code, i)
<1>1. start \in [1 .. Len(src) -> Nat \ {0}]
  BY DEF Layout
<1>2. /\ Len(more) = Len(code) + 1 /\ Len(code) \in Nat
      /\ \A p \in 1 .. Len(code) : more[p] = code[p]
      /\ more[Len(code) + 1] = i
  OBVIOUS
<1> HIDE DEF more
<1>3. ASSUME NEW n \in 1 .. Len(src)
      PROVE  0 < End(src, start, n) /\ End(src, start, n) <= Len(code)
             /\ End(src, start, n) \in Nat
  <2>1. n > 0
    OBVIOUS
  <2> QED BY <1>1, <1>2, <2>1, EndIsNat DEF Layout
<1>4. ASSUME NEW n \in 1 .. Len(src), NEW p \in 1 .. Len(more),
             start[n] <= p + 0, p + 0 <= End(src, start, n)
      PROVE  more[p] = At(src, start, n, p + 0)
  <2>1. p \in 1 .. Len(code)
    BY <1>2, <1>3, <1>4
  <2> QED BY <1>2, <1>4, <2>1 DEF Layout
<1>5. ASSUME NEW p \in 1 .. Len(more)
      PROVE  \/ more[p].op = "function"
             \/ \E n \in 1 .. Len(src) : start[n] <= p + 0 /\ p + 0 <= End(src, start, n)
  <2>1. CASE p \in 1 .. Len(code)
    BY <1>2, <2>1 DEF Layout
  <2>2. CASE p = Len(code) + 1
    BY <1>2, <2>2
  <2> QED BY <1>2, <2>1, <2>2
<1>6. \A n \in 1 .. Len(src) : ~(n <= 0)
  OBVIOUS
<1>7. \A n \in 1 .. Len(src) : End(src, start, n) <= 0 + Len(more)
  BY <1>2, <1>3
<1>8. \A m, n \in 1 .. Len(src) : m < n => End(src, start, m) < start[n]
  BY DEF Layout
<1> QED BY <1>1, <1>3, <1>4, <1>5, <1>6, <1>7, <1>8 DEF Layout, more

\* A call is emitted: its Params and the Call itself.
LEMMA CallLayout ==
  ASSUME NEW src \in Seq(CallExpression), NEW code \in Seq(Instruction),
         NEW start, Layout(src, code, 0, start, 0), NEW call \in CallExpression,
         NEW params, params = [i \in DOMAIN call.evaluated |-> Param(call.evaluated[i])]
  PROVE  \E s : Layout(Append(src, call),
                      code \o params \o <<Call(call.function)>>, 0, s, 0)
<1> DEFINE last   == Len(src) + 1
           longer == Append(src, call)
           more   == code \o params \o <<Call(call.function)>>
           L      == Len(call.evaluated)
           s      == [n \in 1 .. last |-> IF n = last THEN Len(code) + 1 ELSE start[n]]
<1>1. start \in [1 .. Len(src) -> Nat \ {0}]
  BY DEF Layout
<1>2. /\ Len(src) \in Nat /\ Len(longer) = last /\ longer[last] = call
      /\ \A n \in 1 .. Len(src) : longer[n] = src[n]
      /\ longer \in Seq(CallExpression)
  OBVIOUS
<1>3. L \in Nat /\ DOMAIN call.evaluated = 1 .. L /\ call.evaluated \in Seq(Operand)
      /\ call.function \in Function
  BY DEF CallExpression
<1>4. /\ params \in Seq(Instruction) /\ Len(params) = L
      /\ \A i \in 1 .. L : params[i] = Param(call.evaluated[i])
      /\ Call(call.function) \in Instruction
  BY <1>3 DEF Param, Call, Instruction
<1>5. /\ Len(code) \in Nat /\ Len(more) = Len(code) + L + 1
      /\ \A p \in 1 .. Len(code) : more[p] = code[p]
      /\ \A i \in 1 .. L : more[Len(code) + i] = Param(call.evaluated[i])
      /\ more[Len(code) + L + 1] = Call(call.function)
  <2> HIDE DEF L
  <2>1. /\ code \o params \in Seq(Instruction) /\ Len(code \o params) = Len(code) + L
        /\ \A p \in 1 .. Len(code) : (code \o params)[p] = code[p]
        /\ \A i \in 1 .. L : (code \o params)[Len(code) + i] = params[i]
    BY <1>3, <1>4
  <2> QED BY <1>3, <1>4, <2>1
<1> HIDE DEF more, longer, L
<1>6. /\ s \in [1 .. Len(longer) -> Nat \ {0}] /\ s[last] = Len(code) + 1
      /\ \A n \in 1 .. Len(src) : s[n] = start[n]
  BY <1>1, <1>2, <1>5
<1>7. \A n \in 1 .. Len(src) : End(longer, s, n) = End(src, start, n)
  BY <1>2, <1>6 DEF End
<1>8. End(longer, s, last) = Len(code) + 1 + L
  BY <1>2, <1>6 DEF End, L
<1>9. ASSUME NEW n \in 1 .. Len(src)
      PROVE  /\ 0 < End(src, start, n) /\ End(src, start, n) <= Len(code)
             /\ End(src, start, n) \in Nat
             /\ start[n] \in Nat
  <2>1. n > 0
    OBVIOUS
  <2> QED BY <1>1, <1>5, <2>1, EndIsNat DEF Layout
<1> HIDE DEF s
<1>10. \A n \in 1 .. Len(longer) : n \in 1 .. Len(src) \/ n = last
  BY <1>2
<1>11. ASSUME NEW m \in 1 .. Len(longer), NEW n \in 1 .. Len(longer), m < n
       PROVE  End(longer, s, m) < s[n]
  <2>1. m \in 1 .. Len(src)
    BY <1>2, <1>11
  <2>2. CASE n \in 1 .. Len(src)
    <3>1. End(src, start, m) < start[n]
      BY <1>11, <2>1, <2>2 DEF Layout
    <3> QED BY <1>6, <1>7, <2>1, <2>2, <3>1
  <2>3. CASE n = last
    BY <1>5, <1>6, <1>7, <1>9, <2>1, <2>3
  <2> QED BY <1>10, <2>2, <2>3
<1>12. \A n \in 1 .. Len(longer) : ~(n <= 0)
  OBVIOUS
<1>13. ASSUME NEW n \in 1 .. Len(longer)
       PROVE  0 < End(longer, s, n) /\ End(longer, s, n) <= 0 + Len(more)
  <2>1. CASE n \in 1 .. Len(src)
    BY <1>3, <1>5, <1>7, <1>9, <2>1
  <2>2. CASE n = last
    BY <1>3, <1>5, <1>8, <2>2
  <2> QED BY <1>10, <2>1, <2>2
<1>14. ASSUME NEW n \in 1 .. Len(longer), NEW p \in 1 .. Len(more),
              s[n] <= p + 0, p + 0 <= End(longer, s, n)
       PROVE  more[p] = At(longer, s, n, p + 0)
  <2>1. CASE n \in 1 .. Len(src)
    <3>1. p \in 1 .. Len(code) /\ start[n] <= p + 0 /\ p + 0 <= End(src, start, n)
      BY <1>5, <1>6, <1>7, <1>9, <1>14, <2>1
    <3>2. code[p] = At(src, start, n, p + 0)
      BY <2>1, <3>1 DEF Layout
    <3>3. At(longer, s, n, p + 0) = At(src, start, n, p + 0)
      BY <1>2, <1>6, <1>7, <2>1 DEF At
    <3> QED BY <1>5, <3>1, <3>2, <3>3
  <2>2. CASE n = last
    <3>1. Len(code) + 1 <= p /\ p <= Len(code) + L + 1
      BY <1>3, <1>5, <1>6, <1>8, <1>14, <2>2
    <3>2. CASE p = Len(code) + L + 1
      <4>1. p + 0 = End(longer, s, n)
        BY <1>3, <1>5, <1>8, <2>2, <3>2
      <4> QED BY <1>2, <1>5, <2>2, <3>2, <4>1 DEF At
    <3>3. CASE p # Len(code) + L + 1
      <4> DEFINE i == p - Len(code)
                 q == p + 0
      <4>1. i \in 1 .. L /\ p = Len(code) + i /\ q - s[n] + 1 = i
        <5>1. s[n] = Len(code) + 1
          BY <1>6, <2>2
        <5>2. Len(code) \in Nat /\ L \in Nat /\ p \in Nat
          BY <1>3, <1>5
        <5> QED BY <3>1, <3>3, <5>1, <5>2
      <4>2. q # End(longer, s, n)
        <5>1. q = p /\ End(longer, s, n) = Len(code) + 1 + L
          BY <1>5, <1>8, <2>2
        <5> QED BY <1>3, <1>5, <3>3, <5>1
      <4> HIDE DEF i, q
      <4>3. more[p] = Param(call.evaluated[i])
        BY <1>5, <4>1
      <4>4. At(longer, s, n, q) = Param(longer[n].evaluated[q - s[n] + 1])
        BY <4>2 DEF At
      <4>5. longer[n] = call
        BY <1>2, <2>2
      <4>6. more[p] = At(longer, s, n, q)
        BY <4>1, <4>3, <4>4, <4>5
      <4> QED BY <4>6 DEF q
    <3> QED BY <3>2, <3>3
  <2> QED BY <1>10, <2>1, <2>2
<1>15. ASSUME NEW p \in 1 .. Len(more)
       PROVE  \/ more[p].op = "function"
              \/ \E n \in 1 .. Len(longer) : s[n] <= p + 0 /\ p + 0 <= End(longer, s, n)
  <2>1. CASE p \in 1 .. Len(code)
    <3>1. CASE more[p].op # "function"
      <4>1. PICK n \in 1 .. Len(src) : start[n] <= p + 0 /\ p + 0 <= End(src, start, n)
        BY <1>5, <2>1, <3>1 DEF Layout
      <4>2. n \in 1 .. Len(longer)
        BY <1>2
      <4>3. s[n] = start[n]
        BY <1>6
      <4>4. End(longer, s, n) = End(src, start, n)
        BY <1>7
      <4> QED BY <4>1, <4>2, <4>3, <4>4
    <3> QED BY <3>1
  <2>2. CASE p \notin 1 .. Len(code)
    <3>1. s[last] <= p + 0 /\ p + 0 <= End(longer, s, last) /\ last \in 1 .. Len(longer)
      BY <1>2, <1>3, <1>5, <1>6, <1>8, <2>2
    <3> QED BY <3>1
  <2> QED BY <2>1, <2>2
<1>16. Layout(longer, more, 0, s, 0)
  BY <1>6, <1>11, <1>12, <1>13, <1>14, <1>15 DEF Layout
<1> QED BY <1>16 DEF longer, more

LEMMA AtFacts ==
  ASSUME NEW src, NEW start, NEW n, NEW q
  PROVE  /\ At(src, start, n, q).op # "function"
         /\ At(src, start, n, q).op = "call" =>
              /\ q = End(src, start, n)
              /\ At(src, start, n, q).function = src[n].function
         /\ At(src, start, n, q).op = "param" =>
              /\ q # End(src, start, n)
              /\ At(src, start, n, q).operand = src[n].evaluated[q - start[n] + 1]
BY DEF At, Call, Param

-----------------------------------------------------------------------------
(* The actions.                                                            *)

LEMMA Types ==
  ASSUME IInv
  PROVE  /\ source \in Seq(CallExpression) /\ tac \in Seq(Instruction)
         /\ pending_args \in Seq(Operand) /\ sites \in Seq(Site)
         /\ Len(sites) \in Nat /\ Len(source) \in Nat /\ Len(pending_args) \in Nat
         /\ tac # <<>> => tac[1] = Head(tac) /\ Len(tac) >= 1
BY DEF IInv, TypeOK

\* Most actions leave alone what the layout is about.
LEMMA SameLayout ==
  ASSUME OInv, IInv', UNCHANGED <<source, tac, sites>>,
         NEW start, NEW c, Layout(source, tac, Len(sites), start, c), Progress(start, c)'
  PROVE  OInv'
BY DEF OInv, Own

LEMMA InitOrder == ASSUME Init PROVE OInv
<1>1. IInv
  BY InitIInv
<1>2. /\ source = <<>> /\ tac = <<>> /\ sites = <<>> /\ pending_args = <<>>
      /\ phase = "visiting"
  BY DEF Init
<1>3. Layout(source, tac, Len(sites), <<>>, 0)
  <2>1. <<>> \in [1 .. 0 -> Nat \ {0}]
    OBVIOUS
  <2> QED BY <1>2, <2>1 DEF Layout
<1>4. Progress(<<>>, 0)
  BY <1>2 DEF Progress
<1> QED BY <1>1, <1>2, <1>3, <1>4 DEF OInv

LEMMA VisitingKeepsOrder ==
  ASSUME OInv, IInv',
         \/ \E f \in Function : VisitFunctionDefinition(f) \/ BeginCall(f)
         \/ EvaluateArgument \/ EndCall \/ FinishVisiting
  PROVE  OInv'
<1>1. PICK start, c : Layout(source, tac, Len(sites), start, c) /\ Progress(start, c)
  BY DEF OInv
<1>2. /\ source \in Seq(CallExpression) /\ tac \in Seq(Instruction)
      /\ Len(source) \in Nat
  BY Types DEF OInv
<1>3. phase = "visiting" /\ c = 0 /\ sites = <<>> /\ pending_args = <<>>
  BY <1>1 DEF VisitFunctionDefinition, BeginCall, EvaluateArgument, EndCall,
              FinishVisiting, Progress
<1>4. sites' = <<>> /\ pending_args' = <<>> /\ Len(sites') = 0
  BY <1>3 DEF VisitFunctionDefinition, BeginCall, EvaluateArgument, EndCall, FinishVisiting
<1>5. Layout(source, tac, 0, start, 0)
  BY <1>1, <1>3
<1>6. ASSUME NEW s, Layout(source', tac', 0, s, 0), phase' = "visiting",
             Len(source') \in Nat
      PROVE  OInv'
  <2>1. Progress(s, 0)'
    BY <1>4, <1>6 DEF Progress
  <2>2. \A n \in 1 .. Len(sites') : Own(n)'
    BY <1>4
  <2>3. \E d, e : Layout(source', tac', Len(sites'), d, e) /\ Progress(d, e)'
    BY <1>4, <1>6, <2>1
  <2>4. Len(sites') <= Len(source')
    BY <1>4, <1>6
  <2> QED BY <2>2, <2>3, <2>4 DEF OInv
<1>7. ASSUME NEW f \in Function, VisitFunctionDefinition(f) PROVE OInv'
  <2>1. FunctionInstruction(f) \in Instruction /\ FunctionInstruction(f).op = "function"
    BY DEF FunctionInstruction, Instruction
  <2>2. Layout(source, Append(tac, FunctionInstruction(f)), 0, start, 0)
    BY <1>2, <1>5, <2>1, FunctionLayout
  <2> QED BY <1>2, <1>6, <1>7, <2>2 DEF VisitFunctionDefinition
<1>8. ASSUME NEW f \in Function, BeginCall(f) PROVE OInv'
  BY <1>2, <1>5, <1>6, <1>8 DEF BeginCall
<1>9. CASE EvaluateArgument
  BY <1>2, <1>5, <1>6, <1>9 DEF EvaluateArgument
<1>10. CASE EndCall
  <2> DEFINE call   == Last(visiting)
             params == [i \in DOMAIN call.evaluated |-> Param(call.evaluated[i])]
  <2>1. call \in CallExpression
    BY <1>10, FrontLast DEF EndCall, OInv, IInv, TypeOK
  <2>2. /\ source' = Append(source, call) /\ tac' = tac \o params \o <<Call(call.function)>>
        /\ phase' = "visiting"
    BY <1>10 DEF EndCall
  <2>3. Len(source') \in Nat
    <3> HIDE DEF call
    <3> QED BY <1>2, <2>1, <2>2
  <2>4. \E s : Layout(source', tac', 0, s, 0)
    <3> HIDE DEF call
    <3> QED BY <1>2, <1>5, <2>1, <2>2, CallLayout
  <2> QED BY <1>6, <2>2, <2>3, <2>4
<1>11. CASE FinishVisiting
  <2>1. 1 <= Len(source) => 0 < start[1]
    BY <1>2, <1>5 DEF Layout
  <2>2. Progress(start, 0)'
    BY <1>3, <1>4, <1>11, <2>1 DEF FinishVisiting, Progress
  <2> QED BY <1>1, <1>3, <1>11, <2>2, SameLayout DEF FinishVisiting
<1> QED BY <1>7, <1>8, <1>9, <1>10, <1>11

\* What the head of the code is, while instructions are lowered.
LEMMA HeadOfTac ==
  ASSUME IInv, tac # <<>>, Head(tac).op # "function",
         NEW start, NEW c, Layout(source, tac, Len(sites), start, c)
  PROVE  LET n == Len(sites) + 1
         IN  /\ n \in 1 .. Len(source) /\ n <= Len(source)
             /\ c \in Nat /\ start[n] \in Nat /\ Len(source[n].evaluated) \in Nat
             /\ start[n] <= c + 1 /\ c + 1 <= start[n] + Len(source[n].evaluated)
             /\ End(source, start, n) = start[n] + Len(source[n].evaluated)
             /\ Head(tac) = At(source, start, n, c + 1)
<1> DEFINE n == Len(sites) + 1
<1>1. /\ source \in Seq(CallExpression) /\ tac \in Seq(Instruction)
      /\ Len(sites) \in Nat /\ tac[1] = Head(tac)
  BY Types
<1>2. /\ n \in 1 .. Len(source)
      /\ start[n] <= c + 1 /\ c + 1 <= End(source, start, n)
      /\ Head(tac) = At(source, start, n, c + 1)
  BY <1>1, HeadOfCode
<1>3. c \in Nat /\ start \in [1 .. Len(source) -> Nat \ {0}]
  BY DEF Layout
<1>4. start[n] \in Nat /\ Len(source[n].evaluated) \in Nat
  BY <1>1, <1>2, <1>3, EndIsNat
<1>5. End(source, start, n) = start[n] + Len(source[n].evaluated)
  BY DEF End
<1> HIDE DEF n
<1>6. n <= Len(source)
  BY <1>2
<1> QED BY <1>2, <1>3, <1>4, <1>5, <1>6 DEF n

LEMMA LowerParamKeepsOrder == ASSUME OInv, IInv', LowerParam PROVE OInv'
<1> DEFINE n  == Len(sites) + 1
           ev == source[n].evaluated
           k  == Len(pending_args)
<1>1. PICK start, c : Layout(source, tac, Len(sites), start, c) /\ Progress(start, c)
  BY DEF OInv
<1>2. /\ phase = "lowering" /\ phase' = "lowering" /\ tac # <<>> /\ Head(tac).op = "param"
      /\ pending_args' = Append(pending_args, Head(tac).operand)
      /\ tac' = Tail(tac) /\ UNCHANGED <<source, sites>>
  BY DEF LowerParam
<1>3. /\ source \in Seq(CallExpression) /\ tac \in Seq(Instruction)
      /\ pending_args \in Seq(Operand) /\ Len(sites) \in Nat /\ k \in Nat
  BY Types DEF OInv
<1>4. /\ n \in 1 .. Len(source) /\ n <= Len(source)
      /\ c \in Nat /\ start[n] \in Nat /\ Len(ev) \in Nat
      /\ start[n] <= c + 1 /\ c + 1 <= start[n] + Len(ev)
      /\ End(source, start, n) = start[n] + Len(ev)
      /\ Head(tac) = At(source, start, n, c + 1)
  BY <1>1, <1>2, HeadOfTac DEF OInv
<1>5. PICK q : q = c + 1 /\ Head(tac) = At(source, start, n, q)
  BY <1>4
<1>param. q # End(source, start, n) /\ Head(tac).operand = ev[q - start[n] + 1]
  BY <1>2, <1>5, AtFacts
<1>6. /\ \/ pending_args = <<>> /\ c < start[n]
         \/ pending_args # <<>> /\ c + 1 = start[n] + k
      /\ \A i \in 1 .. k : i <= Len(ev) /\ pending_args[i] = ev[i]
  BY <1>1, <1>2, <1>4 DEF Progress
<1> HIDE DEF ev
<1>7. c + 1 = start[n] + k
  <2>1. pending_args = <<>> => k = 0
    OBVIOUS
  <2> HIDE DEF k, n
  <2> QED BY <1>3, <1>4, <1>6, <2>1
<1>8. k + 1 <= Len(ev) /\ Head(tac).operand = ev[k + 1]
  <2>1. q = c + 1 /\ q # start[n] + Len(ev)
    BY <1>4, <1>5, <1>param
  <2> DEFINE b == start[n]
  <2>2. /\ b \in Nat /\ c \in Nat /\ k \in Nat /\ Len(ev) \in Nat
        /\ q = b + k /\ q # b + Len(ev) /\ q <= b + Len(ev)
    BY <1>3, <1>4, <1>7, <2>1
  <2>3. Head(tac).operand = ev[q - b + 1]
    BY <1>param
  <2> HIDE DEF k, n, b
  <2>4. q - b + 1 = k + 1 /\ k + 1 <= Len(ev)
    BY <2>2
  <2> QED BY <2>3, <2>4
<1>9. Layout(source, Tail(tac), Len(sites), start, c + 1)
  BY <1>1, <1>2, <1>3, <1>5, <1>param, TailLayout
<1>10. /\ Len(pending_args') = k + 1 /\ pending_args' # <<>>
       /\ pending_args'[k + 1] = Head(tac).operand
       /\ \A i \in 1 .. k : pending_args'[i] = pending_args[i]
  BY <1>2, <1>3
<1> HIDE DEF k
<1>11. \A i \in 1 .. Len(pending_args') : i <= Len(ev) /\ pending_args'[i] = ev[i]
  <2> SUFFICES ASSUME NEW i \in 1 .. k + 1
               PROVE  i <= Len(ev) /\ pending_args'[i] = ev[i]
    BY <1>10
  <2>1. CASE i = k + 1
    BY <1>8, <1>10, <2>1
  <2>2. CASE i \in 1 .. k
    BY <1>6, <1>10, <2>2
  <2> QED BY <1>3, <2>1, <2>2
<1>12. (c + 1) + 1 = start[n] + Len(pending_args')
  <2> HIDE DEF n
  <2> QED BY <1>3, <1>4, <1>7, <1>10
<1>13. Progress(start, c + 1)'
  BY <1>2, <1>4, <1>10, <1>11, <1>12 DEF Progress, ev
<1> QED BY <1>2, <1>9, <1>13 DEF OInv, Own

LEMMA BeginLowerCallKeepsOrder == ASSUME OInv, IInv', BeginLowerCall PROVE OInv'
<1> DEFINE n  == Len(sites) + 1
           ev == source[n].evaluated
           k  == Len(pending_args)
<1>1. PICK start, c : Layout(source, tac, Len(sites), start, c) /\ Progress(start, c)
  BY DEF OInv
<1>2. /\ phase = "lowering" /\ phase' = "call" /\ tac # <<>> /\ Head(tac).op = "call"
      /\ placed' = <<>> /\ UNCHANGED <<source, tac, pending_args, sites>>
  BY DEF BeginLowerCall
<1>3. Len(sites) \in Nat /\ k \in Nat
  BY Types DEF OInv
<1>4. /\ n <= Len(source)
      /\ c \in Nat /\ start[n] \in Nat /\ Len(ev) \in Nat
      /\ start[n] <= c + 1 /\ c + 1 <= start[n] + Len(ev)
      /\ End(source, start, n) = start[n] + Len(ev)
      /\ Head(tac) = At(source, start, n, c + 1)
  BY <1>1, <1>2, HeadOfTac DEF OInv
<1>5. c + 1 = End(source, start, n)
  BY <1>2, <1>4, AtFacts
<1>6. /\ \/ pending_args = <<>> /\ c < start[n]
         \/ pending_args # <<>> /\ c + 1 = start[n] + k
      /\ \A i \in 1 .. k : i <= Len(ev) /\ pending_args[i] = ev[i]
  BY <1>1, <1>2, <1>4 DEF Progress
<1>7. k = Len(ev)
  <2>1. pending_args = <<>> => k = 0
    OBVIOUS
  <2> HIDE DEF k, n, ev
  <2> QED BY <1>3, <1>4, <1>5, <1>6, <2>1
<1>8. Len(placed') = 0
  BY <1>2
<1>9. \A i \in 1 .. Len(placed') : Untyped(placed'[i]) = ev[i]
  BY <1>8
<1>10. /\ Len(placed') + Len(pending_args') = Len(ev)
       /\ \A i \in 1 .. Len(pending_args') : pending_args'[i] = ev[Len(placed') + i]
  <2> HIDE DEF ev
  <2> QED BY <1>2, <1>3, <1>6, <1>7, <1>8
<1>11. Progress(start, c)'
  BY <1>2, <1>4, <1>5, <1>9, <1>10 DEF Progress
<1> QED BY <1>1, <1>2, <1>11, SameLayout

LEMMA PlaceArgumentKeepsOrder == ASSUME OInv, IInv', PlaceArgument PROVE OInv'
<1> DEFINE n   == Len(sites) + 1
           ev  == source[n].evaluated
           arg == Head(pending_args)
           a   == [id |-> arg.id, type |-> arg.type,
                   location |-> NextCallArgument(abi, arg.type)]
<1>1. PICK start, c : Layout(source, tac, Len(sites), start, c) /\ Progress(start, c)
  BY DEF OInv
<1>2. /\ phase = "call" /\ phase' = "call" /\ pending_args # <<>>
      /\ placed' = Append(placed, a) /\ pending_args' = Tail(pending_args)
      /\ UNCHANGED <<source, tac, sites>>
  BY DEF PlaceArgument
<1>3. /\ pending_args \in Seq(Operand) /\ placed \in Seq(Argument)
      /\ arg \in Operand
  <2>1. pending_args \in Seq(Operand) /\ placed \in Seq(Argument)
    BY <1>2, Types DEF OInv, IInv, Traced
  <2> QED BY <1>2, <2>1
<1>4. /\ n <= Len(source) /\ c + 1 = End(source, start, n)
      /\ Len(placed) + Len(pending_args) = Len(ev)
      /\ \A i \in 1 .. Len(placed) : Untyped(placed[i]) = ev[i]
      /\ \A i \in 1 .. Len(pending_args) : pending_args[i] = ev[Len(placed) + i]
  BY <1>1, <1>2 DEF Progress
<1>5. Untyped(a) = arg
  BY <1>3 DEF Untyped, Operand
<1> HIDE DEF a, ev
<1>6. arg = pending_args[1] /\ 1 \in 1 .. Len(pending_args)
  BY <1>2, <1>3
<1> HIDE DEF arg
<1>7. arg = ev[Len(placed) + 1]
  BY <1>4, <1>6
<1>8. /\ Len(placed') = Len(placed) + 1 /\ Len(placed) \in Nat
      /\ \A i \in 1 .. Len(placed) : placed'[i] = placed[i]
      /\ placed'[Len(placed) + 1] = a
  BY <1>2, <1>3
<1>9. /\ Len(pending_args') = Len(pending_args) - 1 /\ Len(pending_args) \in Nat
      /\ \A i \in 1 .. Len(pending_args') :
           pending_args'[i] = pending_args[i + 1] /\ i + 1 \in 1 .. Len(pending_args)
  BY <1>2, <1>3
<1>10. ASSUME NEW i \in 1 .. Len(placed')
       PROVE  Untyped(placed'[i]) = ev[i]
  <2>1. CASE i \in 1 .. Len(placed)
    BY <1>4, <1>8, <2>1
  <2>2. CASE i = Len(placed) + 1
    BY <1>5, <1>7, <1>8, <2>2
  <2> QED BY <1>8, <2>1, <2>2
<1>11. ASSUME NEW i \in 1 .. Len(pending_args')
       PROVE  pending_args'[i] = ev[Len(placed') + i]
  <2>1. pending_args'[i] = pending_args[i + 1] /\ i + 1 \in 1 .. Len(pending_args)
    BY <1>9
  <2>2. pending_args[i + 1] = ev[Len(placed) + (i + 1)]
    BY <1>4, <2>1
  <2>3. Len(placed) + (i + 1) = Len(placed') + i
    BY <1>8
  <2> QED BY <2>1, <2>2, <2>3
<1>12. Len(placed') + Len(pending_args') = Len(ev)
  <2>1. Len(placed) + Len(pending_args) = Len(ev)
    BY <1>4
  <2>2. Len(pending_args') = Len(pending_args) - 1 /\ Len(pending_args) \in Nat
    BY <1>9
  <2>3. Len(placed') = Len(placed) + 1 /\ Len(placed) \in Nat
    BY <1>8
  <2> QED BY <2>1, <2>2, <2>3
<1>13. Progress(start, c)'
  BY <1>2, <1>4, <1>10, <1>11, <1>12 DEF Progress, ev
<1> QED BY <1>1, <1>2, <1>13, SameLayout

LEMMA EndLowerCallKeepsOrder == ASSUME OInv, IInv', EndLowerCall PROVE OInv'
<1> DEFINE n  == Len(sites) + 1
           ev == source[n].evaluated
           site == [function |-> Head(tac).function, arguments |-> placed,
                    stack_args_size |-> StackArgsSize(abi)]
<1>1. PICK start, c : Layout(source, tac, Len(sites), start, c) /\ Progress(start, c)
  BY DEF OInv
<1>2. /\ phase = "call" /\ phase' = "lowering" /\ pending_args = <<>>
      /\ sites' = Append(sites, site) /\ tac' = Tail(tac)
      /\ UNCHANGED <<source, pending_args>>
  BY DEF EndLowerCall
<1>3. /\ source \in Seq(CallExpression) /\ tac \in Seq(Instruction) /\ sites \in Seq(Site)
      /\ Len(sites) \in Nat /\ Len(source) \in Nat /\ placed \in Seq(Argument)
      /\ tac # <<>> /\ Head(tac).op = "call"
  BY <1>2, Types DEF OInv, IInv, Traced, Working
<1>4. /\ n \in 1 .. Len(source) /\ c + 1 = End(source, start, n)
      /\ Len(placed) = Len(ev)
      /\ \A i \in 1 .. Len(placed) : Untyped(placed[i]) = ev[i]
  BY <1>1, <1>2, <1>3 DEF Progress
<1>5. Head(tac).function = source[n].function
  <2>1. Head(tac) = At(source, start, n, c + 1)
    BY <1>1, <1>3, HeadOfTac DEF OInv
  <2>2. PICK q : Head(tac) = At(source, start, n, q)
    BY <2>1
  <2> QED BY <1>3, <2>2, AtFacts
<1>6. Layout(source, Tail(tac), n, start, c + 1)
  BY <1>1, <1>3, <1>4, TailLayout
<1> HIDE DEF site
<1>7. /\ Len(sites') = n /\ sites'[n] = site
      /\ \A m \in 1 .. Len(sites) : sites'[m] = sites[m]
  BY <1>2, <1>3
<1>8. ASSUME NEW m \in 1 .. Len(sites') PROVE Own(m)'
  <2>1. CASE m \in 1 .. Len(sites)
    <3>1. Own(m) /\ sites'[m] = sites[m] /\ source' = source
      BY <1>2, <1>7, <2>1 DEF OInv
    <3> QED BY <3>1 DEF Own
  <2>2. CASE m = n
    <3>1. sites'[m].function = source'[m].function /\ sites'[m].arguments = placed
          /\ source'[m].evaluated = ev
      BY <1>2, <1>5, <1>7, <2>2 DEF site
    <3> HIDE DEF ev
    <3> QED BY <1>4, <3>1 DEF Own
  <2> QED BY <1>3, <1>7, <2>1, <2>2
<1>9. n + 1 <= Len(source) => c + 1 < start[n + 1]
  <2> SUFFICES ASSUME n + 1 <= Len(source) PROVE c + 1 < start[n + 1]
    OBVIOUS
  <2> DEFINE m == n + 1
  <2>1. m \in 1 .. Len(source) /\ n < m
    BY <1>3
  <2> HIDE DEF m, n
  <2>2. End(source, start, n) < start[m]
    BY <1>1, <1>4, <2>1 DEF Layout
  <2>3. End(source, start, n) < start[m] /\ c + 1 = End(source, start, n)
    BY <1>4, <2>2
  <2> QED BY <2>3 DEF m
<1>10. Progress(start, c + 1)'
  BY <1>2, <1>7, <1>9 DEF Progress
<1>11. Layout(source', tac', Len(sites'), start, c + 1)
  BY <1>2, <1>6, <1>7
<1>12. Len(sites') <= Len(source')
  BY <1>2, <1>4, <1>7
<1> QED BY <1>8, <1>10, <1>11, <1>12 DEF OInv

\* Where a function is next, no call has begun.
LEMMA FunctionNext ==
  ASSUME OInv, phase \in {"lowering", "function"}, tac # <<>>, Head(tac).op = "function",
         NEW start, NEW c, Layout(source, tac, Len(sites), start, c), Progress(start, c)
  PROVE  /\ pending_args = <<>>
         /\ Len(sites) + 1 <= Len(source) =>
              /\ c + 1 < start[Len(sites) + 1]
              /\ c + 1 # End(source, start, Len(sites) + 1)
<1> DEFINE n == Len(sites) + 1
           k == Len(pending_args)
<1>1. /\ source \in Seq(CallExpression) /\ tac \in Seq(Instruction)
      /\ pending_args \in Seq(Operand) /\ k \in Nat
      /\ Len(sites) \in Nat /\ Len(source) \in Nat /\ tac[1] = Head(tac) /\ Len(tac) >= 1
  BY Types DEF OInv
<1>2. CASE n > Len(source)
  BY <1>1, <1>2 DEF Progress
<1>3. CASE n <= Len(source)
  <2>1. n \in 1 .. Len(source) /\ n > Len(sites)
    BY <1>1, <1>3
  <2>2. /\ \/ pending_args = <<>> /\ c < start[n]
           \/ pending_args # <<>> /\ c + 1 = start[n] + k
    BY <1>3 DEF Progress
  <2>3. pending_args # <<>> => k >= 1
    BY <1>1
  <2> HIDE DEF n, k
  <2>4. c \in Nat /\ start \in [1 .. Len(source) -> Nat \ {0}] /\ c < End(source, start, n)
    BY <2>1 DEF Layout
  <2>5. /\ start[n] \in Nat /\ End(source, start, n) \in Nat
        /\ start[n] <= End(source, start, n)
    BY <1>1, <2>1, <2>4, EndIsNat
  <2>6. ~(start[n] <= 1 + c)
    <3> SUFFICES ASSUME start[n] <= 1 + c PROVE FALSE
      OBVIOUS
    <3>1. 1 + c <= End(source, start, n) /\ 1 \in 1 .. Len(tac)
      BY <1>1, <2>4, <2>5
    <3>2. tac[1] = At(source, start, n, 1 + c)
      BY <2>1, <3>1 DEF Layout
    <3>3. PICK q : tac[1] = At(source, start, n, q)
      BY <3>2
    <3> QED BY <1>1, <3>3, AtFacts
  <2>7. pending_args = <<>>
    BY <1>1, <2>2, <2>3, <2>4, <2>5, <2>6
  <2>8. c + 1 < start[n] /\ c + 1 # End(source, start, n)
    BY <2>4, <2>5, <2>6
  <2> QED BY <2>7, <2>8 DEF n
<1> QED BY <1>1, <1>2, <1>3

LEMMA BeginLowerFunctionKeepsOrder == ASSUME OInv, IInv', BeginLowerFunction PROVE OInv'
<1>1. PICK start, c : Layout(source, tac, Len(sites), start, c) /\ Progress(start, c)
  BY DEF OInv
<1>2. /\ phase = "lowering" /\ phase' = "function"
      /\ tac # <<>> /\ Head(tac).op = "function"
      /\ UNCHANGED <<source, tac, pending_args, sites>>
  BY DEF BeginLowerFunction
<1>3. pending_args = <<>>
  BY <1>1, <1>2, FunctionNext
<1>4. Progress(start, c)'
  BY <1>1, <1>2, <1>3 DEF Progress
<1> QED BY <1>1, <1>2, <1>4, SameLayout

LEMMA PlaceParameterKeepsOrder == ASSUME OInv, IInv', PlaceParameter PROVE OInv'
<1>1. PICK start, c : Layout(source, tac, Len(sites), start, c) /\ Progress(start, c)
  BY DEF OInv
<1>2. /\ phase = "function" /\ phase' = "function"
      /\ UNCHANGED <<source, tac, pending_args, sites>>
  BY DEF PlaceParameter
<1>3. Progress(start, c)'
  BY <1>1, <1>2 DEF Progress
<1> QED BY <1>1, <1>2, <1>3, SameLayout

LEMMA EndLowerFunctionKeepsOrder == ASSUME OInv, IInv', EndLowerFunction PROVE OInv'
<1> DEFINE n == Len(sites) + 1
<1>1. PICK start, c : Layout(source, tac, Len(sites), start, c) /\ Progress(start, c)
  BY DEF OInv
<1>2. /\ phase = "function" /\ phase' = "lowering"
      /\ tac' = Tail(tac) /\ UNCHANGED <<source, pending_args, sites>>
  BY DEF EndLowerFunction
<1>3. /\ tac # <<>> /\ Head(tac).op = "function"
      /\ source \in Seq(CallExpression) /\ tac \in Seq(Instruction)
      /\ Len(sites) \in Nat /\ Len(source) \in Nat
  BY <1>2, Types DEF OInv, IInv, Working
<1>4. /\ pending_args = <<>>
      /\ n <= Len(source) => c + 1 < start[n] /\ c + 1 # End(source, start, n)
  BY <1>1, <1>2, <1>3, FunctionNext
<1>5. Layout(source, Tail(tac), Len(sites), start, c + 1)
  BY <1>1, <1>3, <1>4, TailLayout
<1>6. Progress(start, c + 1)'
  BY <1>2, <1>4 DEF Progress
<1> QED BY <1>2, <1>5, <1>6 DEF OInv, Own

LEMMA StepOrder == OInv /\ [Next]_vars => OInv'
<1> SUFFICES ASSUME OInv, [Next]_vars PROVE OInv'
  OBVIOUS
<1>1. IInv'
  BY StepIInv DEF OInv
<1>2. CASE UNCHANGED vars
  BY <1>2 DEF vars, OInv, IInv, TypeOK, Working, Traced, Own, Progress
<1>3. CASE Next
  BY <1>1, <1>3, VisitingKeepsOrder, LowerParamKeepsOrder, BeginLowerCallKeepsOrder,
     PlaceArgumentKeepsOrder, EndLowerCallKeepsOrder, BeginLowerFunctionKeepsOrder,
     PlaceParameterKeepsOrder, EndLowerFunctionKeepsOrder DEF Next
<1> QED BY <1>2, <1>3

-----------------------------------------------------------------------------
(* Calls and definitions have the types of the signature.                  *)

Fits(p, types) ==
  /\ Len(p) <= Len(types)
  /\ \A i \in 1 .. Len(p) : p[i].type = types[i]

Match(p, types) == Fits(p, types) /\ Len(p) = Len(types)

Typed ==
  /\ \A k \in 1 .. Len(visiting) :
       Fits(visiting[k].evaluated, Signature[visiting[k].function])
  /\ \A n \in 1 .. Len(source) : Match(source[n].evaluated, Signature[source[n].function])
  /\ \A e \in entries : Match(e.parameters, Signature[e.function])
  /\ phase = "function" => Fits(placed, Signature[Head(tac).function])

LEMMA FitsAppend ==
  ASSUME NEW S, NEW p \in Seq(S), NEW a, NEW types \in Seq(Type),
         Fits(p, types), Len(p) < Len(types), a.type = types[Len(p) + 1]
  PROVE  Fits(Append(p, a), types)
<1>1. /\ Len(Append(p, a)) = Len(p) + 1 /\ Len(p) \in Nat /\ Len(types) \in Nat
      /\ \A i \in 1 .. Len(p) : Append(p, a)[i] = p[i]
      /\ Append(p, a)[Len(p) + 1] = a
  OBVIOUS
<1> QED BY <1>1 DEF Fits

\* Evaluating an argument keeps the types of the calls that are visited.
LEMMA EvaluatedFits ==
  ASSUME NEW stack \in Seq(CallExpression), stack # <<>>, NEW id \in Nat,
         \A k \in 1 .. Len(stack) :
            Fits(stack[k].evaluated, Signature[stack[k].function]),
         Len(Last(stack).evaluated) < Len(Signature[Last(stack).function])
  PROVE  \A k \in 1 .. Len(Evaluated(stack, id)) :
            Fits(Evaluated(stack, id)[k].evaluated,
                 Signature[Evaluated(stack, id)[k].function])
<1> DEFINE call == Last(stack)
           types == Signature[call.function]
           operand == [id |-> id, type |-> types[Len(call.evaluated) + 1]]
           new == [call EXCEPT !.evaluated = Append(@, operand)]
           after == Evaluated(stack, id)
<1>1. /\ after = Append(Front(stack), new) /\ Len(Front(stack)) = Len(stack) - 1
      /\ Front(stack) \in Seq(CallExpression) /\ call = stack[Len(stack)]
      /\ call \in CallExpression /\ Len(stack) \in Nat /\ Len(stack) >= 1
  BY FrontLast DEF Evaluated
<1>2. /\ Len(after) = Len(stack)
      /\ \A k \in 1 .. Len(stack) - 1 : after[k] = stack[k]
  BY EvaluatedFacts
<1>3. after[Len(stack)] = new
  <2> HIDE DEF new, after
  <2> QED BY <1>1
<1>4. call.evaluated \in Seq(Operand) /\ types \in Seq(Type)
  BY <1>1, SignatureAssumption DEF CallExpression
<1>5. Fits(call.evaluated, types) /\ operand.type = types[Len(call.evaluated) + 1]
  BY <1>1
<1>6. Fits(Append(call.evaluated, operand), types)
  <2> HIDE DEF call, types, operand
  <2>1. Len(call.evaluated) < Len(types)
    BY DEF call, types
  <2> QED BY <1>4, <1>5, <2>1, FitsAppend
<1>7. new.evaluated = Append(call.evaluated, operand) /\ new.function = call.function
  <2> HIDE DEF call, operand
  <2> QED BY <1>1 DEF CallExpression
<1> HIDE DEF new, operand
<1>8. Fits(new.evaluated, Signature[new.function])
  BY <1>6, <1>7
<1> HIDE DEF after
<1>9. ASSUME NEW k \in 1 .. Len(after)
      PROVE  Fits(after[k].evaluated, Signature[after[k].function])
  <2>1. CASE k = Len(stack)
    BY <1>3, <1>8, <2>1
  <2>2. CASE k \in 1 .. Len(stack) - 1
    BY <1>1, <1>2, <2>2
  <2> QED BY <1>1, <1>2, <1>9, <2>1, <2>2
<1> QED BY <1>9 DEF after

LEMMA EndCallKeepsTypes == ASSUME IInv, Typed, EndCall PROVE Typed'
<1> DEFINE call   == Last(visiting)
           outer  == Front(visiting)
<1>1. /\ phase = "visiting" /\ phase' = "visiting" /\ visiting # <<>>
      /\ Len(call.evaluated) = Len(Signature[call.function])
      /\ source' = Append(source, call) /\ UNCHANGED entries
      /\ visiting' = IF outer = <<>> THEN <<>> ELSE Evaluated(outer, Len(source) + 1)
  BY DEF EndCall
<1>2. visiting \in Seq(CallExpression) /\ source \in Seq(CallExpression)
  BY DEF IInv, TypeOK
<1>3. /\ outer \in Seq(CallExpression) /\ Len(outer) = Len(visiting) - 1
      /\ \A k \in 1 .. Len(visiting) - 1 : outer[k] = visiting[k]
      /\ call = visiting[Len(visiting)] /\ Len(visiting) \in Nat
      /\ Len(visiting) \in 1 .. Len(visiting)
  <2>1. visiting # <<>> /\ visiting \in Seq(CallExpression)
    BY <1>1, <1>2
  <2>2. Len(visiting) \in Nat /\ Len(visiting) \in 1 .. Len(visiting)
    BY <2>1
  <2> QED BY <2>1, <2>2, FrontLast
<1>4. Fits(call.evaluated, Signature[call.function])
  BY <1>3 DEF Typed
<1>5. Match(call.evaluated, Signature[call.function])
  BY <1>1, <1>4 DEF Match
<1> HIDE DEF call, outer
<1>6. ASSUME NEW n \in 1 .. Len(source')
      PROVE  Match(source'[n].evaluated, Signature[source'[n].function])
  <2>1. CASE n = Len(source) + 1
    <3>1. source'[n] = call
      BY <1>1, <1>2, <2>1
    <3> QED BY <1>5, <3>1
  <2>2. CASE n \in 1 .. Len(source)
    <3>1. source'[n] = source[n]
      BY <1>1, <1>2, <2>2
    <3> QED BY <2>2, <3>1 DEF Typed
  <2> QED BY <1>1, <1>2, <2>1, <2>2
<1>7. \A k \in 1 .. Len(visiting') :
         Fits(visiting'[k].evaluated, Signature[visiting'[k].function])
  <2>1. CASE outer = <<>>
    BY <1>1, <2>1
  <2>2. CASE outer # <<>>
    <3>1. \A k \in 1 .. Len(outer) : Fits(outer[k].evaluated, Signature[outer[k].function])
      BY <1>3 DEF Typed
    <3>2. Len(outer) \in 1 .. Len(outer) /\ Last(outer) = outer[Len(outer)]
      <4>1. outer \in Seq(CallExpression) /\ outer # <<>>
        BY <1>3, <2>2
      <4>2. Last(outer) = outer[Len(outer)]
        BY <4>1, FrontLast
      <4>3. Len(outer) \in 1 .. Len(outer)
        BY <4>1
      <4> QED BY <4>2, <4>3
    <3>3. Len(Last(outer).evaluated) < Len(Signature[Last(outer).function])
      <4>1. Len(outer) \in 1 .. Len(visiting) - 1
        <5>1. Len(outer) = Len(visiting) - 1
          BY <1>3
        <5> QED BY <3>2, <5>1
      <4>2. Last(outer) = visiting[Len(outer)]
        BY <1>3, <3>2, <4>1
      <4> QED BY <4>1, <4>2 DEF IInv, Working
    <3>4. visiting' = Evaluated(outer, Len(source) + 1) /\ Len(source) + 1 \in Nat
      BY <1>1, <1>2, <2>2
    <3> QED BY <1>3, <2>2, <3>1, <3>3, <3>4, EvaluatedFits
  <2> QED BY <2>1, <2>2
<1> QED BY <1>1, <1>6, <1>7 DEF Typed

LEMMA PlaceParameterKeepsTypes == ASSUME IInv, Typed, PlaceParameter PROVE Typed'
<1> DEFINE types == Signature[Head(tac).function]
           type == types[Len(placed) + 1]
           a == [type |-> type, location |-> NextFormalParameter(abi, type)]
<1>1. /\ phase = "function" /\ phase' = "function" /\ placed' = Append(placed, a)
      /\ Len(placed) < Len(types) /\ UNCHANGED <<visiting, source, tac, entries>>
  BY DEF PlaceParameter
<1>2. placed \in Seq(Parameter) /\ Fits(placed, types)
  BY <1>1 DEF IInv, Traced, Typed
<1>3. types \in Seq(Type)
  <2>1. Head(tac) \in Instruction /\ Head(tac).op = "function"
    BY <1>1 DEF IInv, TypeOK, Working
  <2> QED BY <2>1, SignatureAssumption DEF Instruction
<1>4. a.type = types[Len(placed) + 1]
  OBVIOUS
<1> HIDE DEF a, types
<1>5. Fits(placed', types)
  BY <1>1, <1>2, <1>3, <1>4, FitsAppend
<1> QED BY <1>1, <1>5 DEF Typed, types

LEMMA StepTyped == IInv /\ Typed /\ [Next]_vars => Typed'
<1> SUFFICES ASSUME IInv, Typed, [Next]_vars PROVE Typed'
  OBVIOUS
<1>1. ASSUME NEW f \in Function, VisitFunctionDefinition(f) PROVE Typed'
  BY <1>1 DEF VisitFunctionDefinition, Typed
<1>2. ASSUME NEW f \in Function, BeginCall(f) PROVE Typed'
  <2> DEFINE call == [function |-> f, evaluated |-> <<>>]
  <2>1. visiting' = Append(visiting, call) /\ visiting \in Seq(CallExpression)
    BY <1>2 DEF BeginCall, IInv, TypeOK
  <2>2. Fits(call.evaluated, Signature[call.function])
    BY SignatureAssumption DEF Fits
  <2>3. call.function = f /\ call.evaluated = <<>>
    OBVIOUS
  <2> HIDE DEF call
  <2>4. ASSUME NEW k \in 1 .. Len(visiting')
        PROVE  Fits(visiting'[k].evaluated, Signature[visiting'[k].function])
    <3>1. CASE k = Len(visiting) + 1
      <4>1. visiting'[k] = call
        BY <2>1, <3>1
      <4> QED BY <2>2, <4>1
    <3>2. CASE k \in 1 .. Len(visiting)
      <4>1. visiting'[k] = visiting[k]
        BY <2>1, <3>2
      <4> QED BY <3>2, <4>1 DEF Typed
    <3> QED BY <2>1, <3>1, <3>2
  <2> QED BY <1>2, <2>4 DEF BeginCall, Typed
<1>3. CASE EvaluateArgument
  <2>1. /\ visiting' = Evaluated(visiting, 0) /\ visiting # <<>>
        /\ Len(Last(visiting).evaluated) < Len(Signature[Last(visiting).function])
        /\ visiting \in Seq(CallExpression)
    BY <1>3 DEF EvaluateArgument, IInv, TypeOK
  <2>2. \A k \in 1 .. Len(visiting') :
           Fits(visiting'[k].evaluated, Signature[visiting'[k].function])
    BY <2>1, EvaluatedFits DEF Typed
  <2> QED BY <1>3, <2>2 DEF EvaluateArgument, Typed
<1>4. CASE EndCall
  BY <1>4, EndCallKeepsTypes
<1>5. CASE FinishVisiting
  BY <1>5 DEF FinishVisiting, Typed
<1>6. CASE LowerParam
  BY <1>6 DEF LowerParam, Typed
<1>7. CASE BeginLowerCall
  BY <1>7 DEF BeginLowerCall, Typed
<1>8. CASE PlaceArgument
  BY <1>8 DEF PlaceArgument, Typed
<1>9. CASE EndLowerCall
  BY <1>9 DEF EndLowerCall, Typed
<1>10. CASE BeginLowerFunction
  <2>1. Head(tac) \in Instruction /\ Head(tac).op = "function"
    BY <1>10 DEF BeginLowerFunction, IInv, TypeOK
  <2>2. Signature[Head(tac).function] \in Seq(Type)
    BY <2>1, SignatureAssumption DEF Instruction
  <2>3. Fits(<<>>, Signature[Head(tac).function])
    BY <2>2 DEF Fits
  <2> QED BY <1>10, <2>3 DEF BeginLowerFunction, Typed
<1>11. CASE PlaceParameter
  BY <1>11, PlaceParameterKeepsTypes
<1>12. CASE EndLowerFunction
  <2> DEFINE entry == [function |-> Head(tac).function, parameters |-> placed]
  <2>1. Match(entry.parameters, Signature[entry.function])
    BY <1>12 DEF EndLowerFunction, Typed, Match
  <2>2. entries' = entries \cup {entry}
    BY <1>12 DEF EndLowerFunction
  <2> HIDE DEF entry
  <2>3. \A e \in entries' : Match(e.parameters, Signature[e.function])
    BY <2>1, <2>2 DEF Typed
  <2> QED BY <1>12, <2>3 DEF EndLowerFunction, Typed
<1>13. CASE UNCHANGED vars
  BY <1>13 DEF vars, Typed
<1> QED BY <1>1, <1>2, <1>3, <1>4, <1>5, <1>6, <1>7, <1>8, <1>9, <1>10, <1>11, <1>12,
           <1>13 DEF Next

LEMMA InitTyped == Init => Typed
  BY DEF Init, Typed

-----------------------------------------------------------------------------
(* Theorems *)

\* For any signatures and any nesting, the n-th Call emitted takes exactly the
\* arguments of the n-th call expression, in order, and no Param is queued while
\* none was lowered.
THEOREM OwnArguments == Spec => []CallsGetTheirOwnArguments
<1>1. OInv => CallsGetTheirOwnArguments
  <2> SUFFICES ASSUME OInv PROVE CallsGetTheirOwnArguments
    OBVIOUS
  <2>1. phase = "visiting" => pending_args = <<>>
    BY DEF OInv, Progress
  <2>2. ASSUME NEW n \in DOMAIN sites
        PROVE  /\ sites[n].function = source[n].function
               /\ [i \in DOMAIN sites[n].arguments |-> Untyped(sites[n].arguments[i])]
                  = source[n].evaluated
    <3>1. sites \in Seq(Site) /\ source \in Seq(CallExpression)
          /\ Len(sites) \in Nat /\ Len(source) \in Nat /\ Len(sites) <= Len(source)
      BY Types DEF OInv
    <3>2. n \in 1 .. Len(sites) /\ n \in 1 .. Len(source) /\ Own(n)
      BY <3>1 DEF OInv
    <3>3. sites[n] \in Site /\ source[n] \in CallExpression
      BY <3>1, <3>2
    <3>4. sites[n].arguments \in Seq(Argument) /\ source[n].evaluated \in Seq(Operand)
      BY <3>3 DEF Site, CallExpression
    <3> QED BY <3>2, <3>4 DEF Own
  <2> QED BY <2>1, <2>2 DEF CallsGetTheirOwnArguments, Untyped
<1> QED BY <1>1, InitOrder, StepOrder, PTL DEF Spec

\* For any signatures, any number of argument registers, calls and arguments:
\* what a caller passes to a function is where the function looks for it.
THEOREM Arrive == Spec => []ArgumentsArrive
<1>1. OInv /\ Typed /\ SameTypesSamePlaces => ArgumentsArrive
  <2> SUFFICES ASSUME OInv, Typed, SameTypesSamePlaces,
                      NEW n \in DOMAIN sites, NEW e \in entries,
                      sites[n].function = e.function
               PROVE  /\ Len(sites[n].arguments) = Len(e.parameters)
                      /\ \A i \in DOMAIN e.parameters :
                           SamePlace(sites[n].arguments[i].location,
                                     e.parameters[i].location)
    BY DEF ArgumentsArrive
  <2> DEFINE args  == sites[n].arguments
             pars  == e.parameters
             types == Signature[e.function]
             ev    == source[n].evaluated
  <2>1. sites \in Seq(Site) /\ source \in Seq(CallExpression) /\ entries \subseteq Entry
        /\ Len(sites) \in Nat /\ Len(source) \in Nat /\ Len(sites) <= Len(source)
    BY Types DEF OInv, IInv, TypeOK
  <2>2. n \in 1 .. Len(sites) /\ n \in 1 .. Len(source) /\ Own(n)
    BY <2>1 DEF OInv
  <2>3. args \in Seq(Argument) /\ pars \in Seq(Parameter) /\ ev \in Seq(Operand)
    <3>1. sites[n] \in Site /\ source[n] \in CallExpression /\ e \in Entry
      BY <2>1, <2>2
    <3> QED BY <3>1 DEF Site, CallExpression, Entry
  <2>4. Match(ev, types) /\ Match(pars, types)
    BY <2>2 DEF Typed, Own
  <2>5. Len(args) = Len(ev) /\ \A i \in 1 .. Len(ev) : Untyped(args[i]) = ev[i]
    BY <2>2 DEF Own
  <2> HIDE DEF args, pars, types, ev
  <2>6. Len(args) = Len(pars)
    BY <2>4, <2>5 DEF Match
  <2>7. ASSUME NEW i \in 1 .. Len(pars) PROVE args[i].type = pars[i].type
    <3>1. Untyped(args[i]) = ev[i] /\ ev[i].type = types[i] /\ pars[i].type = types[i]
      BY <2>4, <2>5, <2>7 DEF Match, Fits
    <3> QED BY <3>1 DEF Untyped
  <2>8. ASSUME NEW i \in DOMAIN pars
        PROVE  SamePlace(args[i].location, pars[i].location)
    <3>1. i \in DOMAIN args \cap DOMAIN pars /\ i \in 1 .. Len(pars) /\ Len(pars) \in Nat
      BY <2>3, <2>6
    <3>2. \A j \in 1 .. i : args[j].type = pars[j].type
      BY <2>7, <3>1
    <3> QED BY <3>1, <3>2 DEF SameTypesSamePlaces, args, pars
  <2> QED BY <2>6, <2>8 DEF args, pars
<1>2. Spec => [](OInv /\ Typed)
  <2>1. OInv => IInv
    BY DEF OInv
  <2> QED BY <2>1, InitOrder, InitTyped, StepOrder, StepTyped, PTL DEF Spec
<1> QED BY <1>1, <1>2, PlacesAgree, PTL
=============================================================================
