-------------------------- MODULE CompiledProgram ---------------------------
(* A program is compiled, optimised or not, and then executed beside its       *)
(* source: both call the same functions, get the same answers and must      *)
(* return the same value.                                                   *)
EXTENDS ControlFlow

CONSTANT
  OptimizeChoices,  \* whether CompileFile calls OptimizeTAC; the call is commented out
  Answers           \* what a called function may return

VARIABLES
  optimize,                       \* whether this program is optimised
  stage, changed, index, graph,   \* the optimiser
  function,                       \* the function executed
  machine,                        \* the state of its code
  source                          \* the state of its tree

Optimizer == INSTANCE TACOptimizer

optimizing == <<optimize, stage, changed, index, graph>>
running    == <<function, machine, source>>
vars       == <<compiler, optimizing, running>>

-----------------------------------------------------------------------------
\* The execution of a sequence of instructions.  at is 0 when it has ended.

code == instructions[function]

Machine(at, values, result) == [at |-> at, values |-> values, result |-> result]

ValueOf(m, operand) ==
  IF IsConstant(operand) THEN operand.n
  ELSE IF operand \in DOMAIN m.values THEN m.values[operand] ELSE Unspecified

Target(label) == CHOOSE i \in DOMAIN code : code[i] = Label(label)

Ended(m)        == m.at = 0
Instruction(m)           == code[m.at]
CodeCalling(m)  == ~Ended(m) /\ Instruction(m).op = "call"
CodeWaiting(m)  == Ended(m) \/ CodeCalling(m)

\* Running past the last instruction reaches the epilogue, which returns 0.
Advance(m) ==
  IF m.at = Len(code) THEN Machine(0, m.values, 0) ELSE [m EXCEPT !.at = @ + 1]

Jumps(m) ==
  \/ Instruction(m).op = "goto"
  \/ (Instruction(m).op = "if"      /\ ValueOf(m, Instruction(m).lhs) # 0)
  \/ (Instruction(m).op = "iffalse" /\ ValueOf(m, Instruction(m).lhs) = 0)

Computed(m) ==
  LET lhs == ValueOf(m, Instruction(m).lhs)
      rhs == ValueOf(m, Instruction(m).rhs)
  IN  CASE Instruction(m).op = "assign" -> lhs
        [] Instruction(m).op = "address" -> Address[Instruction(m).lhs.name]
        [] Instruction(m).op = "load"   -> IF IsAddress(lhs) THEN ValueOf(m, Variable(Pointed(lhs)))
                                                   ELSE Unspecified
        [] Instruction(m).op = "not"    -> IF lhs = 0 THEN 1 ELSE 0
        [] Instruction(m).op = "equal"  -> IF lhs = rhs THEN 1 ELSE 0

With(m, operand, v) == [m EXCEPT !.values = (operand :> v) @@ @]

CodeStep(m) ==
  LET op == Instruction(m).op
  IN  CASE op = "return" -> Machine(0, m.values, ValueOf(m, Instruction(m).lhs))
        [] op \in {"label", "function"} -> Advance(m)
        [] op \in Branches -> IF Jumps(m) THEN [m EXCEPT !.at = Target(Instruction(m).label)]
                                         ELSE Advance(m)
        [] op = "store" ->
             LET pointer == ValueOf(m, Instruction(m).dst)
             IN  Advance(IF IsAddress(pointer)
                         THEN With(m, Variable(Pointed(pointer)), ValueOf(m, Instruction(m).lhs)) ELSE m)
        [] OTHER -> Advance(With(m, Instruction(m).dst, Computed(m)))

\* The data section holds the objects of static duration.
StaticData ==
  [variable \in {Variable(x) : x \in DOMAIN Static} |-> Static[variable.name]]

CodeAnswer(m, v) == Advance(With(m, Instruction(m).dst, v))

-----------------------------------------------------------------------------
Init ==
  /\ Initially
  /\ Optimizer!Init /\ optimize \in OptimizeChoices
  /\ function = 0 /\ machine = Machine(0, <<>>, Unspecified) /\ source = Start(NoExpression)

Compiling == Compile /\ UNCHANGED <<optimizing, running>>

Optimizing ==
  /\ phase = "compiled" /\ optimize
  /\ Optimizer!Next
  /\ UNCHANGED <<optimize, unit, phase, todo, analyzer, stack, temp_count, label_id, running>>

\* One of the functions of the program is called.
Execute ==
  /\ phase = "compiled" /\ (optimize => stage = "done")
  /\ phase' = "run"
  /\ \E f \in DOMAIN unit :
       /\ function' = f
       /\ machine' = Machine(1, StaticData, Unspecified)
       /\ source' = Start(unit[f])
  /\ UNCHANGED <<unit, todo, analyzer, visitor, optimizing>>

\* The code and the tree each take a step that nobody sees, if they have one.
RunSilently ==
  /\ phase = "run"
  /\ ~(CodeWaiting(machine) /\ Waiting(source))
  /\ machine' = IF CodeWaiting(machine) THEN machine ELSE CodeStep(machine)
  /\ source'  = IF Waiting(source) THEN source ELSE Step(source)
  /\ UNCHANGED <<compiler, optimizing, function>>

\* A function called by both returns.
CallReturns(v) ==
  /\ phase = "run"
  /\ CodeCalling(machine) /\ Calling(source)
  /\ machine' = CodeAnswer(machine, v)
  /\ source'  = Answer(source, v)
  /\ UNCHANGED <<compiler, optimizing, function>>

\* The compiler has rejected the program, or one of the two has returned.
Stopped ==
  /\ \/ phase = "rejected"
     \/ /\ phase = "run" /\ CodeWaiting(machine) /\ Waiting(source)
        /\ Ended(machine) \/ Finished(source)
  /\ UNCHANGED vars

Next ==
  \/ Compiling \/ Optimizing \/ Execute
  \/ RunSilently \/ (\E v \in Answers : CallReturns(v))
  \/ Stopped

\* The processor and the reference do not stop by themselves; called functions
\* may never return.
Fairness == WF_vars(RunSilently)
Spec == Init /\ [][Next]_vars /\ Fairness

-----------------------------------------------------------------------------
\* LoopAnalyzer binds every break and continue to the innermost loop around it,
\* gives different loops different numbers, and reports exactly the jumps that
\* have no loop around them (the stack loop_ids_ of loop_analyzer.cpp).
NodeAt(place) ==
  LET node[k \in DOMAIN place] ==
        IF k = 1 THEN unit[place[1]] ELSE node[k - 1].parts[place[k]]
  IN  node[Len(place)]
LoopsAround(place) ==
  {SubSeq(place, 1, k) : k \in {j \in 1 .. Len(place) - 1 : IsLoop(NodeAt(SubSeq(place, 1, j)))}}
Innermost(places) == CHOOSE p \in places : \A q \in places : Len(q) <= Len(p)
JumpsBindInnermostLoop ==
  phase \in {"analyze", "rejected"} =>
    /\ \A p \in DOMAIN labels :
         IsJump(NodeAt(p)) => /\ LoopsAround(p) # {}
                              /\ labels[p] = labels[Innermost(LoopsAround(p))]
    /\ \A p, q \in DOMAIN labels :
         IsLoop(NodeAt(p)) /\ IsLoop(NodeAt(q)) /\ p # q => labels[p] # labels[q]
    /\ \A p \in errors : LoopsAround(p) = {}

\* In the code of the whole unit, also after every round of the optimiser, no
\* label is defined twice and every jump goes to a label of its own function:
\* the labels of all functions share one name space in the assembly file.
JumpsResolve ==
  phase = "compiled" =>
    LET marks == {m \in UNION {{f} \X DOMAIN instructions[f] : f \in DOMAIN instructions} :
                    IsLabel(instructions[m[1]][m[2]])}
        label(m) == instructions[m[1]][m[2]].label
    IN  /\ \A m, n \in marks : label(m) = label(n) => m = n
        /\ \A f \in DOMAIN instructions : \A i \in DOMAIN instructions[f] :
             IsBranch(instructions[f][i]) =>
               \E m \in marks : m[1] = f /\ label(m) = instructions[f][i].label

\* Whenever the code and its source both wait, they wait for the same function,
\* or both have returned and to the same value, if the program says to which.
Agree ==
  IF Ended(machine) \/ Finished(source)
  THEN /\ Ended(machine) /\ Finished(source)
       /\ source.result \in {machine.result, Unspecified}
  ELSE Instruction(machine).lhs.name = Head(source.todo).name
SameBehaviour ==
  phase = "run" /\ CodeWaiting(machine) /\ Waiting(source) => Agree

\* Neither loops for ever without calling anything while the other has come to
\* a call or to its end.
CodeWaits   == phase = "run" /\ CodeWaiting(machine)
SourceWaits == phase = "run" /\ Waiting(source)
NeitherHangsAlone == (CodeWaits ~> SourceWaits) /\ (SourceWaits ~> CodeWaits)

-----------------------------------------------------------------------------
\* The optimiser.

\* RemoveRedundantLabels relies on predecessors computed before
\* RemoveRedundantGotos changed the blocks: the edges are still those along
\* which control flows, an empty block running into the next.
Flow(blocks, k) ==
  IF blocks[k].instructions # <<>> THEN Optimizer!SuccessorsOf(blocks, k)
  ELSE {IF k < Len(blocks) THEN k + 1 ELSE Optimizer!ExitBlock}
EdgesStayTrue ==
  stage \in {"unreachable", "gotos", "labels", "empty", "store"} =>
    \A k \in Optimizer!Inner(graph.blocks) :
      Optimizer!Successors(graph, k) = Flow(graph.blocks, k)

\* The loop of Optimize ends: a round that reports a change has changed the
\* code, and every change leaves fewer instructions, or as many of which fewer
\* can be folded.
Length(functions) == SumFunction([f \in DOMAIN functions |-> Len(functions[f])])
FoldableCount(functions) ==
  SumFunction([f \in DOMAIN functions |->
    Cardinality({i \in DOMAIN functions[f] : Optimizer!Foldable(functions[f][i])})])
Shrinks ==
  \/ Length(instructions') < Length(instructions)
  \/ /\ Length(instructions') = Length(instructions)
     /\ FoldableCount(instructions') < FoldableCount(instructions)
EveryChangeShrinks ==
  [][Optimizing => /\ instructions' # instructions => Shrinks
                   /\ changed' /\ ~changed => instructions' # instructions]_vars

\* What Optimize leaves is optimal in its own terms: nothing is folded any
\* more, everything can be reached, no goto goes to the next instruction, and
\* control that runs into a label meets one that is also jumped to.
NothingLeftToDo ==
  phase = "compiled" /\ stage = "done" =>
    \A f \in DOMAIN instructions :
      LET final  == instructions[f]
          blocks == Optimizer!BuildBlocks(final)
          next(i, instruction) == i < Len(final) /\ final[i + 1] = instruction
      IN  /\ \A i \in DOMAIN final : ~Optimizer!Foldable(final[i])
          /\ Optimizer!AliveBlocks(Optimizer!Graph(blocks)) \cup {Optimizer!ExitBlock}
               = DOMAIN blocks
          /\ \A i \in DOMAIN final : final[i].op = "goto" => ~next(i, Label(final[i].label))
          /\ \A i \in DOMAIN final :
               IsLabel(final[i]) /\ ~Optimizer!EndsBlock(final[i - 1]) =>
                 \E j \in DOMAIN final : IsBranch(final[j]) /\ final[j].label = final[i].label
=============================================================================
