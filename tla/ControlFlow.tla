---------------------------- MODULE ControlFlow -----------------------------
(* Control flow from the syntax tree to three-address code: LoopAnalyzer binds *)
(* every break and continue to a loop, TACVisitor turns statements and         *)
(* short-circuit expressions into labels and jumps.                            *)
(*                                                                             *)
(* Both are recursive visitors.  Here the recursion is the sequence todo: a    *)
(* visit replaces the node at its head by the nodes it visits and, between     *)
(* them, the instructions it emits, which take their operands from the stack.  *)
EXTENDS SourceProgram, ThreeAddressCode

CONSTANT Programs   \* the translation units: sequences of function definitions

VARIABLES
  unit,        \* the translation unit being compiled
  phase,       \* "analyze", "rejected", "visit" or "compiled"
  todo,        \* what the current visitor still has to do
  loop_ids,    \* LoopAnalyzer: the enclosing loops, innermost last
  loop_id_counter,
  labels,      \* the loop of every loop and jump statement, by its place
  errors,      \* the places of the statements reported
  instructions,   \* TACVisitor: the code of each function
  stack,       \* values of the expressions visited: operands, or where they lie
  temp_count, label_id

analyzer == <<loop_ids, loop_id_counter, labels, errors>>
visitor  == <<instructions, stack, temp_count, label_id>>
compiler == <<unit, phase, todo, analyzer, visitor>>

-----------------------------------------------------------------------------
\* Entries of todo.  A place is the path of a node from the root.

Visit(node, place) == [do |-> "visit", node |-> node, place |-> place]
Emit(instruction)  == [do |-> "emit", instruction |-> instruction]
\* An instruction whose left operand is the value on top of the stack.
EmitWithTop(instruction) == [do |-> "emit with top", instruction |-> instruction]
Do(what)       == [do |-> what]
Push(operand)  == [do |-> "push", operand |-> operand]

\* StackValue: an operand that is the value, or the pointer to it.
Value(operand) == [operand |-> operand, is_address |-> FALSE]
At(pointer)    == [operand |-> pointer, is_address |-> TRUE]

Children(item) ==
  [i \in DOMAIN item.node.parts |-> Visit(item.node.parts[i], Append(item.place, i))]
Child(i) == Children(Head(todo))[i]

Place == Head(todo).place
Doing(what)     == todo # <<>> /\ Head(todo).do = what
Visiting(kinds) == Doing("visit") /\ Head(todo).node.kind \in kinds
Replace(items) == todo' = items \o Tail(todo)

-----------------------------------------------------------------------------
\* LoopAnalyzer.

Functions == [i \in DOMAIN unit |-> Visit(unit[i], <<i>>)]

Initially ==
  /\ unit \in Programs
  /\ phase = "analyze"
  /\ todo = Functions
  /\ loop_ids = <<>> /\ loop_id_counter = 0 /\ labels = <<>> /\ errors = {}
  /\ instructions = <<>> /\ stack = <<>> /\ temp_count = 0 /\ label_id = 0

Analyzing == phase = "analyze" /\ UNCHANGED <<unit, phase, visitor>>

\* SetLabel on the statement being visited.
SetLabel(loop_id) ==
  labels' = [p \in DOMAIN labels \cup {Place} |-> IF p = Place THEN loop_id ELSE labels[p]]

AnalyzeLoop ==
  /\ Analyzing
  /\ Visiting({"while", "dowhile", "for"})
  /\ SetLabel(loop_id_counter)
  /\ loop_ids' = Append(loop_ids, loop_id_counter)
  /\ loop_id_counter' = loop_id_counter + 1
  /\ Replace(Children(Head(todo)) \o <<Do("leave loop")>>)
  /\ UNCHANGED errors

LeaveLoop ==
  /\ Analyzing
  /\ Doing("leave loop")
  /\ loop_ids' = Front(loop_ids)
  /\ Replace(<<>>)
  /\ UNCHANGED <<loop_id_counter, labels, errors>>

\* Mutant: a jump is bound to the outermost loop.
AnalyzeJumpOutermost ==
  /\ Analyzing
  /\ Visiting({"break", "continue"})
  /\ IF loop_ids = <<>>
     THEN errors' = errors \cup {Place} /\ UNCHANGED labels
     ELSE SetLabel(Head(loop_ids)) /\ UNCHANGED errors
  /\ Replace(<<>>)
  /\ UNCHANGED <<loop_ids, loop_id_counter>>

AnalyzeJump ==
  /\ Analyzing
  /\ Visiting({"break", "continue"})
  /\ IF loop_ids = <<>>
     THEN errors' = errors \cup {Place} /\ UNCHANGED labels
     ELSE SetLabel(Last(loop_ids)) /\ UNCHANGED errors
  /\ Replace(<<>>)
  /\ UNCHANGED <<loop_ids, loop_id_counter>>

\* Every other node is left to RecursiveVisitor.
AnalyzeOther ==
  /\ Analyzing
  /\ Doing("visit")
  /\ ~IsLoop(Head(todo).node) /\ ~IsJump(Head(todo).node)
  /\ Replace(Children(Head(todo)))
  /\ UNCHANGED analyzer

\* The code is generated only if no pass has reported an error.
FinishAnalysis ==
  /\ phase = "analyze" /\ todo = <<>>
  /\ phase' = IF errors = {} THEN "visit" ELSE "rejected"
  /\ todo' = IF errors = {} THEN Functions ELSE <<>>
  /\ UNCHANGED <<unit, analyzer, visitor>>

-----------------------------------------------------------------------------
\* TACVisitor.

Generating == phase = "visit" /\ UNCHANGED <<unit, phase, analyzer>>

\* Items that emit an instruction without or with an operand from the stack.
Mark(label)          == Emit(Label(label))
Jump(label)          == Emit(GoTo(label))
BranchIf(label)      == EmitWithTop(Branch("if", label, NoOperand))
BranchIfFalse(label) == EmitWithTop(Branch("iffalse", label, NoOperand))
Set(dst, n)          == Emit(Assign(dst, Number(n)))
SetToTop(dst)        == EmitWithTop(Assign(dst, NoOperand))

Code(emitted) ==
  instructions' = Append(Front(instructions), Last(instructions) \o emitted)

\* Mutant: a pointer is taken for the value it points to.
LValueConvertPointer(value) == [operand |-> value.operand, code |-> <<>>, temps |-> 0]

\* The value that lies at an address is loaded into a new temporary.
LValueConvert(value) ==
  IF ~value.is_address
  THEN [operand |-> value.operand, code |-> <<>>, temps |-> 0]
  ELSE [operand |-> Temporary(temp_count),
        code |-> <<Load(Temporary(temp_count), value.operand)>>, temps |-> 1]
Top == LValueConvert(Last(stack))

VisitFunctionDefinition ==
  /\ Generating
  /\ Visiting({"function"})
  /\ instructions' = Append(instructions, <<Function(Place[1])>>)
  /\ Replace(Children(Head(todo)))
  /\ UNCHANGED <<stack, temp_count, label_id>>

\* Statements that only visit what they consist of.
VisitSequence ==
  /\ Generating
  /\ Visiting({"compound", "expression"})
  /\ Replace(Children(Head(todo)))
  /\ UNCHANGED visitor

VisitSelection ==
  LET else == Name("else", label_id)
      end  == Name("end", label_id)
  IN  /\ Generating
      /\ Visiting({"if", "ifelse"})
      /\ label_id' = label_id + 1
      /\ Replace(<<Child(1), BranchIfFalse(else), Child(2), Jump(end), Mark(else)>>
                 \o (IF Head(todo).node.kind = "ifelse" THEN <<Child(3)>> ELSE <<>>)
                 \o <<Mark(end)>>)
      /\ UNCHANGED <<instructions, stack, temp_count>>

VisitJump ==
  /\ Generating
  /\ Visiting({"break", "continue"})
  /\ Replace(<<Jump(Name(Head(todo).node.kind, labels[Place]))>>)
  /\ UNCHANGED visitor

VisitWhile ==
  LET break    == Name("break", labels[Place])
      continue == Name("continue", labels[Place])
  IN  /\ Generating
      /\ Visiting({"while"})
      /\ Replace(<<Mark(continue), Child(1), BranchIfFalse(break), Child(2),
                   Jump(continue), Mark(break)>>)
      /\ UNCHANGED visitor

\* Mutant: no label for break.
VisitDoWhileNoBreak ==
  LET continue == Name("continue", labels[Place])
      start    == Name("start", labels[Place])
  IN  /\ Generating
      /\ Visiting({"dowhile"})
      /\ Replace(<<Mark(start), Child(2), Mark(continue), Child(1), BranchIf(start)>>)
      /\ UNCHANGED visitor

VisitDoWhile ==
  LET break    == Name("break", labels[Place])
      continue == Name("continue", labels[Place])
      start    == Name("start", labels[Place])
  IN  /\ Generating
      /\ Visiting({"dowhile"})
      /\ Replace(<<Mark(start), Child(2), Mark(continue), Child(1), BranchIf(start),
                   Mark(break)>>)
      /\ UNCHANGED visitor

\* Mutant: the loop goes back to the increment instead of the condition.
VisitForRepeatsIncrement ==
  LET break    == Name("break", labels[Place])
      continue == Name("continue", labels[Place])
      start    == Name("start", labels[Place])
  IN  /\ Generating
      /\ Visiting({"for"})
      /\ Replace(<<Child(1), Mark(start), Child(2), BranchIfFalse(break), Child(4),
                   Mark(continue), Child(3), Jump(continue), Mark(break)>>)
      /\ UNCHANGED visitor

VisitFor ==
  LET break    == Name("break", labels[Place])
      continue == Name("continue", labels[Place])
      start    == Name("start", labels[Place])
  IN  /\ Generating
      /\ Visiting({"for"})
      /\ Replace(<<Child(1), Mark(start), Child(2), BranchIfFalse(break), Child(4),
                   Mark(continue), Child(3), Jump(start), Mark(break)>>)
      /\ UNCHANGED visitor

VisitReturn ==
  /\ Generating
  /\ Visiting({"return"})
  /\ LET return == TAC("return", NoLabel, NoOperand, NoOperand, NoOperand)
     IN  Replace(IF Head(todo).node.parts = <<>>
                 THEN <<Emit(return)>> ELSE <<Child(1), EmitWithTop(return)>>)
  /\ UNCHANGED visitor

\* An object of static duration has its value from the start, see Linkage.
VisitDeclarator ==
  /\ Generating
  /\ Visiting({"declaration"})
  /\ LET node == Head(todo).node
     IN  Replace(IF node.name \in DOMAIN Static \/ node.parts = <<>>
                 THEN <<>> ELSE <<Child(1), SetToTop(Variable(node.name))>>)
  /\ UNCHANGED visitor

\* Constants, variables and the missing expression of for (;;).
VisitPrimary ==
  /\ Generating
  /\ Visiting({"constant", "id", "empty"})
  /\ LET node == Head(todo).node
     IN  Replace(<<Push(CASE node.kind = "id"       -> Variable(node.name)
                          [] node.kind = "constant" -> Number(node.value)
                          [] node.kind = "empty"    -> Number(1))>>)
  /\ UNCHANGED visitor

VisitUnary ==
  /\ Generating
  /\ Visiting({"not"})
  /\ Replace(<<Child(1),
               EmitWithTop(TAC("not", NoLabel, Temporary(temp_count), NoOperand, NoOperand)),
               Push(Temporary(temp_count))>>)
  /\ temp_count' = temp_count + 1
  /\ UNCHANGED <<instructions, stack, label_id>>

VisitBinary ==
  /\ Generating
  /\ Visiting({"equal"})
  /\ Replace(<<Child(1), Do("convert"), Child(2), Do("binary")>>)
  /\ UNCHANGED visitor

VisitCall ==
  /\ Generating
  /\ Visiting({"call"})
  /\ instructions' = Append(Front(instructions),
                       Append(Last(instructions),
                              CallFunction(Head(todo).node.name, Temporary(temp_count))))
  /\ stack' = Append(stack, Value(Temporary(temp_count)))
  /\ temp_count' = temp_count + 1
  /\ Replace(<<>>)
  /\ UNCHANGED label_id

VisitAssignment ==
  /\ Generating
  /\ Visiting({"assignment"})
  /\ Replace(<<Child(1), Child(2), Do("assignment")>>)
  /\ UNCHANGED visitor

VisitPointer ==
  /\ Generating
  /\ Visiting({"address", "dereference"})
  /\ Replace(<<Child(1), Do(Head(todo).node.kind)>>)
  /\ UNCHANGED visitor

\* The operators that evaluate their second operand only if they need it.  The
\* code for || jumps when an operand is true and falls through to 0, the code
\* for && jumps when one is false and falls through to 1.
ShortCircuit(kind, op, target, through, jumped) ==
  LET short == Name(target, label_id)
      end   == Name("end", label_id)
      value == Temporary(temp_count)
      branch == EmitWithTop(Branch(op, short, NoOperand))
  IN  /\ Generating
      /\ Visiting({kind})
      /\ label_id' = label_id + 1
      /\ temp_count' = temp_count + 1
      /\ Replace(<<Child(1), branch, Child(2), branch,
                   Set(value, through), Jump(end),
                   Mark(short), Set(value, jumped), Mark(end), Push(value)>>)
      /\ UNCHANGED <<instructions, stack>>

ProcessBinaryOr  == ShortCircuit("or", "if", "true", 0, 1)
ProcessBinaryAnd == ShortCircuit("and", "iffalse", "false", 1, 0)

VisitConditional ==
  LET else  == Name("else", label_id)
      end   == Name("end", label_id)
      value == Temporary(temp_count)
  IN  /\ Generating
      /\ Visiting({"conditional"})
      /\ label_id' = label_id + 1
      /\ temp_count' = temp_count + 1
      /\ Replace(<<Child(1), BranchIfFalse(else),
                   Child(2), SetToTop(value), Jump(end),
                   Mark(else), Child(3), SetToTop(value), Mark(end), Push(value)>>)
      /\ UNCHANGED <<instructions, stack>>

-----------------------------------------------------------------------------
\* What a visit does between and after the nodes it visits.

EmitInstruction ==
  /\ Generating
  /\ Doing("emit")
  /\ Code(<<Head(todo).instruction>>)
  /\ Replace(<<>>)
  /\ UNCHANGED <<stack, temp_count, label_id>>

EmitInstructionWithTop ==
  /\ Generating
  /\ Doing("emit with top")
  /\ Code(Append(Top.code, [Head(todo).instruction EXCEPT !.lhs = Top.operand]))
  /\ stack' = Front(stack)
  /\ temp_count' = temp_count + Top.temps
  /\ Replace(<<>>)
  /\ UNCHANGED label_id

PushOperand ==
  /\ Generating
  /\ Doing("push")
  /\ stack' = Append(stack, Value(Head(todo).operand))
  /\ Replace(<<>>)
  /\ UNCHANGED <<instructions, temp_count, label_id>>

\* The left operand is loaded before the right one is visited; what a
\* dereference points to is loaded or stored to only when its value is used.
ConvertTop ==
  /\ Generating
  /\ \/ Doing("convert")     /\ stack' = Append(Front(stack), Value(Top.operand))
     \/ Doing("dereference") /\ stack' = Append(Front(stack), At(Top.operand))
  /\ Code(Top.code)
  /\ temp_count' = temp_count + Top.temps
  /\ Replace(<<>>)
  /\ UNCHANGED label_id

Below == Front(stack)

EmitBinary ==
  LET value == Temporary(temp_count + Top.temps)
  IN  /\ Generating
      /\ Doing("binary")
      /\ Code(Append(Top.code, TAC("equal", NoLabel, value, Last(Below).operand, Top.operand)))
      /\ stack' = Append(Front(Below), Value(value))
      /\ temp_count' = temp_count + Top.temps + 1
      /\ Replace(<<>>)
      /\ UNCHANGED label_id

\* The value of an assignment is the variable assigned to, or the pointer to
\* what was assigned.
EmitAssignment ==
  LET dst  == Last(Below)
      move == IF dst.is_address THEN Store(dst.operand, Top.operand)
                                ELSE Assign(dst.operand, Top.operand)
  IN  /\ Generating
      /\ Doing("assignment")
      /\ Code(Append(Top.code, move))
      /\ stack' = Append(Front(Below), Value(dst.operand))
      /\ temp_count' = temp_count + Top.temps
      /\ Replace(<<>>)
      /\ UNCHANGED label_id

\* The address of what a pointer points to is the pointer.
EmitAddress ==
  /\ Generating
  /\ Doing("address")
  /\ IF Last(stack).is_address
     THEN /\ stack' = Append(Below, Value(Last(stack).operand))
          /\ UNCHANGED <<instructions, temp_count>>
     ELSE /\ Code(<<TakeAddress(Temporary(temp_count), Last(stack).operand)>>)
          /\ stack' = Append(Below, Value(Temporary(temp_count)))
          /\ temp_count' = temp_count + 1
  /\ Replace(<<>>)
  /\ UNCHANGED label_id

FinishGeneration ==
  /\ phase = "visit" /\ todo = <<>>
  /\ phase' = "compiled"
  /\ UNCHANGED <<unit, todo, analyzer, visitor>>

Compile ==
  \/ AnalyzeLoop \/ LeaveLoop \/ AnalyzeJump \/ AnalyzeOther \/ FinishAnalysis
  \/ VisitFunctionDefinition \/ VisitSequence \/ VisitSelection \/ VisitJump
  \/ VisitWhile \/ VisitDoWhile \/ VisitFor \/ VisitReturn \/ VisitDeclarator
  \/ VisitPrimary \/ VisitUnary \/ VisitBinary \/ VisitCall \/ VisitAssignment
  \/ VisitPointer \/ ProcessBinaryOr \/ ProcessBinaryAnd \/ VisitConditional
  \/ EmitInstruction \/ EmitInstructionWithTop \/ PushOperand
  \/ ConvertTop \/ EmitBinary \/ EmitAssignment \/ EmitAddress \/ FinishGeneration
=============================================================================
