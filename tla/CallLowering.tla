---------------------------- MODULE CallLowering ----------------------------
(***************************************************************************)
(* From a call expression to the instructions of the call.  TACVisitor     *)
(* walks nested call expressions and emits, for each, one Param per        *)
(* argument and a Call; IRBuilder then reads the instructions one by one,  *)
(* queues every Param in pending_args_ and, at a Call, empties the queue.  *)
(* A Call does not say which Params are its own: only the order in which   *)
(* they were emitted does.  The same ABIHandler, reset each time, also     *)
(* places the parameters of every function definition.                     *)
(***************************************************************************)
EXTENDS CallABI, SequencesExt

CONSTANTS
  Function,    \* functions of the program
  Signature,   \* parameter types of each; analysis makes every call match them
  MaxCalls,    \* bound: calls in the program
  MaxNesting   \* bound: depth of calls inside arguments

ASSUME SignatureAssumption == Signature \in [Function -> Seq(Type)]

VARIABLES
  phase,         \* "visiting", "lowering", then the loop of one instruction
  visiting,      \* the active Visit(FunctionCallExpression) calls
  source,        \* the calls of the source, in the order their visits end
  tac,           \* the instructions: a Function, a Param or a Call
  pending_args,  \* IRBuilder::pending_args_
  abi,           \* IRBuilder::abi_
  placed,        \* arguments placed so far by the loop that is running
  sites,         \* code emitted for calls, in order
  entries        \* code emitted for function definitions

vars == <<phase, visiting, source, tac, pending_args, abi, placed, sites, entries>>

\* A value with a type: a constant or variable (id 0), or the converted result
\* of the id-th call.
Operand == [id : Nat, type : Type]

\* An argument as the caller placed it, a parameter as the callee did.
Argument == [id : Nat, type : Type, location : Location]
Parameter == [type : Type, location : Location]

\* A call expression with the arguments evaluated so far.
CallExpression == [function : Function, evaluated : Seq(Operand)]

\* The code of a call and of the start of a function.
Site == [function : Function, arguments : Seq(Argument), stack_args_size : Nat]
Entry == [function : Function, parameters : Seq(Parameter)]

Init ==
  /\ phase = "visiting"
  /\ visiting = <<>>
  /\ source = <<>>
  /\ tac = <<>>
  /\ pending_args = <<>>
  /\ abi = Reset
  /\ placed = <<>>
  /\ sites = <<>>
  /\ entries = {}

-----------------------------------------------------------------------------
(* TACVisitor *)

Instruction == [op : {"function", "call"}, function : Function]
               \cup [op : {"param"}, operand : Operand]

FunctionInstruction(f) == [op |-> "function", function |-> f]
Param(operand) == [op |-> "param", operand |-> operand]
Call(f) == [op |-> "call", function |-> f]

\* Visit(FunctionDefinition): the Function instruction comes first.
VisitFunctionDefinition(f) ==
  /\ phase = "visiting"
  /\ visiting = <<>>
  /\ FunctionInstruction(f) \notin ToSet(tac)
  /\ tac' = Append(tac, FunctionInstruction(f))
  /\ UNCHANGED <<phase, visiting, source, pending_args, abi, placed, sites, entries>>

\* Visit(FunctionCallExpression) begins, as an expression of its own or as the
\* next argument of the call that is being visited.
BeginCall(f) ==
  /\ phase = "visiting"
  /\ tac # <<>>
  /\ Len(visiting) < MaxNesting
  /\ Len(source) + Len(visiting) < MaxCalls
  /\ visiting # <<>> =>
       Len(Last(visiting).evaluated) < Len(Signature[Last(visiting).function])
  /\ visiting' = Append(visiting, [function |-> f, evaluated |-> <<>>])
  /\ UNCHANGED <<phase, source, tac, pending_args, abi, placed, sites, entries>>

\* The visitors of the enclosing calls once an argument has the value `id`.
Evaluated(stack, id) ==
  LET call == Last(stack)
      type == Signature[call.function][Len(call.evaluated) + 1]
  IN  Append(Front(stack),
             [call EXCEPT !.evaluated = Append(@, [id |-> id, type |-> type])])

\* Visit(ArgumentExpressionList): an argument that is not a call.
EvaluateArgument ==
  /\ phase = "visiting"
  /\ visiting # <<>>
  /\ Len(Last(visiting).evaluated) < Len(Signature[Last(visiting).function])
  /\ visiting' = Evaluated(visiting, 0)
  /\ UNCHANGED <<phase, source, tac, pending_args, abi, placed, sites, entries>>

\* All arguments have been evaluated: the Params and the Call are emitted in one
\* go and the call's value becomes an argument of the enclosing call, if any.
EndCall ==
  LET call   == Last(visiting)
      outer  == Front(visiting)
      params == [i \in DOMAIN call.evaluated |-> Param(call.evaluated[i])]
  IN  /\ phase = "visiting"
      /\ visiting # <<>>
      /\ Len(call.evaluated) = Len(Signature[call.function])
      /\ tac' = tac \o params \o <<Call(call.function)>>
      /\ source' = Append(source, call)
      /\ visiting' = IF outer = <<>> THEN <<>>
                                     ELSE Evaluated(outer, Len(source) + 1)
      /\ UNCHANGED <<phase, pending_args, abi, placed, sites, entries>>

FinishVisiting ==
  /\ phase = "visiting"
  /\ visiting = <<>>
  /\ tac # <<>>
  /\ phase' = "lowering"
  /\ UNCHANGED <<visiting, source, tac, pending_args, abi, placed, sites, entries>>

-----------------------------------------------------------------------------
(* IRBuilder: `tac` now shrinks from the front *)

\* LowerParam.
LowerParam ==
  /\ phase = "lowering"
  /\ tac # <<>>
  /\ Head(tac).op = "param"
  /\ pending_args' = Append(pending_args, Head(tac).operand)
  /\ tac' = Tail(tac)
  /\ UNCHANGED <<phase, visiting, source, abi, placed, sites, entries>>

\* Mutant: abi_.Reset() is missing.
BeginLowerCallNoReset ==
  /\ phase = "lowering"
  /\ tac # <<>>
  /\ Head(tac).op = "call"
  /\ phase' = "call"
  /\ placed' = <<>>
  /\ UNCHANGED <<visiting, source, tac, pending_args, abi, sites, entries>>

\* LowerCall: abi_.Reset().
BeginLowerCall ==
  /\ phase = "lowering"
  /\ tac # <<>>
  /\ Head(tac).op = "call"
  /\ phase' = "call"
  /\ abi' = Reset
  /\ placed' = <<>>
  /\ UNCHANGED <<visiting, source, tac, pending_args, sites, entries>>

\* Mutant: pending_args_ is a stack.
PlaceLastArgument ==
  /\ phase = "call"
  /\ pending_args # <<>>
  /\ LET arg == Last(pending_args)
     IN  /\ placed' = Append(placed,
               [id |-> arg.id, type |-> arg.type,
                location |-> NextCallArgument(abi, arg.type)])
         /\ abi' = Advance(abi, arg.type)
  /\ pending_args' = Front(pending_args)
  /\ UNCHANGED <<phase, visiting, source, tac, sites, entries>>

\* LowerCall: one turn of its loop over pending_args_.
PlaceArgument ==
  /\ phase = "call"
  /\ pending_args # <<>>
  /\ LET arg == Head(pending_args)
     IN  /\ placed' = Append(placed,
               [id |-> arg.id, type |-> arg.type,
                location |-> NextCallArgument(abi, arg.type)])
         /\ abi' = Advance(abi, arg.type)
  /\ pending_args' = Tail(pending_args)
  /\ UNCHANGED <<phase, visiting, source, tac, sites, entries>>

\* LowerCall: the queue is empty; sp is lowered, stack arguments are stored, and
\* the branch is emitted.
EndLowerCall ==
  /\ phase = "call"
  /\ pending_args = <<>>
  /\ phase' = "lowering"
  /\ sites' = Append(sites, [function |-> Head(tac).function, arguments |-> placed,
                             stack_args_size |-> StackArgsSize(abi)])
  /\ tac' = Tail(tac)
  /\ UNCHANGED <<visiting, source, pending_args, abi, placed, entries>>

\* LowerFunction: abi_.Reset().
BeginLowerFunction ==
  /\ phase = "lowering"
  /\ tac # <<>>
  /\ Head(tac).op = "function"
  /\ phase' = "function"
  /\ abi' = Reset
  /\ placed' = <<>>
  /\ UNCHANGED <<visiting, source, tac, pending_args, sites, entries>>

\* LowerFunction: one turn of its loop over the parameters, which moves the
\* parameter to the pseudo register arg..i.
PlaceParameter ==
  /\ phase = "function"
  /\ Len(placed) < Len(Signature[Head(tac).function])
  /\ LET type == Signature[Head(tac).function][Len(placed) + 1]
     IN  /\ placed' = Append(placed,
               [type |-> type, location |-> NextFormalParameter(abi, type)])
         /\ abi' = Advance(abi, type)
  /\ UNCHANGED <<phase, visiting, source, tac, pending_args, sites, entries>>

EndLowerFunction ==
  /\ phase = "function"
  /\ Len(placed) = Len(Signature[Head(tac).function])
  /\ phase' = "lowering"
  /\ entries' = entries \cup {[function |-> Head(tac).function, parameters |-> placed]}
  /\ tac' = Tail(tac)
  /\ UNCHANGED <<visiting, source, pending_args, abi, placed, sites>>

Next ==
  \/ \E f \in Function : VisitFunctionDefinition(f)
  \/ \E f \in Function : BeginCall(f)
  \/ EvaluateArgument
  \/ EndCall
  \/ FinishVisiting
  \/ LowerParam
  \/ BeginLowerCall
  \/ PlaceArgument
  \/ EndLowerCall
  \/ BeginLowerFunction
  \/ PlaceParameter
  \/ EndLowerFunction

Spec == Init /\ [][Next]_vars

-----------------------------------------------------------------------------
\* Every variable has its type, and the handler never hands out a register it
\* does not have.
TypeOK ==
  /\ phase \in {"visiting", "lowering", "call", "function"}
  /\ visiting \in Seq(CallExpression)
  /\ source \in Seq(CallExpression)
  /\ tac \in Seq(Instruction)
  /\ pending_args \in Seq(Operand)
  /\ abi \in ABI /\ abi.gp <= MaxGPRegs /\ abi.simd <= MaxSIMDRegs
  /\ placed \in Seq(Argument) \cup Seq(Parameter)
  /\ sites \in Seq(Site)
  /\ entries \subseteq Entry

\* Although Calls do not name their Params, the n-th Call is emitted with exactly
\* the arguments of the n-th call expression, in order: none is left over for
\* the next call, none is taken by a nested call.
CallsGetTheirOwnArguments ==
  /\ phase = "visiting" => pending_args = <<>>
  /\ \A n \in DOMAIN sites :
       /\ sites[n].function = source[n].function
       /\ [i \in DOMAIN sites[n].arguments |->
             [id |-> sites[n].arguments[i].id, type |-> sites[n].arguments[i].type]]
          = source[n].evaluated

\* A call site and a definition that see the same types agree where every
\* argument is, although each numbers its own registers and one of them
\* addresses the stack from sp and the other from x29.
SameTypesSamePlaces ==
  \A n \in DOMAIN sites : \A e \in entries :
    LET args == sites[n].arguments
        pars == e.parameters
    IN  \A i \in DOMAIN args \cap DOMAIN pars :
          (\A j \in 1 .. i : args[j].type = pars[j].type) =>
             SamePlace(args[i].location, pars[i].location)

\* What a caller passes to a function is where the function looks for it.
ArgumentsArrive ==
  \A n \in DOMAIN sites : \A e \in entries :
    sites[n].function = e.function =>
      /\ Len(sites[n].arguments) = Len(e.parameters)
      /\ \A i \in DOMAIN e.parameters :
           SamePlace(sites[n].arguments[i].location, e.parameters[i].location)

Overlap(a, b) ==
  /\ a.location.kind = b.location.kind
  /\ IF a.location.kind = "stack"
     THEN /\ a.location.at < b.location.at + b.type.size
          /\ b.location.at < a.location.at + a.type.size
     ELSE a.location.at = b.location.at

\* No two arguments of a call share a register or a byte of the stack, and
\* what is stored to the stack is inside the area sp was lowered by, whose size
\* keeps sp 16-byte aligned, and naturally aligned in it.
ArgumentsDoNotCollide ==
  \A n \in DOMAIN sites :
    LET site == sites[n]
    IN  /\ \A i, j \in DOMAIN site.arguments :
             i # j => ~ Overlap(site.arguments[i], site.arguments[j])
        /\ \A i \in DOMAIN site.arguments :
             site.arguments[i].location.kind = "stack" =>
               /\ site.arguments[i].location.at + site.arguments[i].type.size
                    <= site.stack_args_size
               /\ site.arguments[i].location.at % site.arguments[i].type.size = 0
        /\ site.stack_args_size % 16 = 0
=============================================================================
