---------------------------- MODULE TACOptimizer -----------------------------
(* TACOptimizer::Optimize: folds operations and conditions on constants, then  *)
(* takes every function through its control-flow graph, until neither changes  *)
(* anything.                                                                   *)
EXTENDS ControlFlowGraph

VARIABLES
  instructions,   \* the code of each function
  stage,          \* what Optimize does next, "done" at the end
  changed,        \* whether this round has changed anything
  index,          \* the function being worked on
  graph           \* its control-flow graph

optimizer == <<instructions, stage, changed, index, graph>>

Init ==
  /\ stage = "fold" /\ changed = FALSE /\ index = 0 /\ graph = NoGraph

-----------------------------------------------------------------------------
\* FoldConstants: instructions whose operands are constants become assignments,
\* branches on constants become gotos or nothing.
Evaluate(instruction) ==
  LET truth(b) == Number(IF b THEN 1 ELSE 0)
  IN  CASE instruction.op = "not"   -> truth(instruction.lhs.n = 0)
        [] instruction.op = "equal" -> truth(instruction.lhs.n = instruction.rhs.n)

IsConditional(instruction) == instruction.op \in {"if", "iffalse"}

Foldable(instruction) ==
  /\ instruction.op \in {"not", "equal", "if", "iffalse"}
  /\ IsConstant(instruction.lhs)
  /\ instruction.op = "equal" => IsConstant(instruction.rhs)

Taken(instruction) == (instruction.op = "if") <=> (instruction.lhs.n # 0)

Fold(instruction) ==
  IF ~Foldable(instruction)            THEN <<instruction>>
  ELSE IF ~IsConditional(instruction) THEN <<Assign(instruction.dst, Evaluate(instruction))>>
  ELSE IF Taken(instruction)          THEN <<GoTo(instruction.label)>>
  ELSE <<>>

FoldConstants ==
  /\ stage = "fold"
  /\ instructions' = [f \in DOMAIN instructions |->
       FlattenSeq([i \in DOMAIN instructions[f] |-> Fold(instructions[f][i])])]
  /\ changed' = \E f \in DOMAIN instructions :
                  \E i \in DOMAIN instructions[f] : Foldable(instructions[f][i])
  /\ stage' = "build"
  /\ index' = 1
  /\ UNCHANGED graph

-----------------------------------------------------------------------------
\* EliminateUnreachableCode.

BuildControlFlowGraph ==
  /\ stage = "build" /\ index <= Len(instructions)
  /\ graph' = Graph(BuildBlocks(instructions[index]))
  /\ stage' = "unreachable"
  /\ UNCHANGED <<instructions, changed, index>>

Pass(from, to, result) ==
  /\ stage = from
  /\ graph' = result
  /\ stage' = to
  /\ UNCHANGED <<instructions, changed, index>>

EliminateUnreachableBlocks == Pass("unreachable", "gotos", RemoveUnreachableBlocks(graph))
EliminateRedundantGotos    == Pass("gotos", "labels", RemoveRedundantGotos(graph))
EliminateRedundantLabels   == Pass("labels", "empty", RemoveRedundantLabels(graph))
EliminateEmptyBlocks       == Pass("empty", "store", RemoveEmptyBlocks(graph))

\* Mutant: every function counts as changed.
StoreAlwaysChanges ==
  /\ stage = "store"
  /\ instructions' = [instructions EXCEPT ![index] = GetInstructions(graph)]
  /\ changed' = TRUE
  /\ index' = index + 1
  /\ stage' = "build"
  /\ UNCHANGED graph

StoreInstructions ==
  /\ stage = "store"
  /\ instructions' = [instructions EXCEPT ![index] = GetInstructions(graph)]
  /\ changed' = (changed \/ GetInstructions(graph) # instructions[index])
  /\ index' = index + 1
  /\ stage' = "build"
  /\ UNCHANGED graph

\* Mutant: one round is thought to be enough.
EndFirstRound ==
  /\ stage = "build" /\ index > Len(instructions)
  /\ stage' = "done"
  /\ changed' = FALSE
  /\ UNCHANGED <<instructions, index, graph>>

\* Another round if this one has changed something.
EndRound ==
  /\ stage = "build" /\ index > Len(instructions)
  /\ stage' = IF changed THEN "fold" ELSE "done"
  /\ changed' = FALSE
  /\ UNCHANGED <<instructions, index, graph>>

Next ==
  \/ FoldConstants \/ BuildControlFlowGraph
  \/ EliminateUnreachableBlocks \/ EliminateRedundantGotos
  \/ EliminateRedundantLabels \/ EliminateEmptyBlocks
  \/ StoreInstructions \/ EndRound
=============================================================================
