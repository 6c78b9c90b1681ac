--------------------------- MODULE CallSemantics ---------------------------
(***************************************************************************)
(* What calls mean in the source language: a stack of activations, each    *)
(* with variables of its own.  A call gives the parameters of a new        *)
(* activation the values of the arguments and leaves every other variable  *)
(* alone; a return gives one variable of the caller the result.            *)
(***************************************************************************)
EXTENDS Integers, Sequences

CONSTANTS
  Main,          \* the function the program starts in
  Variables(_),  \* indices of a function's variables, its parameters first
  ResultOf(_),   \* the variable of a function that receives results of calls
  Undefined      \* what a variable holds before it is assigned

VARIABLES
  stack,   \* activations, the running one last
  event    \* the latest operation of the program

vars == <<stack, event>>

Activation(f, args) ==
  [function |-> f,
   vars |-> [i \in Variables(f) |-> IF i \in DOMAIN args THEN args[i] ELSE Undefined]]

Init ==
  /\ stack = <<Activation(Main, <<>>)>>
  /\ event = [op |-> "start"]

Top == stack[Len(stack)]
Below == SubSeq(stack, 1, Len(stack) - 1)

Call ==
  /\ event'.op = "call"
  /\ stack' = Append(stack, Activation(event'.function, event'.args))

Assign ==
  /\ event'.op = "assign"
  /\ stack' = Append(Below, [Top EXCEPT !.vars[event'.var] = event'.value])

\* The program ends with the return of the first activation.
Return ==
  /\ event'.op = "return"
  /\ stack' =
       IF Len(stack) = 1 THEN <<>>
       ELSE LET caller == Below[Len(Below)]
            IN  Append(SubSeq(Below, 1, Len(Below) - 1),
                       [caller EXCEPT !.vars[ResultOf(caller.function)] = event'.value])

\* Machine steps that are no operation of the program.
Silent == event'.op = "none" /\ UNCHANGED stack

Next == Call \/ Assign \/ Return \/ Silent

Spec == Init /\ [][Next]_vars
=============================================================================
