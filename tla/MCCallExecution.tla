-------------------------- MODULE MCCallExecution --------------------------
EXTENDS CallExecution

CONSTANTS a, b, c, d, r, z

Int4 == [float |-> FALSE, size |-> 4]
Int8 == [float |-> FALSE, size |-> 8]
Dbl  == [float |-> TRUE, size |-> 8]

\* With one register of each kind, f takes two arguments in registers and two on
\* the stack; g takes one on the stack after a register of each kind.
MCFunction == {"main", "f", "g"}
MCSignature == [main |-> <<>>, f |-> <<Int4, Int8, Dbl, Int4>>, g |-> <<Dbl, Dbl>>]
MCArguments == [main |-> {}, f |-> {<<a, b, c, d>>}, g |-> {<<c, b>>}]
MCReturns == [main |-> Int8, f |-> Int8, g |-> Dbl]
=============================================================================
