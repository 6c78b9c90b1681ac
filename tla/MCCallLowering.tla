--------------------------- MODULE MCCallLowering ---------------------------
EXTENDS CallLowering

Int4 == [float |-> FALSE, size |-> 4]
Int8 == [float |-> FALSE, size |-> 8]
Dbl  == [float |-> TRUE, size |-> 8]

\* With one register of each kind, the parameters of f fill both and leave three
\* for the stack, the last one after a gap; g and h share a prefix with f.
MCFunction == {"f", "g", "h"}
MCSignature == [f |-> <<Int4, Dbl, Int4, Int8, Dbl>>, g |-> <<Dbl, Int8>>, h |-> <<>>]
=============================================================================
