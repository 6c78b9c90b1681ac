--------------------------- MODULE MCConversions ---------------------------
(* Every operation with every combination of operand types.                *)
EXTENDS Conversions

MCHalves == {0, 1, 2, 3, -1, -2, -3, 13, -7, 20, 70}
\* Literals around the limits of each type, in any spelling; 0 .. 3 are ints.
MCIntegerTexts ==
  {Text(n, zero, suffix) : n \in {0, 1, 3, 4, 7, 8, 17, 31, 32, 63, 64},
                           zero \in BOOLEAN, suffix \in {"", "u", "l", "ul"}}
MCFloatingTexts == {Text(h, FALSE, ".") : h \in {0, 1, 2, 6}}
\* One spelling for each of the values at the limits.
MCUsualTexts ==
  MCFloatingTexts
  \cup {Text(n, FALSE, suffix) : n \in {0, 1}, suffix \in {"", "u", "l", "ul"}}
  \cup {Text(3, FALSE, ""), Text(3, FALSE, "u"), Text(7, FALSE, "u"),
        Text(31, FALSE, ""), Text(31, FALSE, "ul"), Text(63, FALSE, "ul")}

Variables     == {Variable(t) : t \in Types}
UsualOperands == Variables \cup {Written(text) : text \in MCUsualTexts}
Constants     == {Written(text) : text \in MCIntegerTexts \cup MCFloatingTexts}
AllOperands   == Variables \cup Constants

MCExpressions ==
  {Expression("binary", op, <<l, r>>, Nothing) : op \in BinaryOps, l, r \in UsualOperands}
  \cup {Expression("unary", op, <<o>>, Nothing) : op \in UnaryOps, o \in AllOperands}
  \cup {Expression("conditional", arm, <<l, r>>, Nothing) : arm \in {"left", "right"}, l, r \in UsualOperands}
  \cup {Expression(kind, Nothing, <<o>>, t) : kind \in {"cast", "assignment"}, o \in AllOperands, t \in Types}
  \cup {Expression("condition", Nothing, <<o>>, Nothing) : o \in AllOperands}
  \cup {Expression("static", scope, <<o>>, t) : scope \in {"file", "local"}, o \in Constants, t \in Types}
Spec == Init /\ [][Next]_vars
=============================================================================
