---------------------------- MODULE CArithmetic ----------------------------
(***************************************************************************)
(* What C (C11 6.3, 6.5) says of the arithmetic and pointer types of the   *)
(* subset: their values, conversions and operators.  Integers are narrow.  *)
(* Doubles are a few multiples of one half, which every integer of the     *)
(* model is, with a negative zero and a NaN; what an operator makes of two *)
(* doubles is not computed but named.  A pointer is an unsigned long.      *)
(***************************************************************************)
EXTENDS Integers, Sequences, FiniteSets, Bitwise

CONSTANTS IntBits, LongBits,   \* widths of int and of long
          Halves               \* the doubles there are, doubled
ASSUME WidthAssumption == IntBits \in Nat \ {0, 1} /\ LongBits = 2 * IntBits
ASSUME HalvesAssumption == Halves \subseteq Int /\ 0 \in Halves

IntegerTypes == {"int", "uint", "long", "ulong"}
Arithmetic   == IntegerTypes \cup {"double"}
Pointers     == {"int *", "double *"}
Types        == Arithmetic \cup Pointers

Rank(t)     == IF t \in {"int", "uint"} THEN 1 ELSE 2
Width(t)    == IF Rank(t) = 1 THEN IntBits ELSE LongBits
IsSigned(t) == t \in {"int", "long"}
RangeOf(t)    == IF IsSigned(t) THEN -(2 ^ (Width(t) - 1)) .. 2 ^ (Width(t) - 1) - 1
                              ELSE 0 .. 2 ^ Width(t) - 1

-----------------------------------------------------------------------------
\* Values.

Integer(n)   == <<"integer", n>>
Half(h)      == <<"half", h>>
NegativeZero == <<"negative zero">>
NaN          == <<"NaN">>
Undefined    == <<"undefined">>     \* C does not say
Computed(op, l, r) == <<"computed", op, l, r>>

ValuesOf(t) == IF t = "double" THEN {Half(h) : h \in Halves} \cup {NegativeZero, NaN}
                               ELSE {Integer(n) : n \in RangeOf(t)}

IsInteger(v) == v[1] = "integer"
\* Twice the number a finite value stands for.
Twice(v) == CASE v[1] = "integer" -> 2 * v[2] [] v[1] = "half" -> v[2] [] OTHER -> 0

Wrap(n, t) == LET residue == n % (2 ^ Width(t))
              IN  IF residue \in RangeOf(t) THEN residue ELSE residue - 2 ^ Width(t)
TowardZero(n, d) == IF (n < 0) = (d < 0) THEN (IF n < 0 THEN -n ELSE n) \div (IF d < 0 THEN -d ELSE d)
                    ELSE -((IF n < 0 THEN -n ELSE n) \div (IF d < 0 THEN -d ELSE d))
Truth(b)   == Integer(IF b THEN 1 ELSE 0)
IsZero(v)  == v # NaN /\ Twice(v) = 0

\* 6.3.1: a signed type that cannot hold the value gets its residue, as in every
\* compiler; a pointer made from a negative integer is left open.
Convert(v, t) ==
  CASE v = Undefined -> v
    [] t = "double" -> IF IsInteger(v) THEN Half(Twice(v)) ELSE v
    [] t # "double" /\ IsInteger(v) ->
         IF t \in Pointers /\ v[2] < 0 THEN Undefined ELSE Integer(Wrap(v[2], t))
    [] OTHER -> LET n == TowardZero(Twice(v), 2)
                IN  IF v # NaN /\ n \in RangeOf(t) THEN Integer(n) ELSE Undefined

-----------------------------------------------------------------------------
\* Operators: the type of the operation and of its result, and the value.

Shifts     == {"<<", ">>"}
BitwiseOps == {"&", "|", "^"}
Additive   == {"+", "-", "*", "/"}
Relational == {"<", "<=", ">", ">="}
Equality   == {"==", "!="}
BinaryOps  == Shifts \cup BitwiseOps \cup Additive \cup Relational \cup Equality \cup {"%"}
UnaryOps   == {"unary +", "unary -", "~", "!"}

\* 6.3.1.8
UsualArithmeticConversions(l, r) ==
  IF "double" \in {l, r} THEN "double"
  ELSE CASE Rank(l) > Rank(r) -> l
         [] Rank(l) < Rank(r) -> r
         [] OTHER -> IF IsSigned(l) THEN r ELSE l

Represented(n, t) == IF n \in RangeOf(t) THEN Integer(n)
                     ELSE IF IsSigned(t) THEN Undefined ELSE Integer(Wrap(n, t))
Pattern(n, t) == n % (2 ^ Width(t))

IntegerOperation(op, l, r, t) ==
  LET bits(n) == Integer(Wrap(n, t))
  IN  CASE op = "+" -> Represented(l + r, t)
        [] op = "-" -> Represented(l - r, t)
        [] op = "*" -> Represented(l * r, t)
        [] op = "/" -> IF r = 0 THEN Undefined ELSE Represented(TowardZero(l, r), t)
        [] op = "%" -> IF r = 0 \/ TowardZero(l, r) \notin RangeOf(t) THEN Undefined
                       ELSE Integer(l - TowardZero(l, r) * r)
        [] op = "&" -> bits(Pattern(l, t) & Pattern(r, t))
        [] op = "|" -> bits(Pattern(l, t) | Pattern(r, t))
        [] op = "^" -> bits(Pattern(l, t) ^^ Pattern(r, t))

Shift(op, l, r, t) ==
  IF r \notin 0 .. Width(t) - 1 THEN Undefined
  ELSE IF op = ">>" THEN Integer(l \div 2 ^ r)
  ELSE IF l < 0 THEN Undefined ELSE Represented(l * 2 ^ r, t)

Compare(op, l, r) ==
  LET ordered == l # NaN /\ r # NaN
  IN  Truth(CASE op = "<"  -> ordered /\ Twice(l) < Twice(r)
              [] op = "<=" -> ordered /\ Twice(l) <= Twice(r)
              [] op = ">"  -> ordered /\ Twice(l) > Twice(r)
              [] op = ">=" -> ordered /\ Twice(l) >= Twice(r)
              [] op = "==" -> ordered /\ Twice(l) = Twice(r)
              [] op = "!=" -> ~ordered \/ Twice(l) # Twice(r))

BinaryValue(op, l, lt, r, rt) ==
  LET t == UsualArithmeticConversions(lt, rt)
      a == Convert(l, t)
      b == Convert(r, t)
  IN  CASE op \in Shifts -> Shift(op, l[2], r[2], lt)
        [] op \in Relational \cup Equality ->
             IF lt \in Pointers \/ rt \in Pointers
             THEN Compare(op, Convert(l, "ulong"), Convert(r, "ulong"))
             ELSE Compare(op, a, b)
        [] OTHER -> IF t = "double" THEN Computed(op, a, b)
                    ELSE IntegerOperation(op, a[2], b[2], t)

UnaryValue(op, v, t) ==
  CASE op = "!" -> Truth(IsZero(v))
    [] op = "unary +" -> v
    [] op = "unary -" -> IF t = "double" THEN Computed(op, v, v) ELSE Represented(-v[2], t)
    [] op = "~" -> Integer(Wrap(-v[2] - 1, t))
=============================================================================
