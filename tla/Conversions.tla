---------------------------- MODULE Conversions ----------------------------
(***************************************************************************)
(* One operation on typed operands through the compiler: the scanner types *)
(* the literals (lexer.l), the expression type checker types the operation *)
(* and inserts casts (expression_type_checker.cpp, conversion_rules.cpp),  *)
(* TACVisitor chooses an opcode for each cast and                          *)
(* for the operation (tac_visitor.cpp), IRBuilder a lowerer, the lowerer   *)
(* instructions and conditions (int_lowerer.cpp, float_lowerer.cpp), and   *)
(* the operand resolver registers.  The code is then executed and compared *)
(* with what C says of the same operation on the same values.              *)
(***************************************************************************)
EXTENDS CArithmetic, SequencesExt

CONSTANT Expressions       \* the operations compiled
\* Static objects get a literal, every other operand may be a variable.

VARIABLES expression,  \* the operation
          phase,
          typed,       \* the types its operands are converted to, and its own
          tac, asm,    \* its code
          datum,       \* what the assembly file says of a static object
          values,      \* the values of its operands
          memory       \* what execution leaves

vars == <<expression, phase, typed, tac, asm, datum, values, memory>>

\* A literal is written with digits, of which number is the value read in
\* decimal, perhaps after a leading zero, and a suffix; the suffix "." stands
\* for all ways of writing a double.
Text(number, leading_zero, suffix) ==
  [number |-> number, leading_zero |-> leading_zero, suffix |-> suffix]
NoText == Text(0, FALSE, "")

Operand(type, constant, value, text) ==
  [type |-> type, constant |-> constant, value |-> value, text |-> text]
Expression(kind, op, operands, target) ==
  [kind |-> kind, op |-> op, operands |-> operands, target |-> target]

Variable(t)   == Operand(t, FALSE, Undefined, NoText)
Written(text) == Operand("not scanned", TRUE, Undefined, text)

-----------------------------------------------------------------------------
\* The scanner: ParseIntegerLiteral and ParseFloatingLiteral.  strtoull reads
\* decimal digits, and fails beyond the unsigned longs.

OutOfRange(text) == text.suffix # "." /\ text.number >= 2 ^ LongBits

FirstHolding(number, types) == SelectSeq(types, LAMBDA t : number \in RangeOf(t))[1]

\* Mutant: the suffix u decides alone, whatever the value.
UnsignedBySuffix(text) ==
  CASE text.suffix = "ul" -> "ulong"
    [] text.suffix = "u"  -> "uint"
    [] text.suffix = "l"  -> "long"
    [] text.suffix = ""   -> FirstHolding(text.number, <<"int", "long", "ulong">>)
    [] text.suffix = "."  -> "double"

TypeOfLiteral(text) ==
  CASE text.suffix = "ul" -> "ulong"
    [] text.suffix = "u"  -> FirstHolding(text.number, <<"uint", "ulong">>)
    [] text.suffix = "l"  -> "long"
    [] text.suffix = ""   -> FirstHolding(text.number, <<"int", "long", "ulong">>)
    [] text.suffix = "."  -> "double"

ParseLiteral(o) ==
  IF ~o.constant THEN o
  ELSE LET type == TypeOfLiteral(o.text)
       IN  [o EXCEPT !.type = type,
                     !.value = IF type = "double" THEN Half(o.text.number)
                               ELSE Integer(Wrap(o.text.number, type))]

-----------------------------------------------------------------------------
\* Types as the code knows them.
Size(t)            == IF t \in {"int", "uint"} THEN 4 ELSE 8
IsFloatingPoint(t) == t = "double"
IsPointer(t)       == t \in Pointers
IsIntegral(t)      == t \in IntegerTypes
IsArithmetic(t)    == t \in Arithmetic

IsNullPointerConstant(o) == o.constant /\ ~IsFloatingPoint(o.type) /\ o.value = Integer(0)

CanExplicitCast(from, to) ==
  \/ from = to
  \/ IsArithmetic(from) /\ IsArithmetic(to)
  \/ IsIntegral(from) /\ IsPointer(to)
  \/ IsPointer(from) /\ (IsIntegral(to) \/ IsPointer(to))

\* Mutant: of two integer types the unsigned one wins, whatever its size.
UnsignedType(l, r) ==
  IF IsFloatingPoint(l) \/ IsFloatingPoint(r) THEN "double"
  ELSE IF IsSigned(l) = IsSigned(r) THEN (IF Size(l) >= Size(r) THEN l ELSE r)
  ELSE IF IsSigned(l) THEN r ELSE l

CommonArithmeticType(l, r) ==
  IF l = r THEN l
  ELSE IF IsFloatingPoint(l) \/ IsFloatingPoint(r) THEN (IF IsFloatingPoint(l) THEN l ELSE r)
  ELSE IF IsSigned(l) = IsSigned(r) THEN (IF Size(l) >= Size(r) THEN l ELSE r)
  ELSE LET signed   == IF IsSigned(l) THEN l ELSE r
           unsigned == IF IsSigned(l) THEN r ELSE l
       IN  IF Size(unsigned) >= Size(signed) THEN unsigned ELSE signed

Nothing == "nothing"      \* no type, after an error was reported

CommonPointerType(l, r) ==
  CASE IsPointer(l.type) /\ l.type = r.type              -> l.type
    [] IsPointer(l.type) /\ IsNullPointerConstant(r)     -> l.type
    [] IsPointer(r.type) /\ IsNullPointerConstant(l)     -> r.type
    [] OTHER                                             -> Nothing

CanConvertByAssignment(o, target) ==
  \/ o.type = target
  \/ IsArithmetic(o.type) /\ IsArithmetic(target)
  \/ IsPointer(target) /\ IsIntegral(o.type) /\ IsNullPointerConstant(o)

-----------------------------------------------------------------------------
\* ExpressionTypeChecker.

TypedAs(operands, result) == [operands |-> operands, result |-> result]
Rejected == TypedAs(<<>>, Nothing)
Common(type, result) == IF type = Nothing THEN Rejected ELSE TypedAs(<<type, type>>, result)

CheckBinaryOperands(op, l, r) ==
  LET all(test(_)) == test(l.type) /\ test(r.type)
      common       == CommonArithmeticType(l.type, r.type)
      pointer      == IsPointer(l.type) \/ IsPointer(r.type)
  IN  CASE op \in Shifts \cup BitwiseOps \cup {"%"} ->
             IF all(IsIntegral) THEN Common(common, common) ELSE Rejected
        [] op \in Additive   -> IF all(IsArithmetic) THEN Common(common, common) ELSE Rejected
        [] op \in Relational -> IF all(IsArithmetic) THEN Common(common, "int") ELSE Rejected
        [] op \in Equality   -> IF pointer THEN Common(CommonPointerType(l, r), "int")
                                           ELSE Common(common, "int")

CheckUnary(op, o) ==
  CASE op = "~"         -> IF IsIntegral(o.type) THEN TypedAs(<<o.type>>, o.type) ELSE Rejected
    [] op \in {"unary +", "unary -"} -> IF IsArithmetic(o.type) THEN TypedAs(<<o.type>>, o.type) ELSE Rejected
    [] op = "!"         -> TypedAs(<<o.type>>, "int")

CheckConditional(l, r) ==
  LET common == IF IsPointer(l.type) \/ IsPointer(r.type) THEN CommonPointerType(l, r)
                ELSE CommonArithmeticType(l.type, r.type)
  IN  Common(common, common)

\* Assignments, initializers, arguments and returned values.
CheckAssignment(o, target) ==
  IF CanConvertByAssignment(o, target) THEN TypedAs(<<target>>, target) ELSE Rejected

CheckCast(o, target) ==
  IF CanExplicitCast(o.type, target) THEN TypedAs(<<o.type>>, target) ELSE Rejected

CheckStatic(scope, o, target) ==
  IF scope = "file" /\ IsPointer(target) /\ ~IsNullPointerConstant(o) THEN Rejected
  ELSE CheckAssignment(o, target)

CheckExpression(e) ==
  LET o == e.operands
  IN  CASE e.kind = "binary"      -> CheckBinaryOperands(e.op, o[1], o[2])
        [] e.kind = "unary"       -> CheckUnary(e.op, o[1])
        [] e.kind = "conditional" -> CheckConditional(o[1], o[2])
        [] e.kind = "assignment"  -> CheckAssignment(o[1], e.target)
        [] e.kind = "cast"        -> CheckCast(o[1], e.target)
        [] e.kind = "condition"   -> TypedAs(<<o[1].type>>, "int")
        [] e.kind = "static"      -> CheckStatic(e.op, o[1], e.target)

\* NumericConstant::CastTo
AsInt64(v)  == TowardZero(Twice(v), 2)
CastTo(v, t) ==
  IF IsFloatingPoint(t) THEN Half(Twice(v)) ELSE Integer(Wrap(AsInt64(v), t))

\* Mutant: no constant is converted.
ConstantAsWritten(scope, o, target) == o

\* CheckInitializerForObject: the constant a static object of type target gets.
InitConstant(scope, o, target) ==
  CASE scope = "file" /\ IsPointer(target)        -> [o EXCEPT !.type = "ulong", !.value = Integer(0)]
    [] scope = "file" /\ o.type # target /\ ~IsPointer(target)
                                                  -> [o EXCEPT !.type = target, !.value = CastTo(o.value, target)]
    [] OTHER                                      -> o

-----------------------------------------------------------------------------
\* TACVisitor.  Names of what instructions work on:
Given(i)     == <<"given", i>>        \* an operand
Converted(i) == <<"converted", i>>    \* the temporary of the cast around it
Result       == <<"result">>
Zero(t)      == <<"zero", t>>         \* the constant of LowerCompareZero
Scratch(s)   == <<"x1", s>>           \* x1 or w1
NoName       == <<"none">>

Instruction(op, dst, lhs, rhs) == [op |-> op, dst |-> dst, lhs |-> lhs, rhs |-> rhs]

\* Mutant: the type that is converted to decides how to extend.
ExtendByTarget(from, to) ==
  CASE IsFloatingPoint(from) /\ from # to -> IF IsSigned(to) THEN "double to int" ELSE "double to uint"
    [] IsFloatingPoint(to) /\ from # to   -> IF IsSigned(from) THEN "int to double" ELSE "uint to double"
    [] Size(from) = Size(to) -> "assign"
    [] Size(from) > Size(to) -> "truncate"
    [] OTHER                 -> IF IsSigned(to) THEN "sign extend" ELSE "zero extend"

CastOpcode(from, to) ==
  CASE from = to                        -> "assign"
    [] IsPointer(from) \/ IsPointer(to) -> IF Size(from) = Size(to) THEN "assign"
                                           ELSE IF IsPointer(from) THEN "truncate" ELSE "zero extend"
    [] IsFloatingPoint(from) -> IF IsSigned(to) THEN "double to int" ELSE "double to uint"
    [] IsFloatingPoint(to)   -> IF IsSigned(from) THEN "int to double" ELSE "uint to double"
    [] Size(from) = Size(to) -> "assign"
    [] Size(from) > Size(to) -> "truncate"
    [] OTHER                 -> IF IsSigned(from) THEN "sign extend" ELSE "zero extend"

\* What an operand is after the cast the type checker may have put around it.
Argument(i) == IF expression.operands[i].type = typed.operands[i] THEN Given(i) ELSE Converted(i)
VisitOperand(i) ==
  IF Argument(i) = Given(i) THEN <<>>
  ELSE <<Instruction(CastOpcode(expression.operands[i].type, typed.operands[i]),
                     Converted(i), Given(i), NoName)>>

VisitBinary == VisitOperand(1) \o VisitOperand(2)
                 \o <<Instruction(expression.op, Result, Argument(1), Argument(2))>>
VisitUnary == <<Instruction(expression.op, Result, Given(1), NoName)>>
VisitCast == <<Instruction(CastOpcode(expression.operands[1].type, typed.result),
                           Result, Given(1), NoName)>>
VisitAssignment == VisitOperand(1) \o <<Instruction("assign", Result, Argument(1), NoName)>>
\* The arm that is taken.
VisitConditional ==
  LET i == IF expression.op = "left" THEN 1 ELSE 2
  IN  VisitOperand(i) \o <<Instruction("assign", Result, Argument(i), NoName)>>
VisitCondition == <<Instruction("if", NoName, Given(1), NoName)>>

VisitExpression ==
  CASE expression.kind = "binary"      -> VisitBinary
    [] expression.kind = "unary"       -> VisitUnary
    [] expression.kind = "cast"        -> VisitCast
    [] expression.kind = "assignment"  -> VisitAssignment
    [] expression.kind = "conditional" -> VisitConditional
    [] expression.kind = "condition"   -> VisitCondition

\* The symbol table: the types of names.
TypeOf(name) == CASE name = Result           -> typed.result
                  [] name[1] = "given"       -> expression.operands[name[2]].type
                  [] name[1] = "converted"   -> typed.operands[name[2]]
                  [] name[1] = "zero"        -> name[2]
IsImmediate(name) == \/ name[1] = "zero"
                     \/ name[1] = "given" /\ expression.operands[name[2]].constant

-----------------------------------------------------------------------------
\* IRBuilder and the lowerers.  An assembly instruction has a mnemonic, names,
\* and for cset a condition.
Emit(op, names) == [op |-> op, names |-> names, cond |-> ""]
CSet(name, cond) == [op |-> "cset", names |-> <<name>>, cond |-> cond]
IsSignedOperand(name) == IsSigned(TypeOf(name))

FloatCasts  == {"double to int", "double to uint", "int to double", "uint to double"}
Comparisons == Relational \cup Equality

UsesFloatLowerer(instr) ==
  \/ instr.op \in FloatCasts
  \/ IsFloatingPoint(TypeOf(IF instr.op \in Comparisons \cup {"if"} THEN instr.lhs ELSE instr.dst))

LowerCompareZero(name, float) ==
  IF float THEN <<Emit("fcmp", <<name, Zero("double")>>)>> ELSE <<Emit("cmp", <<name, Zero("int")>>)>>

ConditionOf(op, float, signed) ==
  CASE op = "==" -> "eq"
    [] op = "!=" -> "ne"
    [] op = "<"  -> IF float \/ signed THEN "lt" ELSE "lo"
    [] op = "<=" -> IF float \/ signed THEN "le" ELSE "ls"
    [] op = ">"  -> IF float \/ signed THEN "gt" ELSE "hi"
    [] op = ">=" -> IF float \/ signed THEN "ge" ELSE "hs"

LowerCompare(instr) ==
  LET float == UsesFloatLowerer(instr)
  IN  <<Emit(IF float THEN "fcmp" ELSE "cmp", <<instr.lhs, instr.rhs>>),
        CSet(instr.dst, ConditionOf(instr.op, float, IsSignedOperand(instr.lhs)))>>

LowerFloatBinary(instr) ==
  LET mnemonic == CASE instr.op = "+" -> "fadd" [] instr.op = "-" -> "fsub"
                    [] instr.op = "*" -> "fmul" [] instr.op = "/" -> "fdiv"
  IN  <<Emit(mnemonic, <<instr.dst, instr.lhs, instr.rhs>>)>>

LowerIntBinary(instr) ==
  LET signed   == IsSignedOperand(instr.dst)
      div      == IF signed THEN "sdiv" ELSE "udiv"
      temp     == Scratch(Size(TypeOf(instr.dst)))
      mnemonic == CASE instr.op = "+" -> "add" [] instr.op = "-" -> "sub"
                    [] instr.op = "*" -> "mul" [] instr.op = "/" -> div
                    [] instr.op = "&" -> "and" [] instr.op = "|" -> "orr"
                    [] instr.op = "^" -> "eor" [] instr.op = "<<" -> "lsl"
                    [] instr.op = ">>" -> IF signed THEN "asr" ELSE "lsr"
  IN  IF instr.op = "%"
      THEN <<Emit(div, <<temp, instr.lhs, instr.rhs>>),
             Emit("mul", <<temp, temp, instr.rhs>>),
             Emit("sub", <<instr.dst, instr.lhs, temp>>)>>
      ELSE <<Emit(mnemonic, <<instr.dst, instr.lhs, instr.rhs>>)>>

LowerUnary(instr) ==
  LET float == UsesFloatLowerer(instr)
      to(mnemonic) == <<Emit(mnemonic, <<instr.dst, instr.lhs>>)>>
  IN  CASE instr.op = "unary +" -> to(IF float THEN "fmov" ELSE "mov")
        [] instr.op = "unary -" -> to(IF float THEN "fneg" ELSE "neg")
        [] instr.op = "~"       -> to("mvn")
        [] instr.op = "!"       -> Append(LowerCompareZero(instr.lhs, FALSE), CSet(instr.dst, "eq"))

LowerCast(instr) ==
  LET to(mnemonic) == <<Emit(mnemonic, <<instr.dst, instr.lhs>>)>>
  IN  CASE instr.op = "sign extend" -> to("sxtw")
        [] instr.op = "zero extend" -> to("uxtw")
        [] instr.op = "truncate"    -> to("truncate")
        [] instr.op \in {"double to int", "double to uint"} ->
             to(IF IsSignedOperand(instr.dst) THEN "fcvtzs" ELSE "fcvtzu")
        [] instr.op \in {"int to double", "uint to double"} ->
             to(IF IsSignedOperand(instr.lhs) THEN "scvtf" ELSE "ucvtf")

LowerAssign(instr) ==
  <<Emit(IF UsesFloatLowerer(instr) THEN "fmov" ELSE "mov", <<instr.dst, instr.lhs>>)>>

\* IRBuilder::LowerBranch; If jumps if the operand is not zero.
LowerBranch(instr) ==
  Append(LowerCompareZero(instr.lhs, UsesFloatLowerer(instr)), CSet(Result, "ne"))

LowerInstruction(instr) ==
  CASE instr.op = "assign"             -> LowerAssign(instr)
    [] instr.op = "if"                 -> LowerBranch(instr)
    [] instr.op \in Comparisons        -> LowerCompare(instr)
    [] instr.op \in UnaryOps           -> LowerUnary(instr)
    [] instr.op \in BinaryOps \ Comparisons ->
         IF UsesFloatLowerer(instr) THEN LowerFloatBinary(instr) ELSE LowerIntBinary(instr)
    [] OTHER                           -> LowerCast(instr)

-----------------------------------------------------------------------------
\* OperandResolver: the kind of register an operand of an instruction gets.

NeedsFloatRegister(op, k) ==
  \/ op \in {"fmov", "fneg", "fcmp", "fadd", "fsub", "fmul", "fdiv"}
  \/ op \in {"scvtf", "ucvtf"} /\ k = 1
  \/ op \in {"fcvtzs", "fcvtzu"} /\ k = 2

SizeOf(name) == IF name[1] = "x1" THEN name[2] ELSE Size(TypeOf(name))
\* Mutant: a constant that is compared gets a register of its own size.
SizeOfVariables(instr) ==
  IF \E k \in DOMAIN instr.names : ~IsImmediate(instr.names[k]) /\ SizeOf(instr.names[k]) = 8 THEN 8 ELSE 4

TargetSize(instr) ==
  LET counted == {k \in DOMAIN instr.names : instr.op = "cmp" \/ ~IsImmediate(instr.names[k])}
  IN  IF \E k \in counted : SizeOf(instr.names[k]) = 8 THEN 8 ELSE 4

RegisterOf(instr, k) ==
  LET name == instr.names[k]
      size == IF IsImmediate(name) /\ TargetSize(instr) = 8 THEN 8 ELSE SizeOf(name)
  IN  IF \/ NeedsFloatRegister(instr.op, k)
         \/ IsImmediate(name) /\ IsFloatingPoint(TypeOf(name)) THEN "d"
      ELSE IF size = 8 THEN "x" ELSE "w"

\* ToString of extensions and truncations looks at the registers they got.
Printed(instr) ==
  LET dst == RegisterOf(instr, 1)
      src == RegisterOf(instr, 2)
  IN  CASE instr.op \in {"sxtw", "uxtw"} ->
             IF dst = "x" /\ src = "w" THEN instr ELSE [instr EXCEPT !.op = "mov"]
        [] OTHER -> instr

-----------------------------------------------------------------------------
\* Execution.  Memory holds unsigned patterns and doubles.

Bits(register)   == IF register = "w" THEN IntBits ELSE LongBits
General(regs)    == \A k \in DOMAIN regs : regs[k] \in {"w", "x"}
AllAre(regs, r)  == \A k \in DOMAIN regs : regs[k] = r

\* Whether there is such an instruction.
Assembles(instr) ==
  LET regs == [k \in DOMAIN instr.names |-> RegisterOf(instr, k)]
  IN  CASE instr.op = "sxtw" \/ instr.op = "uxtw" -> regs = <<"x", "w">>
        [] instr.op = "truncate"                  -> regs[1] = "w" /\ General(regs)
        [] instr.op \in {"fcvtzs", "fcvtzu"}      -> General(<<regs[1]>>) /\ regs[2] = "d"
        [] instr.op \in {"scvtf", "ucvtf"}        -> regs[1] = "d" /\ General(<<regs[2]>>)
        [] instr.op \in {"fmov", "fneg", "fcmp", "fadd", "fsub", "fmul", "fdiv"} -> AllAre(regs, "d")
        [] OTHER                                  -> AllAre(regs, "w") \/ AllAre(regs, "x")

\* The bits of a double are zero only for positive zero.
Content(m, name) == CASE name = Zero("double") -> Half(0)
                      [] name = Zero("int")    -> Integer(0)
                      [] OTHER                 -> m.memory[name]
Read(m, name, register) ==
  LET content == Content(m, name)
  IN  IF register = "d" THEN content
      ELSE IF IsInteger(content) THEN content[2] % 2 ^ Bits(register)
      ELSE IF content = Half(0) THEN 0 ELSE 1

SignedAt(n, register) == IF n < 2 ^ (Bits(register) - 1) THEN n ELSE n - 2 ^ Bits(register)
Clamp(n, lowest, highest) == IF n < lowest THEN lowest ELSE IF n > highest THEN highest ELSE n

IntegerFlags(l, r, register) ==
  LET difference == (l - r) % 2 ^ Bits(register)
  IN  [N |-> SignedAt(difference, register) < 0, Z |-> difference = 0, C |-> l >= r,
       V |-> SignedAt(difference, register) # SignedAt(l, register) - SignedAt(r, register)]
FloatFlags(l, r) ==
  LET unordered == l = NaN \/ r = NaN
  IN  [N |-> ~unordered /\ Twice(l) < Twice(r), Z |-> ~unordered /\ Twice(l) = Twice(r),
       C |-> unordered \/ Twice(l) >= Twice(r), V |-> unordered]
Holds(cond, f) ==
  CASE cond = "eq" -> f.Z          [] cond = "ne" -> ~f.Z
    [] cond = "lt" -> f.N # f.V     [] cond = "ge" -> f.N = f.V
    [] cond = "le" -> f.Z \/ f.N # f.V
    [] cond = "gt" -> ~f.Z /\ f.N = f.V
    [] cond = "lo" -> ~f.C          [] cond = "hs" -> f.C
    [] cond = "ls" -> ~f.C \/ f.Z   [] cond = "hi" -> f.C /\ ~f.Z

Operation(op, l, r, register) ==
  LET sl == SignedAt(l, register)
      sr == SignedAt(r, register)
  IN  CASE op = "add" -> l + r  [] op = "sub" -> l - r  [] op = "mul" -> l * r
        [] op = "udiv" -> IF r = 0 THEN 0 ELSE l \div r
        [] op = "sdiv" -> IF r = 0 THEN 0 ELSE TowardZero(sl, sr)
        [] op = "and" -> l & r  [] op = "orr" -> l | r  [] op = "eor" -> l ^^ r
        [] op = "lsl" -> l * 2 ^ (r % Bits(register))
        [] op = "lsr" -> l \div 2 ^ (r % Bits(register))
        [] op = "asr" -> sl \div 2 ^ (r % Bits(register))

ToInteger(op, v, register) ==
  LET n == TowardZero(Twice(v), 2)
      top == 2 ^ Bits(register)
  IN  IF op = "fcvtzs" THEN Clamp(n, -(top \div 2), top \div 2 - 1) ELSE Clamp(n, 0, top - 1)

FloatName(op) == CASE op = "fadd" -> "+" [] op = "fsub" -> "-" [] op = "fmul" -> "*" [] op = "fdiv" -> "/"

\* The machine after an instruction.
Executed(m, instr) ==
  LET reg(k)    == RegisterOf(instr, k)
      in(k)     == Read(m, instr.names[k], reg(k))
      write(v)  == [m EXCEPT !.memory = (instr.names[1] :> v) @@ @]
      bits(n)   == write(Integer(n % 2 ^ Bits(reg(1))))
  IN  CASE instr.op = "cmp"  -> [m EXCEPT !.flags = IntegerFlags(in(1), in(2), reg(1))]
        [] instr.op = "fcmp" -> [m EXCEPT !.flags = FloatFlags(in(1), in(2))]
        [] instr.op = "cset" -> bits(IF Holds(instr.cond, m.flags) THEN 1 ELSE 0)
        [] instr.op \in {"mov", "uxtw", "truncate"} -> bits(in(2))
        [] instr.op = "sxtw" -> bits(SignedAt(in(2), "w"))
        [] instr.op = "neg"  -> bits(-in(2))
        [] instr.op = "mvn"  -> bits(-in(2) - 1)
        [] instr.op \in {"fcvtzs", "fcvtzu"} -> bits(ToInteger(instr.op, in(2), reg(1)))
        [] instr.op = "scvtf" -> write(Half(2 * SignedAt(in(2), reg(2))))
        [] instr.op = "ucvtf" -> write(Half(2 * in(2)))
        [] instr.op = "fmov"  -> write(in(2))
        [] instr.op = "fneg"  -> write(Computed("unary -", in(2), in(2)))
        [] instr.op \in {"fadd", "fsub", "fmul", "fdiv"} ->
             write(Computed(FloatName(instr.op), in(2), in(3)))
        [] OTHER -> bits(Operation(instr.op, in(2), in(3), reg(1)))

PatternOf(v) == IF IsInteger(v) THEN Integer(v[2] % 2 ^ LongBits) ELSE v
\* What an object of type t with this content is worth.
ValueOf(content, t) ==
  CASE IsFloatingPoint(t) /\ IsInteger(content) ->
         IF content[2] = 0 THEN Half(0) ELSE <<"tiny", content[2]>>
    [] ~IsFloatingPoint(t) /\ ~IsInteger(content) ->
         IF content = Half(0) THEN Integer(0) ELSE <<"bits of", content>>
    [] ~IsFloatingPoint(t) /\ IsInteger(content) -> Integer(Wrap(content[2], t))
    [] OTHER -> content

-----------------------------------------------------------------------------
NoDatum == [size |-> 0, constant |-> Undefined]

Init ==
  /\ expression \in Expressions
  /\ phase = "scan" /\ typed = Rejected
  /\ tac = <<>> /\ asm = <<>> /\ datum = NoDatum
  /\ values = <<>> /\ memory = <<>>

Scan ==
  /\ phase = "scan"
  /\ IF \E o \in ToSet(expression.operands) : OutOfRange(o.text)
     THEN phase' = "syntax error" /\ UNCHANGED expression
     ELSE /\ expression' = [expression EXCEPT !.operands =
                              [i \in DOMAIN @ |-> ParseLiteral(@[i])]]
          /\ phase' = "check"
  /\ UNCHANGED <<typed, tac, asm, datum, values, memory>>

CheckTypes ==
  /\ phase = "check"
  /\ typed' = CheckExpression(expression)
  /\ phase' = IF typed' = Rejected THEN "rejected" ELSE "visit"
  /\ UNCHANGED <<expression, tac, asm, datum, values, memory>>

Visit ==
  /\ phase = "visit" /\ expression.kind # "static"
  /\ tac' = VisitExpression
  /\ phase' = "lower"
  /\ UNCHANGED <<expression, typed, asm, datum, values, memory>>

\* IRBuilder takes the instructions one by one.
Lower ==
  /\ phase = "lower"
  /\ IF tac = <<>>
     THEN /\ phase' = IF \A i \in DOMAIN asm : Assembles(asm[i]) THEN "run" ELSE "assembler error"
          /\ UNCHANGED <<tac, asm>>
     ELSE LET lowered == LowerInstruction(Head(tac))
          IN  /\ asm' = asm \o [i \in DOMAIN lowered |-> Printed(lowered[i])]
              /\ tac' = Tail(tac)
              /\ UNCHANGED phase
  /\ UNCHANGED <<expression, typed, datum, values, memory>>

\* AddStaticVariables and StaticVariableDirective: .quad prints the bits of a
\* double, .long prints a number, which must be one of 32 bits.
EmitStatic ==
  /\ phase = "visit" /\ expression.kind = "static"
  /\ LET constant == InitConstant(expression.op, expression.operands[1], expression.target)
         n        == TowardZero(Twice(constant.value), 2)
         fits     == /\ Twice(constant.value) = 2 * n
                     /\ n \in -(2 ^ (IntBits - 1)) .. 2 ^ IntBits - 1
     IN  IF Size(expression.target) = 4
         THEN /\ datum' = [size |-> 4, constant |-> Integer(n)]
              /\ phase' = IF fits THEN "run" ELSE "assembler error"
         ELSE /\ datum' = [size |-> 8, constant |-> constant.value]
              /\ phase' = "run"
  /\ UNCHANGED <<expression, typed, tac, asm, values, memory>>

InputsOf(o) == IF o.constant THEN {o.value} ELSE ValuesOf(o.type)
Inputs == {v \in [DOMAIN expression.operands -> UNION {InputsOf(o) : o \in ToSet(expression.operands)}] :
             \A i \in DOMAIN v : v[i] \in InputsOf(expression.operands[i])}

\* The program runs with any values in its variables.
Execute ==
  /\ phase = "run"
  /\ values' \in Inputs
  /\ LET names == {Given(i) : i \in DOMAIN expression.operands}
         start == [memory |-> [name \in names |-> PatternOf(values'[name[2]])],
                   flags  |-> [N |-> FALSE, Z |-> FALSE, C |-> FALSE, V |-> FALSE]]
     IN  memory' = IF expression.kind = "static" THEN (Result :> PatternOf(datum.constant))
                   ELSE FoldLeft(Executed, start, asm).memory
  /\ phase' = "done"
  /\ UNCHANGED <<expression, typed, tac, asm, datum>>

Next == Scan \/ CheckTypes \/ Visit \/ Lower \/ EmitStatic \/ Execute

-----------------------------------------------------------------------------
(* What C says of the operation.                                           *)

\* 6.4.4.1: a leading zero means octal; the type is the first of the list that
\* holds the value.
NumberInC(text) ==
  LET n == text.number
  IN  IF text.leading_zero THEN 64 * (n \div 100) + 8 * ((n \div 10) % 10) + (n % 10) ELSE n
DigitsInC(text) ==
  text.leading_zero => {text.number % 10, (text.number \div 10) % 10} \subseteq 0 .. 7
TypesInC(text) ==
  CASE text.suffix = "ul" -> <<"ulong">>
    [] text.suffix = "u"  -> <<"uint", "ulong">>
    [] text.suffix = "l"  -> IF text.leading_zero THEN <<"long", "ulong">> ELSE <<"long">>
    [] text.suffix = ""   -> IF text.leading_zero THEN <<"int", "uint", "long", "ulong">>
                                                  ELSE <<"int", "long">>
Fitting(text)      == SelectSeq(TypesInC(text), LAMBDA t : NumberInC(text) \in RangeOf(t))
IsLiteralInC(text) == DigitsInC(text) /\ Fitting(text) # <<>>

NullConstant(o) == o.constant /\ o.type # "double" /\ o.value = Integer(0)
\* Neither *p is void: pointers are of one type, or one is null.
Comparable(l, r) == \/ {l.type, r.type} \subseteq Arithmetic
                    \/ l.type \in Pointers /\ (r.type = l.type \/ NullConstant(r))
                    \/ r.type \in Pointers /\ NullConstant(l)
Assignable(o, t) == \/ {o.type, t} \subseteq Arithmetic
                    \/ t \in Pointers /\ (o.type = t \/ NullConstant(o))

\* Pointers are not operands of + and - or of an ordered comparison here.
Allowed(e) ==
  LET o     == e.operands
      types == {o[i].type : i \in DOMAIN o}
  IN  CASE e.kind = "binary" ->
             IF e.op \in Equality THEN Comparable(o[1], o[2])
             ELSE types \subseteq IF e.op \in Shifts \cup BitwiseOps \cup {"%"}
                                  THEN IntegerTypes ELSE Arithmetic
        [] e.kind = "unary" ->
             types \subseteq CASE e.op = "~" -> IntegerTypes [] e.op = "!" -> Types [] OTHER -> Arithmetic
        [] e.kind = "conditional" -> Comparable(o[1], o[2])
        [] e.kind = "cast"        -> LET cast == types \cup {e.target}
                                     IN  ~("double" \in cast /\ cast \cap Pointers # {})
        [] e.kind = "condition"   -> TRUE
        [] OTHER                  -> Assignable(o[1], e.target)

TypeInC(e) ==
  LET o == e.operands
      common == IF o[1].type \in Pointers THEN o[1].type
                ELSE IF o[2].type \in Pointers THEN o[2].type
                ELSE UsualArithmeticConversions(o[1].type, o[2].type)
  IN  CASE e.kind = "binary" -> IF e.op \in Comparisons THEN "int"
                                ELSE IF e.op \in Shifts THEN o[1].type ELSE common
        [] e.kind = "unary"       -> IF e.op = "!" THEN "int" ELSE o[1].type
        [] e.kind = "conditional" -> common
        [] e.kind = "condition"   -> "int"
        [] OTHER                  -> e.target

ValueInC(e, v) ==
  LET o == e.operands
  IN  CASE e.kind = "binary"      -> BinaryValue(e.op, v[1], o[1].type, v[2], o[2].type)
        [] e.kind = "unary"       -> UnaryValue(e.op, v[1], o[1].type)
        [] e.kind = "conditional" -> Convert(IF e.op = "left" THEN v[1] ELSE v[2], TypeInC(e))
        [] e.kind = "condition"   -> Truth(~IsZero(v[1]))
        [] OTHER                  -> Convert(v[1], e.target)

-----------------------------------------------------------------------------
IntegerLiterals == {o \in ToSet(expression.operands) : o.constant /\ o.text.suffix # "."}

\* Octal literals are read as decimal ones, which agrees only for one digit
\* that an int holds.
ReadAsDecimal(text) ==
  text.leading_zero /\ ~(text.number < 8 /\ (text.suffix = "" => text.number \in RangeOf("int")))

(* The scanner gives every literal that C has the type and value of C, but *)
(* for octal ones; it refuses only what no unsigned long holds, and of the *)
(* ones that C does not have only those with the suffix l turn negative.   *)
LiteralsAreThoseOfC ==
  IF phase \in {"scan", "syntax error"}
  THEN phase = "syntax error" =>
         \E o \in IntegerLiterals : ReadAsDecimal(o.text) \/ ~IsLiteralInC(o.text)
  ELSE \A o \in IntegerLiterals :
         /\ IsLiteralInC(o.text) =>
              (o.type = Head(Fitting(o.text)) /\ o.value = Integer(NumberInC(o.text))
                 <=> ~ReadAsDecimal(o.text))
         /\ o.value[2] < 0 <=>
              o.text.suffix = "l" /\ o.text.number \notin RangeOf("long")

ShiftsLeftType == expression.kind = "binary" /\ expression.op \in Shifts

(* The type checker accepts what C allows, and gives it C's type; but a    *)
(* shift gets the common type of both operands, not that of the left one.  *)
TypesAreThoseOfC ==
  /\ phase = "rejected" => ~Allowed(expression)
  /\ phase \in {"visit", "lower", "run", "done", "assembler error"} =>
       /\ Allowed(expression)
       /\ \/ typed.result = TypeInC(expression)
          \/ /\ ShiftsLeftType
             /\ typed.result = UsualArithmeticConversions(expression.operands[1].type,
                                                          expression.operands[2].type)

(* The assembler takes the code of every operation but !c for a constant c *)
(* that is a double, which is compared as an integer in a floating-point   *)
(* register, and .long directives with what is not a number of 32 bits.    *)
CodeAssembles ==
  expression.kind # "static" =>
    (phase = "assembler error" =>
       /\ expression.kind = "unary" /\ expression.op = "!"
       /\ expression.operands[1].type = "double" /\ expression.operands[1].constant)

\* Where the value is not C's: shifts done in the common type, an ordered
\* comparison with NaN that is true, ! of a negative zero.
ShiftDiverges(l, r) ==
  LET left   == expression.operands[1].type
      common == typed.result
  IN  \/ expression.op = ">>" /\ l[2] < 0 /\ ~IsSigned(common)
      \/ /\ expression.op = "<<" /\ ~IsSigned(left) /\ Width(common) > Width(left)
         /\ l[2] * 2 ^ r[2] \notin RangeOf(left)
Diverges(v) ==
  \/ ShiftsLeftType /\ ShiftDiverges(v[1], v[2])
  \/ expression.kind = "binary" /\ expression.op \in {"<", "<="} /\ NaN \in ToSet(v)
  \/ expression.kind = "unary" /\ expression.op = "!" /\ v[1] = NegativeZero

(* Where C defines the value of an operation, the code computes it, for    *)
(* every operator, mix of types, cast, assignment, ?: and condition, but   *)
(* for exactly these three.                                                *)
ValuesAreThoseOfC ==
  phase = "done" /\ expression.kind # "static" =>
    LET expected == ValueInC(expression, values)
    IN  expected # Undefined =>
          (ValueOf(memory[Result], typed.result) = expected <=> ~Diverges(values))

\* The constants of a local static that keep their meaning without conversion.
StoredAsWritten(o, target) ==
  IF o.type = "double"
  THEN CASE target = "double"   -> TRUE
         [] Size(target) = 4    -> Twice(o.value) % 2 = 0
         [] OTHER               -> IsZero(o.value)
  ELSE IF target = "double" THEN IsZero(o.value)
  ELSE Size(target) = 8 \/ o.value[2] \in -(2 ^ (IntBits - 1)) .. 2 ^ IntBits - 1

(* A static object starts with its initializer converted to its type, at   *)
(* compile time by CastTo as at run time by the code of a cast.  A local   *)
(* static is not converted: it is right exactly if the constant is stored  *)
(* as it is written.                                                       *)
StaticObjectsStartAsInC ==
  phase \in {"done", "assembler error"} /\ expression.kind = "static" =>
    LET constant == expression.operands[1]
        expected == Convert(constant.value, expression.target)
        right    == /\ phase = "done"
                    /\ ValueOf(memory[Result], expression.target) = expected
    IN  expected # Undefined =>
          (right <=> expression.op = "local" => StoredAsWritten(constant, expression.target))
=============================================================================
