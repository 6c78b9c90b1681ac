-------------------------- MODULE ThreeAddressCode --------------------------
(* Operands and instructions of the three-address code (TACOperand and         *)
(* TACInstruction), as far as control flow needs them.                         *)
EXTENDS Integers, Sequences

NoOperand    == [kind |-> "none", name |-> "", n |-> 0]
Variable(x)  == [kind |-> "variable", name |-> x, n |-> 0]
Temporary(n) == [kind |-> "temp", name |-> "", n |-> n]
Number(n)    == [kind |-> "constant", name |-> "", n |-> n]
IsConstant(operand) == operand.kind = "constant"

\* Labels are numbered by the loop or by the visitor's own counter.
Name(kind, id) == [kind |-> kind, id |-> id]
NoLabel        == Name("none", 0)

TAC(op, label, dst, lhs, rhs) ==
  [op |-> op, label |-> label, dst |-> dst, lhs |-> lhs, rhs |-> rhs]
Label(l)      == TAC("label", l, NoOperand, NoOperand, NoOperand)
GoTo(l)       == TAC("goto", l, NoOperand, NoOperand, NoOperand)
Function(n)   == TAC("function", NoLabel, NoOperand, Number(n), NoOperand)
Branch(op, l, cond)  == TAC(op, l, NoOperand, cond, NoOperand)
Assign(dst, src)     == TAC("assign", NoLabel, dst, src, NoOperand)
Load(dst, pointer)   == TAC("load", NoLabel, dst, pointer, NoOperand)
Store(pointer, src)  == TAC("store", NoLabel, pointer, src, NoOperand)
TakeAddress(dst, src) == TAC("address", NoLabel, dst, src, NoOperand)
CallFunction(f, dst) == TAC("call", NoLabel, dst, Variable(f), NoOperand)


Branches == {"goto", "if", "iffalse"}
IsBranch(instruction) == instruction.op \in Branches
IsLabel(instruction)  == instruction.op = "label"
=============================================================================
