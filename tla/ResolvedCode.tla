---------------------------- MODULE ResolvedCode ----------------------------
(***************************************************************************)
(* What the resolved code does.  A machine with two register files and a   *)
(* memory of numbers executes both an instruction over pseudo operands, as *)
(* the lowerers meant it, and the machine instructions that                *)
(* OperandResolver made of it; the two must agree on memory, flags and all *)
(* registers outside the scratch pool.                                     *)
(*                                                                         *)
(* Arithmetic is abstract: subtraction stands for an operation whose       *)
(* operands may not be swapped, and every conversion is a function of its  *)
(* own.  Memory holds at every address a different number; a pointer in it *)
(* points to an object of its own.                                         *)
(***************************************************************************)
EXTENDS OperandResolver

\* The scratch registers are registers of the machine, and none is one that the
\* lowerers name: x0 and x1, d0, or the frame pointer.
ASSUME ReservedAssumption ==
  GPPool \subseteq (2 .. 30) \ {29} /\ SIMDPool \subseteq 1 .. 31

\* There is a SIMD register for each of at most three operands.
ASSUME SIMDAssumption == Cardinality(SIMDPool) >= 3

\* Addresses and the contents of the memory are numbers.
ASSUME NumbersAssumption == Global4 \cup Global8 \cup Constant \subseteq Int

PageOffset(symbol) == symbol % 1000
Page(symbol)       == symbol - PageOffset(symbol)

\* Any start will do: every register and every address holds another value.
\* The constant section that EmitDoubleConstants writes is memory, too, and the
\* machine runs in the frame that the function ends up with.
Start ==
  [gp    |-> [n \in 0 .. 31 |-> CASE n = 29 -> 10000 [] n = 31 -> 5000
                                  [] OTHER -> 300 + n],
   simd  |-> [n \in 0 .. 31 |-> 400 + n],
   mem   |-> [a \in {ConstantSymbol(i) : i \in DOMAIN pool} |->
                pool[CHOOSE i \in DOMAIN pool : ConstantSymbol(i) = a]],
   flags |-> <<11, 13>>,
   frame |-> frame]

Read(m, a) == IF a \in DOMAIN m.mem THEN m.mem[a] ELSE 100000 + a
Write(m, a, v) ==
  [m EXCEPT !.mem = [b \in DOMAIN @ \cup {a} |-> IF b = a THEN v ELSE m.mem[b]]]

\* The address of an object that has a name.
ObjectAddress(m, o) ==
  IF o.kind = "Pseudo" THEN m.gp[29] + LocalOffset(m.frame, o.name, o.size)
                       ELSE DataSymbol(o.name)

OperandAddress(m, o) ==
  CASE o.kind = "Memory"   -> m.gp[o.base.number] + o.offset
    [] o.kind = "Indirect" -> Read(m, ObjectAddress(m, o.pointer))
    [] OTHER               -> ObjectAddress(m, o)

Value(m, o) ==
  CASE o.kind = "Register"  -> m[o.file][o.number]
    [] o.kind = "Immediate" -> o.value
    [] OTHER                -> Read(m, OperandAddress(m, o))

Assign(m, o, v) ==
  IF o.kind = "Register" THEN [m EXCEPT ![o.file][o.number] = v]
                         ELSE Write(m, OperandAddress(m, o), v)

Result(op, args) ==
  CASE op \in {"Mov", "Ldr"}   -> args[1]
    [] op = "Add"              -> args[1] + args[2]
    [] op \in {"Sub", "FSub"}  -> args[1] - args[2]
    [] op \in {"Neg", "FNeg"}  -> -args[1]
    [] op = "IntToFloat"       -> 2 * args[1] + 1
    [] op = "FloatToInt"       -> 3 * args[1] + 1
    [] op = "Extend"           -> 5 * args[1] + 1
    [] op = "Truncate"         -> 7 * args[1] + 1

\* The effect of one instruction, before or after resolution.
Execute(m, i) ==
  LET ops == i.operands
      paged == Value(m, ops[2]) + PageOffset(i.arg)
  IN  CASE i.op = "Branch"      -> m
        [] i.op = "Compare"     -> [m EXCEPT !.flags =
                                      <<Value(m, ops[1]), Value(m, ops[2])>>]
        [] i.op = "CSet"        -> Assign(m, ops[1], 2 * m.flags[1] - m.flags[2])
        [] i.op = "Str"         -> Assign(m, ops[2], Value(m, ops[1]))
        [] i.op = "Address"     -> Assign(m, ops[1], OperandAddress(m, ops[2]))
        [] i.op = "LoadImm"     -> Assign(m, ops[1], i.arg)
        [] i.op = "Adrp"        -> Assign(m, ops[1], Page(i.arg))
        [] i.op = "GlobalAdd"   -> Assign(m, ops[1], paged)
        [] i.op = "GlobalLoad"  -> Assign(m, ops[1], Read(m, paged))
        [] i.op = "GlobalStore" -> Write(m, paged, Value(m, ops[1]))
        [] OTHER -> Assign(m, ops[1],
                           Result(i.op, [k \in 1 .. Len(ops) - 1 |->
                                           Value(m, ops[k + 1])]))

Run(code, m) ==
  LET reached[k \in 0 .. Len(code)] ==
        IF k = 0 THEN m ELSE Execute(reached[k - 1], code[k])
  IN  reached[Len(code)]

\* What the rest of the program can see: not the scratch registers.
Visible(m) ==
  [mem |-> m.mem, flags |-> m.flags,
   gp   |-> [n \in (0 .. 31) \ GPPool |-> m.gp[n]],
   simd |-> [n \in (0 .. 31) \ SIMDPool |-> m.simd[n]]]

\* The resolved instructions do exactly what the instruction meant: they read
\* and write the same objects, in an order that no scratch register, page
\* register or large offset disturbs, and change nothing else.
ResolvedCodeCorrect ==
  phase = "resolved" => Visible(Run(Code, Start)) = Visible(Execute(Start, source))

-----------------------------------------------------------------------------
\* How many scratch GP registers an offset costs: one for the address and one
\* for the offset where it is out of range.
OffsetDemand(offset) == IF CanEncodeImm9(offset) THEN 0 ELSE 2

\* How many an operand costs in frame f.
GPDemand(f, o, use_float) ==
  LET value == IF use_float THEN 0 ELSE 1
  IN  CASE o.kind = "Pseudo"    -> value + OffsetDemand(LocalOffset(f, o.name, o.size))
        [] o.kind = "Data"      -> value + 1
        [] o.kind = "Memory"    -> value + OffsetDemand(o.offset)
        [] o.kind = "Immediate" -> 1
        [] OTHER                -> 0     \* a register

\* The same for operand k of instruction i.  The object whose address is taken
\* and what adjusts sp stay as they are, the address of a load or store is only
\* brought into range.
Cost(f, i, k) ==
  LET o == i.operands[k]
  IN  IF \/ i.op \in {"Add", "Sub"} /\ i.operands[1] = SP
         \/ i.op = "Address" /\ k = 2
      THEN 0
      ELSE IF IsLoadStore(i) /\ k = 2 /\ o.kind = "Memory" THEN OffsetDemand(o.offset)
      ELSE IF o.kind = "Indirect" THEN GPDemand(f, o.pointer, FALSE)
      ELSE GPDemand(f, o, NeedsFloatRegister(i, k))

\* What the whole instruction costs.
Demand(f, i) ==
  LET total[k \in 0 .. Len(i.operands)] ==
        IF k = 0 THEN 0 ELSE total[k - 1] + Cost(f, i, k)
  IN  total[Len(i.operands)]

\* The allocator throws "Out of temporary GP registers" exactly for the
\* instructions whose operands need more scratch registers than there are: no
\* register is wasted, leaked or requested twice on the way.
ExhaustionIsExact ==
  /\ phase = "failed" => Demand(frame, source) > Cardinality(GPPool)
  /\ phase = "resolved" =>
       Demand(frame, source) = Cardinality({i \in DOMAIN temps : temps[i].file = "gp"})
=============================================================================
