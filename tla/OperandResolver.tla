--------------------------- MODULE OperandResolver ---------------------------
(***************************************************************************)
(* Operand resolution (src/src/asm/operand_resolver.cpp with the temporary *)
(* register allocator of src/src/asm/allocator.cpp and the constant pool): *)
(* every instruction the lowerers emit over pseudo registers, static data, *)
(* dereferenced pointers and immediates is rewritten, one operand at a     *)
(* time, to machine registers.  `before` loads the sources, `after` stores *)
(* the destination, and the scratch registers go back to the pool when the *)
(* instruction is done.                                                    *)
(*                                                                         *)
(* An instruction is modelled by its shape: "Sub" stands for all binary    *)
(* operations on integers, "FSub" for those on doubles, "Neg" and "FNeg"   *)
(* for the unary ones.  A symbol is its (invented) address.  An immediate  *)
(* is loaded by one "LoadImm"; LoadImmediate.tla opens that sequence.      *)
(***************************************************************************)
EXTENDS FrameLayout, SequencesExt

CONSTANTS
  Var4, Var8,        \* pseudo registers of 4 and 8 bytes
  Global4, Global8,  \* objects of static duration (numbers)
  Constant,          \* floating-point constants (numbers)
  GPPool, SIMDPool,  \* numbers of the scratch registers
  Fill,              \* bytes of the frame that earlier code may occupy
  StackSlots         \* positions on the stack of arguments passed there

\* Number 31 is the stack pointer, which no pool of scratch registers holds.
ASSUME PoolAssumption == GPPool \subseteq Nat \ {31} /\ SIMDPool \subseteq Nat
ASSUME FillAssumption == Fill \subseteq Nat
ASSUME StackSlotsAssumption == StackSlots \subseteq Nat

VARIABLES
  phase,      \* where PerformResolving stands
  source,     \* the instruction as the lowerer emitted it
  instr,      \* the instruction being rewritten
  idx,        \* operand the loops of ResolveInstruction look at
  operands,   \* the operands rewritten so far
  before, after,
  free,       \* the scratch registers available, per register file
  temps,      \* temps_: the registers to free after the instruction
  frame,      \* the frame of the function
  pool        \* constant pool: position i holds the double of _dconst_(i-1)

vars == <<phase, source, instr, idx, operands, before, after,
          free, temps, frame, pool>>

-----------------------------------------------------------------------------
(* Operands and instructions.                                              *)

Register(file, number, size) ==
  [kind |-> "Register", file |-> file, number |-> number, size |-> size]
Pseudo(name, size) == [kind |-> "Pseudo", name |-> name, size |-> size]
Data(name, size)   == [kind |-> "Data", name |-> name, size |-> size]
Indirect(p, size)  == [kind |-> "Indirect", pointer |-> p, size |-> size]
Memory(base, offset, size) ==
  [kind |-> "Memory", base |-> base, offset |-> offset, size |-> size]
Immediate(value, is_float, size) ==
  [kind |-> "Immediate", value |-> value, is_float |-> is_float, size |-> size]

X29 == Register("gp", 29, 8)
SP  == Register("gp", 31, 8)

\* `arg` is the symbol of an adrp or a global access, or the value of LoadImm.
Instr(op, ops, is_float, arg) ==
  [op |-> op, operands |-> ops, is_float |-> is_float, arg |-> arg]

DataSymbol(name)   == 20000 + 16 * name
ConstantSymbol(id) == 30000 + 16 * id

IsLoadStore(i) == i.op \in {"Ldr", "Str"}

\* Mutant: a store is taken to write its first operand.
PureInputWithoutStr(i) == i.op \in {"Compare", "Branch", "Ret"}

IsPureInputInstruction(i) == i.op \in {"Compare", "Branch", "Ret", "Str"}

\* i is the position (from 1) of the operand.
NeedsFloatRegister(instruction, i) ==
  CASE instruction.op \in {"Mov", "Compare"} -> instruction.is_float
    [] instruction.op \in {"FSub", "FNeg"}   -> TRUE
    [] instruction.op = "IntToFloat"         -> i = 1
    [] instruction.op = "FloatToInt"         -> i = 2
    [] OTHER                                 -> FALSE

IsDestination(instruction, i) == i = 1 /\ ~IsPureInputInstruction(instruction)

CanEncodeImm9(offset) == -256 <= offset /\ offset <= 255

-----------------------------------------------------------------------------
(* The helpers of OperandResolver, as functions on a record of the state   *)
(* they change.  `operand` is their in-out parameter; `failed` is set when *)
(* the register allocator throws.                                          *)

State(operand) ==
  [operand |-> operand, instr |-> instr, before |-> before, after |-> after,
   free |-> free, temps |-> temps, frame |-> frame, pool |-> pool,
   failed |-> FALSE]

Before(s, i) == [s EXCEPT !.before = Append(@, i)]
After(s, i)  == [s EXCEPT !.after = Append(@, i)]

\* Mutant: the register is not erased from the free set.
AllocateShared(s, file, size) ==
  IF s.free[file] = {}
  THEN [s EXCEPT !.failed = TRUE, !.temps = Append(@, Register(file, 0, size))]
  ELSE [s EXCEPT !.temps = Append(@, Register(file, Min(s.free[file]), size))]

\* AllocateGP and AllocateSIMD: the lowest free number, or a runtime_error.
\* The caller records the register in temps_; it is the last one there.
Allocate(s, file, size) ==
  IF s.free[file] = {}
  THEN [s EXCEPT !.failed = TRUE, !.temps = Append(@, Register(file, 0, size))]
  ELSE LET number == Min(s.free[file])
       IN  [s EXCEPT !.free[file] = @ \ {number},
                     !.temps = Append(@, Register(file, number, size))]

AllocateValue(s, use_float, size) ==
  IF use_float THEN Allocate(s, "simd", 8) ELSE Allocate(s, "gp", size)

ResolvePseudo(s) ==
  LET p == s.operand
  IN  [s EXCEPT !.frame = Place(@, p.name, p.size),
                !.operand = Memory(X29, LocalOffset(s.frame, p.name, p.size),
                                   p.size)]

\* Load or store `value` at a symbol through an adrp of its page.
GlobalOffset(s, op, value, address, symbol) ==
  LET access == Instr(op, <<value, address>>, FALSE, symbol)
  IN  IF op = "GlobalStore" THEN After(s, access) ELSE Before(s, access)

AccessSymbol(s, symbol, is_dst, use_float, size) ==
  LET with_address == Allocate(s, "gp", 8)
      address      == Last(with_address.temps)
      with_value   == AllocateValue(with_address, use_float, size)
      value        == Last(with_value.temps)
      with_page    == Before(with_value, Instr("Adrp", <<address>>, FALSE, symbol))
  IN  [GlobalOffset(with_page, IF is_dst THEN "GlobalStore" ELSE "GlobalLoad",
                    value, address, symbol) EXCEPT !.operand = value]

ResolveDataOperand(s, is_dst, use_float) ==
  AccessSymbol(s, DataSymbol(s.operand.name), is_dst, use_float, s.operand.size)

\* Mutant: offsets in range are materialized, too.
MaterializeEveryOffset(s) ==
  LET s1     == Allocate(s, "gp", 8)
      addr   == Last(s1.temps)
      s2     == Allocate(s1, "gp", 8)
      imm    == Last(s2.temps)
      load   == Instr("LoadImm", <<imm>>, FALSE, s.operand.offset)
      adjust == Instr("Add", <<addr, s.operand.base, imm>>, FALSE, 0)
  IN  [s2 EXCEPT !.before = @ \o <<load, adjust>>,
                 !.operand = Memory(addr, 0, s.operand.size)]

MaterializeLargeOffset(s) ==
  LET memory == s.operand
      s1     == Allocate(s, "gp", 8)
      addr   == Last(s1.temps)
      s2     == Allocate(s1, "gp", 8)
      imm    == Last(s2.temps)
      offset == memory.offset
      size   == IF offset < 0 THEN -offset ELSE offset
      move   == Instr("Mov", <<addr, memory.base>>, FALSE, 0)
      load   == Instr("LoadImm", <<imm>>, FALSE, size)
      adjust == Instr(IF offset < 0 THEN "Sub" ELSE "Add",
                      <<addr, addr, imm>>, FALSE, 0)
  IN  IF CanEncodeImm9(offset)
      THEN s
      ELSE [s2 EXCEPT !.before = @ \o <<move, load, adjust>>,
                      !.operand = Memory(addr, 0, memory.size)]

ResolveMemoryOperand(s, is_dst, use_float) ==
  LET near   == MaterializeLargeOffset(s)
      memory == near.operand
      loaded == AllocateValue(near, use_float, memory.size)
      reg    == Last(loaded.temps)
  IN  [IF is_dst THEN After(loaded, Instr("Str", <<reg, memory>>, FALSE, 0))
                 ELSE Before(loaded, Instr("Ldr", <<reg, memory>>, FALSE, 0))
       EXCEPT !.operand = reg]

ResolveIndirectMemory(s) ==
  LET size    == s.operand.size
      inner   == [s EXCEPT !.operand = s.operand.pointer]
      pointer == IF inner.operand.kind = "Pseudo"
                 THEN ResolveMemoryOperand(ResolvePseudo(inner), FALSE, FALSE)
                 ELSE ResolveDataOperand(inner, FALSE, FALSE)
  IN  [pointer EXCEPT !.operand = Memory(pointer.operand, 0, size)]

\* RegisterDouble: a constant seen before keeps its label.
RegisterDouble(constants, value) ==
  IF \E i \in DOMAIN constants : constants[i] = value
  THEN constants ELSE Append(constants, value)

DoubleName(constants, value) ==
  CHOOSE i \in DOMAIN constants : constants[i] = value

ResolveFloatImmediate(s) ==
  LET constants == RegisterDouble(s.pool, s.operand.value)
      symbol    == ConstantSymbol(DoubleName(constants, s.operand.value))
  IN  AccessSymbol([s EXCEPT !.pool = constants], symbol, FALSE, TRUE, 8)

ResolveImmediate(s, use_float, target_size) ==
  LET imm  == s.operand
      size == IF target_size >= imm.size THEN target_size ELSE imm.size
      s1   == Allocate(s, "gp", size)
      reg  == Last(s1.temps)
  IN  IF use_float
      THEN ResolveFloatImmediate(s)
      ELSE [Before(s1, Instr("LoadImm", <<reg>>, FALSE, imm.value))
            EXCEPT !.operand = reg]

\* ResolveAddress on `address dst, src`: the instruction becomes a sub from x29
\* with an immediate, or an add of the page offset of a symbol.
ResolveAddress(s, dst, src) ==
  LET s1 == [s EXCEPT !.operand = dst]
      s2 == IF dst.kind = "Pseudo"
            THEN ResolveMemoryOperand(ResolvePseudo(s1), TRUE, FALSE)
            ELSE ResolveDataOperand(s1, TRUE, FALSE)
      reg    == s2.operand
      offset == LocalOffset(s2.frame, src.name, src.size)
      symbol == DataSymbol(src.name)
  IN  IF src.kind = "Pseudo"
      THEN [s2 EXCEPT
              !.frame = Place(@, src.name, src.size),
              !.instr = Instr("Sub", <<reg, X29, Immediate(-offset, FALSE, 4)>>,
                              FALSE, 0)]
      ELSE [Before(s2, Instr("Adrp", <<reg>>, FALSE, symbol)) EXCEPT
              !.instr = Instr("GlobalAdd", <<reg, reg>>, FALSE, symbol)]

-----------------------------------------------------------------------------
(* The instructions the lowerers emit, by the operands they may have.      *)

Places(size) == {Pseudo(v, size) : v \in IF size = 4 THEN Var4 ELSE Var8}
           \cup {Data(g, size) : g \in IF size = 4 THEN Global4 ELSE Global8}

Values(size) == Places(size) \cup {Immediate(1, FALSE, size)}
Doubles      == {Immediate(c, TRUE, 8) : c \in Constant}
FloatValues  == Places(8) \cup Doubles
Zero         == Immediate(0, FALSE, 4)

Pointed(size) == {Indirect(p, size) : p \in Places(8)}

W0(size) == Register("gp", 0, size)    \* argument and return register
W1(size) == Register("gp", 1, size)    \* holds the quotient of a Mod
D0       == Register("simd", 0, 8)

\* Incoming and outgoing stack arguments have a slot of 8 bytes each, the first
\* behind the frame record of 16 bytes.
StackParameters(size) == {Memory(X29, 16 + 8 * n, size) : n \in StackSlots}
StackArguments(size)  == {Memory(SP, 8 * n, size) : n \in StackSlots}

\* The room for arguments up to slot n.
StackArgsSize(n) == RoundUp(8 * (n + 1), 16)

Shapes(op, is_float, operand_lists) ==
  {Instr(op, ops, is_float, 0) : ops \in operand_lists}

IntInstructions(size) ==
       Shapes("Mov", FALSE, (Places(size) \X Values(size))
                       \cup ({W0(size)} \X Values(size))
                       \cup (Places(size) \X ({W0(size)} \cup StackParameters(size))))
  \cup Shapes("Sub", FALSE,
              (Places(size) \X Values(size) \X (Values(size) \cup {W1(size)}))
         \cup ({W1(size)} \X (Values(size) \cup {W1(size)}) \X Values(size)))
  \cup Shapes("Neg", FALSE, Places(size) \X Values(size))
  \cup Shapes("Compare", FALSE,
              Values(size) \X (Values(size) \cup {Zero}))
  \cup Shapes("Ldr", FALSE, Places(size) \X Pointed(size))
  \cup Shapes("Str", FALSE,
              Values(size) \X (Pointed(size) \cup StackArguments(size)))
  \cup Shapes("IntToFloat", FALSE, Places(8) \X Values(size))
  \cup Shapes("FloatToInt", FALSE, Places(size) \X FloatValues)

FloatInstructions ==
       Shapes("Mov", TRUE, (Places(8) \X (FloatValues \cup {D0} \cup StackParameters(8)))
                      \cup ({D0} \X FloatValues))
  \cup Shapes("FSub", FALSE, Places(8) \X FloatValues \X FloatValues)
  \cup Shapes("FNeg", FALSE, Places(8) \X FloatValues)
  \cup Shapes("Compare", TRUE, FloatValues \X FloatValues)
  \cup Shapes("Str", FALSE, FloatValues \X (Pointed(8) \cup StackArguments(8)))

\* The lowerer of a ! is chosen by its result, an int: a double constant is
\* compared as an integer.
NotsOfDoubles == Shapes("Compare", FALSE, Doubles \X {Zero})

\* sp makes room for the stack arguments of a call, and gives it back.
Adjustments ==
  {Instr(op, <<SP, SP, Immediate(StackArgsSize(n), FALSE, 8)>>, FALSE, 0) :
     op \in {"Add", "Sub"}, n \in StackSlots}

OtherInstructions ==
       Shapes("CSet", FALSE, {<<p>> : p \in Places(4)})
  \cup Shapes("Extend", FALSE, Places(8) \X Values(4))
  \cup Shapes("Truncate", FALSE, Places(4) \X Values(8))
  \cup Shapes("Address", FALSE, Places(8) \X (Places(4) \cup Places(8)))
  \cup Adjustments
  \cup {Instr("Branch", <<>>, FALSE, 0)}

Instructions == IntInstructions(4) \cup IntInstructions(8) \cup NotsOfDoubles
                  \cup FloatInstructions \cup OtherInstructions

-----------------------------------------------------------------------------
(* The resolving loop.                                                     *)

NoInstr == Instr("Branch", <<>>, FALSE, 0)

Init ==
  /\ phase = "ready"
  /\ source = NoInstr /\ instr = NoInstr
  /\ idx = 1 /\ operands = <<>>
  /\ before = <<>> /\ after = <<>>
  /\ free = [gp |-> GPPool, simd |-> SIMDPool]
  /\ temps = <<>>
  /\ \E fill \in Fill : frame = [EmptyFrame EXCEPT !.current_offset = fill]
  /\ pool = <<>>

\* PerformResolving takes the next instruction; ResolveInstruction returns at
\* once when it has no operands and hands an address-of to ResolveAddress.
Fetch(i) ==
  /\ phase = "ready"
  /\ phase' = CASE i.op = "Address"  -> "address"
                [] i.operands = <<>> -> "resolved"
                [] OTHER             -> "operands"
  /\ source' = i
  /\ instr' = i
  /\ idx' = 1
  /\ operands' = i.operands
  /\ before' = <<>>
  /\ after' = <<>>
  /\ UNCHANGED <<free, temps, frame, pool>>

\* The state becomes s; if a register was missing the exception ends the
\* compilation and nothing the resolver holds is used again.
Becomes(s, next_phase) ==
  IF s.failed
  THEN /\ phase' = "failed"
       /\ UNCHANGED <<instr, before, after, free, temps, frame, pool>>
  ELSE /\ phase' = next_phase
       /\ instr' = s.instr
       /\ before' = s.before
       /\ after' = s.after
       /\ free' = s.free
       /\ temps' = s.temps
       /\ frame' = s.frame
       /\ pool' = s.pool

RewriteOperand(s) ==
  /\ idx <= Len(operands)
  /\ Becomes(s, phase)
  /\ operands' = IF s.failed THEN operands
                             ELSE [operands EXCEPT ![idx] = s.operand]
  /\ idx' = idx + 1
  /\ UNCHANGED source

\* First loop: pseudo registers become memory, data and pointers are fetched.
ResolveOperand ==
  /\ phase = "operands"
  /\ LET s == State(operands[idx])
     IN  RewriteOperand(
           IF s.operand.kind = "Pseudo" THEN ResolvePseudo(s)
           ELSE IF s.operand.kind = "Data"
           THEN ResolveDataOperand(s, IsDestination(instr, idx),
                                      NeedsFloatRegister(instr, idx))
           ELSE IF s.operand.kind = "Indirect" THEN ResolveIndirectMemory(s)
           ELSE s)

StartSecondLoop ==
  /\ phase = "operands"
  /\ idx > Len(operands)
  /\ phase' = "registers"
  /\ idx' = 1
  /\ UNCHANGED <<source, instr, operands, before, after, free, temps, frame, pool>>

\* Mutant: immediates keep the width of an int.
TargetSizeOfInt == 4

\* The width of a register that receives an integer immediate.
TargetSize ==
  Max({4} \cup {source.operands[i].size :
          i \in {j \in DOMAIN source.operands :
                   \/ source.op = "Compare" /\ ~source.is_float
                   \/ source.operands[j].kind # "Immediate"}})

IsSpArithmetic == instr.op \in {"Add", "Sub"} /\ operands[1] = SP

\* Second loop: memory goes through a register, except the address of a load
\* or store, which is only brought into range; immediates are loaded.
MaterializeOperand ==
  /\ phase = "registers"
  /\ LET s == State(operands[idx])
         use_float == NeedsFloatRegister(instr, idx)
     IN  RewriteOperand(
           IF s.operand.kind = "Memory"
           THEN IF IsLoadStore(instr) /\ idx = Len(operands)
                THEN MaterializeLargeOffset(s)
                ELSE ResolveMemoryOperand(s, IsDestination(instr, idx), use_float)
           ELSE IF s.operand.kind = "Immediate" /\ ~IsSpArithmetic
           THEN ResolveImmediate(s, use_float \/ s.operand.is_float, TargetSize)
           ELSE s)

SetOperands ==
  /\ phase = "registers"
  /\ idx > Len(operands)
  /\ phase' = "resolved"
  /\ instr' = [instr EXCEPT !.operands = operands]
  /\ UNCHANGED <<source, idx, operands, before, after, free, temps, frame, pool>>

ResolveVirtualInstructions ==
  /\ phase = "address"
  /\ Becomes(ResolveAddress(State(operands[1]), operands[1], operands[2]), "resolved")
  /\ UNCHANGED <<source, idx, operands>>

Numbers(file) == {temps[i].number : i \in {j \in DOMAIN temps : temps[j].file = file}}

\* The instruction and what surrounds it are appended to the function's code
\* and FreeTemps gives every register back.
FreeTemps ==
  /\ phase = "resolved"
  /\ phase' = "ready"
  /\ free' = [file \in {"gp", "simd"} |-> free[file] \cup Numbers(file)]
  /\ temps' = <<>>
  /\ source' = NoInstr /\ instr' = NoInstr
  /\ idx' = 1 /\ operands' = <<>>
  /\ before' = <<>> /\ after' = <<>>
  /\ UNCHANGED <<frame, pool>>

Next ==
  \/ \E i \in Instructions : Fetch(i)
  \/ ResolveOperand
  \/ StartSecondLoop
  \/ MaterializeOperand
  \/ SetOperands
  \/ ResolveVirtualInstructions
  \/ FreeTemps

Spec == Init /\ [][Next]_vars

-----------------------------------------------------------------------------
Code == before \o <<instr>> \o after

\* A scratch register is free or held by exactly one entry of temps_, never
\* both and never twice, and between two instructions all of them are free:
\* no instruction can clobber a value another one still needs in a register.
ScratchRegistersConserved ==
  /\ \A file \in {"gp", "simd"} :
       /\ free[file] \cap Numbers(file) = {}
       /\ free[file] \cup Numbers(file) = IF file = "gp" THEN GPPool ELSE SIMDPool
  /\ \A i, j \in DOMAIN temps :
       i # j /\ temps[i].file = temps[j].file => temps[i].number # temps[j].number
  /\ phase = "ready" => temps = <<>>

\* The immediate of an add or sub has 12 bits, which may stand for bits 12 to 23.
CanEncodeImm12(value) ==
  value \in 0 .. 4095 \/ value \in {4096 * high : high \in 0 .. 4095}

\* What the assembler accepts: nothing but registers, a base register with an
\* offset of 9 signed bits as the address of a load or store, and an immediate
\* of 12 bits only where it is added to x29 or sp.
Encodable(i) ==
  \A k \in DOMAIN i.operands :
    LET o == i.operands[k]
    IN  \/ o.kind = "Register"
        \/ /\ o.kind = "Memory" /\ IsLoadStore(i) /\ k = Len(i.operands)
           /\ o.base.kind = "Register" /\ o.base.file = "gp" /\ o.base.size = 8
           /\ o.offset \in -256 .. 255
        \/ /\ o.kind = "Immediate" /\ k = 3 /\ i.operands[2] \in {SP, X29}
           /\ CanEncodeImm12(o.value)

\* Operands of one machine instruction are in the right register file and of
\* the same width, whatever mixture of locals, data and immediates they were.
OperandsAgree(i) ==
  LET ops == i.operands
      registers == {ops[k] : k \in {j \in DOMAIN ops : ops[j].kind = "Register"}}
      files == {r.file : r \in registers}
  IN  CASE i.op \in {"FSub", "FNeg"} \/ i.is_float -> files \subseteq {"simd"}
        [] i.op \in {"Mov", "Add", "Sub", "Neg", "Compare"} /\ ~i.is_float ->
             /\ files \subseteq {"gp"}
             /\ \A r, q \in registers : r.size = q.size
        [] i.op = "IntToFloat" -> ops[1].file = "simd" /\ ops[2].file = "gp"
        [] i.op = "FloatToInt" -> ops[1].file = "gp" /\ ops[2].file = "simd"
        [] i.op \in {"Ldr", "Str"} -> ops[1].size = ops[2].size
        [] i.op \in {"GlobalLoad", "GlobalStore", "GlobalAdd"} ->
             ops[2].file = "gp" /\ ops[2].size = 8
        [] i.op = "Truncate" -> ops[1].size = 4
        [] OTHER -> TRUE

(* What the lowerers emit and no code does: the ! of a double constant,    *)
(* and frames or arguments larger than an immediate.                       *)
IsNotOfDouble(i) ==
  /\ i.op = "Compare" /\ ~i.is_float
  /\ i.operands[1].kind = "Immediate" /\ i.operands[1].is_float

IsFarAddress(f, i) ==
  /\ i.op = "Address" /\ i.operands[2].kind = "Pseudo"
  /\ ~CanEncodeImm12(-LocalOffset(f, i.operands[2].name, i.operands[2].size))

IsLargeAdjustment(i) ==
  /\ i.op \in {"Add", "Sub"} /\ i.operands[1] = SP
  /\ ~CanEncodeImm12(i.operands[3].value)

HasNoCode(f, i) == IsNotOfDouble(i) \/ IsFarAddress(f, i) \/ IsLargeAdjustment(i)

\* The code of an instruction can be encoded, with no virtual operand left and
\* all offsets in range, exactly if it is not one of those: the exceptions are
\* where the resolver leaves an operand that the assembler refuses.
CodeEncodes ==
  phase = "resolved" =>
    (HasNoCode(frame, source) <=>
       \E k \in DOMAIN Code : ~(Encodable(Code[k]) /\ OperandsAgree(Code[k])))
=============================================================================
