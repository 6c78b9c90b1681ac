------------------------ MODULE OperandResolver_proofs ------------------------
(***************************************************************************)
(* For any two pools and any operands, no path through the resolver loses  *)
(* a scratch register or hands one out twice, and everything it appends to *)
(* a function can be encoded and does what the instruction meant.          *)
(*                                                                         *)
(* The helpers of OperandResolver are functions on a record of the state   *)
(* they change.  Sound says of such a record that its registers are        *)
(* conserved, unless the allocator threw: Allocate keeps it, everything    *)
(* else a helper changes is irrelevant to it, and so every helper keeps it *)
(* and every action that stores the record keeps the invariant.            *)
(*                                                                         *)
(* Encoding goes the same way with Tidy, which adds that the code emitted  *)
(* so far fits the machine.  Emitted says what the resolver relies on in   *)
(* the instructions it is given, Middle and Final what an operand of one   *)
(* may be after the first and after the second loop; an instruction whose  *)
(* operands are all Final fits.                                            *)
(*                                                                         *)
(* That the code does what was meant is shown for every machine m that can *)
(* run it (Serves), not just for the one the runs start from.  A helper    *)
(* that goes from s to t takes registers out of the free ones and adds     *)
(* code (Follows); on m that code disturbs none but registers free in s    *)
(* (Agree) and lets the operand it leaves behind stand for the one it was  *)
(* given (OperandStands).  Since every operand in use keeps off the free   *)
(* registers (Kept), what stands keeps standing while others are rewritten *)
(* (StandsLater).                                                          *)
(*                                                                         *)
(* That the allocator throws only where it must is shown by what every     *)
(* helper takes (Pays, Spends) against what every operand costs (CostIs):  *)
(* the registers that are left are the pool less the Bill for the operands *)
(* done, and a price stays what it was once the slot of the operand is     *)
(* there (Settled).                                                        *)
(***************************************************************************)
EXTENDS ResolvedCode, NaturalsBySets, TLAPS

Files == {"gp", "simd"}

Fields == {"operand", "instr", "before", "after", "free", "temps", "frame",
           "pool", "failed"}

NumbersIn(registers, file) ==
  {registers[i].number : i \in {j \in DOMAIN registers : registers[j].file = file}}

\* registers_free and held share out the pools, file by file.
Conserved(registers_free, held) ==
  /\ \E S : held \in Seq(S)
  /\ DOMAIN registers_free = Files
  /\ \A file \in Files :
       /\ registers_free[file] \cap NumbersIn(held, file) = {}
       /\ registers_free[file] \cup NumbersIn(held, file)
            = IF file = "gp" THEN GPPool ELSE SIMDPool
  /\ \A i, j \in DOMAIN held :
       i # j /\ held[i].file = held[j].file => held[i].number # held[j].number

Sound(s) ==
  /\ DOMAIN s = Fields
  /\ s.failed \in BOOLEAN
  /\ s.failed = FALSE => Conserved(s.free, s.temps)

IInv ==
  /\ Conserved(free, temps)
  /\ phase = "ready" => temps = <<>>

-----------------------------------------------------------------------------
(* The allocator.                                                          *)

LEMMA LeastFree == ASSUME NEW S \in SUBSET Nat, S # {} PROVE Min(S) \in S
<1>1. PICK m \in S : \A n \in S : m <= n
  BY LeastNatural
<1> QED BY <1>1 DEF Min

LEMMA Appended ==
  ASSUME NEW S, NEW held \in Seq(S), NEW r
  PROVE  /\ Append(held, r) \in Seq(S \cup {r})
         /\ DOMAIN held = 1 .. Len(held) /\ Len(held) \in Nat
         /\ DOMAIN Append(held, r) = 1 .. Len(held) + 1
         /\ Append(held, r)[Len(held) + 1] = r
         /\ \A i \in DOMAIN held : Append(held, r)[i] = held[i]
<1>1. held \in Seq(S \cup {r}) /\ r \in S \cup {r}
  OBVIOUS
<1> QED BY <1>1

LEMMA NumbersAppended ==
  ASSUME NEW S, NEW held \in Seq(S), NEW file, NEW number, NEW size, NEW other
  PROVE  NumbersIn(Append(held, Register(file, number, size)), other)
           = NumbersIn(held, other) \cup IF file = other THEN {number} ELSE {}
<1> DEFINE r == Register(file, number, size)
           new == Append(held, r)
<1>1. r.file = file /\ r.number = number
  BY DEF Register
<1>2. /\ DOMAIN held = 1 .. Len(held) /\ Len(held) \in Nat
      /\ DOMAIN new = 1 .. Len(held) + 1
      /\ new[Len(held) + 1] = r
      /\ \A i \in DOMAIN held : new[i] = held[i]
  BY Appended
<1> HIDE DEF r, new
<1>3. \A i \in DOMAIN new : i \in DOMAIN held \/ i = Len(held) + 1
  BY <1>2
<1>4. DOMAIN held \subseteq DOMAIN new /\ Len(held) + 1 \in DOMAIN new
  BY <1>2
<1>5. NumbersIn(new, other) \subseteq NumbersIn(held, other) \cup IF file = other THEN {number} ELSE {}
  BY <1>1, <1>2, <1>3 DEF NumbersIn
<1>6. NumbersIn(held, other) \subseteq NumbersIn(new, other)
  BY <1>2, <1>4 DEF NumbersIn
<1>7. file = other => number \in NumbersIn(new, other)
  BY <1>1, <1>2, <1>4 DEF NumbersIn
<1> QED BY <1>5, <1>6, <1>7 DEF r, new

LEMMA AllocateSound ==
  ASSUME NEW s, Sound(s), NEW file \in Files, NEW size
  PROVE  Sound(Allocate(s, file, size))
<1> DEFINE t == Allocate(s, file, size)
           number == Min(s.free[file])
           r == Register(file, number, size)
<1>1. CASE s.free[file] = {}
  BY <1>1 DEF Allocate, Sound, Fields
<1>2. CASE s.free[file] # {}
  <2>1. /\ t.temps = Append(s.temps, r) /\ t.failed = s.failed
        /\ DOMAIN t = Fields
        /\ t.free = [s.free EXCEPT ![file] = @ \ {number}]
    BY <1>2 DEF Allocate, Sound, Fields
  <2> SUFFICES ASSUME s.failed = FALSE PROVE Conserved(t.free, t.temps)
    BY <2>1 DEF Sound
  <2>2. Conserved(s.free, s.temps)
    BY DEF Sound
  <2>3. PICK S : s.temps \in Seq(S)
    BY <2>2 DEF Conserved
  <2>4. number \in s.free[file]
    <3>1. s.free[file] \subseteq Nat
      BY <2>2, PoolAssumption DEF Conserved, Files
    <3> QED BY <1>2, <3>1, LeastFree
  <2>5. /\ t.free[file] = s.free[file] \ {number}
        /\ \A other \in Files \ {file} : t.free[other] = s.free[other]
        /\ DOMAIN t.free = Files
    BY <2>1, <2>2 DEF Conserved
  <2>6. \A other : NumbersIn(t.temps, other)
          = NumbersIn(s.temps, other) \cup IF file = other THEN {number} ELSE {}
    BY <2>1, <2>3, NumbersAppended
  <2>7. \E T : t.temps \in Seq(T)
    <3>1. t.temps \in Seq(S \cup {r})
      BY <2>1, <2>3, Appended
    <3> QED BY <3>1
  <2>8. ASSUME NEW other \in Files
        PROVE  /\ t.free[other] \cap NumbersIn(t.temps, other) = {}
               /\ t.free[other] \cup NumbersIn(t.temps, other)
                    = IF other = "gp" THEN GPPool ELSE SIMDPool
    <3>1. /\ s.free[other] \cap NumbersIn(s.temps, other) = {}
          /\ s.free[other] \cup NumbersIn(s.temps, other)
               = IF other = "gp" THEN GPPool ELSE SIMDPool
      BY <2>2 DEF Conserved
    <3> QED BY <3>1, <2>4, <2>5, <2>6
  <2>9. ASSUME NEW i \in DOMAIN t.temps, NEW j \in DOMAIN t.temps,
               i # j, t.temps[i].file = t.temps[j].file
        PROVE  t.temps[i].number # t.temps[j].number
    <3>1. /\ DOMAIN s.temps = 1 .. Len(s.temps) /\ Len(s.temps) \in Nat
          /\ DOMAIN t.temps = 1 .. Len(s.temps) + 1
          /\ t.temps[Len(s.temps) + 1] = r
          /\ \A k \in DOMAIN s.temps : t.temps[k] = s.temps[k]
      BY <2>1, <2>3, Appended
    <3>2. r.file = file /\ r.number = number
      BY DEF Register
    <3>3. \A k \in DOMAIN s.temps : s.temps[k].file = file => s.temps[k].number # number
      BY <2>2, <2>4 DEF Conserved, NumbersIn
    <3>4. \A k \in DOMAIN t.temps : k \in DOMAIN s.temps \/ k = Len(s.temps) + 1
      BY <3>1
    <3>5. CASE i \in DOMAIN s.temps /\ j \in DOMAIN s.temps
      BY <3>1, <3>5, <2>2, <2>9 DEF Conserved
    <3>6. CASE i = Len(s.temps) + 1 /\ j \in DOMAIN s.temps
      BY <3>1, <3>2, <3>3, <3>6, <2>9
    <3>7. CASE j = Len(s.temps) + 1 /\ i \in DOMAIN s.temps
      BY <3>1, <3>2, <3>3, <3>7, <2>9
    <3> QED BY <3>4, <3>5, <3>6, <3>7, <2>9
  <2> HIDE DEF t
  <2> QED BY <2>5, <2>7, <2>8, <2>9 DEF Conserved
<1> QED BY <1>1, <1>2

-----------------------------------------------------------------------------
(* Everything else the helpers change is irrelevant to the registers.      *)

LEMMA Unrelated ==
  ASSUME NEW s, Sound(s), NEW t, DOMAIN t = Fields,
         t.free = s.free, t.temps = s.temps, t.failed = s.failed
  PROVE  Sound(t)
BY DEF Sound

LEMMA EmitSound ==
  ASSUME NEW s, Sound(s), NEW i
  PROVE  Sound(Before(s, i)) /\ Sound(After(s, i))
BY DEF Before, After, Sound, Fields

LEMMA OperandSound ==
  ASSUME NEW s, Sound(s), NEW o
  PROVE  Sound([s EXCEPT !.operand = o])
BY DEF Sound, Fields

-----------------------------------------------------------------------------
(* Each helper of the resolver.                                            *)

LEMMA AllocateValueSound ==
  ASSUME NEW s, Sound(s), NEW use_float, NEW size
  PROVE  Sound(AllocateValue(s, use_float, size))
<1>1. Sound(Allocate(s, "simd", 8)) /\ Sound(Allocate(s, "gp", size))
  BY AllocateSound DEF Files
<1> QED BY <1>1 DEF AllocateValue

LEMMA PseudoSound ==
  ASSUME NEW s, Sound(s)
  PROVE  Sound(ResolvePseudo(s))
BY DEF ResolvePseudo, Sound, Fields

LEMMA AccessSound ==
  ASSUME NEW s, Sound(s), NEW symbol, NEW is_dst, NEW use_float, NEW size
  PROVE  Sound(AccessSymbol(s, symbol, is_dst, use_float, size))
<1> DEFINE with_address == Allocate(s, "gp", 8)
           address      == Last(with_address.temps)
           with_value   == AllocateValue(with_address, use_float, size)
           value        == Last(with_value.temps)
           with_page    == Before(with_value, Instr("Adrp", <<address>>, FALSE, symbol))
           accessed     == GlobalOffset(with_page,
                             IF is_dst THEN "GlobalStore" ELSE "GlobalLoad",
                             value, address, symbol)
<1>1. Sound(with_address)
  BY AllocateSound DEF Files
<1>2. Sound(with_value)
  BY <1>1, AllocateValueSound
<1>3. Sound(with_page)
  BY <1>2, EmitSound
<1>4. Sound(accessed)
  BY <1>3, EmitSound DEF GlobalOffset
<1>5. Sound([accessed EXCEPT !.operand = value])
  BY <1>4, OperandSound
<1> QED BY <1>5 DEF AccessSymbol

LEMMA DataSound ==
  ASSUME NEW s, Sound(s), NEW is_dst, NEW use_float
  PROVE  Sound(ResolveDataOperand(s, is_dst, use_float))
BY AccessSound DEF ResolveDataOperand

LEMMA LargeOffsetSound ==
  ASSUME NEW s, Sound(s)
  PROVE  Sound(MaterializeLargeOffset(s))
<1> DEFINE s1 == Allocate(s, "gp", 8)
           s2 == Allocate(s1, "gp", 8)
<1>1. Sound(s1)
  BY AllocateSound DEF Files
<1>2. Sound(s2)
  BY <1>1, AllocateSound DEF Files
<1>3. ASSUME NEW code, NEW o
      PROVE  Sound([s2 EXCEPT !.before = @ \o code, !.operand = o])
  <2> HIDE DEF s2
  <2> QED BY <1>2 DEF Sound, Fields
<1> QED BY <1>3 DEF MaterializeLargeOffset

LEMMA MemorySound ==
  ASSUME NEW s, Sound(s), NEW is_dst, NEW use_float
  PROVE  Sound(ResolveMemoryOperand(s, is_dst, use_float))
<1> DEFINE near   == MaterializeLargeOffset(s)
           memory == near.operand
           loaded == AllocateValue(near, use_float, memory.size)
           reg    == Last(loaded.temps)
           moved  == IF is_dst THEN After(loaded, Instr("Str", <<reg, memory>>, FALSE, 0))
                     ELSE Before(loaded, Instr("Ldr", <<reg, memory>>, FALSE, 0))
<1>1. Sound(near)
  BY LargeOffsetSound
<1>2. Sound(loaded)
  BY <1>1, AllocateValueSound
<1>3. Sound(moved)
  BY <1>2, EmitSound
<1>4. Sound([moved EXCEPT !.operand = reg])
  BY <1>3, OperandSound
<1> QED BY <1>4 DEF ResolveMemoryOperand

LEMMA IndirectSound ==
  ASSUME NEW s, Sound(s)
  PROVE  Sound(ResolveIndirectMemory(s))
<1> DEFINE inner   == [s EXCEPT !.operand = s.operand.pointer]
           pointer == IF inner.operand.kind = "Pseudo"
                      THEN ResolveMemoryOperand(ResolvePseudo(inner), FALSE, FALSE)
                      ELSE ResolveDataOperand(inner, FALSE, FALSE)
<1>1. Sound(inner)
  BY OperandSound
<1>2. Sound(pointer)
  <2> HIDE DEF inner
  <2>1. Sound(ResolveMemoryOperand(ResolvePseudo(inner), FALSE, FALSE))
    BY <1>1, PseudoSound, MemorySound
  <2>2. Sound(ResolveDataOperand(inner, FALSE, FALSE))
    BY <1>1, DataSound
  <2> QED BY <2>1, <2>2
<1>3. Sound([pointer EXCEPT !.operand = Memory(pointer.operand, 0, s.operand.size)])
  BY <1>2, OperandSound
<1> QED BY <1>3 DEF ResolveIndirectMemory

LEMMA ImmediateSound ==
  ASSUME NEW s, Sound(s), NEW use_float, NEW target_size
  PROVE  Sound(ResolveImmediate(s, use_float, target_size))
<1>1. Sound(ResolveFloatImmediate(s))
  <2>1. ASSUME NEW constants PROVE Sound([s EXCEPT !.pool = constants])
    BY DEF Sound, Fields
  <2> QED BY <2>1, AccessSound DEF ResolveFloatImmediate
<1>2. ASSUME NEW size, NEW reg, NEW value
      PROVE  Sound([Before(Allocate(s, "gp", size), Instr("LoadImm", <<reg>>, FALSE, value))
                    EXCEPT !.operand = reg])
  BY AllocateSound, EmitSound, OperandSound DEF Files
<1> QED BY <1>1, <1>2 DEF ResolveImmediate

LEMMA AddressSound ==
  ASSUME NEW s, Sound(s), NEW dst, NEW src
  PROVE  Sound(ResolveAddress(s, dst, src))
<1> DEFINE s1 == [s EXCEPT !.operand = dst]
           s2 == IF dst.kind = "Pseudo"
                 THEN ResolveMemoryOperand(ResolvePseudo(s1), TRUE, FALSE)
                 ELSE ResolveDataOperand(s1, TRUE, FALSE)
<1>1. Sound(s1)
  BY OperandSound
<1>2. Sound(s2)
  <2> HIDE DEF s1
  <2>1. Sound(ResolveMemoryOperand(ResolvePseudo(s1), TRUE, FALSE))
    BY <1>1, PseudoSound, MemorySound
  <2>2. Sound(ResolveDataOperand(s1, TRUE, FALSE))
    BY <1>1, DataSound
  <2> QED BY <2>1, <2>2
<1>3. ASSUME NEW i
      PROVE  Sound([s2 EXCEPT !.frame = Place(@, src.name, src.size), !.instr = i])
  <2> HIDE DEF s2
  <2> QED BY <1>2 DEF Sound, Fields
<1>4. ASSUME NEW i, NEW page
      PROVE  Sound([Before(s2, page) EXCEPT !.instr = i])
  <2> HIDE DEF s2
  <2>1. Sound(Before(s2, page))
    BY <1>2, EmitSound
  <2> QED BY <2>1 DEF Sound, Fields
<1> QED BY <1>3, <1>4 DEF ResolveAddress

-----------------------------------------------------------------------------
(* The actions.                                                            *)

LEMMA StateSound ==
  ASSUME Conserved(free, temps), NEW o
  PROVE  Sound(State(o))
BY DEF State, Sound, Fields

LEMMA BecomesKeeps ==
  ASSUME IInv, phase # "ready", NEW s, Sound(s), NEW next_phase, next_phase # "ready",
         Becomes(s, next_phase)
  PROVE  IInv'
<1>1. CASE s.failed = TRUE
  BY <1>1 DEF Becomes, IInv, Conserved, NumbersIn
<1>2. CASE s.failed = FALSE
  BY <1>2 DEF Becomes, IInv, Sound, Conserved, NumbersIn
<1> QED BY <1>1, <1>2 DEF Sound

LEMMA InitConserves == ASSUME Init PROVE IInv
<1>1. \E S : temps \in Seq(S)
  <2>1. <<>> \in Seq({})
    OBVIOUS
  <2> QED BY <2>1 DEF Init
<1>2. \A file \in Files : NumbersIn(temps, file) = {}
  BY DEF Init, NumbersIn
<1>3. DOMAIN free = Files /\ free["gp"] = GPPool /\ free["simd"] = SIMDPool
  BY DEF Init, Files
<1>4. DOMAIN temps = {}
  BY DEF Init
<1> QED BY <1>1, <1>2, <1>3, <1>4 DEF IInv, Conserved, Files, Init

LEMMA StepConserves == ASSUME IInv, [Next]_vars PROVE IInv'
<1>0. ASSUME NEW o PROVE Sound(State(o))
  BY StateSound DEF IInv
<1>1. CASE \E i \in Instructions : Fetch(i)
  BY <1>1 DEF Fetch, IInv, Conserved, NumbersIn
<1>2. CASE ResolveOperand
  <2> DEFINE s == State(operands[idx])
  <2>1. s.operand = operands[idx] /\ Sound(s)
    BY <1>0 DEF State
  <2> HIDE DEF s
  <2>2. Sound(ResolvePseudo(s)) /\ Sound(ResolveIndirectMemory(s))
    BY <2>1, PseudoSound, IndirectSound
  <2>3. Sound(ResolveDataOperand(s, IsDestination(instr, idx), NeedsFloatRegister(instr, idx)))
    BY <2>1, DataSound
  <2>4. PICK t : Sound(t) /\ RewriteOperand(t)
    BY <1>2, <2>1, <2>2, <2>3 DEF ResolveOperand, s
  <2> QED BY <1>2, <2>4, BecomesKeeps DEF ResolveOperand, RewriteOperand
<1>3. CASE StartSecondLoop
  BY <1>3 DEF StartSecondLoop, IInv, Conserved, NumbersIn
<1>4. CASE MaterializeOperand
  <2> DEFINE s == State(operands[idx])
             use_float == NeedsFloatRegister(instr, idx)
  <2>1. Sound(s)
    BY <1>0
  <2> HIDE DEF s
  <2>2. Sound(MaterializeLargeOffset(s))
    BY <2>1, LargeOffsetSound
  <2>3. Sound(ResolveMemoryOperand(s, IsDestination(instr, idx), use_float))
    BY <2>1, MemorySound
  <2>4. Sound(ResolveImmediate(s, use_float \/ s.operand.is_float, TargetSize))
    BY <2>1, ImmediateSound
  <2>5. PICK t : Sound(t) /\ RewriteOperand(t)
    BY <1>4, <2>1, <2>2, <2>3, <2>4 DEF MaterializeOperand, s
  <2> QED BY <1>4, <2>5, BecomesKeeps DEF MaterializeOperand, RewriteOperand
<1>5. CASE SetOperands
  BY <1>5 DEF SetOperands, IInv, Conserved, NumbersIn
<1>6. CASE ResolveVirtualInstructions
  <2>1. Sound(ResolveAddress(State(operands[1]), operands[1], operands[2]))
    BY <1>0, AddressSound
  <2> QED BY <1>6, <2>1, BecomesKeeps DEF ResolveVirtualInstructions
<1>7. CASE FreeTemps
  <2>1. temps' = <<>> /\ DOMAIN free' = Files
    BY <1>7 DEF FreeTemps, Files
  <2>2. \A file \in Files : free'[file] = IF file = "gp" THEN GPPool ELSE SIMDPool
    <3>1. \A file \in Files : free'[file] = free[file] \cup NumbersIn(temps, file)
      BY <1>7 DEF FreeTemps, Files, Numbers, NumbersIn
    <3> QED BY <3>1 DEF IInv, Conserved
  <2>3. \A file \in Files : NumbersIn(temps', file) = {}
    BY <2>1 DEF NumbersIn
  <2>4. DOMAIN temps' = {} /\ temps' \in Seq({})
    BY <2>1
  <2>5. Conserved(free', temps')
    BY <2>1, <2>2, <2>3, <2>4 DEF Conserved
  <2> QED BY <2>1, <2>5 DEF IInv, Conserved, NumbersIn
<1>8. CASE UNCHANGED vars
  BY <1>8 DEF vars, IInv, Conserved, NumbersIn
<1> QED BY <1>1, <1>2, <1>3, <1>4, <1>5, <1>6, <1>7, <1>8 DEF Next

LEMMA ConservedIsIt == ASSUME IInv PROVE ScratchRegistersConserved
<1>1. \A file : NumbersIn(temps, file) = Numbers(file)
  BY DEF NumbersIn, Numbers
<1> QED BY <1>1 DEF IInv, Conserved, ScratchRegistersConserved, Files

\* Whatever the operands of whatever instructions, and however many registers
\* the pools hold: a scratch register is free or held by one entry of temps_,
\* and all are free between two instructions (operand_resolver.cpp, through
\* all of its helpers, and TempRegisterAllocator).
THEOREM RegistersConserved == Spec => []ScratchRegistersConserved
<1>1. Init => IInv
  BY InitConserves
<1>2. IInv /\ [Next]_vars => IInv'
  BY StepConserves
<1>3. IInv => ScratchRegistersConserved
  BY ConservedIsIt
<1> QED BY <1>1, <1>2, <1>3, PTL DEF Spec
-----------------------------------------------------------------------------
(* What the resolver emits can be encoded.                                 *)

Fit(i) == Encodable(i) /\ OperandsAgree(i)

FitCode(code) ==
  /\ \E S : code \in Seq(S)
  /\ \A k \in DOMAIN code : Fit(code[k])

IsFrame(f) ==
  /\ f.current_offset \in Nat
  /\ \A n \in DOMAIN f.offsets : f.offsets[n] \in Nat

\* Nothing a helper has done to instruction i so far is wrong.
Tidy(s, i) ==
  /\ Sound(s)
  /\ s.failed = FALSE => /\ FitCode(s.before) /\ FitCode(s.after)
                         /\ IsFrame(s.frame)
                         /\ s.instr = i

\* r is a register the allocator handed out.
IsScratch(r, file, size) ==
  /\ r = Register(file, r.number, size)
  /\ file = "gp" => r.number # 31

IsAddress(m, size) ==
  /\ m = Memory(m.base, m.offset, size)
  /\ m.base.kind = "Register" /\ m.base.file = "gp" /\ m.base.size = 8
  /\ m.offset \in Int

(* What the lowerers emit, as far as the resolver cares.                    *)

Floats(i, k) ==
  \/ NeedsFloatRegister(i, k)
  \/ i.operands[k].kind = "Immediate" /\ i.operands[k].is_float

TargetOf(i) ==
  Max({4} \cup {i.operands[j].size :
          j \in {l \in DOMAIN i.operands :
                   \/ i.op = "Compare" /\ ~i.is_float
                   \/ i.operands[l].kind # "Immediate"}})

\* The width of the register that operand k ends up in.
Width(i, k) ==
  IF i.operands[k].kind = "Immediate" /\ TargetOf(i) >= i.operands[k].size
  THEN TargetOf(i) ELSE i.operands[k].size

MovesStackPointer(i) == i.op \in {"Add", "Sub"} /\ i.operands[1] = SP

OperandEmitted(i, k) ==
  LET o == i.operands[k]
  IN  /\ o.kind \in {"Pseudo", "Data", "Indirect", "Memory", "Immediate", "Register"}
      /\ o.size \in {4, 8}
      /\ o.kind # "Register" /\ Floats(i, k) => o.size = 8
      /\ o.kind = "Immediate" => o.is_float \in BOOLEAN
      /\ o.kind = "Indirect" => /\ IsLoadStore(i) /\ k = Len(i.operands)
                                /\ o.pointer.kind \in {"Pseudo", "Data"}
                                /\ o.pointer.size = 8
      /\ o.kind = "Memory" => IsAddress(o, o.size) /\ o.base \in {X29, SP}
      /\ IsLoadStore(i) /\ k = Len(i.operands) => o.kind \in {"Indirect", "Memory"}
      /\ Floats(i, k) => \/ NeedsFloatRegister(i, k) \/ i.op = "Str"
                         \/ k = 1 /\ IsNotOfDouble(i)
      /\ o.kind = "Register" =>
           o.file = IF NeedsFloatRegister(i, k) THEN "simd" ELSE "gp"

\* The operations whose integer operands share one width.
Uniform(i) == i.op \in {"Mov", "Add", "Sub", "Neg", "Compare"} /\ ~i.is_float

\* sp is moved by n.
Moves(op, n) == Instr(op, <<SP, SP, Immediate(n, FALSE, 8)>>, FALSE, 0)

Emitted(i) ==
  /\ i = Instr(i.op, i.operands, i.is_float, 0)
  /\ \E S : i.operands \in Seq(S)
  /\ i.op \in {"Mov", "Add", "Sub", "Neg", "Compare", "Ldr", "Str", "IntToFloat",
               "FloatToInt", "FSub", "FNeg", "CSet", "Extend", "Truncate", "Branch"}
  /\ \A k \in DOMAIN i.operands : OperandEmitted(i, k)
  /\ i.is_float \in BOOLEAN /\ (i.is_float => i.op \in {"Mov", "Compare"})
  /\ Uniform(i) => \A k, l \in DOMAIN i.operands : Width(i, k) = Width(i, l)
  /\ i.op \in {"IntToFloat", "FloatToInt", "Ldr", "Str"} => Len(i.operands) = 2
  /\ i.op \in {"Ldr", "Str"} =>
       i.operands[2].size = IF Floats(i, 1) THEN 8 ELSE Width(i, 1)
  /\ i.op = "Truncate" => Width(i, 1) = 4 /\ 1 \in DOMAIN i.operands
  /\ MovesStackPointer(i) => \E n : i = Moves(i.op, n)
  /\ i.op = "Add" => MovesStackPointer(i)
  /\ IsNotOfDouble(i) => Len(i.operands) = 2

(* The operands between and after the two loops.                           *)

\* o may stand for operand k of i after the first loop.
Middle(i, k, o) ==
  LET src == i.operands[k]
  IN  CASE src.kind = "Pseudo"   -> IsAddress(o, src.size) /\ o.base = X29
        [] src.kind = "Data"     ->
             IF Floats(i, k) THEN IsScratch(o, "simd", 8)
                             ELSE IsScratch(o, "gp", src.size)
        [] src.kind = "Indirect" -> IsAddress(o, src.size) /\ o.offset = 0
        [] OTHER                 -> o = src

\* o may stand for operand k of i after the second one.
Final(i, k, o) ==
  LET src == i.operands[k]
  IN  IF IsLoadStore(i) /\ k = Len(i.operands)
      THEN IsAddress(o, src.size) /\ o.offset \in -256 .. 255
      ELSE IF MovesStackPointer(i) \/ src.kind = "Register"
      THEN o = src
      ELSE IF Floats(i, k) THEN IsScratch(o, "simd", 8)
                           ELSE IsScratch(o, "gp", Width(i, k))

LEMMA ScratchFields ==
  ASSUME NEW r, NEW file, NEW size, IsScratch(r, file, size)
  PROVE  /\ r.kind = "Register" /\ r.file = file /\ r.size = size
         /\ r # SP
BY DEF IsScratch, Register, SP

LEMMA AddressFields ==
  ASSUME NEW m, NEW size, IsAddress(m, size)
  PROVE  m.kind = "Memory" /\ m.size = size /\ DOMAIN m = {"kind", "base", "offset", "size"}
BY DEF IsAddress, Memory

LEMMA MovesFields ==
  ASSUME NEW i, NEW n, i = Moves(i.op, n)
  PROVE  /\ DOMAIN i.operands = {1, 2, 3} /\ Len(i.operands) = 3
         /\ i.operands[1] = SP /\ i.operands[2] = SP
         /\ i.operands[3] = Immediate(n, FALSE, 8) /\ ~i.is_float
         /\ \A k \in DOMAIN i.operands : i.operands[k] \in {SP, Immediate(n, FALSE, 8)}
<1> DEFINE imm == Immediate(n, FALSE, 8)
           ops == <<SP, SP, imm>>
<1>1. ops[1] = SP /\ ops[2] = SP /\ ops[3] = imm /\ DOMAIN ops = {1, 2, 3} /\ Len(ops) = 3
  OBVIOUS
<1>2. i.operands = ops /\ ~i.is_float
  <2>1. Moves(i.op, n).operands = ops /\ ~Moves(i.op, n).is_float
    BY DEF Moves, Instr
  <2> HIDE DEF ops
  <2> QED BY <2>1
<1> HIDE DEF ops, imm
<1>3. \A k \in DOMAIN i.operands : i.operands[k] \in {SP, imm}
  BY <1>1, <1>2
<1> QED BY <1>1, <1>2, <1>3 DEF imm

\* Once every operand is in its final form the instruction can be encoded,
\* unless it is one that has no code.
LEMMA FinalFits ==
  ASSUME NEW i, Emitted(i), NEW ops, \E S : ops \in Seq(S),
         Len(ops) = Len(i.operands),
         \A k \in DOMAIN ops : Final(i, k, ops[k])
  PROVE  Fit([i EXCEPT !.operands = ops]) <=> ~(IsNotOfDouble(i) \/ IsLargeAdjustment(i))
<1> DEFINE new == [i EXCEPT !.operands = ops]
<1>1. /\ new.op = i.op /\ new.operands = ops /\ new.is_float = i.is_float
  BY DEF Emitted, Instr
<1>2. /\ DOMAIN ops = DOMAIN i.operands /\ Len(ops) \in Nat
      /\ DOMAIN ops = 1 .. Len(ops)
  BY DEF Emitted
<1>3. \A k \in DOMAIN ops : Final(i, k, ops[k]) /\ OperandEmitted(i, k)
  BY <1>2 DEF Emitted
<1> HIDE DEF new
<1>4. CASE MovesStackPointer(i)
  <2>0. PICK n : i = Moves(i.op, n)
    BY <1>4 DEF Emitted
  <2>1. i.op \in {"Add", "Sub"} /\ ~i.is_float /\ i.operands[1] = SP
        /\ i.operands[3] = Immediate(n, FALSE, 8)
    BY <1>4, <2>0, MovesFields DEF MovesStackPointer
  <2>2. DOMAIN ops = {1, 2, 3} /\ Len(ops) = 3
    BY <1>2, <2>0, MovesFields
  <2>3. ops[1] = SP /\ ops[2] = SP /\ ops[3] = Immediate(n, FALSE, 8)
    <3>1. \A k \in {1, 2, 3} : ops[k] = i.operands[k]
      BY <1>3, <1>4, <2>1, <2>2 DEF Final, IsLoadStore
    <3> QED BY <3>1, <2>0, MovesFields
  <2>4. /\ SP.kind = "Register" /\ SP.file = "gp"
        /\ ops[3].kind = "Immediate" /\ ops[3].value = n /\ i.operands[3].value = n
    BY <2>1, <2>3 DEF SP, Register, Immediate
  <2>5. Encodable(new) <=> CanEncodeImm12(n)
    BY <1>1, <2>2, <2>3, <2>4, ZenonT(60) DEF Encodable
  <2>7. IsLargeAdjustment(i) <=> ~CanEncodeImm12(n)
    BY <2>1, <2>4 DEF IsLargeAdjustment
  <2>8. ~IsNotOfDouble(i)
    BY <2>1 DEF IsNotOfDouble
  <2>6. OperandsAgree(new)
    <3> DEFINE registers == {new.operands[k] : k \in
                               {j \in DOMAIN new.operands : new.operands[j].kind = "Register"}}
    <3>1. \A r \in registers : r = SP
      BY <1>1, <2>2, <2>3, <2>4
    <3>2. {r.file : r \in registers} \subseteq {"gp"}
      BY <3>1, <2>4
    <3>3. \A r, q \in registers : r.size = q.size
      BY <3>1
    <3> QED BY <1>1, <2>1, <3>2, <3>3 DEF OperandsAgree
  <2> QED BY <2>5, <2>6, <2>7, <2>8 DEF Fit, new
<1>5. CASE ~MovesStackPointer(i)
  <2>0. ~IsLargeAdjustment(i)
    BY <1>5 DEF IsLargeAdjustment, MovesStackPointer
  <2>1. ASSUME NEW k \in DOMAIN ops, ~(IsLoadStore(i) /\ k = Len(ops))
        PROVE  /\ ops[k].kind = "Register"
               /\ ops[k].file = IF Floats(i, k) THEN "simd" ELSE "gp"
               /\ ~Floats(i, k) => ops[k].size = Width(i, k)
               /\ Floats(i, k) /\ i.operands[k].kind # "Register" => ops[k].size = 8
    <3>1. CASE i.operands[k].kind = "Register"
      <4>1. ops[k] = i.operands[k]
        BY <3>1, <1>3, <1>5, <2>1 DEF Final
      <4> QED BY <3>1, <4>1, <1>3, <2>1 DEF OperandEmitted, Floats, Width
    <3>2. CASE i.operands[k].kind # "Register"
      <4>1. IF Floats(i, k) THEN IsScratch(ops[k], "simd", 8)
                            ELSE IsScratch(ops[k], "gp", Width(i, k))
        BY <3>2, <1>3, <1>5, <2>1 DEF Final
      <4> QED BY <4>1, <3>2, ScratchFields
    <3> QED BY <3>1, <3>2
  <2>2. ASSUME IsLoadStore(i)
        PROVE  /\ Len(ops) = 2 /\ DOMAIN ops = {1, 2}
               /\ ops[2].kind = "Memory" /\ ops[2].size = i.operands[2].size
               /\ ops[2].base.kind = "Register" /\ ops[2].base.file = "gp"
               /\ ops[2].base.size = 8 /\ ops[2].offset \in -256 .. 255
    <3>1. Len(ops) = 2
      BY <2>2 DEF Emitted, IsLoadStore
    <3>3. DOMAIN ops = {1, 2}
      BY <3>1, <1>2
    <3>2. IsAddress(ops[2], i.operands[2].size) /\ ops[2].offset \in -256 .. 255
      BY <3>1, <3>3, <2>2, <1>3 DEF Final
    <3> QED BY <3>1, <3>3, <3>2, AddressFields DEF IsAddress
  <2>3. Encodable(new)
    <3>1. ASSUME NEW k \in DOMAIN ops
          PROVE  \/ ops[k].kind = "Register"
                 \/ /\ ops[k].kind = "Memory" /\ IsLoadStore(i) /\ k = Len(ops)
                    /\ ops[k].base.kind = "Register" /\ ops[k].base.file = "gp"
                    /\ ops[k].base.size = 8
                    /\ ops[k].offset \in -256 .. 255
      BY <2>1, <2>2
    <3>2. IsLoadStore(new) = IsLoadStore(i)
      BY <1>1 DEF IsLoadStore
    <3> QED BY <1>1, <3>1, <3>2 DEF Encodable
  <2>4. ASSUME ~IsNotOfDouble(i) PROVE OperandsAgree(new)
    <3> DEFINE registers == {new.operands[k] : k \in
                               {j \in DOMAIN new.operands : new.operands[j].kind = "Register"}}
               files == {r.file : r \in registers}
    <3>1. ASSUME NEW file, ~IsLoadStore(i),
                 \A k \in DOMAIN ops : file = IF Floats(i, k) THEN "simd" ELSE "gp"
          PROVE  files \subseteq {file}
      BY <3>1, <2>1, <1>1
    <3>2. CASE i.op \in {"FSub", "FNeg"} \/ i.is_float
      <4>1. \A k : NeedsFloatRegister(i, k)
        BY <3>2 DEF Emitted, NeedsFloatRegister
      <4>2. ~IsLoadStore(i)
        BY <3>2 DEF IsLoadStore, Emitted
      <4>3. files \subseteq {"simd"}
        BY <4>1, <4>2, <3>1 DEF Floats
      <4> QED BY <3>2, <4>3, <1>1 DEF OperandsAgree, Emitted
    <3>3. CASE Uniform(i)
      <4>1. \A k \in DOMAIN ops : ~Floats(i, k)
        BY <3>3, <1>3, <2>4 DEF Uniform, NeedsFloatRegister, OperandEmitted
      <4>2. ~IsLoadStore(i)
        BY <3>3 DEF IsLoadStore, Uniform
      <4>3. files \subseteq {"gp"}
        BY <4>1, <4>2, <3>1
      <4>4. \A k \in DOMAIN ops : ops[k].size = Width(i, k)
        BY <2>1, <4>1, <4>2
      <4>5. \A r, q \in registers : r.size = q.size
        <5>1. \A k, l \in DOMAIN ops : Width(i, k) = Width(i, l)
          BY <3>3, <1>2 DEF Emitted
        <5>2. \A k, l \in DOMAIN ops : ops[k].size = ops[l].size
          BY <4>4, <5>1
        <5>3. registers \subseteq {ops[k] : k \in DOMAIN ops}
          BY <1>1
        <5> HIDE DEF registers
        <5> QED BY <5>2, <5>3
      <4> QED BY <4>3, <4>5, <3>3, <1>1 DEF OperandsAgree, Uniform
    <3>4. CASE i.op = "IntToFloat" \/ i.op = "FloatToInt"
      <4>1. DOMAIN ops = {1, 2} /\ ~IsLoadStore(i) /\ ~i.is_float
        <5>1. Len(i.operands) = 2 /\ ~i.is_float
          BY <3>4 DEF Emitted
        <5>2. ~IsLoadStore(i)
          BY <3>4 DEF IsLoadStore
        <5> QED BY <5>1, <5>2, <1>2
      <4>2. \A k \in {1, 2} : Floats(i, k) <=> NeedsFloatRegister(i, k)
        BY <3>4, <4>1, <1>3, <2>4 DEF OperandEmitted, Floats
      <4>3. IF i.op = "IntToFloat" THEN NeedsFloatRegister(i, 1) /\ ~NeedsFloatRegister(i, 2)
                                   ELSE ~NeedsFloatRegister(i, 1) /\ NeedsFloatRegister(i, 2)
        BY <3>4 DEF NeedsFloatRegister
      <4>4. IF i.op = "IntToFloat" THEN ops[1].file = "simd" /\ ops[2].file = "gp"
                                   ELSE ops[1].file = "gp" /\ ops[2].file = "simd"
        BY <4>1, <4>2, <4>3, <2>1
      <4> QED BY <3>4, <4>1, <4>4, <1>1 DEF OperandsAgree
    <3>5. CASE IsLoadStore(i)
      <4>1. ~i.is_float /\ i.op \in {"Ldr", "Str"}
        BY <3>5 DEF IsLoadStore, Emitted
      <4>2. 1 \in DOMAIN ops /\ ~(IsLoadStore(i) /\ 1 = Len(ops))
        BY <3>5, <2>2
      <4>3. Floats(i, 1) => i.operands[1].kind # "Register"
        BY <4>1 DEF Floats, NeedsFloatRegister
      <4>4. ops[1].size = IF Floats(i, 1) THEN 8 ELSE Width(i, 1)
        BY <4>2, <4>3, <2>1
      <4>5. ops[1].size = ops[2].size
        BY <4>1, <4>4, <2>2, <3>5 DEF Emitted
      <4> QED BY <4>1, <4>5, <1>1 DEF OperandsAgree
    <3>6. CASE i.op = "Truncate"
      <4>1. 1 \in DOMAIN ops /\ Width(i, 1) = 4 /\ ~i.is_float /\ ~IsLoadStore(i)
        BY <3>6, <1>2 DEF Emitted, IsLoadStore
      <4>2. ~Floats(i, 1)
        BY <3>6, <4>1, <1>3, <2>4 DEF OperandEmitted, NeedsFloatRegister
      <4>3. ops[1].size = 4
        BY <4>1, <4>2, <2>1
      <4> QED BY <3>6, <4>1, <4>3, <1>1 DEF OperandsAgree
    <3>7. CASE i.op \in {"CSet", "Extend", "Branch"}
      BY <3>7, <1>1 DEF OperandsAgree, Emitted
    <3> QED BY <3>2, <3>3, <3>4, <3>5, <3>6, <3>7 DEF Emitted, Uniform, IsLoadStore
  <2>5. ASSUME IsNotOfDouble(i) PROVE ~OperandsAgree(new)
    <3>1. i.op = "Compare" /\ ~i.is_float /\ Floats(i, 1) /\ ~IsLoadStore(i)
      BY <2>5 DEF IsNotOfDouble, Floats, IsLoadStore
    <3>2. 1 \in DOMAIN ops
      <4>1. Len(ops) = 2
        BY <2>5, <1>2 DEF Emitted
      <4>2. DOMAIN ops = 1 .. Len(ops)
        BY <1>2
      <4> QED BY <4>1, <4>2
    <3>3. ops[1].kind = "Register" /\ ops[1].file = "simd"
      BY <3>1, <3>2, <2>1
    <3> DEFINE registers == {new.operands[k] : k \in
                               {j \in DOMAIN new.operands : new.operands[j].kind = "Register"}}
    <3>4. ops[1] \in registers
      BY <3>2, <3>3, <1>1
    <3>5. ~({r.file : r \in registers} \subseteq {"gp"})
      <4> HIDE DEF registers
      <4>1. "simd" \in {r.file : r \in registers}
        BY <3>3, <3>4
      <4> QED BY <4>1
    <3> QED BY <3>1, <3>5, <1>1 DEF OperandsAgree
  <2> QED BY <2>0, <2>3, <2>4, <2>5 DEF Fit, new
<1> QED BY <1>4, <1>5

-----------------------------------------------------------------------------
(* Everything the lowerers emit is as Emitted says.                        *)

LEMMA GreatestSize ==
  ASSUME NEW S, S \subseteq {4, 8}, 4 \in S
  PROVE  Max(S) = IF 8 \in S THEN 8 ELSE 4
<1>1. CASE 8 \in S
  <2>1. 8 \in S /\ \A y \in S : 8 >= y
    BY <1>1
  <2>2. \A x \in S : (\A y \in S : x >= y) => x = 8
    BY <1>1
  <2> QED BY <1>1, <2>1, <2>2 DEF Max
<1>2. CASE 8 \notin S
  <2>1. S = {4}
    BY <1>2
  <2> QED BY <1>2, <2>1 DEF Max
<1> QED BY <1>1, <1>2

\* The operands that TargetOf looks at.
Sized(i) == {l \in DOMAIN i.operands : \/ i.op = "Compare" /\ ~i.is_float
                                       \/ i.operands[l].kind # "Immediate"}

\* All operands are as wide as each other, but for immediates.
LEMMA OneWidth ==
  ASSUME NEW i, NEW size \in {4, 8},
         \A l \in DOMAIN i.operands : i.operands[l].size \in {4, size},
         \A l \in DOMAIN i.operands :
           i.operands[l].kind # "Immediate" => i.operands[l].size = size,
         \E l \in Sized(i) : i.operands[l].size = size
  PROVE  \A k \in DOMAIN i.operands : Width(i, k) = size
<1> DEFINE S == {4} \cup {i.operands[l].size : l \in Sized(i)}
<1>1. S \subseteq {4, 8} /\ 4 \in S
  BY DEF Sized
<1>2. size = 8 <=> 8 \in S
  BY DEF Sized
<1>3. TargetOf(i) = size
  <2>1. TargetOf(i) = Max(S)
    BY DEF TargetOf, Sized
  <2> HIDE DEF S
  <2> QED BY <1>1, <1>2, <2>1, GreatestSize
<1> QED BY <1>3 DEF Width

LEMMA PlaceOperands ==
  ASSUME NEW size \in {4, 8}, NEW o \in Places(size)
  PROVE  o.kind \in {"Pseudo", "Data"} /\ o.size = size
BY DEF Places, Pseudo, Data

LEMMA ValueOperands ==
  ASSUME NEW size \in {4, 8}, NEW o \in Values(size)
  PROVE  /\ o.kind \in {"Pseudo", "Data", "Immediate"} /\ o.size = size
         /\ o.kind = "Immediate" => o.is_float = FALSE
<1>1. CASE o \in Places(size)
  BY <1>1, PlaceOperands
<1>2. CASE o = Immediate(1, FALSE, size)
  BY <1>2 DEF Immediate
<1> QED BY <1>1, <1>2 DEF Values

LEMMA FloatOperands ==
  ASSUME NEW o \in FloatValues
  PROVE  /\ o.kind \in {"Pseudo", "Data", "Immediate"} /\ o.size = 8
         /\ o.kind = "Immediate" => o.is_float = TRUE
<1>1. CASE o \in Places(8)
  BY <1>1, PlaceOperands
<1>2. CASE o \in Doubles
  BY <1>2 DEF Immediate, Doubles
<1> QED BY <1>1, <1>2 DEF FloatValues

LEMMA FixedOperands ==
  ASSUME NEW size \in {4, 8}
  PROVE  /\ W0(size).kind = "Register" /\ W0(size).size = size /\ W0(size).file = "gp"
         /\ W1(size).kind = "Register" /\ W1(size).size = size /\ W1(size).file = "gp"
         /\ W0(size) # SP /\ W1(size) # SP
         /\ D0.kind = "Register" /\ D0.size = 8 /\ D0.file = "simd"
         /\ \A m \in StackParameters(size) \cup StackArguments(size) :
              /\ m.kind = "Memory" /\ m.size = size /\ IsAddress(m, size)
              /\ m.base \in {X29, SP}
         /\ \A p \in Places(8) : LET o == Indirect(p, size)
                                 IN  /\ o.kind = "Indirect" /\ o.size = size
                                     /\ o.pointer.kind \in {"Pseudo", "Data"}
                                     /\ o.pointer.size = 8
<1>1. \A p \in Places(8) : p.kind \in {"Pseudo", "Data"} /\ p.size = 8
  BY PlaceOperands
<1>2. \A p : Indirect(p, size).kind = "Indirect" /\ Indirect(p, size).size = size
             /\ Indirect(p, size).pointer = p
  BY DEF Indirect
<1>3. \A m \in StackParameters(size) \cup StackArguments(size) :
              /\ m.kind = "Memory" /\ m.size = size /\ IsAddress(m, size)
              /\ m.base \in {X29, SP}
  <2>1. \A n \in StackSlots : 8 * n \in Int /\ 16 + 8 * n \in Int
    BY StackSlotsAssumption
  <2>2. ASSUME NEW base \in {X29, SP}, NEW offset \in Int, NEW m, m = Memory(base, offset, size)
        PROVE  /\ m.kind = "Memory" /\ m.size = size /\ IsAddress(m, size)
               /\ m.base \in {X29, SP}
    BY <2>2 DEF IsAddress, Memory, X29, SP, Register
  <2> QED BY <2>1, <2>2 DEF StackParameters, StackArguments
<1> QED BY <1>1, <1>2, <1>3 DEF W0, W1, D0, SP, Register

IntOperand(o, size) ==
  /\ o.kind \in {"Pseudo", "Data", "Immediate", "Register", "Memory"}
  /\ o.size \in {4, size}
  /\ o.kind # "Immediate" => o.size = size
  /\ o.kind = "Immediate" => o.is_float = FALSE
  /\ o.kind = "Register" => o.file = "gp" /\ o # SP
  /\ o.kind = "Memory" => IsAddress(o, o.size) /\ o.base \in {X29, SP}

FloatOperand(o) ==
  /\ o.kind \in {"Pseudo", "Data", "Immediate", "Register", "Memory"}
  /\ o.size = 8
  /\ o.kind = "Immediate" => o.is_float = TRUE
  /\ o.kind = "Register" => o.file = "simd" /\ o # SP
  /\ o.kind = "Memory" => IsAddress(o, o.size) /\ o.base \in {X29, SP}

LEMMA IntOperands ==
  ASSUME NEW size \in {4, 8}
  PROVE  /\ \A o \in Values(size) \cup {W0(size), W1(size)} \cup StackParameters(size) :
              IntOperand(o, size)
         /\ \A o \in Places(size) \cup {W0(size), W1(size)} :
              IntOperand(o, size) /\ o.kind # "Immediate"
         /\ IntOperand(Zero, size)
<1>1. ASSUME NEW o \in Values(size) PROVE IntOperand(o, size)
  BY <1>1, ValueOperands DEF IntOperand
<1>2. ASSUME NEW o \in Places(size) PROVE IntOperand(o, size) /\ o.kind # "Immediate"
  BY <1>2, PlaceOperands DEF IntOperand
<1>3. ASSUME NEW o \in {W0(size), W1(size)} PROVE IntOperand(o, size) /\ o.kind # "Immediate"
  BY <1>3, FixedOperands DEF IntOperand
<1>4. ASSUME NEW o \in StackParameters(size) PROVE IntOperand(o, size)
  BY FixedOperands DEF IntOperand
<1>5. IntOperand(Zero, size)
  BY DEF IntOperand, Immediate, Zero
<1> QED BY <1>1, <1>2, <1>3, <1>4, <1>5

LEMMA FloatOperandsAre ==
  \A o \in FloatValues \cup Places(8) \cup {D0} \cup StackParameters(8) : FloatOperand(o)
<1>1. ASSUME NEW o \in FloatValues PROVE FloatOperand(o)
  BY <1>1, FloatOperands DEF FloatOperand
<1>2. ASSUME NEW o \in Places(8) PROVE FloatOperand(o)
  BY <1>2, PlaceOperands DEF FloatOperand
<1>3. ASSUME NEW o \in StackParameters(8) PROVE FloatOperand(o)
  BY FixedOperands DEF FloatOperand
<1>4. FloatOperand(D0)
  BY DEF FloatOperand, D0, SP, Register
<1> QED BY <1>1, <1>2, <1>3, <1>4

LEMMA InstrFields ==
  ASSUME NEW op, NEW ops, NEW f
  PROVE  LET i == Instr(op, ops, f, 0)
         IN  i.op = op /\ i.operands = ops /\ i.is_float = f
             /\ i = Instr(i.op, i.operands, i.is_float, 0)
BY DEF Instr

\* The first operand o shows how wide the others are.
ShowsWidth(op, o, size) ==
  \/ o.kind # "Immediate"
  \/ op = "Compare" /\ o.size = size

\* The shapes with integer operands of one width.
LEMMA UniformEmitted ==
  ASSUME NEW S, NEW ops \in Seq(S), NEW op \in {"Mov", "Sub", "Neg", "Compare"},
         NEW size \in {4, 8}, 1 \in DOMAIN ops,
         \A k \in DOMAIN ops : IntOperand(ops[k], size),
         ShowsWidth(op, ops[1], size)
  PROVE  Emitted(Instr(op, ops, FALSE, 0))
<1> DEFINE i == Instr(op, ops, FALSE, 0)
<1>1. /\ i.op = op /\ i.operands = ops /\ i.is_float = FALSE
      /\ i = Instr(i.op, i.operands, i.is_float, 0)
  BY DEF Instr
<1> HIDE DEF i
<1>2. \A k : ~NeedsFloatRegister(i, k)
  BY <1>1 DEF NeedsFloatRegister
<1>3. ~IsLoadStore(i) /\ ~MovesStackPointer(i)
  BY <1>1 DEF IsLoadStore, MovesStackPointer, IntOperand, SP, Register
<1>4. ASSUME NEW k \in DOMAIN ops PROVE OperandEmitted(i, k) /\ ~Floats(i, k)
  <2> DEFINE o == ops[k]
  <2>1. IntOperand(o, size) /\ i.operands[k] = o
    BY <1>1
  <2> HIDE DEF o
  <2>2. ~Floats(i, k)
    BY <2>1, <1>2 DEF Floats, IntOperand
  <2>3. /\ o.kind # "Indirect" /\ o.size \in {4, 8}
        /\ o.kind = "Immediate" => o.is_float \in BOOLEAN
    BY <2>1 DEF IntOperand
  <2> QED BY <2>1, <2>2, <2>3, <1>2, <1>3 DEF OperandEmitted, IntOperand
<1>5. \A k \in DOMAIN ops : Width(i, k) = size
  <2>1. 1 \in Sized(i) /\ i.operands[1].size = size
    BY <1>1 DEF Sized, IntOperand, ShowsWidth
  <2> QED BY <1>1, <2>1, OneWidth DEF IntOperand
<1>7. ~IsNotOfDouble(i)
  BY <1>1 DEF IsNotOfDouble, IntOperand
<1>6. Emitted(i)
  BY <1>1, <1>3, <1>4, <1>5, <1>7 DEF Emitted
<1> QED BY <1>6 DEF i

FloatOperation(op, f) ==
  \/ op \in {"Mov", "Compare"} /\ f
  \/ op \in {"FSub", "FNeg"} /\ ~f

\* The shapes with floating operands only.
LEMMA FloatEmitted ==
  ASSUME NEW S, NEW ops \in Seq(S), NEW op, NEW f \in BOOLEAN,
         FloatOperation(op, f),
         \A k \in DOMAIN ops : FloatOperand(ops[k])
  PROVE  Emitted(Instr(op, ops, f, 0))
<1> DEFINE i == Instr(op, ops, f, 0)
<1>1. /\ i.op = op /\ i.operands = ops /\ i.is_float = f
      /\ i = Instr(i.op, i.operands, i.is_float, 0)
  BY DEF Instr
<1> HIDE DEF i
<1>2. \A k : NeedsFloatRegister(i, k)
  BY <1>1 DEF NeedsFloatRegister, FloatOperation
<1>3. ~IsLoadStore(i) /\ ~MovesStackPointer(i) /\ ~Uniform(i)
  BY <1>1 DEF FloatOperation, IsLoadStore, MovesStackPointer, Uniform
<1>4. ASSUME NEW k \in DOMAIN ops PROVE OperandEmitted(i, k)
  <2> DEFINE o == ops[k]
  <2>1. FloatOperand(o) /\ i.operands[k] = o
    BY <1>1
  <2> HIDE DEF o
  <2>2. /\ o.kind # "Indirect" /\ o.size \in {4, 8}
        /\ o.kind = "Immediate" => o.is_float \in BOOLEAN
    BY <2>1 DEF FloatOperand
  <2> QED BY <2>1, <2>2, <1>2, <1>3 DEF OperandEmitted, FloatOperand, Floats
<1>6. ~IsNotOfDouble(i)
  BY <1>1 DEF IsNotOfDouble, FloatOperation
<1>5. Emitted(i)
  BY <1>1, <1>3, <1>4, <1>6 DEF Emitted, FloatOperation
<1> QED BY <1>5 DEF i

\* a is loaded into, or stored, with `size` bytes.
Accessed(op, a, size) ==
  /\ a.kind \in {"Pseudo", "Data", "Immediate"}
  /\ \/ IntOperand(a, size) /\ a.size = size
     \/ FloatOperand(a) /\ size = 8 /\ op = "Str"

\* Loads and stores through a pointer, and stores of stack arguments.
LEMMA AccessEmitted ==
  ASSUME NEW op \in {"Ldr", "Str"}, NEW size \in {4, 8}, NEW a, NEW m,
         Accessed(op, a, size),
         m \in Pointed(size) \cup StackArguments(size)
  PROVE  Emitted(Instr(op, <<a, m>>, FALSE, 0))
<1> DEFINE ops == <<a, m>>
           i == Instr(op, ops, FALSE, 0)
<1>1. /\ i.op = op /\ i.operands = ops /\ i.is_float = FALSE
      /\ i = Instr(i.op, i.operands, i.is_float, 0)
  BY DEF Instr
<1>2. /\ ops \in Seq({a, m}) /\ Len(ops) = 2 /\ DOMAIN ops = {1, 2}
      /\ ops[1] = a /\ ops[2] = m
  OBVIOUS
<1> HIDE DEF i, ops
<1>3. \A k : ~NeedsFloatRegister(i, k)
  BY <1>1 DEF NeedsFloatRegister
<1>4. IsLoadStore(i) /\ ~MovesStackPointer(i) /\ ~Uniform(i)
  BY <1>1 DEF IsLoadStore, MovesStackPointer, Uniform
<1>5. /\ m.kind \in {"Indirect", "Memory"} /\ m.size = size
      /\ m.kind = "Memory" => IsAddress(m, size)
      /\ m.kind = "Indirect" => m.pointer.kind \in {"Pseudo", "Data"} /\ m.pointer.size = 8
  BY FixedOperands DEF Pointed
<1>6. OperandEmitted(i, 2)
  <2>1. i.operands[2] = m /\ ~NeedsFloatRegister(i, 2) /\ Len(i.operands) = 2
    BY <1>1, <1>2, <1>3
  <2>2. ~Floats(i, 2)
    BY <1>5, <2>1 DEF Floats
  <2>3. m.kind = "Memory" => m.base \in {X29, SP}
    <3>1. CASE m \in StackArguments(size)
      BY <3>1, FixedOperands
    <3>2. CASE m \in Pointed(size)
      BY <3>2 DEF Pointed, Indirect
    <3> QED BY <3>1, <3>2
  <2> HIDE DEF SP
  <2> QED BY <1>4, <1>5, <2>1, <2>2, <2>3 DEF OperandEmitted
<1>7. a.size = size /\ (a.kind = "Immediate" => a.is_float \in BOOLEAN /\ (a.is_float => size = 8 /\ op = "Str"))
  BY DEF Accessed, IntOperand, FloatOperand
<1>8. OperandEmitted(i, 1)
  BY <1>1, <1>2, <1>3, <1>4, <1>7 DEF Accessed, OperandEmitted, Floats
<1>9. \A k \in DOMAIN ops : Width(i, k) = size
  <2>1. 2 \in Sized(i) /\ i.operands[2].size = size
    BY <1>1, <1>2, <1>5 DEF Sized
  <2>2. \A l \in DOMAIN i.operands : i.operands[l].size = size
    BY <1>1, <1>2, <1>5, <1>7
  <2> QED BY <1>1, <2>1, <2>2, OneWidth
<1>10. ops[2].size = IF Floats(i, 1) THEN 8 ELSE Width(i, 1)
  BY <1>1, <1>2, <1>3, <1>5, <1>7, <1>9 DEF Floats
<1>11. Emitted(i)
  BY <1>1, <1>2, <1>4, <1>6, <1>8, <1>10 DEF Emitted, IsNotOfDouble
<1> QED BY <1>11 DEF i, ops

LEMMA ConversionEmitted ==
  ASSUME NEW op, NEW size \in {4, 8}, NEW a, NEW b,
         \/ op = "IntToFloat" /\ a \in Places(8) /\ b \in Values(size)
         \/ op = "FloatToInt" /\ a \in Places(size) /\ b \in FloatValues
         \/ op = "Extend" /\ a \in Places(8) /\ b \in Values(4)
         \/ op = "Truncate" /\ a \in Places(4) /\ b \in Values(8)
  PROVE  Emitted(Instr(op, <<a, b>>, FALSE, 0))
<1> DEFINE ops == <<a, b>>
           i == Instr(op, ops, FALSE, 0)
<1>1. /\ i.op = op /\ i.operands = ops /\ i.is_float = FALSE
      /\ i = Instr(i.op, i.operands, i.is_float, 0)
  BY DEF Instr
<1>2. /\ ops \in Seq({a, b}) /\ Len(ops) = 2 /\ DOMAIN ops = {1, 2}
      /\ ops[1] = a /\ ops[2] = b
  OBVIOUS
<1> HIDE DEF i, ops
<1>3. \A k : NeedsFloatRegister(i, k) <=> \/ op = "IntToFloat" /\ k = 1
                                          \/ op = "FloatToInt" /\ k = 2
  BY <1>1 DEF NeedsFloatRegister
<1>4. ~IsLoadStore(i) /\ ~MovesStackPointer(i) /\ ~Uniform(i)
  BY <1>1 DEF IsLoadStore, MovesStackPointer, Uniform
<1>5. a.kind \in {"Pseudo", "Data"} /\ a.size \in {4, 8} /\ (op = "IntToFloat" => a.size = 8)
      /\ (op = "Truncate" => a.size = 4)
  BY PlaceOperands
<1>6. /\ b.kind \in {"Pseudo", "Data", "Immediate"} /\ b.size \in {4, 8}
      /\ op = "FloatToInt" => b.size = 8
      /\ b.kind = "Immediate" => b.is_float = (op = "FloatToInt")
  <2>1. CASE op = "FloatToInt"
    BY <2>1, FloatOperands
  <2>2. CASE op # "FloatToInt"
    BY <2>2, ValueOperands
  <2> QED BY <2>1, <2>2
<1>7. OperandEmitted(i, 1)
  BY <1>1, <1>2, <1>3, <1>4, <1>5 DEF OperandEmitted, Floats
<1>8. OperandEmitted(i, 2)
  BY <1>1, <1>2, <1>3, <1>4, <1>6 DEF OperandEmitted, Floats
<1>9. Width(i, 1) = a.size
  BY <1>1, <1>2, <1>5 DEF Width
<1>10. Emitted(i)
  BY <1>1, <1>2, <1>4, <1>5, <1>7, <1>8, <1>9 DEF Emitted, IsLoadStore, IsNotOfDouble
<1> QED BY <1>10 DEF i, ops

\* An integer comparison of a double with zero is 8 bytes wide.
LEMMA NotOfDoubleEmitted ==
  ASSUME NEW d \in Doubles
  PROVE  Emitted(Instr("Compare", <<d, Zero>>, FALSE, 0))
<1> DEFINE ops == <<d, Zero>>
           i == Instr("Compare", ops, FALSE, 0)
<1>1. /\ i.op = "Compare" /\ i.operands = ops /\ i.is_float = FALSE
      /\ i = Instr(i.op, i.operands, i.is_float, 0)
  BY DEF Instr
<1>2. /\ ops \in Seq({d, Zero}) /\ Len(ops) = 2 /\ DOMAIN ops = {1, 2}
      /\ ops[1] = d /\ ops[2] = Zero
  OBVIOUS
<1> HIDE DEF i, ops
<1>3. /\ d.kind = "Immediate" /\ d.size = 8 /\ d.is_float = TRUE
      /\ Zero.kind = "Immediate" /\ Zero.size = 4 /\ Zero.is_float = FALSE
  BY DEF Doubles, Zero, Immediate
<1>4. ~IsLoadStore(i) /\ ~MovesStackPointer(i)
  BY <1>1 DEF IsLoadStore, MovesStackPointer
<1>5. IsNotOfDouble(i)
  BY <1>1, <1>2, <1>3 DEF IsNotOfDouble
<1>6. ASSUME NEW k \in {1, 2} PROVE OperandEmitted(i, k)
  <2>1. ~NeedsFloatRegister(i, k)
    BY <1>1 DEF NeedsFloatRegister
  <2>2. CASE k = 1
    BY <1>1, <1>2, <1>3, <1>4, <1>5, <2>1, <2>2 DEF OperandEmitted, Floats
  <2>3. CASE k = 2
    BY <1>1, <1>2, <1>3, <1>4, <2>1, <2>3 DEF OperandEmitted, Floats
  <2> QED BY <2>2, <2>3
<1>7. \A k \in DOMAIN i.operands : Width(i, k) = 8
  <2>1. 1 \in Sized(i)
    BY <1>1, <1>2 DEF Sized
  <2> QED BY <1>1, <1>2, <1>3, <2>1, OneWidth
<1>8. Emitted(i)
  BY <1>1, <1>2, <1>4, <1>6, <1>7 DEF Emitted, IsLoadStore
<1> QED BY <1>8 DEF i, ops

LEMMA AdjustmentMoves ==
  ASSUME NEW i \in Adjustments
  PROVE  \E op \in {"Add", "Sub"}, n \in StackSlots : i = Moves(op, StackArgsSize(n))
<1> DEFINE Made(op, n) == Instr(op, <<SP, SP, Immediate(StackArgsSize(n), FALSE, 8)>>, FALSE, 0)
<1>1. Adjustments = {Made(op, n) : op \in {"Add", "Sub"}, n \in StackSlots}
  BY DEF Adjustments
<1> HIDE DEF Made
<1>2. \E op \in {"Add", "Sub"} : \E n \in StackSlots : i = Made(op, n)
  BY <1>1
<1> QED BY <1>2 DEF Made, Moves

LEMMA OthersEmitted ==
  /\ \A p \in Places(4) : Emitted(Instr("CSet", <<p>>, FALSE, 0))
  /\ \A i \in Adjustments : Emitted(i)
  /\ Emitted(NoInstr)
<1>1. ASSUME NEW p \in Places(4) PROVE Emitted(Instr("CSet", <<p>>, FALSE, 0))
  <2> DEFINE ops == <<p>>
             i == Instr("CSet", ops, FALSE, 0)
  <2>1. /\ i.op = "CSet" /\ i.operands = ops /\ i.is_float = FALSE
        /\ i = Instr(i.op, i.operands, i.is_float, 0)
    BY DEF Instr
  <2>2. ops \in Seq({p}) /\ Len(ops) = 1 /\ DOMAIN ops = {1} /\ ops[1] = p
    OBVIOUS
  <2> HIDE DEF i, ops
  <2>3. ~IsLoadStore(i) /\ ~MovesStackPointer(i) /\ ~Uniform(i) /\ ~NeedsFloatRegister(i, 1)
    BY <2>1 DEF IsLoadStore, MovesStackPointer, Uniform, NeedsFloatRegister
  <2>4. OperandEmitted(i, 1)
    BY <2>1, <2>2, <2>3, PlaceOperands DEF OperandEmitted, Floats
  <2>5. Emitted(i)
    BY <2>1, <2>2, <2>3, <2>4 DEF Emitted, IsNotOfDouble
  <2> QED BY <2>5 DEF i, ops
<1>2. Emitted(NoInstr)
  <2> DEFINE i == NoInstr
  <2>1. /\ i.op = "Branch" /\ i.operands = <<>> /\ i.is_float = FALSE
        /\ i = Instr(i.op, i.operands, i.is_float, 0)
    BY DEF Instr, NoInstr
  <2> HIDE DEF i
  <2>2. i.operands \in Seq({}) /\ DOMAIN i.operands = {}
    BY <2>1
  <2>3. Emitted(i)
    BY <2>1, <2>2 DEF Emitted, Uniform, MovesStackPointer, IsNotOfDouble
  <2> QED BY <2>3 DEF i
<1>3. ASSUME NEW i \in Adjustments PROVE Emitted(i)
  <2>1. PICK op \in {"Add", "Sub"}, m \in StackSlots : i = Moves(op, StackArgsSize(m))
    BY AdjustmentMoves
  <2> DEFINE n == StackArgsSize(m)
             imm == Immediate(n, FALSE, 8)
             ops == <<SP, SP, imm>>
  <2>2. /\ ops \in Seq({SP, imm}) /\ Len(ops) = 3 /\ DOMAIN ops = {1, 2, 3}
        /\ ops[1] = SP /\ ops[2] = SP /\ ops[3] = imm
    OBVIOUS
  <2>3. /\ imm.kind = "Immediate" /\ imm.size = 8 /\ imm.is_float = FALSE
        /\ SP.kind = "Register" /\ SP.size = 8 /\ SP.file = "gp"
    BY DEF Immediate, SP, Register
  <2>4. /\ i.op = op /\ i.operands = ops /\ i.is_float = FALSE
        /\ i = Instr(i.op, i.operands, i.is_float, 0)
    BY <2>1 DEF Instr, Moves
  <2> HIDE DEF n, ops, imm
  <2>5. ~IsLoadStore(i) /\ (\A k : ~NeedsFloatRegister(i, k)) /\ ~IsNotOfDouble(i)
    BY <2>4 DEF IsLoadStore, NeedsFloatRegister, IsNotOfDouble
  <2>6. ASSUME NEW k \in {1, 2, 3} PROVE OperandEmitted(i, k)
    BY <2>2, <2>3, <2>4, <2>5 DEF OperandEmitted, Floats
  <2>7. \A k \in DOMAIN ops : Width(i, k) = 8
    <3>1. 1 \in Sized(i)
      BY <2>2, <2>3, <2>4 DEF Sized
    <3>2. \A k \in DOMAIN ops : ops[k].size = 8
      BY <2>2, <2>3
    <3> QED BY <2>2, <2>4, <3>1, <3>2, OneWidth
  <2>8. MovesStackPointer(i) /\ i = Moves(i.op, n)
    BY <2>1, <2>2, <2>4 DEF MovesStackPointer, n
  <2>9. Emitted(i)
    BY <2>2, <2>4, <2>5, <2>6, <2>7, <2>8 DEF Emitted, IsLoadStore
  <2> QED BY <2>9
<1> QED BY <1>1, <1>2, <1>3

LEMMA Shaped ==
  ASSUME NEW op, NEW L
  PROVE  /\ \A i \in Shapes(op, FALSE, L) : \E ops \in L : i = Instr(op, ops, FALSE, 0)
         /\ \A i \in Shapes(op, TRUE, L) : \E ops \in L : i = Instr(op, ops, TRUE, 0)
BY DEF Shapes

LEMMA Pairs ==
  ASSUME NEW A, NEW B, NEW ops \in A \X B
  PROVE  \E a \in A, b \in B : ops = <<a, b>>
<1>1. ops = <<ops[1], ops[2]>> /\ ops[1] \in A /\ ops[2] \in B
  OBVIOUS
<1> QED BY <1>1

LEMMA UniformPair ==
  ASSUME NEW op \in {"Mov", "Neg", "Compare"}, NEW size \in {4, 8}, NEW a, NEW b,
         IntOperand(a, size), IntOperand(b, size),
         ShowsWidth(op, a, size)
  PROVE  Emitted(Instr(op, <<a, b>>, FALSE, 0))
<1> DEFINE ops == <<a, b>>
<1>1. ops \in Seq({a, b}) /\ DOMAIN ops = {1, 2} /\ ops[1] = a /\ ops[2] = b
  OBVIOUS
<1> HIDE DEF ops
<1>2. Emitted(Instr(op, ops, FALSE, 0))
  BY <1>1, UniformEmitted
<1> QED BY <1>2 DEF ops

LEMMA UniformTriple ==
  ASSUME NEW size \in {4, 8}, NEW a, NEW b, NEW c,
         IntOperand(a, size), IntOperand(b, size), IntOperand(c, size),
         ShowsWidth("Sub", a, size)
  PROVE  Emitted(Instr("Sub", <<a, b, c>>, FALSE, 0))
<1> DEFINE ops == <<a, b, c>>
<1>1. /\ ops \in Seq({a, b, c}) /\ DOMAIN ops = {1, 2, 3}
      /\ ops[1] = a /\ ops[2] = b /\ ops[3] = c
  OBVIOUS
<1> HIDE DEF ops
<1>3. (\A k \in DOMAIN ops : IntOperand(ops[k], size)) /\ 1 \in DOMAIN ops
  BY <1>1
<1>2. Emitted(Instr("Sub", ops, FALSE, 0))
  BY <1>1, <1>3, UniformEmitted
<1> QED BY <1>2 DEF ops

LEMMA IntInstructionsEmitted ==
  ASSUME NEW size \in {4, 8}, NEW i \in IntInstructions(size)
  PROVE  Emitted(i)
<1> DEFINE P == Places(size)
           V == Values(size)
           w0 == W0(size)
           w1 == W1(size)
           parameters == StackParameters(size)
           zero == Zero
           M == Pointed(size)
           N == M \cup StackArguments(size)
<1>1. /\ \A o \in V \cup {w0, w1} \cup parameters : IntOperand(o, size)
      /\ \A o \in P \cup {w0, w1} : IntOperand(o, size) /\ o.kind # "Immediate"
      /\ IntOperand(zero, size)
      /\ \A o \in P : o.kind \in {"Pseudo", "Data"} /\ o.size = size
      /\ \A o \in V : o.kind \in {"Pseudo", "Data", "Immediate"} /\ o.size = size
      /\ \A op : \A o \in P \cup {w0, w1} : ShowsWidth(op, o, size)
      /\ \A o \in V : ShowsWidth("Compare", o, size)
  <2>1. /\ \A o \in P : o.kind \in {"Pseudo", "Data"} /\ o.size = size
        /\ \A o \in V : o.kind \in {"Pseudo", "Data", "Immediate"} /\ o.size = size
    BY PlaceOperands, ValueOperands
  <2>2. /\ \A o \in V \cup {w0, w1} \cup parameters : IntOperand(o, size)
        /\ \A o \in P \cup {w0, w1} : IntOperand(o, size) /\ o.kind # "Immediate"
        /\ IntOperand(zero, size)
    BY IntOperands
  <2> HIDE DEF P, V, w0, w1, parameters, zero
  <2>3. ASSUME NEW o \in P \cup {w0, w1}, NEW op PROVE ShowsWidth(op, o, size)
    <3>1. o.kind # "Immediate"
      BY <2>2
    <3> QED BY <3>1 DEF ShowsWidth
  <2>4. \A o \in V : ShowsWidth("Compare", o, size)
    BY <2>1 DEF ShowsWidth
  <2> QED BY <2>1, <2>2, <2>3, <2>4
<1> DEFINE S1 == Shapes("Mov", FALSE,
                        (P \X V) \cup ({w0} \X V) \cup (P \X ({w0} \cup parameters)))
           S2 == Shapes("Sub", FALSE,
                        (P \X V \X (V \cup {w1})) \cup ({w1} \X (V \cup {w1}) \X V))
           S3 == Shapes("Neg", FALSE, P \X V)
           S4 == Shapes("Compare", FALSE, V \X (V \cup {zero}))
           S5 == Shapes("Ldr", FALSE, P \X M)
           S6 == Shapes("Str", FALSE, V \X N)
           S7 == Shapes("IntToFloat", FALSE, Places(8) \X V)
           S8 == Shapes("FloatToInt", FALSE, P \X FloatValues)
<1>2. CASE i \in S1
  <2> HIDE DEF P, V, w0, w1, parameters, zero
  <2>1. PICK ops \in (P \X V) \cup ({w0} \X V) \cup (P \X ({w0} \cup parameters)) : i = Instr("Mov", ops, FALSE, 0)
    BY <1>2 DEF Shapes
  <2>2. ops = <<ops[1], ops[2]>> /\ ops[1] \in P \cup {w0} /\ ops[2] \in V \cup {w0} \cup parameters
    BY <2>1
  <2>3. Emitted(Instr("Mov", <<ops[1], ops[2]>>, FALSE, 0))
    BY <2>2, <1>1, UniformPair
  <2> QED BY <2>1, <2>2, <2>3
<1>3. CASE i \in S2
  <2>1. PICK ops \in (P \X V \X (V \cup {w1})) \cup ({w1} \X (V \cup {w1}) \X V) :
          i = Instr("Sub", ops, FALSE, 0)
    BY <1>3 DEF Shapes
  <2> HIDE DEF P, V, w0, w1, parameters, zero
  <2>2. /\ ops = <<ops[1], ops[2], ops[3]>>
        /\ ops[1] \in P \cup {w1} /\ ops[2] \in V \cup {w1} /\ ops[3] \in V \cup {w1}
    BY <2>1
  <2>3. Emitted(Instr("Sub", <<ops[1], ops[2], ops[3]>>, FALSE, 0))
    BY <2>2, <1>1, UniformTriple
  <2> QED BY <2>1, <2>2, <2>3
<1>4. CASE i \in S3
  <2> HIDE DEF P, V, w0, w1, parameters, zero
  <2>1. PICK ops \in P \X V : i = Instr("Neg", ops, FALSE, 0)
    BY <1>4, Shaped
  <2>2. ops = <<ops[1], ops[2]>> /\ ops[1] \in P /\ ops[2] \in V
    BY <2>1
  <2>3. Emitted(Instr("Neg", <<ops[1], ops[2]>>, FALSE, 0))
    BY <2>2, <1>1, UniformPair
  <2> QED BY <2>1, <2>2, <2>3
<1>5. CASE i \in S4
  <2> HIDE DEF P, V, w0, w1, parameters, zero
  <2>1. PICK ops \in V \X (V \cup {zero}) : i = Instr("Compare", ops, FALSE, 0)
    BY <1>5, Shaped, ZenonT(60)
  <2>2. ops = <<ops[1], ops[2]>> /\ ops[1] \in V /\ ops[2] \in V \cup {zero}
    BY <2>1
  <2>3. Emitted(Instr("Compare", <<ops[1], ops[2]>>, FALSE, 0))
    BY <2>2, <1>1, UniformPair
  <2> QED BY <2>1, <2>2, <2>3
<1>6. CASE i \in S5
  <2>1. PICK ops \in P \X M : i = Instr("Ldr", ops, FALSE, 0)
    BY <1>6, Shaped
  <2>2. PICK v \in P, m \in M : ops = <<v, m>>
    BY Pairs
  <2>3. Accessed("Ldr", v, size)
    BY <1>1 DEF Accessed
  <2>4. Emitted(Instr("Ldr", <<v, m>>, FALSE, 0))
    BY <2>3, AccessEmitted
  <2> QED BY <2>1, <2>2, <2>4
<1>7. CASE i \in S6
  <2>1. PICK ops \in V \X N : i = Instr("Str", ops, FALSE, 0)
    BY <1>7, Shaped, ZenonT(60)
  <2>2. PICK v \in V, m \in N : ops = <<v, m>>
    BY Pairs
  <2>3. Accessed("Str", v, size)
    BY <1>1 DEF Accessed
  <2>4. Emitted(Instr("Str", <<v, m>>, FALSE, 0))
    BY <2>3, AccessEmitted
  <2> QED BY <2>1, <2>2, <2>4
<1>8. CASE i \in S7
  <2>1. PICK ops \in Places(8) \X Values(size) : i = Instr("IntToFloat", ops, FALSE, 0)
    BY <1>8, Shaped
  <2>2. PICK a \in Places(8), b \in Values(size) : ops = <<a, b>>
    BY Pairs
  <2> QED BY <2>1, <2>2, ConversionEmitted
<1>9. CASE i \in S8
  <2>1. PICK ops \in Places(size) \X FloatValues : i = Instr("FloatToInt", ops, FALSE, 0)
    BY <1>9, Shaped
  <2>2. PICK a \in Places(size), b \in FloatValues : ops = <<a, b>>
    BY Pairs
  <2> QED BY <2>1, <2>2, ConversionEmitted
<1>10. IntInstructions(size) = S1 \cup S2 \cup S3 \cup S4 \cup S5 \cup S6 \cup S7 \cup S8
  BY Zenon DEF IntInstructions
<1> HIDE DEF S1, S2, S3, S4, S5, S6, S7, S8
<1> QED BY <1>2, <1>3, <1>4, <1>5, <1>6, <1>7, <1>8, <1>9, <1>10

LEMMA FloatPair ==
  ASSUME NEW a, NEW b, FloatOperand(a), FloatOperand(b)
  PROVE  /\ \A op \in {"Mov", "Compare"} : Emitted(Instr(op, <<a, b>>, TRUE, 0))
         /\ Emitted(Instr("FNeg", <<a, b>>, FALSE, 0))
<1> DEFINE ops == <<a, b>>
<1>1. ops \in Seq({a, b}) /\ DOMAIN ops = {1, 2} /\ ops[1] = a /\ ops[2] = b
  OBVIOUS
<1> HIDE DEF ops
<1>2. \A k \in DOMAIN ops : FloatOperand(ops[k])
  BY <1>1
<1>3. ASSUME NEW op \in {"Mov", "Compare"} PROVE Emitted(Instr(op, ops, TRUE, 0))
  <2>1. FloatOperation(op, TRUE)
    BY DEF FloatOperation
  <2> QED BY <2>1, <1>1, <1>2, FloatEmitted
<1>4. Emitted(Instr("FNeg", ops, FALSE, 0))
  BY <1>1, <1>2, FloatEmitted DEF FloatOperation
<1> QED BY <1>3, <1>4 DEF ops

LEMMA FloatInstructionsEmitted ==
  ASSUME NEW i \in FloatInstructions
  PROVE  Emitted(i)
<1> DEFINE P == Places(8)
           V == FloatValues
           N == Pointed(8) \cup StackArguments(8)
           parameters == StackParameters(8)
<1>1. /\ \A o \in V \cup P \cup {D0} \cup parameters : FloatOperand(o)
      /\ \A o \in V : o.kind \in {"Pseudo", "Data", "Immediate"}
  BY FloatOperandsAre, FloatOperands
<1>2. CASE i \in Shapes("Mov", TRUE, (P \X (V \cup {D0} \cup parameters)) \cup ({D0} \X V))
  <2> HIDE DEF P, V, parameters
  <2>1. PICK ops \in (P \X (V \cup {D0} \cup parameters)) \cup ({D0} \X V) : i = Instr("Mov", ops, TRUE, 0)
    BY <1>2 DEF Shapes
  <2>2. ops = <<ops[1], ops[2]>> /\ ops[1] \in P \cup {D0} /\ ops[2] \in V \cup {D0} \cup parameters
    BY <2>1
  <2>3. Emitted(Instr("Mov", <<ops[1], ops[2]>>, TRUE, 0))
    BY <2>2, <1>1, FloatPair
  <2> QED BY <2>1, <2>2, <2>3
<1>3. CASE i \in Shapes("FSub", FALSE, P \X V \X V)
  <2>1. PICK ops \in P \X V \X V : i = Instr("FSub", ops, FALSE, 0)
    BY <1>3 DEF Shapes
  <2> HIDE DEF P, V, parameters
  <2>2. /\ DOMAIN ops = {1, 2, 3} /\ ops[1] \in P /\ ops[2] \in V /\ ops[3] \in V
        /\ ops \in Seq(P \cup V)
    BY <2>1
  <2>3. \A k \in DOMAIN ops : FloatOperand(ops[k])
    BY <2>2, <1>1
  <2> QED BY <2>1, <2>2, <2>3, FloatEmitted DEF FloatOperation
<1>4. CASE i \in Shapes("FNeg", FALSE, P \X V)
  <2> HIDE DEF P, V, parameters
  <2>1. PICK ops \in P \X V : i = Instr("FNeg", ops, FALSE, 0)
    BY <1>4, Shaped
  <2>2. ops = <<ops[1], ops[2]>> /\ ops[1] \in P /\ ops[2] \in V
    BY <2>1
  <2>3. Emitted(Instr("FNeg", <<ops[1], ops[2]>>, FALSE, 0))
    BY <2>2, <1>1, FloatPair
  <2> QED BY <2>1, <2>2, <2>3
<1>5. CASE i \in Shapes("Compare", TRUE, V \X V)
  <2> HIDE DEF P, V, parameters
  <2>1. PICK ops \in V \X V : i = Instr("Compare", ops, TRUE, 0)
    BY <1>5, Shaped
  <2>2. ops = <<ops[1], ops[2]>> /\ ops[1] \in V /\ ops[2] \in V
    BY <2>1
  <2>3. Emitted(Instr("Compare", <<ops[1], ops[2]>>, TRUE, 0))
    BY <2>2, <1>1, FloatPair
  <2> QED BY <2>1, <2>2, <2>3
<1>6. CASE i \in Shapes("Str", FALSE, V \X N)
  <2>1. PICK ops \in V \X N : i = Instr("Str", ops, FALSE, 0)
    BY <1>6, Shaped, ZenonT(60)
  <2>2. PICK v \in V, m \in N : ops = <<v, m>>
    BY Pairs
  <2>3. Accessed("Str", v, 8)
    BY <1>1 DEF Accessed
  <2>4. Emitted(Instr("Str", <<v, m>>, FALSE, 0))
    BY <2>3, AccessEmitted
  <2> QED BY <2>1, <2>2, <2>4
<1> QED BY <1>2, <1>3, <1>4, <1>5, <1>6 DEF FloatInstructions

LEMMA EveryInstructionEmitted ==
  ASSUME NEW i \in Instructions
  PROVE  \/ Emitted(i)
         \/ \E a \in Places(8), b \in Places(4) \cup Places(8) :
              i = Instr("Address", <<a, b>>, FALSE, 0)
<1>1. CASE i \in IntInstructions(4) \cup IntInstructions(8)
  BY <1>1, IntInstructionsEmitted
<1>2. CASE i \in FloatInstructions
  BY <1>2, FloatInstructionsEmitted
<1>3. CASE i \in OtherInstructions
  <2>1. \A p \in Shapes("CSet", FALSE, {<<q>> : q \in Places(4)}) : Emitted(p)
    BY OthersEmitted DEF Shapes
  <2>2. \A p \in Shapes("Extend", FALSE, Places(8) \X Values(4)) : Emitted(p)
    <3> SUFFICES ASSUME NEW p \in Shapes("Extend", FALSE, Places(8) \X Values(4)) PROVE Emitted(p)
      OBVIOUS
    <3>1. PICK ops \in Places(8) \X Values(4) : p = Instr("Extend", ops, FALSE, 0)
      BY Shaped
    <3>2. PICK a \in Places(8), b \in Values(4) : ops = <<a, b>>
      BY Pairs
    <3> QED BY <3>1, <3>2, ConversionEmitted
  <2>3. \A p \in Shapes("Truncate", FALSE, Places(4) \X Values(8)) : Emitted(p)
    <3> SUFFICES ASSUME NEW p \in Shapes("Truncate", FALSE, Places(4) \X Values(8)) PROVE Emitted(p)
      OBVIOUS
    <3>1. PICK ops \in Places(4) \X Values(8) : p = Instr("Truncate", ops, FALSE, 0)
      BY Shaped
    <3>2. PICK a \in Places(4), b \in Values(8) : ops = <<a, b>>
      BY Pairs
    <3> QED BY <3>1, <3>2, ConversionEmitted
  <2>4. ASSUME NEW p \in Shapes("Address", FALSE, Places(8) \X (Places(4) \cup Places(8)))
        PROVE  \E a \in Places(8), b \in Places(4) \cup Places(8) :
                 p = Instr("Address", <<a, b>>, FALSE, 0)
    <3>1. PICK ops \in Places(8) \X (Places(4) \cup Places(8)) :
            p = Instr("Address", ops, FALSE, 0)
      BY Shaped
    <3>2. PICK a \in Places(8), b \in Places(4) \cup Places(8) : ops = <<a, b>>
      BY Pairs
    <3> QED BY <3>1, <3>2
  <2>5. \A p \in Adjustments \cup {Instr("Branch", <<>>, FALSE, 0)} : Emitted(p)
    BY OthersEmitted DEF NoInstr
  <2> QED BY <1>3, <2>1, <2>2, <2>3, <2>4, <2>5 DEF OtherInstructions
<1>4. CASE i \in NotsOfDoubles
  <2>1. PICK ops \in Doubles \X {Zero} : i = Instr("Compare", ops, FALSE, 0)
    BY <1>4, Shaped DEF NotsOfDoubles
  <2>2. PICK d \in Doubles, z \in {Zero} : ops = <<d, z>>
    BY Pairs
  <2> QED BY <2>1, <2>2, NotOfDoubleEmitted
<1> QED BY <1>1, <1>2, <1>3, <1>4 DEF Instructions

-----------------------------------------------------------------------------
(* The instructions the helpers put around the one they rewrite.           *)

\* A register that may hold an address.
IsBase(r) == r.kind = "Register" /\ r.file = "gp" /\ r.size = 8

LEMMA OnlyRegisters ==
  ASSUME NEW S, NEW ops \in Seq(S), NEW op, NEW arg,
         \A k \in DOMAIN ops : ops[k].kind = "Register"
  PROVE  Encodable(Instr(op, ops, FALSE, arg))
BY DEF Encodable, Instr

LEMMA AddressingFits ==
  ASSUME NEW a, IsBase(a), NEW v, v.kind = "Register", NEW arg
  PROVE  /\ Fit(Instr("Adrp", <<a>>, FALSE, arg))
         /\ Fit(Instr("LoadImm", <<v>>, FALSE, arg))
         /\ Fit(Instr("GlobalLoad", <<v, a>>, FALSE, arg))
         /\ Fit(Instr("GlobalStore", <<v, a>>, FALSE, arg))
         /\ Fit(Instr("GlobalAdd", <<a, a>>, FALSE, arg))
<1>1. a.kind = "Register" /\ a.file = "gp" /\ a.size = 8
  BY DEF IsBase
<1>2. ASSUME NEW op \in {"Adrp", "LoadImm"}, NEW r, r.kind = "Register"
      PROVE  Fit(Instr(op, <<r>>, FALSE, arg))
  <2>1. <<r>> \in Seq({r}) /\ \A k \in DOMAIN <<r>> : <<r>>[k].kind = "Register"
    BY <1>2
  <2>2. Encodable(Instr(op, <<r>>, FALSE, arg))
    BY <2>1, OnlyRegisters
  <2>3. OperandsAgree(Instr(op, <<r>>, FALSE, arg))
    BY DEF OperandsAgree, Instr
  <2> QED BY <2>2, <2>3 DEF Fit
<1>3. ASSUME NEW op \in {"GlobalLoad", "GlobalStore", "GlobalAdd"}, NEW r, r.kind = "Register"
      PROVE  Fit(Instr(op, <<r, a>>, FALSE, arg))
  <2> DEFINE ops == <<r, a>>
  <2>1. ops \in Seq({r, a}) /\ DOMAIN ops = {1, 2} /\ ops[1] = r /\ ops[2] = a
    OBVIOUS
  <2> HIDE DEF ops
  <2>2. Encodable(Instr(op, ops, FALSE, arg))
    BY <1>1, <1>3, <2>1, OnlyRegisters
  <2>3. OperandsAgree(Instr(op, ops, FALSE, arg))
    BY <1>1, <1>3, <2>1 DEF OperandsAgree, Instr
  <2> QED BY <2>2, <2>3 DEF Fit, ops
<1> QED BY <1>1, <1>2, <1>3

LEMMA ArithmeticFits ==
  ASSUME NEW a, IsBase(a), NEW b, IsBase(b), NEW c, IsBase(c)
  PROVE  /\ Fit(Instr("Mov", <<a, b>>, FALSE, 0))
         /\ \A op \in {"Add", "Sub"} : Fit(Instr(op, <<a, b, c>>, FALSE, 0))
<1>1. ASSUME NEW op \in {"Mov", "Add", "Sub"}, NEW S, NEW ops \in Seq(S),
             \A k \in DOMAIN ops : IsBase(ops[k])
      PROVE  Fit(Instr(op, ops, FALSE, 0))
  <2> DEFINE i == Instr(op, ops, FALSE, 0)
             registers == {i.operands[k] : k \in
                             {j \in DOMAIN i.operands : i.operands[j].kind = "Register"}}
  <2>1. i.op = op /\ i.operands = ops /\ ~i.is_float
    BY DEF Instr
  <2>2. Encodable(i)
    BY <1>1, OnlyRegisters DEF IsBase
  <2> HIDE DEF i
  <2>3. \A r \in registers : IsBase(r)
    BY <1>1, <2>1
  <2>4. {r.file : r \in registers} \subseteq {"gp"} /\ \A r, q \in registers : r.size = q.size
    BY <2>3 DEF IsBase
  <2>5. OperandsAgree(i)
    BY <2>1, <2>4 DEF OperandsAgree
  <2> QED BY <2>2, <2>5 DEF Fit, i
<1>2. /\ <<a, b>> \in Seq({a, b, c}) /\ \A k \in DOMAIN <<a, b>> : IsBase(<<a, b>>[k])
      /\ <<a, b, c>> \in Seq({a, b, c})
      /\ \A k \in DOMAIN <<a, b, c>> : IsBase(<<a, b, c>>[k])
  OBVIOUS
<1> QED BY <1>1, <1>2

LEMMA AccessFits ==
  ASSUME NEW r, r.kind = "Register", NEW size, r.size = size,
         NEW m, IsAddress(m, size), m.offset \in -256 .. 255
  PROVE  \A op \in {"Ldr", "Str"} : Fit(Instr(op, <<r, m>>, FALSE, 0))
<1> SUFFICES ASSUME NEW op \in {"Ldr", "Str"} PROVE Fit(Instr(op, <<r, m>>, FALSE, 0))
  OBVIOUS
<1> DEFINE ops == <<r, m>>
           i == Instr(op, ops, FALSE, 0)
<1>1. Len(ops) = 2 /\ DOMAIN ops = {1, 2} /\ ops[1] = r /\ ops[2] = m
  OBVIOUS
<1>2. i.op = op /\ i.operands = ops /\ ~i.is_float
  BY DEF Instr
<1> HIDE DEF i, ops
<1>3. m.kind = "Memory" /\ m.size = size /\ IsBase(m.base)
  BY AddressFields DEF IsAddress, IsBase
<1>4. Encodable(i)
  BY <1>1, <1>2, <1>3 DEF Encodable, IsLoadStore, IsBase
<1>5. OperandsAgree(i)
  BY <1>1, <1>2, <1>3 DEF OperandsAgree
<1> QED BY <1>4, <1>5 DEF Fit, i, ops

LEMMA FrameAddressFits ==
  ASSUME NEW r, IsBase(r), NEW v
  PROVE  Fit(Instr("Sub", <<r, X29, Immediate(v, FALSE, 4)>>, FALSE, 0)) <=> CanEncodeImm12(v)
<1> DEFINE ops == <<r, X29, Immediate(v, FALSE, 4)>>
           i == Instr("Sub", ops, FALSE, 0)
           registers == {i.operands[k] : k \in
                           {j \in DOMAIN i.operands : i.operands[j].kind = "Register"}}
<1>1. /\ DOMAIN ops = {1, 2, 3} /\ ops[1] = r /\ ops[2] = X29
      /\ ops[3].kind = "Immediate" /\ ops[3].value = v /\ IsBase(X29)
  BY DEF Immediate, IsBase, X29, Register
<1>2. i.op = "Sub" /\ i.operands = ops /\ ~i.is_float
  BY DEF Instr
<1> HIDE DEF i, ops
<1>3. Encodable(i) <=> CanEncodeImm12(v)
  BY <1>1, <1>2 DEF Encodable, IsBase
<1>4. \A q \in registers : IsBase(q)
  BY <1>1, <1>2
<1>5. {q.file : q \in registers} \subseteq {"gp"} /\ \A p, q \in registers : p.size = q.size
  BY <1>4 DEF IsBase
<1>6. OperandsAgree(i)
  BY <1>2, <1>5 DEF OperandsAgree
<1> QED BY <1>3, <1>6 DEF Fit, i, ops

LEMMA FitAppended ==
  ASSUME NEW code, FitCode(code), NEW i, Fit(i)
  PROVE  FitCode(Append(code, i))
<1>1. PICK S : code \in Seq(S)
  BY DEF FitCode
<1>2. /\ Append(code, i) \in Seq(S \cup {i})
      /\ DOMAIN code = 1 .. Len(code) /\ Len(code) \in Nat
      /\ DOMAIN Append(code, i) = 1 .. Len(code) + 1
      /\ Append(code, i)[Len(code) + 1] = i
      /\ \A k \in DOMAIN code : Append(code, i)[k] = code[k]
  BY <1>1, Appended
<1>3. ASSUME NEW k \in 1 .. Len(code) + 1 PROVE Fit(Append(code, i)[k])
  <2>1. CASE k = Len(code) + 1
    BY <2>1, <1>2
  <2>2. CASE k \in DOMAIN code
    BY <2>2, <1>2 DEF FitCode
  <2> QED BY <2>1, <2>2, <1>2
<1> QED BY <1>2, <1>3 DEF FitCode

LEMMA FitThree ==
  ASSUME NEW code, FitCode(code), NEW x, NEW y, NEW z, Fit(x), Fit(y), Fit(z)
  PROVE  FitCode(code \o <<x, y, z>>)
<1>1. PICK S : code \in Seq(S)
  BY DEF FitCode
<1>2. code \o <<x, y, z>> = Append(Append(Append(code, x), y), z)
  <2> DEFINE T == S \cup {x, y, z}
  <2>1. code \in Seq(T) /\ x \in T /\ y \in T /\ z \in T
    BY <1>1
  <2> HIDE DEF T
  <2> QED BY <2>1
<1> QED BY <1>2, FitAppended

-----------------------------------------------------------------------------
(* Each helper leaves what it was given tidy, and the operand in the form   *)
(* it is named for.  No helper undoes a failure.                            *)

LEMMA PlaceFrame ==
  ASSUME NEW f, IsFrame(f), NEW name, NEW size \in {4, 8}
  PROVE  IsFrame(Place(f, name, size)) /\ LocalOffset(f, name, size) \in Int
<1> DEFINE g == Place(f, name, size)
           top == RoundUp(f.current_offset, Alignment(size)) + size
<1>1. top \in Nat
  <2>1. Alignment(size) \in Nat \ {0}
    BY DEF Alignment
  <2>2. Padding(f.current_offset, Alignment(size)) \in Nat
    BY <2>1 DEF Padding, IsFrame
  <2> QED BY <2>2 DEF RoundUp, IsFrame
<1>2. IsFrame(g) /\ name \in DOMAIN g.offsets
  <2>1. CASE name \in DOMAIN f.offsets
    BY <2>1 DEF Place
  <2>2. CASE name \notin DOMAIN f.offsets
    <3> DEFINE offsets == [n \in DOMAIN f.offsets \cup {name} |->
                             IF n = name THEN top ELSE f.offsets[n]]
    <3>1. g = [offsets |-> offsets, current_offset |-> top]
      BY <2>2 DEF Place
    <3> HIDE DEF top
    <3>2. name \in DOMAIN offsets /\ \A n \in DOMAIN offsets : offsets[n] \in Nat
      BY <1>1 DEF IsFrame
    <3> HIDE DEF offsets, g
    <3> QED BY <3>1, <3>2, <1>1 DEF IsFrame
  <2> QED BY <2>1, <2>2
<1>3. g.offsets[name] \in Nat
  BY <1>2 DEF IsFrame
<1>4. -(g.offsets[name]) \in Int
  BY <1>3
<1> QED BY <1>2, <1>4 DEF LocalOffset

LEMMA EmitTidy ==
  ASSUME NEW i, NEW s, Tidy(s, i), NEW x, s.failed = FALSE => Fit(x)
  PROVE  /\ Tidy(Before(s, x), i) /\ Tidy(After(s, x), i)
         /\ Before(s, x).failed = s.failed /\ After(s, x).failed = s.failed
         /\ Before(s, x).temps = s.temps /\ After(s, x).temps = s.temps
         /\ Before(s, x).operand = s.operand /\ After(s, x).operand = s.operand
<1>1. Sound(Before(s, x)) /\ Sound(After(s, x))
  BY EmitSound DEF Tidy
<1>2. s.failed = FALSE => FitCode(Append(s.before, x)) /\ FitCode(Append(s.after, x))
  BY FitAppended DEF Tidy
<1>3. /\ Before(s, x).failed = s.failed /\ After(s, x).failed = s.failed
      /\ Before(s, x).temps = s.temps /\ After(s, x).temps = s.temps
      /\ Before(s, x).operand = s.operand /\ After(s, x).operand = s.operand
      /\ Before(s, x).before = Append(s.before, x) /\ Before(s, x).after = s.after
      /\ After(s, x).before = s.before /\ After(s, x).after = Append(s.after, x)
      /\ Before(s, x).frame = s.frame /\ After(s, x).frame = s.frame
      /\ Before(s, x).instr = s.instr /\ After(s, x).instr = s.instr
  BY DEF Before, After, Tidy, Sound, Fields
<1> QED BY <1>1, <1>2, <1>3 DEF Tidy

LEMMA OperandTidy ==
  ASSUME NEW i, NEW s, Tidy(s, i), NEW o
  PROVE  LET t == [s EXCEPT !.operand = o]
         IN  Tidy(t, i) /\ t.operand = o /\ t.failed = s.failed
BY OperandSound DEF Tidy, Sound, Fields

LEMMA AllocateTidy ==
  ASSUME NEW i, NEW s, Tidy(s, i), NEW file \in Files, NEW size
  PROVE  LET t == Allocate(s, file, size)
         IN  /\ Tidy(t, i) /\ t.operand = s.operand
             /\ t.failed = FALSE => /\ s.failed = FALSE
                                    /\ IsScratch(Last(t.temps), file, size)
<1> DEFINE t == Allocate(s, file, size)
           number == Min(s.free[file])
           r == Register(file, number, size)
<1>1. DOMAIN s = Fields /\ Sound(s) /\ Sound(t)
  BY AllocateSound DEF Tidy, Sound
<1>2. CASE s.free[file] = {}
  <2>1. t.failed = TRUE /\ t.operand = s.operand
    BY <1>1, <1>2 DEF Allocate, Fields
  <2> QED BY <1>1, <2>1 DEF Tidy
<1>3. CASE s.free[file] # {}
  <2>1. /\ t.failed = s.failed /\ t.operand = s.operand /\ t.instr = s.instr
        /\ t.before = s.before /\ t.after = s.after /\ t.frame = s.frame
        /\ t.temps = Append(s.temps, r)
    BY <1>1, <1>3 DEF Allocate, Fields
  <2>2. Tidy(t, i)
    BY <1>1, <2>1 DEF Tidy
  <2>3. ASSUME s.failed = FALSE PROVE IsScratch(Last(t.temps), file, size)
    <3>1. Conserved(s.free, s.temps)
      BY <1>1, <2>3 DEF Sound
    <3>2. PICK S : s.temps \in Seq(S)
      BY <3>1 DEF Conserved
    <3>3. Len(t.temps) = Len(s.temps) + 1 /\ t.temps[Len(s.temps) + 1] = r
      BY <2>1, <3>2, Appended
    <3>4. Last(t.temps) = r
      BY <3>3 DEF Last
    <3>5. s.free[file] \subseteq IF file = "gp" THEN GPPool ELSE SIMDPool
      BY <3>1 DEF Conserved
    <3>6. number \in s.free[file]
      <4>1. s.free[file] \subseteq Nat
        BY <3>5, PoolAssumption
      <4> QED BY <1>3, <4>1, LeastFree
    <3>7. r.number = number /\ (file = "gp" => number # 31)
      BY <3>5, <3>6, PoolAssumption DEF Register
    <3> QED BY <3>4, <3>7 DEF IsScratch
  <2> QED BY <2>1, <2>2, <2>3
<1> QED BY <1>2, <1>3

LEMMA AllocateValueTidy ==
  ASSUME NEW i, NEW s, Tidy(s, i), NEW use_float \in BOOLEAN, NEW size
  PROVE  LET t == AllocateValue(s, use_float, size)
         IN  /\ Tidy(t, i) /\ t.operand = s.operand
             /\ t.failed = FALSE =>
                  /\ s.failed = FALSE
                  /\ IF use_float THEN IsScratch(Last(t.temps), "simd", 8)
                                  ELSE IsScratch(Last(t.temps), "gp", size)
BY AllocateTidy DEF AllocateValue, Files

LEMMA ScratchIsBase ==
  ASSUME NEW r, IsScratch(r, "gp", 8)
  PROVE  IsBase(r)
BY ScratchFields DEF IsBase

LEMMA AccessTidy ==
  ASSUME NEW i, NEW s, Tidy(s, i), NEW symbol, NEW is_dst \in BOOLEAN,
         NEW use_float \in BOOLEAN, NEW size
  PROVE  LET t == AccessSymbol(s, symbol, is_dst, use_float, size)
         IN  /\ Tidy(t, i)
             /\ t.failed = FALSE =>
                  /\ s.failed = FALSE
                  /\ IF use_float THEN IsScratch(t.operand, "simd", 8)
                                  ELSE IsScratch(t.operand, "gp", size)
<1> DEFINE with_address == Allocate(s, "gp", 8)
           address      == Last(with_address.temps)
           with_value   == AllocateValue(with_address, use_float, size)
           value        == Last(with_value.temps)
           with_page    == Before(with_value, Instr("Adrp", <<address>>, FALSE, symbol))
           op           == IF is_dst THEN "GlobalStore" ELSE "GlobalLoad"
           accessed     == GlobalOffset(with_page, op, value, address, symbol)
           t            == [accessed EXCEPT !.operand = value]
<1>0. t = AccessSymbol(s, symbol, is_dst, use_float, size)
  BY DEF AccessSymbol
<1>1. /\ Tidy(with_address, i)
      /\ with_address.failed = FALSE => s.failed = FALSE /\ IsScratch(address, "gp", 8)
  BY AllocateTidy DEF Files
<1> HIDE DEF with_address, address
<1>2. /\ Tidy(with_value, i)
      /\ with_value.failed = FALSE =>
           /\ with_address.failed = FALSE
           /\ IF use_float THEN IsScratch(value, "simd", 8)
                           ELSE IsScratch(value, "gp", size)
  BY <1>1, AllocateValueTidy
<1> HIDE DEF with_value, value
<1>3. with_value.failed = FALSE => IsBase(address) /\ value.kind = "Register"
  BY <1>1, <1>2, ScratchIsBase, ScratchFields
<1>4. Tidy(with_page, i) /\ with_page.failed = with_value.failed
  <2> DEFINE page == Instr("Adrp", <<address>>, FALSE, symbol)
  <2>1. with_value.failed = FALSE => Fit(page)
    BY <1>3, AddressingFits
  <2> HIDE DEF page
  <2>2. Tidy(Before(with_value, page), i) /\ Before(with_value, page).failed = with_value.failed
    BY <1>2, <2>1, EmitTidy
  <2> QED BY <2>2 DEF page
<1> HIDE DEF with_page
<1>5. Tidy(accessed, i) /\ accessed.failed = with_value.failed
  <2> DEFINE access == Instr(op, <<value, address>>, FALSE, symbol)
  <2>1. with_page.failed = FALSE => Fit(access)
    BY <1>3, <1>4, AddressingFits
  <2> HIDE DEF access
  <2>2. /\ Tidy(Before(with_page, access), i) /\ Tidy(After(with_page, access), i)
        /\ Before(with_page, access).failed = with_page.failed
        /\ After(with_page, access).failed = with_page.failed
    BY <1>4, <2>1, EmitTidy
  <2> QED BY <1>4, <2>2 DEF GlobalOffset, access
<1> HIDE DEF accessed
<1>6. Tidy(t, i) /\ t.operand = value /\ t.failed = accessed.failed
  BY <1>5, OperandTidy
<1> HIDE DEF t
<1> QED BY <1>0, <1>1, <1>2, <1>5, <1>6

LEMMA PseudoTidy ==
  ASSUME NEW i, NEW s, Tidy(s, i), s.operand.size \in {4, 8}
  PROVE  LET t == ResolvePseudo(s)
         IN  /\ Tidy(t, i) /\ t.failed = s.failed
             /\ t.failed = FALSE =>
                  IsAddress(t.operand, s.operand.size) /\ t.operand.base = X29
<1> DEFINE p == s.operand
           t == ResolvePseudo(s)
           offset == LocalOffset(s.frame, p.name, p.size)
<1>1. Sound(t) /\ DOMAIN s = Fields
  BY PseudoSound DEF Tidy, Sound
<1>2. /\ t.failed = s.failed /\ t.instr = s.instr
      /\ t.before = s.before /\ t.after = s.after
      /\ t.frame = Place(s.frame, p.name, p.size)
      /\ t.operand = Memory(X29, offset, p.size)
  BY <1>1 DEF ResolvePseudo, Fields
<1> HIDE DEF t
<1>3. s.failed = FALSE => IsFrame(t.frame) /\ offset \in Int
  BY <1>2, PlaceFrame DEF Tidy
<1>4. Tidy(t, i)
  BY <1>1, <1>2, <1>3 DEF Tidy
<1> HIDE DEF offset
<1>5. s.failed = FALSE => IsAddress(t.operand, p.size) /\ t.operand.base = X29
  BY <1>2, <1>3 DEF IsAddress, Memory, X29, Register
<1> QED BY <1>2, <1>4, <1>5 DEF t

LEMMA DataTidy ==
  ASSUME NEW i, NEW s, Tidy(s, i), NEW is_dst \in BOOLEAN, NEW use_float \in BOOLEAN
  PROVE  LET t == ResolveDataOperand(s, is_dst, use_float)
         IN  /\ Tidy(t, i)
             /\ t.failed = FALSE =>
                  /\ s.failed = FALSE
                  /\ IF use_float THEN IsScratch(t.operand, "simd", 8)
                                  ELSE IsScratch(t.operand, "gp", s.operand.size)
BY AccessTidy DEF ResolveDataOperand

LEMMA LargeOffsetTidy ==
  ASSUME NEW i, NEW s, Tidy(s, i), NEW size,
         s.failed = FALSE => IsAddress(s.operand, size)
  PROVE  LET t == MaterializeLargeOffset(s)
         IN  /\ Tidy(t, i)
             /\ t.failed = FALSE =>
                  /\ s.failed = FALSE
                  /\ IsAddress(t.operand, size) /\ t.operand.offset \in -256 .. 255
<1> DEFINE memory == s.operand
           s1     == Allocate(s, "gp", 8)
           addr   == Last(s1.temps)
           s2     == Allocate(s1, "gp", 8)
           imm    == Last(s2.temps)
           offset == memory.offset
           amount == IF offset < 0 THEN -offset ELSE offset
           move   == Instr("Mov", <<addr, memory.base>>, FALSE, 0)
           load   == Instr("LoadImm", <<imm>>, FALSE, amount)
           op     == IF offset < 0 THEN "Sub" ELSE "Add"
           adjust == Instr(op, <<addr, addr, imm>>, FALSE, 0)
           far    == [s2 EXCEPT !.before = @ \o <<move, load, adjust>>,
                                !.operand = Memory(addr, 0, memory.size)]
           t      == MaterializeLargeOffset(s)
<1>1. t = IF CanEncodeImm9(offset) THEN s ELSE far
  BY DEF MaterializeLargeOffset
<1>2. CASE CanEncodeImm9(offset)
  <2>1. s.failed = FALSE => offset \in -256 .. 255
    BY <1>2 DEF CanEncodeImm9, IsAddress
  <2> QED BY <1>1, <1>2, <2>1
<1>3. CASE ~CanEncodeImm9(offset)
  <2>1. Tidy(s1, i) /\ (s1.failed = FALSE => s.failed = FALSE /\ IsScratch(addr, "gp", 8))
    BY AllocateTidy DEF Files
  <2> HIDE DEF s1, addr
  <2>2. Tidy(s2, i) /\ (s2.failed = FALSE => s1.failed = FALSE /\ IsScratch(imm, "gp", 8))
    BY <2>1, AllocateTidy DEF Files
  <2> HIDE DEF s2, imm
  <2>3. ASSUME s2.failed = FALSE
        PROVE  /\ IsBase(addr) /\ IsBase(imm) /\ IsBase(memory.base)
               /\ memory.size = size /\ s.failed = FALSE
    BY <2>1, <2>2, <2>3, ScratchIsBase, AddressFields DEF IsAddress, IsBase
  <2>4. s2.failed = FALSE => Fit(move) /\ Fit(load) /\ Fit(adjust)
    BY <2>3, ArithmeticFits, AddressingFits DEF IsBase
  <2> HIDE DEF move, load, adjust
  <2>5. DOMAIN s2 = Fields
    BY <2>2 DEF Tidy, Sound
  <2>6. /\ far.failed = s2.failed /\ far.instr = s2.instr /\ far.frame = s2.frame
        /\ far.after = s2.after /\ far.before = s2.before \o <<move, load, adjust>>
        /\ far.operand = Memory(addr, 0, memory.size)
        /\ far.free = s2.free /\ far.temps = s2.temps /\ DOMAIN far = Fields
    BY <2>5 DEF Fields
  <2> HIDE DEF far
  <2>7. Sound(far)
    BY <2>2, <2>6, Unrelated DEF Tidy
  <2>8. s2.failed = FALSE => FitCode(far.before)
    BY <2>2, <2>4, <2>6, FitThree DEF Tidy
  <2>9. Tidy(far, i)
    BY <2>2, <2>6, <2>7, <2>8 DEF Tidy
  <2>10. ASSUME far.failed = FALSE
         PROVE  IsAddress(far.operand, size) /\ far.operand.offset \in -256 .. 255
    <3>1. far.operand = Memory(addr, 0, size) /\ IsBase(addr)
      BY <2>3, <2>6, <2>10
    <3> HIDE DEF memory
    <3> QED BY <3>1 DEF IsAddress, IsBase, Memory
  <2>11. far.failed = FALSE => s.failed = FALSE
    BY <2>1, <2>2, <2>6
  <2> HIDE DEF t
  <2> QED BY <1>1, <1>3, <2>9, <2>10, <2>11 DEF t
<1> QED BY <1>2, <1>3

LEMMA MemoryTidy ==
  ASSUME NEW i, NEW s, Tidy(s, i), NEW is_dst \in BOOLEAN, NEW use_float \in BOOLEAN,
         NEW size, s.failed = FALSE => IsAddress(s.operand, size), use_float => size = 8
  PROVE  LET t == ResolveMemoryOperand(s, is_dst, use_float)
         IN  /\ Tidy(t, i)
             /\ t.failed = FALSE =>
                  /\ s.failed = FALSE
                  /\ IF use_float THEN IsScratch(t.operand, "simd", 8)
                                  ELSE IsScratch(t.operand, "gp", size)
<1> DEFINE near   == MaterializeLargeOffset(s)
           memory == near.operand
           loaded == AllocateValue(near, use_float, memory.size)
           reg    == Last(loaded.temps)
           access == Instr(IF is_dst THEN "Str" ELSE "Ldr", <<reg, memory>>, FALSE, 0)
           moved  == IF is_dst THEN After(loaded, Instr("Str", <<reg, memory>>, FALSE, 0))
                     ELSE Before(loaded, Instr("Ldr", <<reg, memory>>, FALSE, 0))
           t      == [moved EXCEPT !.operand = reg]
<1>0. t = ResolveMemoryOperand(s, is_dst, use_float)
  BY DEF ResolveMemoryOperand
<1>1. /\ Tidy(near, i)
      /\ near.failed = FALSE => /\ s.failed = FALSE
                                /\ IsAddress(memory, size) /\ memory.offset \in -256 .. 255
  BY LargeOffsetTidy
<1> HIDE DEF near, memory
<1>2. /\ Tidy(loaded, i)
      /\ loaded.failed = FALSE =>
           /\ near.failed = FALSE
           /\ IF use_float THEN IsScratch(reg, "simd", 8)
                           ELSE IsScratch(reg, "gp", memory.size)
  BY <1>1, AllocateValueTidy
<1> HIDE DEF loaded, reg
<1>3. ASSUME loaded.failed = FALSE
      PROVE  /\ reg.kind = "Register" /\ reg.size = size /\ memory.size = size
             /\ IF use_float THEN IsScratch(reg, "simd", 8) ELSE IsScratch(reg, "gp", size)
  <2>1. memory.size = size
    BY <1>1, <1>2, <1>3, AddressFields
  <2> QED BY <1>2, <1>3, <2>1, ScratchFields
<1>4. ASSUME NEW op \in {"Ldr", "Str"}
      PROVE  loaded.failed = FALSE => Fit(Instr(op, <<reg, memory>>, FALSE, 0))
  BY <1>1, <1>2, <1>3, AccessFits
<1>5. Tidy(moved, i) /\ moved.failed = loaded.failed
  <2>1. ASSUME NEW op \in {"Ldr", "Str"}
        PROVE  LET x == Instr(op, <<reg, memory>>, FALSE, 0)
               IN  /\ Tidy(Before(loaded, x), i) /\ Tidy(After(loaded, x), i)
                   /\ Before(loaded, x).failed = loaded.failed
                   /\ After(loaded, x).failed = loaded.failed
    BY <1>2, <1>4, EmitTidy, ZenonT(60)
  <2> QED BY <2>1
<1> HIDE DEF moved
<1>6. Tidy(t, i) /\ t.operand = reg /\ t.failed = moved.failed
  BY <1>5, OperandTidy
<1> HIDE DEF t
<1> QED BY <1>0, <1>1, <1>2, <1>3, <1>5, <1>6

LEMMA IndirectTidy ==
  ASSUME NEW i, NEW s, Tidy(s, i),
         s.operand.pointer.kind \in {"Pseudo", "Data"}, s.operand.pointer.size = 8
  PROVE  LET t == ResolveIndirectMemory(s)
         IN  /\ Tidy(t, i)
             /\ t.failed = FALSE => /\ s.failed = FALSE
                                    /\ IsAddress(t.operand, s.operand.size)
                                    /\ t.operand.offset = 0
<1> DEFINE inner   == [s EXCEPT !.operand = s.operand.pointer]
           placed  == ResolvePseudo(inner)
           pointer == IF inner.operand.kind = "Pseudo"
                      THEN ResolveMemoryOperand(placed, FALSE, FALSE)
                      ELSE ResolveDataOperand(inner, FALSE, FALSE)
           t       == [pointer EXCEPT !.operand = Memory(pointer.operand, 0, s.operand.size)]
<1>0. t = ResolveIndirectMemory(s)
  BY DEF ResolveIndirectMemory
<1>1. Tidy(inner, i) /\ inner.operand = s.operand.pointer /\ inner.failed = s.failed
  BY OperandTidy
<1> HIDE DEF inner
<1>2. /\ Tidy(placed, i) /\ placed.failed = inner.failed
      /\ placed.failed = FALSE => IsAddress(placed.operand, 8)
  BY <1>1, PseudoTidy
<1> HIDE DEF placed
<1>3. Tidy(pointer, i) /\ (pointer.failed = FALSE =>
                             s.failed = FALSE /\ IsScratch(pointer.operand, "gp", 8))
  <2> DEFINE no == FALSE
             m == ResolveMemoryOperand(placed, no, no)
             d == ResolveDataOperand(inner, no, no)
  <2>1. no \in BOOLEAN /\ ~no
    OBVIOUS
  <2> HIDE DEF no
  <2>2. Tidy(m, i) /\ (m.failed = FALSE =>
                         placed.failed = FALSE /\ IsScratch(m.operand, "gp", 8))
    BY <1>2, <2>1, MemoryTidy
  <2>3. Tidy(d, i) /\ (d.failed = FALSE =>
                         inner.failed = FALSE /\ IsScratch(d.operand, "gp", inner.operand.size))
    BY <1>1, <2>1, DataTidy
  <2>4. pointer = m \/ pointer = d
    BY DEF no
  <2> HIDE DEF m, d, pointer
  <2> QED BY <1>1, <1>2, <2>2, <2>3, <2>4
<1> HIDE DEF pointer
<1>4. /\ Tidy(t, i) /\ t.failed = pointer.failed
      /\ t.operand = Memory(pointer.operand, 0, s.operand.size)
  BY <1>3, OperandTidy
<1>5. t.failed = FALSE => IsAddress(t.operand, s.operand.size) /\ t.operand.offset = 0
  BY <1>3, <1>4, ScratchFields DEF IsAddress, Memory
<1> HIDE DEF t
<1> QED BY <1>0, <1>3, <1>4, <1>5

LEMMA ImmediateTidy ==
  ASSUME NEW i, NEW s, Tidy(s, i), NEW use_float \in BOOLEAN, NEW target
  PROVE  LET t == ResolveImmediate(s, use_float, target)
             size == IF target >= s.operand.size THEN target ELSE s.operand.size
         IN  /\ Tidy(t, i)
             /\ t.failed = FALSE =>
                  /\ s.failed = FALSE
                  /\ IF use_float THEN IsScratch(t.operand, "simd", 8)
                                  ELSE IsScratch(t.operand, "gp", size)
<1> DEFINE t    == ResolveImmediate(s, use_float, target)
           size == IF target >= s.operand.size THEN target ELSE s.operand.size
           s1   == Allocate(s, "gp", size)
           reg  == Last(s1.temps)
           load == Instr("LoadImm", <<reg>>, FALSE, s.operand.value)
           s2   == Before(s1, load)
           int  == [s2 EXCEPT !.operand = reg]
           constants == RegisterDouble(s.pool, s.operand.value)
           symbol    == ConstantSymbol(DoubleName(constants, s.operand.value))
           s3   == [s EXCEPT !.pool = constants]
<1>1. t = IF use_float THEN AccessSymbol(s3, symbol, FALSE, TRUE, 8) ELSE int
  BY DEF ResolveImmediate, ResolveFloatImmediate
<1>2. CASE use_float
  <2> HIDE DEF constants, symbol
  <2>1. /\ s3.failed = s.failed /\ s3.free = s.free /\ s3.temps = s.temps
        /\ s3.before = s.before /\ s3.after = s.after /\ s3.frame = s.frame
        /\ s3.instr = s.instr /\ DOMAIN s3 = Fields
    BY DEF Tidy, Sound, Fields
  <2> HIDE DEF s3
  <2>2. Tidy(s3, i)
    BY <2>1, Unrelated DEF Tidy
  <2> DEFINE no == FALSE
             yes == TRUE
             u == AccessSymbol(s3, symbol, no, yes, 8)
  <2>3. no \in BOOLEAN /\ yes \in BOOLEAN /\ yes
    OBVIOUS
  <2>4. t = u
    BY <1>1, <1>2
  <2> HIDE DEF no, yes, t
  <2>5. Tidy(u, i) /\ (u.failed = FALSE =>
                         s3.failed = FALSE /\ IsScratch(u.operand, "simd", 8))
    BY <2>2, <2>3, AccessTidy
  <2> HIDE DEF u
  <2> QED BY <1>2, <2>1, <2>4, <2>5 DEF t
<1>3. CASE ~use_float
  <2> HIDE DEF size
  <2>1. Tidy(s1, i) /\ (s1.failed = FALSE => s.failed = FALSE /\ IsScratch(reg, "gp", size))
    BY AllocateTidy DEF Files
  <2> HIDE DEF s1, reg
  <2>2. ASSUME s1.failed = FALSE PROVE Fit(load)
    <3>1. reg.kind = "Register"
      BY <2>1, <2>2, ScratchFields
    <3>2. IsBase(X29)
      BY DEF IsBase, X29, Register
    <3> QED BY <3>1, <3>2, AddressingFits
  <2> HIDE DEF load
  <2>3. Tidy(s2, i) /\ s2.failed = s1.failed
    BY <2>1, <2>2, EmitTidy
  <2> HIDE DEF s2
  <2>4. Tidy(int, i) /\ int.operand = reg /\ int.failed = s2.failed
    BY <2>3, OperandTidy
  <2> HIDE DEF int, t
  <2>5. Tidy(t, i) /\ (t.failed = FALSE =>
                         s.failed = FALSE /\ IsScratch(t.operand, "gp", size))
    BY <1>1, <1>3, <2>1, <2>3, <2>4
  <2> QED BY <1>3, <2>5 DEF t, size
<1> QED BY <1>2, <1>3

IsPlace(o) == o.kind \in {"Pseudo", "Data"} /\ o.size \in {4, 8}

\* What the sub of an address cannot reach from x29.
IsFarFrom(f, src) ==
  src.kind = "Pseudo" /\ ~CanEncodeImm12(-LocalOffset(f, src.name, src.size))

LEMMA PlacedTwice ==
  ASSUME NEW f, NEW name, NEW size
  PROVE  LocalOffset(Place(f, name, size), name, size) = LocalOffset(f, name, size)
<1> DEFINE g == Place(f, name, size)
<1>1. name \in DOMAIN g.offsets
  BY DEF Place
<1>2. Place(g, name, size) = g
  BY <1>1 DEF Place
<1> HIDE DEF g
<1> QED BY <1>2 DEF LocalOffset, g

\* The instruction that computes an address can be encoded, too, unless the
\* frame is too large.
LEMMA AddressTidy ==
  ASSUME NEW i, NEW s, Tidy(s, i), NEW dst, IsPlace(dst), dst.size = 8,
         NEW src, IsPlace(src)
  PROVE  LET t == ResolveAddress(s, dst, src)
         IN  t.failed = FALSE => /\ FitCode(t.before) /\ FitCode(t.after)
                                 /\ IsFrame(t.frame)
                                 /\ Fit(t.instr) <=> ~IsFarFrom(t.frame, src)
<1> DEFINE s1 == [s EXCEPT !.operand = dst]
           placed == ResolvePseudo(s1)
           s2 == IF dst.kind = "Pseudo"
                 THEN ResolveMemoryOperand(placed, TRUE, FALSE)
                 ELSE ResolveDataOperand(s1, TRUE, FALSE)
           reg    == s2.operand
           offset == LocalOffset(s2.frame, src.name, src.size)
           symbol == DataSymbol(src.name)
           page   == Instr("Adrp", <<reg>>, FALSE, symbol)
           local  == Instr("Sub", <<reg, X29, Immediate(-offset, FALSE, 4)>>, FALSE, 0)
           global == Instr("GlobalAdd", <<reg, reg>>, FALSE, symbol)
           frame2 == Place(s2.frame, src.name, src.size)
           s3     == Before(s2, page)
           near   == [s2 EXCEPT !.frame = Place(@, src.name, src.size), !.instr = local]
           data   == [s3 EXCEPT !.instr = global]
           t      == ResolveAddress(s, dst, src)
<1>0. t = IF src.kind = "Pseudo" THEN near ELSE data
  BY DEF ResolveAddress
<1>1. Tidy(s1, i) /\ s1.operand = dst
  BY OperandTidy
<1> HIDE DEF s1
<1>2. /\ Tidy(placed, i)
      /\ placed.failed = FALSE => IsAddress(placed.operand, 8)
  BY <1>1, PseudoTidy DEF IsPlace
<1> HIDE DEF placed
<1>3. Tidy(s2, i) /\ (s2.failed = FALSE => IsScratch(reg, "gp", 8))
  <2> DEFINE no == FALSE
             yes == TRUE
             m == ResolveMemoryOperand(placed, yes, no)
             d == ResolveDataOperand(s1, yes, no)
  <2>1. no \in BOOLEAN /\ ~no /\ yes \in BOOLEAN
    OBVIOUS
  <2>2. s2 = m \/ s2 = d
    OBVIOUS
  <2> HIDE DEF no, yes
  <2>3. Tidy(m, i) /\ (m.failed = FALSE => IsScratch(m.operand, "gp", 8))
    BY <1>2, <2>1, MemoryTidy
  <2>4. Tidy(d, i) /\ (d.failed = FALSE => IsScratch(d.operand, "gp", 8))
    BY <1>1, <2>1, DataTidy
  <2> HIDE DEF m, d, s2
  <2> QED BY <2>2, <2>3, <2>4
<1> HIDE DEF s2
<1>4. s2.failed = FALSE => IsBase(reg)
  BY <1>3, ScratchIsBase
<1> HIDE DEF reg
<1>5. s2.failed = FALSE =>
        Fit(page) /\ Fit(global) /\ (Fit(local) <=> CanEncodeImm12(-offset))
  <2> HIDE DEF offset
  <2> QED BY <1>4, FrameAddressFits, AddressingFits DEF IsBase
<1>12. LocalOffset(frame2, src.name, src.size) = offset
  BY PlacedTwice
<1> HIDE DEF offset
<1>6. DOMAIN s2 = Fields
  BY <1>3 DEF Tidy, Sound
<1> HIDE DEF page, local, global
<1>7. Tidy(s3, i) /\ s3.failed = s2.failed
  BY <1>3, <1>5, EmitTidy
<1> HIDE DEF s3
<1>8. DOMAIN s3 = Fields
  BY <1>7 DEF Tidy, Sound
<1>9. /\ near.failed = s2.failed /\ near.before = s2.before /\ near.after = s2.after
      /\ near.frame = frame2 /\ near.instr = local
      /\ data.failed = s3.failed /\ data.before = s3.before /\ data.after = s3.after
      /\ data.frame = s3.frame /\ data.instr = global
  BY <1>6, <1>8 DEF Fields
<1>10. s2.failed = FALSE => IsFrame(frame2)
  BY <1>3, PlaceFrame DEF Tidy, IsPlace
<1> HIDE DEF near, data, t, frame2
<1>11. ASSUME t.failed = FALSE
       PROVE  /\ FitCode(t.before) /\ FitCode(t.after) /\ IsFrame(t.frame)
              /\ Fit(t.instr) <=> ~IsFarFrom(t.frame, src)
  <2>1. CASE src.kind = "Pseudo"
    BY <1>0, <1>3, <1>5, <1>9, <1>10, <1>11, <1>12, <2>1 DEF Tidy, IsFarFrom
  <2>2. CASE src.kind # "Pseudo"
    BY <1>0, <1>5, <1>7, <1>9, <1>11, <2>2 DEF Tidy, IsFarFrom
  <2> QED BY <2>1, <2>2
<1> QED BY <1>11 DEF t

-----------------------------------------------------------------------------
(* The actions, once more.                                                  *)

\* What operand k of the source instruction has become.
Rewritten(k) ==
  IF phase = "operands"
  THEN IF k < idx THEN Middle(source, k, operands[k]) ELSE operands[k] = source.operands[k]
  ELSE IF k < idx THEN Final(source, k, operands[k]) ELSE Middle(source, k, operands[k])

OperandsRewritten ==
  /\ Emitted(source)
  /\ instr = source
  /\ \E S : operands \in Seq(S)
  /\ Len(operands) = Len(source.operands)
  /\ idx \in Nat \ {0}
  /\ \A k \in DOMAIN operands : Rewritten(k)

FitInv ==
  /\ phase # "failed" => FitCode(before) /\ FitCode(after) /\ IsFrame(frame)
  /\ phase \in {"operands", "registers"} => OperandsRewritten
  /\ phase = "resolved" => (Fit(instr) <=> ~HasNoCode(frame, source))
  /\ phase = "address" =>
       \E a \in Places(8), b \in Places(4) \cup Places(8) :
         operands = <<a, b>> /\ source = Instr("Address", <<a, b>>, FALSE, 0)

LEMMA EmittedHasNoCode ==
  ASSUME NEW i, Emitted(i), NEW f
  PROVE  HasNoCode(f, i) <=> IsNotOfDouble(i) \/ IsLargeAdjustment(i)
<1>1. i.op # "Address"
  BY DEF Emitted
<1> QED BY <1>1 DEF HasNoCode, IsFarAddress

LEMMA NoCodeFits == FitCode(<<>>)
<1>1. <<>> \in Seq({}) /\ DOMAIN <<>> = {}
  OBVIOUS
<1> QED BY <1>1 DEF FitCode

LEMMA InitFits == ASSUME Init PROVE FitInv
<1>1. FitCode(before) /\ FitCode(after)
  BY NoCodeFits DEF Init
<1>2. IsFrame(frame)
  <2>1. PICK fill \in Fill : frame = [EmptyFrame EXCEPT !.current_offset = fill]
    BY DEF Init
  <2>2. frame.current_offset = fill /\ DOMAIN frame.offsets = {}
    BY <2>1 DEF EmptyFrame
  <2> QED BY <2>2, FillAssumption DEF IsFrame
<1> QED BY <1>1, <1>2 DEF Init, FitInv

LEMMA FetchFits ==
  ASSUME IInv, FitInv, NEW i \in Instructions, Fetch(i)
  PROVE  FitInv'
<1>1. /\ before' = <<>> /\ after' = <<>> /\ frame' = frame /\ source' = i /\ instr' = i
      /\ idx' = 1 /\ operands' = i.operands /\ phase = "ready"
      /\ i.op # "Address" =>
           phase' = IF i.operands = <<>> THEN "resolved" ELSE "operands"
      /\ i.op = "Address" /\ i.operands # <<>> => phase' = "address"
  BY DEF Fetch
<1>2. FitCode(before') /\ FitCode(after') /\ IsFrame(frame')
  BY <1>1, NoCodeFits DEF FitInv
<1>3. CASE Emitted(i)
  <2>1. phase' = IF i.operands = <<>> THEN "resolved" ELSE "operands"
    BY <1>1, <1>3 DEF Emitted
  <2>2. ASSUME phase' = "operands" PROVE OperandsRewritten'
    <3>1. PICK S : i.operands \in Seq(S)
      BY <1>3 DEF Emitted
    <3>2. \A k \in DOMAIN operands' : ~(k < idx')
      BY <1>1, <3>1
    <3>3. \A k \in DOMAIN operands' : Rewritten(k)'
      BY <1>1, <2>2, <3>2 DEF Rewritten
    <3> QED BY <1>1, <1>3, <3>1, <3>3 DEF OperandsRewritten
  <2>3. ASSUME phase' = "resolved" PROVE Fit(instr') <=> ~HasNoCode(frame', source')
    <3>1. \A k \in DOMAIN i.operands : Final(i, k, i.operands[k])
      BY <2>1, <2>3
    <3>2. [i EXCEPT !.operands = i.operands] = i
      BY <1>3 DEF Emitted, Instr
    <3>3. \E S : i.operands \in Seq(S)
      BY <1>3 DEF Emitted
    <3>4. Fit([i EXCEPT !.operands = i.operands]) <=> ~(IsNotOfDouble(i) \/ IsLargeAdjustment(i))
      BY <1>3, <3>1, <3>3, FinalFits
    <3>5. HasNoCode(frame', source') <=> IsNotOfDouble(i) \/ IsLargeAdjustment(i)
      BY <1>1, <1>3, EmittedHasNoCode
    <3> QED BY <1>1, <3>2, <3>4, <3>5
  <2> QED BY <1>1, <1>2, <2>1, <2>2, <2>3 DEF FitInv
<1>4. CASE \E a \in Places(8), b \in Places(4) \cup Places(8) :
             i = Instr("Address", <<a, b>>, FALSE, 0)
  <2>1. PICK a \in Places(8), b \in Places(4) \cup Places(8) :
             i = Instr("Address", <<a, b>>, FALSE, 0)
    BY <1>4
  <2>2. i.op = "Address" /\ i.operands = <<a, b>>
    BY <2>1 DEF Instr
  <2>3. i.op = "Address" /\ i.operands # <<>>
    BY <2>2
  <2>4. phase' = "address"
    BY <1>1, <2>3
  <2>5. source' = Instr("Address", <<a, b>>, FALSE, 0) /\ operands' = <<a, b>>
    BY <1>1, <2>1, <2>2
  <2> QED BY <1>1, <1>2, <2>4, <2>5 DEF FitInv
<1> QED BY <1>3, <1>4, EveryInstructionEmitted

LEMMA StateTidy ==
  ASSUME IInv, FitInv, phase # "failed", NEW o
  PROVE  Tidy(State(o), instr) /\ State(o).operand = o /\ State(o).failed = FALSE
<1>1. Sound(State(o))
  BY StateSound DEF IInv
<1>2. /\ State(o).before = before /\ State(o).after = after /\ State(o).frame = frame
      /\ State(o).instr = instr /\ State(o).operand = o /\ State(o).failed = FALSE
  BY DEF State
<1> QED BY <1>1, <1>2 DEF Tidy, FitInv

\* One operand rewritten as its loop should leaves the others as they were.
LEMMA RewriteFits ==
  ASSUME FitInv, phase \in {"operands", "registers"}, NEW s, Tidy(s, source),
         RewriteOperand(s), idx \in DOMAIN operands,
         s.failed = FALSE => IF phase = "operands" THEN Middle(source, idx, s.operand)
                                                   ELSE Final(source, idx, s.operand)
  PROVE  FitInv'
<1>1. CASE s.failed = TRUE
  <2>1. phase' = "failed"
    BY <1>1 DEF RewriteOperand, Becomes
  <2> QED BY <2>1 DEF FitInv
<1>2. CASE s.failed = FALSE
  <2>1. /\ phase' = phase /\ instr' = s.instr /\ before' = s.before /\ after' = s.after
        /\ frame' = s.frame /\ source' = source /\ idx' = idx + 1
        /\ operands' = [operands EXCEPT ![idx] = s.operand]
    BY <1>2 DEF RewriteOperand, Becomes
  <2>2. /\ FitCode(s.before) /\ FitCode(s.after) /\ IsFrame(s.frame) /\ s.instr = source
    BY <1>2 DEF Tidy
  <2>3. OperandsRewritten
    BY DEF FitInv
  <2>4. PICK S : operands \in Seq(S)
    BY <2>3 DEF OperandsRewritten
  <2>5. DOMAIN operands = 1 .. Len(operands) /\ Len(operands) \in Nat
    BY <2>4
  <2>6. DOMAIN operands' = DOMAIN operands /\ operands'[idx] = s.operand
        /\ \A k \in DOMAIN operands : k # idx => operands'[k] = operands[k]
    BY <2>1
  <2>7. operands' \in Seq(S \cup {s.operand}) /\ Len(operands') = Len(operands)
    <3>1. operands \in Seq(S \cup {s.operand}) /\ s.operand \in S \cup {s.operand}
      BY <2>4
    <3> HIDE DEF RewriteOperand
    <3> QED BY <3>1, <2>1
  <2>8. \A k \in DOMAIN operands' : Rewritten(k)'
    <3> SUFFICES ASSUME NEW k \in DOMAIN operands' PROVE Rewritten(k)'
      OBVIOUS
    <3>1. k \in Nat /\ idx \in Nat
      BY <2>5, <2>6
    <3>2. Rewritten(k)
      BY <2>3, <2>6 DEF OperandsRewritten
    <3>3. CASE k = idx
      BY <3>1, <3>3, <1>2, <2>1, <2>6 DEF Rewritten
    <3>4. CASE k # idx
      BY <3>1, <3>2, <3>4, <2>1, <2>6 DEF Rewritten
    <3> QED BY <3>3, <3>4
  <2>9. OperandsRewritten'
    BY <2>1, <2>2, <2>3, <2>7, <2>8 DEF OperandsRewritten
  <2> QED BY <2>1, <2>2, <2>9 DEF FitInv
<1> QED BY <1>1, <1>2 DEF Tidy, Sound

\* Both loops ask of the instruction what Floats and MovesStackPointer say.
LEMMA FirstLoopFits ==
  ASSUME IInv, FitInv, ResolveOperand
  PROVE  FitInv'
<1> DEFINE src == source.operands[idx]
           s   == State(operands[idx])
           is_dst == IsDestination(instr, idx)
           use_float == NeedsFloatRegister(instr, idx)
           placed  == ResolvePseudo(s)
           fetched == ResolveDataOperand(s, is_dst, use_float)
           pointed == ResolveIndirectMemory(s)
           t == IF s.operand.kind = "Pseudo" THEN placed
                ELSE IF s.operand.kind = "Data" THEN fetched
                ELSE IF s.operand.kind = "Indirect" THEN pointed ELSE s
<1>1. phase = "operands" /\ OperandsRewritten /\ RewriteOperand(t)
  BY DEF ResolveOperand, FitInv
<1>2. /\ instr = source /\ Emitted(source)
      /\ idx \in DOMAIN operands /\ idx \in DOMAIN source.operands
  <2>1. idx <= Len(operands)
    BY <1>1 DEF RewriteOperand
  <2>2. DOMAIN operands = 1 .. Len(operands) /\ DOMAIN source.operands = 1 .. Len(operands)
        /\ Len(operands) \in Nat
    BY <1>1 DEF OperandsRewritten, Emitted
  <2> QED BY <1>1, <2>1, <2>2 DEF OperandsRewritten
<1>3. operands[idx] = src
  BY <1>1, <1>2 DEF OperandsRewritten, Rewritten
<1>4. OperandEmitted(source, idx)
  BY <1>2 DEF Emitted
<1>5. Tidy(s, source) /\ s.operand = src /\ s.failed = FALSE
  BY <1>1, <1>2, <1>3, StateTidy
<1>6. is_dst \in BOOLEAN /\ use_float \in BOOLEAN
  BY <1>2 DEF IsDestination, NeedsFloatRegister, Emitted
<1>7. use_float = NeedsFloatRegister(source, idx)
  BY <1>2
<1> HIDE DEF s, is_dst, use_float
<1>8. Tidy(t, source) /\ (t.failed = FALSE => Middle(source, idx, t.operand))
  <2>1. CASE src.kind = "Pseudo"
    <3>1. src.size \in {4, 8}
      BY <1>4 DEF OperandEmitted
    <3>2. Tidy(placed, source) /\ (placed.failed = FALSE =>
             IsAddress(placed.operand, src.size) /\ placed.operand.base = X29)
      BY <1>5, <3>1, PseudoTidy
    <3>3. t = placed
      BY <1>5, <2>1
    <3> HIDE DEF placed, t
    <3> QED BY <2>1, <3>2, <3>3 DEF Middle
  <2>2. CASE src.kind = "Data"
    <3>1. Tidy(fetched, source) /\ (fetched.failed = FALSE =>
             IF use_float THEN IsScratch(fetched.operand, "simd", 8)
                          ELSE IsScratch(fetched.operand, "gp", src.size))
      BY <1>5, <1>6, DataTidy
    <3>2. t = fetched
      BY <1>5, <2>2
    <3>3. Floats(source, idx) <=> use_float
      BY <1>7, <2>2 DEF Floats
    <3> HIDE DEF fetched, t
    <3> QED BY <2>2, <3>1, <3>2, <3>3 DEF Middle
  <2>3. CASE src.kind = "Indirect"
    <3>1. src.pointer.kind \in {"Pseudo", "Data"} /\ src.pointer.size = 8
      BY <1>4, <2>3 DEF OperandEmitted
    <3>2. Tidy(pointed, source) /\ (pointed.failed = FALSE =>
             IsAddress(pointed.operand, src.size) /\ pointed.operand.offset = 0)
      BY <1>5, <3>1, IndirectTidy
    <3>3. t = pointed
      BY <1>5, <2>3
    <3> HIDE DEF pointed, t
    <3> QED BY <2>3, <3>2, <3>3 DEF Middle
  <2>4. CASE src.kind \notin {"Pseudo", "Data", "Indirect"}
    <3>1. t = s
      BY <1>5, <2>4
    <3> HIDE DEF t
    <3> QED BY <1>5, <2>4, <3>1 DEF Middle
  <2> QED BY <2>1, <2>2, <2>3, <2>4
<1> HIDE DEF t
<1> QED BY <1>1, <1>2, <1>8, RewriteFits

\* The stack pointer is adjusted where the lowerers ask for it, nowhere else.
LEMMA StackPointerMoves ==
  ASSUME OperandsRewritten, phase = "registers", idx \in DOMAIN operands
  PROVE  IsSpArithmetic <=> MovesStackPointer(source)
<1>1. 1 \in DOMAIN operands /\ 1 \in DOMAIN source.operands
  BY DEF OperandsRewritten, Emitted
<1>2. instr.op = source.op /\ Emitted(source)
  BY DEF OperandsRewritten, Emitted
<1>3. Final(source, 1, operands[1]) \/ Middle(source, 1, operands[1])
  BY <1>1 DEF OperandsRewritten, Rewritten
<1>4. SP.kind = "Register"
  BY DEF SP, Register
<1>5. ASSUME MovesStackPointer(source) PROVE IsSpArithmetic
  <2>1. source.op \in {"Add", "Sub"} /\ source.operands[1] = SP
    BY <1>5 DEF MovesStackPointer
  <2>2. operands[1] = SP
    BY <1>3, <1>4, <1>5, <2>1 DEF Final, Middle, IsLoadStore
  <2> QED BY <1>2, <2>1, <2>2 DEF IsSpArithmetic
<1>6. ASSUME IsSpArithmetic PROVE MovesStackPointer(source)
  <2>1. source.op \in {"Add", "Sub"} /\ operands[1] = SP
    BY <1>2, <1>6 DEF IsSpArithmetic
  <2>2. \A file, size : ~IsScratch(SP, file, size)
    BY ScratchFields
  <2>3. \A size : ~IsAddress(SP, size)
    BY <1>4, AddressFields
  <2>4. source.operands[1] = SP \/ MovesStackPointer(source)
    <3>1. CASE Final(source, 1, SP)
      BY <3>1, <2>1, <2>2 DEF Final, IsLoadStore
    <3>2. CASE Middle(source, 1, SP)
      BY <3>2, <2>2, <2>3 DEF Middle
    <3> QED BY <3>1, <3>2, <1>3, <2>1
  <2> QED BY <2>1, <2>4 DEF MovesStackPointer
<1> QED BY <1>5, <1>6

LEMMA SecondLoopFits ==
  ASSUME IInv, FitInv, MaterializeOperand
  PROVE  FitInv'
<1> DEFINE src == source.operands[idx]
           o   == operands[idx]
           s   == State(operands[idx])
           is_dst == IsDestination(instr, idx)
           use_float == NeedsFloatRegister(instr, idx)
           near    == MaterializeLargeOffset(s)
           loaded  == ResolveMemoryOperand(s, is_dst, use_float)
           target  == TargetSize
           floats  == use_float \/ s.operand.is_float
           literal == ResolveImmediate(s, floats, target)
           t == IF s.operand.kind = "Memory"
                THEN IF IsLoadStore(instr) /\ idx = Len(operands) THEN near ELSE loaded
                ELSE IF s.operand.kind = "Immediate" /\ ~IsSpArithmetic THEN literal ELSE s
<1>1. phase = "registers" /\ OperandsRewritten /\ RewriteOperand(t)
  BY DEF MaterializeOperand, FitInv
<1>2. /\ instr = source /\ Emitted(source) /\ Len(operands) = Len(source.operands)
      /\ idx \in DOMAIN operands /\ idx \in DOMAIN source.operands
  <2>1. idx <= Len(operands)
    BY <1>1 DEF RewriteOperand
  <2>2. DOMAIN operands = 1 .. Len(operands) /\ DOMAIN source.operands = 1 .. Len(operands)
        /\ Len(operands) \in Nat
    BY <1>1 DEF OperandsRewritten, Emitted
  <2> QED BY <1>1, <2>1, <2>2 DEF OperandsRewritten
<1>3. Middle(source, idx, o)
  BY <1>1, <1>2 DEF OperandsRewritten, Rewritten
<1>4. OperandEmitted(source, idx)
  BY <1>2 DEF Emitted
<1>5. Tidy(s, source) /\ s.operand = o /\ s.failed = FALSE
  BY <1>1, <1>2, StateTidy
<1>6. is_dst \in BOOLEAN /\ use_float \in BOOLEAN /\ use_float = NeedsFloatRegister(source, idx)
  BY <1>2 DEF IsDestination, NeedsFloatRegister, Emitted
<1>7. IsSpArithmetic <=> MovesStackPointer(source)
  BY <1>1, <1>2, StackPointerMoves
<1>8. target = TargetOf(source)
  BY DEF TargetSize, TargetOf
<1>9. MovesStackPointer(source) => src.kind \in {"Register", "Immediate"} /\ ~IsLoadStore(source)
  <2> SUFFICES ASSUME MovesStackPointer(source)
               PROVE  src.kind \in {"Register", "Immediate"} /\ ~IsLoadStore(source)
    OBVIOUS
  <2>1. PICK n : source = Moves(source.op, n)
    BY <1>2 DEF Emitted
  <2>2. src \in {SP, Immediate(n, FALSE, 8)}
    BY <1>2, <2>1, MovesFields
  <2> QED BY <2>2 DEF SP, Register, Immediate, IsLoadStore, MovesStackPointer
<1>10. src.kind = "Immediate" => src.is_float \in BOOLEAN
  BY <1>4 DEF OperandEmitted
<1> DEFINE last == IsLoadStore(source) /\ idx = Len(source.operands)
<1>11. /\ src.kind \in {"Pseudo", "Data", "Indirect", "Memory", "Immediate", "Register"}
       /\ src.kind = "Indirect" => last
       /\ last => src.kind \in {"Indirect", "Memory"}
       /\ use_float /\ src.kind # "Register" => src.size = 8
       /\ src.kind = "Memory" => IsAddress(src, src.size)
  BY <1>4, <1>6 DEF OperandEmitted, Floats, IsNotOfDouble, IsLoadStore
<1>12. src.kind # "Immediate" => Width(source, idx) = src.size
                               /\ (Floats(source, idx) <=> use_float)
  BY <1>6 DEF Width, Floats
<1>13. Final(source, idx, t.operand) <=>
         IF last THEN IsAddress(t.operand, src.size) /\ t.operand.offset \in -256 .. 255
         ELSE IF MovesStackPointer(source) \/ src.kind = "Register" THEN t.operand = src
         ELSE IF Floats(source, idx) THEN IsScratch(t.operand, "simd", 8)
                                     ELSE IsScratch(t.operand, "gp", Width(source, idx))
  BY DEF Final
<1>14. last <=> IsLoadStore(instr) /\ idx = Len(operands)
  BY <1>2
<1> HIDE DEF s, is_dst, use_float, target, last
<1>15. Tidy(t, source) /\ (t.failed = FALSE => Final(source, idx, t.operand))
  <2>1. CASE src.kind \in {"Pseudo", "Indirect", "Memory"}
    <3>1. IsAddress(o, src.size)
      BY <1>3, <1>11, <2>1 DEF Middle
    <3>2. o.kind = "Memory"
      BY <3>1, AddressFields
    <3>3. s.failed = FALSE => IsAddress(s.operand, src.size)
      BY <3>1, <1>5
    <3>4. CASE last
      <4>1. t = near
        BY <3>2, <3>4, <1>5, <1>14
      <4>2. Tidy(near, source) /\ (near.failed = FALSE =>
               IsAddress(near.operand, src.size) /\ near.operand.offset \in -256 .. 255)
        BY <3>3, <1>5, LargeOffsetTidy
      <4> HIDE DEF near, t
      <4> QED BY <1>13, <3>4, <4>1, <4>2
    <3>5. CASE ~last
      <4>1. t = loaded
        BY <3>2, <3>5, <1>5, <1>14
      <4>2. use_float => src.size = 8
        BY <1>11, <2>1
      <4>3. Tidy(loaded, source) /\ (loaded.failed = FALSE =>
               IF use_float THEN IsScratch(loaded.operand, "simd", 8)
                            ELSE IsScratch(loaded.operand, "gp", src.size))
        BY <3>3, <1>5, <1>6, <4>2, MemoryTidy
      <4> HIDE DEF loaded, t
      <4> QED BY <1>9, <1>12, <1>13, <2>1, <3>5, <4>1, <4>3
    <3> QED BY <3>4, <3>5
  <2>2. CASE src.kind = "Immediate"
    <3>1. o = src
      BY <1>3, <2>2 DEF Middle
    <3>2. CASE MovesStackPointer(source)
      <4>1. t = s
        BY <3>1, <3>2, <2>2, <1>5, <1>7
      <4> HIDE DEF t
      <4> QED BY <1>5, <1>11, <1>13, <2>2, <3>1, <3>2, <4>1
    <3>3. CASE ~MovesStackPointer(source)
      <4>1. t = literal
        BY <3>1, <3>3, <2>2, <1>5, <1>7
      <4>2. floats \in BOOLEAN /\ (floats <=> Floats(source, idx))
        BY <1>5, <1>6, <1>10, <2>2, <3>1 DEF Floats
      <4>3. Width(source, idx) = IF target >= s.operand.size THEN target ELSE s.operand.size
        BY <1>5, <1>8, <2>2, <3>1 DEF Width
      <4> HIDE DEF floats
      <4>4. Tidy(literal, source) /\ (literal.failed = FALSE =>
               IF floats THEN IsScratch(literal.operand, "simd", 8)
                         ELSE IsScratch(literal.operand, "gp", Width(source, idx)))
        BY <1>5, <4>2, <4>3, ImmediateTidy
      <4> HIDE DEF literal, t
      <4> QED BY <1>11, <1>13, <2>2, <3>3, <4>1, <4>2, <4>4
    <3> QED BY <3>2, <3>3
  <2>3. CASE src.kind = "Data"
    <3>1. IF Floats(source, idx) THEN IsScratch(o, "simd", 8)
                                 ELSE IsScratch(o, "gp", src.size)
      BY <1>3, <2>3 DEF Middle
    <3>2. o.kind = "Register"
      BY <3>1, ScratchFields
    <3>3. t = s
      BY <3>2, <1>5
    <3> HIDE DEF t
    <3> QED BY <1>5, <1>9, <1>11, <1>12, <1>13, <2>3, <3>1, <3>3
  <2>4. CASE src.kind = "Register"
    <3>1. o = src
      BY <1>3, <2>4 DEF Middle
    <3>2. t = s
      BY <3>1, <2>4, <1>5
    <3> HIDE DEF t
    <3> QED BY <1>5, <1>11, <1>13, <2>4, <3>1, <3>2
  <2> QED BY <1>11, <2>1, <2>2, <2>3, <2>4
<1> HIDE DEF t
<1> QED BY <1>1, <1>2, <1>15, RewriteFits

LEMMA SecondLoopStarts ==
  ASSUME FitInv, StartSecondLoop
  PROVE  FitInv'
<1>1. /\ phase = "operands" /\ phase' = "registers" /\ idx' = 1 /\ idx > Len(operands)
      /\ operands' = operands /\ source' = source /\ instr' = instr
      /\ before' = before /\ after' = after /\ frame' = frame
  BY DEF StartSecondLoop
<1>2. OperandsRewritten
  BY <1>1 DEF FitInv
<1>3. DOMAIN operands = 1 .. Len(operands) /\ Len(operands) \in Nat /\ idx \in Nat
  BY <1>2 DEF OperandsRewritten
<1>4. \A k \in DOMAIN operands : Rewritten(k)'
  <2> SUFFICES ASSUME NEW k \in DOMAIN operands PROVE Rewritten(k)'
    OBVIOUS
  <2>1. k < idx /\ ~(k < 1)
    BY <1>1, <1>3
  <2>2. Rewritten(k)
    BY <1>2 DEF OperandsRewritten
  <2> QED BY <1>1, <2>1, <2>2 DEF Rewritten
<1>5. OperandsRewritten'
  BY <1>1, <1>2, <1>4 DEF OperandsRewritten
<1>6. FitCode(before') /\ FitCode(after') /\ IsFrame(frame')
  BY <1>1 DEF FitInv
<1> QED BY <1>1, <1>5, <1>6 DEF FitInv

LEMMA OperandsSetFit ==
  ASSUME FitInv, SetOperands
  PROVE  FitInv'
<1>1. /\ phase = "registers" /\ phase' = "resolved" /\ idx > Len(operands)
      /\ instr' = [instr EXCEPT !.operands = operands]
      /\ before' = before /\ after' = after /\ frame' = frame /\ source' = source
  BY DEF SetOperands
<1>2. OperandsRewritten
  BY <1>1 DEF FitInv
<1>3. DOMAIN operands = 1 .. Len(operands) /\ Len(operands) \in Nat /\ idx \in Nat
  BY <1>2 DEF OperandsRewritten
<1>4. \A k \in DOMAIN operands : Final(source, k, operands[k])
  BY <1>1, <1>2, <1>3 DEF OperandsRewritten, Rewritten
<1>5. Fit([source EXCEPT !.operands = operands])
        <=> ~(IsNotOfDouble(source) \/ IsLargeAdjustment(source))
  BY <1>2, <1>4, FinalFits DEF OperandsRewritten
<1>8. HasNoCode(frame', source') <=> IsNotOfDouble(source) \/ IsLargeAdjustment(source)
  BY <1>1, <1>2, EmittedHasNoCode DEF OperandsRewritten
<1>6. Fit(instr') <=> ~HasNoCode(frame', source')
  BY <1>1, <1>2, <1>5, <1>8 DEF OperandsRewritten
<1>7. FitCode(before') /\ FitCode(after') /\ IsFrame(frame')
  BY <1>1 DEF FitInv
<1> QED BY <1>1, <1>6, <1>7 DEF FitInv

LEMMA AddressFits ==
  ASSUME IInv, FitInv, ResolveVirtualInstructions
  PROVE  FitInv'
<1> DEFINE s == State(operands[1])
           t == ResolveAddress(s, operands[1], operands[2])
<1>1. phase = "address" /\ Becomes(t, "resolved") /\ source' = source
  BY DEF ResolveVirtualInstructions
<1>2. PICK a \in Places(8), b \in Places(4) \cup Places(8) :
        operands = <<a, b>> /\ source = Instr("Address", <<a, b>>, FALSE, 0)
  BY <1>1 DEF FitInv
<1>3. operands[1] = a /\ operands[2] = b
  BY <1>2
<1>4. IsPlace(a) /\ a.size = 8 /\ IsPlace(b)
  BY PlaceOperands DEF IsPlace
<1>5. Tidy(s, instr)
  BY <1>1, StateTidy
<1>10. ASSUME NEW f PROVE HasNoCode(f, source) <=> IsFarFrom(f, b)
  <2>1. source.op = "Address" /\ source.operands[2] = b
    BY <1>2 DEF Instr
  <2> QED BY <2>1 DEF HasNoCode, IsFarAddress, IsFarFrom, IsNotOfDouble, IsLargeAdjustment
<1>6. t.failed = FALSE => /\ FitCode(t.before) /\ FitCode(t.after)
                          /\ IsFrame(t.frame)
                          /\ Fit(t.instr) <=> ~IsFarFrom(t.frame, b)
  <2> HIDE DEF s
  <2>0. PICK r, i : r = s /\ Tidy(r, i)
    BY <1>5
  <2> DEFINE u == ResolveAddress(r, a, b)
  <2>1. t = u
    BY <1>3, <2>0
  <2>2. u.failed = FALSE => /\ FitCode(u.before) /\ FitCode(u.after)
                            /\ IsFrame(u.frame)
                            /\ Fit(u.instr) <=> ~IsFarFrom(u.frame, b)
    BY <1>4, <2>0, AddressTidy
  <2> HIDE DEF t, u
  <2> QED BY <2>1, <2>2
<1>7. t.failed \in BOOLEAN
  <2>1. Sound(t)
    BY <1>5, AddressSound DEF Tidy
  <2> HIDE DEF t
  <2> QED BY <2>1 DEF Sound
<1> HIDE DEF t
<1>8. CASE t.failed = FALSE
  <2>1. /\ phase' = "resolved" /\ instr' = t.instr /\ before' = t.before
        /\ after' = t.after /\ frame' = t.frame
    BY <1>1, <1>8 DEF Becomes
  <2>2. Fit(instr') <=> ~HasNoCode(frame', source')
    BY <1>1, <1>6, <1>8, <1>10, <2>1
  <2> QED BY <1>6, <1>8, <2>1, <2>2 DEF FitInv
<1>9. CASE t.failed = TRUE
  BY <1>1, <1>9 DEF Becomes, FitInv
<1> QED BY <1>7, <1>8, <1>9

LEMMA TempsFreedFit ==
  ASSUME FitInv, FreeTemps
  PROVE  FitInv'
<1>1. phase = "resolved" /\ phase' = "ready" /\ before' = <<>> /\ after' = <<>> /\ frame' = frame
  BY DEF FreeTemps
<1> QED BY <1>1, NoCodeFits DEF FitInv

LEMMA StepFits ==
  ASSUME IInv, FitInv, [Next]_vars
  PROVE  FitInv'
<1>1. CASE UNCHANGED vars
  BY <1>1 DEF vars, FitInv, OperandsRewritten, Rewritten
<1> QED BY <1>1, FetchFits, FirstLoopFits, SecondLoopStarts, SecondLoopFits, OperandsSetFit,
           AddressFits, TempsFreedFit DEF Next

LEMMA FitCodeEncodes ==
  ASSUME FitInv
  PROVE  CodeEncodes
<1> SUFFICES ASSUME phase = "resolved"
             PROVE  HasNoCode(frame, source) <=> \E k \in DOMAIN Code : ~Fit(Code[k])
  BY DEF CodeEncodes, Fit
<1>1. FitCode(before) /\ FitCode(after) /\ (Fit(instr) <=> ~HasNoCode(frame, source))
  BY DEF FitInv
<1>2. PICK S : before \in Seq(S)
  BY <1>1 DEF FitCode
<1>3. PICK T : after \in Seq(T)
  BY <1>1 DEF FitCode
<1> DEFINE U == S \cup T \cup {instr}
<1>4. before \in Seq(U) /\ after \in Seq(U) /\ <<instr>> \in Seq(U)
  BY <1>2, <1>3
<1> HIDE DEF U
<1> DEFINE head == before \o <<instr>>
<1>6. /\ head \in Seq(U) /\ Len(head) = Len(before) + 1 /\ Len(before) \in Nat
      /\ \A j \in 1 .. Len(before) : head[j] = before[j]
      /\ head[Len(before) + 1] = instr
  BY <1>4
<1>7. \A j \in 1 .. Len(head) : Fit(head[j]) \/ j = Len(before) + 1
  BY <1>1, <1>4, <1>6 DEF FitCode
<1>8. Code = head \o after
  BY DEF Code
<1> HIDE DEF head
<1>9. /\ DOMAIN Code = 1 .. Len(head) + Len(after) /\ Len(head) \in Nat /\ Len(after) \in Nat
      /\ \A j \in DOMAIN Code : Code[j] = IF j <= Len(head) THEN head[j]
                                          ELSE after[j - Len(head)]
  <2>1. head \in Seq(U) /\ after \in Seq(U)
    BY <1>4, <1>6
  <2> QED BY <2>1, <1>8
<1>10. ASSUME NEW k \in DOMAIN Code, k # Len(before) + 1 PROVE Fit(Code[k])
  <2>1. CASE k <= Len(head)
    <3>1. k \in 1 .. Len(head)
      BY <1>9, <2>1
    <3> QED BY <1>7, <1>9, <1>10, <2>1, <3>1
  <2>2. CASE ~(k <= Len(head))
    <3>1. k - Len(head) \in 1 .. Len(after) /\ DOMAIN after = 1 .. Len(after)
      BY <1>4, <1>9, <2>2
    <3> QED BY <1>1, <1>9, <2>2, <3>1 DEF FitCode
  <2> QED BY <2>1, <2>2
<1>11. Len(before) + 1 \in DOMAIN Code /\ Code[Len(before) + 1] = instr
  BY <1>6, <1>9
<1> QED BY <1>1, <1>10, <1>11

\* CodeCanBeEncoded: whatever mixture of locals, static data, pointers and
\* immediates an instruction had, and wherever its stack arguments lie, what
\* the resolver appends to the function for it holds registers of the right
\* file and width, addresses in range, and immediates of 12 bits only where
\* x29 or sp is adjusted, except for the ! of a double constant, for the
\* address of a local whose offset has no such immediate, and for an
\* adjustment of sp by one that has none: there, and nowhere else, the
\* assembler refuses the code.
THEOREM CodeCanBeEncoded == Spec => []CodeEncodes
<1>1. Init => IInv /\ FitInv
  BY InitConserves, InitFits
<1>2. IInv /\ FitInv /\ [Next]_vars => IInv' /\ FitInv'
  BY StepConserves, StepFits
<1>3. FitInv => CodeEncodes
  BY FitCodeEncodes
<1> QED BY <1>1, <1>2, <1>3, PTL DEF Spec

-----------------------------------------------------------------------------
(* Execution, one instruction at a time.                                    *)

\* The machines that execution passes through.
LEMMA RunTrace ==
  ASSUME NEW S, NEW code \in Seq(S), NEW m
  PROVE  \E g : /\ g = [k \in 0 .. Len(code) |->
                          IF k = 0 THEN m ELSE Execute(g[k - 1], code[k])]
                /\ Run(code, m) = g[Len(code)]
<1> DEFINE N == Len(code)
           Rule(g, n) == g = [k \in 0 .. n |-> IF k = 0 THEN m ELSE Execute(g[k - 1], code[k])]
           T == {n \in Nat : \E g : Rule(g, n)}
<1>1. 0 \in T
  <2>1. Rule([k \in 0 .. 0 |-> m], 0)
    OBVIOUS
  <2> QED BY <2>1
<1>2. ASSUME NEW n \in Nat, n \in T PROVE n + 1 \in T
  <2>1. PICK g : Rule(g, n)
    BY <1>2
  <2> DEFINE h == [k \in 0 .. n + 1 |-> IF k = n + 1 THEN Execute(g[n], code[n + 1]) ELSE g[k]]
  <2>2. g[0] = m /\ \A k \in 1 .. n : g[k] = Execute(g[k - 1], code[k])
    BY <2>1
  <2>3. ASSUME NEW k \in 0 .. n + 1
        PROVE  h[k] = IF k = 0 THEN m ELSE Execute(h[k - 1], code[k])
    <3>1. CASE k = 0
      BY <3>1, <2>2
    <3>2. CASE k = n + 1
      <4>1. k - 1 \in 0 .. n + 1 /\ k - 1 = n /\ h[k - 1] = g[n]
        BY <3>2
      <4> QED BY <3>2, <4>1
    <3>3. CASE k \in 1 .. n
      <4>0. k - 1 \in 0 .. n + 1 /\ k - 1 # n + 1 /\ k # n + 1 /\ k # 0
        BY <3>3
      <4>1. h[k - 1] = g[k - 1] /\ h[k] = g[k]
        BY <4>0
      <4> QED BY <3>3, <4>0, <4>1, <2>2
    <3> QED BY <3>1, <3>2, <3>3
  <2>4. h = [k \in 0 .. n + 1 |-> h[k]]
    OBVIOUS
  <2> HIDE DEF h
  <2>5. Rule(h, n + 1)
    BY <2>3, <2>4
  <2>6. n + 1 \in Nat /\ \E r : Rule(r, n + 1)
    <3> HIDE DEF Rule
    <3> QED BY <2>5
  <2> HIDE DEF Rule
  <2> QED BY <2>6
<1>3. N \in T
  <2>1. \A n \in Nat : n \in T
    <3> HIDE DEF T
    <3> QED BY <1>1, <1>2, SetInduction
  <2> QED BY <2>1
<1>4. \E g : Rule(g, N)
  BY <1>3
<1>5. Run(code, m) = (CHOOSE g : Rule(g, N))[N]
  BY DEF Run
<1> QED BY <1>4, <1>5

LEMMA RunAppended ==
  ASSUME NEW S, NEW code \in Seq(S), NEW m, NEW i
  PROVE  Run(Append(code, i), m) = Execute(Run(code, m), i)
<1> DEFINE n == Len(code)
           more == Append(code, i)
<1>1. /\ more \in Seq(S \cup {i}) /\ Len(more) = n + 1 /\ n \in Nat
      /\ more[n + 1] = i /\ \A k \in 1 .. n : more[k] = code[k]
  BY Appended
<1>2. PICK f : /\ f = [k \in 0 .. n |-> IF k = 0 THEN m ELSE Execute(f[k - 1], code[k])]
               /\ Run(code, m) = f[n]
  BY RunTrace
<1> HIDE DEF more
<1>3. PICK g : /\ g = [k \in 0 .. n + 1 |->
                         IF k = 0 THEN m ELSE Execute(g[k - 1], more[k])]
               /\ Run(more, m) = g[n + 1]
  <2>1. \E g : /\ g = [k \in 0 .. Len(more) |->
                         IF k = 0 THEN m ELSE Execute(g[k - 1], more[k])]
              /\ Run(more, m) = g[Len(more)]
    BY <1>1, RunTrace
  <2> QED BY <1>1, <2>1
<1>n. n \in Nat
  BY <1>1
<1> HIDE DEF n
<1>4. f[0] = m /\ \A k \in 1 .. n : f[k] = Execute(f[k - 1], code[k])
  BY <1>n, <1>2
<1>5. g[0] = m /\ \A k \in 1 .. n + 1 : g[k] = Execute(g[k - 1], more[k])
  BY <1>n, <1>3
<1> DEFINE T == {k \in Nat : k <= n => f[k] = g[k]}
<1>6. 0 \in T
  BY <1>4, <1>5
<1>7. ASSUME NEW k \in Nat, k \in T PROVE k + 1 \in T
  <2> SUFFICES ASSUME k + 1 <= n PROVE f[k + 1] = g[k + 1]
    OBVIOUS
  <2>1. k + 1 \in 1 .. n /\ k + 1 \in 1 .. n + 1 /\ (k + 1) - 1 = k /\ f[k] = g[k]
    BY <1>1, <1>7
  <2> QED BY <2>1, <1>1, <1>4, <1>5
<1>8. n \in T
  <2>1. \A k \in Nat : k \in T
    <3> HIDE DEF T
    <3> QED BY <1>6, <1>7, SetInduction
  <2> QED BY <1>1, <2>1
<1>9. f[n] = g[n] /\ n + 1 \in 1 .. n + 1 /\ (n + 1) - 1 = n
  BY <1>1, <1>8
<1> QED BY <1>1, <1>2, <1>3, <1>5, <1>9 DEF more

LEMMA RunNothing == ASSUME NEW m PROVE Run(<<>>, m) = m
<1>1. <<>> \in Seq({}) /\ Len(<<>>) = 0
  OBVIOUS
<1> DEFINE none == <<>>
<1> HIDE DEF none
<1>2. PICK g : /\ g = [k \in 0 .. Len(none) |->
                         IF k = 0 THEN m ELSE Execute(g[k - 1], none[k])]
               /\ Run(none, m) = g[Len(none)]
  BY <1>1, RunTrace DEF none
<1>3. Len(none) = 0
  BY DEF none
<1>4. g[0] = m
  BY <1>2, <1>3
<1> QED BY <1>2, <1>3, <1>4 DEF none

-----------------------------------------------------------------------------
(* Machines.                                                                *)

\* The two register files are complete.
Machine(m) ==
  /\ DOMAIN m = {"gp", "simd", "mem", "flags", "frame"}
  /\ \A file \in Files : DOMAIN m[file] = 0 .. 31

IsRegister(r) == r.kind = "Register" /\ r.file \in Files /\ r.number \in 0 .. 31

\* n is m but for the registers of F.
Agree(m, n, F) ==
  /\ Machine(n)
  /\ n.mem = m.mem /\ n.flags = m.flags /\ n.frame = m.frame
  /\ \A file \in Files : \A k \in (0 .. 31) \ F[file] : n[file][k] = m[file][k]

\* n is m but for register r, which holds v.
SetTo(m, n, r, v) ==
  /\ Machine(n)
  /\ n.mem = m.mem /\ n.flags = m.flags /\ n.frame = m.frame
  /\ n[r.file][r.number] = v
  /\ \A file \in Files : \A k \in 0 .. 31 :
       ~(file = r.file /\ k = r.number) => n[file][k] = m[file][k]

\* No register of F is needed to read o.
Kept(o, F) ==
  /\ o.kind = "Register" => IsRegister(o) /\ o.number \notin F[o.file]
  /\ o.kind = "Memory" => /\ IsRegister(o.base) /\ o.base.file = "gp"
                          /\ o.base.number \notin F["gp"]

\* To assign to a register changes that register alone.
LEMMA AssignRegister ==
  ASSUME NEW m, Machine(m), NEW r, IsRegister(r), NEW v
  PROVE  SetTo(m, Assign(m, r, v), r, v)
<1> DEFINE n == [m EXCEPT ![r.file][r.number] = v]
<1>1. Assign(m, r, v) = n
  BY DEF Assign, IsRegister
<1>2. CASE r.file = "gp"
  <2>1. DOMAIN n = DOMAIN m /\ n["simd"] = m["simd"] /\ n["mem"] = m["mem"]
        /\ n["flags"] = m["flags"] /\ n["frame"] = m["frame"]
        /\ n["gp"] = [m["gp"] EXCEPT ![r.number] = v]
    BY <1>2 DEF Machine
  <2>2. r.number \in 0 .. 31 /\ DOMAIN m["gp"] = 0 .. 31 /\ DOMAIN m["simd"] = 0 .. 31
    BY DEF Machine, IsRegister, Files
  <2>3. DOMAIN n["gp"] = 0 .. 31 /\ n["gp"][r.number] = v
        /\ \A k \in 0 .. 31 : k # r.number => n["gp"][k] = m["gp"][k]
    BY <2>1, <2>2
  <2> HIDE DEF n
  <2> QED BY <1>1, <1>2, <2>1, <2>2, <2>3 DEF SetTo, Machine, Files
<1>3. CASE r.file = "simd"
  <2>1. DOMAIN n = DOMAIN m /\ n["gp"] = m["gp"] /\ n["mem"] = m["mem"]
        /\ n["flags"] = m["flags"] /\ n["frame"] = m["frame"]
        /\ n["simd"] = [m["simd"] EXCEPT ![r.number] = v]
    BY <1>3 DEF Machine
  <2>2. r.number \in 0 .. 31 /\ DOMAIN m["gp"] = 0 .. 31 /\ DOMAIN m["simd"] = 0 .. 31
    BY DEF Machine, IsRegister, Files
  <2>3. DOMAIN n["simd"] = 0 .. 31 /\ n["simd"][r.number] = v
        /\ \A k \in 0 .. 31 : k # r.number => n["simd"][k] = m["simd"][k]
    BY <2>1, <2>2
  <2> HIDE DEF n
  <2> QED BY <1>1, <1>3, <2>1, <2>2, <2>3 DEF SetTo, Machine, Files
<1> QED BY <1>2, <1>3 DEF IsRegister, Files

LEMMA AgreeSelf ==
  ASSUME NEW m, Machine(m), NEW F
  PROVE  Agree(m, m, F)
BY DEF Agree

LEMMA AgreeTransitive ==
  ASSUME NEW m, NEW n, NEW p, NEW F, NEW G, Agree(m, n, F), Agree(n, p, G),
         \A file \in Files : G[file] \subseteq F[file]
  PROVE  Agree(m, p, F)
BY DEF Agree

LEMMA SetAgrees ==
  ASSUME NEW m, NEW n, NEW r, NEW v, SetTo(m, n, r, v), NEW F,
         IsRegister(r), r.number \in F[r.file]
  PROVE  Agree(m, n, F)
BY DEF Agree, SetTo, IsRegister

\* An operand that needs none of the changed registers has kept its value.
LEMMA KeptValue ==
  ASSUME NEW m, NEW n, NEW F, Agree(m, n, F), NEW o, Kept(o, F),
         o.kind \in {"Register", "Memory", "Immediate"}
  PROVE  /\ Value(n, o) = Value(m, o)
         /\ o.kind = "Memory" => OperandAddress(n, o) = OperandAddress(m, o)
<1>1. CASE o.kind = "Register"
  BY <1>1 DEF Agree, Kept, Value, IsRegister
<1>2. CASE o.kind = "Immediate"
  BY <1>2 DEF Value
<1>3. CASE o.kind = "Memory"
  <2>1. n["gp"][o.base.number] = m["gp"][o.base.number]
    BY <1>3 DEF Agree, Kept, IsRegister, Files
  <2>2. OperandAddress(n, o) = OperandAddress(m, o)
    BY <1>3, <2>1 DEF OperandAddress
  <2>3. n.mem = m.mem
    BY DEF Agree
  <2> QED BY <1>3, <2>2, <2>3 DEF Value, Read
<1> QED BY <1>1, <1>2, <1>3

-----------------------------------------------------------------------------
(* The instructions that the helpers emit.                                  *)

\* A load of a number, a page, or what lies at an offset of it.
LEMMA LoadImmSets ==
  ASSUME NEW m, Machine(m), NEW r, IsRegister(r), NEW v
  PROVE  SetTo(m, Execute(m, Instr("LoadImm", <<r>>, FALSE, v)), r, v)
<1> DEFINE i == Instr("LoadImm", <<r>>, FALSE, v)
<1>1. i.op = "LoadImm" /\ i.operands[1] = r /\ i.arg = v
  BY DEF Instr
<1> HIDE DEF i
<1>2. Execute(m, i) = Assign(m, r, v)
  BY <1>1 DEF Execute
<1> QED BY <1>2, AssignRegister DEF i

LEMMA AdrpSets ==
  ASSUME NEW m, Machine(m), NEW r, IsRegister(r), NEW symbol
  PROVE  SetTo(m, Execute(m, Instr("Adrp", <<r>>, FALSE, symbol)), r, Page(symbol))
<1> DEFINE i == Instr("Adrp", <<r>>, FALSE, symbol)
<1>1. i.op = "Adrp" /\ i.operands[1] = r /\ i.arg = symbol
  BY DEF Instr
<1> HIDE DEF i
<1>2. Execute(m, i) = Assign(m, r, Page(symbol))
  BY <1>1 DEF Execute
<1> QED BY <1>2, AssignRegister DEF i

LEMMA GlobalSets ==
  ASSUME NEW m, Machine(m), NEW r, IsRegister(r), NEW a, NEW symbol
  PROVE  LET address == Value(m, a) + PageOffset(symbol)
         IN  /\ SetTo(m, Execute(m, Instr("GlobalLoad", <<r, a>>, FALSE, symbol)), r,
                      Read(m, address))
             /\ SetTo(m, Execute(m, Instr("GlobalAdd", <<r, a>>, FALSE, symbol)), r, address)
             /\ Execute(m, Instr("GlobalStore", <<r, a>>, FALSE, symbol))
                  = Write(m, address, Value(m, r))
<1> DEFINE address == Value(m, a) + PageOffset(symbol)
<1>1. ASSUME NEW op \in {"GlobalLoad", "GlobalAdd", "GlobalStore"}
      PROVE  LET i == Instr(op, <<r, a>>, FALSE, symbol)
             IN  i.op = op /\ i.operands[1] = r /\ i.operands[2] = a /\ i.arg = symbol
  BY DEF Instr
<1>2. ASSUME NEW i, i.op \in {"GlobalLoad", "GlobalAdd", "GlobalStore"},
             i.operands[1] = r, i.operands[2] = a, i.arg = symbol
      PROVE  /\ i.op = "GlobalLoad" => Execute(m, i) = Assign(m, r, Read(m, address))
             /\ i.op = "GlobalAdd" => Execute(m, i) = Assign(m, r, address)
             /\ i.op = "GlobalStore" => Execute(m, i) = Write(m, address, Value(m, r))
  BY <1>2 DEF Execute
<1>3. /\ Execute(m, Instr("GlobalLoad", <<r, a>>, FALSE, symbol)) = Assign(m, r, Read(m, address))
      /\ Execute(m, Instr("GlobalAdd", <<r, a>>, FALSE, symbol)) = Assign(m, r, address)
      /\ Execute(m, Instr("GlobalStore", <<r, a>>, FALSE, symbol)) = Write(m, address, Value(m, r))
  <2> DEFINE load  == Instr("GlobalLoad", <<r, a>>, FALSE, symbol)
             add   == Instr("GlobalAdd", <<r, a>>, FALSE, symbol)
             store == Instr("GlobalStore", <<r, a>>, FALSE, symbol)
  <2>1. /\ load.op = "GlobalLoad" /\ add.op = "GlobalAdd" /\ store.op = "GlobalStore"
        /\ \A i \in {load, add, store} :
             i.operands[1] = r /\ i.operands[2] = a /\ i.arg = symbol
    BY <1>1
  <2> HIDE DEF load, add, store, address
  <2>2. /\ Execute(m, load) = Assign(m, r, Read(m, address))
        /\ Execute(m, add) = Assign(m, r, address)
        /\ Execute(m, store) = Write(m, address, Value(m, r))
    BY <1>2, <2>1
  <2> QED BY <2>2 DEF load, add, store
<1> HIDE DEF address
<1> QED BY <1>3, AssignRegister DEF address

\* One operand, or two: what the other instructions compute.
LEMMA MoveSets ==
  ASSUME NEW m, Machine(m), NEW r, IsRegister(r), NEW a, NEW op \in {"Mov", "Ldr"}
  PROVE  SetTo(m, Execute(m, Instr(op, <<r, a>>, FALSE, 0)), r, Value(m, a))
<1> DEFINE ops == <<r, a>>
           i == Instr(op, ops, FALSE, 0)
           args == [k \in 1 .. Len(ops) - 1 |-> Value(m, ops[k + 1])]
<1>1. i.op = op /\ i.operands = ops
  BY DEF Instr
<1>2. ops[1] = r /\ args[1] = Value(m, a)
  OBVIOUS
<1> HIDE DEF i, ops
<1>3. Execute(m, i) = Assign(m, ops[1], Result(op, args))
  BY <1>1 DEF Execute
<1> HIDE DEF args
<1>4. Result(op, args) = Value(m, a)
  BY <1>2 DEF Result
<1> QED BY <1>2, <1>3, <1>4, AssignRegister DEF i, ops

LEMMA ArithmeticSets ==
  ASSUME NEW m, Machine(m), NEW r, IsRegister(r), NEW a, NEW b, NEW op \in {"Add", "Sub"}
  PROVE  SetTo(m, Execute(m, Instr(op, <<r, a, b>>, FALSE, 0)), r,
               IF op = "Add" THEN Value(m, a) + Value(m, b) ELSE Value(m, a) - Value(m, b))
<1> DEFINE ops == <<r, a, b>>
           i == Instr(op, ops, FALSE, 0)
           args == [k \in 1 .. Len(ops) - 1 |-> Value(m, ops[k + 1])]
<1>1. i.op = op /\ i.operands = ops
  BY DEF Instr
<1>2. ops[1] = r /\ args[1] = Value(m, a) /\ args[2] = Value(m, b)
  OBVIOUS
<1> HIDE DEF i, ops
<1>3. Execute(m, i) = Assign(m, ops[1], Result(op, args))
  BY <1>1 DEF Execute
<1> HIDE DEF args
<1>4. Result(op, args) = IF op = "Add" THEN args[1] + args[2] ELSE args[1] - args[2]
  BY DEF Result
<1> QED BY <1>2, <1>3, <1>4, AssignRegister DEF i, ops

-----------------------------------------------------------------------------
(* What a helper may do to the state: it takes registers from the free ones *)
(* and adds code, slots of the frame and constants to those it finds.       *)

IsCode(code) == \E S : code \in Seq(S)

\* A state the helpers can go on from.
Ready(s) ==
  /\ Sound(s)
  /\ s.failed = FALSE => /\ IsCode(s.before) /\ IsCode(s.after)
                         /\ IsFrame(s.frame) /\ s.pool \in Seq(Int)

\* Slots and constants are added to, and stay where they are.
FrameGrows(f, g) ==
  \A n \in DOMAIN f.offsets : n \in DOMAIN g.offsets /\ g.offsets[n] = f.offsets[n]

PoolGrows(p, q) == \A j \in DOMAIN p : j \in DOMAIN q /\ q[j] = p[j]

\* A machine on which code for frame f and constants p may run.
Serves(m, f, p) ==
  /\ Machine(m) /\ m.gp[29] \in Int /\ m.gp[31] \in Int
  /\ FrameGrows(f, m.frame)
  /\ \A j \in DOMAIN p : Read(m, ConstantSymbol(j)) = p[j]
  /\ \A a \in Int : Read(m, a) \in Int

\* t is a later state than s.
Follows(s, t) ==
  /\ Ready(t)
  /\ t.failed = FALSE =>
       /\ s.failed = FALSE
       /\ t.instr = s.instr
       /\ \A file \in Files : t.free[file] \subseteq s.free[file]
       /\ FrameGrows(s.frame, t.frame)
       /\ PoolGrows(s.pool, t.pool)

SameSurroundings(s, t) ==
  /\ t.instr = s.instr /\ t.frame = s.frame /\ t.pool = s.pool

PoolOf(file) == IF file = "gp" THEN GPPool ELSE SIMDPool

\* A register of the pool that nothing else may use any more.
Taken(r, s, t) ==
  /\ IsRegister(r) /\ r.number \in s.free[r.file] /\ r.number \notin t.free[r.file]
  /\ r.number \in PoolOf(r.file)

\* Once the code of s has run on m.
At(s, m) == Run(s.before, m)

(* The steps a helper is made of.                                          *)

\* A register of the file was taken; nothing else changed.
Allocated(s, t, file) ==
  /\ Follows(s, t) /\ SameSurroundings(s, t) /\ t.operand = s.operand
  /\ t.before = s.before /\ t.after = s.after
  /\ t.failed = FALSE => Taken(Last(t.temps), s, t) /\ Last(t.temps).file = file

\* The register file of a value.
FileOf(use_float) == IF use_float THEN "simd" ELSE "gp"

\* Nothing was taken: an instruction was added, or the operand replaced.
Unallocated(s, t) ==
  /\ Follows(s, t) /\ SameSurroundings(s, t)
  /\ t.free = s.free /\ t.temps = s.temps /\ t.failed = s.failed

EmittedBefore(s, t, i) ==
  /\ Unallocated(s, t) /\ t.operand = s.operand /\ t.after = s.after
  /\ t.failed = FALSE => \A m : At(t, m) = Execute(At(s, m), i)

EmittedAfter(s, t, i) ==
  /\ Unallocated(s, t) /\ t.operand = s.operand
  /\ t.after = Append(s.after, i) /\ t.before = s.before

OperandSet(s, t, o) ==
  /\ Unallocated(s, t) /\ t.operand = o
  /\ t.before = s.before /\ t.after = s.after

LEMMA FrameStays == ASSUME NEW f PROVE FrameGrows(f, f)
BY DEF FrameGrows

LEMMA FollowsTransitive ==
  ASSUME NEW s, NEW t, NEW u, Follows(s, t), Follows(t, u)
  PROVE  Follows(s, u)
BY DEF Follows, FrameGrows, PoolGrows

LEMMA FollowsSelf ==
  ASSUME NEW s, Ready(s)
  PROVE  Follows(s, s)
BY DEF Follows, FrameGrows, PoolGrows

\* A register taken on the way from s to t, and in use until then.
LEMMA TakenBetween ==
  ASSUME NEW s, NEW u, NEW v, NEW t, Follows(s, u), Follows(v, t), t.failed = FALSE,
         NEW r, Taken(r, u, v), u.failed = FALSE
  PROVE  Taken(r, s, t)
BY DEF Follows, Taken, IsRegister

\* One more instruction is executed after all the others.
LEMMA CodeAppended ==
  ASSUME NEW code, IsCode(code), NEW i
  PROVE  /\ IsCode(Append(code, i))
         /\ \A m : Run(Append(code, i), m) = Execute(Run(code, m), i)
<1>1. PICK S : code \in Seq(S)
  BY DEF IsCode
<1>2. Append(code, i) \in Seq(S \cup {i})
  BY <1>1, Appended
<1>3. ASSUME NEW m PROVE Run(Append(code, i), m) = Execute(Run(code, m), i)
  BY <1>1, RunAppended
<1> QED BY <1>2, <1>3 DEF IsCode

LEMMA EmitReady ==
  ASSUME NEW s, Ready(s), NEW i
  PROVE  EmittedBefore(s, Before(s, i), i) /\ EmittedAfter(s, After(s, i), i)
<1> DEFINE b == Before(s, i)
           a == After(s, i)
<1>1. Sound(b) /\ Sound(a)
  BY EmitSound DEF Ready
<1>2. /\ b.failed = s.failed /\ a.failed = s.failed
      /\ b.temps = s.temps /\ a.temps = s.temps /\ b.free = s.free /\ a.free = s.free
      /\ b.operand = s.operand /\ a.operand = s.operand
      /\ b.before = Append(s.before, i) /\ b.after = s.after
      /\ a.before = s.before /\ a.after = Append(s.after, i)
      /\ b.frame = s.frame /\ a.frame = s.frame /\ b.pool = s.pool /\ a.pool = s.pool
      /\ b.instr = s.instr /\ a.instr = s.instr
  BY DEF Before, After, Ready, Sound, Fields
<1> HIDE DEF a, b
<1>3. s.failed = FALSE => /\ IsCode(b.before) /\ IsCode(a.after)
                          /\ \A m : At(b, m) = Execute(At(s, m), i)
  BY <1>2, CodeAppended DEF Ready, At
<1>4. Ready(b) /\ Ready(a)
  BY <1>1, <1>2, <1>3 DEF Ready
<1>5. Follows(s, b) /\ Follows(s, a)
  BY <1>2, <1>4 DEF Follows, FrameGrows, PoolGrows
<1>6. SameSurroundings(s, b) /\ SameSurroundings(s, a)
  BY <1>2 DEF SameSurroundings
<1> QED BY <1>2, <1>3, <1>5, <1>6 DEF a, b, EmittedBefore, EmittedAfter, Unallocated

LEMMA OperandReady ==
  ASSUME NEW s, Ready(s), NEW o
  PROVE  OperandSet(s, [s EXCEPT !.operand = o], o)
<1> DEFINE t == [s EXCEPT !.operand = o]
<1>1. Sound(t)
  BY OperandSound DEF Ready
<1>2. /\ t.failed = s.failed /\ t.temps = s.temps /\ t.free = s.free /\ t.operand = o
      /\ t.before = s.before /\ t.after = s.after /\ t.frame = s.frame
      /\ t.pool = s.pool /\ t.instr = s.instr
  BY DEF Ready, Sound, Fields
<1> HIDE DEF t
<1>3. Follows(s, t) /\ SameSurroundings(s, t)
  BY <1>1, <1>2 DEF Ready, Follows, FrameGrows, PoolGrows, SameSurroundings
<1> QED BY <1>2, <1>3 DEF t, OperandSet, Unallocated

LEMMA Allocates ==
  ASSUME NEW s, Ready(s), NEW file \in Files, NEW size
  PROVE  Allocated(s, Allocate(s, file, size), file)
<1> DEFINE t == Allocate(s, file, size)
           number == Min(s.free[file])
           r == Register(file, number, size)
<1>1. DOMAIN s = Fields /\ Sound(s) /\ Sound(t)
  BY AllocateSound DEF Ready, Sound
<1>2. CASE s.free[file] = {}
  <2>1. /\ t.failed = TRUE /\ t.operand = s.operand /\ t.instr = s.instr
        /\ t.before = s.before /\ t.after = s.after /\ t.frame = s.frame /\ t.pool = s.pool
    BY <1>1, <1>2 DEF Allocate, Fields
  <2> HIDE DEF t
  <2> QED BY <1>1, <2>1 DEF Ready, Follows, SameSurroundings, Allocated, t
<1>3. CASE s.free[file] # {}
  <2>1. /\ t.failed = s.failed /\ t.operand = s.operand /\ t.instr = s.instr
        /\ t.before = s.before /\ t.after = s.after /\ t.frame = s.frame
        /\ t.pool = s.pool /\ t.temps = Append(s.temps, r)
        /\ t.free = [s.free EXCEPT ![file] = @ \ {number}]
    BY <1>1, <1>3 DEF Allocate, Fields
  <2>2. ASSUME s.failed = FALSE
        PROVE  /\ Taken(Last(t.temps), s, t) /\ Last(t.temps).file = file
               /\ \A other \in Files : t.free[other] \subseteq s.free[other]
    <3>1. Conserved(s.free, s.temps)
      BY <1>1, <2>2 DEF Sound
    <3>2. PICK S : s.temps \in Seq(S)
      BY <3>1 DEF Conserved
    <3>3. Len(t.temps) = Len(s.temps) + 1 /\ t.temps[Len(s.temps) + 1] = r
      BY <2>1, <3>2, Appended
    <3>4. Last(t.temps) = r
      BY <3>3 DEF Last
    <3>5. s.free[file] \subseteq (IF file = "gp" THEN GPPool ELSE SIMDPool)
          /\ DOMAIN s.free = Files
      BY <3>1 DEF Conserved
    <3>6. number \in s.free[file]
      <4>1. s.free[file] \subseteq Nat
        BY <3>5, PoolAssumption
      <4> QED BY <1>3, <4>1, LeastFree
    <3>7. /\ r.kind = "Register" /\ r.file = file /\ r.number = number
      BY DEF Register
    <3>9. number \in 0 .. 31 /\ number \in PoolOf(file)
      <4> HIDE DEF number
      <4>1. GPPool \subseteq (0 .. 31) \ {29} /\ SIMDPool \subseteq 0 .. 31
        BY ReservedAssumption
      <4> QED BY <3>5, <3>6, <4>1 DEF PoolOf
    <3>8. /\ t.free[file] = s.free[file] \ {number}
          /\ \A other \in Files : other # file => t.free[other] = s.free[other]
      BY <2>1, <3>5
    <3> HIDE DEF r, number, t
    <3> QED BY <3>4, <3>6, <3>7, <3>8, <3>9 DEF Taken, IsRegister
  <2>3. SameSurroundings(s, t)
    BY <2>1 DEF SameSurroundings
  <2>4. Follows(s, t)
    <3> HIDE DEF t
    <3> QED BY <1>1, <2>1, <2>2 DEF Ready, Follows, FrameGrows, PoolGrows
  <2> HIDE DEF t
  <2> QED BY <2>1, <2>2, <2>3, <2>4 DEF t, Allocated
<1> QED BY <1>2, <1>3

LEMMA AllocatesValue ==
  ASSUME NEW s, Ready(s), NEW use_float, NEW size
  PROVE  Allocated(s, AllocateValue(s, use_float, size), FileOf(use_float))
<1>1. Allocated(s, Allocate(s, "simd", 8), "simd") /\ Allocated(s, Allocate(s, "gp", size), "gp")
  BY Allocates DEF Files
<1> QED BY <1>1 DEF AllocateValue, FileOf

-----------------------------------------------------------------------------
(* Loads and stores.                                                        *)

\* x writes register r to address a, and no register of F has a part in it.
Delivers(m, F, r, x, a) ==
  /\ IsRegister(r) /\ r.number \in PoolOf(r.file) /\ r.number \notin F[r.file]
  /\ \/ \E mem : /\ x = Instr("Str", <<r, mem>>, FALSE, 0)
                 /\ mem.kind = "Memory" /\ Kept(mem, F)
                 /\ ~(r.file = "gp" /\ r.number = mem.base.number)
                 /\ OperandAddress(m, mem) = a
     \/ \E page, symbol : /\ x = Instr("GlobalStore", <<r, page>>, FALSE, symbol)
                          /\ page.kind = "Register" /\ Kept(page, F)
                          /\ ~(r.file = page.file /\ r.number = page.number)
                          /\ Value(m, page) + PageOffset(symbol) = a

\* From s to t a register was loaded with v.
Loads(s, t, m, v) ==
  /\ Taken(t.operand, s, t) /\ t.after = s.after
  /\ Agree(At(s, m), At(t, m), s.free)
  /\ Value(At(t, m), t.operand) = v

\* From s to t a store of a register was prepared.
Stores(s, t, m, a) ==
  /\ Taken(t.operand, s, t)
  /\ Agree(At(s, m), At(t, m), s.free)
  /\ \E x : t.after = Append(s.after, x) /\ Delivers(At(t, m), t.free, t.operand, x, a)

LEMMA KeptStays ==
  ASSUME NEW o, NEW F, Kept(o, F), NEW G, \A file \in Files : G[file] \subseteq F[file]
  PROVE  Kept(o, G)
<1>1. "gp" \in Files
  BY DEF Files
<1> QED BY <1>1 DEF Kept, IsRegister

LEMMA DeliversStays ==
  ASSUME NEW m, NEW n, NEW F, Agree(m, n, F), NEW r, NEW x, NEW a,
         Delivers(m, F, r, x, a), NEW G, \A file \in Files : G[file] \subseteq F[file]
  PROVE  Delivers(n, G, r, x, a)
<1>1. IsRegister(r) /\ r.number \in PoolOf(r.file) /\ r.number \notin G[r.file]
  BY DEF Delivers, IsRegister
<1>2. ASSUME NEW mem, x = Instr("Str", <<r, mem>>, FALSE, 0),
             mem.kind = "Memory", Kept(mem, F),
             ~(r.file = "gp" /\ r.number = mem.base.number), OperandAddress(m, mem) = a
      PROVE  Delivers(n, G, r, x, a)
  <2>1. Kept(mem, G) /\ OperandAddress(n, mem) = a
    BY <1>2, KeptStays, KeptValue
  <2> QED BY <1>1, <1>2, <2>1 DEF Delivers
<1>3. ASSUME NEW page, NEW symbol, x = Instr("GlobalStore", <<r, page>>, FALSE, symbol),
             page.kind = "Register", Kept(page, F),
             ~(r.file = page.file /\ r.number = page.number),
             Value(m, page) + PageOffset(symbol) = a
      PROVE  Delivers(n, G, r, x, a)
  <2>1. Kept(page, G) /\ Value(n, page) = Value(m, page)
    BY <1>3, KeptStays, KeptValue
  <2> QED BY <1>1, <1>3, <2>1 DEF Delivers
<1> QED BY <1>2, <1>3 DEF Delivers

\* Once r holds v the store puts v there.
LEMMA Delivered ==
  ASSUME NEW m, NEW F, NEW r, NEW x, NEW a, Delivers(m, F, r, x, a),
         NEW n, NEW v, SetTo(m, n, r, v)
  PROVE  Execute(n, x) = Write(n, a, v)
<1>1. r.kind = "Register" /\ Value(n, r) = v
  BY DEF Delivers, IsRegister, SetTo, Value
<1>2. ASSUME NEW mem, x = Instr("Str", <<r, mem>>, FALSE, 0),
             mem.kind = "Memory", Kept(mem, F),
             ~(r.file = "gp" /\ r.number = mem.base.number), OperandAddress(m, mem) = a
      PROVE  Execute(n, x) = Write(n, a, v)
  <2>1. n["gp"][mem.base.number] = m["gp"][mem.base.number]
    BY <1>2 DEF SetTo, Kept, IsRegister, Files
  <2>2. OperandAddress(n, mem) = a
    BY <1>2, <2>1 DEF OperandAddress
  <2>3. x.op = "Str" /\ x.operands[1] = r /\ x.operands[2] = mem
    BY <1>2 DEF Instr
  <2>4. Execute(n, x) = Assign(n, mem, Value(n, r))
    BY <2>3 DEF Execute
  <2> QED BY <1>1, <1>2, <2>2, <2>4 DEF Assign
<1>3. ASSUME NEW page, NEW symbol, x = Instr("GlobalStore", <<r, page>>, FALSE, symbol),
             page.kind = "Register", Kept(page, F),
             ~(r.file = page.file /\ r.number = page.number),
             Value(m, page) + PageOffset(symbol) = a
      PROVE  Execute(n, x) = Write(n, a, v)
  <2>1. Value(n, page) = Value(m, page)
    BY <1>3 DEF SetTo, Kept, IsRegister, Value
  <2>2. x.op = "GlobalStore" /\ x.operands[1] = r /\ x.operands[2] = page /\ x.arg = symbol
    BY <1>3 DEF Instr
  <2>3. Execute(n, x) = Write(n, Value(n, page) + PageOffset(symbol), Value(n, r))
    BY <2>2 DEF Execute
  <2> QED BY <1>1, <1>3, <2>1, <2>3
<1> QED BY <1>2, <1>3 DEF Delivers

\* An adrp and the offset within the page make up the address.
LEMMA PageAndOffset ==
  ASSUME NEW symbol \in Int
  PROVE  Page(symbol) + PageOffset(symbol) = symbol
BY DEF Page, PageOffset

\* On the way from s to t a register was filled from address a, or a store of
\* one to it was prepared.
Accesses(s, t, a, is_dst, use_float) ==
  /\ Follows(s, t) /\ SameSurroundings(s, t)
  /\ t.failed = FALSE => Taken(t.operand, s, t) /\ t.operand.file = FileOf(use_float)
  /\ \A m : t.failed = FALSE /\ Machine(At(s, m)) =>
       IF is_dst THEN Stores(s, t, m, a) ELSE Loads(s, t, m, Read(At(s, m), a))

\* A symbol is accessed through its page.
LEMMA AccessReaches ==
  ASSUME NEW s, Ready(s), NEW symbol, s.failed = FALSE => symbol \in Int,
         NEW is_dst \in BOOLEAN, NEW use_float, NEW size
  PROVE  Accesses(s, AccessSymbol(s, symbol, is_dst, use_float, size), symbol,
                  is_dst, use_float)
<1> DEFINE with_address == Allocate(s, "gp", 8)
           address      == Last(with_address.temps)
           with_value   == AllocateValue(with_address, use_float, size)
           value        == Last(with_value.temps)
           page         == Instr("Adrp", <<address>>, FALSE, symbol)
           with_page    == Before(with_value, page)
           load         == Instr("GlobalLoad", <<value, address>>, FALSE, symbol)
           store        == Instr("GlobalStore", <<value, address>>, FALSE, symbol)
           accessed     == IF is_dst THEN After(with_page, store) ELSE Before(with_page, load)
           t            == [accessed EXCEPT !.operand = value]
<1>0. t = AccessSymbol(s, symbol, is_dst, use_float, size)
  BY DEF AccessSymbol, GlobalOffset
<1>1. Allocated(s, with_address, "gp")
  BY Allocates DEF Files
<1> HIDE DEF with_address
<1>2. Allocated(with_address, with_value, FileOf(use_float))
  <2>1. Ready(with_address)
    BY <1>1 DEF Allocated, Follows
  <2> QED BY <2>1, AllocatesValue
<1> HIDE DEF with_value
<1>3. EmittedBefore(with_value, with_page, page)
  <2> HIDE DEF page
  <2>1. Ready(with_value)
    BY <1>2 DEF Allocated, Follows
  <2> QED BY <2>1, EmitReady
<1> HIDE DEF with_page
<1>4. /\ is_dst => EmittedAfter(with_page, accessed, store)
      /\ ~is_dst => EmittedBefore(with_page, accessed, load)
  <2> HIDE DEF load, store
  <2>1. Ready(with_page)
    BY <1>3 DEF EmittedBefore, Unallocated, Follows
  <2> QED BY <2>1, EmitReady
<1> HIDE DEF accessed
<1>5. OperandSet(accessed, t, value)
  <2>1. Ready(accessed)
    BY <1>4 DEF EmittedBefore, EmittedAfter, Unallocated, Follows
  <2> QED BY <2>1, OperandReady
<1> HIDE DEF t, address, value
<1> USE DEF EmittedBefore, EmittedAfter, Unallocated, OperandSet, Allocated
<1>9. /\ with_address.before = s.before /\ with_address.after = s.after
      /\ with_value.before = s.before /\ with_value.after = s.after
      /\ with_page.after = s.after /\ with_page.free = with_value.free
      /\ accessed.free = with_page.free /\ t.free = accessed.free
      /\ t.before = accessed.before /\ t.after = accessed.after /\ t.operand = value
      /\ is_dst => accessed.after = Append(s.after, store) /\ accessed.before = with_page.before
      /\ ~is_dst => accessed.after = s.after
      /\ accessed.failed = with_page.failed /\ with_page.failed = with_value.failed
      /\ t.failed = accessed.failed
  BY <1>1, <1>2, <1>3, <1>4, <1>5
<1>10. /\ Follows(s, with_address) /\ Follows(with_address, with_value)
       /\ Follows(with_value, with_page) /\ Follows(with_page, accessed)
       /\ Follows(accessed, t)
  BY <1>1, <1>2, <1>3, <1>4, <1>5
<1>6. Follows(s, t)
  BY <1>10, FollowsTransitive
<1>7. SameSurroundings(s, t)
  BY <1>1, <1>2, <1>3, <1>4, <1>5 DEF SameSurroundings
<1>11. ASSUME t.failed = FALSE
       PROVE  Taken(t.operand, s, t) /\ t.operand.file = FileOf(use_float)
  <2>1. /\ with_address.failed = FALSE /\ with_value.failed = FALSE
        /\ with_page.failed = FALSE /\ accessed.failed = FALSE
    BY <1>9, <1>10, <1>11 DEF Follows
  <2>2. Taken(value, with_address, with_value) /\ value.file = FileOf(use_float)
    BY <1>2, <2>1 DEF value
  <2>3. Follows(with_value, t)
    BY <1>10, FollowsTransitive
  <2>4. Taken(value, s, t)
    BY <1>10, <1>11, <2>1, <2>2, <2>3, TakenBetween
  <2> QED BY <1>9, <2>2, <2>4
<1>8. ASSUME NEW m, t.failed = FALSE, Machine(At(s, m))
      PROVE  IF is_dst THEN Stores(s, t, m, symbol)
                       ELSE Loads(s, t, m, Read(At(s, m), symbol))
  <2>1. /\ with_page.failed = FALSE /\ with_value.failed = FALSE
        /\ with_address.failed = FALSE /\ accessed.failed = FALSE
    BY <1>8, <1>9, <1>10 DEF Follows
  <2>2. /\ Taken(address, s, with_address) /\ address.file = "gp"
        /\ Taken(value, with_address, with_value)
    BY <1>1, <1>2, <2>1 DEF address, value
  <2>3. \A file \in Files : with_address.free[file] \subseteq s.free[file]
                          /\ t.free[file] \subseteq with_address.free[file]
    BY <1>9, <1>10, <2>1 DEF Follows
  <2>4. /\ IsRegister(address) /\ IsRegister(value)
        /\ address.number \in s.free["gp"] /\ value.number \in s.free[value.file]
        /\ address.number \notin t.free["gp"] /\ value.number \notin t.free[value.file]
        /\ value.number \in PoolOf(value.file)
        /\ ~(value.file = "gp" /\ value.number = address.number)
    <3>1. value.file \in Files /\ "gp" \in Files
      BY <2>2 DEF Taken, IsRegister, Files
    <3> QED BY <1>9, <2>2, <2>3, <3>1 DEF Taken
  <2>5. Taken(t.operand, s, t)
    BY <1>8, <1>11
  <2>6. PICK m0, m1 : m0 = At(s, m) /\ m1 = At(with_page, m)
    OBVIOUS
  <2>7. m1 = Execute(m0, page)
    BY <1>3, <1>9, <2>1, <2>6 DEF At
  <2>8. SetTo(m0, m1, address, Page(symbol))
    BY <1>8, <2>4, <2>6, <2>7, AdrpSets
  <2>9. Agree(m0, m1, s.free)
    BY <2>2, <2>4, <2>8, SetAgrees
  <2>10. Value(m1, address) + PageOffset(symbol) = symbol
    <3>1. Value(m1, address) = Page(symbol)
      BY <2>4, <2>8 DEF SetTo, Value, IsRegister
    <3>2. symbol \in Int
      BY <1>6, <1>8 DEF Follows
    <3> QED BY <3>1, <3>2, PageAndOffset
  <2>11. CASE is_dst
    <3>1. At(t, m) = m1 /\ t.after = Append(s.after, store)
      BY <1>9, <2>6, <2>11 DEF At
    <3>2. Delivers(m1, t.free, value, store, symbol)
      <4>1. Kept(address, t.free) /\ address.kind = "Register"
        BY <2>2, <2>4 DEF Kept, IsRegister
      <4> QED BY <2>2, <2>4, <2>10, <4>1 DEF Delivers
    <3> HIDE DEF store
    <3> QED BY <1>9, <2>5, <2>6, <2>9, <2>11, <3>1, <3>2 DEF Stores
  <2>12. CASE ~is_dst
    <3>1. PICK m2 : m2 = At(t, m)
      OBVIOUS
    <3>2. m2 = Execute(m1, load) /\ t.after = s.after
      BY <1>4, <1>9, <2>1, <2>6, <2>12, <3>1 DEF At
    <3>3. SetTo(m1, m2, value, Read(m1, symbol))
      <4>1. Machine(m1)
        BY <2>9 DEF Agree
      <4> QED BY <2>4, <2>10, <3>2, <4>1, GlobalSets
    <3>4. Agree(m1, m2, s.free)
      BY <2>4, <3>3, SetAgrees
    <3>5. Agree(m0, m2, s.free)
      BY <2>9, <3>4, AgreeTransitive
    <3>6. Read(m1, symbol) = Read(m0, symbol)
      BY <2>8 DEF SetTo, Read
    <3>7. Value(m2, value) = Read(m0, symbol)
      BY <2>4, <3>3, <3>6 DEF SetTo, Value, IsRegister
    <3> QED BY <1>9, <2>5, <2>6, <2>12, <3>1, <3>2, <3>5, <3>7 DEF Loads
  <2> QED BY <2>11, <2>12
<1>12. Accesses(s, t, symbol, is_dst, use_float)
  BY <1>6, <1>7, <1>8, <1>11 DEF Accesses
<1> QED BY <1>0, <1>12

\* The move, the load and the adjustment that bring an address into range.
LEMMA ThreeAppended ==
  ASSUME NEW code, IsCode(code), NEW x, NEW y, NEW z
  PROVE  /\ IsCode(code \o <<x, y, z>>)
         /\ \A m : Run(code \o <<x, y, z>>, m)
                     = Execute(Execute(Execute(Run(code, m), x), y), z)
<1>1. PICK S : code \in Seq(S)
  BY DEF IsCode
<1> DEFINE T == S \cup {x, y, z}
           c1 == Append(code, x)
           c2 == Append(c1, y)
           c3 == Append(c2, z)
<1>2. code \in Seq(T) /\ x \in T /\ y \in T /\ z \in T
  BY <1>1
<1> HIDE DEF T
<1>3. c1 \in Seq(T) /\ c2 \in Seq(T) /\ c3 \in Seq(T)
  BY <1>2
<1>4. code \o <<x, y, z>> = c3
  BY <1>2
<1>5. IsCode(code) /\ IsCode(c1) /\ IsCode(c2) /\ IsCode(c3)
  BY <1>2, <1>3 DEF IsCode
<1>6. ASSUME NEW m
      PROVE  Run(c3, m) = Execute(Execute(Execute(Run(code, m), x), y), z)
  <2> HIDE DEF c1
  <2>1. Run(c2, m) = Execute(Run(c1, m), y)
    BY <1>5, CodeAppended
  <2> HIDE DEF c2
  <2>2. Run(c3, m) = Execute(Run(c2, m), z)
    BY <1>5, CodeAppended
  <2>3. Run(c1, m) = Execute(Run(code, m), x)
    BY <1>5, CodeAppended DEF c1
  <2> QED BY <2>1, <2>2, <2>3
<1> HIDE DEF c3
<1> QED BY <1>4, <1>5, <1>6

\* From s to t an address in memory was brought into range.
Locates(s, t, m, a) ==
  /\ t.operand.kind = "Memory" /\ Kept(t.operand, t.free) /\ t.after = s.after
  /\ Agree(At(s, m), At(t, m), s.free)
  /\ OperandAddress(At(t, m), t.operand) = a

\* A memory operand that the machine can address and whose base is no scratch
\* register that anything may still change.
Addressable(o, F) ==
  o.kind = "Memory" /\ Kept(o, F) /\ o.offset \in Int

\* An offset out of range is added to the base beforehand.
LEMMA LargeOffsetReaches ==
  ASSUME NEW s, Ready(s), s.failed = FALSE => Addressable(s.operand, s.free)
  PROVE  LET t == MaterializeLargeOffset(s)
         IN  /\ Follows(s, t) /\ SameSurroundings(s, t)
             /\ \A m : /\ t.failed = FALSE /\ Machine(At(s, m))
                       /\ ~CanEncodeImm9(s.operand.offset) =>
                            At(s, m).gp[s.operand.base.number] \in Int
                       => Locates(s, t, m, OperandAddress(At(s, m), s.operand))
<1> DEFINE memory == s.operand
           s1     == Allocate(s, "gp", 8)
           addr   == Last(s1.temps)
           s2     == Allocate(s1, "gp", 8)
           imm    == Last(s2.temps)
           offset == memory.offset
           amount == IF offset < 0 THEN -offset ELSE offset
           move   == Instr("Mov", <<addr, memory.base>>, FALSE, 0)
           load   == Instr("LoadImm", <<imm>>, FALSE, amount)
           op     == IF offset < 0 THEN "Sub" ELSE "Add"
           adjust == Instr(op, <<addr, addr, imm>>, FALSE, 0)
           far    == [s2 EXCEPT !.before = @ \o <<move, load, adjust>>,
                                !.operand = Memory(addr, 0, memory.size)]
           t      == MaterializeLargeOffset(s)
<1>1. t = IF CanEncodeImm9(offset) THEN s ELSE far
  BY DEF MaterializeLargeOffset
<1>2. CASE CanEncodeImm9(offset)
  <2>1. t = s
    BY <1>1, <1>2
  <2>2. Follows(s, s) /\ SameSurroundings(s, s)
    BY FollowsSelf DEF SameSurroundings
  <2>3. \A m : s.failed = FALSE /\ Machine(At(s, m))
                 => Locates(s, s, m, OperandAddress(At(s, m), s.operand))
    BY AgreeSelf DEF Locates, Addressable
  <2> HIDE DEF t
  <2> QED BY <2>1, <2>2, <2>3 DEF t
<1>3. CASE ~CanEncodeImm9(offset)
  <2>1. Allocated(s, s1, "gp")
    BY Allocates DEF Files
  <2> HIDE DEF s1
  <2>2. Allocated(s1, s2, "gp")
    <3>1. Ready(s1) /\ "gp" \in Files
      BY <2>1 DEF Allocated, Follows, Files
    <3> QED BY <3>1, Allocates
  <2> HIDE DEF s2
  <2>3. DOMAIN s2 = Fields /\ Sound(s2) /\ Follows(s, s2) /\ SameSurroundings(s, s2)
    <3>1. Follows(s, s2)
      BY <2>1, <2>2, FollowsTransitive DEF Allocated
    <3>2. SameSurroundings(s, s2)
      BY <2>1, <2>2 DEF Allocated, SameSurroundings
    <3> QED BY <3>1, <3>2 DEF Follows, Ready, Sound
  <2> HIDE DEF move, load, adjust
  <2>4. /\ far.failed = s2.failed /\ far.instr = s2.instr /\ far.frame = s2.frame
        /\ far.after = s2.after /\ far.before = s2.before \o <<move, load, adjust>>
        /\ far.operand = Memory(addr, 0, memory.size) /\ far.pool = s2.pool
        /\ far.free = s2.free /\ far.temps = s2.temps /\ DOMAIN far = Fields
    BY <2>3 DEF Fields
  <2> HIDE DEF far
  <2>5. Sound(far)
    BY <2>3, <2>4, Unrelated
  <2>6. s2.failed = FALSE =>
          /\ IsCode(far.before)
          /\ \A m : At(far, m) = Execute(Execute(Execute(At(s2, m), move), load), adjust)
    BY <2>3, <2>4, ThreeAppended DEF Follows, Ready, At
  <2>7. Follows(s, far)
    BY <2>3, <2>4, <2>5, <2>6 DEF Follows, Ready
  <2>8. SameSurroundings(s, far)
    BY <2>3, <2>4 DEF SameSurroundings
  <2>9. ASSUME NEW m, far.failed = FALSE, Machine(At(s, m)),
               At(s, m).gp[memory.base.number] \in Int
        PROVE  Locates(s, far, m, OperandAddress(At(s, m), memory))
    <3>1. PICK m0, m1, m2, m3 : /\ m0 = At(s, m) /\ m1 = Execute(m0, move)
                                /\ m2 = Execute(m1, load) /\ m3 = Execute(m2, adjust)
      OBVIOUS
    <3>2. At(s2, m) = m0 /\ At(far, m) = m3
      <4>1. s2.before = s.before
        BY <2>1, <2>2 DEF Allocated
      <4> QED BY <2>4, <2>6, <2>9, <3>1, <4>1 DEF At
    <3>3. s.failed = FALSE /\ s1.failed = FALSE /\ s2.failed = FALSE
      BY <2>2, <2>4, <2>7, <2>9 DEF Allocated, Follows
    <3>4. /\ IsRegister(addr) /\ IsRegister(imm) /\ addr.file = "gp" /\ imm.file = "gp"
          /\ addr.number \in s.free["gp"] /\ imm.number \in s.free["gp"]
          /\ addr.number # imm.number /\ addr.number \notin far.free["gp"]
      <4>1. /\ Taken(addr, s, s1) /\ addr.file = "gp"
            /\ Taken(imm, s1, s2) /\ imm.file = "gp"
        BY <2>1, <2>2, <3>3 DEF Allocated, s2
      <4>2. s1.free["gp"] \subseteq s.free["gp"] /\ s2.free["gp"] \subseteq s1.free["gp"]
        BY <2>1, <2>2, <3>3 DEF Allocated, Follows, Files
      <4> QED BY <2>4, <4>1, <4>2 DEF Taken
    <3>5. /\ memory.kind = "Memory" /\ IsRegister(memory.base) /\ memory.base.file = "gp"
          /\ memory.base.number \notin s.free["gp"] /\ offset \in Int
      BY <3>3 DEF Addressable, Kept
    <3> DEFINE base == m0.gp[memory.base.number]
    <3>6. base \in Int /\ Machine(m0) /\ Value(m0, memory.base) = base
      BY <2>9, <3>1, <3>5 DEF Value, IsRegister
    <3> HIDE DEF addr, imm, memory
    <3>7. SetTo(m0, m1, addr, base)
      BY <3>1, <3>4, <3>6, MoveSets DEF move
    <3>8. SetTo(m1, m2, imm, amount)
      <4>1. Machine(m1)
        BY <3>7 DEF SetTo
      <4> QED BY <3>1, <3>4, <4>1, LoadImmSets DEF load
    <3>9. Value(m2, addr) = base /\ Value(m2, imm) = amount
      BY <3>4, <3>7, <3>8 DEF SetTo, Value, IsRegister
    <3>10. SetTo(m2, m3, addr, IF op = "Add" THEN base + amount ELSE base - amount)
      <4>1. Machine(m2) /\ op \in {"Add", "Sub"}
        BY <3>8 DEF SetTo
      <4> HIDE DEF op, amount
      <4>2. SetTo(m2, m3, addr, IF op = "Add" THEN Value(m2, addr) + Value(m2, imm)
                                              ELSE Value(m2, addr) - Value(m2, imm))
        BY <3>1, <3>4, <4>1, ArithmeticSets DEF adjust
      <4> QED BY <3>9, <4>2
    <3>11. (IF op = "Add" THEN base + amount ELSE base - amount) = base + offset
      <4> HIDE DEF base, offset
      <4> QED BY <3>5, <3>6
    <3>12. Agree(m0, m3, s.free)
      <4>1. Agree(m0, m1, s.free) /\ Agree(m1, m2, s.free) /\ Agree(m2, m3, s.free)
        BY <3>4, <3>7, <3>8, <3>10, SetAgrees
      <4> QED BY <4>1, AgreeTransitive
    <3>13. OperandAddress(m3, far.operand) = base + offset
      <4>1. m3["gp"][addr.number] = base + offset
        BY <3>4, <3>10, <3>11 DEF SetTo
      <4>2. base + offset \in Int
        BY <3>5, <3>6
      <4> HIDE DEF base, offset
      <4> QED BY <2>4, <4>1, <4>2 DEF OperandAddress, Memory
    <3>14. OperandAddress(m0, memory) = base + offset
      BY <3>5 DEF OperandAddress
    <3>15. Kept(far.operand, far.free) /\ far.operand.kind = "Memory"
      BY <2>4, <3>4 DEF Kept, Memory
    <3>16. far.after = s.after
      BY <2>1, <2>2, <2>4 DEF Allocated
    <3> QED BY <3>1, <3>2, <3>12, <3>13, <3>14, <3>15, <3>16 DEF Locates
  <2> HIDE DEF t, memory
  <2> QED BY <1>1, <1>3, <2>7, <2>8, <2>9 DEF t, memory
<1> QED BY <1>2, <1>3

\* The base of an operand out of range is a number that can be added to.
Movable(m, o) == ~CanEncodeImm9(o.offset) => m.gp[o.base.number] \in Int

\* A memory operand goes through a register.
LEMMA MemoryReaches ==
  ASSUME NEW s, Ready(s), s.failed = FALSE => Addressable(s.operand, s.free),
         NEW is_dst \in BOOLEAN, NEW use_float
  PROVE  LET t == ResolveMemoryOperand(s, is_dst, use_float)
         IN  /\ Follows(s, t) /\ SameSurroundings(s, t)
             /\ t.failed = FALSE => Taken(t.operand, s, t) /\ t.operand.file = FileOf(use_float)
             /\ \A m : /\ t.failed = FALSE /\ Machine(At(s, m))
                       /\ Movable(At(s, m), s.operand)
                       => LET a == OperandAddress(At(s, m), s.operand)
                          IN  IF is_dst THEN Stores(s, t, m, a)
                                        ELSE Loads(s, t, m, Read(At(s, m), a))
<1> DEFINE near   == MaterializeLargeOffset(s)
           memory == near.operand
           loaded == AllocateValue(near, use_float, memory.size)
           reg    == Last(loaded.temps)
           store  == Instr("Str", <<reg, memory>>, FALSE, 0)
           load   == Instr("Ldr", <<reg, memory>>, FALSE, 0)
           moved  == IF is_dst THEN After(loaded, store) ELSE Before(loaded, load)
           t      == [moved EXCEPT !.operand = reg]
<1>0. t = ResolveMemoryOperand(s, is_dst, use_float)
  BY DEF ResolveMemoryOperand
<1>1. /\ Follows(s, near) /\ SameSurroundings(s, near)
      /\ \A m : near.failed = FALSE /\ Machine(At(s, m)) /\ Movable(At(s, m), s.operand)
                  => Locates(s, near, m, OperandAddress(At(s, m), s.operand))
  BY LargeOffsetReaches DEF Movable
<1> HIDE DEF near
<1>2. Allocated(near, loaded, FileOf(use_float))
  <2>1. Ready(near)
    BY <1>1 DEF Follows
  <2> HIDE DEF memory
  <2> QED BY <2>1, AllocatesValue
<1> HIDE DEF loaded
<1>3. /\ is_dst => EmittedAfter(loaded, moved, store)
      /\ ~is_dst => EmittedBefore(loaded, moved, load)
  <2> HIDE DEF load, store
  <2>1. Ready(loaded)
    BY <1>2 DEF Allocated, Follows
  <2> QED BY <2>1, EmitReady
<1> HIDE DEF moved
<1>4. OperandSet(moved, t, reg)
  <2>1. Ready(moved)
    BY <1>3 DEF EmittedBefore, EmittedAfter, Unallocated, Follows
  <2> HIDE DEF reg
  <2> QED BY <2>1, OperandReady
<1> HIDE DEF t
<1>5. /\ loaded.before = near.before /\ loaded.after = near.after
      /\ moved.free = loaded.free /\ t.free = loaded.free
      /\ t.before = moved.before /\ t.after = moved.after /\ t.operand = reg
      /\ is_dst => moved.after = Append(near.after, store) /\ moved.before = near.before
      /\ ~is_dst => moved.after = near.after
      /\ moved.failed = loaded.failed /\ t.failed = moved.failed
  BY <1>2, <1>3, <1>4
     DEF EmittedBefore, EmittedAfter, Unallocated, OperandSet, Allocated
<1>6. Follows(near, loaded) /\ Follows(loaded, moved) /\ Follows(moved, t)
  BY <1>2, <1>3, <1>4
     DEF EmittedBefore, EmittedAfter, Unallocated, OperandSet, Allocated
<1>7. Follows(s, t)
  BY <1>1, <1>6, FollowsTransitive
<1>8. SameSurroundings(s, t)
  BY <1>1, <1>2, <1>3, <1>4
     DEF SameSurroundings, EmittedBefore, EmittedAfter, Unallocated, OperandSet, Allocated
<1>10. ASSUME t.failed = FALSE
       PROVE  Taken(t.operand, s, t) /\ t.operand.file = FileOf(use_float)
  <2>1. near.failed = FALSE /\ loaded.failed = FALSE
    BY <1>5, <1>6, <1>10 DEF Follows
  <2>2. Taken(reg, near, loaded) /\ reg.file = FileOf(use_float)
    BY <1>2, <2>1 DEF Allocated
  <2>3. Follows(loaded, t)
    BY <1>6, FollowsTransitive
  <2> HIDE DEF reg
  <2>4. Taken(reg, s, t)
    BY <1>1, <1>10, <2>1, <2>2, <2>3, TakenBetween
  <2> QED BY <1>5, <2>2, <2>4
<1>9. ASSUME NEW m, t.failed = FALSE, Machine(At(s, m)), Movable(At(s, m), s.operand)
      PROVE  LET a == OperandAddress(At(s, m), s.operand)
             IN  IF is_dst THEN Stores(s, t, m, a) ELSE Loads(s, t, m, Read(At(s, m), a))
  <2>1. PICK m0, m1, a : /\ m0 = At(s, m) /\ m1 = At(near, m)
                         /\ a = OperandAddress(m0, s.operand)
    OBVIOUS
  <2>2. near.failed = FALSE /\ loaded.failed = FALSE /\ moved.failed = FALSE
    BY <1>5, <1>6, <1>9 DEF Follows
  <2>3. Locates(s, near, m, a)
    BY <1>1, <1>9, <2>1, <2>2
  <2>4. /\ Agree(m0, m1, s.free) /\ OperandAddress(m1, memory) = a
        /\ memory.kind = "Memory" /\ Kept(memory, near.free) /\ near.after = s.after
    BY <2>1, <2>3 DEF Locates
  <2>5. Taken(reg, near, loaded)
    BY <1>2, <2>2 DEF Allocated
  <2>6. \A file \in Files : /\ near.free[file] \subseteq s.free[file]
                            /\ t.free[file] \subseteq near.free[file]
    BY <1>1, <1>5, <1>6, <2>2 DEF Follows
  <2>7. /\ IsRegister(reg) /\ reg.number \in s.free[reg.file]
        /\ reg.number \in near.free[reg.file]
        /\ reg.number \notin t.free[reg.file] /\ reg.number \in PoolOf(reg.file)
    BY <1>5, <2>5, <2>6 DEF Taken, IsRegister
  <2>8. Taken(t.operand, s, t)
    BY <1>9, <1>10
  <2>9. ~(reg.file = "gp" /\ reg.number = memory.base.number) /\ Kept(memory, t.free)
    BY <2>4, <2>6, <2>7, KeptStays DEF Kept
  <2> HIDE DEF memory, reg
  <2>10. CASE is_dst
    <3>1. At(t, m) = m1 /\ t.after = Append(s.after, store)
      BY <1>5, <2>1, <2>4, <2>10 DEF At
    <3>2. Delivers(m1, t.free, reg, store, a)
      BY <2>4, <2>7, <2>9 DEF Delivers
    <3> HIDE DEF store
    <3> QED BY <1>5, <2>1, <2>4, <2>8, <2>10, <3>1, <3>2 DEF Stores
  <2>11. CASE ~is_dst
    <3>1. PICK m2 : m2 = At(t, m)
      OBVIOUS
    <3>2. m2 = Execute(m1, load) /\ t.after = s.after
      BY <1>3, <1>5, <2>1, <2>2, <2>4, <2>11, <3>1 DEF At, EmittedBefore
    <3>3. SetTo(m1, m2, reg, Read(m1, a))
      <4>1. Machine(m1)
        BY <2>4 DEF Agree
      <4>2. Value(m1, memory) = Read(m1, a)
        BY <2>4 DEF Value
      <4> QED BY <2>7, <3>2, <4>1, <4>2, MoveSets
    <3>4. Agree(m1, m2, s.free)
      BY <2>7, <3>3, SetAgrees
    <3>5. Agree(m0, m2, s.free)
      BY <2>4, <3>4, AgreeTransitive
    <3>6. Read(m1, a) = Read(m0, a)
      BY <2>4 DEF Agree, Read
    <3>7. Value(m2, reg) = Read(m0, a)
      BY <2>7, <3>3, <3>6 DEF SetTo, Value, IsRegister
    <3> QED BY <1>5, <2>1, <2>8, <2>11, <3>1, <3>2, <3>5, <3>7 DEF Loads
  <2> QED BY <2>10, <2>11
<1> QED BY <1>0, <1>7, <1>8, <1>9, <1>10

-----------------------------------------------------------------------------
(* Objects and where the frame has them.                                    *)

Pools == [file \in Files |-> PoolOf(file)]

\* A new slot leaves the others where they are.
LEMMA PlaceGrows ==
  ASSUME NEW f, NEW name, NEW size
  PROVE  LET g == Place(f, name, size)
         IN  FrameGrows(f, g) /\ name \in DOMAIN g.offsets
<1>1. CASE name \in DOMAIN f.offsets
  BY <1>1 DEF Place, FrameGrows
<1>2. CASE name \notin DOMAIN f.offsets
  <2> DEFINE top == RoundUp(f.current_offset, Alignment(size)) + size
             offsets == [n \in DOMAIN f.offsets \cup {name} |->
                           IF n = name THEN top ELSE f.offsets[n]]
             g == [offsets |-> offsets, current_offset |-> top]
  <2>1. Place(f, name, size) = g
    BY <1>2 DEF Place
  <2> HIDE DEF top
  <2>2. g.offsets = offsets
    OBVIOUS
  <2> HIDE DEF g
  <2> QED BY <1>2, <2>1, <2>2 DEF FrameGrows
<1> QED BY <1>1, <1>2

\* A slot stays where it is while the frame grows.
LEMMA SlotStays ==
  ASSUME NEW f, NEW g, NEW name, NEW size, FrameGrows(Place(f, name, size), g)
  PROVE  LocalOffset(g, name, size) = LocalOffset(f, name, size)
<1>1. /\ name \in DOMAIN g.offsets
      /\ g.offsets[name] = Place(f, name, size).offsets[name]
  BY PlaceGrows DEF FrameGrows
<1>2. Place(g, name, size) = g
  BY <1>1 DEF Place
<1> QED BY <1>1, <1>2 DEF LocalOffset

\* A machine for the code of a later state is one for that of an earlier one.
LEMMA ServesEarlier ==
  ASSUME NEW s, NEW t, Follows(s, t), t.failed = FALSE, NEW m, Serves(m, t.frame, t.pool)
  PROVE  Serves(m, s.frame, s.pool)
BY DEF Serves, Follows, FrameGrows, PoolGrows

\* A pseudo register is the slot that the frame has for it.
LEMMA PseudoReaches ==
  ASSUME NEW s, Ready(s), s.operand.kind = "Pseudo", s.operand.size \in {4, 8}
  PROVE  LET t == ResolvePseudo(s)
         IN  /\ Follows(s, t) /\ t.instr = s.instr /\ t.failed = s.failed
             /\ t.before = s.before /\ t.after = s.after /\ t.free = s.free
             /\ t.operand.kind = "Memory" /\ t.operand.base = X29
             /\ s.failed = FALSE => Addressable(t.operand, t.free)
             /\ \A m, n : Serves(m, t.frame, t.pool) /\ n.gp[29] = m.gp[29]
                            => OperandAddress(n, t.operand) = ObjectAddress(m, s.operand)
<1> DEFINE p == s.operand
           t == ResolvePseudo(s)
           offset == LocalOffset(s.frame, p.name, p.size)
<1>1. Sound(t) /\ DOMAIN s = Fields
  BY PseudoSound DEF Ready, Sound
<1>2. /\ t.failed = s.failed /\ t.instr = s.instr /\ t.free = s.free
      /\ t.before = s.before /\ t.after = s.after /\ t.pool = s.pool
      /\ t.frame = Place(s.frame, p.name, p.size)
      /\ t.operand = Memory(X29, offset, p.size)
  BY <1>1 DEF ResolvePseudo, Fields
<1> HIDE DEF t
<1>3. s.failed = FALSE => IsFrame(t.frame) /\ offset \in Int
  BY <1>2, PlaceFrame DEF Ready
<1>4. Follows(s, t)
  <2>1. Ready(t)
    BY <1>1, <1>2, <1>3 DEF Ready
  <2>2. FrameGrows(s.frame, t.frame)
    BY <1>2, PlaceGrows
  <2> QED BY <1>2, <2>1, <2>2 DEF Follows, PoolGrows
<1>5. s.failed = FALSE => Addressable(t.operand, t.free)
  <2> SUFFICES ASSUME s.failed = FALSE PROVE Addressable(t.operand, t.free)
    OBVIOUS
  <2>1. 29 \notin s.free["gp"]
    <3>1. s.free["gp"] \subseteq GPPool
      BY DEF Ready, Sound, Conserved, Files
    <3> QED BY <3>1, ReservedAssumption
  <2>2. IsRegister(X29) /\ X29.file = "gp" /\ X29.number = 29
    BY DEF IsRegister, X29, Register, Files
  <2> HIDE DEF offset
  <2>3. t.operand.kind = "Memory" /\ t.operand.base = X29 /\ t.operand.offset = offset
    BY <1>2 DEF Memory
  <2> QED BY <1>2, <1>3, <2>1, <2>2, <2>3 DEF Addressable, Kept
<1>6. ASSUME NEW m, NEW n, Serves(m, t.frame, t.pool), n.gp[29] = m.gp[29]
      PROVE  OperandAddress(n, t.operand) = ObjectAddress(m, p)
  <2>1. LocalOffset(m.frame, p.name, p.size) = offset
    BY <1>2, <1>6, SlotStays DEF Serves
  <2> HIDE DEF offset
  <2>2. OperandAddress(n, t.operand) = n.gp[29] + offset
    BY <1>2 DEF OperandAddress, Memory, X29, Register
  <2> QED BY <1>6, <2>1, <2>2 DEF ObjectAddress
<1>7. t.operand.kind = "Memory" /\ t.operand.base = X29
  BY <1>2 DEF Memory
<1> QED BY <1>2, <1>4, <1>5, <1>6, <1>7 DEF t

\* The frame pointer is no scratch register.
LEMMA FramePointer ==
  ASSUME NEW m, NEW n, Agree(m, n, Pools)
  PROVE  n.gp[29] = m.gp[29] /\ n.gp[31] = m.gp[31]
<1>1. "gp" \in Files /\ Pools["gp"] = GPPool
  BY DEF Pools, PoolOf, Files
<1>2. 29 \in (0 .. 31) \ GPPool /\ 31 \in (0 .. 31) \ GPPool
  BY ReservedAssumption
<1> QED BY <1>1, <1>2 DEF Agree

\* An object of static duration is accessed at its symbol.
LEMMA DataReaches ==
  ASSUME NEW s, Ready(s), s.operand.name \in Int, NEW is_dst \in BOOLEAN, NEW use_float
  PROVE  Accesses(s, ResolveDataOperand(s, is_dst, use_float),
                  DataSymbol(s.operand.name), is_dst, use_float)
<1> DEFINE symbol == DataSymbol(s.operand.name)
           size == s.operand.size
<1>1. s.failed = FALSE => symbol \in Int
  BY DEF DataSymbol
<1>2. ResolveDataOperand(s, is_dst, use_float) = AccessSymbol(s, symbol, is_dst, use_float, size)
  BY DEF ResolveDataOperand
<1> HIDE DEF symbol, size
<1>3. Accesses(s, AccessSymbol(s, symbol, is_dst, use_float, size), symbol, is_dst, use_float)
  BY <1>1, AccessReaches
<1> QED BY <1>2, <1>3 DEF symbol

\* An object that has a name.
IsPointer(p) ==
  \/ p.kind = "Pseudo" /\ p.size \in {4, 8}
  \/ p.kind = "Data" /\ p.name \in Int

\* A pointer is fetched into a register, which then is the base.
LEMMA IndirectReaches ==
  ASSUME NEW s, Ready(s), s.operand.kind = "Indirect", IsPointer(s.operand.pointer)
  PROVE  LET t == ResolveIndirectMemory(s)
         IN  /\ Follows(s, t)
             /\ t.failed = FALSE => Addressable(t.operand, t.free) /\ t.operand.offset = 0
             /\ \A m : t.failed = FALSE /\ Serves(m, t.frame, t.pool) /\ Agree(m, At(s, m), Pools)
                  => Locates(s, t, m, OperandAddress(m, s.operand))
<1> DEFINE p       == s.operand.pointer
           inner   == [s EXCEPT !.operand = p]
           placed  == ResolvePseudo(inner)
           pointer == IF inner.operand.kind = "Pseudo"
                      THEN ResolveMemoryOperand(placed, FALSE, FALSE)
                      ELSE ResolveDataOperand(inner, FALSE, FALSE)
           base    == Memory(pointer.operand, 0, s.operand.size)
           t       == [pointer EXCEPT !.operand = base]
<1>0. t = ResolveIndirectMemory(s)
  BY DEF ResolveIndirectMemory
<1>1. OperandSet(s, inner, p)
  BY OperandReady
<1> HIDE DEF inner
<1>2. /\ Follows(s, inner) /\ inner.operand = p /\ inner.before = s.before
      /\ inner.after = s.after /\ inner.free = s.free /\ inner.failed = s.failed
      /\ inner.instr = s.instr /\ inner.frame = s.frame /\ inner.pool = s.pool
  BY <1>1 DEF OperandSet, Unallocated, SameSurroundings
<1>3. /\ Follows(s, pointer)
      /\ pointer.failed = FALSE => Taken(pointer.operand, s, pointer) /\ pointer.operand.file = "gp"
      /\ \A m : pointer.failed = FALSE /\ Serves(m, pointer.frame, pointer.pool)
                /\ Agree(m, At(s, m), Pools)
           => /\ Loads(s, pointer, m, Read(m, ObjectAddress(m, p)))
              /\ ObjectAddress(m, p) \in Int
  <2> DEFINE no == FALSE
             u == ResolveMemoryOperand(placed, no, no)
             d == ResolveDataOperand(inner, no, no)
  <2>0. no \in BOOLEAN /\ ~no /\ FileOf(no) = "gp"
    BY DEF FileOf
  <2>1. CASE p.kind = "Pseudo"
    <3>1. /\ Follows(inner, placed) /\ placed.failed = inner.failed
          /\ placed.before = s.before /\ placed.after = s.after /\ placed.free = s.free
          /\ placed.operand.kind = "Memory" /\ placed.operand.base = X29
          /\ placed.failed = FALSE => Addressable(placed.operand, placed.free)
          /\ \A m, n : Serves(m, placed.frame, placed.pool) /\ n.gp[29] = m.gp[29]
               => OperandAddress(n, placed.operand) = ObjectAddress(m, p)
      <4>1. Ready(inner) /\ inner.operand.kind = "Pseudo" /\ inner.operand.size \in {4, 8}
        BY <1>2, <2>1 DEF Follows, IsPointer
      <4>2. /\ Follows(inner, placed) /\ placed.failed = inner.failed
            /\ placed.before = inner.before /\ placed.after = inner.after
            /\ placed.free = inner.free
            /\ placed.operand.kind = "Memory" /\ placed.operand.base = X29
            /\ inner.failed = FALSE => Addressable(placed.operand, placed.free)
            /\ \A m, n : Serves(m, placed.frame, placed.pool) /\ n.gp[29] = m.gp[29]
                 => OperandAddress(n, placed.operand) = ObjectAddress(m, inner.operand)
        BY <4>1, PseudoReaches
      <4> HIDE DEF placed
      <4> QED BY <1>2, <4>2
    <3> HIDE DEF placed
    <3>2. pointer = u
      BY <1>2, <2>1
    <3> HIDE DEF no, pointer
    <3>3. /\ Follows(placed, u) /\ SameSurroundings(placed, u)
          /\ u.failed = FALSE => Taken(u.operand, placed, u) /\ u.operand.file = "gp"
          /\ \A m : /\ u.failed = FALSE /\ Machine(At(placed, m))
                    /\ Movable(At(placed, m), placed.operand)
                    => Loads(placed, u, m,
                             Read(At(placed, m), OperandAddress(At(placed, m), placed.operand)))
      <4>1. Ready(placed)
        BY <3>1 DEF Follows
      <4> QED BY <2>0, <3>1, <4>1, MemoryReaches
    <3> HIDE DEF u
    <3>4. Follows(s, u)
      BY <1>2, <3>1, <3>3, FollowsTransitive
    <3>5. ASSUME NEW m, u.failed = FALSE, Serves(m, u.frame, u.pool), Agree(m, At(s, m), Pools)
          PROVE  /\ Loads(s, u, m, Read(m, ObjectAddress(m, p)))
                 /\ ObjectAddress(m, p) \in Int
      <4>1. PICK n : n = At(s, m)
        OBVIOUS
      <4>2. At(placed, m) = n /\ Machine(n) /\ n.gp[29] = m.gp[29] /\ n.mem = m.mem
        BY <3>1, <3>5, <4>1, FramePointer DEF At, Agree
      <4>3. Serves(m, placed.frame, placed.pool)
        BY <3>3, <3>5, ServesEarlier
      <4>4. n.gp[29] \in Int
        BY <3>5, <4>2 DEF Serves
      <4>5. placed.operand.offset \in Int
        BY <3>1, <3>3, <3>5 DEF Addressable, Follows
      <4>6. OperandAddress(n, placed.operand) = ObjectAddress(m, p)
        BY <3>1, <4>2, <4>3
      <4>7. ObjectAddress(m, p) \in Int
        <5>1. OperandAddress(n, placed.operand) = n.gp[29] + placed.operand.offset
          BY <3>1 DEF OperandAddress, X29, Register
        <5> QED BY <4>4, <4>5, <4>6, <5>1
      <4>8. Movable(n, placed.operand)
        BY <3>1, <4>4 DEF Movable, X29, Register
      <4>9. Loads(placed, u, m, Read(n, ObjectAddress(m, p)))
        BY <3>3, <3>5, <4>2, <4>6, <4>8
      <4>10. Read(n, ObjectAddress(m, p)) = Read(m, ObjectAddress(m, p))
        BY <4>2 DEF Read
      <4>11. Loads(s, u, m, Read(m, ObjectAddress(m, p)))
        BY <3>1, <4>1, <4>2, <4>9, <4>10 DEF Loads, Taken
      <4> QED BY <4>7, <4>11
    <3>6. u.failed = FALSE => Taken(u.operand, s, u)
      BY <3>1, <3>3 DEF Taken
    <3> QED BY <3>2, <3>3, <3>4, <3>5, <3>6
  <2>2. CASE p.kind = "Data"
    <3>1. pointer = d
      BY <1>2, <2>2
    <3> HIDE DEF no, pointer
    <3>2. /\ Follows(inner, d) /\ SameSurroundings(inner, d)
          /\ d.failed = FALSE => Taken(d.operand, inner, d) /\ d.operand.file = "gp"
          /\ \A m : d.failed = FALSE /\ Machine(At(inner, m)) =>
               Loads(inner, d, m, Read(At(inner, m), DataSymbol(p.name)))
      <4>1. Ready(inner) /\ inner.operand.name \in Int
        BY <1>2, <2>2 DEF Follows, IsPointer
      <4>2. Accesses(inner, d, DataSymbol(inner.operand.name), no, no)
        BY <2>0, <4>1, DataReaches
      <4> QED BY <1>2, <2>0, <4>2 DEF Accesses
    <3> HIDE DEF d
    <3>3. Follows(s, d)
      BY <1>2, <3>2, FollowsTransitive
    <3>4. ASSUME NEW m, d.failed = FALSE, Serves(m, d.frame, d.pool), Agree(m, At(s, m), Pools)
          PROVE  /\ Loads(s, d, m, Read(m, ObjectAddress(m, p)))
                 /\ ObjectAddress(m, p) \in Int
      <4>1. PICK n : n = At(s, m)
        OBVIOUS
      <4>2. At(inner, m) = n /\ Machine(n) /\ n.mem = m.mem
        BY <1>2, <3>4, <4>1 DEF At, Agree
      <4>3. ObjectAddress(m, p) = DataSymbol(p.name)
        BY <2>2 DEF ObjectAddress
      <4>4. Loads(inner, d, m, Read(n, DataSymbol(p.name)))
        BY <3>2, <3>4, <4>2
      <4>5. Read(n, ObjectAddress(m, p)) = Read(m, ObjectAddress(m, p))
        BY <4>2 DEF Read
      <4>6. DataSymbol(p.name) \in Int
        BY <2>2 DEF IsPointer, DataSymbol
      <4>7. Loads(s, d, m, Read(m, ObjectAddress(m, p)))
        BY <1>2, <4>1, <4>2, <4>3, <4>4, <4>5 DEF Loads, Taken
      <4> QED BY <4>3, <4>6, <4>7
    <3>5. d.failed = FALSE => Taken(d.operand, s, d)
      BY <1>2, <3>2 DEF Taken
    <3> QED BY <3>1, <3>2, <3>3, <3>4, <3>5
  <2> QED BY <2>1, <2>2 DEF IsPointer
<1> HIDE DEF pointer
<1>4. OperandSet(pointer, t, base)
  <2>1. Ready(pointer)
    BY <1>3 DEF Follows
  <2> HIDE DEF base
  <2> QED BY <2>1, OperandReady
<1> HIDE DEF t
<1>5. /\ Follows(pointer, t) /\ t.operand = base /\ t.before = pointer.before
      /\ t.after = pointer.after /\ t.free = pointer.free /\ t.failed = pointer.failed
      /\ t.frame = pointer.frame /\ t.pool = pointer.pool
  BY <1>4 DEF OperandSet, Unallocated, SameSurroundings
<1>6. Follows(s, t)
  BY <1>3, <1>5, FollowsTransitive
<1>7. base.kind = "Memory" /\ base.base = pointer.operand /\ base.offset = 0
  BY DEF Memory
<1> HIDE DEF base
<1>8. ASSUME t.failed = FALSE
      PROVE  Addressable(t.operand, t.free) /\ t.operand.offset = 0
  <2>1. Taken(pointer.operand, s, pointer) /\ pointer.operand.file = "gp"
    BY <1>3, <1>5, <1>8
  <2> QED BY <1>5, <1>7, <2>1 DEF Addressable, Kept, Taken
<1>9. ASSUME NEW m, t.failed = FALSE, Serves(m, t.frame, t.pool), Agree(m, At(s, m), Pools)
      PROVE  Locates(s, t, m, OperandAddress(m, s.operand))
  <2>1. PICK v : v = Read(m, ObjectAddress(m, p))
    OBVIOUS
  <2>2. Loads(s, pointer, m, v) /\ ObjectAddress(m, p) \in Int
    BY <1>3, <1>5, <1>9, <2>1
  <2>3. v \in Int
    BY <1>9, <2>1, <2>2 DEF Serves
  <2>4. OperandAddress(m, s.operand) = v
    BY <2>1 DEF OperandAddress
  <2>5. At(t, m) = At(pointer, m)
    BY <1>5 DEF At
  <2>6. pointer.operand.kind = "Register" /\ pointer.operand.file = "gp"
    BY <1>3, <1>5, <1>9 DEF Taken, IsRegister
  <2>7. OperandAddress(At(t, m), t.operand) = v + 0
    BY <1>5, <1>7, <2>2, <2>5, <2>6 DEF Loads, Value, OperandAddress
  <2>8. OperandAddress(At(t, m), t.operand) = v
    BY <2>3, <2>7
  <2> QED BY <1>5, <1>8, <1>9, <2>2, <2>4, <2>5, <2>8 DEF Locates, Loads, Addressable
<1> QED BY <1>0, <1>6, <1>8, <1>9

\* The constant is in the pool, under its label.
LEMMA ConstantRegistered ==
  ASSUME NEW p \in Seq(Int), NEW v \in Int
  PROVE  LET q == RegisterDouble(p, v)
         IN  /\ q \in Seq(Int) /\ PoolGrows(p, q)
             /\ DoubleName(q, v) \in DOMAIN q /\ q[DoubleName(q, v)] = v
<1> DEFINE q == RegisterDouble(p, v)
<1>1. q \in Seq(Int) /\ PoolGrows(p, q) /\ \E i \in DOMAIN q : q[i] = v
  <2>1. CASE \E i \in DOMAIN p : p[i] = v
    BY <2>1 DEF RegisterDouble, PoolGrows
  <2>2. CASE ~ \E i \in DOMAIN p : p[i] = v
    <3>1. q = Append(p, v)
      BY <2>2 DEF RegisterDouble
    <3>2. /\ DOMAIN p = 1 .. Len(p) /\ Len(p) \in Nat
          /\ DOMAIN q = 1 .. Len(p) + 1 /\ q[Len(p) + 1] = v
          /\ \A i \in DOMAIN p : q[i] = p[i]
      BY <3>1, Appended
    <3>3. q \in Seq(Int)
      BY <3>1
    <3> HIDE DEF q
    <3> QED BY <3>2, <3>3, SMTT(30) DEF PoolGrows
  <2> QED BY <2>1, <2>2
<1> HIDE DEF q
<1> QED BY <1>1 DEF q, DoubleName

\* An immediate is loaded as it is, a double from the constant pool.
LEMMA ImmediateReaches ==
  ASSUME NEW s, Ready(s), s.operand.value \in Int, NEW use_float \in BOOLEAN, NEW target
  PROVE  LET t == ResolveImmediate(s, use_float, target)
         IN  /\ Follows(s, t)
             /\ t.failed = FALSE => Taken(t.operand, s, t)
             /\ \A m : t.failed = FALSE /\ Serves(m, t.frame, t.pool) /\ Agree(m, At(s, m), Pools)
                  => Loads(s, t, m, s.operand.value)
<1> DEFINE t    == ResolveImmediate(s, use_float, target)
           v    == s.operand.value
           size == IF target >= s.operand.size THEN target ELSE s.operand.size
           s1   == Allocate(s, "gp", size)
           reg  == Last(s1.temps)
           load == Instr("LoadImm", <<reg>>, FALSE, v)
           s2   == Before(s1, load)
           int  == [s2 EXCEPT !.operand = reg]
           constants == RegisterDouble(s.pool, v)
           symbol    == ConstantSymbol(DoubleName(constants, v))
           s3   == [s EXCEPT !.pool = constants]
<1>1. t = IF use_float THEN AccessSymbol(s3, symbol, FALSE, TRUE, 8) ELSE int
  BY DEF ResolveImmediate, ResolveFloatImmediate
<1>2. CASE use_float
  <2>1. s.failed = FALSE => /\ constants \in Seq(Int) /\ PoolGrows(s.pool, constants)
                            /\ DoubleName(constants, v) \in DOMAIN constants
                            /\ constants[DoubleName(constants, v)] = v
    BY ConstantRegistered DEF Ready
  <2> HIDE DEF constants
  <2>2. /\ s3.failed = s.failed /\ s3.free = s.free /\ s3.temps = s.temps
        /\ s3.before = s.before /\ s3.after = s.after /\ s3.frame = s.frame
        /\ s3.instr = s.instr /\ s3.pool = constants /\ DOMAIN s3 = Fields
    BY DEF Ready, Sound, Fields
  <2> HIDE DEF s3
  <2>3. Follows(s, s3)
    <3>1. Sound(s3)
      BY <2>2, Unrelated DEF Ready
    <3> QED BY <2>1, <2>2, <3>1 DEF Follows, Ready, FrameGrows
  <2> DEFINE no == FALSE
             yes == TRUE
             u == AccessSymbol(s3, symbol, no, yes, 8)
  <2>4. no \in BOOLEAN /\ ~no /\ t = u
    BY <1>1, <1>2
  <2>5. s.failed = FALSE => symbol \in Int
    <3>1. s.failed = FALSE => DoubleName(constants, v) \in Int
      BY <2>1
    <3> QED BY <3>1 DEF ConstantSymbol
  <2> HIDE DEF no, yes, symbol, t
  <2>6. /\ Follows(s3, u) /\ SameSurroundings(s3, u)
        /\ u.failed = FALSE => Taken(u.operand, s3, u)
        /\ \A m : u.failed = FALSE /\ Machine(At(s3, m)) =>
              Loads(s3, u, m, Read(At(s3, m), symbol))
    <3>1. Ready(s3) /\ (s3.failed = FALSE => symbol \in Int)
      BY <2>2, <2>3, <2>5 DEF Follows
    <3>2. Accesses(s3, u, symbol, no, yes)
      BY <2>4, <3>1, AccessReaches
    <3> QED BY <2>4, <3>2 DEF Accesses
  <2> HIDE DEF u
  <2>7. Follows(s, u) /\ (u.failed = FALSE => Taken(u.operand, s, u))
    BY <2>2, <2>3, <2>6, FollowsTransitive DEF Taken
  <2>8. ASSUME NEW m, u.failed = FALSE, Serves(m, u.frame, u.pool), Agree(m, At(s, m), Pools)
        PROVE  Loads(s, u, m, v)
    <3>1. PICK n : n = At(s, m)
      OBVIOUS
    <3>2. At(s3, m) = n /\ Machine(n) /\ n.mem = m.mem
      BY <2>2, <2>8, <3>1 DEF At, Agree
    <3>3. Loads(s3, u, m, Read(n, symbol))
      BY <2>6, <2>8, <3>2
    <3>4. Read(n, symbol) = Read(m, symbol)
      BY <3>2 DEF Read
    <3>5. Read(m, symbol) = v
      <4>1. u.pool = constants /\ s.failed = FALSE
        BY <2>2, <2>6, <2>7, <2>8 DEF SameSurroundings, Follows
      <4> QED BY <2>1, <2>8, <4>1 DEF Serves, symbol
    <3> QED BY <2>2, <3>1, <3>2, <3>3, <3>4, <3>5 DEF Loads, Taken
  <2> HIDE DEF v
  <2> QED BY <2>4, <2>7, <2>8 DEF t, v
<1>3. CASE ~use_float
  <2> HIDE DEF size
  <2>1. Allocated(s, s1, "gp")
    BY Allocates DEF Files
  <2> HIDE DEF s1
  <2>2. EmittedBefore(s1, s2, load)
    <3>1. Ready(s1)
      BY <2>1 DEF Allocated, Follows
    <3> HIDE DEF load
    <3> QED BY <3>1, EmitReady
  <2> HIDE DEF s2
  <2>3. OperandSet(s2, int, reg)
    <3>1. Ready(s2)
      BY <2>2 DEF EmittedBefore, Unallocated, Follows
    <3> HIDE DEF reg
    <3> QED BY <3>1, OperandReady
  <2> HIDE DEF int
  <2>4. /\ Follows(s, s1) /\ Follows(s1, s2) /\ Follows(s2, int) /\ s1.before = s.before
        /\ int.after = s.after /\ int.before = s2.before /\ int.operand = reg
        /\ int.failed = s1.failed /\ s2.failed = s1.failed
        /\ s1.failed = FALSE => Taken(reg, s, s1)
        /\ s1.failed = FALSE => \A m : At(s2, m) = Execute(At(s1, m), load)
    BY <2>1, <2>2, <2>3 DEF Allocated, EmittedBefore, OperandSet, Unallocated
  <2>5. Follows(s, int)
    BY <2>4, FollowsTransitive
  <2>6. ASSUME int.failed = FALSE PROVE Taken(int.operand, s, int)
    <3>1. Follows(s1, int) /\ s.failed = FALSE /\ Follows(s, s)
      BY <2>4, <2>5, <2>6, FollowsTransitive, FollowsSelf DEF Follows
    <3> HIDE DEF reg
    <3> QED BY <2>4, <2>6, <3>1, TakenBetween
  <2>7. ASSUME NEW m, int.failed = FALSE, Agree(m, At(s, m), Pools)
        PROVE  Loads(s, int, m, v)
    <3>1. PICK m0, m1 : m0 = At(s, m) /\ m1 = At(int, m)
      OBVIOUS
    <3>2. m1 = Execute(m0, load) /\ Machine(m0)
      BY <2>4, <2>7, <3>1 DEF At, Agree
    <3>3. IsRegister(reg) /\ reg.number \in s.free[reg.file]
      BY <2>4, <2>6, <2>7 DEF Taken
    <3> HIDE DEF reg, v
    <3>4. SetTo(m0, m1, reg, v)
      BY <3>2, <3>3, LoadImmSets DEF load
    <3>5. Agree(m0, m1, s.free) /\ Value(m1, reg) = v
      BY <3>3, <3>4, SetAgrees DEF SetTo, Value, IsRegister
    <3> QED BY <2>4, <2>6, <2>7, <3>1, <3>5 DEF Loads
  <2>8. t = int
    BY <1>1, <1>3
  <2> HIDE DEF t, v
  <2> QED BY <2>5, <2>6, <2>7, <2>8 DEF t, v
<1> QED BY <1>2, <1>3

\* One register holds what it should, and a store of it is what remains.
Aims(t, m, a, v) ==
  \E n, r, x : /\ t.after = <<x>> /\ Agree(m, n, Pools)
               /\ Delivers(n, t.free, r, x, a)
               /\ SetTo(n, Execute(At(t, m), t.instr), r, v)

LEMMA SetTwice ==
  ASSUME NEW m, NEW n, NEW p, NEW r, NEW v, NEW w, SetTo(m, n, r, v), SetTo(n, p, r, w)
  PROVE  SetTo(m, p, r, w)
BY DEF SetTo

\* The register that is to be stored at an object's address.
LEMMA TargetReaches ==
  ASSUME NEW s, Ready(s), NEW dst, IsPointer(dst)
  PROVE  LET s1 == [s EXCEPT !.operand = dst]
             t  == IF dst.kind = "Pseudo"
                   THEN ResolveMemoryOperand(ResolvePseudo(s1), TRUE, FALSE)
                   ELSE ResolveDataOperand(s1, TRUE, FALSE)
         IN  /\ Follows(s, t)
             /\ t.failed = FALSE => t.operand.file = "gp"
             /\ \A m : t.failed = FALSE /\ Serves(m, t.frame, t.pool) /\ Agree(m, At(s, m), Pools)
                  => Stores(s, t, m, OperandAddress(m, dst))
<1> DEFINE s1     == [s EXCEPT !.operand = dst]
           no     == FALSE
           yes    == TRUE
           placed == ResolvePseudo(s1)
           u      == ResolveMemoryOperand(placed, yes, no)
           d      == ResolveDataOperand(s1, yes, no)
           t      == IF dst.kind = "Pseudo" THEN u ELSE d
<1>1. OperandSet(s, s1, dst)
  BY OperandReady
<1> HIDE DEF s1
<1>2. /\ Follows(s, s1) /\ s1.operand = dst /\ s1.before = s.before
      /\ s1.after = s.after /\ s1.free = s.free /\ s1.failed = s.failed
      /\ s1.instr = s.instr /\ s1.frame = s.frame /\ s1.pool = s.pool
  BY <1>1 DEF OperandSet, Unallocated, SameSurroundings
<1>3. no \in BOOLEAN /\ ~no /\ yes \in BOOLEAN /\ yes /\ FileOf(no) = "gp"
  BY DEF FileOf
<1>4. CASE dst.kind = "Pseudo"
  <2>1. /\ Follows(s1, placed) /\ placed.failed = s1.failed
        /\ placed.before = s.before /\ placed.after = s.after /\ placed.free = s.free
        /\ placed.operand.kind = "Memory" /\ placed.operand.base = X29
        /\ placed.failed = FALSE => Addressable(placed.operand, placed.free)
        /\ \A m, n : Serves(m, placed.frame, placed.pool) /\ n.gp[29] = m.gp[29]
             => OperandAddress(n, placed.operand) = ObjectAddress(m, dst)
    <3>1. Ready(s1) /\ s1.operand.kind = "Pseudo" /\ s1.operand.size \in {4, 8}
      BY <1>2, <1>4 DEF Follows, IsPointer
    <3> QED BY <1>2, <3>1, PseudoReaches
  <2> HIDE DEF placed, no, yes
  <2>2. /\ Follows(placed, u)
        /\ u.failed = FALSE => u.operand.file = "gp"
        /\ \A m : /\ u.failed = FALSE /\ Machine(At(placed, m))
                  /\ Movable(At(placed, m), placed.operand)
                  => Stores(placed, u, m, OperandAddress(At(placed, m), placed.operand))
    <3>1. Ready(placed)
      BY <2>1 DEF Follows
    <3> QED BY <1>3, <2>1, <3>1, MemoryReaches
  <2> HIDE DEF u
  <2>3. Follows(s, u)
    BY <1>2, <2>1, <2>2, FollowsTransitive
  <2>4. ASSUME NEW m, u.failed = FALSE, Serves(m, u.frame, u.pool), Agree(m, At(s, m), Pools)
        PROVE  Stores(s, u, m, OperandAddress(m, dst))
    <3>1. PICK n : n = At(s, m)
      OBVIOUS
    <3>2. At(placed, m) = n /\ Machine(n) /\ n.gp[29] = m.gp[29]
      BY <2>1, <2>4, <3>1, FramePointer DEF At, Agree
    <3>3. Serves(m, placed.frame, placed.pool)
      BY <2>2, <2>4, ServesEarlier
    <3>4. n.gp[29] \in Int
      BY <2>4, <3>2 DEF Serves
    <3>5. OperandAddress(n, placed.operand) = ObjectAddress(m, dst)
      BY <2>1, <3>2, <3>3
    <3>6. Movable(n, placed.operand)
      BY <2>1, <3>4 DEF Movable, X29, Register
    <3>7. Stores(placed, u, m, ObjectAddress(m, dst))
      BY <2>2, <2>4, <3>2, <3>5, <3>6
    <3>8. OperandAddress(m, dst) = ObjectAddress(m, dst)
      BY <1>4 DEF OperandAddress
    <3> QED BY <2>1, <3>1, <3>2, <3>7, <3>8 DEF Stores, Taken
  <2>5. t = u
    BY <1>4
  <2> HIDE DEF t
  <2>6. /\ Follows(s, t)
        /\ t.failed = FALSE => t.operand.file = "gp"
        /\ \A m : t.failed = FALSE /\ Serves(m, t.frame, t.pool) /\ Agree(m, At(s, m), Pools)
             => Stores(s, t, m, OperandAddress(m, dst))
    BY <2>2, <2>3, <2>4, <2>5
  <2> QED BY <2>6 DEF t, u, placed, s1, yes, no
<1>5. CASE dst.kind = "Data"
  <2> HIDE DEF no, yes
  <2>1. Accesses(s1, d, DataSymbol(dst.name), yes, no)
    <3>1. Ready(s1) /\ s1.operand.name \in Int
      BY <1>2, <1>5 DEF Follows, IsPointer
    <3>2. Accesses(s1, d, DataSymbol(s1.operand.name), yes, no)
      BY <1>3, <3>1, DataReaches
    <3> QED BY <1>2, <3>2
  <2> HIDE DEF d
  <2>2. Follows(s, d)
    BY <1>2, <2>1, FollowsTransitive DEF Accesses
  <2>3. d.failed = FALSE => d.operand.file = "gp"
    BY <1>3, <2>1 DEF Accesses
  <2>4. ASSUME NEW m, d.failed = FALSE, Agree(m, At(s, m), Pools)
        PROVE  Stores(s, d, m, OperandAddress(m, dst))
    <3>1. OperandAddress(m, dst) = DataSymbol(dst.name)
      BY <1>5 DEF OperandAddress, ObjectAddress
    <3>2. At(s1, m) = At(s, m) /\ Machine(At(s, m))
      BY <1>2, <2>4 DEF At, Agree
    <3>3. Stores(s1, d, m, DataSymbol(dst.name))
      BY <1>3, <2>1, <2>4, <3>2 DEF Accesses
    <3> QED BY <1>2, <3>1, <3>2, <3>3 DEF Stores, Taken
  <2>5. t = d
    BY <1>5
  <2> HIDE DEF t
  <2>6. /\ Follows(s, t)
        /\ t.failed = FALSE => t.operand.file = "gp"
        /\ \A m : t.failed = FALSE /\ Serves(m, t.frame, t.pool) /\ Agree(m, At(s, m), Pools)
             => Stores(s, t, m, OperandAddress(m, dst))
    BY <2>2, <2>3, <2>4, <2>5
  <2> QED BY <2>6 DEF t, d, s1, yes, no
<1> QED BY <1>4, <1>5 DEF IsPointer

\* The address of src is computed and on its way to dst.
LEMMA AddressReaches ==
  ASSUME NEW s, Ready(s), s.after = <<>>, NEW dst, IsPointer(dst), NEW src, IsPointer(src)
  PROVE  LET t == ResolveAddress(s, dst, src)
         IN  /\ t.failed \in BOOLEAN
             /\ t.failed = FALSE => t.pool \in Seq(Int)
             /\ \A m : t.failed = FALSE /\ Serves(m, t.frame, t.pool) /\ Agree(m, At(s, m), Pools)
                  => Aims(t, m, OperandAddress(m, dst), OperandAddress(m, src))
<1> DEFINE s1 == [s EXCEPT !.operand = dst]
           s2 == IF dst.kind = "Pseudo"
                 THEN ResolveMemoryOperand(ResolvePseudo(s1), TRUE, FALSE)
                 ELSE ResolveDataOperand(s1, TRUE, FALSE)
           reg    == s2.operand
           offset == LocalOffset(s2.frame, src.name, src.size)
           symbol == DataSymbol(src.name)
           page   == Instr("Adrp", <<reg>>, FALSE, symbol)
           back   == Immediate(-offset, FALSE, 4)
           local  == Instr("Sub", <<reg, X29, back>>, FALSE, 0)
           global == Instr("GlobalAdd", <<reg, reg>>, FALSE, symbol)
           s3     == Before(s2, page)
           near   == [s2 EXCEPT !.frame = Place(@, src.name, src.size), !.instr = local]
           data   == [s3 EXCEPT !.instr = global]
           t      == ResolveAddress(s, dst, src)
<1>0. t = IF src.kind = "Pseudo" THEN near ELSE data
  BY DEF ResolveAddress
<1>1. /\ Follows(s, s2)
      /\ s2.failed = FALSE => reg.file = "gp"
      /\ \A m : s2.failed = FALSE /\ Serves(m, s2.frame, s2.pool) /\ Agree(m, At(s, m), Pools)
           => Stores(s, s2, m, OperandAddress(m, dst))
  BY TargetReaches
<1> HIDE DEF s2
<1>2. Ready(s2) /\ DOMAIN s2 = Fields /\ s2.failed \in BOOLEAN
  BY <1>1 DEF Follows, Ready, Sound
<1>3. EmittedBefore(s2, s3, page)
  <2> HIDE DEF page
  <2> QED BY <1>2, EmitReady
<1> HIDE DEF s3
<1>4. Ready(s3) /\ DOMAIN s3 = Fields
  BY <1>3 DEF EmittedBefore, Unallocated, Follows, Ready, Sound
<1> HIDE DEF reg, symbol
<1>5. /\ s3.free = s2.free /\ s3.failed = s2.failed /\ s3.after = s2.after
      /\ s3.frame = s2.frame /\ s3.pool = s2.pool
      /\ s3.failed = FALSE => \A m : At(s3, m) = Execute(At(s2, m), page)
  BY <1>3 DEF EmittedBefore, Unallocated, SameSurroundings
<1>6. /\ near.failed = s2.failed /\ near.before = s2.before /\ near.after = s2.after
      /\ near.frame = Place(s2.frame, src.name, src.size) /\ near.pool = s2.pool
      /\ near.instr = local /\ near.free = s2.free
      /\ data.failed = s3.failed /\ data.before = s3.before /\ data.after = s3.after
      /\ data.frame = s3.frame /\ data.pool = s3.pool
      /\ data.instr = global /\ data.free = s3.free
  <2> HIDE DEF local, global
  <2> QED BY <1>2, <1>4 DEF Fields
<1> HIDE DEF near, data, t
<1>7. ASSUME NEW m, s2.failed = FALSE, Stores(s, s2, m, OperandAddress(m, dst)),
             Agree(m, At(s, m), Pools),
             NEW i, NEW v, SetTo(At(s2, m), Execute(At(t, m), i), reg, v),
             t.instr = i, t.after = s2.after, t.free = s2.free
      PROVE  Aims(t, m, OperandAddress(m, dst), v)
  <2>1. PICK n : n = At(s2, m)
    OBVIOUS
  <2>2. Agree(At(s, m), n, s.free)
    BY <1>7, <2>1 DEF Stores
  <2>3. \A file \in Files : s.free[file] \subseteq Pools[file]
    BY <1>1, <1>7 DEF Follows, Ready, Sound, Conserved, Pools, PoolOf, Files
  <2>4. Agree(m, n, Pools)
    BY <1>7, <2>2, <2>3, AgreeTransitive
  <2>5. PICK x : s2.after = Append(s.after, x) /\ Delivers(n, s2.free, reg, x, OperandAddress(m, dst))
    BY <1>7, <2>1 DEF Stores, reg
  <2>6. s2.after = <<x>>
    BY <2>5
  <2> QED BY <1>7, <2>1, <2>4, <2>5, <2>6 DEF Aims
<1>8. CASE src.kind = "Pseudo"
  <2>1. t = near
    BY <1>0, <1>8
  <2>2. ASSUME NEW m, t.failed = FALSE, Serves(m, t.frame, t.pool), Agree(m, At(s, m), Pools)
        PROVE  Aims(t, m, OperandAddress(m, dst), OperandAddress(m, src))
    <3>1. FrameGrows(Place(s2.frame, src.name, src.size), m.frame)
      BY <1>6, <2>1, <2>2 DEF Serves
    <3>2. Serves(m, s2.frame, s2.pool)
      <4>1. FrameGrows(s2.frame, m.frame)
        BY <3>1, PlaceGrows DEF FrameGrows
      <4> QED BY <1>6, <2>1, <2>2, <4>1 DEF Serves
    <3>3. Stores(s, s2, m, OperandAddress(m, dst))
      BY <1>1, <1>6, <2>1, <2>2, <3>2
    <3>4. LocalOffset(m.frame, src.name, src.size) = offset
      BY <3>1, SlotStays
    <3>5. offset \in Int
      <4>1. IsFrame(s2.frame)
        BY <1>2, <1>6, <2>1, <2>2 DEF Ready
      <4> QED BY <1>8, <4>1, PlaceFrame DEF IsPointer
    <3> HIDE DEF offset
    <3>6. PICK n : n = At(s2, m)
      OBVIOUS
    <3>7. /\ Machine(n) /\ IsRegister(reg) /\ n.gp[29] = m.gp[29]
      <4>1. Agree(At(s, m), n, s.free) /\ IsRegister(reg)
        BY <3>3, <3>6 DEF Stores, Taken, reg
      <4>2. \A file \in Files : s.free[file] \subseteq Pools[file]
        BY <1>1, <1>6, <2>1, <2>2 DEF Follows, Ready, Sound, Conserved, Pools, PoolOf, Files
      <4>3. Agree(m, n, Pools)
        BY <2>2, <4>1, <4>2, AgreeTransitive
      <4> QED BY <4>1, <4>3, FramePointer DEF Agree
    <3>8. Value(n, X29) = n.gp[29]
      BY DEF Value, X29, Register
    <3>9. Value(n, back) = -offset
      BY DEF Value, Immediate
    <3> HIDE DEF back
    <3>10. SetTo(n, Execute(n, local), reg, Value(n, X29) - Value(n, back))
      BY <3>7, ArithmeticSets
    <3>11. Value(n, X29) - Value(n, back) = OperandAddress(m, src)
      <4>1. OperandAddress(m, src) = m.gp[29] + offset
        BY <1>8, <3>4 DEF OperandAddress, ObjectAddress
      <4>2. m.gp[29] \in Int
        BY <2>2 DEF Serves
      <4> QED BY <3>5, <3>7, <3>8, <3>9, <4>1, <4>2
    <3>12. At(t, m) = n
      BY <1>6, <2>1, <3>6 DEF At
    <3> HIDE DEF local
    <3> QED BY <1>6, <1>7, <2>1, <2>2, <3>3, <3>6, <3>10, <3>11, <3>12
  <2>3. t.failed = FALSE => t.pool \in Seq(Int)
    BY <1>2, <1>6, <2>1 DEF Ready
  <2> QED BY <1>2, <1>6, <2>1, <2>2, <2>3 DEF t
<1>9. CASE src.kind = "Data"
  <2>1. t = data
    BY <1>0, <1>9
  <2>2. ASSUME NEW m, t.failed = FALSE, Serves(m, t.frame, t.pool), Agree(m, At(s, m), Pools)
        PROVE  Aims(t, m, OperandAddress(m, dst), OperandAddress(m, src))
    <3>1. Stores(s, s2, m, OperandAddress(m, dst))
      BY <1>1, <1>5, <1>6, <2>1, <2>2
    <3>2. PICK n, n1 : n = At(s2, m) /\ n1 = At(s3, m)
      OBVIOUS
    <3>3. Machine(n) /\ IsRegister(reg)
      BY <3>1, <3>2 DEF Stores, Taken, reg, Agree
    <3>4. n1 = Execute(n, page)
      BY <1>5, <1>6, <2>1, <2>2, <3>2
    <3>5. SetTo(n, n1, reg, Page(symbol))
      BY <3>3, <3>4, AdrpSets
    <3>6. Value(n1, reg) + PageOffset(symbol) = symbol
      <4>1. Value(n1, reg) = Page(symbol)
        BY <3>3, <3>5 DEF SetTo, Value, IsRegister
      <4>2. symbol \in Int
        BY <1>9 DEF symbol, IsPointer, DataSymbol
      <4> QED BY <4>1, <4>2, PageAndOffset
    <3>7. SetTo(n1, Execute(n1, global), reg, symbol)
      <4>1. Machine(n1)
        BY <3>5 DEF SetTo
      <4> QED BY <3>3, <3>6, <4>1, GlobalSets
    <3>8. SetTo(n, Execute(n1, global), reg, symbol)
      BY <3>5, <3>7, SetTwice
    <3>9. OperandAddress(m, src) = symbol
      BY <1>9 DEF OperandAddress, ObjectAddress, symbol
    <3>10. At(t, m) = n1
      BY <1>6, <2>1, <3>2 DEF At
    <3> HIDE DEF global
    <3> QED BY <1>5, <1>6, <1>7, <2>1, <2>2, <3>1, <3>2, <3>8, <3>9, <3>10
  <2>3. t.failed = FALSE => t.pool \in Seq(Int)
    BY <1>2, <1>5, <1>6, <2>1 DEF Ready
  <2> QED BY <1>2, <1>5, <1>6, <2>1, <2>2, <2>3 DEF t
<1> QED BY <1>8, <1>9 DEF IsPointer

-----------------------------------------------------------------------------
(* What the emitted instructions mean.                                      *)

\* An operand whose value no scratch register has a part in.
Usable(o) ==
  /\ Kept(o, Pools)
  /\ o.kind \in {"Pseudo", "Data"} => IsPointer(o)
  /\ o.kind = "Indirect" => IsPointer(o.pointer)
  /\ o.kind = "Immediate" => o.value \in Int

\* What an instruction may have as its result.
Writable(o) == Usable(o) /\ o.kind \in {"Pseudo", "Data", "Register"}

\* An instruction of operands that has an effect of its own.
Meaningful(i) ==
  /\ i.op # "Branch" /\ i.operands # <<>>
  /\ 1 \in DOMAIN i.operands
  /\ \A k \in DOMAIN i.operands : Usable(i.operands[k])
  /\ i.op \notin {"Compare", "Str"} => Writable(i.operands[1])
  /\ i.op = "Compare" => 2 \in DOMAIN i.operands

LEMMA RegistersUsable ==
  ASSUME NEW size
  PROVE  /\ Writable(W0(size)) /\ Writable(W1(size)) /\ Writable(D0) /\ Writable(SP)
         /\ \A o \in StackParameters(size) \cup StackArguments(size) : Usable(o)
<1>1. Pools["gp"] = GPPool /\ Pools["simd"] = SIMDPool
  BY DEF Pools, PoolOf, Files
<1>2. /\ 0 \notin Pools["gp"] /\ 1 \notin Pools["gp"] /\ 29 \notin Pools["gp"]
      /\ 31 \notin Pools["gp"] /\ 0 \notin Pools["simd"]
  BY <1>1, ReservedAssumption
<1>3. /\ \A n \in {0, 1, 29, 31} : IsRegister(Register("gp", n, size))
      /\ IsRegister(X29) /\ IsRegister(SP) /\ IsRegister(D0)
  BY DEF IsRegister, Register, X29, SP, D0, Files
<1>4. /\ W0(size).kind = "Register" /\ W0(size).file = "gp" /\ W0(size).number = 0
      /\ W1(size).kind = "Register" /\ W1(size).file = "gp" /\ W1(size).number = 1
      /\ D0.kind = "Register" /\ D0.file = "simd" /\ D0.number = 0
      /\ SP.kind = "Register" /\ SP.file = "gp" /\ SP.number = 31
      /\ X29.kind = "Register" /\ X29.file = "gp" /\ X29.number = 29
      /\ W0(size) = Register("gp", 0, size) /\ W1(size) = Register("gp", 1, size)
  BY DEF Register, W0, W1, D0, SP, X29
<1>5. \A o \in StackParameters(size) \cup StackArguments(size) :
        o.kind = "Memory" /\ o.base \in {X29, SP}
  BY DEF StackParameters, StackArguments, Memory
<1>6. Writable(W0(size)) /\ Writable(W1(size)) /\ Writable(D0) /\ Writable(SP)
  BY <1>2, <1>3, <1>4 DEF Writable, Usable, Kept
<1>7. \A o \in StackParameters(size) \cup StackArguments(size) : Usable(o)
  BY <1>2, <1>3, <1>4, <1>5 DEF Usable, Kept
<1> QED BY <1>6, <1>7

LEMMA PlacesUsable ==
  ASSUME NEW size \in {4, 8}, NEW o \in Places(size)
  PROVE  IsPointer(o) /\ Writable(o)
<1> DEFINE vars_ == IF size = 4 THEN Var4 ELSE Var8
           data_ == IF size = 4 THEN Global4 ELSE Global8
<1>1. \/ \E v \in vars_ : o = Pseudo(v, size)
      \/ \E g \in data_ : o = Data(g, size)
  BY DEF Places
<1>2. \A g \in data_ : g \in Int
  BY NumbersAssumption
<1> HIDE DEF vars_, data_
<1>3. IsPointer(o)
  BY <1>1, <1>2 DEF IsPointer, Pseudo, Data
<1>4. o.kind \in {"Pseudo", "Data"}
  BY <1>3 DEF IsPointer
<1> QED BY <1>3, <1>4 DEF Writable, Usable, Kept

LEMMA ImmediateUsable ==
  ASSUME NEW value \in Int, NEW is_float, NEW size
  PROVE  Usable(Immediate(value, is_float, size))
BY DEF Usable, Kept, Immediate

LEMMA OperandsUsable ==
  ASSUME NEW size \in {4, 8}
  PROVE  /\ \A o \in Values(size) : Usable(o)
         /\ \A o \in FloatValues : Usable(o)
         /\ \A o \in Pointed(size) : Usable(o)
         /\ \A o \in Places(size) : Usable(o) /\ Writable(o)
         /\ \A o \in Doubles \cup {Zero} : Usable(o)
<1>1. \A o \in Places(size) \cup Places(8) : Usable(o) /\ Writable(o) /\ IsPointer(o)
  <2>1. \A o \in Places(size) : Writable(o) /\ IsPointer(o)
    BY PlacesUsable
  <2>2. \A o \in Places(8) : Writable(o) /\ IsPointer(o)
    BY PlacesUsable
  <2> QED BY <2>1, <2>2 DEF Writable
<1>2. ASSUME NEW o \in Values(size) PROVE Usable(o)
  <2>1. CASE o = Immediate(1, FALSE, size)
    BY <2>1 DEF Usable, Kept, Immediate
  <2> QED BY <1>1, <2>1 DEF Values
<1>5. ASSUME NEW o \in Doubles PROVE Usable(o)
  <2>1. PICK c \in Constant : o = Immediate(c, TRUE, 8)
    BY DEF Doubles
  <2>2. c \in Int
    BY NumbersAssumption
  <2> QED BY <2>1, <2>2, ImmediateUsable
<1>3. \A o \in FloatValues : Usable(o)
  BY <1>1, <1>5 DEF FloatValues
<1>4. ASSUME NEW o \in Pointed(size) PROVE Usable(o)
  <2>1. PICK p \in Places(8) : o = Indirect(p, size)
    BY Zenon DEF Pointed
  <2>2. o.kind = "Indirect" /\ o.pointer = p
    BY <2>1 DEF Indirect
  <2> QED BY <1>1, <2>2 DEF Usable, Kept
<1>6. Usable(Zero)
  BY DEF Zero, Usable, Kept, Immediate
<1> QED BY <1>1, <1>2, <1>3, <1>4, <1>5, <1>6

LEMMA PairMeans ==
  ASSUME NEW op, op # "Branch", NEW f, NEW a, NEW b, Usable(a), Usable(b),
         op \in {"Compare", "Str"} \/ Writable(a)
  PROVE  Meaningful(Instr(op, <<a, b>>, f, 0))
<1> DEFINE ops == <<a, b>>
           i   == Instr(op, ops, f, 0)
<1>1. DOMAIN ops = {1, 2} /\ ops[1] = a /\ ops[2] = b /\ ops # <<>>
  OBVIOUS
<1>2. i.op = op /\ i.operands = ops
  BY DEF Instr
<1> HIDE DEF i, ops
<1>3. Meaningful(i)
  BY <1>1, <1>2 DEF Meaningful
<1> QED BY <1>3 DEF i, ops

LEMMA TripleMeans ==
  ASSUME NEW op, op \notin {"Compare", "Branch"}, NEW f, NEW a, NEW b, NEW c, Usable(b), Usable(c), Writable(a)
  PROVE  Meaningful(Instr(op, <<a, b, c>>, f, 0))
<1> DEFINE ops == <<a, b, c>>
           i   == Instr(op, ops, f, 0)
<1>1. DOMAIN ops = {1, 2, 3} /\ ops[1] = a /\ ops[2] = b /\ ops[3] = c /\ ops # <<>>
  OBVIOUS
<1>2. i.op = op /\ i.operands = ops
  BY DEF Instr
<1> HIDE DEF i, ops
<1>3. Meaningful(i)
  BY <1>1, <1>2 DEF Meaningful, Writable
<1> QED BY <1>3 DEF i, ops

LEMMA IntInstructionsMean ==
  ASSUME NEW size \in {4, 8}, NEW i \in IntInstructions(size)
  PROVE  Meaningful(i)
<1> DEFINE P == Places(size)
           V == Values(size)
           w0 == W0(size)
           w1 == W1(size)
           parameters == StackParameters(size)
           M == Pointed(size)
           N == M \cup StackArguments(size)
           F == FloatValues
           D == Places(8)
           T == P \cup D \cup {w0, w1}
           U == V \cup F \cup T \cup N \cup parameters \cup {Zero}
<1>1. (\A o \in U : Usable(o)) /\ (\A o \in T : Writable(o))
  <2>1. \A o \in P : Usable(o) /\ Writable(o)
    BY OperandsUsable
  <2>2. \A o \in D : Usable(o) /\ Writable(o)
    BY OperandsUsable
  <2>3. \A o \in V \cup M \cup F : Usable(o)
    BY OperandsUsable
  <2>4. \A o \in {w0, w1} : Usable(o) /\ Writable(o)
    BY RegistersUsable DEF Writable
  <2>5. \A o \in parameters \cup StackArguments(size) : Usable(o)
    BY RegistersUsable
  <2>6. Usable(Zero)
    BY OperandsUsable
  <2> QED BY <2>1, <2>2, <2>3, <2>4, <2>5, <2>6
<1> DEFINE L1 == (P \X V) \cup ({w0} \X V) \cup (P \X ({w0} \cup parameters))
           L2 == (P \X V \X (V \cup {w1})) \cup ({w1} \X (V \cup {w1}) \X V)
           S1 == Shapes("Mov", FALSE, L1)
           S2 == Shapes("Sub", FALSE, L2)
           S3 == Shapes("Neg", FALSE, P \X V)
           S4 == Shapes("Compare", FALSE, V \X (V \cup {Zero}))
           S5 == Shapes("Ldr", FALSE, P \X M)
           S6 == Shapes("Str", FALSE, V \X N)
           S7 == Shapes("IntToFloat", FALSE, D \X V)
           S8 == Shapes("FloatToInt", FALSE, P \X F)
<1>2. IntInstructions(size) = S1 \cup S2 \cup S3 \cup S4 \cup S5 \cup S6 \cup S7 \cup S8
  BY Zenon DEF IntInstructions
<1>3. P \subseteq T /\ D \subseteq T /\ w0 \in T /\ w1 \in T /\ T \subseteq U /\ V \subseteq U
      /\ F \subseteq U /\ N \subseteq U /\ M \subseteq N /\ parameters \subseteq U /\ Zero \in U
  OBVIOUS
<1> HIDE DEF P, V, w0, w1, parameters, M, N, F, D, T, U
<1>4. ASSUME NEW A, A \subseteq U, NEW B, B \subseteq U, NEW op, op # "Branch",
             NEW j \in Shapes(op, FALSE, A \X B),
             op \in {"Compare", "Str"} \/ A \subseteq T
      PROVE  Meaningful(j)
  <2>1. PICK ops \in A \X B : j = Instr(op, ops, FALSE, 0)
    BY <1>4, Shaped
  <2>2. PICK a \in A, b \in B : ops = <<a, b>>
    BY Pairs
  <2>3. Usable(a) /\ Usable(b) /\ (op \in {"Compare", "Str"} \/ Writable(a))
    BY <1>1, <1>4
  <2> QED BY <1>4, <2>1, <2>2, <2>3, PairMeans
<1>5. CASE i \in S1
  <2>1. PICK ops \in L1 : i = Instr("Mov", ops, FALSE, 0)
    BY <1>5 DEF Shapes
  <2>2. ops = <<ops[1], ops[2]>> /\ ops[1] \in P \cup {w0} /\ ops[2] \in V \cup {w0} \cup parameters
    OBVIOUS
  <2>3. Writable(ops[1]) /\ Usable(ops[1]) /\ Usable(ops[2])
    BY <1>1, <1>3, <2>2
  <2>4. Meaningful(Instr("Mov", <<ops[1], ops[2]>>, FALSE, 0))
    BY <2>3, PairMeans
  <2> QED BY <2>1, <2>2, <2>4
<1>6. CASE i \in S2
  <2>1. PICK ops \in L2 : i = Instr("Sub", ops, FALSE, 0)
    BY <1>6 DEF Shapes
  <2>2. /\ ops = <<ops[1], ops[2], ops[3]>>
        /\ ops[1] \in P \cup {w1} /\ ops[2] \in V \cup {w1} /\ ops[3] \in V \cup {w1}
    OBVIOUS
  <2>3. Writable(ops[1]) /\ Usable(ops[2]) /\ Usable(ops[3])
    <3>1. ops[1] \in T /\ ops[2] \in U /\ ops[3] \in U
      BY <1>3, <2>2
    <3> QED BY <1>1, <3>1
  <2>4. Meaningful(Instr("Sub", <<ops[1], ops[2], ops[3]>>, FALSE, 0))
    BY <2>3, TripleMeans
  <2> QED BY <2>1, <2>2, <2>4
<1>7. CASE i \in S3
  BY <1>3, <1>4, <1>7
<1>8. CASE i \in S4
  <2>1. V \cup {Zero} \subseteq U
    BY <1>3
  <2> QED BY <1>3, <1>4, <1>8, <2>1
<1>9. CASE i \in S5
  <2>1. M \subseteq U /\ P \subseteq U
    BY <1>3
  <2> QED BY <1>3, <1>4, <1>9, <2>1
<1>10. CASE i \in S6
  BY <1>3, <1>4, <1>10
<1>11. CASE i \in S7
  <2>1. D \subseteq U
    BY <1>3
  <2> QED BY <1>3, <1>4, <1>11, <2>1
<1>12. CASE i \in S8
  <2>1. P \subseteq U
    BY <1>3
  <2> QED BY <1>3, <1>4, <1>12, <2>1
<1> HIDE DEF S1, S2, S3, S4, S5, S6, S7, S8
<1> QED BY <1>2, <1>5, <1>6, <1>7, <1>8, <1>9, <1>10, <1>11, <1>12

LEMMA FloatInstructionsMean ==
  ASSUME NEW i \in FloatInstructions
  PROVE  Meaningful(i)
<1> DEFINE P == Places(8)
           V == FloatValues
           M == Pointed(8)
           parameters == StackParameters(8)
           N == M \cup StackArguments(8)
           T == P \cup {D0}
           U == V \cup T \cup N \cup parameters
<1>1. (\A o \in U : Usable(o)) /\ (\A o \in T : Writable(o))
  <2>1. \A o \in P : Usable(o) /\ Writable(o)
    BY OperandsUsable
  <2>2. \A o \in V \cup M : Usable(o)
    BY OperandsUsable
  <2>3. Usable(D0) /\ Writable(D0) /\ \A o \in parameters \cup StackArguments(8) : Usable(o)
    BY RegistersUsable DEF Writable
  <2> QED BY <2>1, <2>2, <2>3
<1> DEFINE L1 == (P \X (V \cup {D0} \cup parameters)) \cup ({D0} \X V)
           S1 == Shapes("Mov", TRUE, L1)
           S2 == Shapes("FSub", FALSE, P \X V \X V)
           S3 == Shapes("FNeg", FALSE, P \X V)
           S4 == Shapes("Compare", TRUE, V \X V)
           S5 == Shapes("Str", FALSE, V \X N)
<1>2. FloatInstructions = S1 \cup S2 \cup S3 \cup S4 \cup S5
  BY Zenon DEF FloatInstructions
<1>3. P \subseteq T /\ D0 \in T /\ T \subseteq U /\ V \subseteq U /\ N \subseteq U /\ parameters \subseteq U
  OBVIOUS
<1> HIDE DEF P, V, parameters, M, N, T, U
<1>4. ASSUME NEW A, A \subseteq U, NEW B, B \subseteq U, NEW op, op # "Branch", NEW f, NEW ops \in A \X B,
             op \in {"Compare", "Str"} \/ A \subseteq T
      PROVE  Meaningful(Instr(op, ops, f, 0))
  <2>1. PICK a \in A, b \in B : ops = <<a, b>>
    BY Pairs
  <2>2. Usable(a) /\ Usable(b) /\ (op \in {"Compare", "Str"} \/ Writable(a))
    BY <1>1, <1>4
  <2> QED BY <1>4, <2>1, <2>2, PairMeans
<1>5. CASE i \in S1
  <2>1. PICK ops \in L1 : i = Instr("Mov", ops, TRUE, 0)
    BY <1>5 DEF Shapes
  <2>2. ops = <<ops[1], ops[2]>> /\ ops[1] \in P \cup {D0} /\ ops[2] \in V \cup {D0} \cup parameters
    OBVIOUS
  <2>3. Writable(ops[1]) /\ Usable(ops[1]) /\ Usable(ops[2])
    BY <1>1, <1>3, <2>2
  <2>4. Meaningful(Instr("Mov", <<ops[1], ops[2]>>, TRUE, 0))
    BY <2>3, PairMeans
  <2> QED BY <2>1, <2>2, <2>4
<1>6. CASE i \in S2
  <2>1. PICK ops \in P \X V \X V : i = Instr("FSub", ops, FALSE, 0)
    BY <1>6, Shaped
  <2>2. ops = <<ops[1], ops[2], ops[3]>> /\ ops[1] \in P /\ ops[2] \in V /\ ops[3] \in V
    OBVIOUS
  <2>3. Writable(ops[1]) /\ Usable(ops[2]) /\ Usable(ops[3])
    <3>1. ops[1] \in T /\ ops[2] \in U /\ ops[3] \in U
      BY <1>3, <2>2
    <3> QED BY <1>1, <3>1
  <2>4. Meaningful(Instr("FSub", <<ops[1], ops[2], ops[3]>>, FALSE, 0))
    BY <2>3, TripleMeans
  <2> QED BY <2>1, <2>2, <2>4
<1>7. CASE i \in S3
  <2>1. PICK ops \in P \X V : i = Instr("FNeg", ops, FALSE, 0)
    BY <1>7, Shaped
  <2>2. P \subseteq U
    BY <1>3
  <2> QED BY <1>3, <1>4, <2>1, <2>2
<1>8. CASE i \in S4
  <2>1. PICK ops \in V \X V : i = Instr("Compare", ops, TRUE, 0)
    BY <1>8, Shaped
  <2> QED BY <1>3, <1>4, <2>1
<1>9. CASE i \in S5
  <2>1. PICK ops \in V \X N : i = Instr("Str", ops, FALSE, 0)
    BY <1>9, Shaped
  <2> QED BY <1>3, <1>4, <2>1
<1> HIDE DEF S1, S2, S3, S4, S5
<1> QED BY <1>2, <1>5, <1>6, <1>7, <1>8, <1>9

LEMMA RoomIsInteger == ASSUME NEW n \in StackSlots PROVE StackArgsSize(n) \in Int
<1>1. n \in Nat
  BY StackSlotsAssumption
<1> QED BY <1>1 DEF StackArgsSize, RoundUp, Padding

LEMMA EveryInstructionMeans ==
  ASSUME NEW i \in Instructions, Emitted(i)
  PROVE  Meaningful(i) \/ i = NoInstr
<1>1. CASE i \in IntInstructions(4) \cup IntInstructions(8)
  BY <1>1, IntInstructionsMean
<1>2. CASE i \in FloatInstructions
  BY <1>2, FloatInstructionsMean
<1> DEFINE S1 == Shapes("CSet", FALSE, {<<p>> : p \in Places(4)})
           S2 == Shapes("Extend", FALSE, Places(8) \X Values(4))
           S3 == Shapes("Truncate", FALSE, Places(4) \X Values(8))
           S4 == Shapes("Address", FALSE, Places(8) \X (Places(4) \cup Places(8)))
<1>3. OtherInstructions = S1 \cup S2 \cup S3 \cup S4 \cup Adjustments \cup {NoInstr}
  BY Zenon DEF OtherInstructions, NoInstr
<1>4. CASE i \in S1
  <2>1. PICK p \in Places(4) : i = Instr("CSet", <<p>>, FALSE, 0)
    BY <1>4 DEF Shapes
  <2> DEFINE ops == <<p>>
  <2>2. DOMAIN ops = {1} /\ ops[1] = p /\ ops # <<>>
    OBVIOUS
  <2>3. Usable(p) /\ Writable(p)
    BY OperandsUsable
  <2>4. i.op = "CSet" /\ i.operands = ops
    BY <2>1 DEF Instr
  <2> HIDE DEF ops
  <2> QED BY <2>2, <2>3, <2>4 DEF Meaningful
<1>5. CASE i \in S2
  <2>1. PICK ops \in Places(8) \X Values(4) : i = Instr("Extend", ops, FALSE, 0)
    BY <1>5 DEF Shapes
  <2>2. PICK a \in Places(8), b \in Values(4) : ops = <<a, b>>
    BY Pairs
  <2>3. Usable(a) /\ Writable(a) /\ Usable(b)
    BY OperandsUsable
  <2> QED BY <2>1, <2>2, <2>3, PairMeans
<1>6. CASE i \in S3
  <2>1. PICK ops \in Places(4) \X Values(8) : i = Instr("Truncate", ops, FALSE, 0)
    BY <1>6, Shaped
  <2>2. PICK a \in Places(4), b \in Values(8) : ops = <<a, b>>
    BY Pairs
  <2>3. Usable(a) /\ Writable(a) /\ Usable(b)
    BY OperandsUsable
  <2> QED BY <2>1, <2>2, <2>3, PairMeans
<1>7. CASE i \in S4
  <2>1. i.op = "Address"
    BY <1>7 DEF Shapes, Instr
  <2> QED BY <2>1 DEF Emitted
<1>8. CASE i \in Adjustments
  <2>1. PICK op \in {"Add", "Sub"}, n \in StackSlots :
          i = Instr(op, <<SP, SP, Immediate(StackArgsSize(n), FALSE, 8)>>, FALSE, 0)
    BY <1>8, AdjustmentMoves, Zenon DEF Moves
  <2> DEFINE imm == Immediate(StackArgsSize(n), FALSE, 8)
  <2>2. Writable(SP)
    BY RegistersUsable
  <2>3. Usable(imm)
    BY RoomIsInteger, ImmediateUsable
  <2> HIDE DEF imm
  <2>4. Meaningful(Instr(op, <<SP, SP, imm>>, FALSE, 0))
    BY <2>2, <2>3, TripleMeans DEF Writable
  <2> QED BY <2>1, <2>4 DEF imm
<1>9. CASE i \in NotsOfDoubles
  <2>1. PICK ops \in Doubles \X {Zero} : i = Instr("Compare", ops, FALSE, 0)
    BY <1>9, Shaped DEF NotsOfDoubles
  <2>2. PICK a \in Doubles, b \in {Zero} : ops = <<a, b>>
    BY Pairs
  <2>3. Usable(a) /\ Usable(b)
    BY OperandsUsable
  <2> QED BY <2>1, <2>2, <2>3, PairMeans
<1> HIDE DEF S1, S2, S3, S4
<1> QED BY <1>1, <1>2, <1>3, <1>4, <1>5, <1>6, <1>7, <1>8, <1>9 DEF Instructions

-----------------------------------------------------------------------------
(* What a rewritten operand stands for, on a machine that was m0 before the *)
(* code of the instruction and is m1 when the instruction itself runs.      *)

\* o has the value, and in memory also the address, that src had.
SourceStands(m0, m1, F, src, o) ==
  /\ o.kind \in {"Register", "Memory", "Immediate"} /\ Kept(o, F)
  /\ Value(m1, o) = Value(m0, src)
  /\ o.kind = "Memory" => OperandAddress(m1, o) = OperandAddress(m0, src)

\* The result is the register meant, memory still to be stored to, or a
\* register that the code after the instruction stores.
TargetStands(m0, m1, F, src, o, code) ==
  \/ src.kind = "Register" /\ o = src /\ Kept(src, Pools) /\ code = <<>>
  \/ /\ src.kind = "Pseudo" /\ o.kind = "Memory" /\ Kept(o, F) /\ code = <<>>
     /\ OperandAddress(m1, o) = OperandAddress(m0, src)
  \/ /\ src.kind # "Register"
     /\ \E x : code = <<x>> /\ Delivers(m1, F, o, x, OperandAddress(m0, src))

OperandStands(i, k, o, m0, m1, F, code) ==
  IF IsDestination(i, k) THEN TargetStands(m0, m1, F, i.operands[k], o, code)
                         ELSE SourceStands(m0, m1, F, i.operands[k], o)

\* It stands for it still once other scratch registers have changed.
LEMMA StandsLater ==
  ASSUME NEW i, NEW k, NEW o, NEW m0, NEW m1, NEW F, NEW code,
         OperandStands(i, k, o, m0, m1, F, code), NEW n, Agree(m1, n, F),
         NEW G, \A file \in Files : G[file] \subseteq F[file]
  PROVE  OperandStands(i, k, o, m0, n, G, code)
<1> DEFINE src == i.operands[k]
<1>1. CASE ~IsDestination(i, k)
  <2>1. SourceStands(m0, m1, F, src, o)
    BY <1>1 DEF OperandStands
  <2>2. Kept(o, G)
    BY <2>1, KeptStays DEF SourceStands
  <2>3. /\ Value(n, o) = Value(m1, o)
        /\ o.kind = "Memory" => OperandAddress(n, o) = OperandAddress(m1, o)
    BY <2>1, KeptValue DEF SourceStands
  <2> QED BY <1>1, <2>1, <2>2, <2>3 DEF OperandStands, SourceStands
<1>2. CASE IsDestination(i, k)
  <2>1. TargetStands(m0, m1, F, src, o, code)
    BY <1>2 DEF OperandStands
  <2> HIDE DEF src
  <2>2. TargetStands(m0, n, G, src, o, code)
    <3>1. CASE src.kind = "Register"
      BY <2>1, <3>1 DEF TargetStands
    <3>2. CASE /\ src.kind = "Pseudo" /\ o.kind = "Memory" /\ Kept(o, F) /\ code = <<>>
               /\ OperandAddress(m1, o) = OperandAddress(m0, src)
      <4>1. Kept(o, G) /\ OperandAddress(n, o) = OperandAddress(m1, o)
        BY <3>2, KeptStays, KeptValue
      <4> QED BY <3>2, <4>1 DEF TargetStands
    <3>3. CASE /\ src.kind # "Register"
               /\ \E x : code = <<x>> /\ Delivers(m1, F, o, x, OperandAddress(m0, src))
      <4>1. PICK x : code = <<x>> /\ Delivers(m1, F, o, x, OperandAddress(m0, src))
        BY <3>3
      <4>2. Delivers(n, G, o, x, OperandAddress(m0, src))
        BY <4>1, DeliversStays
      <4> QED BY <3>3, <4>1, <4>2 DEF TargetStands
    <3> QED BY <2>1, <3>1, <3>2, <3>3 DEF TargetStands
  <2> QED BY <1>2, <2>2 DEF OperandStands, src
<1> QED BY <1>1, <1>2

LEMMA SameVisible ==
  ASSUME NEW m, NEW n, m.mem = n.mem, m.flags = n.flags,
         \A k \in (0 .. 31) \ GPPool : m.gp[k] = n.gp[k],
         \A k \in (0 .. 31) \ SIMDPool : m.simd[k] = n.simd[k]
  PROVE  Visible(m) = Visible(n)
<1>1. [k \in (0 .. 31) \ GPPool |-> m.gp[k]] = [k \in (0 .. 31) \ GPPool |-> n.gp[k]]
  OBVIOUS
<1>2. [k \in (0 .. 31) \ SIMDPool |-> m.simd[k]] = [k \in (0 .. 31) \ SIMDPool |-> n.simd[k]]
  OBVIOUS
<1> QED BY <1>1, <1>2 DEF Visible

LEMMA RunOne == ASSUME NEW x, NEW m PROVE Run(<<x>>, m) = Execute(m, x)
<1> DEFINE none == <<>>
<1>1. none \in Seq({}) /\ Append(none, x) = <<x>>
  OBVIOUS
<1>2. Run(none, m) = m
  BY RunNothing
<1> HIDE DEF none
<1>3. Run(Append(none, x), m) = Execute(Run(none, m), x)
  BY <1>1, RunAppended
<1> QED BY <1>1, <1>2, <1>3

LEMMA WriteChanges ==
  ASSUME NEW m, Machine(m), NEW a, NEW v
  PROVE  LET n == Write(m, a, v)
         IN  /\ n.gp = m.gp /\ n.simd = m.simd /\ n.flags = m.flags
             /\ n.mem = [b \in DOMAIN m.mem \cup {a} |-> IF b = a THEN v ELSE m.mem[b]]
BY DEF Write, Machine

\* Once the result is in its register, the code that follows puts it where the
\* source instruction wanted it.
LEMMA TargetWritten ==
  ASSUME NEW m0, Machine(m0), NEW n, Agree(m0, n, Pools), NEW F, NEW src, NEW o, NEW code,
         TargetStands(m0, n, F, src, o, code), o.kind = "Register",
         NEW p, NEW v, SetTo(n, p, o, v)
  PROVE  Visible(Run(code, p)) = Visible(Assign(m0, src, v))
<1>0. Pools["gp"] = GPPool /\ Pools["simd"] = SIMDPool /\ Files = {"gp", "simd"}
  BY DEF Pools, PoolOf, Files
<1>1. CASE src.kind = "Register" /\ o = src /\ Kept(src, Pools) /\ code = <<>>
  <2>1. PICK w : w = Assign(m0, src, v)
    OBVIOUS
  <2>2. IsRegister(src)
    BY <1>1 DEF Kept
  <2>3. SetTo(m0, w, src, v)
    BY <2>1, <2>2, AssignRegister
  <2>4. p.mem = w.mem /\ p.flags = w.flags
    BY <2>3 DEF SetTo, Agree
  <2>5. \A file \in Files : \A k \in (0 .. 31) \ Pools[file] : p[file][k] = w[file][k]
    <3> SUFFICES ASSUME NEW file \in Files, NEW k \in (0 .. 31) \ Pools[file]
                 PROVE  p[file][k] = w[file][k]
      OBVIOUS
    <3>1. CASE file = src.file /\ k = src.number
      BY <1>1, <2>3, <3>1 DEF SetTo
    <3>2. CASE ~(file = src.file /\ k = src.number)
      BY <1>1, <2>3, <3>2 DEF SetTo, Agree
    <3> QED BY <3>1, <3>2
  <2>6. Visible(p) = Visible(w)
    BY <1>0, <2>4, <2>5, SameVisible
  <2>7. Run(code, p) = p
    BY <1>1, RunNothing
  <2> QED BY <2>1, <2>6, <2>7
<1>2. CASE /\ src.kind # "Register"
           /\ \E x : code = <<x>> /\ Delivers(n, F, o, x, OperandAddress(m0, src))
  <2> DEFINE a == OperandAddress(m0, src)
  <2>1. PICK x : code = <<x>> /\ Delivers(n, F, o, x, a)
    BY <1>2
  <2>2. Assign(m0, src, v) = Write(m0, a, v)
    BY <1>2 DEF Assign
  <2> HIDE DEF a
  <2>3. Run(code, p) = Write(p, a, v)
    BY <2>1, RunOne, Delivered
  <2>4. PICK q, w : q = Write(p, a, v) /\ w = Write(m0, a, v)
    OBVIOUS
  <2>5. /\ q.gp = p.gp /\ q.simd = p.simd /\ q.flags = p.flags
        /\ w.gp = m0.gp /\ w.simd = m0.simd /\ w.flags = m0.flags
        /\ q.mem = [b \in DOMAIN p.mem \cup {a} |-> IF b = a THEN v ELSE p.mem[b]]
        /\ w.mem = [b \in DOMAIN m0.mem \cup {a} |-> IF b = a THEN v ELSE m0.mem[b]]
    <3>1. Machine(p)
      BY DEF SetTo
    <3> QED BY <2>4, <3>1, WriteChanges
  <2>6. p.mem = m0.mem /\ p.flags = m0.flags
    BY DEF SetTo, Agree
  <2>7. \A file \in Files : \A k \in (0 .. 31) \ Pools[file] : p[file][k] = m0[file][k]
    <3>1. o.file \in Files /\ o.number \in Pools[o.file]
      BY <2>1 DEF Delivers, IsRegister, Pools
    <3> QED BY <3>1 DEF SetTo, Agree
  <2>8. Visible(q) = Visible(w)
    BY <1>0, <2>5, <2>6, <2>7, SameVisible
  <2> QED BY <2>2, <2>3, <2>4, <2>8
<1> QED BY <1>1, <1>2 DEF TargetStands

LEMMA ComputesResult ==
  ASSUME NEW i, NEW m,
         i.op \in {"Mov", "Add", "Sub", "Neg", "Ldr", "IntToFloat", "FloatToInt", "FSub",
                  "FNeg", "Extend", "Truncate"}
  PROVE  Execute(m, i) =
           Assign(m, i.operands[1],
                  Result(i.op, [k \in 1 .. Len(i.operands) - 1 |-> Value(m, i.operands[k + 1])]))
<1>1. i.op \notin {"Branch", "Compare", "CSet", "Str", "Address", "LoadImm", "Adrp",
                  "GlobalAdd", "GlobalLoad", "GlobalStore"}
  OBVIOUS
<1> QED BY <1>1 DEF Execute

\* The instruction over the final operands, and the store of its result, do what
\* the instruction over the original ones meant.
LEMMA ResolvedMeans ==
  ASSUME NEW i, Emitted(i), Meaningful(i),
         NEW ops, Len(ops) = Len(i.operands), \E S : ops \in Seq(S),
         \A k \in DOMAIN ops : Final(i, k, ops[k]),
         NEW m0, Machine(m0), NEW n, Agree(m0, n, Pools), NEW F, NEW code,
         \A k \in DOMAIN ops : OperandStands(i, k, ops[k], m0, n, F, code),
         IsPureInputInstruction(i) => code = <<>>
  PROVE  Visible(Run(code, Execute(n, [i EXCEPT !.operands = ops]))) = Visible(Execute(m0, i))
<1> DEFINE src  == i.operands
           j    == [i EXCEPT !.operands = ops]
           args == [k \in 1 .. Len(ops) - 1 |-> Value(n, ops[k + 1])]
           given == [k \in 1 .. Len(src) - 1 |-> Value(m0, src[k + 1])]
<1>1. j.op = i.op /\ j.operands = ops /\ j.arg = i.arg
  BY DEF Emitted, Instr
<1> HIDE DEF j
<1>2. DOMAIN ops = 1 .. Len(ops) /\ DOMAIN src = 1 .. Len(ops) /\ 1 \in DOMAIN ops
  <2>1. DOMAIN ops = 1 .. Len(ops) /\ DOMAIN src = 1 .. Len(src)
    BY DEF Emitted
  <2> QED BY <2>1 DEF Meaningful
<1>3. /\ args = given
      /\ \A k \in DOMAIN ops : ~IsDestination(i, k) => Value(n, ops[k]) = Value(m0, src[k])
  <2>1. \A k \in DOMAIN ops : ~IsDestination(i, k) => Value(n, ops[k]) = Value(m0, src[k])
    BY DEF OperandStands, SourceStands
  <2>2. Len(src) = Len(ops) /\ Len(ops) \in Nat
    OBVIOUS
  <2>3. \A k \in 1 .. Len(ops) - 1 : k + 1 \in DOMAIN ops /\ ~IsDestination(i, k + 1)
    BY <1>2, <2>2 DEF IsDestination
  <2> QED BY <2>1, <2>2, <2>3
<1>4. n.mem = m0.mem /\ n.flags = m0.flags /\ Machine(n)
      /\ \A file \in Files : \A k \in (0 .. 31) \ Pools[file] : n[file][k] = m0[file][k]
  BY DEF Agree
<1>5. Pools["gp"] = GPPool /\ Pools["simd"] = SIMDPool /\ Files = {"gp", "simd"}
  BY DEF Pools, PoolOf, Files
<1> HIDE DEF args, given
<1>6. ASSUME i.op \notin {"Compare", "Branch", "Str"}, NEW v,
             Execute(n, j) = Assign(n, ops[1], v), Execute(m0, i) = Assign(m0, src[1], v)
      PROVE  Visible(Run(code, Execute(n, j))) = Visible(Execute(m0, i))
  <2>1. IsDestination(i, 1)
    BY <1>6 DEF IsDestination, IsPureInputInstruction, Emitted
  <2>2. TargetStands(m0, n, F, src[1], ops[1], code)
    BY <1>2, <2>1 DEF OperandStands
  <2>3. ops[1].kind = "Register"
    <3>1. Final(i, 1, ops[1])
      BY <1>2
    <3>2. ~(IsLoadStore(i) /\ 1 = Len(src))
      BY <1>6 DEF Emitted, IsLoadStore
    <3>3. MovesStackPointer(i) => src[1].kind = "Register"
      BY DEF MovesStackPointer, SP, Register
    <3> QED BY <3>1, <3>2, <3>3 DEF Final, IsScratch, Register
  <2>4. IsRegister(ops[1])
    BY <2>2, <2>3 DEF TargetStands, Delivers, Kept
  <2>5. SetTo(n, Execute(n, j), ops[1], v)
    BY <1>4, <1>6, <2>4, AssignRegister
  <2> QED BY <1>6, <2>2, <2>3, <2>5, TargetWritten
<1>7. CASE i.op = "Compare"
  <2>1. code = <<>> /\ ~IsDestination(i, 1) /\ ~IsDestination(i, 2)
    BY <1>7 DEF IsDestination, IsPureInputInstruction
  <2>2. 1 \in DOMAIN ops /\ 2 \in DOMAIN ops
    BY <1>2, <1>7 DEF Meaningful
  <2>3. Value(n, ops[1]) = Value(m0, src[1]) /\ Value(n, ops[2]) = Value(m0, src[2])
    BY <1>3, <2>1, <2>2
  <2> DEFINE q == [n EXCEPT !.flags = <<Value(n, ops[1]), Value(n, ops[2])>>]
             w == [m0 EXCEPT !.flags = <<Value(m0, src[1]), Value(m0, src[2])>>]
  <2>4. Execute(n, j) = q /\ Execute(m0, i) = w
    BY <1>1, <1>7 DEF Execute
  <2>5. /\ q.mem = n.mem /\ q.gp = n.gp /\ q.simd = n.simd
        /\ q.flags = <<Value(n, ops[1]), Value(n, ops[2])>>
        /\ w.mem = m0.mem /\ w.gp = m0.gp /\ w.simd = m0.simd
        /\ w.flags = <<Value(m0, src[1]), Value(m0, src[2])>>
    <3>1. /\ q.mem = n.mem /\ q.gp = n.gp /\ q.simd = n.simd
          /\ q.flags = <<Value(n, ops[1]), Value(n, ops[2])>>
      BY <1>4 DEF Machine
    <3>2. /\ w.mem = m0.mem /\ w.gp = m0.gp /\ w.simd = m0.simd
          /\ w.flags = <<Value(m0, src[1]), Value(m0, src[2])>>
      BY DEF Machine
    <3> QED BY <3>1, <3>2
  <2> HIDE DEF q, w
  <2>6. Visible(q) = Visible(w)
    <3>1. q.mem = w.mem /\ q.flags = w.flags
      BY <1>4, <2>3, <2>5
    <3>2. \A k \in (0 .. 31) \ GPPool : q.gp[k] = w.gp[k]
      BY <1>4, <1>5, <2>5
    <3>3. \A k \in (0 .. 31) \ SIMDPool : q.simd[k] = w.simd[k]
      BY <1>4, <1>5, <2>5
    <3> QED BY <3>1, <3>2, <3>3, SameVisible
  <2>7. Run(code, q) = q
    BY <2>1, RunNothing
  <2> QED BY <2>4, <2>6, <2>7 DEF j
<1>8. CASE i.op = "CSet"
  <2> DEFINE v == 2 * n.flags[1] - n.flags[2]
  <2>1. Execute(n, j) = Assign(n, ops[1], v)
    BY <1>1, <1>8 DEF Execute
  <2>2. Execute(m0, i) = Assign(m0, src[1], v)
    BY <1>4, <1>8 DEF Execute
  <2> HIDE DEF v
  <2> QED BY <1>6, <1>8, <2>1, <2>2 DEF j
<1>9. CASE i.op = "Str"
  <2>1. code = <<>> /\ ~IsDestination(i, 1) /\ ~IsDestination(i, 2)
    BY <1>9 DEF IsDestination, IsPureInputInstruction
  <2>2. 2 \in DOMAIN ops /\ Len(src) = 2
    BY <1>2, <1>9 DEF Emitted
  <2>3. ops[2].kind = "Memory" /\ src[2].kind \in {"Indirect", "Memory"}
    <3>1. Final(i, 2, ops[2]) /\ OperandEmitted(i, 2) /\ IsLoadStore(i)
      BY <1>2, <1>9, <2>2 DEF Emitted, IsLoadStore
    <3> QED BY <2>2, <3>1, SMTT(30) DEF Final, IsAddress, Memory, OperandEmitted
  <2>4. SourceStands(m0, n, F, src[2], ops[2])
    BY <2>1, <2>2 DEF OperandStands
  <2>5. Value(n, ops[1]) = Value(m0, src[1])
    BY <1>2, <1>3, <2>1
  <2> DEFINE v == Value(m0, src[1])
             a == OperandAddress(m0, src[2])
  <2>6. Execute(n, j) = Write(n, a, v)
    <3>1. Execute(n, j) = Assign(n, ops[2], v)
      BY <1>1, <1>9, <2>5 DEF Execute
    <3> HIDE DEF v
    <3> QED BY <2>3, <2>4, <3>1 DEF Assign, SourceStands
  <2>7. Execute(m0, i) = Write(m0, a, v)
    <3>1. Execute(m0, i) = Assign(m0, src[2], v)
      BY <1>9 DEF Execute
    <3> HIDE DEF v
    <3> QED BY <2>3, <3>1 DEF Assign
  <2> HIDE DEF v, a
  <2>8. PICK q, w : q = Write(n, a, v) /\ w = Write(m0, a, v)
    OBVIOUS
  <2>9. /\ q.gp = n.gp /\ q.simd = n.simd /\ q.flags = n.flags
        /\ w.gp = m0.gp /\ w.simd = m0.simd /\ w.flags = m0.flags
        /\ q.mem = [b \in DOMAIN n.mem \cup {a} |-> IF b = a THEN v ELSE n.mem[b]]
        /\ w.mem = [b \in DOMAIN m0.mem \cup {a} |-> IF b = a THEN v ELSE m0.mem[b]]
    <3>1. /\ q.gp = n.gp /\ q.simd = n.simd /\ q.flags = n.flags
          /\ q.mem = [b \in DOMAIN n.mem \cup {a} |-> IF b = a THEN v ELSE n.mem[b]]
      BY <1>4, <2>8 DEF Write, Machine
    <3>2. /\ w.gp = m0.gp /\ w.simd = m0.simd /\ w.flags = m0.flags
          /\ w.mem = [b \in DOMAIN m0.mem \cup {a} |-> IF b = a THEN v ELSE m0.mem[b]]
      BY <2>8 DEF Write, Machine
    <3> QED BY <3>1, <3>2
  <2>10. Visible(q) = Visible(w)
    BY <1>4, <1>5, <2>9, SameVisible
  <2>11. Run(code, q) = q
    BY <2>1, RunNothing
  <2> QED BY <2>6, <2>7, <2>8, <2>10, <2>11 DEF j
<1>10. CASE i.op \notin {"Compare", "CSet", "Str", "Branch"}
  <2> DEFINE v == Result(i.op, args)
  <2>1. i.op \in {"Mov", "Add", "Sub", "Neg", "Ldr", "IntToFloat", "FloatToInt", "FSub",
                  "FNeg", "Extend", "Truncate"}
    BY <1>10 DEF Emitted
  <2>2. /\ Execute(n, j) = Assign(n, ops[1], Result(i.op, args))
        /\ Execute(m0, i) = Assign(m0, src[1], Result(i.op, given))
    BY <1>1, <2>1, ComputesResult, SMTT(30) DEF args, given
  <2>3. Execute(n, j) = Assign(n, ops[1], v) /\ Execute(m0, i) = Assign(m0, src[1], v)
    BY <1>3, <2>2
  <2> HIDE DEF v
  <2> QED BY <1>6, <1>10, <2>3 DEF j
<1> QED BY <1>7, <1>8, <1>9, <1>10 DEF j, Meaningful

\* From s to t the operand k of i was rewritten: the code that was added keeps
\* what is in use and lets the new operand stand for the one of i.  In the first
\* loop the operand is still the one of i, in the second it stands for it.
Steps(i, k, s, t, first) ==
  \A m : /\ t.failed = FALSE /\ Serves(m, t.frame, t.pool) /\ Agree(m, At(s, m), Pools)
         /\ IF first THEN IsDestination(i, k) => s.after = <<>>
                     ELSE OperandStands(i, k, s.operand, m, At(s, m), s.free, s.after)
         => /\ Agree(At(s, m), At(t, m), s.free)
            /\ OperandStands(i, k, t.operand, m, At(t, m), t.free, t.after)
            /\ ~IsDestination(i, k) => t.after = s.after

LEMMA FreeInPools ==
  ASSUME NEW s, Sound(s), s.failed = FALSE
  PROVE  \A file \in Files : s.free[file] \subseteq Pools[file]
<1>1. Conserved(s.free, s.temps)
  BY DEF Sound
<1>2. s.free["gp"] \subseteq GPPool /\ s.free["simd"] \subseteq SIMDPool
  BY <1>1 DEF Conserved, Files
<1>3. Pools["gp"] = GPPool /\ Pools["simd"] = SIMDPool
  BY DEF Pools, PoolOf, Files
<1> QED BY <1>2, <1>3 DEF Files

LEMMA LoadStands ==
  ASSUME NEW i, NEW k, ~IsDestination(i, k), NEW s, NEW t, NEW m,
         Loads(s, t, m, Value(m, i.operands[k]))
  PROVE  /\ Agree(At(s, m), At(t, m), s.free)
         /\ OperandStands(i, k, t.operand, m, At(t, m), t.free, t.after)
         /\ t.after = s.after
BY DEF Loads, Taken, OperandStands, SourceStands, Kept, IsRegister

LEMMA StoreStands ==
  ASSUME NEW i, NEW k, IsDestination(i, k), i.operands[k].kind # "Register",
         NEW s, s.after = <<>>, NEW t, NEW m,
         Stores(s, t, m, OperandAddress(m, i.operands[k]))
  PROVE  /\ Agree(At(s, m), At(t, m), s.free)
         /\ OperandStands(i, k, t.operand, m, At(t, m), t.free, t.after)
<1>1. PICK x : /\ t.after = Append(s.after, x)
               /\ Delivers(At(t, m), t.free, t.operand, x, OperandAddress(m, i.operands[k]))
  BY DEF Stores
<1>2. t.after = <<x>>
  BY <1>1
<1> QED BY <1>1, <1>2 DEF Stores, OperandStands, TargetStands

LEMMA PseudoSteps ==
  ASSUME NEW i, NEW k, NEW s, Ready(s), s.operand = i.operands[k],
         s.operand.kind = "Pseudo", IsPointer(s.operand)
  PROVE  LET t == ResolvePseudo(s) IN Follows(s, t) /\ Steps(i, k, s, t, TRUE)
<1> DEFINE t   == ResolvePseudo(s)
           src == i.operands[k]
           first == TRUE
<1>1. /\ Follows(s, t) /\ t.instr = s.instr /\ t.failed = s.failed
      /\ t.before = s.before /\ t.after = s.after /\ t.free = s.free
      /\ t.operand.kind = "Memory" /\ t.operand.base = X29
      /\ s.failed = FALSE => Addressable(t.operand, t.free)
      /\ \A m, n : Serves(m, t.frame, t.pool) /\ n.gp[29] = m.gp[29]
                     => OperandAddress(n, t.operand) = ObjectAddress(m, s.operand)
  BY PseudoReaches DEF IsPointer
<1> HIDE DEF t
<1>2. ASSUME NEW m, t.failed = FALSE, Serves(m, t.frame, t.pool), Agree(m, At(s, m), Pools),
             IsDestination(i, k) => s.after = <<>>
      PROVE  /\ Agree(At(s, m), At(t, m), s.free)
             /\ OperandStands(i, k, t.operand, m, At(t, m), t.free, t.after)
             /\ ~IsDestination(i, k) => t.after = s.after
  <2>1. PICK n : n = At(s, m)
    OBVIOUS
  <2>2. At(t, m) = n /\ Machine(n) /\ n.mem = m.mem /\ n.gp[29] = m.gp[29]
    BY <1>1, <1>2, <2>1, FramePointer DEF At, Agree
  <2>3. OperandAddress(n, t.operand) = OperandAddress(m, src)
    <3>1. OperandAddress(n, t.operand) = ObjectAddress(m, s.operand)
      BY <1>1, <1>2, <2>2
    <3>2. OperandAddress(m, src) = ObjectAddress(m, s.operand)
      BY DEF OperandAddress
    <3> QED BY <3>1, <3>2
  <2>4. Kept(t.operand, t.free)
    BY <1>1, <1>2 DEF Addressable
  <2>5. Value(n, t.operand) = Value(m, src)
    <3>1. Value(n, t.operand) = Read(n, OperandAddress(n, t.operand))
      BY <1>1 DEF Value
    <3>2. Value(m, src) = Read(m, OperandAddress(m, src))
      BY DEF Value
    <3> QED BY <2>2, <2>3, <3>1, <3>2 DEF Read
  <2>6. Agree(n, n, s.free)
    BY <2>2, AgreeSelf
  <2>7. OperandStands(i, k, t.operand, m, n, t.free, t.after)
    BY <1>1, <1>2, <2>3, <2>4, <2>5 DEF OperandStands, SourceStands, TargetStands
  <2> QED BY <1>1, <2>1, <2>2, <2>6, <2>7
<1>3. first
  OBVIOUS
<1> HIDE DEF first
<1>4. Steps(i, k, s, t, first)
  BY <1>2, <1>3 DEF Steps
<1> QED BY <1>1, <1>4 DEF t, first

LEMMA DataSteps ==
  ASSUME NEW i, NEW k, NEW s, Ready(s), s.operand = i.operands[k],
         s.operand.kind = "Data", IsPointer(s.operand), NEW use_float,
         NEW is_dst \in BOOLEAN, is_dst <=> IsDestination(i, k)
  PROVE  LET t == ResolveDataOperand(s, is_dst, use_float)
         IN  Follows(s, t) /\ Steps(i, k, s, t, TRUE)
<1> DEFINE t   == ResolveDataOperand(s, is_dst, use_float)
           a   == DataSymbol(s.operand.name)
           src == i.operands[k]
           first == TRUE
<1>0. is_dst \in BOOLEAN /\ (is_dst <=> IsDestination(i, k)) /\ first
  OBVIOUS
<1> HIDE DEF first
<1>1. Accesses(s, t, a, is_dst, use_float)
  BY <1>0, DataReaches DEF IsPointer
<1> HIDE DEF t
<1>2. ASSUME NEW m, t.failed = FALSE, Agree(m, At(s, m), Pools),
             IsDestination(i, k) => s.after = <<>>
      PROVE  /\ Agree(At(s, m), At(t, m), s.free)
             /\ OperandStands(i, k, t.operand, m, At(t, m), t.free, t.after)
             /\ ~IsDestination(i, k) => t.after = s.after
  <2>1. OperandAddress(m, src) = a
    BY DEF OperandAddress, ObjectAddress
  <2>2. Machine(At(s, m)) /\ At(s, m).mem = m.mem
    BY <1>2 DEF Agree
  <2>3. CASE is_dst
    <3>1. Stores(s, t, m, a)
      BY <1>1, <1>2, <2>2, <2>3 DEF Accesses
    <3> QED BY <1>0, <1>2, <2>1, <2>3, <3>1, StoreStands
  <2>4. CASE ~is_dst
    <3>1. Loads(s, t, m, Read(At(s, m), a))
      BY <1>1, <1>2, <2>2, <2>4 DEF Accesses
    <3>2. Read(At(s, m), a) = Value(m, src)
      <4>1. Value(m, src) = Read(m, OperandAddress(m, src))
        BY DEF Value
      <4> QED BY <2>1, <2>2, <4>1 DEF Read
    <3> QED BY <1>0, <2>4, <3>1, <3>2, LoadStands
  <2> QED BY <1>0, <2>3, <2>4
<1>3. Steps(i, k, s, t, first)
  BY <1>0, <1>2 DEF Steps
<1> QED BY <1>1, <1>3 DEF t, first, Accesses

LEMMA IndirectSteps ==
  ASSUME NEW i, NEW k, ~IsDestination(i, k), NEW s, Ready(s), s.operand = i.operands[k],
         s.operand.kind = "Indirect", IsPointer(s.operand.pointer)
  PROVE  LET t == ResolveIndirectMemory(s) IN Follows(s, t) /\ Steps(i, k, s, t, TRUE)
<1> DEFINE t   == ResolveIndirectMemory(s)
           src == i.operands[k]
           first == TRUE
<1>1. /\ Follows(s, t)
      /\ \A m : t.failed = FALSE /\ Serves(m, t.frame, t.pool) /\ Agree(m, At(s, m), Pools)
           => Locates(s, t, m, OperandAddress(m, s.operand))
  BY IndirectReaches
<1> HIDE DEF t
<1>2. ASSUME NEW m, t.failed = FALSE, Serves(m, t.frame, t.pool), Agree(m, At(s, m), Pools)
      PROVE  /\ Agree(At(s, m), At(t, m), s.free)
             /\ OperandStands(i, k, t.operand, m, At(t, m), t.free, t.after)
             /\ t.after = s.after
  <2>1. Locates(s, t, m, OperandAddress(m, src))
    BY <1>1, <1>2
  <2>2. At(t, m).mem = m.mem
    BY <1>2, <2>1 DEF Locates, Agree
  <2>3. Value(At(t, m), t.operand) = Value(m, src)
    <3>1. Value(m, src) = Read(m, OperandAddress(m, src))
      BY DEF Value
    <3>2. Value(At(t, m), t.operand) = Read(At(t, m), OperandAddress(At(t, m), t.operand))
      BY <2>1 DEF Value, Locates
    <3> QED BY <2>1, <2>2, <3>1, <3>2 DEF Read, Locates
  <2> QED BY <2>1, <2>3 DEF Locates, OperandStands, SourceStands
<1>3. first
  OBVIOUS
<1> HIDE DEF first
<1>4. Steps(i, k, s, t, first)
  BY <1>2, <1>3 DEF Steps
<1> QED BY <1>1, <1>4 DEF t, first

LEMMA OthersStep ==
  ASSUME NEW i, NEW k, NEW s, Ready(s), s.operand = i.operands[k], Usable(s.operand),
         s.operand.kind \in {"Memory", "Immediate", "Register"},
         IsDestination(i, k) => s.operand.kind = "Register"
  PROVE  Follows(s, s) /\ Steps(i, k, s, s, TRUE)
<1> DEFINE src == i.operands[k]
           first == TRUE
<1>1. ASSUME NEW m, s.failed = FALSE, Agree(m, At(s, m), Pools),
             IsDestination(i, k) => s.after = <<>>
      PROVE  /\ Agree(At(s, m), At(s, m), s.free)
             /\ OperandStands(i, k, s.operand, m, At(s, m), s.free, s.after)
  <2>1. Agree(At(s, m), At(s, m), s.free)
    BY <1>1, AgreeSelf DEF Agree
  <2>2. Kept(src, Pools)
    BY DEF Usable
  <2>3. Kept(src, s.free)
    BY <1>1, <2>2, FreeInPools, KeptStays DEF Ready
  <2>4. /\ Value(At(s, m), src) = Value(m, src)
        /\ src.kind = "Memory" => OperandAddress(At(s, m), src) = OperandAddress(m, src)
    BY <1>1, <2>2, KeptValue
  <2> QED BY <1>1, <2>1, <2>2, <2>3, <2>4 DEF OperandStands, SourceStands, TargetStands
<1>2. first
  OBVIOUS
<1> HIDE DEF first
<1>3. Steps(i, k, s, s, first)
  BY <1>1, <1>2 DEF Steps
<1> QED BY <1>3, FollowsSelf DEF first

\* Nothing is left to do for the operand.
LEMMA StaysStanding ==
  ASSUME NEW i, NEW k, NEW s, Ready(s)
  PROVE  Follows(s, s) /\ Steps(i, k, s, s, FALSE)
<1> DEFINE first == FALSE
<1>1. ~first
  OBVIOUS
<1> HIDE DEF first
<1>2. \A m : Agree(m, At(s, m), Pools) => Agree(At(s, m), At(s, m), s.free)
  BY AgreeSelf DEF Agree
<1>3. Steps(i, k, s, s, first)
  BY <1>1, <1>2 DEF Steps
<1> QED BY <1>3, FollowsSelf DEF first

\* The base of an address out of range is the frame pointer.
LEMMA FarFromFrame ==
  ASSUME NEW m, NEW n, Agree(m, n, Pools), m.gp[29] \in Int, m.gp[31] \in Int, NEW o,
         ~CanEncodeImm9(o.offset) => o.base \in {X29, SP}
  PROVE  Movable(n, o)
<1>1. n.gp[29] \in Int /\ n.gp[31] \in Int
  BY FramePointer
<1>2. X29.number = 29 /\ SP.number = 31
  BY DEF X29, SP, Register
<1> QED BY <1>1, <1>2 DEF Movable

LEMMA AddressSteps ==
  ASSUME NEW i, NEW k, ~IsDestination(i, k), NEW s, Ready(s), Addressable(s.operand, s.free),
         ~CanEncodeImm9(s.operand.offset) => s.operand.base \in {X29, SP}
  PROVE  LET t == MaterializeLargeOffset(s) IN Follows(s, t) /\ Steps(i, k, s, t, FALSE)
<1> DEFINE t   == MaterializeLargeOffset(s)
           src == i.operands[k]
           first == FALSE
<1>1. /\ Follows(s, t)
      /\ \A m : /\ t.failed = FALSE /\ Machine(At(s, m))
                /\ ~CanEncodeImm9(s.operand.offset) =>
                     At(s, m).gp[s.operand.base.number] \in Int
                => Locates(s, t, m, OperandAddress(At(s, m), s.operand))
  BY LargeOffsetReaches
<1> HIDE DEF t
<1>2. ASSUME NEW m, t.failed = FALSE, Serves(m, t.frame, t.pool), Agree(m, At(s, m), Pools),
             OperandStands(i, k, s.operand, m, At(s, m), s.free, s.after)
      PROVE  /\ Agree(At(s, m), At(t, m), s.free)
             /\ OperandStands(i, k, t.operand, m, At(t, m), t.free, t.after)
             /\ t.after = s.after
  <2>1. SourceStands(m, At(s, m), s.free, src, s.operand)
    BY <1>2 DEF OperandStands
  <2>2. Machine(At(s, m)) /\ Movable(At(s, m), s.operand)
    BY <1>2, FarFromFrame DEF Agree, Serves
  <2>3. Locates(s, t, m, OperandAddress(At(s, m), s.operand))
    BY <1>1, <1>2, <2>2 DEF Movable
  <2>4. OperandAddress(At(t, m), t.operand) = OperandAddress(m, src)
    BY <2>1, <2>3 DEF SourceStands, Addressable, Locates
  <2>5. Value(At(t, m), t.operand) = Value(m, src)
    <3>1. At(t, m).mem = At(s, m).mem
      BY <2>3 DEF Locates, Agree
    <3>2. Value(At(s, m), s.operand) = Read(At(s, m), OperandAddress(At(s, m), s.operand))
      BY DEF Value, Addressable
    <3>3. Value(At(t, m), t.operand) = Read(At(t, m), OperandAddress(At(t, m), t.operand))
      BY <2>3 DEF Value, Locates
    <3>4. OperandAddress(At(t, m), t.operand) = OperandAddress(At(s, m), s.operand)
      BY <2>3 DEF Locates
    <3> QED BY <2>1, <3>1, <3>2, <3>3, <3>4 DEF SourceStands, Read
  <2> QED BY <2>3, <2>4, <2>5 DEF Locates, OperandStands, SourceStands
<1>3. ~first
  OBVIOUS
<1> HIDE DEF first
<1>4. Steps(i, k, s, t, first)
  BY <1>2, <1>3 DEF Steps
<1> QED BY <1>1, <1>4 DEF t, first

LEMMA MemorySteps ==
  ASSUME NEW i, NEW k, NEW s, Ready(s), Addressable(s.operand, s.free),
         ~CanEncodeImm9(s.operand.offset) => s.operand.base \in {X29, SP},
         NEW use_float, NEW is_dst \in BOOLEAN, is_dst <=> IsDestination(i, k)
  PROVE  LET t == ResolveMemoryOperand(s, is_dst, use_float)
         IN  Follows(s, t) /\ Steps(i, k, s, t, FALSE)
<1> DEFINE t   == ResolveMemoryOperand(s, is_dst, use_float)
           src == i.operands[k]
           first == FALSE
<1>0. is_dst \in BOOLEAN /\ (is_dst <=> IsDestination(i, k)) /\ ~first
  OBVIOUS
<1> HIDE DEF first
<1>1. /\ Follows(s, t)
      /\ \A m : /\ t.failed = FALSE /\ Machine(At(s, m)) /\ Movable(At(s, m), s.operand)
                => LET a == OperandAddress(At(s, m), s.operand)
                   IN  IF is_dst THEN Stores(s, t, m, a)
                                 ELSE Loads(s, t, m, Read(At(s, m), a))
  BY <1>0, MemoryReaches
<1> HIDE DEF t
<1>2. ASSUME NEW m, t.failed = FALSE, Serves(m, t.frame, t.pool), Agree(m, At(s, m), Pools),
             OperandStands(i, k, s.operand, m, At(s, m), s.free, s.after)
      PROVE  /\ Agree(At(s, m), At(t, m), s.free)
             /\ OperandStands(i, k, t.operand, m, At(t, m), t.free, t.after)
             /\ ~IsDestination(i, k) => t.after = s.after
  <2>1. Machine(At(s, m)) /\ Movable(At(s, m), s.operand) /\ s.operand.kind = "Memory"
    <3>1. m.gp[29] \in Int /\ m.gp[31] \in Int
      BY <1>2 DEF Serves
    <3>2. Movable(At(s, m), s.operand)
      BY <1>2, <3>1, FarFromFrame
    <3> QED BY <1>2, <3>2 DEF Agree, Addressable
  <2>2. CASE is_dst
    <3>1. TargetStands(m, At(s, m), s.free, src, s.operand, s.after)
      BY <1>0, <1>2, <2>2 DEF OperandStands
    <3>2. /\ src.kind = "Pseudo" /\ s.after = <<>>
          /\ OperandAddress(At(s, m), s.operand) = OperandAddress(m, src)
      BY <2>1, <3>1 DEF TargetStands, Delivers, IsRegister
    <3>3. Stores(s, t, m, OperandAddress(m, src))
      BY <1>1, <1>2, <2>1, <2>2, <3>2
    <3> QED BY <1>0, <2>2, <3>2, <3>3, StoreStands
  <2>3. CASE ~is_dst
    <3>1. SourceStands(m, At(s, m), s.free, src, s.operand)
      BY <1>0, <1>2, <2>3 DEF OperandStands
    <3>2. Loads(s, t, m, Read(At(s, m), OperandAddress(At(s, m), s.operand)))
      BY <1>1, <1>2, <2>1, <2>3
    <3>3. Read(At(s, m), OperandAddress(At(s, m), s.operand)) = Value(m, src)
      BY <2>1, <3>1 DEF SourceStands, Value
    <3> QED BY <1>0, <2>3, <3>2, <3>3, LoadStands
  <2> QED BY <1>0, <2>2, <2>3
<1>3. Steps(i, k, s, t, first)
  BY <1>0, <1>2 DEF Steps
<1> QED BY <1>1, <1>3 DEF t, first

LEMMA LiteralSteps ==
  ASSUME NEW i, NEW k, ~IsDestination(i, k), NEW s, Ready(s), s.operand.kind = "Immediate",
         s.operand.value \in Int, NEW use_float \in BOOLEAN, NEW target
  PROVE  LET t == ResolveImmediate(s, use_float, target)
         IN  Follows(s, t) /\ Steps(i, k, s, t, FALSE)
<1> DEFINE t   == ResolveImmediate(s, use_float, target)
           src == i.operands[k]
           first == FALSE
<1>1. /\ Follows(s, t)
      /\ \A m : t.failed = FALSE /\ Serves(m, t.frame, t.pool) /\ Agree(m, At(s, m), Pools)
           => Loads(s, t, m, s.operand.value)
  BY ImmediateReaches
<1> HIDE DEF t
<1>2. ASSUME NEW m, t.failed = FALSE, Serves(m, t.frame, t.pool), Agree(m, At(s, m), Pools),
             OperandStands(i, k, s.operand, m, At(s, m), s.free, s.after)
      PROVE  /\ Agree(At(s, m), At(t, m), s.free)
             /\ OperandStands(i, k, t.operand, m, At(t, m), t.free, t.after)
             /\ t.after = s.after
  <2>1. Loads(s, t, m, s.operand.value)
    BY <1>1, <1>2
  <2>2. s.operand.value = Value(m, src)
    BY <1>2 DEF OperandStands, SourceStands, Value
  <2> QED BY <2>1, <2>2, LoadStands
<1>3. ~first
  OBVIOUS
<1> HIDE DEF first
<1>4. Steps(i, k, s, t, first)
  BY <1>2, <1>3 DEF Steps
<1> QED BY <1>1, <1>4 DEF t, first

-----------------------------------------------------------------------------
(* The actions, a third time.                                               *)

\* The operands rewritten so far stand for those of the source instruction on
\* every machine the code may run on.
StandingOn(m) ==
  /\ Agree(m, Run(before, m), Pools)
  /\ IsPureInputInstruction(source) \/ (phase = "operands" /\ idx = 1) => after = <<>>
  /\ \A k \in DOMAIN operands : phase = "registers" \/ k < idx =>
       OperandStands(source, k, operands[k], m, Run(before, m), free, after)

\* The code of the instruction does on m what the instruction meant.
MeansWhatItShould(m) == Visible(Run(Code, m)) = Visible(Execute(m, source))

\* ResolvedCodeCorrect, for every machine and on the way there.
MeansInv ==
  /\ pool \in Seq(Int)
  /\ phase \in {"ready", "address"} => before = <<>> /\ after = <<>>
  /\ phase = "address" => \E a, b : /\ IsPointer(a) /\ IsPointer(b)
                                    /\ source = Instr("Address", <<a, b>>, FALSE, 0)
                                    /\ operands = <<a, b>>
  /\ phase \in {"operands", "registers"} =>
       Meaningful(source) /\ \A m : Serves(m, frame, pool) => StandingOn(m)
  /\ phase = "resolved" => \A m : Serves(m, frame, pool) => MeansWhatItShould(m)

LEMMA StateReady ==
  ASSUME IInv, FitInv, pool \in Seq(Int), phase # "failed", NEW o
  PROVE  /\ Ready(State(o)) /\ State(o).operand = o /\ State(o).failed = FALSE
         /\ State(o).before = before /\ State(o).after = after /\ State(o).free = free
         /\ State(o).frame = frame /\ State(o).pool = pool /\ State(o).instr = instr
<1>1. Sound(State(o))
  BY StateSound DEF IInv
<1>2. /\ State(o).operand = o /\ State(o).failed = FALSE
      /\ State(o).before = before /\ State(o).after = after /\ State(o).free = free
      /\ State(o).frame = frame /\ State(o).pool = pool /\ State(o).instr = instr
  BY DEF State
<1>3. IsCode(before) /\ IsCode(after) /\ IsFrame(frame)
  BY DEF FitInv, FitCode, IsCode
<1> QED BY <1>1, <1>2, <1>3 DEF Ready

\* The machine of ResolvedCodeCorrect is one of those the code may run on.
LEMMA StartServes ==
  ASSUME pool \in Seq(Int)
  PROVE  Serves(Start, frame, pool)
<1> DEFINE A == {ConstantSymbol(i) : i \in DOMAIN pool}
           mem == [a \in A |-> pool[CHOOSE i \in DOMAIN pool : ConstantSymbol(i) = a]]
           gp == [n \in 0 .. 31 |-> CASE n = 29 -> 10000 [] n = 31 -> 5000
                                      [] OTHER -> 300 + n]
           simd == [n \in 0 .. 31 |-> 400 + n]
<1>1. DOMAIN pool = 1 .. Len(pool) /\ Len(pool) \in Nat /\ \A j \in DOMAIN pool : pool[j] \in Int
  OBVIOUS
<1>2. \A j \in DOMAIN pool : mem[ConstantSymbol(j)] = pool[j]
  <2> SUFFICES ASSUME NEW j \in DOMAIN pool PROVE mem[ConstantSymbol(j)] = pool[j]
    OBVIOUS
  <2>1. \A i \in DOMAIN pool : ConstantSymbol(i) = ConstantSymbol(j) => i = j
    BY <1>1 DEF ConstantSymbol
  <2>2. (CHOOSE i \in DOMAIN pool : ConstantSymbol(i) = ConstantSymbol(j)) = j
    BY <2>1
  <2>3. ConstantSymbol(j) \in A
    OBVIOUS
  <2> QED BY <2>2, <2>3
<1>3. \A a \in A : mem[a] \in Int
  <2> SUFFICES ASSUME NEW a \in A PROVE mem[a] \in Int
    OBVIOUS
  <2>1. PICK j \in DOMAIN pool : a = ConstantSymbol(j)
    OBVIOUS
  <2> HIDE DEF mem
  <2> QED BY <1>1, <1>2, <2>1
<1>4. DOMAIN mem = A /\ \A j \in DOMAIN pool : ConstantSymbol(j) \in A
  OBVIOUS
<1>5. DOMAIN gp = 0 .. 31 /\ gp[29] = 10000 /\ gp[31] = 5000 /\ DOMAIN simd = 0 .. 31
  OBVIOUS
<1> HIDE DEF A, mem, gp, simd
<1>6. Start = [gp |-> gp, simd |-> simd, mem |-> mem, flags |-> <<11, 13>>, frame |-> frame]
  BY DEF Start, gp, simd, mem, A
<1> DEFINE m == Start
<1>7. /\ m.gp = gp /\ m.simd = simd /\ m.mem = mem /\ m.frame = frame
      /\ DOMAIN m = {"gp", "simd", "mem", "flags", "frame"}
  BY <1>6
<1> HIDE DEF m
<1>8. Machine(m) /\ m.gp[29] \in Int /\ m.gp[31] \in Int
  <2>1. m["gp"] = gp /\ m["simd"] = simd
    BY <1>7
  <2>2. ASSUME NEW file \in Files PROVE DOMAIN m[file] = 0 .. 31
    <3>1. CASE file = "gp"
      BY <1>5, <2>1, <3>1
    <3>2. CASE file = "simd"
      BY <1>5, <2>1, <3>2
    <3> QED BY <3>1, <3>2 DEF Files
  <2>3. m.gp[29] \in Int /\ m.gp[31] \in Int
    BY <1>5, <1>7
  <2> QED BY <1>7, <2>2, <2>3 DEF Machine
<1>9. \A j \in DOMAIN pool : Read(m, ConstantSymbol(j)) = pool[j]
  BY <1>2, <1>4, <1>7 DEF Read
<1>10. \A a \in Int : Read(m, a) \in Int
  BY <1>3, <1>4, <1>7 DEF Read
<1>11. FrameGrows(frame, m.frame)
  BY <1>7, FrameStays
<1> QED BY <1>8, <1>9, <1>10, <1>11 DEF Serves, m

\* One operand rewritten, and the others still stand.
LEMMA RewriteMeans ==
  ASSUME IInv, FitInv, MeansInv, phase \in {"operands", "registers"},
         NEW t, RewriteOperand(t), idx \in DOMAIN operands,
         Follows(State(operands[idx]), t),
         Steps(source, idx, State(operands[idx]), t, phase = "operands")
  PROVE  MeansInv'
<1> DEFINE s == State(operands[idx])
<1>1. /\ s.failed = FALSE /\ s.operand = operands[idx] /\ Ready(s)
      /\ s.before = before /\ s.after = after /\ s.free = free
      /\ s.frame = frame /\ s.pool = pool
  BY StateReady DEF MeansInv
<1> HIDE DEF s
<1>2. Follows(s, t) /\ Steps(source, idx, s, t, phase = "operands")
  BY DEF s
<1>3. t.failed \in BOOLEAN
  BY <1>2 DEF Follows, Ready, Sound
<1>4. CASE t.failed = TRUE
  <2>1. phase' = "failed" /\ pool' = pool
    BY <1>4 DEF RewriteOperand, Becomes
  <2> QED BY <2>1 DEF MeansInv
<1>5. CASE t.failed = FALSE
  <2>1. /\ phase' = phase /\ before' = t.before /\ after' = t.after /\ free' = t.free
        /\ frame' = t.frame /\ pool' = t.pool /\ source' = source /\ idx' = idx + 1
        /\ operands' = [operands EXCEPT ![idx] = t.operand]
    BY <1>5 DEF RewriteOperand, Becomes
  <2>2. pool' \in Seq(Int)
    BY <1>2, <1>5, <2>1 DEF Follows, Ready
  <2>3. DOMAIN operands' = DOMAIN operands /\ operands'[idx] = t.operand
        /\ \A k \in DOMAIN operands : k # idx => operands'[k] = operands[k]
    BY <2>1
  <2>4. DOMAIN operands \subseteq Nat /\ idx \in Nat \ {0}
    BY DEF FitInv, OperandsRewritten
  <2>5. ASSUME NEW m, Serves(m, t.frame, t.pool) PROVE StandingOn(m)'
    <3>1. Serves(m, frame, pool)
      BY <1>1, <1>2, <1>5, <2>5, ServesEarlier
    <3>2. StandingOn(m)
      BY <3>1 DEF MeansInv
    <3>3. PICK n, n1 : n = Run(before, m) /\ n1 = Run(t.before, m)
      OBVIOUS
    <3>4. At(s, m) = n /\ At(t, m) = n1
      BY <1>1, <3>3 DEF At
    <3>5. Agree(m, n, Pools)
      BY <3>2, <3>3 DEF StandingOn
    <3>6. \A k \in DOMAIN operands : phase = "registers" \/ k < idx =>
            OperandStands(source, k, operands[k], m, n, free, after)
      BY <3>2, <3>3 DEF StandingOn
    <3>7. IsPureInputInstruction(source) \/ (phase = "operands" /\ idx = 1) => after = <<>>
      BY <3>2 DEF StandingOn
    <3>8. /\ Agree(n, n1, free)
          /\ OperandStands(source, idx, t.operand, m, n1, t.free, t.after)
          /\ ~IsDestination(source, idx) => t.after = after
      <4>1. CASE phase = "operands"
        <5>1. IsDestination(source, idx) => after = <<>>
          BY <3>7, <4>1 DEF IsDestination
        <5> QED BY <1>1, <1>2, <1>5, <2>5, <3>4, <3>5, <4>1, <5>1 DEF Steps
      <4>2. CASE phase = "registers"
        <5>1. OperandStands(source, idx, s.operand, m, n, free, after)
          BY <1>1, <3>6, <4>2
        <5> QED BY <1>1, <1>2, <1>5, <2>5, <3>4, <3>5, <4>2, <5>1 DEF Steps
      <4> QED BY <4>1, <4>2
    <3>9. Agree(m, n1, Pools)
      <4>1. \A file \in Files : free[file] \subseteq Pools[file]
        BY <1>1, FreeInPools DEF Ready
      <4> QED BY <3>5, <3>8, <4>1, AgreeTransitive
    <3>10. \A file \in Files : t.free[file] \subseteq free[file]
      BY <1>1, <1>2, <1>5 DEF Follows
    <3>11. ASSUME NEW k \in DOMAIN operands, phase = "registers" \/ k < idx + 1
           PROVE  OperandStands(source, k, operands'[k], m, n1, t.free, t.after)
      <4>1. CASE k = idx
        BY <2>3, <3>8, <4>1
      <4>2. CASE k # idx
        <5>1. phase = "registers" \/ k < idx
          BY <2>4, <3>11, <4>2
        <5>2. OperandStands(source, k, operands[k], m, n, free, after)
          BY <3>6, <5>1
        <5>3. OperandStands(source, k, operands[k], m, n1, t.free, after)
          BY <3>8, <3>10, <5>2, StandsLater
        <5>4. CASE IsDestination(source, k)
          <6>1. ~IsDestination(source, idx)
            BY <4>2, <5>4 DEF IsDestination
          <6> QED BY <2>3, <3>8, <4>2, <5>3, <6>1
        <5>5. CASE ~IsDestination(source, k)
          BY <2>3, <4>2, <5>3, <5>5 DEF OperandStands
        <5> QED BY <5>4, <5>5
      <4> QED BY <4>1, <4>2
    <3>12. IsPureInputInstruction(source) => t.after = <<>>
      BY <3>7, <3>8 DEF IsDestination
    <3>13. ~(idx + 1 = 1)
      BY <2>4
    <3> QED BY <2>1, <2>3, <3>3, <3>9, <3>11, <3>12, <3>13 DEF StandingOn
  <2>6. \A m : Serves(m, frame', pool') => StandingOn(m)'
    BY <2>1, <2>5
  <2>7. Meaningful(source')
    BY <2>1 DEF MeansInv
  <2> QED BY <2>1, <2>2, <2>6, <2>7 DEF MeansInv
<1> QED BY <1>3, <1>4, <1>5

LEMMA InitMeans == ASSUME Init PROVE MeansInv
<1>1. pool \in Seq(Int)
  <2>1. <<>> \in Seq(Int)
    OBVIOUS
  <2> QED BY <2>1 DEF Init
<1> QED BY <1>1 DEF Init, MeansInv

LEMMA RunSurrounded ==
  ASSUME NEW b, IsCode(b), NEW x, NEW a, a = <<>> \/ \E y : a = <<y>>
  PROVE  \A m : Run(b \o <<x>> \o a, m) = Run(a, Execute(Run(b, m), x))
<1>1. PICK S : b \in Seq(S)
  BY DEF IsCode
<1> DEFINE c == Append(b, x)
<1>2. IsCode(c) /\ \A m : Run(c, m) = Execute(Run(b, m), x)
  BY CodeAppended
<1>3. b \o <<x>> = c
  BY <1>1
<1>4. CASE a = <<>>
  <2>1. c \in Seq(S \cup {x})
    BY <1>1
  <2>2. c \o a = c
    <3> HIDE DEF c
    <3> QED BY <1>4, <2>1
  <2> HIDE DEF c
  <2> QED BY <1>2, <1>3, <1>4, <2>2, RunNothing
<1>5. ASSUME NEW y, a = <<y>>
      PROVE  \A m : Run(b \o <<x>> \o a, m) = Run(a, Execute(Run(b, m), x))
  <2>1. c \in Seq(S \cup {x})
    BY <1>1
  <2> HIDE DEF c
  <2>2. c \o <<y>> = Append(c, y)
    BY <2>1
  <2>3. \A m : Run(Append(c, y), m) = Execute(Run(c, m), y)
    BY <1>2, CodeAppended
  <2>4. b \o <<x>> \o a = Append(c, y)
    BY <1>3, <1>5, <2>2
  <2>5. \A p : Run(a, p) = Execute(p, y)
    BY <1>5, RunOne
  <2> QED BY <1>2, <2>3, <2>4, <2>5
<1> QED BY <1>4, <1>5

LEMMA FetchMeans ==
  ASSUME FitInv, MeansInv, NEW i \in Instructions, Fetch(i)
  PROVE  MeansInv'
<1>1. /\ before' = <<>> /\ after' = <<>> /\ frame' = frame /\ source' = i /\ instr' = i
      /\ idx' = 1 /\ operands' = i.operands /\ phase = "ready" /\ pool' = pool
      /\ i.op # "Address" =>
           phase' = IF i.operands = <<>> THEN "resolved" ELSE "operands"
      /\ i.op = "Address" /\ i.operands # <<>> => phase' = "address"
  BY DEF Fetch
<1>2. pool' \in Seq(Int)
  BY <1>1 DEF MeansInv
<1>3. CASE Emitted(i)
  <2>1. phase' = IF i.operands = <<>> THEN "resolved" ELSE "operands"
    BY <1>1, <1>3 DEF Emitted
  <2>2. CASE i.operands = <<>>
    <3>1. phase' = "resolved"
      BY <2>1, <2>2
    <3>2. ASSUME NEW m PROVE MeansWhatItShould(m)'
      <4>1. Code' = <<i>>
        <5>1. <<>> \o <<i>> \o <<>> = <<i>>
          OBVIOUS
        <5> QED BY <1>1, <5>1 DEF Code
      <4> QED BY <1>1, <4>1, RunOne DEF MeansWhatItShould
    <3> QED BY <1>2, <3>1, <3>2 DEF MeansInv
  <2>3. CASE i.operands # <<>>
    <3>1. phase' = "operands"
      BY <2>1, <2>3
    <3>2. Meaningful(i)
      BY <1>3, <2>3, EveryInstructionMeans DEF NoInstr, Instr
    <3>3. DOMAIN i.operands \subseteq Nat \ {0}
      BY <1>3 DEF Emitted
    <3>4. ASSUME NEW m, Serves(m, frame', pool') PROVE StandingOn(m)'
      <4>1. Run(<<>>, m) = m /\ Agree(m, m, Pools)
        BY <3>4, RunNothing, AgreeSelf DEF Serves
      <4>2. \A k \in DOMAIN i.operands : ~(k < 1)
        BY <3>3
      <4> QED BY <1>1, <3>1, <4>1, <4>2 DEF StandingOn
    <3> QED BY <1>1, <1>2, <3>1, <3>2, <3>4 DEF MeansInv
  <2> QED BY <2>2, <2>3
<1>4. CASE \E a \in Places(8), b \in Places(4) \cup Places(8) :
             i = Instr("Address", <<a, b>>, FALSE, 0)
  <2>1. PICK a \in Places(8), b \in Places(4) \cup Places(8) :
             i = Instr("Address", <<a, b>>, FALSE, 0)
    BY <1>4
  <2>2. i.op = "Address" /\ i.operands = <<a, b>>
    BY <2>1 DEF Instr
  <2>3. IsPointer(a) /\ IsPointer(b)
    BY PlacesUsable
  <2>4. <<a, b>> # <<>>
    OBVIOUS
  <2> QED BY <2>4, <1>1, <1>2, <2>1, <2>2, <2>3 DEF MeansInv
<1> QED BY <1>3, <1>4, EveryInstructionEmitted

LEMMA FirstLoopMeans ==
  ASSUME IInv, FitInv, MeansInv, ResolveOperand
  PROVE  MeansInv'
<1> DEFINE src == source.operands[idx]
           s   == State(operands[idx])
           is_dst == IsDestination(source, idx)
           use_float == NeedsFloatRegister(source, idx)
           placed  == ResolvePseudo(s)
           fetched == ResolveDataOperand(s, is_dst, use_float)
           pointed == ResolveIndirectMemory(s)
           t == IF s.operand.kind = "Pseudo" THEN placed
                ELSE IF s.operand.kind = "Data" THEN fetched
                ELSE IF s.operand.kind = "Indirect" THEN pointed ELSE s
<1>1. phase = "operands" /\ OperandsRewritten /\ instr = source /\ Emitted(source)
  BY DEF ResolveOperand, FitInv, OperandsRewritten
<1>2. RewriteOperand(t)
  BY <1>1 DEF ResolveOperand
<1>3. idx \in DOMAIN operands /\ idx \in DOMAIN source.operands
  <2>1. idx <= Len(operands)
    BY <1>2 DEF RewriteOperand
  <2>2. DOMAIN operands = 1 .. Len(operands) /\ DOMAIN source.operands = 1 .. Len(operands)
        /\ Len(operands) \in Nat
    BY <1>1 DEF OperandsRewritten, Emitted
  <2> QED BY <1>1, <2>1, <2>2 DEF OperandsRewritten
<1>4. operands[idx] = src
  BY <1>1, <1>3 DEF OperandsRewritten, Rewritten
<1>5. OperandEmitted(source, idx) /\ Usable(src) /\ Meaningful(source)
  BY <1>1, <1>3 DEF Emitted, MeansInv, Meaningful
<1>6. Ready(s) /\ s.operand = src
  BY <1>1, <1>4, StateReady DEF MeansInv
<1>7. IsDestination(source, idx) => src.kind \in {"Pseudo", "Data", "Register"}
  BY <1>5 DEF IsDestination, IsPureInputInstruction, Meaningful, Writable
<1>8. is_dst \in BOOLEAN /\ (is_dst <=> IsDestination(source, idx))
  BY DEF IsDestination
<1> DEFINE first == TRUE
<1> HIDE DEF s, is_dst, use_float
<1>9. Follows(s, t) /\ Steps(source, idx, s, t, first)
  <2>1. CASE src.kind = "Pseudo"
    <3>1. IsPointer(s.operand)
      BY <1>5, <1>6, <2>1 DEF Usable
    <3>2. Follows(s, placed) /\ Steps(source, idx, s, placed, first)
      BY <1>6, <2>1, <3>1, PseudoSteps
    <3>3. t = placed
      BY <1>6, <2>1
    <3> HIDE DEF t, placed, first
    <3> QED BY <3>2, <3>3
  <2>2. CASE src.kind = "Data"
    <3>1. IsPointer(s.operand)
      BY <1>5, <1>6, <2>2 DEF Usable
    <3>2. Follows(s, fetched) /\ Steps(source, idx, s, fetched, first)
      BY <1>6, <1>8, <2>2, <3>1, DataSteps
    <3>3. t = fetched
      BY <1>6, <2>2
    <3> HIDE DEF t, fetched, first
    <3> QED BY <3>2, <3>3
  <2>3. CASE src.kind = "Indirect"
    <3>1. IsPointer(s.operand.pointer)
      BY <1>5, <1>6, <2>3 DEF Usable
    <3>2. Follows(s, pointed) /\ Steps(source, idx, s, pointed, first)
      BY <1>6, <1>7, <2>3, <3>1, IndirectSteps
    <3>3. t = pointed
      BY <1>6, <2>3
    <3> HIDE DEF t, pointed, first
    <3> QED BY <3>2, <3>3
  <2>4. CASE src.kind \in {"Memory", "Immediate", "Register"}
    <3>1. Follows(s, s) /\ Steps(source, idx, s, s, first)
      BY <1>5, <1>6, <1>7, <2>4, OthersStep
    <3>2. t = s
      BY <1>6, <2>4
    <3> HIDE DEF t, first
    <3> QED BY <3>1, <3>2
  <2> QED BY <1>5, <2>1, <2>2, <2>3, <2>4 DEF OperandEmitted
<1> HIDE DEF t
<1>10. Steps(source, idx, s, t, phase = "operands")
  <2>1. (phase = "operands") = first
    BY <1>1
  <2> HIDE DEF first
  <2> QED BY <1>9, <2>1
<1> QED BY <1>1, <1>2, <1>3, <1>9, <1>10, RewriteMeans DEF s

LEMMA SecondLoopStartsMeaning ==
  ASSUME FitInv, MeansInv, StartSecondLoop
  PROVE  MeansInv'
<1>1. /\ phase = "operands" /\ phase' = "registers" /\ idx > Len(operands)
      /\ operands' = operands /\ source' = source /\ before' = before /\ after' = after
      /\ free' = free /\ frame' = frame /\ pool' = pool
  BY DEF StartSecondLoop
<1>2. OperandsRewritten
  BY <1>1 DEF FitInv
<1>3. idx # 1 /\ \A k \in DOMAIN operands : k < idx
  <2>1. DOMAIN operands = 1 .. Len(operands) /\ Len(operands) \in Nat /\ idx \in Nat
    BY <1>2 DEF OperandsRewritten
  <2>2. operands # <<>>
    BY <1>1, <1>2 DEF MeansInv, Meaningful, OperandsRewritten, Emitted
  <2> QED BY <1>1, <2>1, <2>2
<1>4. ASSUME NEW m, Serves(m, frame, pool) PROVE StandingOn(m)'
  <2>1. StandingOn(m)
    BY <1>1, <1>4 DEF MeansInv
  <2> QED BY <1>1, <1>3, <2>1 DEF StandingOn
<1> QED BY <1>1, <1>4 DEF MeansInv

\* Memory that the first loop left is near enough or lies in the frame.
LEMMA MemoryAddressable ==
  ASSUME NEW i, NEW k, OperandEmitted(i, k), NEW o, Middle(i, k, o),
         i.operands[k].kind \in {"Pseudo", "Indirect", "Memory"},
         NEW m0, NEW m1, NEW F, NEW code, OperandStands(i, k, o, m0, m1, F, code)
  PROVE  Addressable(o, F) /\ (~CanEncodeImm9(o.offset) => o.base \in {X29, SP})
<1> DEFINE src == i.operands[k]
<1>1. IsAddress(o, src.size)
  BY DEF OperandEmitted, Middle
<1>2. o.kind = "Memory" /\ o.offset \in Int
  BY <1>1, AddressFields DEF IsAddress
<1>3. ~CanEncodeImm9(o.offset) => o.base \in {X29, SP}
  <2>1. CASE src.kind = "Pseudo"
    BY <2>1 DEF Middle
  <2>2. CASE src.kind = "Indirect"
    <3>1. o.offset = 0
      BY <2>2 DEF Middle
    <3> QED BY <3>1 DEF CanEncodeImm9
  <2>3. CASE src.kind = "Memory"
    BY <2>3 DEF Middle, OperandEmitted
  <2> QED BY <2>1, <2>2, <2>3
<1>4. Kept(o, F)
  BY <1>2 DEF OperandStands, SourceStands, TargetStands, Delivers, IsRegister
<1> QED BY <1>2, <1>3, <1>4 DEF Addressable

LEMMA SecondLoopMeans ==
  ASSUME IInv, FitInv, MeansInv, MaterializeOperand
  PROVE  MeansInv'
<1> DEFINE src == source.operands[idx]
           o   == operands[idx]
           s   == State(operands[idx])
           is_dst == IsDestination(instr, idx)
           use_float == NeedsFloatRegister(instr, idx)
           near    == MaterializeLargeOffset(s)
           loaded  == ResolveMemoryOperand(s, is_dst, use_float)
           target  == TargetSize
           floats  == use_float \/ s.operand.is_float
           literal == ResolveImmediate(s, floats, target)
           t == IF s.operand.kind = "Memory"
                THEN IF IsLoadStore(instr) /\ idx = Len(operands) THEN near ELSE loaded
                ELSE IF s.operand.kind = "Immediate" /\ ~IsSpArithmetic THEN literal ELSE s
           first == FALSE
<1>1. phase = "registers" /\ OperandsRewritten /\ RewriteOperand(t)
  BY DEF MaterializeOperand, FitInv
<1>2. /\ instr = source /\ Emitted(source) /\ Len(operands) = Len(source.operands)
      /\ idx \in DOMAIN operands /\ idx \in DOMAIN source.operands
  <2>1. idx <= Len(operands)
    BY <1>1 DEF RewriteOperand
  <2>2. DOMAIN operands = 1 .. Len(operands) /\ DOMAIN source.operands = 1 .. Len(operands)
        /\ Len(operands) \in Nat
    BY <1>1 DEF OperandsRewritten, Emitted
  <2> QED BY <1>1, <2>1, <2>2 DEF OperandsRewritten
<1>3. Middle(source, idx, o)
  BY <1>1, <1>2 DEF OperandsRewritten, Rewritten
<1>4. OperandEmitted(source, idx) /\ Usable(src) /\ Meaningful(source)
  BY <1>1, <1>2 DEF Emitted, MeansInv, Meaningful
<1>5. Ready(s) /\ s.operand = o /\ s.free = free /\ s.after = after
  BY <1>1, StateReady DEF MeansInv
<1>6. /\ is_dst \in BOOLEAN /\ (is_dst <=> IsDestination(source, idx))
      /\ use_float \in BOOLEAN
  BY <1>2 DEF IsDestination, NeedsFloatRegister, Emitted
<1>7. IsDestination(source, idx) => src.kind \in {"Pseudo", "Data", "Register"}
  BY <1>4 DEF IsDestination, IsPureInputInstruction, Meaningful, Writable
<1>8. IsLoadStore(source) /\ idx = Len(source.operands) => ~IsDestination(source, idx)
  BY <1>2 DEF IsDestination, IsLoadStore, Emitted
<1>9. src.kind = "Immediate" => src.is_float \in BOOLEAN /\ src.value \in Int
  BY <1>4 DEF OperandEmitted, Usable
<1>10. \E m0, m1 : OperandStands(source, idx, o, m0, m1, free, after)
  <2>1. Serves(Start, frame, pool)
    BY StartServes DEF MeansInv
  <2>2. StandingOn(Start)
    BY <1>1, <2>1 DEF MeansInv
  <2> QED BY <1>1, <1>2, <2>2 DEF StandingOn
<1>11. ~first
  OBVIOUS
<1> HIDE DEF s, is_dst, use_float, target
<1>12. Follows(s, t) /\ Steps(source, idx, s, t, first)
  <2>1. CASE src.kind \in {"Pseudo", "Indirect", "Memory"}
    <3>1. /\ Addressable(s.operand, s.free) /\ s.operand.kind = "Memory"
          /\ ~CanEncodeImm9(s.operand.offset) => s.operand.base \in {X29, SP}
      BY <1>3, <1>4, <1>5, <1>10, <2>1, MemoryAddressable DEF Addressable
    <3>2. CASE IsLoadStore(instr) /\ idx = Len(operands)
      <4>1. t = near
        BY <3>1, <3>2
      <4>2. ~IsDestination(source, idx)
        BY <1>2, <1>8, <3>2
      <4>3. Follows(s, near) /\ Steps(source, idx, s, near, first)
        BY <1>5, <3>1, <4>2, AddressSteps
      <4> HIDE DEF near, t, first
      <4> QED BY <4>1, <4>3
    <3>3. CASE ~(IsLoadStore(instr) /\ idx = Len(operands))
      <4>1. t = loaded
        BY <3>1, <3>3
      <4>2. Follows(s, loaded) /\ Steps(source, idx, s, loaded, first)
        BY <1>5, <1>6, <3>1, MemorySteps
      <4> HIDE DEF loaded, t, first
      <4> QED BY <4>1, <4>2
    <3> QED BY <3>2, <3>3
  <2>2. ASSUME t = s PROVE Follows(s, t) /\ Steps(source, idx, s, t, first)
    <3>1. Follows(s, s) /\ Steps(source, idx, s, s, first)
      BY <1>5, StaysStanding
    <3> HIDE DEF t, first
    <3> QED BY <2>2, <3>1
  <2>3. CASE src.kind = "Immediate"
    <3>1. s.operand = src
      BY <1>3, <1>5, <2>3 DEF Middle
    <3>2. CASE IsSpArithmetic
      <4>1. t = s
        BY <2>3, <3>1, <3>2
      <4> QED BY <2>2, <4>1
    <3>3. CASE ~IsSpArithmetic
      <4>1. t = literal
        BY <2>3, <3>1, <3>3
      <4>2. floats \in BOOLEAN
        BY <1>6, <1>9, <2>3, <3>1
      <4>3. ~IsDestination(source, idx)
        BY <1>7, <2>3
      <4> HIDE DEF floats
      <4>4. Follows(s, literal) /\ Steps(source, idx, s, literal, first)
        BY <1>5, <1>9, <2>3, <3>1, <4>2, <4>3, LiteralSteps
      <4> HIDE DEF literal, t, first
      <4> QED BY <4>1, <4>4
    <3> QED BY <3>2, <3>3
  <2>4. CASE src.kind \in {"Data", "Register"}
    <3>1. s.operand.kind = "Register"
      <4>1. CASE src.kind = "Data"
        <5>1. IF Floats(source, idx) THEN IsScratch(o, "simd", 8)
                                     ELSE IsScratch(o, "gp", src.size)
          BY <1>3, <4>1 DEF Middle
        <5> QED BY <1>5, <5>1, ScratchFields
      <4>2. CASE src.kind = "Register"
        BY <1>3, <1>5, <4>2 DEF Middle
      <4> QED BY <2>4, <4>1, <4>2
    <3>2. t = s
      BY <3>1
    <3> QED BY <2>2, <3>2
  <2> QED BY <1>4, <2>1, <2>3, <2>4 DEF OperandEmitted
<1> HIDE DEF t
<1>13. Steps(source, idx, s, t, phase = "operands")
  <2>1. (phase = "operands") = first
    BY <1>1
  <2> HIDE DEF first
  <2> QED BY <1>12, <2>1
<1> QED BY <1>1, <1>2, <1>12, <1>13, RewriteMeans DEF s

LEMMA OperandsSetMean ==
  ASSUME FitInv, MeansInv, SetOperands
  PROVE  MeansInv'
<1>1. /\ phase = "registers" /\ phase' = "resolved" /\ idx > Len(operands)
      /\ instr' = [instr EXCEPT !.operands = operands]
      /\ before' = before /\ after' = after /\ source' = source
      /\ frame' = frame /\ pool' = pool
  BY DEF SetOperands
<1>2. OperandsRewritten /\ IsCode(before)
  BY <1>1 DEF FitInv, FitCode, IsCode
<1>3. DOMAIN operands = 1 .. Len(operands) /\ Len(operands) \in Nat /\ idx \in Nat
  BY <1>2 DEF OperandsRewritten
<1>4. \A k \in DOMAIN operands : Final(source, k, operands[k])
  BY <1>1, <1>2, <1>3 DEF OperandsRewritten, Rewritten
<1>5. /\ Emitted(source) /\ Len(operands) = Len(source.operands)
      /\ \E S : operands \in Seq(S)
      /\ instr' = [source EXCEPT !.operands = operands]
  BY <1>1, <1>2 DEF OperandsRewritten
<1>6. Meaningful(source) /\ 1 \in DOMAIN operands
  <2>1. Meaningful(source)
    BY <1>1 DEF MeansInv
  <2> QED BY <2>1, <1>3, <1>5 DEF Meaningful, Emitted
<1>7. ASSUME NEW m, Serves(m, frame, pool) PROVE MeansWhatItShould(m)'
  <2>1. PICK n : n = Run(before, m)
    OBVIOUS
  <2>2. StandingOn(m) /\ Machine(m)
    BY <1>1, <1>7 DEF MeansInv, Serves
  <2>3. /\ Agree(m, n, Pools)
        /\ \A k \in DOMAIN operands : OperandStands(source, k, operands[k], m, n, free, after)
        /\ IsPureInputInstruction(source) => after = <<>>
    BY <1>1, <2>1, <2>2 DEF StandingOn
  <2>4. after = <<>> \/ \E y : after = <<y>>
    <3>1. CASE IsPureInputInstruction(source)
      BY <2>3, <3>1
    <3>2. CASE ~IsPureInputInstruction(source)
      <4>1. TargetStands(m, n, free, source.operands[1], operands[1], after)
        BY <1>6, <2>3, <3>2 DEF OperandStands, IsDestination
      <4> QED BY <4>1 DEF TargetStands
    <3> QED BY <3>1, <3>2
  <2> DEFINE j == [source EXCEPT !.operands = operands]
  <2>5. Visible(Run(after, Execute(n, j))) = Visible(Execute(m, source))
    BY <1>4, <1>5, <1>6, <2>2, <2>3, ResolvedMeans
  <2>6. Code' = before \o <<j>> \o after
    BY <1>1, <1>5 DEF Code
  <2> HIDE DEF j
  <2>7. Run(Code', m) = Run(after, Execute(n, j))
    BY <1>2, <2>1, <2>4, <2>6, RunSurrounded
  <2> QED BY <1>1, <2>5, <2>7 DEF MeansWhatItShould
<1> QED BY <1>1, <1>7 DEF MeansInv

LEMMA AddressMeans ==
  ASSUME IInv, FitInv, MeansInv, ResolveVirtualInstructions
  PROVE  MeansInv'
<1> DEFINE s == State(operands[1])
           t == ResolveAddress(s, operands[1], operands[2])
<1>1. phase = "address" /\ Becomes(t, "resolved") /\ source' = source
  BY DEF ResolveVirtualInstructions
<1>2. PICK a, b : /\ IsPointer(a) /\ IsPointer(b)
                  /\ source = Instr("Address", <<a, b>>, FALSE, 0)
                  /\ operands = <<a, b>>
  BY <1>1 DEF MeansInv
<1>3. operands[1] = a /\ operands[2] = b /\ before = <<>> /\ after = <<>>
  BY <1>1, <1>2 DEF MeansInv
<1>4. Ready(s) /\ s.before = before /\ s.after = after
  BY <1>1, StateReady DEF MeansInv
<1>5. /\ t.failed \in BOOLEAN
      /\ t.failed = FALSE => t.pool \in Seq(Int)
      /\ \A m : t.failed = FALSE /\ Serves(m, t.frame, t.pool) /\ Agree(m, At(s, m), Pools)
           => Aims(t, m, OperandAddress(m, a), OperandAddress(m, b))
  <2> HIDE DEF s
  <2>0. PICK r : r = s /\ Ready(r) /\ r.after = <<>>
    BY <1>3, <1>4
  <2> DEFINE u == ResolveAddress(r, a, b)
  <2>1. t = u
    BY <1>3, <2>0
  <2>2. /\ u.failed \in BOOLEAN
        /\ u.failed = FALSE => u.pool \in Seq(Int)
        /\ \A m : u.failed = FALSE /\ Serves(m, u.frame, u.pool) /\ Agree(m, At(r, m), Pools)
             => Aims(u, m, OperandAddress(m, a), OperandAddress(m, b))
    BY <1>2, <2>0, AddressReaches
  <2> HIDE DEF t, u
  <2> QED BY <2>0, <2>1, <2>2
<1>6. t.failed = FALSE => IsCode(t.before)
  <2>1. Tidy(s, instr)
    BY <1>1, StateTidy
  <2>2. PICK c \in Places(8), d \in Places(4) \cup Places(8) : operands = <<c, d>>
    BY <1>1 DEF FitInv
  <2>3. operands[1] = c /\ operands[2] = d
    BY <2>2
  <2>4. IsPlace(c) /\ c.size = 8 /\ IsPlace(d)
    BY PlaceOperands DEF IsPlace
  <2> HIDE DEF s
  <2>5. PICK r, i : r = s /\ Tidy(r, i)
    BY <2>1
  <2> DEFINE u == ResolveAddress(r, c, d)
  <2>6. t = u
    BY <2>3, <2>5
  <2>7. u.failed = FALSE => FitCode(u.before)
    BY <2>4, <2>5, AddressTidy
  <2> HIDE DEF t, u
  <2> QED BY <2>6, <2>7 DEF FitCode, IsCode
<1> HIDE DEF t
<1>7. CASE t.failed = TRUE
  <2>1. phase' = "failed" /\ pool' = pool
    BY <1>1, <1>7 DEF Becomes
  <2> QED BY <2>1 DEF MeansInv
<1>8. CASE t.failed = FALSE
  <2>1. /\ phase' = "resolved" /\ before' = t.before /\ after' = t.after
        /\ instr' = t.instr /\ frame' = t.frame /\ pool' = t.pool
    BY <1>1, <1>8 DEF Becomes
  <2>2. ASSUME NEW m, Serves(m, t.frame, t.pool) PROVE MeansWhatItShould(m)'
    <3>1. Machine(m) /\ Agree(m, At(s, m), Pools)
      <4>1. Machine(m) /\ At(s, m) = m
        BY <1>3, <1>4, <2>2, RunNothing DEF At, Serves
      <4> QED BY <4>1, AgreeSelf
    <3> DEFINE v == OperandAddress(m, b)
    <3>2. Aims(t, m, OperandAddress(m, a), v)
      BY <1>5, <1>8, <2>2, <3>1
    <3> HIDE DEF v
    <3>3. PICK n, r, x : /\ t.after = <<x>> /\ Agree(m, n, Pools)
                         /\ Delivers(n, t.free, r, x, OperandAddress(m, a))
                         /\ SetTo(n, Execute(At(t, m), t.instr), r, v)
      BY <3>2 DEF Aims
    <3>4. PICK p, code : p = Execute(At(t, m), t.instr) /\ code = t.after
      OBVIOUS
    <3>5. TargetStands(m, n, t.free, a, r, code) /\ r.kind = "Register"
      <4>1. a.kind # "Register"
        BY <1>2 DEF IsPointer
      <4> QED BY <3>3, <3>4, <4>1 DEF TargetStands, Delivers, IsRegister
    <3>6. Visible(Run(code, p)) = Visible(Assign(m, a, v))
      BY <3>1, <3>3, <3>4, <3>5, TargetWritten
    <3>7. Run(Code', m) = Run(code, p)
      <4>1. Code' = t.before \o <<t.instr>> \o t.after
        BY <2>1 DEF Code
      <4>2. PICK b0, i0 : b0 = t.before /\ i0 = t.instr
        OBVIOUS
      <4>3. IsCode(b0) /\ (code = <<>> \/ \E y : code = <<y>>)
        BY <1>6, <1>8, <3>3, <3>4, <4>2
      <4>4. Run(b0 \o <<i0>> \o code, m) = Run(code, Execute(Run(b0, m), i0))
        BY <4>3, RunSurrounded
      <4>5. p = Execute(Run(b0, m), i0) /\ Code' = b0 \o <<i0>> \o code
        BY <3>4, <4>1, <4>2 DEF At
      <4> QED BY <4>4, <4>5
    <3>8. Execute(m, source) = Assign(m, a, v)
      <4> DEFINE ops == <<a, b>>
                 i   == Instr("Address", ops, FALSE, 0)
      <4>1. i.op = "Address" /\ i.operands = ops
        BY DEF Instr
      <4>2. ops[1] = a /\ ops[2] = b
        OBVIOUS
      <4>3. source = i
        BY <1>2
      <4> HIDE DEF i, ops
      <4> QED BY <4>1, <4>2, <4>3 DEF Execute, v
    <3> QED BY <1>1, <3>6, <3>7, <3>8 DEF MeansWhatItShould
  <2> QED BY <1>5, <1>8, <2>1, <2>2 DEF MeansInv
<1> QED BY <1>5, <1>7, <1>8

LEMMA TempsFreedMean ==
  ASSUME MeansInv, FreeTemps
  PROVE  MeansInv'
<1>1. phase' = "ready" /\ before' = <<>> /\ after' = <<>> /\ pool' = pool
  BY DEF FreeTemps
<1> QED BY <1>1 DEF MeansInv

LEMMA StepMeans ==
  ASSUME IInv, FitInv, MeansInv, [Next]_vars
  PROVE  MeansInv'
<1>1. CASE UNCHANGED vars
  <2>1. /\ phase' = phase /\ source' = source /\ instr' = instr /\ idx' = idx
        /\ operands' = operands /\ before' = before /\ after' = after /\ free' = free
        /\ frame' = frame /\ pool' = pool
    BY <1>1 DEF vars
  <2>2. \A m : (StandingOn(m) => StandingOn(m)') /\ (MeansWhatItShould(m) => MeansWhatItShould(m)')
    BY <2>1 DEF StandingOn, MeansWhatItShould, Code
  <2> QED BY <2>1, <2>2 DEF MeansInv
<1> QED BY <1>1, FetchMeans, FirstLoopMeans, SecondLoopStartsMeaning, SecondLoopMeans,
           OperandsSetMean, AddressMeans, TempsFreedMean DEF Next

\* The machine that the runs look at is one of all.
LEMMA MeansCorrect ==
  ASSUME MeansInv
  PROVE  ResolvedCodeCorrect
<1>1. Serves(Start, frame, pool)
  BY StartServes DEF MeansInv
<1>2. phase = "resolved" => MeansWhatItShould(Start)
  BY <1>1 DEF MeansInv
<1> QED BY <1>2 DEF ResolvedCodeCorrect, MeansWhatItShould

\* ResolvedCodeDoesWhatWasMeant: for any scratch registers other than those the
\* lowerers name, any objects and any constants, what the resolver appends for an
\* instruction leaves memory, flags and every other register as the instruction
\* over its virtual operands would have: no scratch register, page register or
\* large offset gets in the way of a value that is still needed.
THEOREM ResolvedCodeDoesWhatWasMeant == Spec => []ResolvedCodeCorrect
<1>1. Init => IInv /\ FitInv /\ MeansInv
  BY InitConserves, InitFits, InitMeans
<1>2. IInv /\ FitInv /\ MeansInv /\ [Next]_vars => IInv' /\ FitInv' /\ MeansInv'
  BY StepConserves, StepFits, StepMeans
<1>3. MeansInv => ResolvedCodeCorrect
  BY MeansCorrect
<1> QED BY <1>1, <1>2, <1>3, PTL DEF Spec

-----------------------------------------------------------------------------
(* What the helpers cost.                                                  *)

\* The scratch registers of a file that are left.
Left(s, file) == Cardinality(s.free[file])

\* From s to t, g GP and f SIMD registers are taken; where they are not left,
\* and only there, the allocator throws.
Pays(s, t, g, f) ==
  IF s.failed = FALSE /\ g <= Left(s, "gp") /\ f <= Left(s, "simd")
  THEN /\ t.failed = FALSE
       /\ Left(t, "gp") = Left(s, "gp") - g
       /\ Left(t, "simd") = Left(s, "simd") - f
  ELSE t.failed = TRUE

Spends(s, t, g, f) == Pays(s, t, g, f) /\ t.frame = s.frame

\* The price of a value, by register file.
PriceGP(use_float)   == IF use_float THEN 0 ELSE 1
PriceSIMD(use_float) == IF use_float THEN 1 ELSE 0

LEMMA PoolsAreFinite ==
  ASSUME NEW file \in Files, NEW S \in SUBSET PoolOf(file)
  PROVE  IsFiniteSet(S) /\ Cardinality(S) \in Nat
<1>1. S \subseteq 0 .. 31
  <2>1. GPPool \subseteq 0 .. 31 /\ SIMDPool \subseteq 0 .. 31
    BY ReservedAssumption
  <2> QED BY <2>1 DEF PoolOf
<1>2. IsFiniteSet(0 .. 31)
  <2>1. \A a, b \in Int : IsFiniteSet(a .. b)
    BY FS_Interval
  <2>2. 0 \in Int /\ 31 \in Int
    OBVIOUS
  <2> QED BY <2>1, <2>2, Zenon
<1>3. IsFiniteSet(S)
  BY <1>1, <1>2, FS_Subset
<1> QED BY <1>3, FS_CardinalityType

LEMMA LeftIsNatural ==
  ASSUME NEW s, Sound(s), s.failed = FALSE, NEW file \in Files
  PROVE  IsFiniteSet(s.free[file]) /\ Left(s, file) \in Nat
<1>1. s.free[file] \subseteq PoolOf(file)
  BY DEF Sound, Conserved, PoolOf
<1> QED BY <1>1, PoolsAreFinite DEF Left

\* Two prices are paid one after the other.
LEMMA PaysTogether ==
  ASSUME NEW s, Sound(s), NEW t, NEW u,
         NEW g1 \in Nat, NEW f1 \in Nat, Pays(s, t, g1, f1),
         NEW g2 \in Nat, NEW f2 \in Nat, Pays(t, u, g2, f2)
  PROVE  Pays(s, u, g1 + g2, f1 + f2)
<1>1. CASE s.failed = FALSE
  <2>1. Left(s, "gp") \in Nat /\ Left(s, "simd") \in Nat
    BY <1>1, LeftIsNatural DEF Files
  <2> QED BY <1>1, <2>1 DEF Pays
<1>2. CASE s.failed # FALSE
  BY <1>2 DEF Pays
<1> QED BY <1>1, <1>2

\* What takes no register is free.
LEMMA PaysNothing ==
  ASSUME NEW s, Sound(s), NEW t, t.free = s.free, t.failed = s.failed
  PROVE  Pays(s, t, 0, 0)
<1>1. s.failed = FALSE => Left(s, "gp") \in Nat /\ Left(s, "simd") \in Nat
  BY LeftIsNatural DEF Files
<1> QED BY <1>1 DEF Pays, Left, Sound

LEMMA SpendsTogether ==
  ASSUME NEW s, Sound(s), NEW t, NEW u,
         NEW g1 \in Nat, NEW f1 \in Nat, Spends(s, t, g1, f1),
         NEW g2 \in Nat, NEW f2 \in Nat, Spends(t, u, g2, f2)
  PROVE  Spends(s, u, g1 + g2, f1 + f2)
BY PaysTogether DEF Spends

\* Code and operands cost nothing.
LEMMA EmitSpends ==
  ASSUME NEW s, Sound(s), NEW t, t.free = s.free, t.failed = s.failed, t.frame = s.frame
  PROVE  Spends(s, t, 0, 0)
BY PaysNothing DEF Spends

LEMMA AllocateSpends ==
  ASSUME NEW s, Sound(s), NEW file \in Files, NEW size
  PROVE  Spends(s, Allocate(s, file, size), IF file = "gp" THEN 1 ELSE 0,
                                            IF file = "simd" THEN 1 ELSE 0)
<1> DEFINE t == Allocate(s, file, size)
           number == Min(s.free[file])
<1>1. DOMAIN s = Fields /\ s.failed \in BOOLEAN
  BY DEF Sound
<1>2. CASE s.free[file] = {}
  <2>1. t.failed = TRUE /\ t.frame = s.frame
    BY <1>1, <1>2 DEF Allocate, Fields
  <2> HIDE DEF t
  <2>2. Left(s, file) = 0
    BY <1>2, FS_EmptySet DEF Left
  <2> QED BY <2>1, <2>2 DEF Spends, Pays, t, Files
<1>3. CASE s.free[file] # {}
  <2>1. /\ t.failed = s.failed /\ t.frame = s.frame
        /\ t.free = [s.free EXCEPT ![file] = @ \ {number}]
    BY <1>1, <1>3 DEF Allocate, Fields
  <2>2. CASE s.failed = FALSE
    <3>1. DOMAIN s.free = Files /\ s.free[file] \subseteq Nat
      BY <2>2, PoolAssumption DEF Sound, Conserved
    <3>2. number \in s.free[file]
      BY <1>3, <3>1, LeastFree
    <3>3. /\ IsFiniteSet(s.free[file]) /\ Left(s, "gp") \in Nat /\ Left(s, "simd") \in Nat
          /\ Left(s, file) \in Nat
      BY <2>2, LeftIsNatural DEF Files
    <3> HIDE DEF t, number
    <3>4. t.free[file] = s.free[file] \ {number}
          /\ \A other \in Files : other # file => t.free[other] = s.free[other]
      BY <2>1, <3>1
    <3>5. Left(t, file) = Left(s, file) - 1
          /\ \A other \in Files : other # file => Left(t, other) = Left(s, other)
      BY <3>2, <3>3, <3>4, FS_RemoveElement DEF Left
    <3>6. Left(s, file) # 0
      BY <1>3, <3>3, FS_EmptySet DEF Left
    <3>7. CASE file = "gp"
      BY <2>1, <2>2, <3>3, <3>5, <3>6, <3>7 DEF Spends, Pays, t, Files
    <3>8. CASE file = "simd"
      BY <2>1, <2>2, <3>3, <3>5, <3>6, <3>8 DEF Spends, Pays, t, Files
    <3> QED BY <3>7, <3>8 DEF Files
  <2>3. CASE s.failed = TRUE
    <3> HIDE DEF t
    <3> QED BY <2>1, <2>3 DEF Spends, Pays, t
  <2> QED BY <1>1, <2>2, <2>3
<1> QED BY <1>2, <1>3

LEMMA AllocateValueSpends ==
  ASSUME NEW s, Sound(s), NEW use_float \in BOOLEAN, NEW size
  PROVE  Spends(s, AllocateValue(s, use_float, size), PriceGP(use_float), PriceSIMD(use_float))
<1>1. /\ Spends(s, Allocate(s, "simd", 8), 0, 1)
      /\ Spends(s, Allocate(s, "gp", size), 1, 0)
  BY AllocateSpends DEF Files
<1> QED BY <1>1 DEF AllocateValue, PriceGP, PriceSIMD

LEMMA AccessSpends ==
  ASSUME NEW s, Sound(s), NEW symbol, NEW is_dst \in BOOLEAN, NEW use_float \in BOOLEAN, NEW size
  PROVE  Spends(s, AccessSymbol(s, symbol, is_dst, use_float, size),
                1 + PriceGP(use_float), PriceSIMD(use_float))
<1> DEFINE with_address == Allocate(s, "gp", 8)
           address      == Last(with_address.temps)
           with_value   == AllocateValue(with_address, use_float, size)
           value        == Last(with_value.temps)
           page         == Instr("Adrp", <<address>>, FALSE, symbol)
           op           == IF is_dst THEN "GlobalStore" ELSE "GlobalLoad"
           access       == Instr(op, <<value, address>>, FALSE, symbol)
           with_page    == Before(with_value, page)
           accessed     == GlobalOffset(with_page, op, value, address, symbol)
           t            == [accessed EXCEPT !.operand = value]
<1>1. Sound(with_address) /\ Spends(s, with_address, 1, 0)
  BY AllocateSound, AllocateSpends DEF Files
<1> HIDE DEF with_address, address
<1>2. Sound(with_value) /\ Spends(with_address, with_value, PriceGP(use_float), PriceSIMD(use_float))
  BY <1>1, AllocateValueSound, AllocateValueSpends
<1> HIDE DEF with_value, value, page, access
<1>3. Spends(with_value, t, 0, 0)
  <2>1. accessed = IF is_dst THEN After(with_page, access) ELSE Before(with_page, access)
    BY DEF GlobalOffset, access
  <2>2. /\ t.free = with_value.free /\ t.failed = with_value.failed
        /\ t.frame = with_value.frame
    <3>1. DOMAIN with_value = Fields
      BY <1>2 DEF Sound
    <3> HIDE DEF accessed
    <3> QED BY <2>1, <3>1 DEF Before, After, Fields
  <2> HIDE DEF t
  <2> QED BY <1>2, <2>2, EmitSpends
<1>4. PriceGP(use_float) \in Nat /\ PriceSIMD(use_float) \in Nat
  BY DEF PriceGP, PriceSIMD
<1>5. Spends(s, with_value, 1 + PriceGP(use_float), 0 + PriceSIMD(use_float))
  BY <1>1, <1>2, <1>4, SpendsTogether
<1>6. Spends(s, t, 1 + PriceGP(use_float) + 0, 0 + PriceSIMD(use_float) + 0)
  <2> HIDE DEF t
  <2> QED BY <1>3, <1>4, <1>5, SpendsTogether
<1>7. t = AccessSymbol(s, symbol, is_dst, use_float, size)
  BY DEF AccessSymbol, with_address, address, with_value, value, page
<1> HIDE DEF t
<1>8. 1 + PriceGP(use_float) + 0 = 1 + PriceGP(use_float) /\ 0 + PriceSIMD(use_float) + 0 = PriceSIMD(use_float)
  BY <1>4
<1> QED BY <1>6, <1>7, <1>8

\* What bringing an offset into range costs.
LEMMA PricesAreNatural ==
  /\ \A offset : OffsetDemand(offset) \in Nat
  /\ \A use_float : PriceGP(use_float) \in Nat /\ PriceSIMD(use_float) \in Nat
BY DEF OffsetDemand, PriceGP, PriceSIMD

LEMMA LargeOffsetSpends ==
  ASSUME NEW s, Sound(s)
  PROVE  Spends(s, MaterializeLargeOffset(s), OffsetDemand(s.operand.offset), 0)
<1> DEFINE s1 == Allocate(s, "gp", 8)
           s2 == Allocate(s1, "gp", 8)
           t  == MaterializeLargeOffset(s)
<1>1. CASE CanEncodeImm9(s.operand.offset)
  <2>1. t = s
    BY <1>1 DEF MaterializeLargeOffset
  <2>2. Spends(s, s, 0, 0)
    BY EmitSpends
  <2> HIDE DEF t
  <2> QED BY <1>1, <2>1, <2>2 DEF OffsetDemand, t
<1>2. CASE ~CanEncodeImm9(s.operand.offset)
  <2>1. Sound(s1) /\ Spends(s, s1, 1, 0)
    BY AllocateSound, AllocateSpends DEF Files
  <2>2. Sound(s2) /\ Spends(s1, s2, 1, 0)
    <3> HIDE DEF s1
    <3> QED BY <2>1, AllocateSound, AllocateSpends DEF Files
  <2> DEFINE extended(code, o) == [s2 EXCEPT !.before = @ \o code, !.operand = o]
  <2>3. ASSUME NEW code, NEW o PROVE Spends(s2, extended(code, o), 0, 0)
    <3> HIDE DEF s2
    <3>1. /\ extended(code, o).free = s2.free /\ extended(code, o).failed = s2.failed
          /\ extended(code, o).frame = s2.frame
      BY <2>2 DEF Sound, Fields
    <3> HIDE DEF extended
    <3> QED BY <2>2, <3>1, EmitSpends
  <2>4. \E code, o : t = extended(code, o)
    BY <1>2 DEF MaterializeLargeOffset
  <2> HIDE DEF t, extended
  <2>5. Spends(s2, t, 0, 0)
    BY <2>3, <2>4
  <2> HIDE DEF s1, s2
  <2>6. Spends(s, s2, 1 + 1, 0 + 0)
    BY <2>1, <2>2, SpendsTogether
  <2>7. Spends(s, t, 1 + 1 + 0, 0 + 0 + 0)
    BY <2>5, <2>6, SpendsTogether
  <2> QED BY <1>2, <2>7 DEF OffsetDemand, t
<1> QED BY <1>1, <1>2

LEMMA MemorySpends ==
  ASSUME NEW s, Sound(s), NEW is_dst \in BOOLEAN, NEW use_float \in BOOLEAN
  PROVE  Spends(s, ResolveMemoryOperand(s, is_dst, use_float),
                OffsetDemand(s.operand.offset) + PriceGP(use_float), PriceSIMD(use_float))
<1> DEFINE near   == MaterializeLargeOffset(s)
           memory == near.operand
           loaded == AllocateValue(near, use_float, memory.size)
           reg    == Last(loaded.temps)
           store  == Instr("Str", <<reg, memory>>, FALSE, 0)
           load   == Instr("Ldr", <<reg, memory>>, FALSE, 0)
           moved  == IF is_dst THEN After(loaded, store) ELSE Before(loaded, load)
           t      == [moved EXCEPT !.operand = reg]
           far    == OffsetDemand(s.operand.offset)
<1>1. Sound(near) /\ Spends(s, near, far, 0)
  BY LargeOffsetSound, LargeOffsetSpends
<1>2. t = ResolveMemoryOperand(s, is_dst, use_float)
  BY DEF ResolveMemoryOperand
<1> HIDE DEF near, memory
<1>3. Sound(loaded) /\ Spends(near, loaded, PriceGP(use_float), PriceSIMD(use_float))
  BY <1>1, AllocateValueSound, AllocateValueSpends
<1> HIDE DEF loaded, reg, store, load
<1>4. Spends(loaded, t, 0, 0)
  <2>1. t.free = loaded.free /\ t.failed = loaded.failed /\ t.frame = loaded.frame
    <3>1. DOMAIN loaded = Fields
      BY <1>3 DEF Sound
    <3> QED BY <3>1 DEF Before, After, Fields
  <2> HIDE DEF t
  <2> QED BY <1>3, <2>1, EmitSpends
<1> HIDE DEF t, far
<1>5. far \in Nat /\ PriceGP(use_float) \in Nat /\ PriceSIMD(use_float) \in Nat
  BY PricesAreNatural DEF far
<1>6. Spends(s, loaded, far + PriceGP(use_float), 0 + PriceSIMD(use_float))
  BY <1>1, <1>3, <1>5, SpendsTogether
<1>7. Spends(s, t, far + PriceGP(use_float) + 0, 0 + PriceSIMD(use_float) + 0)
  BY <1>3, <1>4, <1>5, <1>6, SpendsTogether
<1>8. far + PriceGP(use_float) + 0 = far + PriceGP(use_float)
      /\ 0 + PriceSIMD(use_float) + 0 = PriceSIMD(use_float)
  BY <1>5
<1> QED BY <1>2, <1>7, <1>8 DEF far

LEMMA PseudoSpends ==
  ASSUME NEW s, Sound(s)
  PROVE  LET t == ResolvePseudo(s)
             p == s.operand
         IN  /\ Sound(t) /\ Pays(s, t, 0, 0)
             /\ t.frame = Place(s.frame, p.name, p.size)
             /\ t.operand.offset = LocalOffset(s.frame, p.name, p.size)
<1> DEFINE p == s.operand
           t == ResolvePseudo(s)
           offset == LocalOffset(s.frame, p.name, p.size)
<1>1. Sound(t) /\ DOMAIN s = Fields
  BY PseudoSound DEF Sound
<1>2. /\ t.failed = s.failed /\ t.free = s.free
      /\ t.frame = Place(s.frame, p.name, p.size)
      /\ t.operand = Memory(X29, offset, p.size)
  BY <1>1 DEF ResolvePseudo, Fields
<1> HIDE DEF t, offset
<1>3. t.operand.offset = offset
  BY <1>2 DEF Memory
<1> QED BY <1>1, <1>2, <1>3, PaysNothing DEF t, offset

LEMMA DataSpends ==
  ASSUME NEW s, Sound(s), NEW is_dst \in BOOLEAN, NEW use_float \in BOOLEAN
  PROVE  Spends(s, ResolveDataOperand(s, is_dst, use_float),
                1 + PriceGP(use_float), PriceSIMD(use_float))
BY AccessSpends DEF ResolveDataOperand

\* What fetching the value of o costs that has a name, in frame f.
PlacePrice(f, o) ==
  IF o.kind = "Pseudo" THEN OffsetDemand(LocalOffset(f, o.name, o.size)) + 1 ELSE 2

\* The frame once such an o has its slot.
WithSlot(f, o) == IF o.kind = "Pseudo" THEN Place(f, o.name, o.size) ELSE f

LEMMA PlaceSpends ==
  ASSUME NEW s, Sound(s), NEW is_dst \in BOOLEAN
  PROVE  LET t == IF s.operand.kind = "Pseudo"
                  THEN ResolveMemoryOperand(ResolvePseudo(s), is_dst, FALSE)
                  ELSE ResolveDataOperand(s, is_dst, FALSE)
         IN  /\ Sound(t) /\ Pays(s, t, PlacePrice(s.frame, s.operand), 0)
             /\ t.frame = WithSlot(s.frame, s.operand)
<1> DEFINE no     == FALSE
           placed == ResolvePseudo(s)
           loaded == ResolveMemoryOperand(placed, is_dst, no)
           data   == ResolveDataOperand(s, is_dst, no)
           t      == IF s.operand.kind = "Pseudo" THEN loaded ELSE data
           price  == OffsetDemand(LocalOffset(s.frame, s.operand.name, s.operand.size))
<1>0. no \in BOOLEAN /\ PriceGP(no) = 1 /\ PriceSIMD(no) = 0
  BY DEF PriceGP, PriceSIMD
<1>1. CASE s.operand.kind = "Pseudo"
  <2>1. /\ Sound(placed) /\ Pays(s, placed, 0, 0)
        /\ placed.frame = WithSlot(s.frame, s.operand)
        /\ OffsetDemand(placed.operand.offset) = price
    BY <1>1, PseudoSpends DEF WithSlot
  <2> HIDE DEF placed, no, price
  <2>2. Sound(loaded) /\ Spends(placed, loaded, price + 1, 0)
    BY <1>0, <2>1, MemorySound, MemorySpends
  <2>3. t = loaded
    BY <1>1
  <2> HIDE DEF t, loaded
  <2>4. price \in Nat
    BY PricesAreNatural DEF price
  <2>5. Pays(s, t, 0 + (price + 1), 0 + 0)
    BY <2>1, <2>2, <2>3, <2>4, PaysTogether DEF Spends
  <2>6. 0 + (price + 1) = PlacePrice(s.frame, s.operand)
    BY <1>1, <2>4 DEF PlacePrice, price
  <2>7. Sound(t) /\ Pays(s, t, PlacePrice(s.frame, s.operand), 0)
        /\ t.frame = WithSlot(s.frame, s.operand)
    BY <2>1, <2>2, <2>3, <2>5, <2>6 DEF Spends
  <2> QED BY <2>7 DEF t, loaded, placed, no
<1>2. CASE s.operand.kind # "Pseudo"
  <2> HIDE DEF no
  <2>1. Sound(data) /\ Spends(s, data, 1 + 1, 0)
    BY <1>0, DataSound, DataSpends
  <2>2. t = data
    BY <1>2
  <2> HIDE DEF t, data
  <2>3. Sound(t) /\ Pays(s, t, PlacePrice(s.frame, s.operand), 0)
        /\ t.frame = WithSlot(s.frame, s.operand)
    BY <1>2, <2>1, <2>2 DEF Spends, PlacePrice, WithSlot
  <2> QED BY <2>3 DEF t, data, loaded, placed, no
<1> QED BY <1>1, <1>2

\* A pointer costs as much as its value.
LEMMA IndirectSpends ==
  ASSUME NEW s, Sound(s)
  PROVE  LET t == ResolveIndirectMemory(s)
             p == s.operand.pointer
         IN  /\ Pays(s, t, PlacePrice(s.frame, p), 0)
             /\ t.frame = WithSlot(s.frame, p)
<1> DEFINE p       == s.operand.pointer
           no      == FALSE
           inner   == [s EXCEPT !.operand = p]
           pointer == IF inner.operand.kind = "Pseudo"
                      THEN ResolveMemoryOperand(ResolvePseudo(inner), no, FALSE)
                      ELSE ResolveDataOperand(inner, no, FALSE)
           t       == [pointer EXCEPT !.operand = Memory(pointer.operand, 0, s.operand.size)]
<1>1. t = ResolveIndirectMemory(s) /\ no \in BOOLEAN
  BY DEF ResolveIndirectMemory
<1>2. /\ Sound(inner) /\ inner.operand = p /\ inner.frame = s.frame
      /\ inner.free = s.free /\ inner.failed = s.failed
  BY OperandSound DEF Sound, Fields
<1> HIDE DEF inner, no
<1>3. /\ Sound(pointer) /\ Pays(inner, pointer, PlacePrice(s.frame, p), 0)
      /\ pointer.frame = WithSlot(s.frame, p)
  BY <1>1, <1>2, PlaceSpends
<1> HIDE DEF pointer
<1>4. t.free = pointer.free /\ t.failed = pointer.failed /\ t.frame = pointer.frame
  BY <1>3 DEF Sound, Fields
<1> HIDE DEF t, p
<1>5. Pays(s, t, PlacePrice(s.frame, p), 0) /\ t.frame = WithSlot(s.frame, p)
  BY <1>2, <1>3, <1>4 DEF Pays, Left
<1> QED BY <1>1, <1>5 DEF p

LEMMA ImmediateSpends ==
  ASSUME NEW s, Sound(s), NEW use_float \in BOOLEAN, NEW target
  PROVE  Spends(s, ResolveImmediate(s, use_float, target), 1, PriceSIMD(use_float))
<1> DEFINE v    == s.operand.value
           size == IF target >= s.operand.size THEN target ELSE s.operand.size
           s1   == Allocate(s, "gp", size)
           reg  == Last(s1.temps)
           load == Instr("LoadImm", <<reg>>, FALSE, v)
           int  == [Before(s1, load) EXCEPT !.operand = reg]
           constants == RegisterDouble(s.pool, v)
           symbol    == ConstantSymbol(DoubleName(constants, v))
           s2   == [s EXCEPT !.pool = constants]
           no   == FALSE
           yes  == TRUE
           float == AccessSymbol(s2, symbol, no, yes, 8)
           t    == ResolveImmediate(s, use_float, target)
<1>1. t = IF use_float THEN float ELSE int
  BY DEF ResolveImmediate, ResolveFloatImmediate
<1>2. no \in BOOLEAN /\ yes \in BOOLEAN /\ PriceGP(yes) = 0 /\ PriceSIMD(yes) = 1
  BY DEF PriceGP, PriceSIMD
<1>3. CASE use_float
  <2>1. s2.free = s.free /\ s2.failed = s.failed /\ s2.frame = s.frame /\ s2.temps = s.temps
        /\ DOMAIN s2 = Fields
    BY DEF Sound, Fields
  <2> HIDE DEF s2, no, yes
  <2>2. Sound(s2)
    BY <2>1, Unrelated
  <2>3. Spends(s2, float, 1 + 0, 1)
    BY <1>2, <2>2, AccessSpends
  <2>4. t = float
    BY <1>1, <1>3
  <2> HIDE DEF float, t
  <2>5. Spends(s, t, 1 + 0, 1)
    BY <2>1, <2>3, <2>4 DEF Spends, Pays, Left
  <2>6. 1 + 0 = 1 /\ PriceSIMD(use_float) = 1
    BY <1>3 DEF PriceSIMD
  <2> QED BY <2>5, <2>6 DEF t
<1>4. CASE ~use_float
  <2>1. Sound(s1) /\ Spends(s, s1, 1, 0)
    BY AllocateSound, AllocateSpends DEF Files
  <2> HIDE DEF s1, reg, load
  <2>2. int.free = s1.free /\ int.failed = s1.failed /\ int.frame = s1.frame
    BY <2>1 DEF Sound, Fields, Before
  <2>3. t = int
    BY <1>1, <1>4
  <2> HIDE DEF int, t
  <2>4. Spends(s, t, 1, 0)
    BY <2>1, <2>2, <2>3 DEF Spends, Pays, Left
  <2> QED BY <1>4, <2>4 DEF t, PriceSIMD
<1> QED BY <1>3, <1>4

LEMMA AddressSpends ==
  ASSUME NEW s, Sound(s), NEW dst, NEW src
  PROVE  LET t == ResolveAddress(s, dst, src)
         IN  /\ Pays(s, t, PlacePrice(s.frame, dst), 0)
             /\ FrameGrows(WithSlot(s.frame, dst), t.frame)
<1> DEFINE yes == TRUE
           s1 == [s EXCEPT !.operand = dst]
           s2 == IF s1.operand.kind = "Pseudo"
                 THEN ResolveMemoryOperand(ResolvePseudo(s1), yes, FALSE)
                 ELSE ResolveDataOperand(s1, yes, FALSE)
           near(i) == [s2 EXCEPT !.frame = Place(@, src.name, src.size), !.instr = i]
           data(page, i) == [Before(s2, page) EXCEPT !.instr = i]
           t  == ResolveAddress(s, dst, src)
<1>1. /\ Sound(s1) /\ s1.operand = dst /\ s1.frame = s.frame
      /\ s1.free = s.free /\ s1.failed = s.failed
  BY OperandSound DEF Sound, Fields
<1>2. \/ \E i : t = near(i)
      \/ \E page, i : t = data(page, i)
  <2>1. dst.kind = s1.operand.kind
    BY <1>1
  <2> HIDE DEF s1
  <2> QED BY <2>1 DEF ResolveAddress, s1
<1>3. yes \in BOOLEAN
  OBVIOUS
<1> HIDE DEF s1, yes
<1>4. /\ Sound(s2) /\ Pays(s1, s2, PlacePrice(s.frame, dst), 0)
      /\ s2.frame = WithSlot(s.frame, dst)
  BY <1>1, <1>3, PlaceSpends
<1> HIDE DEF s2
<1>5. DOMAIN s2 = Fields
  BY <1>4 DEF Sound
<1>6. ASSUME NEW i
      PROVE  /\ near(i).free = s2.free /\ near(i).failed = s2.failed
             /\ FrameGrows(s2.frame, near(i).frame)
  <2>1. /\ near(i).free = s2.free /\ near(i).failed = s2.failed
        /\ near(i).frame = Place(s2.frame, src.name, src.size)
    BY <1>5 DEF Fields
  <2> HIDE DEF near
  <2> QED BY <2>1, PlaceGrows
<1>7. ASSUME NEW page, NEW i
      PROVE  /\ data(page, i).free = s2.free /\ data(page, i).failed = s2.failed
             /\ FrameGrows(s2.frame, data(page, i).frame)
  <2>1. /\ data(page, i).free = s2.free /\ data(page, i).failed = s2.failed
        /\ data(page, i).frame = s2.frame
    BY <1>5 DEF Before, Fields
  <2> HIDE DEF data
  <2> QED BY <2>1, FrameStays
<1> HIDE DEF near, data, t
<1>8. t.free = s2.free /\ t.failed = s2.failed /\ FrameGrows(s2.frame, t.frame)
  BY <1>2, <1>6, <1>7
<1> QED BY <1>1, <1>4, <1>8 DEF Pays, Left, t

-----------------------------------------------------------------------------
(* What an instruction costs.                                              *)

Short(ops) == Len(ops) \in 0 .. 3

LEMMA ShortLists ==
  /\ \A A, B : \A ops \in A \X B : Short(ops)
  /\ \A A, B, C : \A ops \in A \X B \X C : Short(ops)
<1>1. ASSUME NEW A, NEW B, NEW ops \in A \X B PROVE Short(ops)
  <2>1. PICK a \in A, b \in B : ops = <<a, b>>
    BY Pairs
  <2> QED BY <2>1 DEF Short
<1>2. ASSUME NEW A, NEW B, NEW C, NEW ops \in A \X B \X C PROVE Short(ops)
  <2>1. PICK a \in A, b \in B, c \in C : ops = <<a, b, c>>
    OBVIOUS
  <2> QED BY <2>1 DEF Short
<1> QED BY <1>1, <1>2

LEMMA ShortShapes ==
  ASSUME NEW op, NEW f, NEW L, \A ops \in L : Short(ops), NEW i \in Shapes(op, f, L)
  PROVE  Short(i.operands)
<1>1. PICK ops \in L : i = Instr(op, ops, f, 0)
  BY DEF Shapes
<1>2. i.operands = ops
  BY <1>1 DEF Instr
<1> QED BY <1>2

LEMMA IntInstructionsShort ==
  ASSUME NEW size, NEW i \in IntInstructions(size)
  PROVE  Short(i.operands)
<1> DEFINE P == Places(size)
           V == Values(size)
           S1 == Shapes("Mov", FALSE, (P \X V) \cup ({W0(size)} \X V)
                                      \cup (P \X ({W0(size)} \cup StackParameters(size))))
           S2 == Shapes("Sub", FALSE, (P \X V \X (V \cup {W1(size)}))
                                      \cup ({W1(size)} \X (V \cup {W1(size)}) \X V))
           S3 == Shapes("Neg", FALSE, P \X V)
           S4 == Shapes("Compare", FALSE, V \X (V \cup {Zero}))
           S5 == Shapes("Ldr", FALSE, P \X Pointed(size))
           S6 == Shapes("Str", FALSE, V \X (Pointed(size) \cup StackArguments(size)))
           S7 == Shapes("IntToFloat", FALSE, Places(8) \X V)
           S8 == Shapes("FloatToInt", FALSE, P \X FloatValues)
<1>1. i \in S1 \cup S2 \cup S3 \cup S4 \cup S5 \cup S6 \cup S7 \cup S8
  BY DEF IntInstructions
<1>2. CASE i \in S1
  BY <1>2, ShortLists, ShortShapes
<1>3. CASE i \in S2
  BY <1>3, ShortLists, ShortShapes
<1>4. CASE i \in S3
  BY <1>4, ShortLists, ShortShapes
<1>5. CASE i \in S4
  BY <1>5, ShortLists, ShortShapes
<1>6. CASE i \in S5
  BY <1>6, ShortLists, ShortShapes
<1>7. CASE i \in S6
  BY <1>7, ShortLists, ShortShapes
<1>8. CASE i \in S7
  BY <1>8, ShortLists, ShortShapes
<1>9. CASE i \in S8
  BY <1>9, ShortLists, ShortShapes
<1> HIDE DEF S1, S2, S3, S4, S5, S6, S7, S8
<1> QED BY <1>1, <1>2, <1>3, <1>4, <1>5, <1>6, <1>7, <1>8, <1>9

LEMMA FloatInstructionsShort ==
  ASSUME NEW i \in FloatInstructions
  PROVE  Short(i.operands)
<1> DEFINE P == Places(8)
           V == FloatValues
           S1 == Shapes("Mov", TRUE, (P \X (V \cup {D0} \cup StackParameters(8))) \cup ({D0} \X V))
           S2 == Shapes("FSub", FALSE, P \X V \X V)
           S3 == Shapes("FNeg", FALSE, P \X V)
           S4 == Shapes("Compare", TRUE, V \X V)
           S5 == Shapes("Str", FALSE, V \X (Pointed(8) \cup StackArguments(8)))
<1>1. i \in S1 \cup S2 \cup S3 \cup S4 \cup S5
  BY DEF FloatInstructions
<1>2. CASE i \in S1
  BY <1>2, ShortLists, ShortShapes
<1>3. CASE i \in S2
  BY <1>3, ShortLists, ShortShapes
<1>4. CASE i \in S3
  BY <1>4, ShortLists, ShortShapes
<1>5. CASE i \in S4
  BY <1>5, ShortLists, ShortShapes
<1>6. CASE i \in S5
  BY <1>6, ShortLists, ShortShapes
<1> HIDE DEF S1, S2, S3, S4, S5
<1> QED BY <1>1, <1>2, <1>3, <1>4, <1>5, <1>6

\* No instruction has more than three operands.
LEMMA EveryInstructionShort ==
  ASSUME NEW i \in Instructions
  PROVE  Short(i.operands)
<1> DEFINE S1 == Shapes("CSet", FALSE, {<<p>> : p \in Places(4)})
           S2 == Shapes("Extend", FALSE, Places(8) \X Values(4))
           S3 == Shapes("Truncate", FALSE, Places(4) \X Values(8))
           S4 == Shapes("Address", FALSE, Places(8) \X (Places(4) \cup Places(8)))
<1>1. OtherInstructions = S1 \cup S2 \cup S3 \cup S4 \cup Adjustments \cup {NoInstr}
  BY Zenon DEF OtherInstructions, NoInstr
<1>2. CASE i \in S1
  <2>1. \A ops \in {<<p>> : p \in Places(4)} : Short(ops)
    BY DEF Short
  <2> QED BY <1>2, <2>1, ShortShapes
<1>3. CASE i \in S2
  BY <1>3, ShortLists, ShortShapes
<1>4. CASE i \in S3
  BY <1>4, ShortLists, ShortShapes
<1>5. CASE i \in S4
  BY <1>5, ShortLists, ShortShapes
<1>6. CASE i \in Adjustments
  <2>1. PICK op \in {"Add", "Sub"}, n \in StackSlots :
          i = Instr(op, <<SP, SP, Immediate(StackArgsSize(n), FALSE, 8)>>, FALSE, 0)
    BY <1>6, AdjustmentMoves, Zenon DEF Moves
  <2> QED BY <2>1 DEF Instr, Short
<1>8. CASE i \in NotsOfDoubles
  BY <1>8, ShortLists, ShortShapes DEF NotsOfDoubles
<1>7. CASE i = NoInstr
  BY <1>7 DEF NoInstr, Instr, Short
<1> HIDE DEF S1, S2, S3, S4
<1> QED BY <1>1, <1>2, <1>3, <1>4, <1>5, <1>6, <1>7, <1>8, IntInstructionsShort, FloatInstructionsShort
        DEF Instructions

Toll(f, i, k) == IF k <= Len(i.operands) THEN Cost(f, i, k) ELSE 0

\* With at most three operands the demand is a sum of three.
LEMMA DemandIs ==
  ASSUME NEW f, NEW i, Short(i.operands), \A k \in 1 .. Len(i.operands) : Cost(f, i, k) \in Nat
  PROVE  Demand(f, i) = Toll(f, i, 1) + Toll(f, i, 2) + Toll(f, i, 3)
<1> DEFINE n == Len(i.operands)
           c(k) == Cost(f, i, k)
           Rule(g) == g = [k \in 0 .. n |-> IF k = 0 THEN 0 ELSE g[k - 1] + Cost(f, i, k)]
           sum(k) == IF k = 0 THEN 0 ELSE IF k = 1 THEN c(1)
                     ELSE IF k = 2 THEN c(1) + c(2) ELSE c(1) + c(2) + c(3)
           h == [k \in 0 .. n |-> sum(k)]
<1>1. n \in 0 .. 3
  BY DEF Short
<1>2. \A k \in 1 .. n : c(k) \in Nat
  OBVIOUS
<1> HIDE DEF n, c
<1>3. Rule(h)
  <2>1. ASSUME NEW k \in 0 .. n PROVE sum(k) = IF k = 0 THEN 0 ELSE h[k - 1] + c(k)
    <3>1. k \in {0, 1, 2, 3}
      BY <1>1
    <3>2. k # 0 => k - 1 \in 0 .. n
      BY <1>1
    <3>3. k # 0 => h[k - 1] = sum(k - 1)
      BY <3>2
    <3>4. k = 1 => c(1) \in Nat
      BY <1>2
    <3> HIDE DEF h
    <3> QED BY <3>1, <3>3, <3>4
  <2> HIDE DEF sum
  <2>2. h = [k \in 0 .. n |-> IF k = 0 THEN 0 ELSE h[k - 1] + c(k)]
    BY <2>1
  <2> HIDE DEF h
  <2> QED BY <2>2 DEF c
<1>4. \E g : Rule(g)
  <2> HIDE DEF h, Rule
  <2> QED BY <1>3
<1>5. Demand(f, i) = (CHOOSE g : Rule(g))[n]
  BY DEF Demand, n
<1>6. PICK g : Rule(g) /\ Demand(f, i) = g[n]
  <2> HIDE DEF Rule
  <2> QED BY <1>4, <1>5
<1>7. /\ g[0] = 0
      /\ \A k \in 1 .. n : g[k] = g[k - 1] + c(k)
  BY <1>1, <1>6 DEF c
<1>8. /\ 1 <= n => g[1] = c(1) /\ c(1) \in Nat
      /\ 2 <= n => g[2] = c(1) + c(2) /\ c(2) \in Nat
      /\ 3 <= n => g[3] = c(1) + c(2) + c(3) /\ c(3) \in Nat
  <2>1. 1 <= n => g[1] = g[0] + c(1) /\ c(1) \in Nat
    <3>1. 1 <= n => 1 \in 1 .. n /\ 1 - 1 = 0
      BY <1>1
    <3> QED BY <1>2, <1>7, <3>1
  <2>2. 2 <= n => g[2] = g[1] + c(2) /\ c(2) \in Nat
    <3>1. 2 <= n => 2 \in 1 .. n /\ 2 - 1 = 1
      BY <1>1
    <3> QED BY <1>2, <1>7, <3>1
  <2>3. 3 <= n => g[3] = g[2] + c(3) /\ c(3) \in Nat
    <3>1. 3 <= n => 3 \in 1 .. n /\ 3 - 1 = 2
      BY <1>1
    <3> QED BY <1>2, <1>7, <3>1
  <2> HIDE DEF Rule
  <2> QED BY <1>1, <1>7, <2>1, <2>2, <2>3
<1>9. \A k : Toll(f, i, k) = IF k <= n THEN c(k) ELSE 0
  BY DEF Toll, n, c
<1>10. n \in {0, 1, 2, 3}
  BY <1>1
<1> HIDE DEF Rule
<1>11. CASE n = 0
  BY <1>6, <1>7, <1>9, <1>11
<1>12. CASE n = 1
  BY <1>6, <1>8, <1>9, <1>12
<1>13. CASE n = 2
  BY <1>6, <1>8, <1>9, <1>13
<1>14. CASE n = 3
  BY <1>6, <1>8, <1>9, <1>14
<1> QED BY <1>10, <1>11, <1>12, <1>13, <1>14

\* How many SIMD registers operand k of i costs.
FloatCost(i, k) ==
  IF i.operands[k].kind \in {"Pseudo", "Data", "Memory", "Immediate"} /\ Floats(i, k)
  THEN 1 ELSE 0

\* The address of a load or store.
IsTarget(i, k) == IsLoadStore(i) /\ k = Len(i.operands)

\* What its operands cost, by their kinds.
LEMMA CostIs ==
  ASSUME NEW f, NEW i, Emitted(i), NEW k \in DOMAIN i.operands
  PROVE  LET o == i.operands[k]
             u == NeedsFloatRegister(i, k)
         IN  /\ o.kind = "Pseudo" =>
                  /\ Cost(f, i, k) = OffsetDemand(LocalOffset(f, o.name, o.size)) + PriceGP(u)
                  /\ FloatCost(i, k) = PriceSIMD(u)
             /\ o.kind = "Data" =>
                  Cost(f, i, k) = 1 + PriceGP(u) /\ FloatCost(i, k) = PriceSIMD(u)
             /\ o.kind = "Indirect" =>
                  Cost(f, i, k) = PlacePrice(f, o.pointer) /\ FloatCost(i, k) = 0
             /\ o.kind = "Memory" =>
                  IF IsTarget(i, k) THEN Cost(f, i, k) = OffsetDemand(o.offset) /\ FloatCost(i, k) = 0
                  ELSE /\ Cost(f, i, k) = OffsetDemand(o.offset) + PriceGP(u)
                       /\ FloatCost(i, k) = PriceSIMD(u)
             /\ o.kind = "Immediate" =>
                  IF MovesStackPointer(i) THEN Cost(f, i, k) = 0 /\ FloatCost(i, k) = 0
                  ELSE Cost(f, i, k) = 1 /\ FloatCost(i, k) = IF Floats(i, k) THEN 1 ELSE 0
             /\ o.kind = "Register" => Cost(f, i, k) = 0 /\ FloatCost(i, k) = 0
<1> DEFINE o == i.operands[k]
           u == NeedsFloatRegister(i, k)
<1>1. /\ OperandEmitted(i, k) /\ i.op # "Address"
      /\ i.op \in {"Ldr", "Str"} => Len(i.operands) = 2
  BY DEF Emitted
<1>2. u \in BOOLEAN
  BY DEF NeedsFloatRegister, Emitted
<1>3. IsLoadStore(i) => ~u /\ Len(i.operands) = 2
  BY <1>1 DEF IsLoadStore, NeedsFloatRegister
<1>4. ASSUME MovesStackPointer(i)
      PROVE  o.kind \in {"Register", "Immediate"} /\ ~Floats(i, k)
  <2>1. PICK n : i = Moves(i.op, n)
    BY <1>4 DEF Emitted
  <2>2. o \in {SP, Immediate(n, FALSE, 8)}
    BY <2>1, MovesFields
  <2>3. o.kind = "Register" \/ (o.kind = "Immediate" /\ o.is_float = FALSE)
    BY <2>2 DEF SP, Register, Immediate
  <2>4. o.kind = "Immediate" => ~(o.kind = "Register")
    OBVIOUS
  <2>5. ~u
    BY <1>4 DEF NeedsFloatRegister, MovesStackPointer
  <2> HIDE DEF u
  <2> QED BY <2>3, <2>5 DEF Floats, u
<1> DEFINE stays == \/ i.op \in {"Add", "Sub"} /\ i.operands[1] = SP
                    \/ i.op = "Address" /\ k = 2
           target == IsLoadStore(i) /\ k = 2 /\ o.kind = "Memory"
           no == FALSE
<1>5. /\ stays <=> MovesStackPointer(i)
      /\ target <=> IsTarget(i, k) /\ o.kind = "Memory"
  BY <1>1, <1>3 DEF MovesStackPointer, IsTarget
<1>6. Cost(f, i, k) = IF stays THEN 0
                      ELSE IF target THEN OffsetDemand(o.offset)
                      ELSE IF o.kind = "Indirect" THEN GPDemand(f, o.pointer, no)
                      ELSE GPDemand(f, o, u)
  BY DEF Cost
<1>7. o.kind # "Immediate" => (Floats(i, k) <=> u)
  BY DEF Floats
<1>8. o.kind = "Indirect" => o.pointer.kind \in {"Pseudo", "Data"}
  BY <1>1 DEF OperandEmitted
<1>9. \A p : p.kind \in {"Pseudo", "Data"} => GPDemand(f, p, no) = PlacePrice(f, p)
  BY DEF GPDemand, PlacePrice, OffsetDemand
<1> HIDE DEF stays, target, no
<1>10. CASE o.kind = "Pseudo"
  <2>1. ~stays /\ ~target
    BY <1>4, <1>5, <1>10
  <2>2. GPDemand(f, o, u) = OffsetDemand(LocalOffset(f, o.name, o.size)) + PriceGP(u)
    <3> HIDE DEF o, u
    <3> QED BY <1>2, <1>10 DEF GPDemand, OffsetDemand, PriceGP
  <2>3. Cost(f, i, k) = OffsetDemand(LocalOffset(f, o.name, o.size)) + PriceGP(u)
    BY <1>6, <1>10, <2>1, <2>2
  <2>4. FloatCost(i, k) = PriceSIMD(u)
    <3> HIDE DEF u
    <3> QED BY <1>2, <1>7, <1>10 DEF FloatCost, PriceSIMD
  <2> HIDE DEF u
  <2> QED BY <1>10, <2>3, <2>4 DEF u
<1>11. CASE o.kind = "Data"
  <2>1. ~stays /\ ~target
    BY <1>4, <1>5, <1>11
  <2>2. GPDemand(f, o, u) = 1 + PriceGP(u)
    <3> HIDE DEF o, u
    <3> QED BY <1>2, <1>11 DEF GPDemand, PriceGP
  <2>3. Cost(f, i, k) = 1 + PriceGP(u)
    BY <1>6, <1>11, <2>1, <2>2
  <2>4. FloatCost(i, k) = PriceSIMD(u)
    <3> HIDE DEF u
    <3> QED BY <1>2, <1>7, <1>11 DEF FloatCost, PriceSIMD
  <2> HIDE DEF u
  <2> QED BY <1>11, <2>3, <2>4 DEF u
<1>12. CASE o.kind = "Indirect"
  <2>1. ~stays /\ ~target
    BY <1>4, <1>5, <1>12
  <2>2. GPDemand(f, o.pointer, no) = PlacePrice(f, o.pointer)
    BY <1>8, <1>9, <1>12
  <2>5. Cost(f, i, k) = PlacePrice(f, o.pointer)
    BY <1>6, <1>12, <2>1, <2>2
  <2>3. FloatCost(i, k) = 0
    BY <1>12 DEF FloatCost
  <2> HIDE DEF u
  <2> QED BY <1>12, <2>3, <2>5 DEF u
<1>13. CASE o.kind = "Memory"
  <2>1. ~stays /\ (target <=> IsTarget(i, k))
    BY <1>4, <1>5, <1>13
  <2>2. GPDemand(f, o, u) = OffsetDemand(o.offset) + PriceGP(u)
    <3> HIDE DEF o, u
    <3> QED BY <1>2, <1>13 DEF GPDemand, PriceGP, OffsetDemand
  <2>3. Cost(f, i, k) = IF IsTarget(i, k) THEN OffsetDemand(o.offset)
                        ELSE OffsetDemand(o.offset) + PriceGP(u)
    BY <1>6, <1>13, <2>1, <2>2
  <2>4. FloatCost(i, k) = PriceSIMD(u)
    <3> HIDE DEF u
    <3> QED BY <1>2, <1>7, <1>13 DEF FloatCost, PriceSIMD
  <2>5. IsTarget(i, k) => PriceSIMD(u) = 0
    BY <1>3 DEF IsTarget, PriceSIMD
  <2> HIDE DEF u
  <2> QED BY <1>13, <2>3, <2>4, <2>5 DEF u
<1>14. CASE o.kind = "Immediate"
  <2>1. (stays <=> MovesStackPointer(i)) /\ ~target
    BY <1>5, <1>14
  <2>2. GPDemand(f, o, u) = 1
    <3> HIDE DEF o, u
    <3> QED BY <1>14 DEF GPDemand
  <2>3. Cost(f, i, k) = IF MovesStackPointer(i) THEN 0 ELSE 1
    BY <1>6, <1>14, <2>1, <2>2
  <2>4. FloatCost(i, k) = IF Floats(i, k) THEN 1 ELSE 0
    BY <1>14 DEF FloatCost
  <2> HIDE DEF u
  <2> QED BY <1>4, <1>14, <2>3, <2>4 DEF u
<1>15. CASE o.kind = "Register"
  <2>1. GPDemand(f, o, u) = 0
    <3> HIDE DEF o, u
    <3> QED BY <1>15 DEF GPDemand
  <2>4. ~target
    BY <1>5, <1>15
  <2>2. Cost(f, i, k) = 0
    BY <1>6, <1>15, <2>1, <2>4
  <2>3. FloatCost(i, k) = 0
    BY <1>15 DEF FloatCost
  <2> HIDE DEF u
  <2> QED BY <1>15, <2>2, <2>3 DEF u
<1>16. o.kind \in {"Pseudo", "Data", "Indirect", "Memory", "Immediate", "Register"}
  BY <1>1 DEF OperandEmitted
<1> QED BY <1>10, <1>11, <1>12, <1>13, <1>14, <1>15, <1>16

LEMMA CostIsNatural ==
  ASSUME NEW f, NEW i, Emitted(i), NEW k \in DOMAIN i.operands
  PROVE  Cost(f, i, k) \in Nat /\ FloatCost(i, k) \in {0, 1}
<1>1. i.operands[k].kind \in {"Pseudo", "Data", "Indirect", "Memory", "Immediate", "Register"}
  BY DEF Emitted, OperandEmitted
<1>2. \A p : PlacePrice(f, p) \in Nat
  BY DEF PlacePrice, OffsetDemand
<1>3. \A offset, u : OffsetDemand(offset) + PriceGP(u) \in Nat /\ 1 + PriceGP(u) \in Nat
                     /\ OffsetDemand(offset) \in Nat
  BY PricesAreNatural DEF OffsetDemand
<1>4. Cost(f, i, k) \in Nat
  BY <1>1, <1>2, <1>3, CostIs
<1> QED BY <1>4 DEF FloatCost

\* The slot that an operand may need is there.
Placed(f, o)  == o.kind = "Pseudo" => o.name \in DOMAIN f.offsets
Settled(f, o) == Placed(f, o) /\ (o.kind = "Indirect" => Placed(f, o.pointer))

\* From then on its price stays the same.
LEMMA CostStays ==
  ASSUME NEW f, NEW g, FrameGrows(f, g), NEW o, Placed(f, o), o.kind = "Pseudo"
  PROVE  Placed(g, o) /\ LocalOffset(g, o.name, o.size) = LocalOffset(f, o.name, o.size)
<1>1. o.name \in DOMAIN f.offsets /\ o.name \in DOMAIN g.offsets
      /\ g.offsets[o.name] = f.offsets[o.name]
  BY DEF Placed, FrameGrows
<1>2. Place(f, o.name, o.size) = f /\ Place(g, o.name, o.size) = g
  BY <1>1 DEF Place
<1> QED BY <1>1, <1>2 DEF Placed, LocalOffset

LEMMA SameDemand ==
  ASSUME NEW f, NEW g, NEW p, NEW u,
         p.kind = "Pseudo" => LocalOffset(g, p.name, p.size) = LocalOffset(f, p.name, p.size)
  PROVE  GPDemand(g, p, u) = GPDemand(f, p, u)
BY DEF GPDemand

LEMMA SettledStays ==
  ASSUME NEW f, NEW g, FrameGrows(f, g), NEW i, NEW k, Settled(f, i.operands[k])
  PROVE  Settled(g, i.operands[k]) /\ Cost(g, i, k) = Cost(f, i, k)
<1> DEFINE o == i.operands[k]
<1>1. Placed(g, o) /\ (o.kind = "Pseudo" =>
                         LocalOffset(g, o.name, o.size) = LocalOffset(f, o.name, o.size))
  BY CostStays DEF Settled, Placed
<1>2. o.kind = "Indirect" =>
        LET p == o.pointer
        IN  Placed(g, p) /\ (p.kind = "Pseudo" =>
                               LocalOffset(g, p.name, p.size) = LocalOffset(f, p.name, p.size))
  BY CostStays DEF Settled, Placed
<1>3. GPDemand(g, o, NeedsFloatRegister(i, k)) = GPDemand(f, o, NeedsFloatRegister(i, k))
  BY <1>1, SameDemand
<1>5. ASSUME o.kind = "Indirect"
      PROVE  GPDemand(g, o.pointer, FALSE) = GPDemand(f, o.pointer, FALSE)
  <2> DEFINE p == o.pointer
  <2>1. p.kind = "Pseudo" => LocalOffset(g, p.name, p.size) = LocalOffset(f, p.name, p.size)
    BY <1>2, <1>5
  <2> HIDE DEF p
  <2>2. GPDemand(g, p, FALSE) = GPDemand(f, p, FALSE)
    BY <2>1 DEF GPDemand
  <2> QED BY <2>2 DEF p
<1>4. Cost(g, i, k) = Cost(f, i, k)
  BY <1>3, <1>5 DEF Cost
<1> QED BY <1>1, <1>2, <1>4 DEF Settled

\* The registers held are those that are not left.
LEMMA HeldAreTheRest ==
  ASSUME NEW fr, NEW held, Conserved(fr, held), NEW file \in Files
  PROVE  LET count == Cardinality({i \in DOMAIN held : held[i].file = file})
         IN  count \in Nat /\ count + Cardinality(fr[file]) = Cardinality(PoolOf(file))
<1> DEFINE I == {i \in DOMAIN held : held[i].file = file}
           N == NumbersIn(held, file)
<1>1. /\ fr[file] \cap N = {} /\ fr[file] \cup N = PoolOf(file)
      /\ \A i, j \in I : i # j => held[i].number # held[j].number
  BY DEF Conserved, PoolOf
<1>2. /\ IsFiniteSet(fr[file]) /\ IsFiniteSet(N)
      /\ Cardinality(fr[file]) \in Nat /\ Cardinality(N) \in Nat
  <2> HIDE DEF N
  <2>1. fr[file] \in SUBSET PoolOf(file) /\ N \in SUBSET PoolOf(file)
    BY <1>1
  <2> QED BY <2>1, PoolsAreFinite
<1>3. IsFiniteSet(I) /\ Cardinality(I) = Cardinality(N)
  <2> DEFINE b == [n \in N |-> CHOOSE i \in I : held[i].number = n]
  <2>1. \A n \in N : \E i \in I : held[i].number = n
    BY DEF NumbersIn
  <2>2. \A n \in N : b[n] \in I /\ held[b[n]].number = n
    BY <2>1
  <2>3. \A i \in I : held[i].number \in N
    BY DEF NumbersIn
  <2> HIDE DEF N, I, b
  <2>4. \A i \in I : b[held[i].number] = i
    BY <1>1, <2>2, <2>3
  <2>5. b \in [N -> I]
    BY <2>2 DEF b
  <2>6. b \in Bijection(N, I)
    <3>1. b \in Injection(N, I)
      BY <2>2, <2>5 DEF Injection, IsInjective
    <3>2. b \in Surjection(N, I)
      BY <2>3, <2>4, <2>5 DEF Surjection
    <3> QED BY <3>1, <3>2 DEF Bijection
  <2>7. ExistsBijection(N, I)
    BY <2>6 DEF ExistsBijection
  <2> QED BY <1>2, <2>7, FS_Bijection
<1>4. Cardinality(PoolOf(file)) = Cardinality(fr[file]) + Cardinality(N) - 0
  <2> HIDE DEF N
  <2> QED BY <1>1, <1>2, FS_Union, FS_EmptySet
<1> HIDE DEF N, I
<1> QED BY <1>2, <1>3, <1>4 DEF I

-----------------------------------------------------------------------------
(* What has been paid for when loop `loop` comes to operand n.             *)

Price(f, i, k, file) == IF file = "gp" THEN Cost(f, i, k) ELSE FloatCost(i, k)

\* The first loop pays for data and pointers, the second for all the rest.
PaidFirst(i, k) == i.operands[k].kind \in {"Data", "Indirect"}

Due(f, i, k, loop, file) ==
  IF loop = "operands" <=> PaidFirst(i, k) THEN Price(f, i, k, file) ELSE 0

Paid(f, i, n, loop, k, file) ==
  IF /\ k \in DOMAIN i.operands
     /\ IF PaidFirst(i, k) THEN loop = "registers" \/ k < n
                           ELSE loop = "registers" /\ k < n
  THEN Price(f, i, k, file) ELSE 0

Bill(f, i, n, loop, file) ==
  Paid(f, i, n, loop, 1, file) + Paid(f, i, n, loop, 2, file) + Paid(f, i, n, loop, 3, file)

LEMMA ShortDomain ==
  ASSUME NEW i, Emitted(i), Short(i.operands)
  PROVE  /\ DOMAIN i.operands = 1 .. Len(i.operands) /\ Len(i.operands) \in 0 .. 3
         /\ DOMAIN i.operands \subseteq {1, 2, 3}
BY DEF Emitted, Short

LEMMA PaidIsNatural ==
  ASSUME NEW f, NEW i, Emitted(i), NEW n, NEW loop, NEW k, NEW file \in Files
  PROVE  /\ Paid(f, i, n, loop, k, file) \in Nat
         /\ file = "simd" => Paid(f, i, n, loop, k, file) \in {0, 1}
BY CostIsNatural DEF Paid, Price, Files

\* Never more than the demand, and in the end just that.
LEMMA BillBounds ==
  ASSUME NEW f, NEW i, Emitted(i), Short(i.operands), NEW n, NEW loop
  PROVE  /\ Bill(f, i, n, loop, "gp") \in Nat /\ Bill(f, i, n, loop, "simd") \in 0 .. 3
         /\ Bill(f, i, n, loop, "gp") <= Demand(f, i) /\ Demand(f, i) \in Nat
         /\ loop = "registers" /\ (\A k \in DOMAIN i.operands : k < n) =>
              Bill(f, i, n, loop, "gp") = Demand(f, i)
<1> DEFINE paid(k)  == Paid(f, i, n, loop, k, "gp")
           float(k) == Paid(f, i, n, loop, k, "simd")
           toll(k)  == Toll(f, i, k)
<1>1. /\ DOMAIN i.operands = 1 .. Len(i.operands) /\ Len(i.operands) \in 0 .. 3
      /\ DOMAIN i.operands \subseteq {1, 2, 3}
  BY ShortDomain
<1>2. \A k \in 1 .. Len(i.operands) : Cost(f, i, k) \in Nat
  BY <1>1, CostIsNatural
<1>3. Demand(f, i) = toll(1) + toll(2) + toll(3)
  BY <1>2, DemandIs
<1>4. \A k : paid(k) \in Nat /\ float(k) \in {0, 1}
  BY PaidIsNatural DEF Files
<1>5. \A k \in {1, 2, 3} : k \in DOMAIN i.operands <=> k <= Len(i.operands)
  BY <1>1
<1>6. \A k \in {1, 2, 3} : toll(k) = IF k \in DOMAIN i.operands THEN Cost(f, i, k) ELSE 0
  BY <1>5 DEF Toll
<1>7. \A k \in {1, 2, 3} : toll(k) \in Nat /\ (paid(k) = toll(k) \/ paid(k) = 0)
  BY <1>1, <1>2, <1>6 DEF Paid, Price
<1>8. ASSUME loop = "registers", \A k \in DOMAIN i.operands : k < n
      PROVE  \A k \in {1, 2, 3} : paid(k) = toll(k)
  BY <1>6, <1>8 DEF Paid, Price
<1>9. /\ Bill(f, i, n, loop, "gp") = paid(1) + paid(2) + paid(3)
      /\ Bill(f, i, n, loop, "simd") = float(1) + float(2) + float(3)
  BY DEF Bill
<1> HIDE DEF paid, float, toll
<1>10. /\ paid(1) \in Nat /\ paid(2) \in Nat /\ paid(3) \in Nat
       /\ float(1) \in {0, 1} /\ float(2) \in {0, 1} /\ float(3) \in {0, 1}
  BY <1>4
<1>11. /\ toll(1) \in Nat /\ toll(2) \in Nat /\ toll(3) \in Nat
       /\ paid(1) <= toll(1) /\ paid(2) <= toll(2) /\ paid(3) <= toll(3)
  BY <1>7, <1>10
<1>12. loop = "registers" /\ (\A k \in DOMAIN i.operands : k < n) =>
         paid(1) = toll(1) /\ paid(2) = toll(2) /\ paid(3) = toll(3)
  BY <1>8
<1> QED BY <1>3, <1>9, <1>10, <1>11, <1>12

\* One more operand.
LEMMA BillNext ==
  ASSUME NEW f, NEW g, NEW i, Emitted(i), Short(i.operands), NEW n \in DOMAIN i.operands,
         NEW loop \in {"operands", "registers"}, NEW file \in Files,
         \A k \in DOMAIN i.operands : loop = "registers" \/ k <= n => Cost(g, i, k) = Cost(f, i, k)
  PROVE  /\ Bill(g, i, n + 1, loop, file) = Bill(f, i, n, loop, file) + Due(f, i, n, loop, file)
         /\ Due(f, i, n, loop, file) \in Nat
<1> DEFINE old(k) == Paid(f, i, n, loop, k, file)
           new(k) == Paid(g, i, n + 1, loop, k, file)
           step   == Due(f, i, n, loop, file)
<1>1. n \in {1, 2, 3} /\ DOMAIN i.operands \subseteq {1, 2, 3}
  BY ShortDomain
<1>2. \A k : old(k) \in Nat
  BY PaidIsNatural
<1>3. \A k \in DOMAIN i.operands : loop = "registers" \/ k <= n =>
        Price(g, i, k, file) = Price(f, i, k, file)
  BY DEF Price
<1>4. \A k \in {1, 2, 3} : /\ k <= n <=> k < n + 1
                           /\ k < n => k <= n
                           /\ k <= n <=> k < n \/ k = n
                           /\ k = n => ~(k < n)
  BY <1>1
<1>5. \A k \in {1, 2, 3} : k # n => new(k) = old(k)
  BY <1>3, <1>4 DEF Paid
<1>6. new(n) = old(n) + step /\ step \in Nat
  <2>1. Price(f, i, n, file) \in Nat
    BY CostIsNatural DEF Price, Files
  <2>2. ~(n < n) /\ n < n + 1 /\ n <= n
    BY <1>1
  <2>3. CASE loop = "operands"
    <3>1. loop # "registers"
      BY <2>3
    <3>2. PaidFirst(i, n) => /\ old(n) = 0 /\ new(n) = Price(f, i, n, file)
                             /\ step = Price(f, i, n, file)
      BY <1>3, <2>2, <2>3, <3>1 DEF Paid, Due
    <3>3. ~PaidFirst(i, n) => old(n) = 0 /\ new(n) = 0 /\ step = 0
      BY <2>2, <2>3, <3>1 DEF Paid, Due
    <3> HIDE DEF old, new, step
    <3> QED BY <2>1, <3>2, <3>3
  <2>4. CASE loop = "registers"
    <3>1. loop # "operands"
      BY <2>4
    <3>2. PaidFirst(i, n) => /\ old(n) = Price(f, i, n, file)
                             /\ new(n) = Price(f, i, n, file) /\ step = 0
      BY <1>3, <2>2, <2>4, <3>1 DEF Paid, Due
    <3>3. ~PaidFirst(i, n) => /\ old(n) = 0 /\ new(n) = Price(f, i, n, file)
                              /\ step = Price(f, i, n, file)
      BY <1>3, <2>2, <2>4, <3>1 DEF Paid, Due
    <3> HIDE DEF old, new, step
    <3> QED BY <2>1, <3>2, <3>3
  <2> QED BY <2>3, <2>4
<1>7. /\ Bill(f, i, n, loop, file) = old(1) + old(2) + old(3)
      /\ Bill(g, i, n + 1, loop, file) = new(1) + new(2) + new(3)
  BY DEF Bill
<1> HIDE DEF old, new, step
<1>8. old(1) \in Nat /\ old(2) \in Nat /\ old(3) \in Nat
  BY <1>2
<1>9. CASE n = 1
  <2>1. new(1) = old(1) + step /\ new(2) = old(2) /\ new(3) = old(3)
    BY <1>5, <1>6, <1>9
  <2> QED BY <1>6, <1>7, <1>8, <2>1 DEF step
<1>10. CASE n = 2
  <2>1. new(1) = old(1) /\ new(2) = old(2) + step /\ new(3) = old(3)
    BY <1>5, <1>6, <1>10
  <2> QED BY <1>6, <1>7, <1>8, <2>1 DEF step
<1>11. CASE n = 3
  <2>1. new(1) = old(1) /\ new(2) = old(2) /\ new(3) = old(3) + step
    BY <1>5, <1>6, <1>11
  <2> QED BY <1>6, <1>7, <1>8, <2>1 DEF step
<1> QED BY <1>1, <1>9, <1>10, <1>11

LEMMA BillStarts ==
  ASSUME NEW f, NEW i, Emitted(i), NEW file
  PROVE  Bill(f, i, 1, "operands", file) = 0
<1>1. \A k \in DOMAIN i.operands : ~(k < 1)
  BY DEF Emitted
<1>2. \A k : Paid(f, i, 1, "operands", k, file) = 0
  BY <1>1 DEF Paid
<1> QED BY <1>2 DEF Bill

LEMMA BillTurns ==
  ASSUME NEW f, NEW i, Emitted(i), NEW file, NEW n, \A k \in DOMAIN i.operands : k < n
  PROVE  Bill(f, i, 1, "registers", file) = Bill(f, i, n, "operands", file)
<1>1. \A k \in DOMAIN i.operands : ~(k < 1)
  BY DEF Emitted
<1>2. \A k : Paid(f, i, 1, "registers", k, file) = Paid(f, i, n, "operands", k, file)
  BY <1>1 DEF Paid
<1> QED BY <1>2 DEF Bill

\* The object whose slot operand o may need.
Named(o) == IF o.kind = "Indirect" THEN o.pointer ELSE o

LEMMA OnceItHasASlot ==
  ASSUME NEW f, NEW g, NEW i, NEW k, FrameGrows(WithSlot(f, Named(i.operands[k])), g)
  PROVE  LET o == i.operands[k]
         IN  /\ Settled(g, o) /\ Cost(g, i, k) = Cost(f, i, k)
             /\ o.kind = "Pseudo" => LocalOffset(g, o.name, o.size) = LocalOffset(f, o.name, o.size)
<1> DEFINE o == i.operands[k]
           p == Named(o)
<1>1. p.kind = "Pseudo" => LocalOffset(g, p.name, p.size) = LocalOffset(f, p.name, p.size)
  BY SlotStays DEF WithSlot
<1>2. Placed(g, p)
  BY PlaceGrows DEF WithSlot, Placed, FrameGrows
<1>3. \A u : GPDemand(g, p, u) = GPDemand(f, p, u)
  BY <1>1, SameDemand
<1>4. Cost(g, i, k) = Cost(f, i, k)
  BY <1>3 DEF Cost, Named
<1>5. Settled(g, o)
  BY <1>2 DEF Settled, Placed, Named
<1>6. o.kind = "Pseudo" => p = o
  BY DEF Named
<1> HIDE DEF p, o
<1> QED BY <1>1, <1>4, <1>5, <1>6 DEF o

\* The first loop pays what is due.
LEMMA FirstLoopPays ==
  ASSUME NEW s, Sound(s), NEW i, Emitted(i), NEW k \in DOMAIN i.operands,
         s.operand = i.operands[k], NEW is_dst \in BOOLEAN,
         NEW use_float, use_float = NeedsFloatRegister(i, k)
  PROVE  LET t == IF s.operand.kind = "Pseudo" THEN ResolvePseudo(s)
                  ELSE IF s.operand.kind = "Data" THEN ResolveDataOperand(s, is_dst, use_float)
                  ELSE IF s.operand.kind = "Indirect" THEN ResolveIndirectMemory(s) ELSE s
             o == s.operand
         IN  /\ Pays(s, t, Due(s.frame, i, k, "operands", "gp"), Due(s.frame, i, k, "operands", "simd"))
             /\ t.frame = WithSlot(s.frame, Named(o))
             /\ o.kind = "Pseudo" => t.operand.offset = LocalOffset(s.frame, o.name, o.size)
<1> DEFINE o       == s.operand
           placed  == ResolvePseudo(s)
           fetched == ResolveDataOperand(s, is_dst, use_float)
           pointed == ResolveIndirectMemory(s)
           t == IF s.operand.kind = "Pseudo" THEN placed
                ELSE IF s.operand.kind = "Data" THEN fetched
                ELSE IF s.operand.kind = "Indirect" THEN pointed ELSE s
           gp   == Due(s.frame, i, k, "operands", "gp")
           simd == Due(s.frame, i, k, "operands", "simd")
<1>1. /\ gp   = IF o.kind \in {"Data", "Indirect"} THEN Cost(s.frame, i, k) ELSE 0
      /\ simd = IF o.kind \in {"Data", "Indirect"} THEN FloatCost(i, k) ELSE 0
  BY DEF Due, PaidFirst, Price
<1>2. use_float \in BOOLEAN
  BY DEF NeedsFloatRegister, Emitted
<1> HIDE DEF gp, simd
<1>3. CASE o.kind = "Pseudo"
  <2>1. /\ Pays(s, placed, 0, 0)
        /\ placed.frame = Place(s.frame, o.name, o.size)
        /\ placed.operand.offset = LocalOffset(s.frame, o.name, o.size)
    BY PseudoSpends
  <2>2. t = placed /\ gp = 0 /\ simd = 0
    BY <1>1, <1>3
  <2>3. WithSlot(s.frame, Named(o)) = Place(s.frame, o.name, o.size)
    BY <1>3 DEF WithSlot, Named
  <2> HIDE DEF t, placed
  <2> QED BY <2>1, <2>2, <2>3 DEF t, placed, fetched, pointed, gp, simd
<1>4. CASE o.kind = "Data"
  <2>1. Spends(s, fetched, 1 + PriceGP(use_float), PriceSIMD(use_float))
    BY <1>2, DataSpends
  <2>2. gp = 1 + PriceGP(use_float) /\ simd = PriceSIMD(use_float)
    BY <1>1, <1>4, CostIs
  <2>3. t = fetched
    BY <1>4
  <2>4. WithSlot(s.frame, Named(o)) = s.frame
    BY <1>4 DEF WithSlot, Named
  <2> HIDE DEF t, fetched
  <2> QED BY <1>4, <2>1, <2>2, <2>3, <2>4 DEF Spends, t, placed, fetched, pointed, gp, simd
<1>5. CASE o.kind = "Indirect"
  <2>1. /\ Pays(s, pointed, PlacePrice(s.frame, o.pointer), 0)
        /\ pointed.frame = WithSlot(s.frame, o.pointer)
    BY IndirectSpends
  <2>2. gp = PlacePrice(s.frame, o.pointer) /\ simd = 0
    BY <1>1, <1>5, CostIs
  <2>3. t = pointed
    BY <1>5
  <2>4. Named(o) = o.pointer
    BY <1>5 DEF Named
  <2> HIDE DEF t, pointed
  <2> QED BY <1>5, <2>1, <2>2, <2>3, <2>4 DEF t, placed, fetched, pointed, gp, simd
<1>6. CASE o.kind \notin {"Pseudo", "Data", "Indirect"}
  <2>1. t = s /\ gp = 0 /\ simd = 0
    BY <1>1, <1>6
  <2>2. Pays(s, s, 0, 0)
    BY PaysNothing
  <2>3. WithSlot(s.frame, Named(o)) = s.frame
    BY <1>6 DEF WithSlot, Named
  <2> HIDE DEF t
  <2> QED BY <1>6, <2>1, <2>2, <2>3 DEF t, placed, fetched, pointed, gp, simd
<1> QED BY <1>3, <1>4, <1>5, <1>6

\* So does the second.
LEMMA SecondLoopPays ==
  ASSUME NEW s, Sound(s), NEW i, Emitted(i), NEW k \in DOMAIN i.operands,
         Middle(i, k, s.operand),
         LET src == i.operands[k]
         IN  src.kind = "Pseudo" => s.operand.offset = LocalOffset(s.frame, src.name, src.size),
         NEW is_dst \in BOOLEAN, NEW use_float, use_float = NeedsFloatRegister(i, k), NEW target,
         NEW floats \in BOOLEAN, floats <=> use_float \/ s.operand.is_float
  PROVE  LET t == IF s.operand.kind = "Memory"
                  THEN IF IsTarget(i, k) THEN MaterializeLargeOffset(s)
                       ELSE ResolveMemoryOperand(s, is_dst, use_float)
                  ELSE IF s.operand.kind = "Immediate" /\ ~MovesStackPointer(i)
                  THEN ResolveImmediate(s, floats, target) ELSE s
         IN  Spends(s, t, Due(s.frame, i, k, "registers", "gp"), Due(s.frame, i, k, "registers", "simd"))
<1> DEFINE src     == i.operands[k]
           o       == s.operand
           near    == MaterializeLargeOffset(s)
           loaded  == ResolveMemoryOperand(s, is_dst, use_float)
           literal == ResolveImmediate(s, floats, target)
           t == IF s.operand.kind = "Memory"
                THEN IF IsTarget(i, k) THEN near ELSE loaded
                ELSE IF s.operand.kind = "Immediate" /\ ~MovesStackPointer(i) THEN literal ELSE s
           gp   == Due(s.frame, i, k, "registers", "gp")
           simd == Due(s.frame, i, k, "registers", "simd")
<1>1. /\ gp   = IF src.kind \in {"Data", "Indirect"} THEN 0 ELSE Cost(s.frame, i, k)
      /\ simd = IF src.kind \in {"Data", "Indirect"} THEN 0 ELSE FloatCost(i, k)
  BY DEF Due, PaidFirst, Price
<1>2. use_float \in BOOLEAN
  BY DEF NeedsFloatRegister, Emitted
<1>3. OperandEmitted(i, k)
  BY DEF Emitted
<1>4. Spends(s, s, 0, 0)
  BY EmitSpends
<1> HIDE DEF gp, simd
<1> SUFFICES Spends(s, t, gp, simd)
  BY DEF t, near, loaded, literal, gp, simd
<1>5. CASE src.kind = "Pseudo"
  <2>1. o.kind = "Memory" /\ ~IsTarget(i, k)
    <3>1. IsAddress(o, src.size)
      BY <1>5 DEF Middle
    <3> QED BY <1>3, <1>5, <3>1, AddressFields DEF OperandEmitted, IsTarget
  <2>2. t = loaded
    BY <2>1
  <2>3. Spends(s, loaded, OffsetDemand(o.offset) + PriceGP(use_float), PriceSIMD(use_float))
    BY <1>2, MemorySpends
  <2>4. gp = OffsetDemand(o.offset) + PriceGP(use_float) /\ simd = PriceSIMD(use_float)
    BY <1>1, <1>5, CostIs
  <2> HIDE DEF t, loaded
  <2> QED BY <2>2, <2>3, <2>4
<1>6. CASE src.kind = "Indirect"
  <2>1. o.kind = "Memory" /\ o.offset = 0 /\ IsTarget(i, k)
    <3>1. IsAddress(o, src.size) /\ o.offset = 0
      BY <1>6 DEF Middle
    <3> QED BY <1>3, <1>6, <3>1, AddressFields DEF OperandEmitted, IsTarget
  <2>2. t = near
    BY <2>1
  <2>3. OffsetDemand(o.offset) = 0
    BY <2>1 DEF OffsetDemand, CanEncodeImm9
  <2>4. Spends(s, near, OffsetDemand(o.offset), 0)
    BY LargeOffsetSpends
  <2>5. gp = 0 /\ simd = 0
    BY <1>1, <1>6
  <2> HIDE DEF t, near
  <2> QED BY <2>2, <2>3, <2>4, <2>5
<1>7. CASE src.kind = "Memory"
  <2>1. o = src
    BY <1>7 DEF Middle
  <2>3. CASE IsTarget(i, k)
    <3>1. t = near
      BY <1>7, <2>1, <2>3
    <3>2. Spends(s, near, OffsetDemand(o.offset), 0)
      BY LargeOffsetSpends
    <3>3. gp = OffsetDemand(o.offset) /\ simd = 0
      BY <1>1, <1>7, <2>1, <2>3, CostIs
    <3> HIDE DEF t, near
    <3> QED BY <3>1, <3>2, <3>3
  <2>4. CASE ~IsTarget(i, k)
    <3>1. t = loaded
      BY <1>7, <2>1, <2>4
    <3>2. Spends(s, loaded, OffsetDemand(o.offset) + PriceGP(use_float), PriceSIMD(use_float))
      BY <1>2, MemorySpends
    <3>3. gp = OffsetDemand(o.offset) + PriceGP(use_float) /\ simd = PriceSIMD(use_float)
      BY <1>1, <1>7, <2>1, <2>4, CostIs
    <3> HIDE DEF t, loaded
    <3> QED BY <3>1, <3>2, <3>3
  <2> QED BY <2>3, <2>4
<1>8. CASE src.kind = "Data"
  <2>1. o.kind = "Register"
    <3>1. IF Floats(i, k) THEN IsScratch(o, "simd", 8) ELSE IsScratch(o, "gp", src.size)
      BY <1>8 DEF Middle
    <3> QED BY <3>1, ScratchFields
  <2>2. t = s
    BY <2>1
  <2>3. gp = 0 /\ simd = 0
    BY <1>1, <1>8
  <2> HIDE DEF t
  <2> QED BY <1>4, <2>2, <2>3
<1>9. CASE src.kind = "Immediate"
  <2>1. o = src
    BY <1>9 DEF Middle
  <2>2. CASE MovesStackPointer(i)
    <3>1. t = s
      BY <1>9, <2>1, <2>2
    <3>2. gp = 0 /\ simd = 0
      BY <1>1, <1>9, <2>2, CostIs
    <3> HIDE DEF t
    <3> QED BY <1>4, <3>1, <3>2
  <2>3. CASE ~MovesStackPointer(i)
    <3>1. t = literal
      BY <1>9, <2>1, <2>3
    <3>2. floats <=> Floats(i, k)
      BY <1>2, <1>3, <1>9, <2>1 DEF OperandEmitted, Floats
    <3>3. Spends(s, literal, 1, PriceSIMD(floats))
      BY <3>2, ImmediateSpends
    <3>4. gp = 1 /\ simd = PriceSIMD(floats)
      <4>1. gp = 1 /\ simd = IF Floats(i, k) THEN 1 ELSE 0
        BY <1>1, <1>9, <2>3, CostIs
      <4> QED BY <3>2, <4>1 DEF PriceSIMD
    <3> HIDE DEF t, literal
    <3> QED BY <3>1, <3>3, <3>4
  <2> QED BY <2>2, <2>3
<1>10. CASE src.kind = "Register"
  <2>1. o = src
    BY <1>10 DEF Middle
  <2>2. t = s
    BY <1>10, <2>1
  <2>3. gp = 0 /\ simd = 0
    BY <1>1, <1>10, CostIs
  <2> HIDE DEF t
  <2> QED BY <1>4, <2>2, <2>3
<1> QED BY <1>3, <1>5, <1>6, <1>7, <1>8, <1>9, <1>10 DEF OperandEmitted

-----------------------------------------------------------------------------
(* The registers that are left are those not paid for.                     *)

OperandCounted(k) ==
  LET o == source.operands[k]
  IN  /\ phase = "registers" \/ k < idx => Settled(frame, o)
      /\ o.kind = "Pseudo" /\ (phase = "operands" <=> k < idx) =>
           operands[k].offset = LocalOffset(frame, o.name, o.size)

Counted ==
  /\ Short(source.operands)
  /\ \A k \in DOMAIN operands : OperandCounted(k)
  /\ \A file \in Files :
       Cardinality(free[file]) + Bill(frame, source, idx, phase, file) = Cardinality(PoolOf(file))

CountInv ==
  /\ phase \in {"ready", "address"} => \A file \in Files : free[file] = PoolOf(file)
  /\ phase \in {"operands", "registers"} => Counted
  /\ phase = "failed" => Demand(frame, source) > Cardinality(GPPool)
  /\ phase = "resolved" =>
       /\ Cardinality(free["gp"]) + Demand(frame, source) = Cardinality(GPPool)
       /\ Demand(frame, source) \in Nat

LEMMA FreeIsNatural ==
  ASSUME IInv, NEW file \in Files
  PROVE  Cardinality(free[file]) \in Nat /\ Cardinality(PoolOf(file)) \in Nat
<1>1. free[file] \in SUBSET PoolOf(file)
  BY DEF IInv, Conserved, PoolOf
<1> QED BY <1>1, PoolsAreFinite

LEMMA InitCounts == ASSUME Init PROVE CountInv
BY DEF Init, CountInv, PoolOf, Files

LEMMA TempsFreedCount ==
  ASSUME IInv, FreeTemps
  PROVE  CountInv'
<1>1. phase' = "ready" /\ free' = [file \in {"gp", "simd"} |-> free[file] \cup Numbers(file)]
  BY DEF FreeTemps
<1>2. ASSUME NEW file \in Files PROVE free'[file] = PoolOf(file)
  <2>1. free'[file] = free[file] \cup Numbers(file)
    BY <1>1 DEF Files
  <2>2. Numbers(file) = NumbersIn(temps, file)
    BY DEF Numbers, NumbersIn
  <2> QED BY <2>1, <2>2 DEF IInv, Conserved, PoolOf
<1> QED BY <1>1, <1>2 DEF CountInv

LEMMA EmittedOrAddress ==
  ASSUME NEW i \in Instructions
  PROVE  IF i.op = "Address" THEN i.operands # <<>> ELSE Emitted(i)
<1>1. CASE Emitted(i)
  BY <1>1 DEF Emitted
<1>2. CASE \E a \in Places(8), b \in Places(4) \cup Places(8) :
             i = Instr("Address", <<a, b>>, FALSE, 0)
  <2>1. PICK a \in Places(8), b \in Places(4) \cup Places(8) :
             i = Instr("Address", <<a, b>>, FALSE, 0)
    BY <1>2
  <2>2. i.op = "Address" /\ i.operands = <<a, b>>
    BY <2>1 DEF Instr
  <2>3. <<a, b>> # <<>>
    OBVIOUS
  <2> QED BY <2>2, <2>3
<1> QED BY <1>1, <1>2, EveryInstructionEmitted

LEMMA FetchCounts ==
  ASSUME IInv, CountInv, NEW i \in Instructions, Fetch(i)
  PROVE  CountInv'
<1>1. /\ free' = free /\ frame' = frame /\ source' = i /\ instr' = i /\ idx' = 1
      /\ operands' = i.operands /\ phase = "ready"
      /\ phase' = IF i.op = "Address" THEN "address"
                  ELSE IF i.operands = <<>> THEN "resolved" ELSE "operands"
  <2>1. phase' = IF i.op = "Address" THEN "address"
                 ELSE IF i.operands = <<>> THEN "resolved" ELSE "operands"
    <3>1. i.op = "Address" => i.operands # <<>>
      BY EmittedOrAddress
    <3> QED BY <3>1 DEF Fetch
  <2> QED BY <2>1 DEF Fetch
<1>2. \A file \in Files : free[file] = PoolOf(file)
  BY <1>1 DEF CountInv
<1>3. CASE i.op = "Address"
  BY <1>1, <1>2, <1>3 DEF CountInv
<1>4. CASE i.op # "Address"
  <2>1. Emitted(i)
    BY <1>4, EmittedOrAddress
  <2>2. Short(i.operands)
    BY EveryInstructionShort
  <2>3. CASE i.operands = <<>>
    <3>1. \A k \in DOMAIN i.operands : k < 1
      BY <2>3
    <3> DEFINE loop == "registers"
    <3>2. /\ Bill(frame, i, 1, loop, "gp") = Demand(frame, i)
          /\ Bill(frame, i, 1, "operands", "gp") = 0
          /\ Bill(frame, i, 1, loop, "gp") = Bill(frame, i, 1, "operands", "gp")
      BY <2>1, <2>2, <3>1, BillBounds, BillStarts, BillTurns
    <3>3. Demand(frame, i) = 0
      BY <3>2
    <3>4. free["gp"] = GPPool /\ Cardinality(free["gp"]) \in Nat
      BY <1>2, FreeIsNatural DEF Files, PoolOf
    <3> QED BY <1>1, <1>4, <2>3, <3>3, <3>4 DEF CountInv
  <2>4. CASE i.operands # <<>>
    <3>1. phase' = "operands"
      BY <1>1, <1>4, <2>4
    <3>2. \A k \in DOMAIN i.operands : ~(k < 1)
      BY <2>1 DEF Emitted
    <3>3. \A k \in DOMAIN operands' : OperandCounted(k)'
      BY <1>1, <3>1, <3>2 DEF OperandCounted
    <3>4. ASSUME NEW file \in Files
          PROVE  Cardinality(free[file]) + Bill(frame, i, 1, "operands", file)
                   = Cardinality(PoolOf(file))
      <4>1. Bill(frame, i, 1, "operands", file) = 0
        BY <2>1, BillStarts
      <4> QED BY <1>2, <4>1, FreeIsNatural
    <3>5. Counted'
      BY <1>1, <2>2, <3>1, <3>3, <3>4 DEF Counted
    <3> QED BY <3>1, <3>5 DEF CountInv
  <2> QED BY <2>3, <2>4
<1> QED BY <1>3, <1>4

\* When operand idx has been paid for, so have idx operands; when it cannot be,
\* the demand is too high: there are SIMD registers for three of them.
LEMMA RewriteCounts ==
  ASSUME IInv, FitInv, CountInv, phase \in {"operands", "registers"}, NEW t, RewriteOperand(t),
         idx \in DOMAIN operands, NEW s, s.free = free, s.failed = FALSE,
         Pays(s, t, Due(frame, source, idx, phase, "gp"), Due(frame, source, idx, phase, "simd")),
         t.frame = IF phase = "operands" THEN WithSlot(frame, Named(source.operands[idx])) ELSE frame,
         LET o == source.operands[idx]
         IN  phase = "operands" /\ o.kind = "Pseudo" =>
               t.operand.offset = LocalOffset(frame, o.name, o.size)
  PROVE  CountInv'
<1> DEFINE gp   == Due(frame, source, idx, phase, "gp")
           simd == Due(frame, source, idx, phase, "simd")
           bill(file)  == Bill(frame, source, idx, phase, file)
           size(file) == Cardinality(PoolOf(file))
<1>1. /\ Counted /\ OperandsRewritten /\ Emitted(source) /\ Short(source.operands)
      /\ DOMAIN operands = DOMAIN source.operands
      /\ idx \in DOMAIN source.operands /\ idx \in Nat /\ DOMAIN operands \subseteq Nat
  <2>1. OperandsRewritten /\ Counted
    BY DEF FitInv, CountInv
  <2>2. DOMAIN operands = 1 .. Len(operands) /\ DOMAIN source.operands = 1 .. Len(operands)
    BY <2>1 DEF OperandsRewritten, Emitted
  <2> QED BY <2>1, <2>2 DEF OperandsRewritten, Counted
<1>2. /\ Left(s, "gp") = Cardinality(free["gp"]) /\ Left(s, "simd") = Cardinality(free["simd"])
      /\ Left(s, "gp") \in Nat /\ Left(s, "simd") \in Nat
      /\ size("gp") \in Nat /\ size("simd") \in Nat
  BY FreeIsNatural DEF Left, Files
<1>3. /\ Left(s, "gp") + bill("gp") = size("gp") /\ Left(s, "simd") + bill("simd") = size("simd")
      /\ bill("gp") \in Nat /\ bill("simd") \in Nat
  <2>1. bill("gp") \in Nat /\ bill("simd") \in 0 .. 3
    BY <1>1, BillBounds
  <2>2. \A file \in Files : Cardinality(free[file]) + bill(file) = size(file)
    BY <1>1 DEF Counted
  <2> HIDE DEF bill, size
  <2> QED BY <1>2, <2>1, <2>2 DEF Files
<1>4. ASSUME NEW g, \A k \in DOMAIN source.operands : phase = "registers" \/ k <= idx =>
                      Cost(g, source, k) = Cost(frame, source, k)
      PROVE  /\ Bill(g, source, idx + 1, phase, "gp") = bill("gp") + gp
             /\ Bill(g, source, idx + 1, phase, "simd") = bill("simd") + simd
             /\ gp \in Nat /\ simd \in Nat
  BY <1>1, <1>4, BillNext DEF Files
<1>5. CASE gp <= Left(s, "gp") /\ simd <= Left(s, "simd")
  <2>1. /\ t.failed = FALSE
        /\ Left(t, "gp") = Left(s, "gp") - gp /\ Left(t, "simd") = Left(s, "simd") - simd
    BY <1>5 DEF Pays
  <2>2. /\ phase' = phase /\ free' = t.free /\ frame' = t.frame /\ source' = source
        /\ idx' = idx + 1 /\ operands' = [operands EXCEPT ![idx] = t.operand]
    BY <2>1 DEF RewriteOperand, Becomes
  <2>3. /\ FrameGrows(frame, t.frame)
        /\ phase = "registers" => t.frame = frame
    BY PlaceGrows, FrameStays DEF WithSlot
  <2>4. ASSUME phase = "operands"
        PROVE  LET o == source.operands[idx]
               IN  /\ Settled(t.frame, o) /\ Cost(t.frame, source, idx) = Cost(frame, source, idx)
                   /\ o.kind = "Pseudo" => t.operand.offset = LocalOffset(t.frame, o.name, o.size)
    <3>1. FrameGrows(WithSlot(frame, Named(source.operands[idx])), t.frame)
      BY <2>4, FrameStays
    <3> QED BY <2>4, <3>1, OnceItHasASlot
  <2>5. ASSUME NEW k \in DOMAIN source.operands, phase = "registers" \/ k <= idx
        PROVE  Cost(t.frame, source, k) = Cost(frame, source, k) /\ Settled(t.frame, source.operands[k])
    <3>1. CASE phase = "registers" \/ k < idx
      <4>1. Settled(frame, source.operands[k])
        BY <1>1, <3>1 DEF Counted, OperandCounted
      <4> QED BY <2>3, <4>1, SettledStays
    <3>2. CASE phase # "registers" /\ ~(k < idx)
      <4>1. k = idx /\ phase = "operands"
        BY <1>1, <2>5, <3>2
      <4> QED BY <2>4, <4>1
    <3> QED BY <3>1, <3>2
  <2>6. ASSUME NEW k \in DOMAIN operands PROVE OperandCounted(k)'
    <3> DEFINE o == source.operands[k]
    <3>1. k < idx + 1 <=> k <= idx
      BY <1>1
    <3>2. phase = "registers" \/ k < idx + 1 => Settled(t.frame, o)
      BY <1>1, <2>5, <3>1
    <3>3. ASSUME o.kind = "Pseudo", phase = "operands" <=> k < idx + 1
          PROVE  operands'[k].offset = LocalOffset(t.frame, o.name, o.size)
      <4>1. CASE k = idx
        <5>1. phase = "operands" /\ operands'[k] = t.operand
          BY <1>1, <2>2, <3>1, <3>3, <4>1
        <5> QED BY <2>4, <3>3, <4>1, <5>1
      <4>2. CASE k # idx
        <5>1. operands'[k] = operands[k] /\ (phase = "operands" <=> k < idx)
          BY <1>1, <2>2, <3>3, <4>2
        <5>2. operands[k].offset = LocalOffset(frame, o.name, o.size) /\ Settled(frame, o)
          BY <1>1, <3>3, <5>1 DEF Counted, OperandCounted
        <5>3. LocalOffset(t.frame, o.name, o.size) = LocalOffset(frame, o.name, o.size)
          BY <2>3, <3>3, <5>2, CostStays DEF Settled
        <5> QED BY <5>1, <5>2, <5>3
      <4> QED BY <4>1, <4>2
    <3> QED BY <2>2, <3>2, <3>3 DEF OperandCounted
  <2>7. /\ Bill(t.frame, source, idx + 1, phase, "gp") = bill("gp") + gp
        /\ Bill(t.frame, source, idx + 1, phase, "simd") = bill("simd") + simd
        /\ gp \in Nat /\ simd \in Nat
    BY <1>4, <2>5
  <2>8. ASSUME NEW file \in Files
        PROVE  Cardinality(t.free[file]) + Bill(t.frame, source, idx + 1, phase, file) = size(file)
    <3> HIDE DEF bill, size, gp, simd
    <3>1. Left(t, "gp") + Bill(t.frame, source, idx + 1, phase, "gp") = size("gp")
      BY <1>2, <1>3, <2>1, <2>7
    <3>2. Left(t, "simd") + Bill(t.frame, source, idx + 1, phase, "simd") = size("simd")
      BY <1>2, <1>3, <2>1, <2>7
    <3> QED BY <3>1, <3>2 DEF Left, Files
  <2>9. DOMAIN operands' = DOMAIN operands
    BY <2>2
  <2>10. Counted'
    BY <1>1, <2>2, <2>6, <2>8, <2>9 DEF Counted
  <2> QED BY <2>2, <2>10 DEF CountInv
<1>6. CASE ~(gp <= Left(s, "gp") /\ simd <= Left(s, "simd"))
  <2>1. t.failed = TRUE
    BY <1>6 DEF Pays
  <2>2. phase' = "failed" /\ frame' = frame /\ source' = source
    BY <2>1 DEF RewriteOperand, Becomes
  <2>3. /\ Bill(frame, source, idx + 1, phase, "gp") = bill("gp") + gp
        /\ Bill(frame, source, idx + 1, phase, "simd") = bill("simd") + simd
        /\ gp \in Nat /\ simd \in Nat
    BY <1>4
  <2>4. /\ Bill(frame, source, idx + 1, phase, "gp") <= Demand(frame, source)
        /\ Bill(frame, source, idx + 1, phase, "simd") \in 0 .. 3
        /\ Demand(frame, source) \in Nat
    BY <1>1, BillBounds
  <2>5. size("simd") >= 3 /\ size("gp") = Cardinality(GPPool)
    BY SIMDAssumption DEF PoolOf
  <2> HIDE DEF bill, size, gp, simd
  <2>6. Demand(frame, source) > size("gp")
    BY <1>2, <1>3, <1>6, <2>3, <2>4, <2>5
  <2> QED BY <2>2, <2>5, <2>6 DEF CountInv
<1> QED BY <1>5, <1>6

LEMMA FirstLoopCounts ==
  ASSUME IInv, FitInv, CountInv, ResolveOperand
  PROVE  CountInv'
<1> DEFINE src == source.operands[idx]
           s   == State(operands[idx])
           is_dst == IsDestination(instr, idx)
           use_float == NeedsFloatRegister(instr, idx)
           placed  == ResolvePseudo(s)
           fetched == ResolveDataOperand(s, is_dst, use_float)
           pointed == ResolveIndirectMemory(s)
           t == IF s.operand.kind = "Pseudo" THEN placed
                ELSE IF s.operand.kind = "Data" THEN fetched
                ELSE IF s.operand.kind = "Indirect" THEN pointed ELSE s
<1>1. phase = "operands" /\ OperandsRewritten /\ RewriteOperand(t)
  BY DEF ResolveOperand, FitInv
<1>2. /\ instr = source /\ Emitted(source)
      /\ idx \in DOMAIN operands /\ idx \in DOMAIN source.operands
  <2>1. idx <= Len(operands)
    BY <1>1 DEF RewriteOperand
  <2>2. DOMAIN operands = 1 .. Len(operands) /\ DOMAIN source.operands = 1 .. Len(operands)
        /\ Len(operands) \in Nat
    BY <1>1 DEF OperandsRewritten, Emitted
  <2> QED BY <1>1, <2>1, <2>2 DEF OperandsRewritten
<1>3. operands[idx] = src
  BY <1>1, <1>2 DEF OperandsRewritten, Rewritten
<1>4. Sound(s) /\ s.operand = src /\ s.failed = FALSE /\ s.free = free /\ s.frame = frame
  <2>1. Sound(s) /\ s.failed = FALSE /\ s.operand = operands[idx]
    BY <1>1, StateTidy DEF Tidy
  <2> QED BY <1>3, <2>1 DEF State
<1>5. is_dst \in BOOLEAN /\ use_float = NeedsFloatRegister(source, idx)
  BY <1>2 DEF IsDestination
<1> HIDE DEF s, is_dst, use_float
<1>6. /\ Pays(s, t, Due(frame, source, idx, "operands", "gp"),
                    Due(frame, source, idx, "operands", "simd"))
      /\ t.frame = WithSlot(frame, Named(src))
      /\ src.kind = "Pseudo" => t.operand.offset = LocalOffset(frame, src.name, src.size)
  BY <1>2, <1>4, <1>5, FirstLoopPays
<1> HIDE DEF t
<1> QED BY <1>1, <1>2, <1>4, <1>6, RewriteCounts

LEMMA SecondLoopCounts ==
  ASSUME IInv, FitInv, CountInv, MaterializeOperand
  PROVE  CountInv'
<1> DEFINE src == source.operands[idx]
           o   == operands[idx]
           s   == State(operands[idx])
           is_dst == IsDestination(instr, idx)
           use_float == NeedsFloatRegister(instr, idx)
           near    == MaterializeLargeOffset(s)
           loaded  == ResolveMemoryOperand(s, is_dst, use_float)
           target  == TargetSize
           floats  == use_float \/ s.operand.is_float
           literal == ResolveImmediate(s, floats, target)
           t == IF s.operand.kind = "Memory"
                THEN IF IsLoadStore(instr) /\ idx = Len(operands) THEN near ELSE loaded
                ELSE IF s.operand.kind = "Immediate" /\ ~IsSpArithmetic THEN literal ELSE s
           u == IF s.operand.kind = "Memory"
                THEN IF IsTarget(source, idx) THEN near ELSE loaded
                ELSE IF s.operand.kind = "Immediate" /\ ~MovesStackPointer(source) THEN literal
                ELSE s
<1>1. phase = "registers" /\ OperandsRewritten /\ RewriteOperand(t)
  BY DEF MaterializeOperand, FitInv
<1>2. /\ instr = source /\ Emitted(source) /\ Len(operands) = Len(source.operands)
      /\ idx \in DOMAIN operands /\ idx \in DOMAIN source.operands /\ idx \in Nat
  <2>1. idx <= Len(operands)
    BY <1>1 DEF RewriteOperand
  <2>2. DOMAIN operands = 1 .. Len(operands) /\ DOMAIN source.operands = 1 .. Len(operands)
        /\ Len(operands) \in Nat
    BY <1>1 DEF OperandsRewritten, Emitted
  <2> QED BY <1>1, <2>1, <2>2 DEF OperandsRewritten
<1>3. Middle(source, idx, o)
  BY <1>1, <1>2 DEF OperandsRewritten, Rewritten
<1>4. Sound(s) /\ s.operand = o /\ s.failed = FALSE /\ s.free = free /\ s.frame = frame
  <2>1. Sound(s) /\ s.failed = FALSE /\ s.operand = operands[idx]
    BY <1>1, StateTidy DEF Tidy
  <2> QED BY <2>1 DEF State
<1>5. src.kind = "Pseudo" => o.offset = LocalOffset(frame, src.name, src.size)
  <2>1. OperandCounted(idx) /\ ~(idx < idx)
    BY <1>1, <1>2 DEF CountInv, Counted
  <2> QED BY <1>1, <2>1 DEF OperandCounted
<1>6. is_dst \in BOOLEAN /\ use_float = NeedsFloatRegister(source, idx)
  BY <1>2 DEF IsDestination
<1>7. IsSpArithmetic <=> MovesStackPointer(source)
  BY <1>1, <1>2, StackPointerMoves
<1>8. floats \in BOOLEAN /\ (floats <=> use_float \/ s.operand.is_float)
  OBVIOUS
<1>9. t = u
  <2>1. (IsLoadStore(instr) /\ idx = Len(operands)) <=> IsTarget(source, idx)
    BY <1>2 DEF IsTarget
  <2> HIDE DEF near, loaded, literal, floats, s
  <2> QED BY <1>7, <2>1
<1> HIDE DEF s, is_dst, use_float, target, floats
<1>10. Spends(s, u, Due(frame, source, idx, "registers", "gp"),
                    Due(frame, source, idx, "registers", "simd"))
  <2>1. /\ Middle(source, idx, s.operand) /\ idx \in DOMAIN source.operands
        /\ src.kind = "Pseudo" => s.operand.offset = LocalOffset(s.frame, src.name, src.size)
    BY <1>2, <1>3, <1>4, <1>5
  <2>2. Spends(s, u, Due(s.frame, source, idx, "registers", "gp"),
                     Due(s.frame, source, idx, "registers", "simd"))
    <3>1. PICK r, i, k, d, e, g, q : /\ r = s /\ i = source /\ k = idx /\ d = is_dst
                                     /\ e = use_float /\ g = floats /\ q = target
      OBVIOUS
    <3> DEFINE v == IF r.operand.kind = "Memory"
                    THEN IF IsTarget(i, k) THEN MaterializeLargeOffset(r)
                         ELSE ResolveMemoryOperand(r, d, e)
                    ELSE IF r.operand.kind = "Immediate" /\ ~MovesStackPointer(i)
                    THEN ResolveImmediate(r, g, q) ELSE r
    <3>2. Spends(r, v, Due(r.frame, i, k, "registers", "gp"), Due(r.frame, i, k, "registers", "simd"))
      <4>1. Sound(r) /\ Emitted(i) /\ k \in DOMAIN i.operands /\ Middle(i, k, r.operand)
        BY <1>2, <1>4, <2>1, <3>1
      <4>2. i.operands[k].kind = "Pseudo" =>
              r.operand.offset = LocalOffset(r.frame, i.operands[k].name, i.operands[k].size)
        BY <2>1, <3>1
      <4>3. d \in BOOLEAN /\ e = NeedsFloatRegister(i, k)
        BY <1>6, <3>1
      <4>4. g \in BOOLEAN /\ (g <=> e \/ r.operand.is_float)
        BY <1>8, <3>1
      <4> QED BY <4>1, <4>2, <4>3, <4>4, SecondLoopPays
    <3>3. u = v
      BY <3>1
    <3> HIDE DEF u, v
    <3> QED BY <3>1, <3>2, <3>3
  <2> HIDE DEF u
  <2> QED BY <1>4, <2>2
<1> HIDE DEF t, u
<1>11. /\ Pays(s, t, Due(frame, source, idx, phase, "gp"), Due(frame, source, idx, phase, "simd"))
       /\ t.frame = frame
  BY <1>1, <1>4, <1>9, <1>10 DEF Spends
<1> QED BY <1>1, <1>2, <1>4, <1>11, RewriteCounts

LEMMA SecondLoopStartsCounting ==
  ASSUME FitInv, CountInv, StartSecondLoop
  PROVE  CountInv'
<1>1. /\ phase = "operands" /\ phase' = "registers" /\ idx > Len(operands) /\ idx' = 1
      /\ operands' = operands /\ source' = source /\ free' = free /\ frame' = frame
  BY DEF StartSecondLoop
<1>2. Counted /\ OperandsRewritten /\ Emitted(source)
  BY <1>1 DEF CountInv, FitInv, OperandsRewritten
<1>3. DOMAIN source.operands = DOMAIN operands /\ \A k \in DOMAIN operands : k < idx /\ ~(k < 1)
  <2>1. DOMAIN operands = 1 .. Len(operands) /\ DOMAIN source.operands = 1 .. Len(operands)
        /\ Len(operands) \in Nat /\ idx \in Nat
    BY <1>2 DEF OperandsRewritten, Emitted
  <2> QED BY <1>1, <2>1
<1>4. ASSUME NEW file \in Files
      PROVE  Bill(frame, source, 1, "registers", file) = Bill(frame, source, idx, "operands", file)
  BY <1>2, <1>3, BillTurns
<1>5. ASSUME NEW k \in DOMAIN operands PROVE OperandCounted(k)'
  <2>1. OperandCounted(k) /\ k < idx /\ ~(k < 1)
    BY <1>2, <1>3 DEF Counted
  <2> QED BY <1>1, <2>1 DEF OperandCounted
<1>6. Counted'
  BY <1>1, <1>2, <1>4, <1>5 DEF Counted
<1> QED BY <1>1, <1>6 DEF CountInv

LEMMA OperandsSetCount ==
  ASSUME IInv, FitInv, CountInv, SetOperands
  PROVE  CountInv'
<1>1. /\ phase = "registers" /\ phase' = "resolved" /\ idx > Len(operands)
      /\ source' = source /\ free' = free /\ frame' = frame
  BY DEF SetOperands
<1>2. Counted /\ OperandsRewritten /\ Emitted(source) /\ Short(source.operands)
  BY <1>1 DEF CountInv, FitInv, OperandsRewritten, Counted
<1>3. \A k \in DOMAIN source.operands : k < idx
  <2>1. DOMAIN source.operands = 1 .. Len(operands) /\ Len(operands) \in Nat /\ idx \in Nat
    BY <1>2 DEF OperandsRewritten, Emitted
  <2> QED BY <1>1, <2>1
<1>4. /\ Bill(frame, source, idx, phase, "gp") = Demand(frame, source)
      /\ Demand(frame, source) \in Nat
  BY <1>1, <1>2, <1>3, BillBounds
<1>5. Cardinality(free["gp"]) + Bill(frame, source, idx, phase, "gp") = Cardinality(GPPool)
  BY <1>2 DEF Counted, Files, PoolOf
<1> QED BY <1>1, <1>4, <1>5 DEF CountInv

\* Only the destination of an address-of costs registers.
LEMMA AddressDemand ==
  ASSUME NEW f, NEW i, i.op = "Address", Short(i.operands), Len(i.operands) = 2,
         NEW a, IsPointer(a), i.operands[1] = a
  PROVE  Demand(f, i) = PlacePrice(f, a) /\ Cost(f, i, 1) = PlacePrice(f, a)
<1> DEFINE use_float == NeedsFloatRegister(i, 1)
           stays(k) == \/ i.op \in {"Add", "Sub"} /\ i.operands[1] = SP
                       \/ i.op = "Address" /\ k = 2
<1>1. /\ i.op = "Address" /\ i.operands[1] = a
      /\ Len(i.operands) = 2 /\ Short(i.operands)
  OBVIOUS
<1>2. a.kind \in {"Pseudo", "Data"}
  BY DEF IsPointer
<1>3. ~use_float /\ use_float \in BOOLEAN
  BY <1>1 DEF NeedsFloatRegister
<1>4. ~stays(1) /\ stays(2) /\ ~IsLoadStore(i)
  BY <1>1 DEF IsLoadStore
<1>5. Cost(f, i, 1) = PlacePrice(f, a)
  <2>1. Cost(f, i, 1) = IF stays(1) THEN 0
                        ELSE IF i.operands[1].kind = "Indirect"
                        THEN GPDemand(f, i.operands[1].pointer, FALSE)
                        ELSE GPDemand(f, i.operands[1], use_float)
    BY <1>4 DEF Cost
  <2> HIDE DEF stays, use_float
  <2>2. Cost(f, i, 1) = GPDemand(f, a, use_float)
    <3>1. i.operands[1] = a /\ a.kind # "Indirect"
      BY <1>1, <1>2
    <3> QED BY <1>4, <2>1, <3>1, Zenon
  <2>3. GPDemand(f, a, use_float) = PlacePrice(f, a)
    BY <1>2, <1>3 DEF GPDemand, PlacePrice, OffsetDemand
  <2> QED BY <2>2, <2>3
<1>6. Cost(f, i, 2) = 0
  <2>1. Cost(f, i, 2) = IF stays(2) THEN 0
                        ELSE IF i.operands[2].kind = "Indirect"
                        THEN GPDemand(f, i.operands[2].pointer, FALSE)
                        ELSE GPDemand(f, i.operands[2], NeedsFloatRegister(i, 2))
    BY <1>4 DEF Cost
  <2> HIDE DEF stays
  <2> QED BY <1>4, <2>1, Zenon
<1> HIDE DEF stays, use_float
<1>7. PlacePrice(f, a) \in Nat
  BY DEF PlacePrice, OffsetDemand
<1>8. \A k \in 1 .. Len(i.operands) : Cost(f, i, k) \in Nat
  <2>1. \A k \in 1 .. 2 : k = 1 \/ k = 2
    OBVIOUS
  <2> QED BY <1>1, <1>5, <1>6, <1>7, <2>1
<1>9. Demand(f, i) = Toll(f, i, 1) + Toll(f, i, 2) + Toll(f, i, 3)
  BY <1>1, <1>8, DemandIs
<1>10. Toll(f, i, 1) = PlacePrice(f, a) /\ Toll(f, i, 2) = 0 /\ Toll(f, i, 3) = 0
  BY <1>1, <1>5, <1>6 DEF Toll
<1> QED BY <1>5, <1>7, <1>9, <1>10

LEMMA AddressCounts ==
  ASSUME IInv, MeansInv, CountInv, ResolveVirtualInstructions
  PROVE  CountInv'
<1> DEFINE s == State(operands[1])
           t == ResolveAddress(s, operands[1], operands[2])
<1>1. phase = "address" /\ Becomes(t, "resolved") /\ source' = source
  BY DEF ResolveVirtualInstructions
<1>2. PICK a, b : /\ IsPointer(a) /\ source = Instr("Address", <<a, b>>, FALSE, 0)
                  /\ operands = <<a, b>>
  BY <1>1 DEF MeansInv
<1>3. operands[1] = a /\ a.kind \in {"Pseudo", "Data"}
  BY <1>2 DEF IsPointer
<1>4. Sound(s) /\ s.failed = FALSE /\ s.free = free /\ s.frame = frame
  <2>1. Sound(s)
    BY StateSound DEF IInv
  <2> QED BY <2>1 DEF State
<1>5. /\ Left(s, "gp") = Cardinality(GPPool) /\ Left(s, "simd") = Cardinality(SIMDPool)
      /\ Left(s, "gp") \in Nat /\ Left(s, "simd") \in Nat
  <2>1. free["gp"] = GPPool /\ free["simd"] = SIMDPool
    BY <1>1 DEF CountInv, Files, PoolOf
  <2>2. Cardinality(free["gp"]) \in Nat /\ Cardinality(free["simd"]) \in Nat
    BY FreeIsNatural DEF Files
  <2> QED BY <1>4, <2>1, <2>2 DEF Left
<1> HIDE DEF s
<1>6. /\ Pays(s, t, PlacePrice(frame, a), 0)
      /\ FrameGrows(WithSlot(frame, a), t.frame)
  BY <1>3, <1>4, AddressSpends
<1>7. source.op = "Address" /\ source.operands[1] = a
      /\ \A f : Demand(f, source) = PlacePrice(f, a) /\ Cost(f, source, 1) = PlacePrice(f, a)
  <2> DEFINE ops == <<a, b>>
  <2>1. source.op = "Address" /\ source.operands = ops
    BY <1>2 DEF Instr
  <2>2. ops[1] = a /\ Len(ops) = 2 /\ Short(ops)
    BY DEF Short
  <2> HIDE DEF ops
  <2>3. source.operands[1] = a /\ Len(source.operands) = 2 /\ Short(source.operands)
    BY <2>1, <2>2
  <2>4. IsPointer(a)
    BY <1>2
  <2> QED BY <2>1, <2>3, <2>4, AddressDemand
<1>8. PlacePrice(t.frame, a) = PlacePrice(frame, a)
  <2>1. source.operands[1] = a
    BY <1>7
  <2>2. Named(source.operands[1]) = a
    BY <1>3, <2>1 DEF Named
  <2>3. Cost(t.frame, source, 1) = Cost(frame, source, 1)
    BY <1>6, <2>2, OnceItHasASlot
  <2> HIDE DEF t
  <2> QED BY <1>7, <2>3
<1>9. PlacePrice(frame, a) \in Nat
  BY DEF PlacePrice, OffsetDemand
<1> HIDE DEF t
<1>10. CASE PlacePrice(frame, a) <= Left(s, "gp")
  <2>1. t.failed = FALSE /\ Left(t, "gp") = Left(s, "gp") - PlacePrice(frame, a)
    BY <1>4, <1>5, <1>6, <1>10 DEF Pays
  <2>2. phase' = "resolved" /\ free' = t.free /\ frame' = t.frame
    BY <1>1, <2>1 DEF Becomes
  <2>3. Demand(t.frame, source) = PlacePrice(frame, a)
    BY <1>7, <1>8
  <2>4. /\ Left(t, "gp") + Demand(t.frame, source) = Cardinality(GPPool)
        /\ Demand(t.frame, source) \in Nat
    BY <1>5, <1>9, <2>1, <2>3
  <2> QED BY <1>1, <2>2, <2>4 DEF CountInv, Left
<1>11. CASE ~(PlacePrice(frame, a) <= Left(s, "gp"))
  <2>1. t.failed = TRUE
    BY <1>6, <1>11 DEF Pays
  <2>2. phase' = "failed" /\ frame' = frame
    BY <1>1, <2>1 DEF Becomes
  <2>3. Demand(frame, source) > Cardinality(GPPool)
    <3>1. Demand(frame, source) = PlacePrice(frame, a)
      BY <1>7
    <3> QED BY <1>5, <1>9, <1>11, <3>1
  <2> QED BY <1>1, <2>2, <2>3 DEF CountInv
<1> QED BY <1>10, <1>11

LEMMA StepCounts ==
  ASSUME IInv, FitInv, MeansInv, CountInv, [Next]_vars
  PROVE  CountInv'
<1>1. CASE UNCHANGED vars
  <2>1. /\ phase' = phase /\ source' = source /\ idx' = idx /\ operands' = operands
        /\ free' = free /\ frame' = frame
    BY <1>1 DEF vars
  <2>2. \A k : OperandCounted(k) => OperandCounted(k)'
    BY <2>1 DEF OperandCounted
  <2>3. Counted => Counted'
    BY <2>1, <2>2 DEF Counted
  <2> QED BY <2>1, <2>3 DEF CountInv
<1> QED BY <1>1, FetchCounts, FirstLoopCounts, SecondLoopStartsCounting, SecondLoopCounts,
           OperandsSetCount, AddressCounts, TempsFreedCount DEF Next

LEMMA CountsExact ==
  ASSUME IInv, CountInv
  PROVE  ExhaustionIsExact
<1> DEFINE held == Cardinality({i \in DOMAIN temps : temps[i].file = "gp"})
<1>1. held \in Nat /\ held + Cardinality(free["gp"]) = Cardinality(GPPool)
  BY HeldAreTheRest DEF IInv, Files, PoolOf
<1>2. Cardinality(free["gp"]) \in Nat /\ Cardinality(GPPool) \in Nat
  BY FreeIsNatural DEF Files, PoolOf
<1>3. phase = "resolved" => held = Demand(frame, source)
  <2> HIDE DEF held
  <2> QED BY <1>1, <1>2 DEF CountInv
<1> QED BY <1>3 DEF CountInv, ExhaustionIsExact

\* AllocatorThrowsExactlyWhenItMust: for any scratch registers, with at least three
\* SIMD registers among them, "Out of temporary GP registers" ends the compilation
\* for just those instructions whose operands need more GP registers than there
\* are: none is wasted, leaked from an earlier instruction or requested twice.
THEOREM AllocatorThrowsExactlyWhenItMust == Spec => []ExhaustionIsExact
<1>1. Init => IInv /\ FitInv /\ MeansInv /\ CountInv
  BY InitConserves, InitFits, InitMeans, InitCounts
<1>2. IInv /\ FitInv /\ MeansInv /\ CountInv /\ [Next]_vars
        => IInv' /\ FitInv' /\ MeansInv' /\ CountInv'
  BY StepConserves, StepFits, StepMeans, StepCounts
<1>3. IInv /\ CountInv => ExhaustionIsExact
  BY CountsExact
<1> QED BY <1>1, <1>2, <1>3, PTL DEF Spec
=============================================================================
