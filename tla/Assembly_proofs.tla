-------------------------- MODULE Assembly_proofs --------------------------
(***************************************************************************)
(* Proofs about the two algorithms that the rest of src/src/asm builds on. *)
(*                                                                         *)
(* The frame allocator is safe for every set of names, every number of     *)
(* parameters and of functions.  The inductive invariant relates the slots *)
(* of the frame to the sizes in the symbol table, and the accesses already *)
(* in the code to the slots.                                               *)
(*                                                                         *)
(* The movz/movk sequence loads every 64-bit value into every x or w       *)
(* register: the invariant says what the two loops have established about  *)
(* the chunks they have passed.                                            *)
(***************************************************************************)
EXTENDS FrameAllocator, LoadImmediate, TLAPS

\* Rounding up to an alignment the allocator uses.
LEMMA RoundUpFacts ==
  ASSUME NEW c \in Nat, NEW k \in {4, 8, 16}
  PROVE  /\ RoundUp(c, k) \in Nat
         /\ RoundUp(c, k) >= c
         /\ RoundUp(c, k) % k = 0
<1>1. CASE k = 4  BY <1>1 DEF RoundUp, Padding
<1>2. CASE k = 8  BY <1>2 DEF RoundUp, Padding
<1>3. CASE k = 16 BY <1>3 DEF RoundUp, Padding
<1>. QED BY <1>1, <1>2, <1>3

\* The frame f is a legal layout for slots of the sizes in the table s.
LaidOut(f, s) ==
  /\ \A n \in DOMAIN f.offsets :
       /\ f.offsets[n] % s[n] = 0
       /\ s[n] <= f.offsets[n]
       /\ f.offsets[n] <= f.current_offset
  /\ \A m, n \in DOMAIN f.offsets :
       m # n => \/ f.offsets[m] + s[n] <= f.offsets[n]
                \/ f.offsets[n] + s[m] <= f.offsets[m]

\* Placing a name keeps the frame well formed and legally laid out, gives the
\* name a slot, and moves no slot.
LEMMA PlaceFacts ==
  ASSUME NEW f, IsFrame(f), NEW s \in [Name -> Size], NEW name \in Name,
         LaidOut(f, s)
  PROVE  LET g == Place(f, name, s[name])
         IN  /\ IsFrame(g)
             /\ LaidOut(g, s)
             /\ DOMAIN g.offsets = DOMAIN f.offsets \cup {name}
             /\ \A n \in DOMAIN f.offsets : g.offsets[n] = f.offsets[n]
<1> DEFINE g == Place(f, name, s[name])
<1>1. CASE name \in DOMAIN f.offsets
  BY <1>1 DEF Place
<1>2. CASE name \notin DOMAIN f.offsets
  <2> DEFINE r == RoundUp(f.current_offset, s[name])
             top == r + s[name]
  <2>1. s[name] \in {4, 8} /\ Alignment(s[name]) = s[name]
    BY DEF Size, Alignment
  <2>2. f.current_offset \in Nat
    BY DEF IsFrame
  <2>3. r \in Nat /\ r >= f.current_offset /\ r % s[name] = 0
    BY <2>1, <2>2, RoundUpFacts
  <2>4. top \in Nat /\ top >= f.current_offset + s[name]
    BY <2>1, <2>2, <2>3
  <2>5. top % s[name] = 0
    <3>1. CASE s[name] = 4 BY <3>1, <2>3
    <3>2. CASE s[name] = 8 BY <3>2, <2>3
    <3>. QED BY <2>1, <3>1, <3>2
  <2>6. g = [offsets |-> [n \in DOMAIN f.offsets \cup {name} |->
                            IF n = name THEN top ELSE f.offsets[n]],
             current_offset |-> top]
    BY <1>2, <2>1 DEF Place
  <2> HIDE DEF top, r, g
  <2>7. /\ DOMAIN g.offsets = DOMAIN f.offsets \cup {name}
        /\ g.offsets[name] = top
        /\ \A n \in DOMAIN f.offsets : g.offsets[n] = f.offsets[n]
        /\ g.current_offset = top
    BY <2>6, <1>2
  <2>8. IsFrame(g)
    BY <2>4, <2>6 DEF IsFrame
  <2>9. LaidOut(g, s)
    <3>1. ASSUME NEW n \in DOMAIN g.offsets
          PROVE  /\ g.offsets[n] % s[n] = 0
                 /\ s[n] <= g.offsets[n]
                 /\ g.offsets[n] <= g.current_offset
      <4>1. CASE n = name
        BY <4>1, <2>1, <2>2, <2>4, <2>5, <2>7
      <4>2. CASE n # name
        <5>1. /\ f.offsets[n] % s[n] = 0 /\ s[n] <= f.offsets[n]
              /\ f.offsets[n] <= f.current_offset
              /\ f.offsets[n] \in Nat
          BY <4>2, <2>7 DEF LaidOut, IsFrame
        <5>. QED BY <5>1, <4>2, <2>1, <2>2, <2>4, <2>7
      <4>. QED BY <4>1, <4>2
    <3>2. ASSUME NEW m \in DOMAIN f.offsets
          PROVE  g.offsets[m] + s[name] <= g.offsets[name]
      <4>1. f.offsets[m] \in Nat /\ f.offsets[m] <= f.current_offset
        BY DEF LaidOut, IsFrame
      <4>. QED BY <4>1, <2>1, <2>2, <2>4, <2>7
    <3>3. ASSUME NEW m \in DOMAIN g.offsets, NEW n \in DOMAIN g.offsets, m # n
          PROVE  \/ g.offsets[m] + s[n] <= g.offsets[n]
                 \/ g.offsets[n] + s[m] <= g.offsets[m]
      <4>1. CASE m = name BY <4>1, <3>2, <3>3, <2>7
      <4>2. CASE n = name BY <4>2, <3>2, <3>3, <2>7
      <4>3. CASE m # name /\ n # name
        BY <4>3, <3>3, <2>7 DEF LaidOut
      <4>. QED BY <4>1, <4>2, <4>3
    <3>. QED BY <3>1, <3>3 DEF LaidOut
  <2>. QED BY <2>7, <2>8, <2>9 DEF g
<1>. QED BY <1>1, <1>2

-----------------------------------------------------------------------------
\* The frame under construction is laid out for the sizes now in the symbol
\* table; it is still empty when LowerFunction changes those sizes.
FrameInv ==
  phase # "idle" =>
    /\ LaidOut(Top, symbol_size)
    /\ phase \in {"pushed", "lowering"} => DOMAIN Top.offsets = {}

\* Pseudo registers carry the size that the symbol table still holds.
UnresolvedInv ==
  phase # "idle" => \A p \in unresolved : p.size = symbol_size[p.name]

\* Every access of the function's code is the whole slot of its name.
AccessInv ==
  /\ phase \in {"pushed", "lowering"} => accesses = {}
  /\ phase # "idle" =>
       \A a \in accesses : /\ a.name \in DOMAIN Top.offsets
                           /\ a.offset = -Top.offsets[a.name]
                           /\ a.size = symbol_size[a.name]

\* The reserved frame covers every slot.
FrameSizeInv ==
  /\ frame_size % 16 = 0
  /\ phase = "finalized" => Top.current_offset <= frame_size

\* Between two functions the code of the last one is still safe.
CodeInv == AccessesDoNotOverlap /\ \A a \in accesses : a.offset % a.size = 0

BuiltInv == phase # "idle" => built < MaxFunctions

IInv == /\ TypeOK
        /\ BuiltInv
        /\ FrameInv
        /\ UnresolvedInv
        /\ AccessInv
        /\ FrameSizeInv
        /\ CodeInv

LEMMA InitIInv == Init => IInv
  BY BoundAssumption DEF Init, IInv, TypeOK, FrameInv, UnresolvedInv, AccessInv, FrameSizeInv,
         CodeInv, AccessesDoNotOverlap, Phase, BuiltInv

\* The invariant of the code follows from the slots: accesses are whole slots.
LEMMA CodeFromSlots ==
  ASSUME NEW A, NEW f, IsFrame(f), NEW s \in [Name -> Size], LaidOut(f, s),
         \A a \in A : /\ a \in Access
                      /\ a.name \in DOMAIN f.offsets
                      /\ a.offset = -f.offsets[a.name]
                      /\ a.size = s[a.name]
  PROVE  /\ \A a, b \in A : IF a.name = b.name THEN a = b ELSE Disjoint(a, b)
         /\ \A a \in A : a.offset % a.size = 0
<1>1. \A n \in DOMAIN f.offsets : f.offsets[n] \in Nat /\ s[n] \in {4, 8}
  BY DEF IsFrame, Size
<1>2. ASSUME NEW a \in A, NEW b \in A
      PROVE  IF a.name = b.name THEN a = b ELSE Disjoint(a, b)
  <2>1. CASE a.name = b.name
    BY <2>1 DEF Access
  <2>2. CASE a.name # b.name
    BY <2>2, <1>1 DEF LaidOut, Disjoint
  <2>. QED BY <2>1, <2>2
<1>3. ASSUME NEW a \in A PROVE a.offset % a.size = 0
  <2> DEFINE off == f.offsets[a.name]
  <2>1. off \in Nat /\ off % s[a.name] = 0 /\ a.offset = -off /\ a.size = s[a.name]
    BY <1>1 DEF LaidOut
  <2> HIDE DEF off
  <2>2. CASE s[a.name] = 4 BY <2>1, <2>2
  <2>3. CASE s[a.name] = 8 BY <2>1, <2>3
  <2>. QED BY <1>1, <2>2, <2>3
<1>. QED BY <1>2, <1>3

LEMMA ResolvePseudoIInv ==
  ASSUME IInv, NEW p \in unresolved, ResolvePseudo(p)
  PROVE  IInv'
<1> DEFINE g == Place(Top, p.name, p.size)
<1>1. /\ phase = "resolving" /\ phase' = phase /\ symbol_size' = symbol_size
      /\ unresolved' = unresolved /\ frame_size' = frame_size /\ built' = built
      /\ frames = <<Top>> /\ IsFrame(Top) /\ symbol_size \in [Name -> Size]
      /\ LaidOut(Top, symbol_size)
      /\ p.size = symbol_size[p.name] /\ p.name \in Name /\ p.size \in Size
  BY DEF IInv, TypeOK, FrameInv, UnresolvedInv, ResolvePseudo, Pseudo
<1>2. /\ IsFrame(g) /\ LaidOut(g, symbol_size)
      /\ DOMAIN g.offsets = DOMAIN Top.offsets \cup {p.name}
      /\ \A n \in DOMAIN Top.offsets : g.offsets[n] = Top.offsets[n]
  <2>1. g = Place(Top, p.name, symbol_size[p.name])
    BY <1>1
  <2> HIDE DEF g
  <2>. QED BY <1>1, <2>1, PlaceFacts
<1>3. frames' = <<g>> /\ Top' = g
  <2>1. frames' = [frames EXCEPT ![Len(frames)] = g]
    BY DEF ResolvePseudo
  <2> HIDE DEF g
  <2>2. frames' = <<g>>
    BY <1>1, <2>1
  <2>. QED BY <2>2 DEF Top
<1>4. accesses' = accesses \cup
        {[name |-> p.name, size |-> p.size, offset |-> -g.offsets[p.name]]}
  BY DEF ResolvePseudo, LocalOffset
<1>5. g.offsets[p.name] \in Nat
  BY <1>2 DEF IsFrame
<1> HIDE DEF g
<1>6. \A a \in accesses' : /\ a \in Access
                           /\ a.name \in DOMAIN g.offsets
                           /\ a.offset = -g.offsets[a.name]
                           /\ a.size = symbol_size[a.name]
  BY <1>1, <1>2, <1>4, <1>5 DEF IInv, TypeOK, AccessInv, Access
<1>7. TypeOK'
  BY <1>1, <1>2, <1>3, <1>6 DEF IInv, TypeOK
<1>8. FrameInv' /\ AccessInv' /\ UnresolvedInv'
  BY <1>1, <1>2, <1>3, <1>6
  DEF IInv, FrameInv, AccessInv, UnresolvedInv
<1>9. CodeInv'
  BY <1>1, <1>2, <1>6, CodeFromSlots DEF CodeInv, AccessesDoNotOverlap
<1>10. FrameSizeInv'
  BY <1>1 DEF IInv, FrameSizeInv
<1>11. BuiltInv'
  BY <1>1 DEF IInv, BuiltInv
<1>. QED BY <1>7, <1>8, <1>9, <1>10, <1>11 DEF IInv

LEMMA StepIInv == IInv /\ [Next]_vars => IInv'
<1> SUFFICES ASSUME IInv, [Next]_vars PROVE IInv'
  OBVIOUS
<1>0. BuiltInv'
  BY DEF IInv, BuiltInv, Next, PushFrame, LowerFunction, LowerOperand,
         PerformResolving, ResolvePseudo, PerformFinalizing, PopFrame, vars
<1>1. CASE PushFrame
  <2>1. Top' = EmptyFrame /\ frames' = <<EmptyFrame>> /\ IsFrame(EmptyFrame)
    BY <1>1 DEF PushFrame, Top, IInv, TypeOK, EmptyFrame, IsFrame
  <2>2. TypeOK'
    BY <1>1, <2>1 DEF PushFrame, IInv, TypeOK, Phase
  <2>3. FrameInv' /\ UnresolvedInv' /\ AccessInv' /\ CodeInv'
    BY <1>1, <2>1 DEF PushFrame, FrameInv, UnresolvedInv, AccessInv, CodeInv,
                      AccessesDoNotOverlap, LaidOut, EmptyFrame
  <2>4. FrameSizeInv'
    BY <1>1 DEF PushFrame, IInv, FrameSizeInv
  <2>. QED BY <1>0, <2>2, <2>3, <2>4 DEF IInv
<1>2. ASSUME NEW param_sizes \in ParamSizes, LowerFunction(param_sizes)
      PROVE IInv'
  <2>1. /\ DOMAIN param_sizes \subseteq Name
        /\ \A n \in DOMAIN param_sizes : param_sizes[n] \in Size
    BY BoundAssumption DEF ParamSizes, Name, Arg
  <2>2. symbol_size' \in [Name -> Size]
    BY <1>2, <2>1 DEF LowerFunction, IInv, TypeOK
  <2>3. \A q \in unresolved' : q \in Pseudo /\ q.size = symbol_size'[q.name]
    BY <1>2, <2>1, <2>2 DEF LowerFunction, Pseudo
  <2>4. Top' = Top /\ DOMAIN Top.offsets = {} /\ accesses = {} /\ phase # "idle"
    BY <1>2 DEF LowerFunction, IInv, FrameInv, AccessInv, Top
  <2>5. TypeOK'
    BY <1>2, <2>2, <2>3, <2>4 DEF LowerFunction, IInv, TypeOK, Phase
  <2>6. FrameInv' /\ UnresolvedInv' /\ AccessInv' /\ CodeInv'
    BY <1>2, <2>3, <2>4 DEF LowerFunction, FrameInv, UnresolvedInv, AccessInv,
                            CodeInv, AccessesDoNotOverlap, LaidOut
  <2>7. FrameSizeInv'
    BY <1>2 DEF LowerFunction, IInv, FrameSizeInv
  <2>. QED BY <1>0, <2>5, <2>6, <2>7 DEF IInv
<1>3. ASSUME NEW name \in Name, LowerOperand(name) PROVE IInv'
  <2>1. \A q \in unresolved' : q \in Pseudo /\ q.size = symbol_size'[q.name]
    BY <1>3 DEF LowerOperand, IInv, TypeOK, UnresolvedInv, Pseudo
  <2>2. TypeOK' /\ UnresolvedInv'
    BY <1>3, <2>1 DEF LowerOperand, IInv, TypeOK, UnresolvedInv, Top
  <2>3. FrameInv' /\ AccessInv' /\ FrameSizeInv' /\ CodeInv'
    BY <1>3 DEF LowerOperand, IInv, FrameInv, AccessInv, FrameSizeInv, CodeInv,
                AccessesDoNotOverlap, Top
  <2>. QED BY <1>0, <2>2, <2>3 DEF IInv
<1>4. CASE PerformResolving
  BY <1>0, <1>4 DEF PerformResolving, IInv, TypeOK, Phase, FrameInv, UnresolvedInv,
              AccessInv, FrameSizeInv, CodeInv, AccessesDoNotOverlap, Top
<1>5. ASSUME NEW p \in unresolved, ResolvePseudo(p) PROVE IInv'
  BY <1>5, ResolvePseudoIInv
<1>6. CASE PerformFinalizing
  <2>1. Top' = Top /\ Top.current_offset \in Nat
    BY <1>6 DEF PerformFinalizing, Top, IInv, TypeOK, IsFrame
  <2>2. /\ frame_size' \in Nat /\ frame_size' % 16 = 0
        /\ Top.current_offset <= frame_size'
    BY <1>6, <2>1, RoundUpFacts DEF PerformFinalizing, AlignedFrameSize
  <2>3. TypeOK'
    BY <1>6, <2>1, <2>2 DEF PerformFinalizing, IInv, TypeOK, Phase
  <2>4. FrameInv' /\ UnresolvedInv' /\ AccessInv' /\ CodeInv' /\ FrameSizeInv'
    BY <1>6, <2>1, <2>2 DEF PerformFinalizing, IInv, FrameInv, UnresolvedInv,
       AccessInv, CodeInv, AccessesDoNotOverlap, FrameSizeInv
  <2>. QED BY <1>0, <2>3, <2>4 DEF IInv
<1>7. CASE PopFrame
  <2>1. frames' = <<>>
    BY <1>7 DEF PopFrame, IInv, TypeOK
  <2>2. TypeOK'
    BY <1>7, <2>1, BoundAssumption DEF PopFrame, IInv, TypeOK, Phase, BuiltInv
  <2>3. FrameInv' /\ UnresolvedInv' /\ AccessInv' /\ CodeInv' /\ FrameSizeInv'
    BY <1>7 DEF PopFrame, IInv, FrameInv, UnresolvedInv, AccessInv, CodeInv,
                AccessesDoNotOverlap, FrameSizeInv
  <2>. QED BY <1>0, <2>2, <2>3 DEF IInv
<1>8. CASE UNCHANGED vars
  BY <1>0, <1>8 DEF vars, IInv, TypeOK, FrameInv, UnresolvedInv, AccessInv,
              FrameSizeInv, CodeInv, AccessesDoNotOverlap, Top
<1>. QED BY <1>1, <1>2, <1>3, <1>4, <1>5, <1>6, <1>7, <1>8 DEF Next

LEMMA Invariance == Spec => []IInv
  BY InitIInv, StepIInv, PTL DEF Spec

-----------------------------------------------------------------------------
\* Every variable of the frame allocator keeps its type, whatever the program:
\* FrameStackAllocator holds one frame exactly while a function is built.
THEOREM TypeCorrect == Spec => []TypeOK
  BY Invariance, PTL DEF IInv

\* GetLocalOffset never hands out bytes that another name uses.
THEOREM NoOverlap == Spec => []AccessesDoNotOverlap
<1>1. IInv => AccessesDoNotOverlap BY DEF IInv, CodeInv
<1>. QED BY <1>1, Invariance, PTL

\* The prologue that UpdateStackSize patches reserves every byte that the code
\* resolved before it accesses.
THEOREM InsideFrame == Spec => []AccessesInsideFrame
<1>1. IInv => AccessesInsideFrame
  <2> SUFFICES ASSUME IInv, phase = "finalized", NEW a \in accesses
               PROVE  -frame_size <= a.offset /\ a.offset + a.size <= 0
    BY DEF AccessesInsideFrame
  <2> DEFINE off == Top.offsets[a.name]
             sz  == symbol_size[a.name]
  <2>1. /\ off \in Nat /\ sz \in {4, 8} /\ a.offset = -off /\ a.size = sz
        /\ Top.current_offset \in Nat /\ frame_size \in Nat
        /\ sz <= off /\ off <= Top.current_offset
        /\ Top.current_offset <= frame_size
    BY DEF IInv, TypeOK, IsFrame, Access, Size, FrameInv, LaidOut, AccessInv,
           FrameSizeInv
  <2>. QED BY <2>1
<1>. QED BY <1>1, Invariance, PTL

\* Every slot is naturally aligned and every frame keeps sp 16-byte aligned.
THEOREM Aligned == Spec => []AccessesAligned
<1>1. IInv => AccessesAligned
  BY DEF IInv, CodeInv, FrameSizeInv, AccessesAligned
<1>. QED BY <1>1, Invariance, PTL

\* The slot a name got stays its slot while the function is being built.
THEOREM SlotStability == Spec => SlotsNeverMove
<1> DEFINE Kept == frames # <<>> /\ frames' # <<>> =>
                     \A n \in DOMAIN Top.offsets :
                       /\ n \in DOMAIN Top'.offsets
                       /\ Top'.offsets[n] = Top.offsets[n]
<1>1. IInv /\ [Next]_vars => [Kept]_vars
  <2> SUFFICES ASSUME IInv, Next PROVE Kept
    OBVIOUS
  <2>1. CASE frames' = frames
    BY <2>1 DEF Top
  <2>2. CASE PushFrame \/ PopFrame
    BY <2>2 DEF PushFrame, PopFrame, IInv, TypeOK
  <2>3. ASSUME NEW p \in unresolved, ResolvePseudo(p) PROVE Kept
    <3> DEFINE g == Place(Top, p.name, p.size)
    <3>1. \A n \in DOMAIN Top.offsets : n \in DOMAIN g.offsets
                                        /\ g.offsets[n] = Top.offsets[n]
      BY DEF Place
    <3>2. frames' = [frames EXCEPT ![Len(frames)] = g] /\ frames = <<Top>>
      BY <2>3 DEF ResolvePseudo, IInv, TypeOK
    <3> HIDE DEF g
    <3>3. frames' = <<g>>
      BY <3>2
    <3>. QED BY <3>1, <3>3 DEF Top
  <2>. QED
    BY <2>1, <2>2, <2>3 DEF Next, LowerFunction, LowerOperand, PerformResolving,
                            PerformFinalizing
<1>. QED BY <1>1, Invariance, PTL DEF Spec, SlotsNeverMove

-----------------------------------------------------------------------------
\* MakeLoadImmediateSequence.

\* What the register holds once the loop has passed the chunks below k.
Passed(k) == [j \in 1 .. 4 |-> IF j < k /\ j <= ChunkCount(is_32bit)
                               THEN value[j] ELSE 0]

ScanInv ==
  loop = "scan" => /\ \A j \in 1 .. idx - 1 : value[j] = 0
                   /\ code = <<>>

EmitInv ==
  loop = "emit" =>
    /\ first_nonzero_idx \in 1 .. ChunkCount(is_32bit)
    /\ value[first_nonzero_idx] # 0
    /\ \A j \in 1 .. first_nonzero_idx - 1 : value[j] = 0
    /\ idx > first_nonzero_idx => reg = Passed(idx)

LoadInv == LoadTypeOK /\ ScanInv /\ EmitInv /\ ValueLoaded

LEMMA LoadInvariance == LoadSpec => []LoadInv
<1>1. LoadInit => LoadInv
  BY GarbageAssumption
  DEF LoadInit, LoadInv, LoadTypeOK, ScanInv, EmitInv, ValueLoaded, ChunkCount
<1>2. LoadInv /\ [LoadNext]_load_vars => LoadInv'
  <2> SUFFICES ASSUME LoadInv, [LoadNext]_load_vars PROVE LoadInv'
    OBVIOUS
  <2> USE DEF LoadInv, ChunkCount
  <2>1. CASE Scan
    <3>1. LoadTypeOK' /\ ValueLoaded'
      BY <2>1 DEF Scan, LoadTypeOK, ValueLoaded
    <3>2. ScanInv' /\ EmitInv'
      BY <2>1 DEF Scan, LoadTypeOK, ScanInv, EmitInv
    <3>. QED BY <3>1, <3>2
  <2>2. CASE EmitZero
    <3>1. /\ loop' = "done" /\ reg' = MovZ(1, 0)
          /\ code' = Append(code, [variant |-> "MovZ", chunk |-> 0, at |-> 1])
          /\ value' = value /\ is_32bit' = is_32bit /\ idx' = idx
          /\ first_nonzero_idx' = first_nonzero_idx
      BY <2>2 DEF EmitZero, Emit
    <3>2. LoadTypeOK'
      BY <3>1, ChunkAssumption DEF LoadTypeOK, MovZ
    <3>3. \A j \in 1 .. ChunkCount(is_32bit) : value[j] = 0
      BY <2>2 DEF EmitZero, ScanInv, LoadTypeOK
    <3>4. ValueLoaded'
      BY <3>1, <3>3 DEF ValueLoaded, Truncated, MovZ
    <3>5. ScanInv' /\ EmitInv'
      BY <3>1 DEF ScanInv, EmitInv
    <3>. QED BY <3>2, <3>4, <3>5
  <2>3. CASE EmitChunk
    <3>1. /\ loop = "emit" /\ loop' = "emit" /\ idx \in 1 .. ChunkCount(is_32bit)
          /\ idx' = idx + 1 /\ value' = value /\ is_32bit' = is_32bit
          /\ first_nonzero_idx' = first_nonzero_idx
      BY <2>3 DEF EmitChunk, LoadTypeOK
    <3>2. LoadTypeOK' /\ (idx' > first_nonzero_idx => reg' = Passed(idx'))
      <4>1. CASE idx = first_nonzero_idx /\ Emit("MovZ", idx, value[idx])
        <5>1. LoadTypeOK'
          BY <3>1, <4>1, ChunkAssumption DEF LoadTypeOK, Emit, MovZ
        <5>2. reg' = Passed(idx')
          BY <3>1, <4>1 DEF LoadTypeOK, EmitInv, Emit, MovZ, Passed
        <5>. QED BY <5>1, <5>2
      <4>2. CASE /\ idx # first_nonzero_idx /\ value[idx] # 0
                 /\ Emit("MovK", idx, value[idx])
        <5>1. LoadTypeOK'
          BY <3>1, <4>2, ChunkAssumption DEF LoadTypeOK, Emit, MovK
        <5>2. idx > first_nonzero_idx /\ reg = Passed(idx)
          BY <3>1, <4>2 DEF LoadTypeOK, EmitInv
        <5>3. reg' = Passed(idx')
          BY <3>1, <4>2, <5>2 DEF LoadTypeOK, Emit, MovK, Passed
        <5>. QED BY <5>1, <5>3
      <4>3. CASE idx # first_nonzero_idx /\ value[idx] = 0 /\ UNCHANGED <<code, reg>>
        <5>1. LoadTypeOK'
          BY <3>1, <4>3 DEF LoadTypeOK
        <5>2. idx > first_nonzero_idx => reg' = Passed(idx')
          BY <3>1, <4>3 DEF LoadTypeOK, EmitInv, Passed
        <5>3. idx' > first_nonzero_idx => idx > first_nonzero_idx
          BY <3>1, <4>3 DEF LoadTypeOK
        <5>. QED BY <5>1, <5>2, <5>3
      <4>. QED BY <2>3, <4>1, <4>2, <4>3 DEF EmitChunk
    <3>3. EmitInv' /\ ScanInv' /\ ValueLoaded'
      BY <3>1, <3>2 DEF EmitInv, ScanInv, ValueLoaded, Passed
    <3>. QED BY <3>2, <3>3
  <2>4. CASE Return
    <3>1. reg = Passed(idx) /\ idx = ChunkCount(is_32bit) + 1
      BY <2>4 DEF Return, LoadTypeOK, EmitInv
    <3>2. reg = Truncated
      BY <3>1 DEF Passed, Truncated
    <3>3. LoadTypeOK' /\ ScanInv' /\ EmitInv' /\ ValueLoaded'
      BY <2>4, <3>2 DEF Return, LoadTypeOK, ScanInv, EmitInv, ValueLoaded, Truncated
    <3>. QED BY <3>3
  <2>5. CASE UNCHANGED load_vars
    BY <2>5 DEF load_vars, LoadTypeOK, ScanInv, EmitInv, ValueLoaded, Truncated, Passed
  <2>. QED BY <2>1, <2>2, <2>3, <2>4, <2>5 DEF LoadNext
<1>. QED BY <1>1, <1>2, PTL DEF LoadSpec

\* MakeLoadImmediateSequence is right for all 2^64 values, both register widths
\* and every previous content of the register.
THEOREM LoadsValue == LoadSpec => []ValueLoaded
  BY LoadInvariance, PTL DEF LoadInv
=============================================================================
