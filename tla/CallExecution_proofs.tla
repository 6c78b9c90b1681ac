------------------------ MODULE CallExecution_proofs ------------------------
(***************************************************************************)
(* Proofs about the execution of calls.                                    *)
(***************************************************************************)
EXTENDS CallExecution, NaturalsBySets, SequenceTheorems

-----------------------------------------------------------------------------
(* The frame of a function: its slots lie below x29 side by side.          *)

LEMMA RoundUpTo ==
  ASSUME NEW offset \in Nat, NEW alignment \in {4, 8, 16}
  PROVE  /\ RoundUp(offset, alignment) \in Nat
         /\ RoundUp(offset, alignment) >= offset
         /\ RoundUp(offset, alignment) % alignment = 0
<1>1. CASE alignment = 4
  BY <1>1 DEF RoundUp, Padding
<1>2. CASE alignment = 8
  BY <1>2 DEF RoundUp, Padding
<1>3. CASE alignment = 16
  BY <1>3 DEF RoundUp, Padding
<1>. QED BY <1>1, <1>2, <1>3

LEMMA SignatureFacts ==
  ASSUME NEW f \in Function
  PROVE  /\ Len(Signature[f]) \in Nat /\ DOMAIN Signature[f] = 1 .. Len(Signature[f])
         /\ \A i \in DOMAIN Signature[f] : Signature[f][i] \in Type
         /\ Returns[f] \in Type
BY FunctionAssumption

LEMMA VariableFacts ==
  ASSUME NEW f \in Function
  PROVE  /\ ResultOf(f) \in Nat /\ Variables(f) = 1 .. ResultOf(f)
         /\ ResultOf(f) \in Variables(f) /\ VariableSize(f, ResultOf(f)) = 8
         /\ DOMAIN Signature[f] \subseteq Variables(f)
         /\ \A i : VariableSize(f, i) \in Size
         /\ \A i \in DOMAIN Signature[f] : VariableSize(f, i) = Signature[f][i].size
BY SignatureFacts DEF ResultOf, Variables, VariableSize, Type, Size

\* The first n variables have their slots.
SlotsPlaced(f, n, frame) ==
  /\ frame.current_offset \in Nat /\ DOMAIN frame.offsets = 1 .. n
  /\ \A i \in 1 .. n : /\ frame.offsets[i] \in Nat
                       /\ VariableSize(f, i) <= frame.offsets[i]
                       /\ frame.offsets[i] <= frame.current_offset
  /\ \A i, j \in 1 .. n : i < j => frame.offsets[i] + VariableSize(f, j) <= frame.offsets[j]

LEMMA SlotPlaced ==
  ASSUME NEW f \in Function, NEW n \in Nat, NEW frame, SlotsPlaced(f, n, frame)
  PROVE  SlotsPlaced(f, n + 1, Place(frame, n + 1, VariableSize(f, n + 1)))
<1> DEFINE size == VariableSize(f, n + 1)
           placed == Place(frame, n + 1, size)
<1>1. size \in {4, 8} /\ Alignment(size) \in {4, 8, 16}
  BY VariableFacts DEF Size, Alignment
<1>2. PICK top : top = RoundUp(frame.current_offset, Alignment(size)) + size
  OBVIOUS
<1>3. RoundUp(frame.current_offset, Alignment(size)) \in Nat
      /\ RoundUp(frame.current_offset, Alignment(size)) >= frame.current_offset
  BY <1>1, RoundUpTo DEF SlotsPlaced
<1>4. top \in Nat /\ top >= frame.current_offset + size
  BY <1>1, <1>2, <1>3 DEF SlotsPlaced
<1>0. n + 1 \notin DOMAIN frame.offsets
  BY DEF SlotsPlaced
<1>5. placed = [offsets |-> [m \in DOMAIN frame.offsets \cup {n + 1} |->
                               IF m = n + 1 THEN top ELSE frame.offsets[m]],
                current_offset |-> top]
  <2>1. placed = LET new == RoundUp(frame.current_offset, Alignment(size)) + size
                 IN  [offsets |-> [m \in DOMAIN frame.offsets \cup {n + 1} |->
                                     IF m = n + 1 THEN new ELSE frame.offsets[m]],
                      current_offset |-> new]
    BY <1>0 DEF Place
  <2>. QED BY <1>2, <2>1
<1> HIDE DEF placed
<1>6. DOMAIN placed.offsets = 1 .. n + 1 /\ placed.current_offset = top
  BY <1>5 DEF SlotsPlaced
<1>7. placed.offsets[n + 1] = top /\ \A i \in 1 .. n : placed.offsets[i] = frame.offsets[i]
  BY <1>5 DEF SlotsPlaced
<1>8. \A i \in 1 .. n + 1 : i = n + 1 \/ i \in 1 .. n
  OBVIOUS
<1>9. ASSUME NEW i \in 1 .. n + 1
      PROVE  /\ placed.offsets[i] \in Nat /\ VariableSize(f, i) <= placed.offsets[i]
             /\ placed.offsets[i] <= top
  <2>1. CASE i = n + 1
    BY <1>1, <1>4, <1>7, <2>1 DEF SlotsPlaced
  <2>2. CASE i \in 1 .. n
    <3>1. /\ frame.offsets[i] \in Nat /\ VariableSize(f, i) <= frame.offsets[i]
          /\ frame.offsets[i] <= frame.current_offset /\ frame.current_offset \in Nat
      BY <2>2 DEF SlotsPlaced
    <3>2. placed.offsets[i] = frame.offsets[i] /\ VariableSize(f, i) \in {4, 8}
      BY <1>7, <2>2, VariableFacts DEF Size
    <3>3. frame.current_offset <= top
      BY <1>1, <1>4, <3>1
    <3>. QED BY <1>4, <3>1, <3>2, <3>3
  <2>. QED BY <1>8, <2>1, <2>2
<1>10. ASSUME NEW i \in 1 .. n + 1, NEW j \in 1 .. n + 1, i < j
       PROVE  placed.offsets[i] + VariableSize(f, j) <= placed.offsets[j]
  <2>1. i \in 1 .. n
    BY <1>10
  <2>2. CASE j = n + 1
    BY <1>1, <1>4, <1>7, <2>1, <2>2 DEF SlotsPlaced
  <2>3. CASE j \in 1 .. n
    BY <1>7, <1>10, <2>1, <2>3 DEF SlotsPlaced
  <2>. QED BY <1>8, <2>2, <2>3
<1>11. SlotsPlaced(f, n + 1, placed)
  BY <1>4, <1>6, <1>9, <1>10 DEF SlotsPlaced
<1>. QED BY <1>11 DEF placed

LEMMA FrameIsPlaced ==
  ASSUME NEW f \in Function
  PROVE  SlotsPlaced(f, ResultOf(f), Frame[f])
<1> DEFINE N == ResultOf(f)
           Rule(g, n) == g = [i \in 0 .. n |-> IF i = 0 THEN EmptyFrame
                                ELSE Place(g[i - 1], i, VariableSize(f, i))]
           S == {n \in Nat : \E g : Rule(g, n)}
<1>1. N \in Nat
  BY VariableFacts
<1>2. 0 \in S
  <2>1. Rule([i \in 0 .. 0 |-> EmptyFrame], 0)
    OBVIOUS
  <2>. QED BY <2>1
<1>3. ASSUME NEW n \in Nat, n \in S PROVE n + 1 \in S
  <2>1. PICK g : Rule(g, n)
    BY <1>3
  <2> DEFINE h == [i \in 0 .. n + 1 |-> IF i = n + 1 THEN Place(g[n], n + 1, VariableSize(f, n + 1))
                                         ELSE g[i]]
  <2>2. \A i \in 0 .. n : h[i] = g[i]
    OBVIOUS
  <2>3. ASSUME NEW i \in 0 .. n + 1
        PROVE  h[i] = IF i = 0 THEN EmptyFrame ELSE Place(h[i - 1], i, VariableSize(f, i))
    <3>1. CASE i = n + 1
      BY <2>2, <3>1
    <3>2. CASE i \in 1 .. n
      <4>1. h[i] = g[i] /\ h[i - 1] = g[i - 1]
        BY <2>2, <3>2
      <4>. QED BY <2>1, <3>2, <4>1
    <3>3. CASE i = 0
      BY <2>1, <2>2, <3>3
    <3>. QED BY <3>1, <3>2, <3>3
  <2>4. h = [i \in 0 .. n + 1 |-> h[i]]
    OBVIOUS
  <2> HIDE DEF h
  <2>5. Rule(h, n + 1)
    BY <2>3, <2>4
  <2>. QED BY <2>5
<1>4. \A n \in Nat : n \in S
  BY <1>2, <1>3, SetInduction
<1>5. \E r : Rule(r, N)
  BY <1>1, <1>4
<1>6. Frame[f] = (CHOOSE r : Rule(r, N))[N]
  BY DEF Frame
<1>7. PICK g : Rule(g, N) /\ Frame[f] = g[N]
  BY <1>5, <1>6
<1> DEFINE T == {n \in Nat : n <= N => SlotsPlaced(f, n, g[n])}
<1>8. 0 \in T
  BY <1>1, <1>7 DEF SlotsPlaced, EmptyFrame
<1>9. ASSUME NEW n \in Nat, n \in T PROVE n + 1 \in T
  <2>1. CASE n + 1 <= N
    <3>1. g[n + 1] = Place(g[n], n + 1, VariableSize(f, n + 1)) /\ SlotsPlaced(f, n, g[n])
      <4>1. n \in 0 .. N /\ n + 1 \in 0 .. N /\ n + 1 # 0 /\ n + 1 - 1 = n
        BY <1>1, <2>1
      <4>2. g[n + 1] = Place(g[n + 1 - 1], n + 1, VariableSize(f, n + 1))
        BY <1>7, <4>1
      <4>. QED BY <1>1, <1>9, <2>1, <4>1, <4>2
    <3>. QED BY <3>1, SlotPlaced
  <2>. QED BY <2>1
<1>10. \A n \in Nat : n \in T
  BY <1>8, <1>9, SetInduction
<1> HIDE DEF N
<1>11. N <= N => SlotsPlaced(f, N, g[N])
  BY <1>1, <1>10
<1>. QED BY <1>1, <1>7, <1>11 DEF N

LEMMA FrameFacts ==
  ASSUME NEW f \in Function
  PROVE  /\ FrameSize(f) \in Nat /\ FrameSize(f) % 16 = 0 /\ FrameSize(f) >= 16
         /\ \A i \in Variables(f) :
              /\ Frame[f].offsets[i] \in Nat /\ VariableSize(f, i) \in {4, 8}
              /\ VariableSize(f, i) <= Frame[f].offsets[i] /\ Frame[f].offsets[i] <= FrameSize(f)
         /\ \A i, j \in Variables(f) :
              i < j => Frame[f].offsets[i] + VariableSize(f, j) <= Frame[f].offsets[j]
<1>1. SlotsPlaced(f, ResultOf(f), Frame[f])
  BY FrameIsPlaced
<1>2. /\ FrameSize(f) \in Nat /\ FrameSize(f) % 16 = 0
      /\ FrameSize(f) >= Frame[f].current_offset
  BY <1>1, RoundUpTo DEF SlotsPlaced, FrameSize, AlignedFrameSize
<1>3. ASSUME NEW i \in Variables(f)
      PROVE  /\ Frame[f].offsets[i] \in Nat /\ VariableSize(f, i) \in {4, 8}
             /\ VariableSize(f, i) <= Frame[f].offsets[i] /\ Frame[f].offsets[i] <= FrameSize(f)
  <2>1. /\ Frame[f].offsets[i] \in Nat /\ VariableSize(f, i) <= Frame[f].offsets[i]
        /\ Frame[f].offsets[i] <= Frame[f].current_offset /\ Frame[f].current_offset \in Nat
    BY <1>1, VariableFacts DEF SlotsPlaced
  <2>2. VariableSize(f, i) \in {4, 8}
    BY VariableFacts DEF Size
  <2>. QED BY <1>2, <2>1, <2>2
<1>4. FrameSize(f) >= 8
  BY <1>2, <1>3, VariableFacts
<1>5. FrameSize(f) >= 16
  BY <1>2, <1>4
<1>6. \A i, j \in Variables(f) :
        i < j => Frame[f].offsets[i] + VariableSize(f, j) <= Frame[f].offsets[j]
  BY <1>1, VariableFacts DEF SlotsPlaced
<1>. QED BY <1>2, <1>3, <1>5, <1>6

-----------------------------------------------------------------------------
(* The places of arguments.                                                *)

LEMMA HandlerAdvances ==
  ASSUME NEW f \in Function
  PROVE  /\ Handler[f][0] = Reset
         /\ \A i \in 1 .. Len(Signature[f]) :
              Handler[f][i] = Advance(Handler[f][i - 1], Signature[f][i])
<1> DEFINE N == Len(Signature[f])
           Rule(g, n) == g = [i \in 0 .. n |-> IF i = 0 THEN Reset
                                ELSE Advance(g[i - 1], Signature[f][i])]
           S == {n \in Nat : \E g : Rule(g, n)}
<1>1. N \in Nat
  BY SignatureFacts
<1>2. 0 \in S
  <2>1. Rule([i \in 0 .. 0 |-> Reset], 0)
    OBVIOUS
  <2>. QED BY <2>1
<1>3. ASSUME NEW n \in Nat, n \in S PROVE n + 1 \in S
  <2>1. PICK g : Rule(g, n)
    BY <1>3
  <2> DEFINE h == [i \in 0 .. n + 1 |-> IF i = n + 1 THEN Advance(g[n], Signature[f][n + 1])
                                         ELSE g[i]]
  <2>2. \A i \in 0 .. n : h[i] = g[i]
    OBVIOUS
  <2>3. ASSUME NEW i \in 0 .. n + 1
        PROVE  h[i] = IF i = 0 THEN Reset ELSE Advance(h[i - 1], Signature[f][i])
    <3>1. CASE i = n + 1
      BY <2>2, <3>1
    <3>2. CASE i \in 1 .. n
      <4>1. h[i] = g[i] /\ h[i - 1] = g[i - 1]
        BY <2>2, <3>2
      <4>. QED BY <2>1, <3>2, <4>1
    <3>3. CASE i = 0
      BY <2>1, <2>2, <3>3
    <3>. QED BY <3>1, <3>2, <3>3
  <2>4. h = [i \in 0 .. n + 1 |-> h[i]]
    OBVIOUS
  <2> HIDE DEF h
  <2>5. Rule(h, n + 1)
    BY <2>3, <2>4
  <2>. QED BY <2>5
<1>4. \A n \in Nat : n \in S
  BY <1>2, <1>3, SetInduction
<1>5. \E r : Rule(r, N)
  BY <1>1, <1>4
<1>6. Handler[f] = CHOOSE r : Rule(r, N)
  BY DEF Handler
<1>7. Rule(Handler[f], N)
  BY <1>5, <1>6
<1> HIDE DEF N
<1>8. Handler[f][0] = Reset
  BY <1>1, <1>7
<1>9. \A i \in 1 .. N : Handler[f][i] = Advance(Handler[f][i - 1], Signature[f][i])
  BY <1>1, <1>7
<1>. QED BY <1>8, <1>9 DEF N

\* The handler has handed out a location.
Given(location, abi) ==
  CASE location.kind = "gp"    -> location.at \in Nat /\ location.at < abi.gp
    [] location.kind = "simd"  -> location.at \in Nat /\ location.at < abi.simd
    [] location.kind = "stack" -> location.at \in Nat /\ location.at + SlotSize <= abi.stack

Within(abi) == abi \in ABI /\ abi.gp <= MaxGPRegs /\ abi.simd <= MaxSIMDRegs

\* The next location is one the handler has not handed out before.
LEMMA NextGiven ==
  ASSUME NEW abi, Within(abi), NEW type \in Type
  PROVE  LET next == NextCallArgument(abi, type)
         IN  /\ Within(Advance(abi, type))
             /\ next.kind \in {"gp", "simd", "stack"} /\ Given(next, Advance(abi, type))
             /\ next.kind # "stack" => next \in Register
             /\ next = [kind |-> next.kind, at |-> next.at]
             /\ \A location : /\ location.kind \in {"gp", "simd", "stack"}
                              /\ Given(location, abi)
                  => /\ Given(location, Advance(abi, type))
                     /\ location.kind = next.kind => location.at # next.at
                     /\ location.kind = next.kind /\ next.kind = "stack" =>
                          location.at + SlotSize <= next.at
             /\ NextFormalParameter(abi, type) =
                  IF next.kind = "stack"
                  THEN [kind |-> "stack", at |-> FrameRecordSize + next.at] ELSE next
<1>1. /\ abi.gp \in Nat /\ abi.simd \in Nat /\ abi.stack \in Nat
      /\ abi = [gp |-> abi.gp, simd |-> abi.simd, stack |-> abi.stack]
      /\ abi.gp <= MaxGPRegs /\ abi.simd <= MaxSIMDRegs
      /\ MaxGPRegs \in Nat /\ MaxSIMDRegs \in Nat /\ SlotSize = 8
  BY RegsAssumption DEF Within, ABI, SlotSize
<1> DEFINE next  == NextCallArgument(abi, type)
           after == Advance(abi, type)
<1>2. CASE ~ InRegister(abi, type)
  <2>1. /\ next = [kind |-> "stack", at |-> abi.stack]
        /\ after = [gp |-> abi.gp, simd |-> abi.simd, stack |-> abi.stack + 8]
    BY <1>1, <1>2 DEF Advance, NextCallArgument, InRegister
  <2>2. /\ next.kind = "stack" /\ next.at = abi.stack /\ next = [kind |-> next.kind, at |-> next.at]
    BY <2>1
  <2>3. after.gp = abi.gp /\ after.simd = abi.simd /\ after.stack = abi.stack + 8 /\ after \in ABI
    BY <1>1, <2>1 DEF ABI
  <2>4. NextFormalParameter(abi, type) = IF next.kind = "stack"
          THEN [kind |-> "stack", at |-> FrameRecordSize + next.at] ELSE next
    BY <1>2, <2>1, <2>2 DEF NextFormalParameter
  <2>5. next.kind # "stack" => next \in Register
    BY <1>1, <2>1, <2>2 DEF Register
  <2> HIDE DEF next, after
  <2>6. Within(after)
    BY <1>1, <2>1, <2>3 DEF Within
  <2>7. Given(next, after)
    BY <1>1, <2>2, <2>3 DEF Given
  <2>8. ASSUME NEW location, location.kind \in {"gp", "simd", "stack"}, Given(location, abi)
        PROVE  /\ Given(location, after)
               /\ location.kind = next.kind => location.at # next.at
               /\ location.kind = next.kind /\ next.kind = "stack" =>
                    location.at + SlotSize <= next.at
    <3>1. CASE location.kind = "gp"
      BY <1>1, <2>2, <2>3, <2>8, <3>1 DEF Given
    <3>2. CASE location.kind = "simd"
      BY <1>1, <2>2, <2>3, <2>8, <3>2 DEF Given
    <3>3. CASE location.kind = "stack"
      BY <1>1, <2>2, <2>3, <2>8, <3>3 DEF Given
    <3>. QED BY <2>8, <3>1, <3>2, <3>3
  <2>. QED BY <2>2, <2>4, <2>5, <2>6, <2>7, <2>8 DEF next, after
<1>3. CASE InRegister(abi, type) /\ type.float
  <2>1. /\ next = [kind |-> "simd", at |-> abi.simd]
        /\ after = [gp |-> abi.gp, simd |-> abi.simd + 1, stack |-> abi.stack]
        /\ abi.simd < MaxSIMDRegs
    BY <1>1, <1>3 DEF Advance, NextCallArgument, InRegister
  <2>2. /\ next.kind = "simd" /\ next.at = abi.simd /\ next = [kind |-> next.kind, at |-> next.at]
    BY <2>1
  <2>3. after.gp = abi.gp /\ after.simd = abi.simd + 1 /\ after.stack = abi.stack /\ after \in ABI
    BY <1>1, <2>1 DEF ABI
  <2>4. NextFormalParameter(abi, type) = IF next.kind = "stack"
          THEN [kind |-> "stack", at |-> FrameRecordSize + next.at] ELSE next
    BY <1>3, <2>1, <2>2 DEF NextFormalParameter
  <2>5. next.kind # "stack" => next \in Register
    BY <1>1, <2>1, <2>2 DEF Register
  <2> HIDE DEF next, after
  <2>6. Within(after)
    BY <1>1, <2>1, <2>3 DEF Within
  <2>7. Given(next, after)
    BY <1>1, <2>2, <2>3 DEF Given
  <2>8. ASSUME NEW location, location.kind \in {"gp", "simd", "stack"}, Given(location, abi)
        PROVE  /\ Given(location, after)
               /\ location.kind = next.kind => location.at # next.at
               /\ location.kind = next.kind /\ next.kind = "stack" =>
                    location.at + SlotSize <= next.at
    <3>1. CASE location.kind = "gp"
      BY <1>1, <2>2, <2>3, <2>8, <3>1 DEF Given
    <3>2. CASE location.kind = "simd"
      BY <1>1, <2>2, <2>3, <2>8, <3>2 DEF Given
    <3>3. CASE location.kind = "stack"
      BY <1>1, <2>2, <2>3, <2>8, <3>3 DEF Given
    <3>. QED BY <2>8, <3>1, <3>2, <3>3
  <2>. QED BY <2>2, <2>4, <2>5, <2>6, <2>7, <2>8 DEF next, after
<1>4. CASE InRegister(abi, type) /\ ~ type.float
  <2>1. /\ next = [kind |-> "gp", at |-> abi.gp]
        /\ after = [gp |-> abi.gp + 1, simd |-> abi.simd, stack |-> abi.stack]
        /\ abi.gp < MaxGPRegs
    BY <1>1, <1>4 DEF Advance, NextCallArgument, InRegister
  <2>2. /\ next.kind = "gp" /\ next.at = abi.gp /\ next = [kind |-> next.kind, at |-> next.at]
    BY <2>1
  <2>3. after.gp = abi.gp + 1 /\ after.simd = abi.simd /\ after.stack = abi.stack /\ after \in ABI
    BY <1>1, <2>1 DEF ABI
  <2>4. NextFormalParameter(abi, type) = IF next.kind = "stack"
          THEN [kind |-> "stack", at |-> FrameRecordSize + next.at] ELSE next
    BY <1>4, <2>1, <2>2 DEF NextFormalParameter
  <2>5. next.kind # "stack" => next \in Register
    BY <1>1, <2>1, <2>2 DEF Register
  <2> HIDE DEF next, after
  <2>6. Within(after)
    BY <1>1, <2>1, <2>3 DEF Within
  <2>7. Given(next, after)
    BY <1>1, <2>2, <2>3 DEF Given
  <2>8. ASSUME NEW location, location.kind \in {"gp", "simd", "stack"}, Given(location, abi)
        PROVE  /\ Given(location, after)
               /\ location.kind = next.kind => location.at # next.at
               /\ location.kind = next.kind /\ next.kind = "stack" =>
                    location.at + SlotSize <= next.at
    <3>1. CASE location.kind = "gp"
      BY <1>1, <2>2, <2>3, <2>8, <3>1 DEF Given
    <3>2. CASE location.kind = "simd"
      BY <1>1, <2>2, <2>3, <2>8, <3>2 DEF Given
    <3>3. CASE location.kind = "stack"
      BY <1>1, <2>2, <2>3, <2>8, <3>3 DEF Given
    <3>. QED BY <2>8, <3>1, <3>2, <3>3
  <2>. QED BY <2>2, <2>4, <2>5, <2>6, <2>7, <2>8 DEF next, after
<1>. QED BY <1>2, <1>3, <1>4

LEMMA ArgumentGiven ==
  ASSUME NEW f \in Function, NEW i \in DOMAIN Signature[f]
  PROVE  /\ CallArguments[f][i] = NextCallArgument(Handler[f][i - 1], Signature[f][i])
         /\ FormalParameters[f][i] = NextFormalParameter(Handler[f][i - 1], Signature[f][i])
         /\ Handler[f][i] = Advance(Handler[f][i - 1], Signature[f][i])
         /\ Signature[f][i] \in Type
         /\ DOMAIN CallArguments[f] = DOMAIN Signature[f]
BY SignatureFacts, HandlerAdvances DEF CallArguments, FormalParameters

LEMMA HandlerGives ==
  ASSUME NEW f \in Function
  PROVE  \A n \in 0 .. Len(Signature[f]) :
           /\ Within(Handler[f][n])
           /\ \A i \in 1 .. n : /\ CallArguments[f][i].kind \in {"gp", "simd", "stack"}
                                /\ Given(CallArguments[f][i], Handler[f][n])
<1> DEFINE N == Len(Signature[f])
           Gives(n) == /\ Within(Handler[f][n])
                       /\ \A i \in 1 .. n : /\ CallArguments[f][i].kind \in {"gp", "simd", "stack"}
                                            /\ Given(CallArguments[f][i], Handler[f][n])
           S == {n \in Nat : n <= N => Gives(n)}
<1>1. N \in Nat /\ DOMAIN Signature[f] = 1 .. N
  BY SignatureFacts
<1>2. 0 \in S
  BY HandlerAdvances, RegsAssumption DEF Within, Reset, ABI
<1>3. ASSUME NEW n \in Nat, n \in S PROVE n + 1 \in S
  <2>1. SUFFICES ASSUME n + 1 <= N PROVE Gives(n + 1)
    OBVIOUS
  <2>2. n + 1 \in DOMAIN Signature[f] /\ n + 1 - 1 = n /\ Gives(n)
    BY <1>1, <1>3, <2>1
  <2>3. PICK abi : abi = Handler[f][n]
    OBVIOUS
  <2>4. PICK type \in Type : type = Signature[f][n + 1]
    BY <2>2, SignatureFacts
  <2>5. /\ CallArguments[f][n + 1] = NextCallArgument(abi, type)
        /\ Handler[f][n + 1] = Advance(abi, type) /\ Within(abi)
    BY <2>2, <2>3, <2>4, ArgumentGiven
  <2>6. /\ Within(Handler[f][n + 1]) /\ Given(CallArguments[f][n + 1], Handler[f][n + 1])
        /\ CallArguments[f][n + 1].kind \in {"gp", "simd", "stack"}
    BY <2>5, NextGiven
  <2>7. ASSUME NEW i \in 1 .. n
        PROVE  /\ CallArguments[f][i].kind \in {"gp", "simd", "stack"}
               /\ Given(CallArguments[f][i], Handler[f][n + 1])
    BY <2>2, <2>3, <2>5, NextGiven
  <2>8. \A i \in 1 .. n + 1 : i = n + 1 \/ i \in 1 .. n
    OBVIOUS
  <2>. QED BY <2>6, <2>7, <2>8
<1>4. \A n \in Nat : n \in S
  BY <1>2, <1>3, SetInduction
<1>. QED BY <1>1, <1>4

\* Where the arguments of a call are, for the caller and for the callee: in
\* registers of their own, or side by side in the bytes sp was lowered by.
LEMMA ArgumentPlaces ==
  ASSUME NEW f \in Function
  PROVE  /\ CallBytes(f) \in Nat /\ CallBytes(f) % 16 = 0
         /\ DOMAIN CallArguments[f] = DOMAIN Signature[f]
         /\ \A i \in DOMAIN Signature[f] :
              /\ CallArguments[f][i].kind # "stack" =>
                   CallArguments[f][i] \in Register /\ FormalParameters[f][i] = CallArguments[f][i]
              /\ CallArguments[f][i].kind = "stack" =>
                   /\ CallArguments[f][i].at \in Nat
                   /\ CallArguments[f][i].at + 8 <= CallBytes(f)
                   /\ FormalParameters[f][i].kind = "stack"
                   /\ FormalParameters[f][i].at = 16 + CallArguments[f][i].at
         /\ \A i, j \in DOMAIN Signature[f] :
              i < j /\ CallArguments[f][i].kind = CallArguments[f][j].kind =>
                /\ CallArguments[f][i] # CallArguments[f][j]
                /\ CallArguments[f][i].kind = "stack" =>
                     CallArguments[f][i].at + 8 <= CallArguments[f][j].at
<1> DEFINE N == Len(Signature[f])
<1>1. N \in Nat /\ DOMAIN Signature[f] = 1 .. N
  BY SignatureFacts
<1>2. /\ CallBytes(f) \in Nat /\ CallBytes(f) % 16 = 0
      /\ Handler[f][N].stack \in Nat /\ CallBytes(f) >= Handler[f][N].stack
  <2>1. Handler[f][N].stack \in Nat
    BY <1>1, HandlerGives DEF Within, ABI
  <2>. QED BY <2>1, RoundUpTo DEF CallBytes, StackArgsSize
<1>3. ASSUME NEW j \in DOMAIN Signature[f]
      PROVE  /\ CallArguments[f][j].kind # "stack" =>
                  CallArguments[f][j] \in Register /\ FormalParameters[f][j] = CallArguments[f][j]
             /\ CallArguments[f][j].kind = "stack" =>
                  /\ CallArguments[f][j].at \in Nat
                  /\ CallArguments[f][j].at + 8 <= CallBytes(f)
                  /\ FormalParameters[f][j].kind = "stack"
                  /\ FormalParameters[f][j].at = 16 + CallArguments[f][j].at
             /\ \A i \in DOMAIN Signature[f] :
                  i < j /\ CallArguments[f][i].kind = CallArguments[f][j].kind =>
                    /\ CallArguments[f][i] # CallArguments[f][j]
                    /\ CallArguments[f][i].kind = "stack" =>
                         CallArguments[f][i].at + 8 <= CallArguments[f][j].at
  <2>1. PICK abi : abi = Handler[f][j - 1]
    OBVIOUS
  <2>2. PICK type \in Type : type = Signature[f][j]
    BY SignatureFacts
  <2>3. /\ CallArguments[f][j] = NextCallArgument(abi, type)
        /\ FormalParameters[f][j] = NextFormalParameter(abi, type)
        /\ Within(abi) /\ j - 1 \in 0 .. N
    BY <1>1, <2>1, <2>2, ArgumentGiven, HandlerGives
  <2>4. Given(CallArguments[f][j], Handler[f][N])
    BY <1>1, HandlerGives
  <2>5. CallArguments[f][j].kind # "stack" =>
          CallArguments[f][j] \in Register /\ FormalParameters[f][j] = CallArguments[f][j]
    BY <2>3, NextGiven
  <2>6. CallArguments[f][j].kind = "stack" =>
          FormalParameters[f][j] = [kind |-> "stack", at |-> FrameRecordSize + CallArguments[f][j].at]
    BY <2>3, NextGiven
  <2>7. CallArguments[f][j].kind = "stack" =>
          CallArguments[f][j].at \in Nat /\ CallArguments[f][j].at + 8 <= Handler[f][N].stack
    BY <2>4 DEF Given, SlotSize
  <2>8. ASSUME NEW i \in DOMAIN Signature[f], i < j,
               CallArguments[f][i].kind = CallArguments[f][j].kind
        PROVE  /\ CallArguments[f][i] # CallArguments[f][j]
               /\ CallArguments[f][i].kind = "stack" =>
                    CallArguments[f][i].at + 8 <= CallArguments[f][j].at
    <3>1. i \in 1 .. j - 1
      BY <1>1, <2>8
    <3>2. /\ CallArguments[f][i].kind \in {"gp", "simd", "stack"}
          /\ Given(CallArguments[f][i], abi)
      BY <2>1, <2>3, <3>1, HandlerGives
    <3>3. /\ CallArguments[f][i].at # CallArguments[f][j].at
          /\ CallArguments[f][j].kind = "stack" =>
               CallArguments[f][i].at + SlotSize <= CallArguments[f][j].at
      BY <2>3, <2>8, <3>2, NextGiven
    <3>. QED BY <2>8, <3>3 DEF SlotSize
  <2>9. CallArguments[f][j].kind = "stack" => CallArguments[f][j].at + 8 <= CallBytes(f)
    BY <1>2, <2>7
  <2>10. CallArguments[f][j].kind = "stack" =>
           FormalParameters[f][j].kind = "stack" /\ FormalParameters[f][j].at = 16 + CallArguments[f][j].at
    BY <2>6 DEF FrameRecordSize
  <2>. QED BY <2>5, <2>7, <2>8, <2>9, <2>10
<1>4. DOMAIN CallArguments[f] = DOMAIN Signature[f]
  BY DEF CallArguments
<1>. QED BY <1>2, <1>3, <1>4

-----------------------------------------------------------------------------
(* Memory.                                                                 *)

LEMMA LoadStored ==
  ASSUME NEW m, NEW address \in Int, NEW size \in {4, 8}, NEW value
  PROVE  Load(Store(m, address, size, value), address, size) = value
<1>1. Words(address, size) \subseteq DOMAIN Store(m, address, size, value)
  BY DEF Store
<1>2. \A a \in Words(address, size) :
        Store(m, address, size, value)[a] = <<a - address, value>>
  BY DEF Store
<1>3. address \in Words(address, size)
  BY DEF Words
<1>4. Store(m, address, size, value)[address][2] = value
  BY <1>2, <1>3
<1> HIDE DEF Store
<1>. QED BY <1>1, <1>2, <1>4 DEF Load

LEMMA LoadBeside ==
  ASSUME NEW m, NEW address \in Int, NEW size \in {4, 8}, NEW value,
         NEW other \in Int, NEW width \in {4, 8},
         other + width <= address \/ address + size <= other
  PROVE  Load(Store(m, address, size, value), other, width) = Load(m, other, width)
<1>1. Words(address, size) \cap Words(other, width) = {}
  BY DEF Words
<1>2. Words(other, width) \subseteq DOMAIN Store(m, address, size, value)
        <=> Words(other, width) \subseteq DOMAIN m
  BY <1>1 DEF Store
<1>3. Words(other, width) \subseteq DOMAIN m =>
        \A a \in Words(other, width) : Store(m, address, size, value)[a] = m[a]
  BY <1>1 DEF Store
<1>4. other \in Words(other, width)
  BY DEF Words
<1> HIDE DEF Store
<1>. QED BY <1>2, <1>3, <1>4 DEF Load

LEMMA LoadBelow ==
  ASSUME NEW m, NEW address \in Int, NEW size \in Int, size >= 4, NEW value,
         NEW other \in Int, NEW width \in Int, width >= 4, other + width <= address
  PROVE  Load(Store(m, address, size, value), other, width) = Load(m, other, width)
<1>1. Words(address, size) \cap Words(other, width) = {}
  BY DEF Words
<1>2. Words(other, width) \subseteq DOMAIN Store(m, address, size, value)
        <=> Words(other, width) \subseteq DOMAIN m
  BY <1>1 DEF Store
<1>3. Words(other, width) \subseteq DOMAIN m =>
        \A a \in Words(other, width) : Store(m, address, size, value)[a] = m[a]
  BY <1>1 DEF Store
<1>4. other \in Words(other, width)
  BY DEF Words
<1> HIDE DEF Store
<1>. QED BY <1>2, <1>3, <1>4 DEF Load

LEMMA LoadPopped ==
  ASSUME NEW m, NEW bottom \in Int, NEW address \in Int, NEW size \in {4, 8},
         bottom <= address
  PROVE  Load(Popped(m, bottom), address, size) = Load(m, address, size)
<1>1. /\ DOMAIN Popped(m, bottom) = {a \in DOMAIN m : a >= bottom}
      /\ \A a \in DOMAIN Popped(m, bottom) : Popped(m, bottom)[a] = m[a]
  BY DEF Popped, Restrict
<1>2. \A a \in Words(address, size) : a >= bottom
  BY DEF Words
<1>3. address \in Words(address, size)
  BY DEF Words
<1> HIDE DEF Popped
<1>. QED BY <1>1, <1>2, <1>3 DEF Load

LEMMA LoadUnwritten ==
  ASSUME NEW m, NEW address, NEW size, address \notin DOMAIN m
  PROVE  Load(m, address, size) = Junk
BY DEF Load, Words

\* What is in memory lies at `bottom` or above.
Above(m, bottom) == \A a \in DOMAIN m : a \in Int /\ a >= bottom

LEMMA StoreAbove ==
  ASSUME NEW m, NEW bottom \in Int, Above(m, bottom), NEW address \in Int, address >= bottom,
         NEW size \in {4, 8}, NEW value
  PROVE  Above(Store(m, address, size, value), bottom)
BY DEF Above, Store, Words

LEMMA PoppedAbove ==
  ASSUME NEW m, NEW bottom \in Int, NEW old, Above(m, old)
  PROVE  Above(Popped(m, bottom), bottom)
BY DEF Above, Popped, Restrict

-----------------------------------------------------------------------------
(* The inductive invariant: there are activations with these frames, the   *)
(* first one's first, although nobody but the records in memory knows.     *)

\* Where the activation returns to, and the frame pointer it saved.
ReturnsTo(acts, i) ==
  IF i = 1 THEN Exit ELSE ReturnAddress(acts[i - 1].function, acts[i].function)
FramePointerBelow(acts, i) == IF i = 1 THEN 0 ELSE acts[i - 1].frame_pointer

FrameEnd(act) == act.frame_pointer - FrameSize(act.function)

\* The frames lie side by side from the end of the stack on, with the stack
\* arguments of the calls between them.
FramesLie(acts) ==
  /\ acts \in Seq([function : Function, frame_pointer : Int])
  /\ \A i \in 1 .. Len(acts) :
       /\ acts[i].frame_pointer % 16 = 0
       /\ -StackBytes <= FrameEnd(acts[i])
       /\ acts[i].frame_pointer <= -16 - 32 * (i - 1)
       /\ i > 1 => /\ acts[i].function # Main
                   /\ acts[i].frame_pointer + FrameRecordSize + CallBytes(acts[i].function)
                        = FrameEnd(acts[i - 1])
  /\ Len(acts) > 0 => acts[1].function = Main /\ acts[1].frame_pointer = -16
  /\ \A i, j \in 1 .. Len(acts) :
       i < j => acts[j].frame_pointer + FrameRecordSize <= FrameEnd(acts[i])

RecordsLink(acts, m) ==
  \A i \in 1 .. Len(acts) :
    /\ Load(m, acts[i].frame_pointer, 8) = <<"pointer", FramePointerBelow(acts, i)>>
    /\ Load(m, acts[i].frame_pointer + 8, 8) = ReturnsTo(acts, i)

\* x29 and pc are those of the last activation.
OnTop(acts, f) ==
  /\ Len(acts) > 0
  /\ acts[Len(acts)].function = f /\ acts[Len(acts)].frame_pointer = x29

InBody(acts) ==
  /\ OnTop(acts, pc.function)
  /\ sp = FrameEnd(acts[Len(acts)])

\* A function that has been called, or Main at the start.
AtEntry(acts) ==
  /\ pc.function \in Function
  /\ -StackBytes <= sp - FrameRecordSize - FrameSize(pc.function)
  /\ IF Len(acts) = 0
     THEN pc.function = Main /\ x29 = 0 /\ x30 = Exit /\ sp = 0
     ELSE /\ pc.function # Main /\ x29 = acts[Len(acts)].frame_pointer
          /\ x30 = ReturnAddress(acts[Len(acts)].function, pc.function)
          /\ sp + CallBytes(pc.function) = FrameEnd(acts[Len(acts)])

AfterReturn(acts) ==
  /\ OnTop(acts, pc.function)
  /\ \E g \in Function \ {Main} : /\ x30 = ReturnAddress(pc.function, g)
                                 /\ sp + CallBytes(g) = FrameEnd(acts[Len(acts)])

AtExit(acts) == Len(acts) = 0 /\ sp = 0 /\ x29 = 0

Running(acts) ==
  /\ FramesLie(acts) /\ RecordsLink(acts, mem)
  /\ sp \in Int /\ sp % 16 = 0 /\ Above(mem, sp)
  /\ \/ pc.at = "entry"    /\ AtEntry(acts)
     \/ pc.at = "body"     /\ InBody(acts)
     \/ pc.at = "returned" /\ AfterReturn(acts)
     \/ pc.at = "exit"     /\ AtExit(acts)

IInv == \E acts : Running(acts)

LEMMA ActFacts ==
  ASSUME NEW acts, FramesLie(acts), NEW i \in 1 .. Len(acts)
  PROVE  /\ Len(acts) \in Nat
         /\ acts[i].function \in Function /\ acts[i].frame_pointer \in Int
         /\ acts[i] = [function |-> acts[i].function, frame_pointer |-> acts[i].frame_pointer]
         /\ FrameSize(acts[i].function) \in Nat /\ FrameSize(acts[i].function) >= 16
         /\ FrameEnd(acts[i]) \in Int /\ FrameEnd(acts[i]) <= acts[i].frame_pointer - 16
<1>1. acts \in Seq([function : Function, frame_pointer : Int])
  BY DEF FramesLie
<1> DEFINE T == [function : Function, frame_pointer : Int]
<1>0. Len(acts) \in Nat /\ acts \in [1 .. Len(acts) -> T]
  <2> HIDE DEF T
  <2>1. acts \in Seq(T)
    BY <1>1 DEF T
  <2>. QED BY <2>1
<1>2. Len(acts) \in Nat /\ acts[i] \in [function : Function, frame_pointer : Int]
  BY <1>0
<1>3. acts[i].function \in Function /\ acts[i].frame_pointer \in Int
  BY <1>2
<1>4. FrameSize(acts[i].function) \in Nat /\ FrameSize(acts[i].function) >= 16
  BY <1>3, FrameFacts
<1>5. FrameEnd(acts[i]) \in Int /\ FrameEnd(acts[i]) <= acts[i].frame_pointer - 16
  BY <1>3, <1>4 DEF FrameEnd
<1>. QED BY <1>2, <1>3, <1>4, <1>5

\* The records lead from one frame to the next.
LEMMA RecordsRead ==
  ASSUME NEW acts, NEW m, FramesLie(acts), RecordsLink(acts, m), NEW i \in 1 .. Len(acts)
  PROVE  /\ SavedX29(m, acts[i].frame_pointer) = FramePointerBelow(acts, i)
         /\ SavedX30(m, acts[i].frame_pointer) = ReturnsTo(acts, i)
         /\ IF i = 1 THEN Caller(ReturnsTo(acts, i)) = Junk /\ ReturnsTo(acts, i) = Exit
            ELSE /\ Caller(ReturnsTo(acts, i)) = acts[i - 1].function
                 /\ acts[i - 1].function # Junk /\ ReturnsTo(acts, i) # Exit
<1>1. Len(acts) \in Nat /\ acts[i].function \in Function
  BY ActFacts
<1>2. /\ Load(m, acts[i].frame_pointer, 8) = <<"pointer", FramePointerBelow(acts, i)>>
      /\ Load(m, acts[i].frame_pointer + 8, 8) = ReturnsTo(acts, i)
  BY DEF RecordsLink
<1>3. CASE i = 1
  <2>1. FramePointerBelow(acts, i) = 0 /\ ReturnsTo(acts, i) = Exit
    BY <1>3 DEF FramePointerBelow, ReturnsTo
  <2>2. SavedX30(m, acts[i].frame_pointer) = Exit /\ Caller(Exit) = Junk
    BY <1>2, <2>1 DEF SavedX30, Caller
  <2>3. SavedX29(m, acts[i].frame_pointer) = 0
    BY <1>2, <2>1 DEF SavedX29
  <2>. QED BY <1>3, <2>1, <2>2, <2>3
<1>4. CASE i # 1
  <2>1. i > 1 /\ i - 1 \in 1 .. Len(acts) /\ acts[i].function # Main
    BY <1>1, <1>4 DEF FramesLie
  <2>2. PICK f \in Function : f = acts[i - 1].function
    BY <2>1, ActFacts
  <2>3. PICK g \in Function : g = acts[i].function /\ g # Main
    BY <1>1, <2>1
  <2>4. ReturnsTo(acts, i) = ReturnAddress(f, g)
    BY <1>4, <2>2, <2>3 DEF ReturnsTo
  <2>5. /\ ReturnAddress(f, g) \in ReturnAddresses /\ ReturnAddress(f, g) # Exit
        /\ Caller(ReturnAddress(f, g)) = f /\ f # Junk
    BY <2>3, FunctionAssumption DEF ReturnAddresses, ReturnAddress, Exit, Caller
  <2>6. PICK p \in Int : /\ p = acts[i - 1].frame_pointer /\ p % 16 = 0
                         /\ p <= -16 /\ p >= -StackBytes
    <3>1. /\ acts[i - 1].frame_pointer \in Int /\ acts[i - 1].frame_pointer % 16 = 0
          /\ acts[i - 1].frame_pointer <= -16 - 32 * (i - 1 - 1)
          /\ -StackBytes <= FrameEnd(acts[i - 1])
          /\ FrameEnd(acts[i - 1]) \in Int
          /\ FrameEnd(acts[i - 1]) <= acts[i - 1].frame_pointer - 16
      BY <2>1, ActFacts DEF FramesLie
    <3>. QED BY <1>1, <2>1, <3>1, StackAssumption
  <2>7. p \in Address
    <3>1. PICK k \in Int : p = -4 * k
      <4>1. p = 16 * (p \div 16)
        BY <2>6
      <4>2. PICK q \in Int : q = p \div 16
        BY <2>6
      <4>3. p = -4 * (-4 * q)
        BY <4>1, <4>2
      <4>. QED BY <4>3
    <3>2. k \in 1 .. StackBytes \div 4
      BY <2>6, <3>1, StackAssumption
    <3>. QED BY <3>1, <3>2 DEF Address
  <2>8. SavedX29(m, acts[i].frame_pointer) = p
    <3>1. Load(m, acts[i].frame_pointer, 8) = <<"pointer", p>>
      BY <1>2, <1>4, <2>6 DEF FramePointerBelow
    <3>2. <<"pointer", p>> \in {<<"pointer", a>> : a \in Address}
      BY <2>7
    <3>. QED BY <3>1, <3>2 DEF SavedX29
  <2>9. SavedX30(m, acts[i].frame_pointer) = ReturnAddress(f, g)
    BY <1>2, <2>4, <2>5 DEF SavedX30
  <2>. QED BY <1>4, <2>2, <2>4, <2>5, <2>6, <2>8, <2>9 DEF FramePointerBelow
<1>. QED BY <1>3, <1>4

LEMMA DepthBound ==
  ASSUME NEW acts, FramesLie(acts)
  PROVE  Len(acts) \in Nat /\ Len(acts) <= MaxActivations /\ MaxActivations \in Nat
<1>1. Len(acts) \in Nat /\ StackBytes \in Nat
  BY StackAssumption DEF FramesLie
<1>2. CASE Len(acts) > 0
  <2>1. Len(acts) \in 1 .. Len(acts)
    BY <1>1, <1>2
  <2>2. PICK e \in Int : /\ -StackBytes <= e
                         /\ e <= acts[Len(acts)].frame_pointer - 16
                         /\ acts[Len(acts)].frame_pointer <= -16 - 32 * (Len(acts) - 1)
                         /\ acts[Len(acts)].frame_pointer \in Int
    BY <2>1, ActFacts DEF FramesLie
  <2>3. 32 * Len(acts) <= StackBytes
    BY <1>1, <2>2
  <2>. QED BY <1>1, <2>3 DEF MaxActivations
<1>3. CASE Len(acts) = 0
  BY <1>1, <1>3 DEF MaxActivations
<1>. QED BY <1>1, <1>2, <1>3

-----------------------------------------------------------------------------
(* What a debugger finds are these activations.                            *)

\* The slot of a variable, in a frame at `pointer`.
Slot(f, pointer, i) == pointer - Frame[f].offsets[i]

VariablesIn(m, f, pointer) ==
  [i \in Variables(f) |-> Load(m, Slot(f, pointer, i), VariableSize(f, i))]

ActivationsIn(m, acts) ==
  [i \in 1 .. Len(acts) |->
     [function |-> acts[i].function,
      vars |-> VariablesIn(m, acts[i].function, acts[i].frame_pointer)]]

Activations(acts) == ActivationsIn(mem, acts)

\* The unwinding that starts with `f` at x29 starts with the last activation.
StartsAt(acts, f) == IF Len(acts) = 0 THEN f = Junk ELSE OnTop(acts, f)

FrameOf(callee) ==
  [function |-> Caller(SavedX30(mem, callee.frame_pointer)),
   frame_pointer |-> SavedX29(mem, callee.frame_pointer)]

Callers(callees) ==
  {FrameOf(callee) :
     callee \in {c \in callees : Caller(SavedX30(mem, c.frame_pointer)) # Junk}}

LEMMA CallersAre ==
  ASSUME NEW acts, FramesLie(acts), RecordsLink(acts, mem), NEW i \in 1 .. Len(acts)
  PROVE  Callers({acts[i]}) = IF i = 1 THEN {} ELSE {acts[i - 1]}
<1>1. Len(acts) \in Nat
  BY ActFacts
<1>2. CASE i = 1
  <2>1. Caller(SavedX30(mem, acts[i].frame_pointer)) = Junk
    BY <1>2, RecordsRead
  <2>. QED BY <1>2, <2>1 DEF Callers
<1>3. CASE i # 1
  <2>1. /\ Caller(SavedX30(mem, acts[i].frame_pointer)) = acts[i - 1].function
        /\ acts[i - 1].function # Junk
        /\ SavedX29(mem, acts[i].frame_pointer) = FramePointerBelow(acts, i)
    BY <1>3, RecordsRead
  <2>2. FramePointerBelow(acts, i) = acts[i - 1].frame_pointer
    BY <1>3 DEF FramePointerBelow
  <2>3. i - 1 \in 1 .. Len(acts)
    BY <1>1, <1>3
  <2>4. FrameOf(acts[i]) = [function |-> acts[i - 1].function,
                            frame_pointer |-> acts[i - 1].frame_pointer]
    BY <2>1, <2>2 DEF FrameOf
  <2>5. FrameOf(acts[i]) = acts[i - 1]
    BY <2>3, <2>4, ActFacts
  <2>6. Callers({acts[i]}) = {FrameOf(acts[i])}
    BY <2>1 DEF Callers
  <2>. QED BY <1>3, <2>5, <2>6
<1>. QED BY <1>2, <1>3

LEMMA FramesBelowAre ==
  ASSUME NEW acts, NEW f, FramesLie(acts), RecordsLink(acts, mem), StartsAt(acts, f)
  PROVE  FramesBelow(f) = [k \in 0 .. MaxActivations - 1 |->
                             IF k < Len(acts) THEN {acts[Len(acts) - k]} ELSE {}]
<1> DEFINE n == Len(acts)
           start == IF f = Junk THEN {} ELSE {[function |-> f, frame_pointer |-> x29]}
           Rule(g) == g = [k \in Nat |-> IF k = 0 THEN start ELSE Callers(g[k - 1])]
           w == [k \in Nat |-> IF k < n THEN {acts[n - k]} ELSE {}]
<1>1. n \in Nat /\ MaxActivations \in Nat
  BY DepthBound
<1>2. FramesBelow(f) = [k \in 0 .. MaxActivations - 1 |-> (CHOOSE g : Rule(g))[k]]
  BY DEF FramesBelow, Callers, FrameOf
<1>3. w[0] = start
  <2>1. CASE n = 0
    BY <2>1 DEF StartsAt
  <2>2. CASE n # 0
    <3>1. n \in 1 .. Len(acts) /\ n - 0 = n
      BY <1>1, <2>2
    <3>2. /\ acts[n].function = f /\ acts[n].frame_pointer = x29 /\ f \in Function
          /\ acts[n] = [function |-> acts[n].function, frame_pointer |-> acts[n].frame_pointer]
      BY <2>2, <3>1, ActFacts DEF StartsAt, OnTop
    <3>3. f # Junk
      BY <3>2, FunctionAssumption
    <3>4. w[0] = {acts[n]}
      BY <1>1, <2>2, <3>1
    <3>5. start = {acts[n]}
      BY <3>2, <3>3
    <3>. QED BY <3>4, <3>5
  <2>. QED BY <2>1, <2>2
<1>4. ASSUME NEW k \in Nat PROVE w[k + 1] = Callers(w[k])
  <2>1. CASE k < n
    <3>1. n - k \in 1 .. Len(acts) /\ n - k - 1 = n - (k + 1)
      BY <1>1, <2>1
    <3>2. w[k] = {acts[n - k]}
      BY <2>1
    <3>3. Callers(w[k]) = IF n - k = 1 THEN {} ELSE {acts[n - k - 1]}
      BY <3>1, <3>2, CallersAre
    <3>4. w[k + 1] = IF n - k = 1 THEN {} ELSE {acts[n - (k + 1)]}
      BY <1>1, <2>1
    <3>. QED BY <3>1, <3>3, <3>4
  <2>2. CASE ~ k < n
    <3>1. w[k] = {} /\ w[k + 1] = {}
      BY <1>1, <2>2
    <3>. QED BY <3>1 DEF Callers
  <2>. QED BY <2>1, <2>2
<1>5. w = [k \in Nat |-> w[k]]
  OBVIOUS
<1> HIDE DEF w, start
<1>6. Rule(w)
  <2>1. ASSUME NEW k \in Nat PROVE w[k] = IF k = 0 THEN start ELSE Callers(w[k - 1])
    <3>1. CASE k = 0
      BY <1>3, <3>1
    <3>2. CASE k # 0
      <4>1. k - 1 \in Nat /\ k - 1 + 1 = k
        BY <3>2
      <4>. QED BY <1>4, <3>2, <4>1
    <3>. QED BY <3>1, <3>2
  <2>. QED BY <1>5, <2>1
<1>7. PICK g : g = (CHOOSE h : Rule(h)) /\ Rule(g)
  BY <1>6
<1> DEFINE S == {k \in Nat : g[k] = w[k]}
<1>8. 0 \in S
  BY <1>3, <1>7
<1>9. ASSUME NEW k \in Nat, k \in S PROVE k + 1 \in S
  <2>1. g[k + 1] = Callers(g[k])
    <3>1. k + 1 \in Nat /\ k + 1 # 0 /\ k + 1 - 1 = k
      OBVIOUS
    <3>2. \A j \in Nat : g[j] = IF j = 0 THEN start ELSE Callers(g[j - 1])
      BY <1>7
    <3>3. g[k + 1] = Callers(g[k + 1 - 1])
      BY <3>1, <3>2
    <3>. QED BY <3>1, <3>3
  <2>. QED BY <1>4, <1>9, <2>1
<1>10. \A k \in Nat : k \in S
  BY <1>8, <1>9, SetInduction
<1>11. \A k \in 0 .. MaxActivations - 1 : k \in Nat /\ g[k] = w[k]
  BY <1>1, <1>10
<1>12. FramesBelow(f) = [k \in 0 .. MaxActivations - 1 |-> w[k]]
  BY <1>2, <1>7, <1>11
<1>. QED BY <1>11, <1>12 DEF w

LEMMA UnwoundIs ==
  \A acts, f : FramesLie(acts) /\ RecordsLink(acts, mem) /\ StartsAt(acts, f) =>
                 Unwound(f) = Activations(acts)
<1> SUFFICES ASSUME NEW acts, NEW f,
                    FramesLie(acts), RecordsLink(acts, mem), StartsAt(acts, f)
             PROVE  Unwound(f) = Activations(acts)
  OBVIOUS
<1> DEFINE n == Len(acts)
           ActivationOf(frame) ==
             [function |-> frame.function,
              vars |-> FrameVars(frame.function, frame.frame_pointer)]
           frames == FramesBelow(f)
           depth == Cardinality({k \in DOMAIN frames : frames[k] # {}})
<1>1. n \in Nat /\ n <= MaxActivations /\ MaxActivations \in Nat
  BY DepthBound
<1>2. frames = [k \in 0 .. MaxActivations - 1 |-> IF k < n THEN {acts[n - k]} ELSE {}]
  BY FramesBelowAre
<1>3. Unwound(f) = [i \in 1 .. depth |->
        CHOOSE activation \in {ActivationOf(frame) : frame \in frames[depth - i]} : TRUE]
  BY DEF Unwound
<1> HIDE DEF frames
<1>4. {k \in DOMAIN frames : frames[k] # {}} = 0 .. n - 1
  BY <1>1, <1>2
<1>5. depth = n
  <2>1. PICK N \in Nat : N = n
    BY <1>1
  <2>2. Cardinality(0 .. N - 1) = N
    BY FS_Interval
  <2>. QED BY <1>4, <2>1, <2>2
<1> HIDE DEF depth
<1>6. ASSUME NEW i \in 1 .. n
      PROVE  (CHOOSE activation \in {ActivationOf(frame) : frame \in frames[n - i]} : TRUE)
               = ActivationOf(acts[i])
  <2>1. n - i \in 0 .. MaxActivations - 1 /\ n - i < n /\ n - (n - i) = i
    BY <1>1
  <2>2. frames[n - i] = {acts[i]}
    BY <1>2, <2>1
  <2>3. {ActivationOf(frame) : frame \in frames[n - i]} = {ActivationOf(acts[i])}
    BY <2>2
  <2> HIDE DEF ActivationOf
  <2>. QED BY <2>3
<1>7. Unwound(f) = [i \in 1 .. n |-> ActivationOf(acts[i])]
  BY <1>3, <1>5, <1>6
<1>. QED BY <1>7 DEF Activations, ActivationsIn, VariablesIn, FrameVars, Slot

\* The activation of a function that is about to be entered.
Called ==
  [function |-> pc.function,
   vars |-> [i \in Variables(pc.function) |->
               IF i \in DOMAIN Signature[pc.function]
               THEN Incoming(pc.function, i, mem, sp - FrameRecordSize)
               ELSE Junk]]

\* The running activation's variable `i` gets a value.
Updated(activations, i, value) ==
  [activations EXCEPT ![Len(activations)].vars[i] = value]

\* The result of a call, as its caller finds it.
Result == regs[ReturnRegister(x30[3])]

LEMMA StackIs ==
  \A acts : Running(acts) =>
    /\ pc.at = "body" => Stack = Activations(acts)
    /\ pc.at = "entry" => Stack = Append(Activations(acts), Called)
    /\ pc.at = "returned" =>
         Stack = Updated(Activations(acts), ResultOf(pc.function), Result)
    /\ pc.at = "exit" => Stack = <<>> /\ Len(acts) = 0
<1> SUFFICES ASSUME NEW acts, Running(acts)
             PROVE  /\ pc.at = "body" => Stack = Activations(acts)
                    /\ pc.at = "entry" => Stack = Append(Activations(acts), Called)
                    /\ pc.at = "returned" =>
                         Stack = Updated(Activations(acts), ResultOf(pc.function), Result)
                    /\ pc.at = "exit" => Stack = <<>> /\ Len(acts) = 0
  OBVIOUS
<1>1. FramesLie(acts) /\ RecordsLink(acts, mem) /\ Len(acts) \in Nat
  BY DepthBound DEF Running
<1>2. CASE pc.at = "body"
  <2>1. StartsAt(acts, pc.function)
    BY <1>2 DEF Running, InBody, StartsAt, OnTop
  <2>. QED BY <1>1, <1>2, <2>1, UnwoundIs DEF Stack
<1>3. CASE pc.at = "entry"
  <2>1. AtEntry(acts)
    BY <1>3 DEF Running
  <2>2. StartsAt(acts, Caller(x30))
    <3>1. CASE Len(acts) = 0
      BY <2>1, <3>1 DEF AtEntry, StartsAt, Caller
    <3>2. CASE Len(acts) # 0
      <4>1. PICK top : top = acts[Len(acts)]
        OBVIOUS
      <4>2. /\ x30 = ReturnAddress(top.function, pc.function) /\ pc.function # Main
            /\ x29 = top.frame_pointer
        BY <2>1, <3>2, <4>1 DEF AtEntry
      <4>3. Caller(x30) = top.function
        BY <4>2 DEF Caller, ReturnAddress, Exit
      <4>. QED BY <1>1, <3>2, <4>1, <4>2, <4>3 DEF StartsAt, OnTop
    <3>. QED BY <3>1, <3>2
  <2>3. Unwound(Caller(x30)) = Activations(acts)
    BY <1>1, <2>2, UnwoundIs
  <2>. QED BY <1>3, <2>3 DEF Stack, Called
<1>4. CASE pc.at = "returned"
  <2>1. StartsAt(acts, pc.function)
    BY <1>4 DEF Running, AfterReturn, StartsAt, OnTop
  <2>2. Unwound(pc.function) = Activations(acts)
    BY <1>1, <2>1, UnwoundIs
  <2>3. Stack = LET found == Unwound(pc.function)
                IN  [found EXCEPT ![Len(found)].vars[ResultOf(pc.function)] =
                                    regs[ReturnRegister(x30[3])]]
    BY <1>4 DEF Stack
  <2>4. Len(Activations(acts)) = Len(acts)
    BY <1>1 DEF Activations, ActivationsIn
  <2>. QED BY <1>4, <2>2, <2>3, <2>4 DEF Result, Updated
<1>5. CASE pc.at = "exit"
  BY <1>5 DEF Running, AtExit, Stack
<1>. QED BY <1>2, <1>3, <1>4, <1>5

-----------------------------------------------------------------------------
(* What the instructions of a call do to memory.                           *)

\* What lies at `bottom` or above is as it was.
KeptFrom(new, old, bottom) ==
  \A a \in Int, size \in {4, 8} : a >= bottom => Load(new, a, size) = Load(old, a, size)

LEMMA StoreKeeps ==
  ASSUME NEW m, NEW address \in Int, NEW size \in {4, 8}, NEW value,
         NEW bottom \in Int, address + size <= bottom
  PROVE  KeptFrom(Store(m, address, size, value), m, bottom)
<1>1. ASSUME NEW a \in Int, NEW width \in {4, 8}, a >= bottom
      PROVE  Load(Store(m, address, size, value), a, width) = Load(m, a, width)
  <2>1. address + size <= a
    BY <1>1
  <2>. QED BY <2>1, LoadBeside
<1>. QED BY <1>1 DEF KeptFrom

LEMMA KeptTwice ==
  ASSUME NEW m1, NEW m2, NEW m3, NEW low \in Int, NEW high \in Int, low <= high,
         KeptFrom(m2, m1, high), KeptFrom(m3, m2, low)
  PROVE  KeptFrom(m3, m1, high)
<1>1. ASSUME NEW a \in Int, NEW size \in {4, 8}, a >= high
      PROVE  Load(m3, a, size) = Load(m1, a, size)
  <2>1. a >= low
    BY <1>1
  <2>. QED BY <1>1, <2>1 DEF KeptFrom
<1>. QED BY <1>1 DEF KeptFrom

\* The arguments on the stack fill the bytes sp was lowered by and no others.
LEMMA ArgumentsStored ==
  ASSUME NEW f \in Function, NEW args, NEW base \in Int, Above(mem, base + CallBytes(f))
  PROVE  LET m == StoredArguments(f, args, base)
         IN  /\ Above(m, base) /\ KeptFrom(m, mem, base + CallBytes(f))
             /\ \A i \in DOMAIN Signature[f] :
                  CallArguments[f][i].kind = "stack" =>
                    Load(m, base + CallArguments[f][i].at, Signature[f][i].size) = args[i]
<1> DEFINE N == Len(Signature[f])
           Step(m, i) == IF CallArguments[f][i].kind # "stack" THEN m
                         ELSE Store(m, base + CallArguments[f][i].at,
                                    Signature[f][i].size, args[i])
           Rule(g, n) == g = [i \in 0 .. n |-> IF i = 0 THEN mem ELSE Step(g[i - 1], i)]
           S == {n \in Nat : \E g : Rule(g, n)}
           Stored(n, m) ==
             /\ Above(m, base) /\ KeptFrom(m, mem, base + CallBytes(f))
             /\ \A i \in 1 .. n :
                  CallArguments[f][i].kind = "stack" =>
                    Load(m, base + CallArguments[f][i].at, Signature[f][i].size) = args[i]
<1>1. N \in Nat /\ DOMAIN Signature[f] = 1 .. N
  BY SignatureFacts
<1>2. 0 \in S
  <2>1. Rule([i \in 0 .. 0 |-> mem], 0)
    OBVIOUS
  <2>. QED BY <2>1
<1>3. ASSUME NEW n \in Nat, n \in S PROVE n + 1 \in S
  <2>1. PICK g : Rule(g, n)
    BY <1>3
  <2> DEFINE h == [i \in 0 .. n + 1 |-> IF i = n + 1 THEN Step(g[n], n + 1) ELSE g[i]]
  <2>2. \A i \in 0 .. n : h[i] = g[i]
    OBVIOUS
  <2>3. ASSUME NEW i \in 0 .. n + 1
        PROVE  h[i] = IF i = 0 THEN mem ELSE Step(h[i - 1], i)
    <3> HIDE DEF Step
    <3>1. CASE i = n + 1
      BY <2>2, <3>1
    <3>2. CASE i \in 1 .. n
      <4>1. h[i] = g[i] /\ h[i - 1] = g[i - 1]
        BY <2>2, <3>2
      <4>. QED BY <2>1, <3>2, <4>1
    <3>3. CASE i = 0
      BY <2>1, <2>2, <3>3
    <3>. QED BY <3>1, <3>2, <3>3
  <2>4. h = [i \in 0 .. n + 1 |-> h[i]]
    OBVIOUS
  <2> HIDE DEF h, Step
  <2>5. Rule(h, n + 1)
    BY <2>3, <2>4
  <2>. QED BY <2>5
<1>4. \A n \in Nat : n \in S
  BY <1>2, <1>3, SetInduction
<1>5. \E r : Rule(r, N)
  BY <1>1, <1>4
<1>6. StoredArguments(f, args, base) = (CHOOSE r : Rule(r, N))[N]
  BY DEF StoredArguments
<1>7. PICK g : Rule(g, N) /\ StoredArguments(f, args, base) = g[N]
  BY <1>5, <1>6
<1> DEFINE T == {n \in Nat : n <= N => Stored(n, g[n])}
<1>8. CallBytes(f) \in Nat
  BY ArgumentPlaces
<1>9. Stored(0, mem)
  <2>1. Above(mem, base)
    BY <1>8 DEF Above
  <2>. QED BY <2>1 DEF KeptFrom
<1>10. ASSUME NEW n \in Nat, n + 1 <= N, NEW m, Stored(n, m) PROVE Stored(n + 1, Step(m, n + 1))
  <2>1. n + 1 \in DOMAIN Signature[f]
    BY <1>1, <1>10
  <2>2. CASE CallArguments[f][n + 1].kind # "stack"
    <3>1. \A i \in 1 .. n + 1 : i = n + 1 \/ i \in 1 .. n
      OBVIOUS
    <3>. QED BY <1>10, <2>2, <3>1
  <2>3. CASE CallArguments[f][n + 1].kind = "stack"
    <3>1. PICK at \in Nat : at = CallArguments[f][n + 1].at /\ at + 8 <= CallBytes(f)
      BY <2>1, <2>3, ArgumentPlaces
    <3>2. PICK size \in {4, 8} : size = Signature[f][n + 1].size
      BY <2>1, SignatureFacts DEF Type, Size
    <3>3. PICK new : new = Store(m, base + at, size, args[n + 1]) /\ new = Step(m, n + 1)
      BY <2>3, <3>1, <3>2
    <3>4. base + at \in Int /\ base + at >= base /\ base + at + size <= base + CallBytes(f)
          /\ base + CallBytes(f) \in Int
      BY <1>8, <3>1
    <3>5. Above(new, base)
      BY <1>10, <3>3, <3>4, StoreAbove
    <3>6. KeptFrom(new, m, base + CallBytes(f))
      BY <3>3, <3>4, StoreKeeps
    <3>7. KeptFrom(new, mem, base + CallBytes(f))
      <4>1. base + CallBytes(f) <= base + CallBytes(f)
        BY <3>4
      <4>. QED BY <1>10, <3>4, <3>6, <4>1, KeptTwice
    <3>8. Load(new, base + at, size) = args[n + 1]
      BY <3>3, <3>4, LoadStored
    <3>9. ASSUME NEW i \in 1 .. n, CallArguments[f][i].kind = "stack"
          PROVE  Load(new, base + CallArguments[f][i].at, Signature[f][i].size) = args[i]
      <4>1. i \in DOMAIN Signature[f] /\ i < n + 1
        BY <1>1, <1>10
      <4>2. PICK other \in Nat : other = CallArguments[f][i].at /\ other + 8 <= at
        BY <2>1, <2>3, <3>1, <3>9, <4>1, ArgumentPlaces
      <4>3. PICK width \in {4, 8} : width = Signature[f][i].size
        BY <4>1, SignatureFacts DEF Type, Size
      <4>4. PICK p \in Int, q \in Int : p = base + other /\ q = base + at /\ p + width <= q
        BY <4>2
      <4>5. Load(new, p, width) = Load(m, p, width)
        BY <3>3, <4>4, LoadBeside
      <4>. QED BY <1>10, <3>9, <4>2, <4>3, <4>4, <4>5
    <3>10. \A i \in 1 .. n + 1 : i = n + 1 \/ i \in 1 .. n
      OBVIOUS
    <3>11. Stored(n + 1, new)
      BY <3>1, <3>2, <3>5, <3>7, <3>8, <3>9, <3>10
    <3>. QED BY <3>3, <3>11
  <2>. QED BY <2>2, <2>3
<1>11. 0 \in T
  BY <1>1, <1>7, <1>9
<1>12. ASSUME NEW n \in Nat, n \in T PROVE n + 1 \in T
  <2>1. CASE n + 1 <= N
    <3>1. n \in 0 .. N /\ n + 1 \in 0 .. N /\ n + 1 # 0 /\ n + 1 - 1 = n
      BY <1>1, <2>1
    <3>2. Stored(n, g[n])
      BY <1>12, <3>1
    <3> HIDE DEF Step, Stored
    <3>3. g[n + 1] = Step(g[n + 1 - 1], n + 1)
      BY <1>7, <3>1
    <3>4. Stored(n + 1, g[n + 1])
      BY <1>10, <2>1, <3>1, <3>2, <3>3
    <3>. QED BY <3>4
  <2>. QED BY <2>1
<1>13. \A n \in Nat : n \in T
  BY <1>11, <1>12, SetInduction
<1> HIDE DEF N, Stored
<1>14. Stored(N, g[N])
  BY <1>1, <1>13
<1>. QED BY <1>1, <1>7, <1>14 DEF Stored

LEMMA RecordPushed ==
  ASSUME NEW m, NEW address \in Int, Above(m, address + 16), NEW pointer, NEW return_address
  PROVE  LET new == PushRecord(m, address, pointer, return_address)
         IN  /\ Above(new, address) /\ KeptFrom(new, m, address + 16)
             /\ Load(new, address, 8) = <<"pointer", pointer>>
             /\ Load(new, address + 8, 8) = return_address
<1>1. PICK high \in Int, top \in Int :
        high = address + 8 /\ top = address + 16 /\ address + 8 <= high /\ high + 8 <= top
  <2>1. address + 8 \in Int /\ address + 16 \in Int
    OBVIOUS
  <2>. QED BY <2>1
<1>2. PICK half : half = Store(m, address, 8, <<"pointer", pointer>>)
  OBVIOUS
<1>3. PICK new : new = Store(half, high, 8, return_address)
  OBVIOUS
<1>4. new = PushRecord(m, address, pointer, return_address)
  BY <1>1, <1>2, <1>3 DEF PushRecord
<1>5. Above(m, address)
  BY DEF Above
<1>6. Above(half, address)
  BY <1>2, <1>5, StoreAbove
<1>7. Above(new, address)
  BY <1>1, <1>3, <1>6, StoreAbove
<1>8. KeptFrom(half, m, high)
  BY <1>1, <1>2, StoreKeeps
<1>9. KeptFrom(new, half, top)
  BY <1>1, <1>3, StoreKeeps
<1>10. KeptFrom(new, m, top)
  <2>1. \A a \in Int : a >= top => a >= high
    BY <1>1
  <2>. QED BY <1>8, <1>9, <2>1 DEF KeptFrom
<1>11. Load(new, high, 8) = return_address
  BY <1>3, LoadStored
<1>12. Load(half, address, 8) = <<"pointer", pointer>>
  BY <1>2, LoadStored
<1>13. Load(new, address, 8) = Load(half, address, 8)
  BY <1>1, <1>3, LoadBeside
<1>. QED BY <1>1, <1>4, <1>7, <1>10, <1>11, <1>12, <1>13

\* A function finds its parameters above its frame pointer or in registers.
LEMMA IncomingKept ==
  ASSUME NEW f \in Function, NEW i \in DOMAIN Signature[f], NEW pointer \in Int,
         NEW new, NEW old, NEW bottom \in Int, bottom <= pointer + 16, KeptFrom(new, old, bottom)
  PROVE  Incoming(f, i, new, pointer) = Incoming(f, i, old, pointer)
<1>1. PICK location : location = FormalParameters[f][i]
  OBVIOUS
<1>2. CASE location.kind = "stack"
  <2>1. CallArguments[f][i].kind = "stack"
    BY <1>1, <1>2, ArgumentPlaces
  <2>2. PICK at \in Int : at = location.at /\ pointer + at >= bottom /\ pointer + at \in Int
    <3>1. PICK below \in Nat : location.at = 16 + below
      BY <1>1, <2>1, ArgumentPlaces
    <3>. QED BY <3>1
  <2>3. PICK size \in {4, 8} : size = Signature[f][i].size
    BY SignatureFacts DEF Type, Size
  <2>4. Load(new, pointer + at, size) = Load(old, pointer + at, size)
    BY <2>2 DEF KeptFrom
  <2>. QED BY <1>1, <1>2, <2>2, <2>3, <2>4 DEF Incoming
<1>3. CASE location.kind # "stack"
  BY <1>1, <1>3 DEF Incoming
<1>. QED BY <1>2, <1>3

\* The slots of a frame: below its record, above its end and side by side.
LEMMA SlotFacts ==
  ASSUME NEW f \in Function, NEW pointer \in Int, NEW i \in Variables(f)
  PROVE  /\ Slot(f, pointer, i) \in Int /\ VariableSize(f, i) \in {4, 8}
         /\ pointer - FrameSize(f) \in Int
         /\ pointer - FrameSize(f) <= Slot(f, pointer, i)
         /\ Slot(f, pointer, i) + VariableSize(f, i) <= pointer
         /\ \A j \in Variables(f) : j # i =>
              \/ Slot(f, pointer, j) + VariableSize(f, j) <= Slot(f, pointer, i)
              \/ Slot(f, pointer, i) + VariableSize(f, i) <= Slot(f, pointer, j)
<1>1. PICK at \in Nat, size \in {4, 8}, end \in Nat :
        /\ at = Frame[f].offsets[i] /\ size = VariableSize(f, i) /\ end = FrameSize(f)
        /\ size <= at /\ at <= end
  BY FrameFacts
<1>2. ASSUME NEW j \in Variables(f), j # i
      PROVE  \/ Slot(f, pointer, j) + VariableSize(f, j) <= Slot(f, pointer, i)
             \/ Slot(f, pointer, i) + VariableSize(f, i) <= Slot(f, pointer, j)
  <2>1. PICK other \in Nat, width \in {4, 8} :
          other = Frame[f].offsets[j] /\ width = VariableSize(f, j)
    BY FrameFacts
  <2>2. i \in Int /\ j \in Int
    BY VariableFacts
  <2>3. at + width <= other \/ other + size <= at
    <3>1. i < j \/ j < i
      BY <1>2, <2>2
    <3>. QED BY <1>1, <2>1, <3>1, FrameFacts
  <2>. QED BY <1>1, <2>1, <2>3 DEF Slot
<1>. QED BY <1>1, <1>2 DEF Slot

\* The parameters are in their slots; the other variable is not written yet.
LEMMA ParametersMoved ==
  ASSUME NEW f \in Function, NEW pointer \in Int, NEW pushed, Above(pushed, pointer)
  PROVE  LET m == MovedParameters(f, pointer, pushed)
         IN  /\ Above(m, pointer - FrameSize(f)) /\ KeptFrom(m, pushed, pointer)
             /\ \A i \in Variables(f) :
                  Load(m, Slot(f, pointer, i), VariableSize(f, i)) =
                    IF i \in DOMAIN Signature[f] THEN Incoming(f, i, pushed, pointer) ELSE Junk
<1> DEFINE N == Len(Signature[f])
           Step(m, i) == MoveParameter(f, i, pointer, m)
           Rule(g, n) == g = [i \in 0 .. n |-> IF i = 0 THEN pushed ELSE Step(g[i - 1], i)]
           S == {n \in Nat : \E g : Rule(g, n)}
           Moved(n, m) ==
             /\ Above(m, pointer - FrameSize(f)) /\ KeptFrom(m, pushed, pointer)
             /\ \A i \in Variables(f) :
                  Load(m, Slot(f, pointer, i), VariableSize(f, i)) =
                    IF i <= n THEN Incoming(f, i, pushed, pointer) ELSE Junk
<1>1. N \in Nat /\ DOMAIN Signature[f] = 1 .. N
  BY SignatureFacts
<1>2. 0 \in S
  <2>1. Rule([i \in 0 .. 0 |-> pushed], 0)
    OBVIOUS
  <2>. QED BY <2>1
<1>3. ASSUME NEW n \in Nat, n \in S PROVE n + 1 \in S
  <2>1. PICK g : Rule(g, n)
    BY <1>3
  <2> DEFINE h == [i \in 0 .. n + 1 |-> IF i = n + 1 THEN Step(g[n], n + 1) ELSE g[i]]
  <2>2. \A i \in 0 .. n : h[i] = g[i]
    OBVIOUS
  <2>3. ASSUME NEW i \in 0 .. n + 1
        PROVE  h[i] = IF i = 0 THEN pushed ELSE Step(h[i - 1], i)
    <3> HIDE DEF Step
    <3>1. CASE i = n + 1
      BY <2>2, <3>1
    <3>2. CASE i \in 1 .. n
      <4>1. h[i] = g[i] /\ h[i - 1] = g[i - 1]
        BY <2>2, <3>2
      <4>. QED BY <2>1, <3>2, <4>1
    <3>3. CASE i = 0
      BY <2>1, <2>2, <3>3
    <3>. QED BY <3>1, <3>2, <3>3
  <2>4. h = [i \in 0 .. n + 1 |-> h[i]]
    OBVIOUS
  <2> HIDE DEF h, Step
  <2>5. Rule(h, n + 1)
    BY <2>3, <2>4
  <2>. QED BY <2>5
<1>4. \A n \in Nat : n \in S
  BY <1>2, <1>3, SetInduction
<1>5. \E r : Rule(r, N)
  BY <1>1, <1>4
<1>6. MovedParameters(f, pointer, pushed) = (CHOOSE r : Rule(r, N))[N]
  BY DEF MovedParameters
<1>7. PICK g : Rule(g, N) /\ MovedParameters(f, pointer, pushed) = g[N]
  BY <1>5, <1>6
<1> DEFINE T == {n \in Nat : n <= N => Moved(n, g[n])}
<1>8. FrameSize(f) \in Nat /\ pointer - FrameSize(f) \in Int /\ pointer - FrameSize(f) <= pointer
  BY FrameFacts
<1>9. Moved(0, pushed)
  <2>1. Above(pushed, pointer - FrameSize(f))
    BY <1>8 DEF Above
  <2>2. ASSUME NEW i \in Variables(f)
        PROVE  Load(pushed, Slot(f, pointer, i), VariableSize(f, i)) = Junk /\ ~ i <= 0
    <3>1. Slot(f, pointer, i) \in Int /\ Slot(f, pointer, i) < pointer
      BY SlotFacts
    <3>2. Slot(f, pointer, i) \notin DOMAIN pushed
      BY <3>1 DEF Above
    <3>. QED BY <3>2, LoadUnwritten, VariableFacts
  <2>3. KeptFrom(pushed, pushed, pointer)
    BY DEF KeptFrom
  <2>. QED BY <2>1, <2>2, <2>3
<1>10. ASSUME NEW n \in Nat, n + 1 <= N, NEW m, Moved(n, m) PROVE Moved(n + 1, Step(m, n + 1))
  <2>1. n + 1 \in DOMAIN Signature[f] /\ n + 1 \in Variables(f)
    BY <1>1, <1>10, VariableFacts
  <2>2. PICK at \in Int, size \in {4, 8} :
          /\ at = Slot(f, pointer, n + 1) /\ size = VariableSize(f, n + 1)
          /\ pointer - FrameSize(f) <= at /\ at + size <= pointer
    BY <2>1, SlotFacts
  <2>3. PICK value : value = Incoming(f, n + 1, m, pointer)
    OBVIOUS
  <2>4. value = Incoming(f, n + 1, pushed, pointer)
    <3>1. pointer <= pointer + 16
      OBVIOUS
    <3>. QED BY <1>10, <2>1, <2>3, <3>1, IncomingKept
  <2>5. PICK new : new = Store(m, at, size, value)
    OBVIOUS
  <2>11. new = Step(m, n + 1)
    BY <2>2, <2>3, <2>5 DEF MoveParameter, Slot
  <2>6. Above(new, pointer - FrameSize(f))
    BY <1>8, <1>10, <2>2, <2>5, StoreAbove
  <2>7. KeptFrom(new, m, pointer)
    BY <2>2, <2>5, StoreKeeps
  <2>8. KeptFrom(new, pushed, pointer)
    <3>1. pointer <= pointer
      OBVIOUS
    <3>. QED BY <1>10, <2>7, <3>1, KeptTwice
  <2>9. ASSUME NEW i \in Variables(f)
        PROVE  Load(new, Slot(f, pointer, i), VariableSize(f, i)) =
                 IF i <= n + 1 THEN Incoming(f, i, pushed, pointer) ELSE Junk
    <3>1. i \in Int
      BY VariableFacts
    <3>2. CASE i = n + 1
      <4>1. Load(new, at, size) = value
        BY <2>5, LoadStored
      <4>. QED BY <2>2, <2>4, <3>2, <4>1
    <3>3. CASE i # n + 1
      <4>1. PICK slot \in Int, width \in {4, 8} :
              /\ slot = Slot(f, pointer, i) /\ width = VariableSize(f, i)
              /\ slot + width <= at \/ at + size <= slot
        BY <2>1, <2>2, <3>3, SlotFacts
      <4>2. Load(new, slot, width) = Load(m, slot, width)
        <5>1. CASE slot + width <= at
          BY <2>5, <5>1, LoadBeside
        <5>2. CASE at + size <= slot
          <6>1. KeptFrom(new, m, slot)
            BY <2>5, <5>2, StoreKeeps
          <6>2. slot >= slot
            OBVIOUS
          <6>. QED BY <6>1, <6>2 DEF KeptFrom
        <5>. QED BY <4>1, <5>1, <5>2
      <4>3. i <= n <=> i <= n + 1
        BY <3>1, <3>3
      <4>. QED BY <1>10, <4>1, <4>2, <4>3
    <3>. QED BY <3>2, <3>3
  <2>10. Moved(n + 1, new)
    BY <2>6, <2>8, <2>9
  <2>. QED BY <2>10, <2>11
<1>11. 0 \in T
  BY <1>1, <1>7, <1>9
<1>12. ASSUME NEW n \in Nat, n \in T PROVE n + 1 \in T
  <2>1. CASE n + 1 <= N
    <3>1. n \in 0 .. N /\ n + 1 \in 0 .. N /\ n + 1 # 0 /\ n + 1 - 1 = n
      BY <1>1, <2>1
    <3>2. Moved(n, g[n])
      BY <1>12, <3>1
    <3> HIDE DEF Step, Moved
    <3>3. g[n + 1] = Step(g[n + 1 - 1], n + 1)
      BY <1>7, <3>1
    <3>4. Moved(n + 1, g[n + 1])
      BY <1>10, <2>1, <3>1, <3>2, <3>3
    <3>. QED BY <3>4
  <2>. QED BY <2>1
<1>13. \A n \in Nat : n \in T
  BY <1>11, <1>12, SetInduction
<1> HIDE DEF N, Moved
<1>14. Moved(N, g[N])
  BY <1>1, <1>13
<1>15. \A i \in Variables(f) : i <= N <=> i \in DOMAIN Signature[f]
  BY <1>1, VariableFacts
<1>. QED BY <1>7, <1>14, <1>15 DEF Moved

-----------------------------------------------------------------------------
(* What a write leaves alone.                                              *)

\* The last frame ends lowest, and x29 of the others is above its record.
LEMMA TopIsLowest ==
  ASSUME NEW acts, FramesLie(acts), NEW i \in 1 .. Len(acts)
  PROVE  /\ Len(acts) \in 1 .. Len(acts)
         /\ FrameEnd(acts[Len(acts)]) <= FrameEnd(acts[i])
         /\ i # Len(acts) => acts[Len(acts)].frame_pointer + 16 <= FrameEnd(acts[i])
<1>1. Len(acts) \in Nat /\ Len(acts) \in 1 .. Len(acts)
  BY ActFacts
<1>2. PICK end \in Int, pointer \in Int :
        /\ end = FrameEnd(acts[Len(acts)]) /\ pointer = acts[Len(acts)].frame_pointer
        /\ end <= pointer - 16
  BY <1>1, ActFacts
<1>3. PICK e \in Int : e = FrameEnd(acts[i])
  BY ActFacts
<1>4. CASE i = Len(acts)
  BY <1>1, <1>2, <1>3, <1>4
<1>5. CASE i # Len(acts)
  <2>1. i < Len(acts)
    BY <1>1, <1>5
  <2>2. pointer + 16 <= e
    BY <1>1, <1>2, <1>3, <2>1 DEF FramesLie, FrameRecordSize
  <2>. QED BY <1>1, <1>2, <1>3, <2>2
<1>. QED BY <1>4, <1>5

LEMMA RecordsKept ==
  ASSUME NEW acts, FramesLie(acts), NEW m, RecordsLink(acts, m), NEW new, NEW bottom \in Int,
         KeptFrom(new, m, bottom),
         \A i \in 1 .. Len(acts) : bottom <= acts[i].frame_pointer
  PROVE  RecordsLink(acts, new)
<1>1. ASSUME NEW i \in 1 .. Len(acts)
      PROVE  /\ Load(new, acts[i].frame_pointer, 8) = Load(m, acts[i].frame_pointer, 8)
             /\ Load(new, acts[i].frame_pointer + 8, 8) = Load(m, acts[i].frame_pointer + 8, 8)
  <2>1. PICK pointer \in Int : pointer = acts[i].frame_pointer /\ bottom <= pointer
    BY ActFacts
  <2>2. PICK high \in Int : high = pointer + 8 /\ bottom <= high
    BY <2>1
  <2>3. Load(new, pointer, 8) = Load(m, pointer, 8) /\ Load(new, high, 8) = Load(m, high, 8)
    BY <2>1, <2>2 DEF KeptFrom
  <2>. QED BY <2>1, <2>2, <2>3
<1>. QED BY <1>1 DEF RecordsLink

LEMMA VariablesKept ==
  ASSUME NEW f \in Function, NEW pointer \in Int, NEW m, NEW new, NEW bottom \in Int,
         KeptFrom(new, m, bottom), bottom <= pointer - FrameSize(f)
  PROVE  VariablesIn(new, f, pointer) = VariablesIn(m, f, pointer)
<1>1. ASSUME NEW i \in Variables(f)
      PROVE  Load(new, Slot(f, pointer, i), VariableSize(f, i)) =
               Load(m, Slot(f, pointer, i), VariableSize(f, i))
  <2>1. PICK slot \in Int, size \in {4, 8}, end \in Int :
          /\ slot = Slot(f, pointer, i) /\ size = VariableSize(f, i)
          /\ end = pointer - FrameSize(f) /\ end <= slot
    BY SlotFacts
  <2>2. bottom <= slot
    BY <2>1
  <2>. QED BY <2>1, <2>2 DEF KeptFrom
<1>. QED BY <1>1 DEF VariablesIn

LEMMA ActivationsKept ==
  ASSUME NEW acts, FramesLie(acts), NEW m, NEW new, NEW bottom \in Int,
         KeptFrom(new, m, bottom), \A i \in 1 .. Len(acts) : bottom <= FrameEnd(acts[i])
  PROVE  ActivationsIn(new, acts) = ActivationsIn(m, acts)
<1>1. ASSUME NEW i \in 1 .. Len(acts)
      PROVE  VariablesIn(new, acts[i].function, acts[i].frame_pointer) =
               VariablesIn(m, acts[i].function, acts[i].frame_pointer)
  <2>1. PICK f \in Function, pointer \in Int :
          f = acts[i].function /\ pointer = acts[i].frame_pointer
    BY ActFacts
  <2>2. bottom <= pointer - FrameSize(f)
    BY <2>1 DEF FrameEnd
  <2>. QED BY <2>1, <2>2, VariablesKept
<1>. QED BY <1>1 DEF ActivationsIn

LEMMA LenActivations ==
  ASSUME NEW acts, FramesLie(acts), NEW m
  PROVE  Len(ActivationsIn(m, acts)) = Len(acts)
BY DepthBound DEF ActivationsIn

\* A write to a variable of the running function changes that variable only.
LEMMA VariableWritten ==
  ASSUME NEW acts, FramesLie(acts), Len(acts) > 0, NEW m, RecordsLink(acts, m),
         NEW f, NEW pointer, acts[Len(acts)].function = f, acts[Len(acts)].frame_pointer = pointer,
         Above(m, FrameEnd(acts[Len(acts)])), NEW i \in Variables(f), NEW value,
         NEW new, new = Store(m, Slot(f, pointer, i), VariableSize(f, i), value)
  PROVE  /\ RecordsLink(acts, new) /\ Above(new, FrameEnd(acts[Len(acts)]))
         /\ ActivationsIn(new, acts) = Updated(ActivationsIn(m, acts), i, value)
<1> DEFINE n == Len(acts)
<1>1. n \in Nat /\ n \in 1 .. n
  BY DepthBound
<1>2. f \in Function /\ pointer \in Int /\ FrameEnd(acts[n]) = pointer - FrameSize(f)
      /\ FrameSize(f) \in Nat
  BY <1>1, ActFacts DEF FrameEnd
<1>3. PICK slot \in Int, size \in {4, 8}, end \in Int :
        /\ slot = Slot(f, pointer, i) /\ size = VariableSize(f, i)
        /\ end = pointer - FrameSize(f) /\ end <= slot /\ slot + size <= pointer
  BY <1>2, SlotFacts
<1>4. new = Store(m, slot, size, value)
  BY <1>3
<1>5. Above(new, end)
  BY <1>2, <1>3, <1>4, StoreAbove
<1>6. KeptFrom(new, m, pointer)
  BY <1>2, <1>3, <1>4, StoreKeeps
<1>7. ASSUME NEW k \in 1 .. n, k # n PROVE pointer <= FrameEnd(acts[k]) /\ FrameEnd(acts[k]) \in Int
  <2>1. PICK e \in Int : e = FrameEnd(acts[k])
    BY ActFacts
  <2>2. pointer + 16 <= e
    BY <1>7, <2>1, TopIsLowest
  <2>. QED BY <1>2, <2>1, <2>2
<1>8. ASSUME NEW k \in 1 .. n PROVE pointer <= acts[k].frame_pointer
  <2>1. CASE k = n
    BY <1>2, <2>1
  <2>2. CASE k # n
    <3>1. /\ FrameEnd(acts[k]) \in Int /\ acts[k].frame_pointer \in Int
          /\ FrameEnd(acts[k]) <= acts[k].frame_pointer - 16
      BY ActFacts
    <3>. QED BY <1>2, <1>7, <2>2, <3>1
  <2>. QED BY <2>1, <2>2
<1>9. RecordsLink(acts, new)
  BY <1>2, <1>6, <1>8, RecordsKept
<1>10. ASSUME NEW k \in 1 .. n, k # n
       PROVE  VariablesIn(new, acts[k].function, acts[k].frame_pointer) =
                VariablesIn(m, acts[k].function, acts[k].frame_pointer)
  <2>1. PICK g \in Function, p \in Int :
          g = acts[k].function /\ p = acts[k].frame_pointer
    BY ActFacts
  <2>2. pointer <= p - FrameSize(g)
    BY <1>7, <1>10, <2>1 DEF FrameEnd
  <2>. QED BY <1>2, <1>6, <2>1, <2>2, VariablesKept
<1>11. VariablesIn(new, f, pointer) = [VariablesIn(m, f, pointer) EXCEPT ![i] = value]
  <2>1. ASSUME NEW j \in Variables(f)
        PROVE  Load(new, Slot(f, pointer, j), VariableSize(f, j)) =
                 IF j = i THEN value ELSE Load(m, Slot(f, pointer, j), VariableSize(f, j))
    <3>1. CASE j = i
      <4>1. Load(new, slot, size) = value
        BY <1>4, LoadStored
      <4>. QED BY <1>3, <3>1, <4>1
    <3>2. CASE j # i
      <4>1. PICK other \in Int, width \in {4, 8} :
              /\ other = Slot(f, pointer, j) /\ width = VariableSize(f, j)
              /\ other + width <= slot \/ slot + size <= other
        BY <1>2, <1>3, <3>2, SlotFacts
      <4>2. CASE other + width <= slot
        <5>1. Load(new, other, width) = Load(m, other, width)
          <6>1. Load(Store(m, slot, size, value), other, width) = Load(m, other, width)
            BY <4>2, LoadBelow
          <6>. QED BY <1>4, <6>1
        <5>. QED BY <3>2, <4>1, <5>1
      <4>3. CASE slot + size <= other
        <5>1. KeptFrom(new, m, other)
          BY <1>4, <4>3, StoreKeeps
        <5>2. other >= other
          OBVIOUS
        <5>. QED BY <3>2, <4>1, <5>1, <5>2 DEF KeptFrom
      <4>. QED BY <4>1, <4>2, <4>3
    <3>. QED BY <3>1, <3>2
  <2>. QED BY <2>1 DEF VariablesIn
<1>12. ActivationsIn(new, acts) = [ActivationsIn(m, acts) EXCEPT ![n].vars[i] = value]
  <2> DEFINE old == ActivationsIn(m, acts)
  <2>1. old = [k \in 1 .. n |-> [function |-> acts[k].function,
                 vars |-> VariablesIn(m, acts[k].function, acts[k].frame_pointer)]]
    BY DEF ActivationsIn
  <2> HIDE DEF old
  <2>2. [old EXCEPT ![n].vars[i] = value] =
          [k \in 1 .. n |-> IF k = n THEN [old[n] EXCEPT !.vars[i] = value] ELSE old[k]]
    BY <1>1, <2>1
  <2>3. [old[n] EXCEPT !.vars[i] = value] =
          [function |-> f, vars |-> [VariablesIn(m, f, pointer) EXCEPT ![i] = value]]
    BY <1>1, <2>1
  <2>4. ActivationsIn(new, acts) = [k \in 1 .. n |->
          IF k = n THEN [function |-> f, vars |-> VariablesIn(new, f, pointer)] ELSE old[k]]
    BY <1>10, <2>1 DEF ActivationsIn
  <2>6. [function |-> f, vars |-> VariablesIn(new, f, pointer)]
          = [old[n] EXCEPT !.vars[i] = value]
    BY <1>11, <2>3
  <2> HIDE DEF n
  <2>5. ActivationsIn(new, acts) = [old EXCEPT ![n].vars[i] = value]
    BY <2>2, <2>4, <2>6
  <2>. QED BY <2>5 DEF old
<1>13. ActivationsIn(new, acts) = Updated(ActivationsIn(m, acts), i, value)
  BY <1>12, LenActivations DEF Updated
<1>. QED BY <1>2, <1>3, <1>5, <1>9, <1>13

-----------------------------------------------------------------------------
(* The steps.                                                              *)

LEMMA StackIsNext ==
  \A acts : Running(acts)' =>
    /\ pc'.at = "body" => Stack' = Activations(acts)'
    /\ pc'.at = "entry" => Stack' = Append(Activations(acts)', Called')
    /\ pc'.at = "returned" =>
         Stack' = Updated(Activations(acts)', ResultOf(pc'.function), Result')
    /\ pc'.at = "exit" => Stack' = <<>> /\ Len(acts) = 0
<1>1. (\A acts : Running(acts) =>
         /\ pc.at = "body" => Stack = Activations(acts)
         /\ pc.at = "entry" => Stack = Append(Activations(acts), Called)
         /\ pc.at = "returned" =>
              Stack = Updated(Activations(acts), ResultOf(pc.function), Result)
         /\ pc.at = "exit" => Stack = <<>> /\ Len(acts) = 0)'
  BY StackIs, PTL
<1>. QED BY <1>1

\* An argument the caller has moved to a register is in that register.
LEMMA ArgumentMoved ==
  ASSUME NEW f \in Function, NEW args, NEW i \in DOMAIN Signature[f],
         CallArguments[f][i].kind # "stack"
  PROVE  MovedArguments(f, args)[CallArguments[f][i]] = args[i]
<1>1. CallArguments[f][i] \in Register /\ DOMAIN CallArguments[f] = DOMAIN Signature[f]
  BY ArgumentPlaces
<1>2. ASSUME NEW j \in DOMAIN Signature[f], CallArguments[f][j] = CallArguments[f][i]
      PROVE  j = i
  <2>1. i \in Int /\ j \in Int
    BY SignatureFacts
  <2>2. ~ i < j /\ ~ j < i
    BY <1>2, ArgumentPlaces
  <2>. QED BY <2>1, <2>2
<1>3. (CHOOSE j \in DOMAIN CallArguments[f] : CallArguments[f][j] = CallArguments[f][i]) = i
  BY <1>1, <1>2
<1>. QED BY <1>1, <1>3 DEF MovedArguments

LEMMA CallSteps ==
  ASSUME NEW acts, Running(acts), NEW f \in Function \ {Main}, NEW args \in ArgumentsOf[f],
         Call(f, args)
  PROVE  Running(acts)' /\ Source!Next
<1>1. /\ FramesLie(acts) /\ RecordsLink(acts, mem) /\ sp \in Int /\ sp % 16 = 0 /\ Above(mem, sp)
      /\ pc.at = "body" /\ InBody(acts)
  BY DEF Running, Call
<1>2. /\ sp' = sp - CallBytes(f) /\ mem' = StoredArguments(f, args, sp - CallBytes(f))
      /\ regs' = MovedArguments(f, args) /\ x30' = ReturnAddress(pc.function, f)
      /\ pc' = [at |-> "entry", function |-> f] /\ x29' = x29
      /\ event' = [op |-> "call", function |-> f, args |-> args] /\ Fits(f)
  BY DEF Call
<1>3. PICK base \in Int : base = sp - CallBytes(f) /\ base + CallBytes(f) = sp /\ base % 16 = 0
  BY <1>1, ArgumentPlaces
<1>4. /\ Above(mem', base) /\ KeptFrom(mem', mem, sp)
      /\ \A i \in DOMAIN Signature[f] :
           CallArguments[f][i].kind = "stack" =>
             Load(mem', base + CallArguments[f][i].at, Signature[f][i].size) = args[i]
  BY <1>1, <1>2, <1>3, ArgumentsStored
<1>5. /\ Len(acts) \in Nat /\ Len(acts) > 0 /\ sp = FrameEnd(acts[Len(acts)])
      /\ acts[Len(acts)].function = pc.function /\ acts[Len(acts)].frame_pointer = x29
  BY <1>1, DepthBound DEF InBody, OnTop
<1>6. ASSUME NEW i \in 1 .. Len(acts)
      PROVE  sp <= FrameEnd(acts[i]) /\ sp <= acts[i].frame_pointer
  <2>1. /\ FrameEnd(acts[i]) \in Int /\ acts[i].frame_pointer \in Int
        /\ FrameEnd(acts[i]) <= acts[i].frame_pointer - 16
    BY <1>1, ActFacts
  <2>. QED BY <1>1, <1>5, <2>1, TopIsLowest
<1>7. RecordsLink(acts, mem')
  BY <1>1, <1>4, <1>6, RecordsKept
<1>8. AtEntry(acts)'
  <2>1. -StackBytes <= sp' - FrameRecordSize - FrameSize(f)
    BY <1>2 DEF Fits
  <2>. QED BY <1>2, <1>3, <1>5, <2>1 DEF AtEntry
<1>9. Running(acts)'
  BY <1>1, <1>2, <1>3, <1>4, <1>7, <1>8 DEF Running
<1>10. Stack = ActivationsIn(mem, acts)
  BY <1>1, StackIs DEF Activations
<1>11. Stack' = Append(ActivationsIn(mem', acts), Called')
  BY <1>2, <1>9, StackIsNext DEF Activations
<1>12. ActivationsIn(mem', acts) = ActivationsIn(mem, acts)
  BY <1>1, <1>4, <1>6, ActivationsKept
<1>13. Called' = Source!Activation(f, args)
  <2>1. DOMAIN args = DOMAIN Signature[f]
    BY FunctionAssumption
  <2>2. ASSUME NEW i \in DOMAIN Signature[f]
        PROVE  Incoming(f, i, mem, sp - FrameRecordSize)' = args[i]
    <3>1. CASE CallArguments[f][i].kind = "stack"
      <4>1. PICK at \in Nat : /\ at = CallArguments[f][i].at
                              /\ FormalParameters[f][i].kind = "stack"
                              /\ FormalParameters[f][i].at = 16 + at
        BY <3>1, ArgumentPlaces
      <4>2. sp' - FrameRecordSize + FormalParameters[f][i].at = base + at
        BY <1>2, <1>3, <4>1 DEF FrameRecordSize
      <4>. QED BY <1>4, <3>1, <4>1, <4>2 DEF Incoming
    <3>2. CASE CallArguments[f][i].kind # "stack"
      <4>1. FormalParameters[f][i] = CallArguments[f][i]
        BY <3>2, ArgumentPlaces
      <4>. QED BY <1>2, <3>2, <4>1, ArgumentMoved DEF Incoming
    <3>. QED BY <3>1, <3>2
  <2>3. Called' = [function |-> f,
                   vars |-> [i \in Variables(f) |->
                               IF i \in DOMAIN Signature[f]
                               THEN Incoming(f, i, mem, sp - FrameRecordSize)' ELSE Junk]]
    BY <1>2 DEF Called
  <2>. QED BY <2>1, <2>2, <2>3 DEF Source!Activation
<1>14. Source!Call
  BY <1>2, <1>10, <1>11, <1>12, <1>13 DEF Source!Call
<1>. QED BY <1>9, <1>14 DEF Source!Next

\* A sequence without its last element.
LEMMA Cut ==
  ASSUME NEW s, NEW n \in Nat, n > 0
  PROVE  /\ Len(SubSeq(s, 1, n - 1)) = n - 1
         /\ SubSeq(s, 1, n - 1) = [k \in 1 .. n - 1 |-> s[k]]
<1> DEFINE S == {s[k] : k \in 1 .. n - 1}
<1>1. \A k \in 1 .. n - 1 : s[k] \in S
  OBVIOUS
<1> HIDE DEF S
<1>2. PICK m \in Int : m = n - 1 /\ m >= 0 /\ m - 1 + 1 = m
  OBVIOUS
<1>3. /\ SubSeq(s, 1, m) \in Seq(S) /\ Len(SubSeq(s, 1, m)) = IF 1 <= m THEN m - 1 + 1 ELSE 0
      /\ \A i \in 1 .. m - 1 + 1 : SubSeq(s, 1, m)[i] = s[1 + i - 1]
  BY <1>1, <1>2, SubSeqProperties
<1>4. Len(SubSeq(s, 1, m)) = m
  BY <1>2, <1>3
<1>5. PICK t : t = SubSeq(s, 1, m)
  OBVIOUS
<1>6. t = [k \in 1 .. m |-> t[k]]
  BY <1>3, <1>4, <1>5
<1>7. \A k \in 1 .. m : t[k] = s[k]
  <2>1. \A k \in 1 .. m : k \in 1 .. m - 1 + 1 /\ 1 + k - 1 = k
    BY <1>2
  <2>. QED BY <1>3, <1>5, <2>1
<1>. QED BY <1>2, <1>4, <1>5, <1>6, <1>7

\* One more frame, below the others.
LEMMA FramePushed ==
  ASSUME NEW acts, FramesLie(acts), NEW f \in Function, NEW pointer \in Int,
         pointer % 16 = 0, -StackBytes <= pointer - FrameSize(f),
         IF Len(acts) = 0 THEN f = Main /\ pointer = -16
         ELSE f # Main /\ pointer + 16 + CallBytes(f) = FrameEnd(acts[Len(acts)])
  PROVE  FramesLie(Append(acts, [function |-> f, frame_pointer |-> pointer]))
<1> DEFINE n == Len(acts)
           act == [function |-> f, frame_pointer |-> pointer]
           more == Append(acts, act)
           Good(i) ==
             /\ more[i].frame_pointer % 16 = 0
             /\ -StackBytes <= FrameEnd(more[i])
             /\ more[i].frame_pointer <= -16 - 32 * (i - 1)
             /\ i > 1 => /\ more[i].function # Main
                         /\ more[i].frame_pointer + FrameRecordSize + CallBytes(more[i].function)
                              = FrameEnd(more[i - 1])
<1> DEFINE T == [function : Function, frame_pointer : Int]
<1>1. n \in Nat
  BY DepthBound
<1>2. acts \in Seq(T) /\ act \in T
  BY DEF FramesLie
<1>3. more \in Seq(T) /\ Len(more) = n + 1 /\ more[n + 1] = act
      /\ \A i \in 1 .. n : more[i] = acts[i]
  <2> HIDE DEF T, act
  <2>. QED BY <1>2
<1> HIDE DEF T
<1>4. FrameEnd(act) = pointer - FrameSize(f) /\ act.function = f /\ act.frame_pointer = pointer
  BY DEF FrameEnd
<1> HIDE DEF more, act
<1>5. \A i \in 1 .. n + 1 : i = n + 1 \/ i \in 1 .. n
  BY <1>1
<1>6. ASSUME n > 0
      PROVE  /\ f # Main /\ pointer + FrameRecordSize + CallBytes(f) = FrameEnd(acts[n])
             /\ pointer + 16 <= FrameEnd(acts[n]) /\ FrameEnd(acts[n]) \in Int
             /\ pointer <= -16 - 32 * n
  <2>1. n \in 1 .. n
    BY <1>1, <1>6
  <2>2. PICK end \in Int, p \in Int :
          /\ end = FrameEnd(acts[n]) /\ p = acts[n].frame_pointer
          /\ end <= p - 16 /\ p <= -16 - 32 * (n - 1)
    BY <2>1, ActFacts DEF FramesLie
  <2>3. PICK bytes \in Nat : bytes = CallBytes(f)
    BY ArgumentPlaces
  <2>. QED BY <1>1, <1>6, <2>2, <2>3 DEF FrameRecordSize
<1>7. ASSUME NEW i \in 1 .. n + 1 PROVE Good(i)
  <2>1. CASE i = n + 1
    <3>1. more[i].frame_pointer % 16 = 0 /\ -StackBytes <= FrameEnd(more[i])
      BY <1>3, <1>4, <2>1
    <3>2. more[i].frame_pointer <= -16 - 32 * (i - 1)
      BY <1>1, <1>3, <1>4, <1>6, <2>1
    <3>3. ASSUME i > 1
          PROVE  /\ more[i].function # Main
                 /\ more[i].frame_pointer + FrameRecordSize + CallBytes(more[i].function)
                      = FrameEnd(more[i - 1])
      <4>1. n > 0 /\ i - 1 = n /\ n \in 1 .. n
        BY <1>1, <2>1, <3>3
      <4>2. more[i - 1] = acts[n] /\ more[i] = act
        BY <1>3, <2>1, <4>1
      <4>. QED BY <1>4, <1>6, <4>1, <4>2
    <3>. QED BY <3>1, <3>2, <3>3
  <2>2. CASE i \in 1 .. n
    <3>1. more[i] = acts[i] /\ (i > 1 => more[i - 1] = acts[i - 1])
      BY <1>1, <1>3, <2>2
    <3>. QED BY <2>2, <3>1 DEF FramesLie
  <2>. QED BY <1>5, <2>1, <2>2
<1>8. more[1].function = Main /\ more[1].frame_pointer = -16
  <2>1. CASE n = 0
    <3>1. n + 1 = 1 /\ f = Main /\ pointer = -16
      BY <2>1
    <3>2. more[1] = act
      BY <1>3, <3>1
    <3>. QED BY <1>4, <3>1, <3>2
  <2>2. CASE n # 0
    <3>1. n > 0 /\ more[1] = acts[1]
      BY <1>1, <1>3, <2>2
    <3>2. acts[1].function = Main /\ acts[1].frame_pointer = -16
      BY <3>1 DEF FramesLie
    <3>. QED BY <3>1, <3>2
  <2>. QED BY <2>1, <2>2
<1>9. ASSUME NEW i \in 1 .. n + 1, NEW j \in 1 .. n + 1, i < j
      PROVE  more[j].frame_pointer + FrameRecordSize <= FrameEnd(more[i])
  <2>1. i \in 1 .. n /\ n > 0 /\ more[i] = acts[i]
    BY <1>1, <1>3, <1>9
  <2>2. CASE j = n + 1
    <3>1. FrameEnd(acts[n]) <= FrameEnd(acts[i]) /\ FrameEnd(acts[i]) \in Int
      BY <2>1, TopIsLowest, ActFacts
    <3>2. more[j].frame_pointer = pointer
      BY <1>3, <1>4, <2>2
    <3>. QED BY <1>6, <2>1, <3>1, <3>2 DEF FrameRecordSize
  <2>3. CASE j \in 1 .. n
    BY <1>3, <1>9, <2>1, <2>3 DEF FramesLie
  <2>. QED BY <1>5, <2>2, <2>3
<1>10. FramesLie(more)
  BY <1>1, <1>3, <1>7, <1>8, <1>9 DEF FramesLie, T
<1>. QED BY <1>10 DEF more, act

LEMMA RecordLinked ==
  ASSUME NEW acts, Len(acts) \in Nat, NEW m, RecordsLink(acts, m), NEW act,
         acts \in Seq([function : Function, frame_pointer : Int]),
         act \in [function : Function, frame_pointer : Int],
         Load(m, act.frame_pointer, 8) =
           <<"pointer", IF Len(acts) = 0 THEN 0 ELSE acts[Len(acts)].frame_pointer>>,
         Load(m, act.frame_pointer + 8, 8) =
           IF Len(acts) = 0 THEN Exit
           ELSE ReturnAddress(acts[Len(acts)].function, act.function)
  PROVE  RecordsLink(Append(acts, act), m)
<1> DEFINE n == Len(acts)
           more == Append(acts, act)
           T == [function : Function, frame_pointer : Int]
<1>1. Len(more) = n + 1 /\ more[n + 1] = act /\ \A i \in 1 .. n : more[i] = acts[i]
  <2> HIDE DEF T
  <2>1. acts \in Seq(T) /\ act \in T
    BY DEF T
  <2>. QED BY <2>1
<1> HIDE DEF more
<1>2. ASSUME NEW i \in 1 .. n + 1
      PROVE  /\ Load(m, more[i].frame_pointer, 8) = <<"pointer", FramePointerBelow(more, i)>>
             /\ Load(m, more[i].frame_pointer + 8, 8) = ReturnsTo(more, i)
  <2>1. CASE i = n + 1
    <3>1. CASE n = 0
      BY <1>1, <2>1, <3>1 DEF FramePointerBelow, ReturnsTo
    <3>2. CASE n # 0
      <4>1. i - 1 = n /\ n \in 1 .. n /\ i # 1
        BY <2>1, <3>2
      <4>2. more[i - 1] = acts[n] /\ more[i] = act
        BY <1>1, <2>1, <4>1
      <4>. QED BY <3>2, <4>1, <4>2 DEF FramePointerBelow, ReturnsTo
    <3>. QED BY <3>1, <3>2
  <2>2. CASE i # n + 1
    <3>1. i \in 1 .. n /\ (i # 1 => i - 1 \in 1 .. n)
      BY <2>2
    <3>2. more[i] = acts[i] /\ (i # 1 => more[i - 1] = acts[i - 1])
      BY <1>1, <3>1
    <3>3. FramePointerBelow(more, i) = FramePointerBelow(acts, i)
          /\ ReturnsTo(more, i) = ReturnsTo(acts, i)
      BY <3>2 DEF FramePointerBelow, ReturnsTo
    <3>. QED BY <3>1, <3>2, <3>3 DEF RecordsLink
  <2>. QED BY <2>1, <2>2
<1>3. RecordsLink(more, m)
  BY <1>1, <1>2 DEF RecordsLink
<1>. QED BY <1>3 DEF more

LEMMA EnterSteps ==
  ASSUME NEW acts, Running(acts), Enter
  PROVE  (\E more : Running(more)') /\ Source!Next
<1>1. /\ FramesLie(acts) /\ RecordsLink(acts, mem) /\ sp \in Int /\ sp % 16 = 0 /\ Above(mem, sp)
      /\ pc.at = "entry" /\ AtEntry(acts) /\ Len(acts) \in Nat
  BY DepthBound DEF Running, Enter
<1>2. PICK f \in Function : f = pc.function
  BY <1>1 DEF AtEntry
<1>3. PICK record \in Int : record = sp - FrameRecordSize /\ record + 16 = sp /\ record % 16 = 0
  BY <1>1 DEF FrameRecordSize
<1>4. PICK pushed : pushed = PushRecord(mem, record, x29, x30)
  OBVIOUS
<1>5. /\ x29' = record /\ sp' = record - FrameSize(f)
      /\ mem' = MovedParameters(f, record, pushed)
      /\ pc' = [at |-> "body", function |-> f] /\ event' = [op |-> "none"]
  BY <1>2, <1>3, <1>4 DEF Enter
<1>6. /\ Above(pushed, record) /\ KeptFrom(pushed, mem, record + 16)
      /\ Load(pushed, record, 8) = <<"pointer", x29>>
      /\ Load(pushed, record + 8, 8) = x30
  BY <1>1, <1>3, <1>4, RecordPushed
<1>7. /\ Above(mem', record - FrameSize(f)) /\ KeptFrom(mem', pushed, record)
      /\ \A i \in Variables(f) :
           Load(mem', Slot(f, record, i), VariableSize(f, i)) =
             IF i \in DOMAIN Signature[f] THEN Incoming(f, i, pushed, record) ELSE Junk
  BY <1>5, <1>6, ParametersMoved
<1>8. KeptFrom(mem', mem, sp)
  <2>1. record <= sp
    BY <1>1, <1>3
  <2>. QED BY <1>1, <1>3, <1>6, <1>7, <2>1, KeptTwice
<1>9. Load(mem', record, 8) = <<"pointer", x29>> /\ Load(mem', record + 8, 8) = x30
  <2>1. record + 8 \in Int /\ record + 8 >= record /\ record >= record
    BY <1>3
  <2>. QED BY <1>6, <1>7, <2>1 DEF KeptFrom
<1>10. ASSUME NEW i \in 1 .. Len(acts)
       PROVE  sp <= FrameEnd(acts[i]) /\ sp <= acts[i].frame_pointer
  <2>1. /\ FrameEnd(acts[i]) \in Int /\ acts[i].frame_pointer \in Int
        /\ FrameEnd(acts[i]) <= acts[i].frame_pointer - 16
    BY <1>1, ActFacts
  <2>2. FrameEnd(acts[Len(acts)]) <= FrameEnd(acts[i]) /\ Len(acts) \in 1 .. Len(acts)
    BY <1>1, TopIsLowest
  <2>5. Len(acts) # 0
    BY <1>1
  <2>3. FrameEnd(acts[Len(acts)]) \in Int /\ Len(acts) # 0
    BY <1>1, <2>2, <2>5, ActFacts
  <2>4. sp + CallBytes(f) = FrameEnd(acts[Len(acts)]) /\ CallBytes(f) \in Nat
    BY <1>1, <1>2, <2>3, ArgumentPlaces DEF AtEntry
  <2>. QED BY <1>1, <2>1, <2>2, <2>3, <2>4
<1> DEFINE act == [function |-> f, frame_pointer |-> record]
           more == Append(acts, act)
           T == [function : Function, frame_pointer : Int]
<1>11. FramesLie(more)
  <2>1. -StackBytes <= record - FrameSize(f)
    BY <1>1, <1>2, <1>3 DEF AtEntry
  <2>2. IF Len(acts) = 0 THEN f = Main /\ record = -16
        ELSE f # Main /\ record + 16 + CallBytes(f) = FrameEnd(acts[Len(acts)])
    BY <1>1, <1>2, <1>3 DEF AtEntry, FrameRecordSize
  <2>. QED BY <1>1, <1>3, <2>1, <2>2, FramePushed
<1>12. RecordsLink(more, mem')
  <2>1. RecordsLink(acts, mem')
    BY <1>1, <1>8, <1>10, RecordsKept
  <2>2. acts \in Seq([function : Function, frame_pointer : Int])
        /\ act \in [function : Function, frame_pointer : Int]
    BY <1>1 DEF FramesLie
  <2>3. x29 = (IF Len(acts) = 0 THEN 0 ELSE acts[Len(acts)].frame_pointer)
        /\ x30 = IF Len(acts) = 0 THEN Exit ELSE ReturnAddress(acts[Len(acts)].function, f)
    BY <1>1, <1>2 DEF AtEntry
  <2>4. Load(mem', act.frame_pointer, 8) =
          <<"pointer", IF Len(acts) = 0 THEN 0 ELSE acts[Len(acts)].frame_pointer>>
    BY <1>9, <2>3
  <2>5. Load(mem', act.frame_pointer + 8, 8) =
          IF Len(acts) = 0 THEN Exit ELSE ReturnAddress(acts[Len(acts)].function, act.function)
    BY <1>9, <2>3
  <2> HIDE DEF act
  <2>. QED BY <1>1, <2>1, <2>2, <2>4, <2>5, RecordLinked
<1>13. /\ Len(more) = Len(acts) + 1 /\ more[Len(acts) + 1] = act
       /\ \A i \in 1 .. Len(acts) : more[i] = acts[i]
  <2>1. acts \in Seq(T) /\ act \in T
    BY <1>1 DEF FramesLie
  <2> HIDE DEF T, act
  <2>. QED BY <2>1
<1>14. act.function = f /\ act.frame_pointer = record /\ FrameEnd(act) = record - FrameSize(f)
  BY DEF FrameEnd
<1> HIDE DEF more, act
<1>15. record - FrameSize(f) \in Int /\ (record - FrameSize(f)) % 16 = 0
  BY <1>3, FrameFacts
<1>16. InBody(more)'
  BY <1>1, <1>5, <1>13, <1>14 DEF InBody, OnTop
<1>17. Running(more)'
  BY <1>5, <1>7, <1>11, <1>12, <1>15, <1>16 DEF Running
<1>18. Stack = Append(ActivationsIn(mem, acts), Called)
  BY <1>1, StackIs DEF Activations
<1>19. Stack' = ActivationsIn(mem', more)
  BY <1>5, <1>17, StackIsNext DEF Activations
<1>20. Called = [function |-> f, vars |-> VariablesIn(mem', f, record)]
  <2>1. ASSUME NEW i \in DOMAIN Signature[f]
        PROVE  Incoming(f, i, mem, record) = Incoming(f, i, pushed, record)
    BY <1>1, <1>3, <1>6, IncomingKept
  <2>. QED BY <1>2, <1>3, <1>7, <2>1 DEF Called, VariablesIn
<1>21. ActivationsIn(mem', acts) = ActivationsIn(mem, acts)
  BY <1>1, <1>8, <1>10, ActivationsKept
<1>22. ActivationsIn(mem', more) = Append(ActivationsIn(mem', acts), Called)
  <2>1. \A i \in 1 .. Len(acts) + 1 : i = Len(acts) + 1 \/ i \in 1 .. Len(acts)
    BY <1>1
  <2>. QED BY <1>1, <1>13, <1>14, <1>20, <2>1 DEF ActivationsIn
<1>23. Source!Silent
  BY <1>5, <1>18, <1>19, <1>21, <1>22 DEF Source!Silent
<1>. QED BY <1>17, <1>23 DEF Source!Next

LEMMA AssignSteps ==
  ASSUME NEW acts, Running(acts), NEW i \in Variables(pc.function), NEW v, Assign(i, v)
  PROVE  Running(acts)' /\ Source!Next
<1>1. /\ FramesLie(acts) /\ RecordsLink(acts, mem) /\ sp \in Int /\ sp % 16 = 0 /\ Above(mem, sp)
      /\ pc.at = "body" /\ InBody(acts) /\ Len(acts) \in Nat
  BY DepthBound DEF Running, Assign
<1>2. PICK f : f = pc.function
  OBVIOUS
<1>3. /\ mem' = Store(mem, Slot(f, x29, i), VariableSize(f, i), v)
      /\ event' = [op |-> "assign", var |-> i, value |-> v]
      /\ pc' = pc /\ x29' = x29 /\ x30' = x30 /\ sp' = sp
  BY <1>2 DEF Assign, Slot
<1>4. /\ Len(acts) > 0 /\ acts[Len(acts)].function = f /\ acts[Len(acts)].frame_pointer = x29
      /\ sp = FrameEnd(acts[Len(acts)])
  BY <1>1, <1>2 DEF InBody, OnTop
<1>5. /\ RecordsLink(acts, mem') /\ Above(mem', sp)
      /\ ActivationsIn(mem', acts) = Updated(ActivationsIn(mem, acts), i, v)
  <2>1. i \in Variables(f) /\ Above(mem, FrameEnd(acts[Len(acts)]))
    BY <1>1, <1>2, <1>4
  <2>2. PICK new : new = Store(mem, Slot(f, x29, i), VariableSize(f, i), v) /\ new = mem'
    BY <1>3
  <2>3. /\ RecordsLink(acts, new) /\ Above(new, FrameEnd(acts[Len(acts)]))
        /\ ActivationsIn(new, acts) = Updated(ActivationsIn(mem, acts), i, v)
    <3>1. PICK pointer, m : pointer = x29 /\ m = mem
      OBVIOUS
    <3>2. acts[Len(acts)].function = f /\ acts[Len(acts)].frame_pointer = pointer
          /\ Above(m, FrameEnd(acts[Len(acts)])) /\ RecordsLink(acts, m) /\ FramesLie(acts)
          /\ Len(acts) > 0
      BY <1>1, <1>4, <2>1, <3>1
    <3>3. new = Store(m, Slot(f, pointer, i), VariableSize(f, i), v)
      BY <2>2, <3>1
    <3>4. /\ RecordsLink(acts, new) /\ Above(new, FrameEnd(acts[Len(acts)]))
          /\ ActivationsIn(new, acts) = Updated(ActivationsIn(m, acts), i, v)
      BY <2>1, <3>2, <3>3, VariableWritten
    <3>. QED BY <3>1, <3>4
  <2>. QED BY <1>4, <2>2, <2>3
<1>6. InBody(acts)'
  BY <1>1, <1>3 DEF InBody, OnTop
<1>7. Running(acts)'
  BY <1>1, <1>3, <1>5, <1>6 DEF Running
<1>8. Stack = ActivationsIn(mem, acts)
  BY <1>1, StackIs DEF Activations
<1>9. Stack' = [Stack EXCEPT ![Len(acts)].vars[i] = v]
  <2>1. Stack' = Updated(Stack, i, v)
    BY <1>1, <1>3, <1>5, <1>7, <1>8, StackIsNext DEF Activations
  <2>. QED BY <1>1, <1>8, <2>1, LenActivations DEF Updated
<1>10. Source!Assign
  <2> DEFINE n == Len(acts)
  <2>1. /\ Stack = [k \in 1 .. n |-> Stack[k]] /\ Len(Stack) = n /\ DOMAIN Stack = 1 .. n
        /\ n \in 1 .. n
    BY <1>1, <1>4, <1>8 DEF ActivationsIn
  <2>2. Source!Top = Stack[n] /\ Source!Below = SubSeq(Stack, 1, n - 1)
    BY <2>1 DEF Source!Top, Source!Below
  <2>3. Stack' = [k \in 1 .. n |-> IF k = n THEN [Stack[n] EXCEPT !.vars[i] = v] ELSE Stack[k]]
    BY <1>9, <2>1
  <2>4. PICK below : /\ below = SubSeq(Stack, 1, n - 1) /\ Len(below) = n - 1
                     /\ below = [k \in 1 .. n - 1 |-> Stack[k]]
    <3>1. PICK N \in Nat : N = n /\ N > 0
      BY <1>1, <1>4
    <3>2. PICK stack : stack = Stack
      OBVIOUS
    <3>3. /\ Len(SubSeq(stack, 1, N - 1)) = N - 1
          /\ SubSeq(stack, 1, N - 1) = [k \in 1 .. N - 1 |-> stack[k]]
      BY <3>1, Cut
    <3>. QED BY <3>1, <3>2, <3>3
  <2>5. PICK top : top = [Stack[n] EXCEPT !.vars[i] = v]
    OBVIOUS
  <2>6. Append(below, top) = [k \in 1 .. n |-> IF k = n THEN top ELSE Stack[k]]
    <3>1. Append(below, top) = [k \in 1 .. n - 1 + 1 |-> IF k = n - 1 + 1 THEN top ELSE below[k]]
      <4>1. DOMAIN below = 1 .. n - 1 /\ below = [k \in 1 .. n - 1 |-> below[k]] /\ n - 1 \in Nat
        BY <1>1, <1>4, <2>4
      <4>. QED BY <2>4, <4>1
    <3>. QED BY <1>1, <2>4, <3>1
  <2>. QED BY <1>3, <2>2, <2>3, <2>4, <2>5, <2>6 DEF Source!Assign
<1>. QED BY <1>7, <1>10 DEF Source!Next

\* One frame less.
LEMMA FramePopped ==
  ASSUME NEW acts, FramesLie(acts), Len(acts) > 0, NEW m, RecordsLink(acts, m),
         NEW fewer, fewer = SubSeq(acts, 1, Len(acts) - 1)
  PROVE  /\ FramesLie(fewer) /\ RecordsLink(fewer, m)
         /\ Len(fewer) = Len(acts) - 1 /\ \A i \in 1 .. Len(fewer) : fewer[i] = acts[i]
<1> DEFINE T == [function : Function, frame_pointer : Int]
<1>1. PICK n \in Nat : n = Len(acts) /\ n > 0
  BY DepthBound
<1>2. Len(fewer) = n - 1 /\ fewer = [k \in 1 .. n - 1 |-> acts[k]]
  BY <1>1, Cut
<1>3. acts \in Seq(T)
  BY DEF FramesLie
<1>4. fewer \in Seq(T)
  <2> HIDE DEF T
  <2>1. \A k \in 1 .. n - 1 : acts[k] \in T
    BY <1>1, <1>3
  <2>. QED BY <1>1, <1>2, <2>1
<1>5. \A i \in 1 .. n - 1 : i \in 1 .. n /\ fewer[i] = acts[i]
  BY <1>2
<1> HIDE DEF T
<1>6. ASSUME NEW i \in 1 .. n - 1
      PROVE  /\ fewer[i].frame_pointer % 16 = 0
             /\ -StackBytes <= FrameEnd(fewer[i])
             /\ fewer[i].frame_pointer <= -16 - 32 * (i - 1)
             /\ i > 1 => /\ fewer[i].function # Main
                         /\ fewer[i].frame_pointer + FrameRecordSize
                              + CallBytes(fewer[i].function) = FrameEnd(fewer[i - 1])
             /\ Load(m, fewer[i].frame_pointer, 8) = <<"pointer", FramePointerBelow(fewer, i)>>
             /\ Load(m, fewer[i].frame_pointer + 8, 8) = ReturnsTo(fewer, i)
  <2>1. i \in 1 .. n /\ fewer[i] = acts[i]
    BY <1>5
  <2>2. i > 1 => fewer[i - 1] = acts[i - 1]
    BY <1>1, <1>5
  <2>3. FramePointerBelow(fewer, i) = FramePointerBelow(acts, i)
        /\ ReturnsTo(fewer, i) = ReturnsTo(acts, i)
    <3>1. i = 1 \/ i > 1
      OBVIOUS
    <3>. QED BY <2>1, <2>2, <3>1 DEF FramePointerBelow, ReturnsTo
  <2>4. /\ Load(m, fewer[i].frame_pointer, 8) = <<"pointer", FramePointerBelow(fewer, i)>>
        /\ Load(m, fewer[i].frame_pointer + 8, 8) = ReturnsTo(fewer, i)
    BY <1>1, <2>1, <2>3 DEF RecordsLink
  <2>5. /\ acts[i].frame_pointer % 16 = 0
        /\ -StackBytes <= FrameEnd(acts[i])
        /\ acts[i].frame_pointer <= -16 - 32 * (i - 1)
        /\ i > 1 => /\ acts[i].function # Main
                    /\ acts[i].frame_pointer + FrameRecordSize
                         + CallBytes(acts[i].function) = FrameEnd(acts[i - 1])
    BY <1>1, <2>1 DEF FramesLie
  <2>. QED BY <2>1, <2>2, <2>4, <2>5
<1>7. ASSUME NEW i \in 1 .. n - 1, NEW j \in 1 .. n - 1, i < j
      PROVE  fewer[j].frame_pointer + FrameRecordSize <= FrameEnd(fewer[i])
  BY <1>1, <1>5, <1>7 DEF FramesLie
<1>8. n - 1 > 0 => fewer[1].function = Main /\ fewer[1].frame_pointer = -16
  BY <1>1, <1>5 DEF FramesLie
<1>9. FramesLie(fewer)
  BY <1>2, <1>4, <1>6, <1>7, <1>8 DEF FramesLie, T
<1>10. RecordsLink(fewer, m)
  BY <1>2, <1>6 DEF RecordsLink
<1>. QED BY <1>1, <1>2, <1>5, <1>9, <1>10

LEMMA ReturnRegisterFacts ==
  ASSUME NEW f \in Function
  PROVE  ReturnRegister(f) \in Register
<1>1. 0 \in 0 .. MaxGPRegs - 1 /\ 0 \in 0 .. MaxSIMDRegs - 1
  BY ReturnRegisterAssumption, RegsAssumption
<1>. QED BY <1>1 DEF ReturnRegister, Register

LEMMA LeaveSteps ==
  ASSUME NEW acts, Running(acts), pc.at = "body", NEW v, Leave(v)
  PROVE  (\E fewer : Running(fewer)') /\ Source!Next
<1>1. /\ FramesLie(acts) /\ RecordsLink(acts, mem) /\ sp \in Int /\ sp % 16 = 0 /\ Above(mem, sp)
      /\ InBody(acts)
  BY DEF Running
<1>2. PICK n \in Nat : n = Len(acts)
  BY <1>1, DepthBound
<1>3. PICK f : f = pc.function
  OBVIOUS
<1>4. /\ n > 0 /\ n \in 1 .. n /\ acts[n].function = f /\ acts[n].frame_pointer = x29
  BY <1>1, <1>2, <1>3 DEF InBody, OnTop
<1>5. f \in Function /\ x29 \in Int
  BY <1>1, <1>2, <1>4, ActFacts
<1>6. PICK bottom \in Int : bottom = x29 + FrameRecordSize /\ bottom = x29 + 16 /\ bottom % 16 = 0
  <2>1. x29 % 16 = 0
    BY <1>1, <1>2, <1>4 DEF FramesLie
  <2>. QED BY <1>5, <2>1 DEF FrameRecordSize
<1>7. /\ SavedX29(mem, x29) = FramePointerBelow(acts, n)
      /\ SavedX30(mem, x29) = ReturnsTo(acts, n)
      /\ IF n = 1 THEN ReturnsTo(acts, n) = Exit
         ELSE ReturnsTo(acts, n) # Exit
  BY <1>1, <1>2, <1>4, RecordsRead
<1>8. /\ regs' = [AllJunk EXCEPT ![ReturnRegister(f)] = v]
      /\ x29' = FramePointerBelow(acts, n) /\ x30' = ReturnsTo(acts, n)
      /\ sp' = bottom /\ mem' = Popped(mem, bottom)
      /\ pc' = [at |-> IF ReturnsTo(acts, n) = Exit THEN "exit" ELSE "returned",
                function |-> ReturnsTo(acts, n)[2]]
      /\ event' = [op |-> "return", value |-> v]
  BY <1>3, <1>6, <1>7 DEF Leave
<1>9. PICK fewer : fewer = SubSeq(acts, 1, Len(acts) - 1)
  OBVIOUS
<1>10. /\ FramesLie(fewer) /\ RecordsLink(fewer, mem)
       /\ Len(fewer) = n - 1 /\ \A i \in 1 .. n - 1 : fewer[i] = acts[i]
  BY <1>1, <1>2, <1>4, <1>9, FramePopped
<1>11. KeptFrom(mem', mem, bottom)
  <2>1. ASSUME NEW a \in Int, NEW size \in {4, 8}, a >= bottom
        PROVE  Load(mem', a, size) = Load(mem, a, size)
    BY <1>8, <2>1, LoadPopped
  <2>. QED BY <2>1 DEF KeptFrom
<1>12. ASSUME NEW i \in 1 .. n - 1
       PROVE  bottom <= FrameEnd(fewer[i]) /\ bottom <= fewer[i].frame_pointer
  <2>1. i \in 1 .. n /\ i # n /\ fewer[i] = acts[i]
    BY <1>10
  <2>2. bottom <= FrameEnd(acts[i])
    BY <1>1, <1>2, <1>4, <1>6, <2>1, TopIsLowest
  <2>3. FrameEnd(acts[i]) \in Int /\ acts[i].frame_pointer \in Int
        /\ FrameEnd(acts[i]) <= acts[i].frame_pointer - 16
    BY <1>1, <1>2, <2>1, ActFacts
  <2>. QED BY <2>1, <2>2, <2>3
<1>13. RecordsLink(fewer, mem')
  BY <1>10, <1>11, <1>12, RecordsKept
<1>14. Above(mem', bottom)
  BY <1>1, <1>8, PoppedAbove
<1>15. Stack = ActivationsIn(mem, acts)
  BY StackIs DEF Activations
<1>16. Len(Stack) = n
  BY <1>1, <1>2, <1>15, LenActivations
<1>17. CASE n = 1
  <2>1. pc'.at = "exit" /\ x29' = 0 /\ sp' = 0
    <3>1. x29 = -16
      BY <1>1, <1>2, <1>4, <1>17 DEF FramesLie
    <3>. QED BY <1>6, <1>7, <1>8, <1>17, <3>1 DEF FramePointerBelow
  <2>2. AtExit(fewer)'
    BY <1>10, <1>17, <2>1 DEF AtExit
  <2>3. Running(fewer)'
    BY <1>6, <1>8, <1>10, <1>13, <1>14, <2>1, <2>2 DEF Running
  <2>4. Stack' = <<>>
    BY <2>1, <2>3, StackIsNext
  <2>5. Source!Return
    BY <1>8, <1>16, <1>17, <2>4 DEF Source!Return
  <2>. QED BY <2>3, <2>5 DEF Source!Next
<1>18. CASE n # 1
  <2>1. n - 1 \in 1 .. n - 1 /\ n - 1 \in 1 .. n /\ n - 1 \in Nat /\ n - 1 > 0
    BY <1>4, <1>18
  <2>2. PICK caller \in Function : caller = acts[n - 1].function
    BY <1>1, <1>2, <2>1, ActFacts
  <2>3. ReturnsTo(acts, n) = ReturnAddress(caller, f) /\ f # Main
    BY <1>1, <1>2, <1>4, <1>18, <2>2 DEF ReturnsTo, FramesLie
  <2>4. /\ pc' = [at |-> "returned", function |-> caller] /\ x30' = ReturnAddress(caller, f)
        /\ x29' = acts[n - 1].frame_pointer
    BY <1>7, <1>8, <1>18, <2>3 DEF ReturnAddress, FramePointerBelow
  <2>5. AfterReturn(fewer)'
    <3>1. bottom + CallBytes(f) = FrameEnd(acts[n - 1])
      <4>1. n > 1
        BY <2>1
      <4>2. acts[n].frame_pointer + FrameRecordSize + CallBytes(acts[n].function)
              = FrameEnd(acts[n - 1])
        BY <1>1, <1>2, <1>4, <4>1 DEF FramesLie
      <4>. QED BY <1>4, <1>6, <4>2
    <3>2. OnTop(fewer, pc.function)'
      BY <1>10, <2>1, <2>2, <2>4 DEF OnTop
    <3>. QED BY <1>5, <1>8, <1>10, <2>1, <2>3, <2>4, <3>1, <3>2 DEF AfterReturn
  <2>6. Running(fewer)'
    BY <1>6, <1>8, <1>10, <1>13, <1>14, <2>4, <2>5 DEF Running
  <2>7. Result' = v
    <3>1. x30'[3] = f
      BY <2>4 DEF ReturnAddress
    <3>2. regs'[ReturnRegister(f)] = v
      BY <1>5, <1>8, ReturnRegisterFacts DEF AllJunk
    <3>. QED BY <3>1, <3>2 DEF Result
  <2>8. Stack' = Updated(ActivationsIn(mem', fewer), ResultOf(caller), v)
    BY <2>4, <2>6, <2>7, StackIsNext DEF Activations
  <2>9. ActivationsIn(mem', fewer) = ActivationsIn(mem, fewer)
    BY <1>10, <1>11, <1>12, ActivationsKept
  <2>10. PICK below : below = SubSeq(Stack, 1, n - 1)
    OBVIOUS
  <2>11. below = [k \in 1 .. n - 1 |-> Stack[k]] /\ Len(below) = n - 1
    <3>1. PICK stack : stack = Stack
      OBVIOUS
    <3>. QED BY <1>4, <2>10, <3>1, Cut
  <2>12. below = ActivationsIn(mem, fewer)
    <3>1. \A k \in 1 .. n - 1 : k \in 1 .. n
      OBVIOUS
    <3>. QED BY <1>2, <1>10, <1>15, <2>11, <3>1 DEF ActivationsIn
  <2>13. below[n - 1].function = caller
    BY <1>2, <1>15, <2>1, <2>2, <2>11 DEF ActivationsIn
  <2>14. PICK last : last = [below[n - 1] EXCEPT !.vars[ResultOf(caller)] = v]
    OBVIOUS
  <2>15. Stack' = [k \in 1 .. n - 1 |-> IF k = n - 1 THEN last ELSE below[k]]
    BY <2>1, <2>8, <2>9, <2>11, <2>12, <2>14 DEF Updated
  <2>16. Append(SubSeq(below, 1, n - 1 - 1), last)
           = [k \in 1 .. n - 1 |-> IF k = n - 1 THEN last ELSE below[k]]
    <3>1. PICK m \in Nat : m = n - 1 /\ m > 0
      BY <2>1
    <3>2. PICK front : front = SubSeq(below, 1, m - 1)
      OBVIOUS
    <3>3. front = [k \in 1 .. m - 1 |-> below[k]] /\ Len(front) = m - 1
      BY <3>1, <3>2, Cut
    <3>4. DOMAIN front = 1 .. m - 1 /\ front = [k \in 1 .. m - 1 |-> front[k]] /\ m - 1 \in Nat
      BY <3>1, <3>3
    <3>5. Append(front, last) = [k \in 1 .. m - 1 + 1 |-> IF k = m - 1 + 1 THEN last ELSE front[k]]
      BY <3>3, <3>4
    <3>6. Append(front, last) = [k \in 1 .. m |-> IF k = m THEN last ELSE below[k]]
      BY <3>1, <3>3, <3>5
    <3>. QED BY <3>1, <3>2, <3>6
  <2>17. Source!Below = below
    BY <1>16, <2>10 DEF Source!Below
  <2>18. Source!Return
    BY <1>8, <1>16, <1>18, <2>11, <2>13, <2>14, <2>15, <2>16, <2>17 DEF Source!Return
  <2>. QED BY <2>6, <2>18 DEF Source!Next
<1>. QED BY <1>17, <1>18

LEMMA AfterCallSteps ==
  ASSUME NEW acts, Running(acts), AfterCall
  PROVE  Running(acts)' /\ Source!Next
<1>1. /\ FramesLie(acts) /\ RecordsLink(acts, mem) /\ sp \in Int /\ sp % 16 = 0 /\ Above(mem, sp)
      /\ pc.at = "returned" /\ AfterReturn(acts)
  BY DEF Running, AfterCall
<1>2. PICK f : f = pc.function
  OBVIOUS
<1>3. /\ Len(acts) > 0 /\ acts[Len(acts)].function = f /\ acts[Len(acts)].frame_pointer = x29
      /\ Len(acts) \in 1 .. Len(acts) /\ f \in Function
  <2>1. Len(acts) > 0 /\ acts[Len(acts)].function = f /\ acts[Len(acts)].frame_pointer = x29
    BY <1>1, <1>2 DEF AfterReturn, OnTop
  <2>2. Len(acts) \in 1 .. Len(acts)
    BY <1>1, <2>1, DepthBound
  <2>. QED BY <1>1, <2>1, <2>2, ActFacts
<1>4. PICK g \in Function : /\ x30 = ReturnAddress(f, g)
                            /\ sp + CallBytes(g) = FrameEnd(acts[Len(acts)])
  BY <1>1, <1>2 DEF AfterReturn
<1>5. x30[3] = g
  BY <1>4 DEF ReturnAddress
<1>6. PICK end \in Int : end = sp + CallBytes(g) /\ end = FrameEnd(acts[Len(acts)]) /\ end % 16 = 0
  BY <1>1, <1>4, ArgumentPlaces
<1>7. PICK popped : popped = Popped(mem, end)
  OBVIOUS
<1>8. /\ sp' = end /\ x29' = x29 /\ x30' = x30 /\ pc' = [at |-> "body", function |-> f]
      /\ mem' = Store(popped, Slot(f, x29, ResultOf(f)), VariableSize(f, ResultOf(f)), Result)
      /\ event' = [op |-> "none"]
  BY <1>2, <1>3, <1>5, <1>6, <1>7, VariableFacts DEF AfterCall, Slot, Result
<1>9. KeptFrom(popped, mem, end)
  <2>1. ASSUME NEW a \in Int, NEW size \in {4, 8}, a >= end
        PROVE  Load(popped, a, size) = Load(mem, a, size)
    BY <1>7, <2>1, LoadPopped
  <2>. QED BY <2>1 DEF KeptFrom
<1>10. ASSUME NEW i \in 1 .. Len(acts)
       PROVE  end <= FrameEnd(acts[i]) /\ end <= acts[i].frame_pointer
  <2>1. end <= FrameEnd(acts[i])
    BY <1>1, <1>6, TopIsLowest
  <2>2. FrameEnd(acts[i]) \in Int /\ acts[i].frame_pointer \in Int
        /\ FrameEnd(acts[i]) <= acts[i].frame_pointer - 16
    BY <1>1, ActFacts
  <2>. QED BY <2>1, <2>2
<1>11. RecordsLink(acts, popped)
  BY <1>1, <1>9, <1>10, RecordsKept
<1>12. ActivationsIn(popped, acts) = ActivationsIn(mem, acts)
  BY <1>1, <1>9, <1>10, ActivationsKept
<1>13. Above(popped, end)
  BY <1>1, <1>7, PoppedAbove
<1>14. /\ RecordsLink(acts, mem') /\ Above(mem', end)
       /\ ActivationsIn(mem', acts) = Updated(ActivationsIn(mem, acts), ResultOf(f), Result)
  <2>0. PICK i \in Variables(f) : i = ResultOf(f)
    BY <1>3, VariableFacts
  <2>1. PICK pointer, new, result : pointer = x29 /\ new = mem' /\ result = Result
    OBVIOUS
  <2>2. /\ acts[Len(acts)].function = f /\ acts[Len(acts)].frame_pointer = pointer
        /\ Above(popped, FrameEnd(acts[Len(acts)]))
        /\ new = Store(popped, Slot(f, pointer, i), VariableSize(f, i), result)
    BY <1>3, <1>6, <1>8, <1>13, <2>0, <2>1
  <2>3. /\ RecordsLink(acts, new) /\ Above(new, FrameEnd(acts[Len(acts)]))
        /\ ActivationsIn(new, acts) = Updated(ActivationsIn(popped, acts), i, result)
    BY <1>1, <1>3, <1>11, <2>2, VariableWritten
  <2>. QED BY <1>6, <1>12, <2>0, <2>1, <2>3
<1>15. InBody(acts)'
  BY <1>3, <1>6, <1>8 DEF InBody, OnTop
<1>16. Running(acts)'
  BY <1>1, <1>6, <1>8, <1>14, <1>15 DEF Running
<1>17. Stack = Updated(ActivationsIn(mem, acts), ResultOf(f), Result)
  BY <1>1, <1>2, StackIs DEF Activations
<1>18. Stack' = ActivationsIn(mem', acts)
  BY <1>8, <1>16, StackIsNext DEF Activations
<1>19. Source!Silent
  BY <1>8, <1>14, <1>17, <1>18 DEF Source!Silent
<1>. QED BY <1>16, <1>19 DEF Source!Next

LEMMA NothingHappens ==
  ASSUME NEW acts, Running(acts), UNCHANGED vars
  PROVE  Running(acts)' /\ UNCHANGED Source!vars
<1>1. /\ pc' = pc /\ regs' = regs /\ x29' = x29 /\ x30' = x30 /\ sp' = sp /\ mem' = mem
      /\ event' = event
  BY DEF vars
<1>2. Running(acts)'
  <2>1. AtEntry(acts) <=> AtEntry(acts)'
    BY <1>1 DEF AtEntry
  <2>2. InBody(acts) <=> InBody(acts)'
    BY <1>1 DEF InBody, OnTop
  <2>3. AfterReturn(acts) <=> AfterReturn(acts)'
    BY <1>1 DEF AfterReturn, OnTop
  <2>4. AtExit(acts) <=> AtExit(acts)'
    BY <1>1 DEF AtExit
  <2>. QED BY <1>1, <2>1, <2>2, <2>3, <2>4 DEF Running
<1>3. Called' = Called /\ Result' = Result /\ Activations(acts)' = Activations(acts)
  BY <1>1 DEF Called, Incoming, Result, Activations
<1>4. pc.at \in {"entry", "body", "returned", "exit"}
  BY DEF Running
<1>5. Stack' = Stack
  BY <1>1, <1>2, <1>3, <1>4, StackIs, StackIsNext
<1>. QED BY <1>1, <1>2, <1>5 DEF Source!vars

-----------------------------------------------------------------------------
(* The theorems.                                                           *)

LEMMA InitRuns ==
  ASSUME Init
  PROVE  Running(<<>>) /\ Source!Init
<1>1. /\ pc = [at |-> "entry", function |-> Main] /\ regs = AllJunk /\ x29 = 0 /\ x30 = Exit
      /\ sp = 0 /\ mem = <<>> /\ event = [op |-> "start"]
  BY DEF Init
<1>2. FramesLie(<<>>) /\ RecordsLink(<<>>, mem)
  BY DEF FramesLie, RecordsLink
<1>3. -StackBytes <= sp - FrameRecordSize - FrameSize(Main)
  <2>1. PICK size \in Nat : size = FrameSize(Main)
    BY FrameFacts, FunctionAssumption
  <2>. QED BY <1>1, <2>1, StackAssumption DEF FrameRecordSize
<1>4. AtEntry(<<>>)
  BY <1>1, <1>3, FunctionAssumption DEF AtEntry
<1>5. Above(mem, sp)
  BY <1>1 DEF Above
<1>6. Running(<<>>)
  BY <1>1, <1>2, <1>4, <1>5 DEF Running
<1>7. Stack = Append(Activations(<<>>), Called)
  BY <1>1, <1>6, StackIs
<1>8. Activations(<<>>) = <<>>
  BY DEF Activations, ActivationsIn
<1>9. Called = Source!Activation(Main, <<>>)
  <2>1. DOMAIN Signature[Main] = {}
    BY FunctionAssumption
  <2>. QED BY <1>1, <2>1 DEF Called, Source!Activation
<1>10. PICK main : main = Source!Activation(Main, <<>>)
  OBVIOUS
<1>11. Append(<<>>, main) = <<main>>
  OBVIOUS
<1>. QED BY <1>1, <1>6, <1>7, <1>8, <1>9, <1>10, <1>11 DEF Source!Init

LEMMA StepRuns ==
  ASSUME IInv, [Next]_vars
  PROVE  IInv' /\ [Source!Next]_Source!vars
<1>1. PICK acts : Running(acts)
  BY DEF IInv
<1>2. ASSUME NEW f \in Function \ {Main}, NEW args \in ArgumentsOf[f], Call(f, args)
      PROVE  IInv' /\ Source!Next
  BY <1>1, <1>2, CallSteps DEF IInv
<1>3. CASE Enter
  BY <1>1, <1>3, EnterSteps DEF IInv
<1>4. ASSUME NEW i \in Variables(pc.function), NEW v \in Assigned, Assign(i, v)
      PROVE  IInv' /\ Source!Next
  BY <1>1, <1>4, AssignSteps DEF IInv
<1>5. ASSUME NEW v \in Returned, Return(v)
      PROVE  IInv' /\ Source!Next
  BY <1>1, <1>5, LeaveSteps DEF IInv, Return
<1>6. CASE FallOffEnd
  BY <1>1, <1>6, LeaveSteps DEF IInv, FallOffEnd
<1>7. CASE AfterCall
  BY <1>1, <1>7, AfterCallSteps DEF IInv
<1>8. CASE UNCHANGED vars
  BY <1>1, <1>8, NothingHappens DEF IInv
<1>9. [Next]_vars
  OBVIOUS
<1>. QED BY <1>2, <1>3, <1>4, <1>5, <1>6, <1>7, <1>8, <1>9 DEF Next

LEMMA RunsBalanced == IInv => StackBalanced
<1> SUFFICES ASSUME NEW acts, Running(acts) PROVE StackBalanced
  BY DEF IInv
<1>1. CASE pc.at = "body"
  BY <1>1 DEF Running, InBody, OnTop, FrameEnd, StackBalanced
<1>2. CASE pc.at # "body"
  BY <1>2 DEF Running, AtExit, StackBalanced
<1>. QED BY <1>1, <1>2

\* Whatever functions call each other, with whatever parameters, sp is where the
\* frame of the running body ends and 16-byte aligned, and a finished program has
\* given back its stack: what LowerCall, AddFunctionPrologue and
\* AddFunctionEpilogue add to sp and subtract from it cancels out.
THEOREM StackStaysBalanced == Spec => []StackBalanced
<1>1. Init => IInv
  BY InitRuns DEF IInv
<1>2. IInv /\ [Next]_vars => IInv'
  BY StepRuns
<1>. QED BY <1>1, <1>2, RunsBalanced, PTL DEF Spec

\* The instructions IRBuilder emits for calls, prologues, parameters, returns and
\* epilogues implement the calls of the source language, for every set of
\* functions, their parameter types and any number of argument registers.
THEOREM CallsAreImplemented == Spec => CallsImplemented
<1>1. Init => IInv /\ Source!Init
  BY InitRuns DEF IInv
<1>2. IInv /\ [Next]_vars => IInv' /\ [Source!Next]_Source!vars
  BY StepRuns
<1>. QED BY <1>1, <1>2, PTL DEF Spec, CallsImplemented, Source!Spec
=============================================================================
