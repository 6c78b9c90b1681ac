--------------------------- MODULE FrameAllocator ---------------------------
(***************************************************************************)
(* The life of stack frames in IRBuilder::Build: for every function a      *)
(* frame is pushed, the function is lowered to instructions over pseudo    *)
(* registers, each pseudo register is resolved to a slot of the frame, and *)
(* only then the prologue that reserves the frame is patched with its      *)
(* size.  The code that reads and writes the slots is thus emitted before  *)
(* anybody knows how large the frame is.                                   *)
(*                                                                         *)
(* Pseudo registers are the named locals and temporaries of the program,   *)
(* whose types semantic analysis fixed before code generation, and the     *)
(* incoming arguments arg..0, arg..1, ..., which LowerFunction registers   *)
(* again, with other types, in every function.                             *)
(***************************************************************************)
EXTENDS FrameLayout, Sequences

CONSTANTS
  Local,         \* unique names of locals and temporaries (automatic storage)
  MaxParams,     \* bound: parameters of a function
  MaxFunctions   \* bound: functions of a translation unit

ASSUME LocalAssumption == Local \cap Nat = {}
ASSUME BoundAssumption == MaxParams \in Nat /\ MaxFunctions \in Nat

Arg == 0 .. MaxParams - 1       \* i stands for the name arg..i
Name == Local \cup Arg

VARIABLES
  phase,        \* where Build stands
  symbol_size,  \* the symbol table: size of the type registered for a name
  unresolved,   \* pseudo registers in the emitted code of this function
  accesses,     \* x29-relative accesses in the resolved code of this function
  frames,       \* FrameStackAllocator::frames_
  frame_size,   \* frame_size_operand: what the prologue subtracts from sp
  built         \* functions finished so far

vars == <<phase, symbol_size, unresolved, accesses, frames, frame_size, built>>

Phase == {"idle", "pushed", "lowering", "resolving", "finalized"}

Pseudo == [name : Name, size : Size]
Access == [name : Name, offset : Int, size : Size]

Top == frames[Len(frames)]

Init ==
  /\ phase = "idle"
  /\ symbol_size \in [Name -> Size]
  /\ unresolved = {}
  /\ accesses = {}
  /\ frames = <<>>
  /\ frame_size = 0
  /\ built = 0

PushFrame ==
  /\ phase = "idle"
  /\ built < MaxFunctions
  /\ phase' = "pushed"
  /\ frames' = Append(frames, EmptyFrame)
  /\ unresolved' = {}
  /\ accesses' = {}
  /\ UNCHANGED <<symbol_size, frame_size, built>>

\* Mutant: registering arg..i keeps the entry of the previous function.
LowerFunctionKeepsEntry(param_sizes) ==
  /\ phase = "pushed"
  /\ phase' = "lowering"
  /\ unresolved' = {[name |-> p, size |-> param_sizes[p]] : p \in DOMAIN param_sizes}
  /\ frame_size' = 0
  /\ UNCHANGED <<symbol_size, accesses, frames, built>>

\* LowerFunction: every parameter registers arg..i with the parameter's type
\* (replacing the entry the previous function left) and is moved to a pseudo
\* register of that size.  The prologue's operand does not exist yet.
LowerFunction(param_sizes) ==
  LET params == DOMAIN param_sizes
      sizes  == [n \in Name |-> IF n \in params THEN param_sizes[n]
                                                ELSE symbol_size[n]]
  IN  /\ phase = "pushed"
      /\ phase' = "lowering"
      /\ symbol_size' = sizes
      /\ unresolved' = {[name |-> p, size |-> sizes[p]] : p \in params}
      /\ frame_size' = 0
      /\ UNCHANGED <<accesses, frames, built>>

\* MakeASMOperand: an instruction mentions `name`; its size is looked up now.
\* The arguments a body can mention are those of its own function.
LowerOperand(name) ==
  /\ phase = "lowering"
  /\ name \in Local \/ \E p \in unresolved : p.name = name
  /\ unresolved' = unresolved \cup {[name |-> name, size |-> symbol_size[name]]}
  /\ UNCHANGED <<phase, symbol_size, accesses, frames, frame_size, built>>

PerformResolving ==
  /\ phase = "lowering"
  /\ phase' = "resolving"
  /\ UNCHANGED <<symbol_size, unresolved, accesses, frames, frame_size, built>>

\* ResolvePseudo (and the address-of case of ResolveAddress): the code gets an
\* access of the pseudo register's own size at the slot the allocator returns.
\* The same pseudo register may occur again later, so it stays in `unresolved`.
ResolvePseudo(p) ==
  /\ phase = "resolving"
  /\ p \in unresolved
  /\ frames' = [frames EXCEPT ![Len(frames)] = Place(Top, p.name, p.size)]
  /\ accesses' = accesses \cup
       {[name |-> p.name, size |-> p.size,
         offset |-> LocalOffset(Top, p.name, p.size)]}
  /\ UNCHANGED <<phase, symbol_size, unresolved, frame_size, built>>

\* PerformFinalizing: the prologue and epilogue are inserted and the frame size
\* rounded up to 16 becomes the prologue's operand.
PerformFinalizing ==
  /\ phase = "resolving"
  /\ \A p \in unresolved : \E a \in accesses : a.name = p.name
  /\ phase' = "finalized"
  /\ frame_size' = AlignedFrameSize(Top, 16)
  /\ UNCHANGED <<symbol_size, unresolved, accesses, frames, built>>

PopFrame ==
  /\ phase = "finalized"
  /\ phase' = "idle"
  /\ frames' = SubSeq(frames, 1, Len(frames) - 1)
  /\ built' = built + 1
  /\ UNCHANGED <<symbol_size, unresolved, accesses, frame_size>>

ParamSizes == UNION {[0 .. n - 1 -> Size] : n \in 0 .. MaxParams}

Next ==
  \/ PushFrame
  \/ \E param_sizes \in ParamSizes : LowerFunction(param_sizes)
  \/ \E name \in Name : LowerOperand(name)
  \/ PerformResolving
  \/ \E p \in unresolved : ResolvePseudo(p)
  \/ PerformFinalizing
  \/ PopFrame

Spec == Init /\ [][Next]_vars

-----------------------------------------------------------------------------
Disjoint(a, b) == \/ a.offset + a.size <= b.offset
                  \/ b.offset + b.size <= a.offset

IsFrame(f) ==
  /\ f = [offsets |-> f.offsets, current_offset |-> f.current_offset]
  /\ f.offsets \in [DOMAIN f.offsets -> Nat]
  /\ DOMAIN f.offsets \subseteq Name
  /\ f.current_offset \in Nat

\* Every variable has its type; in particular frames_ holds at most the frame of
\* the function that is being built.
TypeOK ==
  /\ phase \in Phase
  /\ symbol_size \in [Name -> Size]
  /\ unresolved \subseteq Pseudo
  /\ accesses \subseteq Access
  /\ IF phase = "idle" THEN frames = <<>>
                       ELSE frames = <<Top>> /\ IsFrame(Top)
  /\ frame_size \in Nat
  /\ built \in 0 .. MaxFunctions

\* Two accesses of the code touch the same bytes only if they access the same
\* name, and then at the same address with the same width, although arg..i
\* changes its size from one function to the next.
AccessesDoNotOverlap ==
  \A a, b \in accesses :
    IF a.name = b.name THEN a = b ELSE Disjoint(a, b)

\* Every access emitted while the frame was still growing lies in the bytes
\* that the prologue, patched afterwards, reserves between sp and x29.
AccessesInsideFrame ==
  phase = "finalized" =>
    \A a \in accesses : -frame_size <= a.offset /\ a.offset + a.size <= 0

\* x29 is 16-byte aligned (AAPCS64), so an access is naturally aligned when its
\* offset is, and sp stays aligned when the frame size is a multiple of 16.
AccessesAligned ==
  /\ \A a \in accesses : a.offset % a.size = 0
  /\ frame_size % 16 = 0

\* A slot never moves and is never given up while its function is being built:
\* code emitted earlier keeps addressing the variable.
SlotsNeverMove ==
  [][ frames # <<>> /\ frames' # <<>> =>
        \A n \in DOMAIN Top.offsets :
          /\ n \in DOMAIN Top'.offsets
          /\ Top'.offsets[n] = Top.offsets[n] ]_vars
=============================================================================
