---------------------------- MODULE LoadImmediate ----------------------------
(***************************************************************************)
(* MakeLoadImmediateSequence in src/src/asm/operand_resolver.cpp: the movz *)
(* and movk instructions that load a 64-bit value into an x or a w         *)
(* register.  A value is its four 16-bit chunks, the lowest first; the     *)
(* register shows what executing the code emitted so far leaves in it.     *)
(***************************************************************************)
EXTENDS Integers, Sequences

CONSTANTS
  Chunk,     \* the values of 16 bits: 0 .. 65535, or a sample of them
  Garbage    \* what the register held before

ASSUME ChunkAssumption == 0 \in Chunk
ASSUME GarbageAssumption == Garbage \in [1 .. 4 -> Chunk]

VARIABLES
  value,               \* value.AsUInt64(), in chunks
  is_32bit,            \* the destination is a w register
  loop,                \* "scan" (the first), "emit" (the second) or "done"
  idx,
  first_nonzero_idx,   \* 0 while no non-zero chunk was found
  code,                \* the instructions emitted
  reg                  \* the register after executing them

load_vars == <<value, is_32bit, loop, idx, first_nonzero_idx, code, reg>>

ChunkCount(w) == IF w THEN 2 ELSE 4

\* movz clears the rest of the register, movk keeps it; writing a w register
\* clears the upper half of the x register either way.
MovZ(k, chunk) == [j \in 1 .. 4 |-> IF j = k THEN chunk ELSE 0]
MovK(r, k, chunk) ==
  [j \in 1 .. 4 |-> IF j = k THEN chunk
                    ELSE IF j > ChunkCount(is_32bit) THEN 0 ELSE r[j]]

LoadInit ==
  /\ value \in [1 .. 4 -> Chunk]
  /\ is_32bit \in BOOLEAN
  /\ loop = "scan"
  /\ idx = 1
  /\ first_nonzero_idx = 0
  /\ code = <<>>
  /\ reg = Garbage

Emit(variant, k, chunk) ==
  /\ code' = Append(code, [variant |-> variant, chunk |-> chunk, at |-> k])
  /\ reg' = IF variant = "MovZ" THEN MovZ(k, chunk) ELSE MovK(reg, k, chunk)

\* First loop: look for the lowest non-zero chunk.
Scan ==
  /\ loop = "scan"
  /\ idx <= ChunkCount(is_32bit)
  /\ IF value[idx] # 0
     THEN loop' = "emit" /\ first_nonzero_idx' = idx /\ idx' = 1
     ELSE idx' = idx + 1 /\ UNCHANGED <<loop, first_nonzero_idx>>
  /\ UNCHANGED <<value, is_32bit, code, reg>>

\* All chunks that count are zero: a single movz of zero.
EmitZero ==
  /\ loop = "scan"
  /\ idx > ChunkCount(is_32bit)
  /\ Emit("MovZ", 1, 0)
  /\ loop' = "done"
  /\ UNCHANGED <<value, is_32bit, idx, first_nonzero_idx>>

\* Mutant: every chunk is moved with movz.
EmitChunkMovZ ==
  /\ loop = "emit"
  /\ idx <= ChunkCount(is_32bit)
  /\ IF value[idx] # 0 THEN Emit("MovZ", idx, value[idx]) ELSE UNCHANGED <<code, reg>>
  /\ idx' = idx + 1
  /\ UNCHANGED <<value, is_32bit, loop, first_nonzero_idx>>

\* Second loop: movz for the first non-zero chunk, movk for the later ones.
EmitChunk ==
  /\ loop = "emit"
  /\ idx <= ChunkCount(is_32bit)
  /\ \/ idx = first_nonzero_idx /\ Emit("MovZ", idx, value[idx])
     \/ idx # first_nonzero_idx /\ value[idx] # 0 /\ Emit("MovK", idx, value[idx])
     \/ idx # first_nonzero_idx /\ value[idx] = 0 /\ UNCHANGED <<code, reg>>
  /\ idx' = idx + 1
  /\ UNCHANGED <<value, is_32bit, loop, first_nonzero_idx>>

Return ==
  /\ loop = "emit"
  /\ idx > ChunkCount(is_32bit)
  /\ loop' = "done"
  /\ UNCHANGED <<value, is_32bit, idx, first_nonzero_idx, code, reg>>

LoadNext == Scan \/ EmitZero \/ EmitChunk \/ Return

LoadSpec == LoadInit /\ [][LoadNext]_load_vars

-----------------------------------------------------------------------------
\* The part of the value that the register can hold.
Truncated == [j \in 1 .. 4 |-> IF j <= ChunkCount(is_32bit) THEN value[j] ELSE 0]

LoadTypeOK ==
  /\ value \in [1 .. 4 -> Chunk]
  /\ is_32bit \in BOOLEAN
  /\ loop \in {"scan", "emit", "done"}
  /\ idx \in 1 .. ChunkCount(is_32bit) + 1
  /\ first_nonzero_idx \in 0 .. ChunkCount(is_32bit)
  /\ code \in Seq([variant : {"MovZ", "MovK"}, chunk : Chunk, at : 1 .. 4])
  /\ reg \in [1 .. 4 -> Chunk]

\* Whatever the register held, the sequence leaves exactly the value in it: no
\* chunk of the old contents survives and no skipped zero chunk is wrong.
ValueLoaded == loop = "done" => reg = Truncated
=============================================================================
