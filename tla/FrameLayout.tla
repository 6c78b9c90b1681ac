---------------------------- MODULE FrameLayout ----------------------------
(***************************************************************************)
(* The layout rule of a stack frame (FrameStackAllocator in                *)
(* src/src/asm/allocator.cpp): a frame maps the names it has placed to     *)
(* their distance below x29 and remembers how many bytes are in use.       *)
(*                                                                         *)
(* The C++ code counts in `int`; a frame of 2^31 bytes is out of scope, so *)
(* offsets are plain naturals here.                                        *)
(***************************************************************************)
EXTENDS Integers

\* ASMOperand::Size: every scalar type is stored in 4 or 8 bytes.
Size == {4, 8}

EmptyFrame == [offsets |-> [n \in {} |-> 0], current_offset |-> 0]

Alignment(size) == IF size < 8 THEN size ELSE 8

\* Mutant: pads by the remainder instead of its complement.
PaddingByRemainder(offset, alignment) == offset % alignment

\* Bytes to add to `offset` to reach a multiple of `alignment`.
Padding(offset, alignment) == (alignment - (offset % alignment)) % alignment

RoundUp(offset, alignment) == offset + Padding(offset, alignment)

\* Mutant: does not look whether the name has a slot already.
PlaceAlways(frame, name, size) ==
  LET top == RoundUp(frame.current_offset, Alignment(size)) + size
  IN  [offsets |-> [n \in DOMAIN frame.offsets \cup {name} |->
                      IF n = name THEN top ELSE frame.offsets[n]],
       current_offset |-> top]

\* The frame after GetLocalOffset(name, size): a name that already has a slot
\* keeps it, a new one gets the next aligned slot.
Place(frame, name, size) ==
  IF name \in DOMAIN frame.offsets
  THEN frame
  ELSE LET top == RoundUp(frame.current_offset, Alignment(size)) + size
       IN  [offsets |-> [n \in DOMAIN frame.offsets \cup {name} |->
                           IF n = name THEN top ELSE frame.offsets[n]],
            current_offset |-> top]

\* What GetLocalOffset(name, size) returns: a (negative) offset from x29.
LocalOffset(frame, name, size) == -(Place(frame, name, size).offsets[name])

\* Mutant: rounds the frame down.
FrameSizeRoundedDown(frame, alignment) ==
  frame.current_offset - (frame.current_offset % alignment)

AlignedFrameSize(frame, alignment) == RoundUp(frame.current_offset, alignment)
=============================================================================
