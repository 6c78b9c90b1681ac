-------------------------- MODULE MCFrameAllocator --------------------------
(* Two functions, two arguments each, three locals of every combination of   *)
(* sizes: enough for padding between a 4-byte and an 8-byte slot, for a tail *)
(* pad of the frame, and for arg..i to change its size between functions.    *)
EXTENDS FrameAllocator

CONSTANTS v1, v2, v3

MCLocal == {v1, v2, v3}
=============================================================================
