--------------------------- MODULE MCLoadImmediate ---------------------------
(* All 81 values over the smallest, a middle and the largest chunk, loaded   *)
(* into x and w registers that hold garbage in every chunk.                  *)
EXTENDS LoadImmediate

MCGarbage == <<65535, 4660, 4660, 65535>>
=============================================================================
