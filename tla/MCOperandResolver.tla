-------------------------- MODULE MCOperandResolver --------------------------
(* One 4-byte and two 8-byte locals, one 4-byte and one 8-byte object of     *)
(* static duration, one double constant and the real register pools.  The    *)
(* frame starts empty, just before the end of the 9-bit offset range, or     *)
(* just before what an immediate holds: locals are near, far, and so far     *)
(* that their address cannot be taken.  Stack slot 1 is near, the parameter  *)
(* of slot 30 is far and the argument is not, and slot 600 is far for both   *)
(* and makes the adjustment of sp too large.                                 *)
EXTENDS ResolvedCode

CONSTANTS v_i, v_p, v_q

MCVar8 == {v_p, v_q}
=============================================================================
