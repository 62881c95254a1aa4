--------------------------- MODULE MCDramChannel ----------------------------
(* DramChannel with timings of a few cycles.  A move is shorter than the     *)
(* refresh, a swap as long as the whole burst, a stall longer than it.       *)
EXTENDS DramChannel

MCSwap == Burst * T_RFC
MCMove == T_RFC - 1
MCStall == MCSwap + 1
=============================================================================
