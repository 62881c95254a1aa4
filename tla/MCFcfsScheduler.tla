-------------------------- MODULE MCFcfsScheduler ---------------------------
(* FcfsScheduler with timings of a few cycles.  Swaps and moves are at most *)
(* as long as the burst of refreshes, as they are in the configurations.    *)
EXTENDS FcfsScheduler

MCSwap == Burst * T_RFC
MCMove == T_RFC
MCStall == Burst * T_RFC
=============================================================================
