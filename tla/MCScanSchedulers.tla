-------------------------- MODULE MCScanSchedulers ---------------------------
(* ScanSchedulers with timings, slots, gaps and epochs of a few cycles, and  *)
(* no mitigation.  T_RTP is 2: a row stays open for a cycle after its read.  *)
EXTENDS ScanSchedulers
=============================================================================
