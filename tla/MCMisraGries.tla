---------------------------- MODULE MCMisraGries ----------------------------
(* MisraGries on four rows, two entries and a threshold of three. *)
EXTENDS MisraGries

MCRows == 0..3
=============================================================================
