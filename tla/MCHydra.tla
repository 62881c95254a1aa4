------------------------------ MODULE MCHydra -------------------------------
(* Hydra with two rows of the operating system, a row of counters and two   *)
(* spares, in two groups and on two channels.                               *)
EXTENDS Hydra

MCRows == {0, 1, 4}
MCGroup == [l \in Addresses |-> l % 2]
MCChannel == [r \in Rows |-> IF r = 0 THEN 0 ELSE 1]
=============================================================================
