----------------------------- MODULE RowTracker -----------------------------
(***************************************************************************)
(* What the mitigation asks of an activation tracker, whichever algorithm  *)
(* is behind it (misraGries or hydra in scheduler.c): a function called    *)
(* once per counted ACT of a bank that returns 1 when the row must be      *)
(* swapped.  It may return 1 early, but it never lets a row collect Rth    *)
(* activations without returning 1, as long as its tables are not cleared. *)
(***************************************************************************)
EXTENDS Naturals

CONSTANTS
  Rows,   \* row addresses of the bank
  Rth     \* activations after which a row must be mitigated (TRH/SWITCH_RATE)

VARIABLES
  unmitigated,   \* per row: ACTs since its last trigger or the last clearing
  fired          \* what the last call returned

vars == <<unmitigated, fired>>

Init ==
  /\ unmitigated = [r \in Rows |-> 0]
  /\ fired = FALSE

\* The call returns 1: the row starts again from zero.
Fire(r) ==
  /\ unmitigated' = [unmitigated EXCEPT ![r] = 0]
  /\ fired' = TRUE

\* The call returns 0: only allowed below the threshold.
Pass(r) ==
  /\ unmitigated[r] + 1 < Rth
  /\ unmitigated' = [unmitigated EXCEPT ![r] = @ + 1]
  /\ fired' = FALSE

\* A refresh period ends and the tables are cleared.
Clear ==
  /\ unmitigated' = [r \in Rows |-> 0]
  /\ UNCHANGED fired

Next ==
  \/ \E r \in Rows : Fire(r) \/ Pass(r)
  \/ Clear

Spec == Init /\ [][Next]_vars
=============================================================================
