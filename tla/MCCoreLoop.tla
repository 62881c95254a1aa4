----------------------------- MODULE MCCoreLoop -----------------------------
(* CoreLoop with small buffers and queues. *)
EXTENDS CoreLoop

TwoLines == [c \in Cores |-> {0, 1}]
SeparateLines == [c \in Cores |-> {c}]
SharedLine == [c \in Cores |-> {0}]
=============================================================================
