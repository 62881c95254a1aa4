---------------------------- MODULE MCPageTables ----------------------------
(* PhysicalMemory with two cores of three pages each, on three frames of four *)
(* lines, in a memory of 16 lines.                                            *)
EXTENDS PhysicalMemory
=============================================================================
