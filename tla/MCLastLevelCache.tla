-------------------------- MODULE MCLastLevelCache --------------------------
(* LastLevelCache with two or three sets of two ways; three lines compete for *)
(* one set, and one line is alone in another, whose leader may disagree.      *)
EXTENDS LastLevelCache
=============================================================================
