---------------------------- MODULE MCLogicalTurn ----------------------------
(* LogicalTurn on small instances: every request is submitted once, so      *)
(* their number bounds the behaviours.                                      *)
EXTENDS LogicalTurn, TLC

Symmetry == Permutations(Messages) \cup Permutations(Conversations)
==============================================================================
