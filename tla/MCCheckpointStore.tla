-------------------------- MODULE MCCheckpointStore --------------------------
(* CheckpointStore on small instances: the generation numbers and the      *)
(* faults of a behaviour are bounded, everything else is finite as it is.  *)
EXTENDS CheckpointStore, TLC

Symmetry == Permutations(Incarnations) \cup Permutations(Contents)
==============================================================================
