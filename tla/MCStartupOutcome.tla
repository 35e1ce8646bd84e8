--------------------------- MODULE MCStartupOutcome ---------------------------
(* Two clients and a few executions of one channel.                           *)
EXTENDS StartupOutcome, TLC

Symmetry == Permutations(Clients)
===============================================================================
