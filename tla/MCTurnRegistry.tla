--------------------------- MODULE MCTurnRegistry ---------------------------
(* TurnRegistry on a small instance.  Every execution that can be minted is  *)
(* in Keys, so the number of turns is bounded by the model; nothing else     *)
(* needs a bound.                                                            *)
EXTENDS TurnRegistry
=============================================================================
