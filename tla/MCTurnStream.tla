---------------------------- MODULE MCTurnStream ----------------------------
(* A turn or two of a channel, each with an event or two.                     *)
EXTENDS TurnStream
=============================================================================
