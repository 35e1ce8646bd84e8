------------------------- MODULE CheckpointRegister -------------------------
(***************************************************************************)
(* What a channel's checkpoint is to the server: a register that holds one *)
(* whole record or nothing.  It is replaced only by a record of the same   *)
(* session lifetime, and a record that a finished publication promised     *)
(* stays readable, itself or its successor, until it is given up.          *)
(***************************************************************************)
CONSTANTS Incarnations, Contents, Nothing

Record == [inc : Incarnations, val : Contents]

VARIABLES
    reg,       \* what a cold restore would read
    promised   \* what the last finished publication promised

registerVars == <<reg, promised>>

Init == reg = Nothing /\ promised = Nothing

Save(r) ==
    /\ reg # Nothing => reg.inc = r.inc
    /\ reg' = r
    /\ UNCHANGED promised

Acknowledge ==
    /\ reg # Nothing
    /\ promised' = reg
    /\ UNCHANGED reg

(* Deleted, reset, reclaimed, set aside, or found damaged. *)
GiveUp == reg' = Nothing /\ promised' = Nothing

Next == (\E r \in Record : Save(r)) \/ Acknowledge \/ GiveUp

Spec == Init /\ [][Next]_registerVars
=============================================================================
