---------------------------- MODULE TurnService ----------------------------
(***************************************************************************)
(* What the turn engine promises a client, without tasks, locks, keys or   *)
(* records: a channel serves at most one request at a time; a request is   *)
(* started only on a free channel of a server that still admits, or        *)
(* rejoined while it is being served; a served request is served to its    *)
(* end; and how long anybody waits for it makes no difference to it.       *)
(***************************************************************************)
CONSTANTS Channels, Clients, Requests, NoRequest

VARIABLES
    serving,   \* the request each channel is serving
    awaiting,  \* the request each client is waiting for
    open       \* the server still admits turns

serviceVars == <<serving, awaiting, open>>

Init ==
    /\ serving = [ch \in Channels |-> NoRequest]
    /\ awaiting = [c \in Clients |-> NoRequest]
    /\ open = TRUE

(* A client starts a request on a free channel, or rejoins the same one. *)
Start(c, r) ==
    /\ open
    /\ awaiting[c] = NoRequest
    /\ serving[r.channel] = NoRequest
    /\ serving' = [serving EXCEPT ![r.channel] = r]
    /\ awaiting' = [awaiting EXCEPT ![c] = r]
    /\ UNCHANGED open

Rejoin(c, r) ==
    /\ open
    /\ awaiting[c] = NoRequest
    /\ serving[r.channel] = r
    /\ awaiting' = [awaiting EXCEPT ![c] = r]
    /\ UNCHANGED <<serving, open>>

(* The answer, or the end of the wait window. *)
StopWaiting(c) ==
    /\ awaiting[c] # NoRequest
    /\ awaiting' = [awaiting EXCEPT ![c] = NoRequest]
    /\ UNCHANGED <<serving, open>>

Finish(ch) ==
    /\ serving[ch] # NoRequest
    /\ serving' = [serving EXCEPT ![ch] = NoRequest]
    /\ UNCHANGED <<awaiting, open>>

Close ==
    /\ open
    /\ open' = FALSE
    /\ UNCHANGED <<serving, awaiting>>

Next ==
    \/ \E c \in Clients, r \in Requests : Start(c, r) \/ Rejoin(c, r)
    \/ \E c \in Clients : StopWaiting(c)
    \/ \E ch \in Channels : Finish(ch)
    \/ Close

Spec == Init /\ [][Next]_serviceVars

(* A served request is eventually finished and a client eventually let go. *)
FairSpec ==
    /\ Spec
    /\ \A ch \in Channels : WF_serviceVars(Finish(ch))
    /\ \A c \in Clients : WF_serviceVars(StopWaiting(c))
=============================================================================
