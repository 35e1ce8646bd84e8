---------------------------- MODULE StartupOutcome ----------------------------
(* The startup command of a channel: which /initialize submits it, what its   *)
(* outcome leaves in the runtime and in the checkpoint, and what a client is  *)
(* told.  Ordinary turns use the same channel; the session may be retired and *)
(* the server may crash at any point.  All requests ask for the same startup, *)
(* so that one joins the turn another one submitted.                          *)
EXTENDS Naturals, FiniteSets

CONSTANTS
    Clients,  \* clients of /initialize
    MaxTurns  \* bound on the executions of the channel, startup or not

ASSUME StartupAssumption == IsFiniteSet(Clients) /\ MaxTurns \in Nat

VARIABLES
    live,      \* the session is in the cache
    startup,   \* runtime.startup_state of the live session
    key,       \* runtime.startup_turn_key of the live session, 0 for None
    born,      \* the startup state its session was created with
    pinned,    \* checkpoint.assess finds it cannot be written back
    disk,      \* the startup state in the checkpoint
    turns,     \* executions: kind, step and outcome
    active,    \* the registry's pointer
    step,      \* where each client's request is
    waits,     \* the execution it waits for
    told,      \* the last answer of each client
    lives,     \* history: startups begun by the live session
    past       \* history: "pinned", "unwritten" outcomes and "overlap" of cold requests

session == <<live, startup, key, born, pinned>>
clients == <<step, waits, told>>
vars == <<session, disk, turns, active, clients, lives, past>>

States == {"not_attempted", "succeeded", "failed", "suspended"}
Turns == 1..MaxTurns
NoTurn == [kind |-> "none", step |-> "none", outcome |-> "not_attempted"]
Used == {e \in Turns : turns[e].step # "none"}
InFlight == {c \in Clients : step[c] \in {"cold", "submit"}}
(* The bound: every request under way may still need an execution.            *)
Room == Cardinality(Used) + Cardinality(InFlight) < MaxTurns
Fresh == CHOOSE e \in Turns : e \notin Used /\ \A o \in 1..(e - 1) : o \in Used

Nothing == [of |-> 0, is |-> "tokens"]
Answer(e) == [of |-> e, is |-> IF turns[e].step = "done" THEN turns[e].outcome ELSE "running"]
Tell(c, answer) ==
    /\ told' = [told EXCEPT ![c] = answer]
    /\ step' = [step EXCEPT ![c] = "idle"] /\ waits' = [waits EXCEPT ![c] = 0]

----------------------------------------------------------------------------
(* A request that finds the session is answered at once.                      *)
AskLive(c) ==
    /\ step[c] = "idle" /\ live
    /\ LET e == IF key # 0 THEN key ELSE active
       IN Tell(c, IF e # 0 /\ turns[e].step \notin {"none", "forgotten"} THEN Answer(e) ELSE Nothing)
    /\ UNCHANGED <<session, disk, turns, active, lives, past>>

AskCold(c) ==
    /\ step[c] = "idle" /\ ~live /\ Room
    /\ step' = [step EXCEPT ![c] = "cold"]
    /\ past' = past \cup (IF InFlight = {} THEN {} ELSE {"overlap"})
    /\ UNCHANGED <<session, disk, turns, active, waits, told, lives>>

Rehydrated ==
    /\ live' = TRUE /\ startup' = disk /\ born' = disk /\ key' = 0 /\ pinned' = FALSE
    /\ lives' = 0

(* Under the creation lock: another request may have created it meanwhile.    *)
Create(c) ==
    /\ step[c] = "cold" /\ step' = [step EXCEPT ![c] = "submit"]
    /\ \/ live /\ UNCHANGED <<session, lives>>
       \/ ~live /\ Rehydrated
    /\ UNCHANGED <<disk, turns, active, waits, told, past>>

(* The startup turn is submitted: it begins, joins the one under way, or finds*)
(* an ordinary turn and reports that one.                                     *)
Submit(c) ==
    /\ step[c] = "submit"
    /\ \/ /\ ~live /\ Tell(c, [of |-> 0, is |-> "error"])
          /\ UNCHANGED <<session, turns, active, lives>>
       \/ /\ live /\ active = 0
          /\ turns' = [turns EXCEPT ![Fresh] = [kind |-> "startup", step |-> "runs", outcome |-> "not_attempted"]]
          /\ active' = Fresh /\ lives' = lives + 1
          /\ step' = [step EXCEPT ![c] = "wait"] /\ waits' = [waits EXCEPT ![c] = Fresh]
          /\ UNCHANGED <<session, told>>
       \/ /\ live /\ active # 0 /\ turns[active].kind = "startup"
          /\ step' = [step EXCEPT ![c] = "wait"] /\ waits' = [waits EXCEPT ![c] = active]
          /\ UNCHANGED <<session, turns, active, told, lives>>
       \/ /\ live /\ active # 0 /\ turns[active].kind = "chat"
          /\ Tell(c, Answer(active)) /\ key' = active
          /\ UNCHANGED <<live, startup, born, pinned, turns, active, lives>>
    /\ UNCHANGED <<disk, past>>

(* The wait ends with the turn or with the window.                            *)
Return(c) ==
    /\ step[c] = "wait" /\ Tell(c, Answer(waits[c]))
    /\ key' = waits[c]
    /\ UNCHANGED <<live, startup, born, pinned, disk, turns, active, lives, past>>

----------------------------------------------------------------------------
(* The work of the startup returns, suspends or raises, and leaves a context  *)
(* that can be written back or not.                                           *)
Work(e, outcome) ==
    /\ active = e /\ turns[e].kind = "startup" /\ turns[e].step = "runs"
    /\ turns' = [turns EXCEPT ![e].step = "ran", ![e].outcome = outcome]
    /\ pinned' \in BOOLEAN
    /\ UNCHANGED <<live, startup, key, born, disk, active, clients, lives, past>>

(* Deviation: the fact waits for the retirement of the session.               *)
CommitInMemory(e) ==
    /\ turns[e].kind = "startup" /\ turns[e].step = "ran"
    /\ turns' = [turns EXCEPT ![e].step = "committed"]
    /\ startup' = turns[e].outcome
    /\ UNCHANGED <<live, key, born, pinned, disk, active, clients, lives, past>>

(* _commit_startup_outcome: an outcome that cannot be written stays in memory.*)
Commit(e) ==
    /\ turns[e].kind = "startup" /\ turns[e].step = "ran"
    /\ turns' = [turns EXCEPT ![e].step = "committed"]
    /\ startup' = turns[e].outcome
    /\ \/ ~pinned /\ disk' = turns[e].outcome /\ UNCHANGED past
       \/ ~pinned /\ past' = past \cup {"unwritten"} /\ UNCHANGED disk
       \/ pinned /\ past' = past \cup {"pinned"} /\ UNCHANGED disk
    /\ UNCHANGED <<live, key, born, pinned, active, clients, lives>>

Done(e) ==
    /\ turns[e].step = "committed"
    /\ turns' = [turns EXCEPT ![e].step = "done"]
    /\ active' = 0
    /\ UNCHANGED <<session, disk, clients, lives, past>>

(* The record of a finished startup leaves the registry; a request that waits *)
(* for it holds the record itself.                                            *)
Forget(e) ==
    /\ turns[e].step = "done" /\ \A c \in Clients : waits[c] # e
    /\ turns' = [turns EXCEPT ![e].step = "forgotten"]
    /\ UNCHANGED <<session, disk, active, clients, lives, past>>

(* Any other turn; its request creates the session where there is none.       *)
Chat ==
    /\ active = 0 /\ Room
    /\ turns' = [turns EXCEPT ![Fresh] = [kind |-> "chat", step |-> "runs", outcome |-> "not_attempted"]]
    /\ active' = Fresh
    /\ \/ live /\ UNCHANGED <<session, lives>>
       \/ ~live /\ Rehydrated
    /\ UNCHANGED <<disk, clients, past>>

EndChat(e) ==
    /\ active = e /\ turns[e].kind = "chat" /\ turns[e].step = "runs"
    /\ turns' = [turns EXCEPT ![e].step = "forgotten"]
    /\ active' = 0 /\ pinned' \in BOOLEAN
    /\ UNCHANGED <<live, startup, key, born, disk, clients, lives, past>>

Gone == live' = FALSE /\ startup' = "not_attempted" /\ key' = 0 /\ born' = "not_attempted" /\ pinned' = FALSE /\ lives' = 0

(* An idle session is retired by somebody's overflow; its record is written.  *)
Retire ==
    /\ live /\ active = 0 /\ ~pinned /\ \A c \in Clients : step[c] # "wait"
    /\ disk' = startup /\ Gone
    /\ UNCHANGED <<turns, active, clients, past>>

Crash ==
    /\ turns' = [e \in Turns |-> [turns[e] EXCEPT !.step = IF @ = "none" THEN @ ELSE "forgotten"]]
    /\ active' = 0 /\ Gone
    /\ step' = [c \in Clients |-> "idle"] /\ waits' = [c \in Clients |-> 0]
    /\ UNCHANGED <<disk, told, past>>

Init ==
    /\ live = FALSE /\ startup = "not_attempted" /\ key = 0 /\ born = "not_attempted" /\ pinned = FALSE
    /\ disk = "not_attempted"
    /\ turns = [e \in Turns |-> NoTurn] /\ active = 0
    /\ step = [c \in Clients |-> "idle"] /\ waits = [c \in Clients |-> 0]
    /\ told = [c \in Clients |-> Nothing]
    /\ lives = 0 /\ past = {}

Next ==
    \/ \E c \in Clients : AskLive(c) \/ AskCold(c) \/ Create(c) \/ Submit(c) \/ Return(c)
    \/ \E e \in Turns :
        \/ \E o \in States \ {"not_attempted"} : Work(e, o)
        \/ Commit(e) \/ Done(e) \/ Forget(e) \/ EndChat(e)
    \/ Chat \/ Retire \/ Crash

Spec == Init /\ [][Next]_vars

----------------------------------------------------------------------------
(* The variables have their types, and only a live session has a state.       *)
TypeOK ==
    /\ live \in BOOLEAN /\ pinned \in BOOLEAN
    /\ startup \in States /\ born \in States /\ disk \in States
    /\ key \in 0..MaxTurns /\ active \in 0..MaxTurns
    /\ turns \in [Turns -> [kind : {"none", "startup", "chat"},
                            step : {"none", "runs", "ran", "committed", "done", "forgotten"},
                            outcome : States]]
    /\ step \in [Clients -> {"idle", "cold", "submit", "wait"}]
    /\ waits \in [Clients -> 0..MaxTurns]
    /\ told \in [Clients -> [of : 0..MaxTurns, is : States \cup {"tokens", "running", "error"}]]
    /\ lives \in 0..MaxTurns /\ past \subseteq {"pinned", "unwritten", "overlap"}
    /\ active # 0 => live /\ turns[active].step \in {"runs", "ran", "committed"}

Startups == {e \in Turns : turns[e].kind = "startup"}

(* The outcome of the last startup anybody was told of is on disk, whatever   *)
(* crashes or retires afterwards, unless the disk or the context refused it:  *)
(* it is durable before it is observable (_commit_startup_outcome).           *)
OutcomeIsDurable ==
    past \cap {"pinned", "unwritten"} = {} =>
        \A c \in Clients : told[c].is \in States =>
            \/ disk = told[c].is
            \/ \E e \in Startups : e > told[c].of /\ turns[e].outcome = disk

(* The checkpoint never claims an outcome no startup had: it is one of the    *)
(* outcomes reached, over crashes, retirements and lost writes                *)
(* (commit_startup_state, startup_projection).                                *)
DurableIsTrue ==
    disk # "not_attempted" => \E e \in Startups : turns[e].outcome = disk

(* So memory, disk and clients agree on what the startup came to.             *)
OutcomesAgree == OutcomeIsDurable /\ DurableIsTrue

(* A live session begins its startup once, also after the registry forgot it: *)
(* only a cold request that ran beside another one can submit it again        *)
(* (initialize, ensure_user_runtime_exists).                                  *)
OncePerSession == "overlap" \notin past => lives <= 1

(* So a startup is begun once and what it came to is known.                   *)
StartupStands == OutcomesAgree /\ OncePerSession

(* What the manual says of a rehydrated session: a startup that completed     *)
(* durably is not run again.                                                  *)
RehydrationDoesNotRerun == [][lives' > lives => born # "succeeded"]_vars
===============================================================================
