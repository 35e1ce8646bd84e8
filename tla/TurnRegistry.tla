---------------------------- MODULE TurnRegistry ----------------------------
(***************************************************************************)
(* The turn engine of the FastAPI/MCP server                               *)
(* (src/fastworkflow/run_fastapi_mcp/turns.py): the in-process registry of *)
(* turn executions, the per-channel runtime lock, the task that owns each  *)
(* execution, the requests that submit turns and wait a bounded time for   *)
(* them, and the conversation endpoints that contend for the same lock.    *)
(*                                                                         *)
(* Everything here runs on one event loop, so a step is the code between   *)
(* two awaits that can really suspend.  The registry lock never suspends   *)
(* anybody: no critical section under it contains an await, hence it is    *)
(* never found locked.  A task suspends only on the runtime lock, on the   *)
(* executor, and (a request) on done_event.                                *)
(***************************************************************************)
EXTENDS Naturals, FiniteSets, Sequences

CONSTANTS
    Channels,     \* tenants; each has one runtime and one runtime lock
    Keys,         \* execution keys, minted fresh (mint_turn_key)
    Clients,      \* concurrent HTTP requests
    Args,         \* what distinguishes two submissions of one kind
    NoKey,        \* the absent key
    NoRequest,    \* the request of an execution not minted yet
    MaxRetained,  \* MAX_RETAINED_STARTUP_TURNS
    MaxAliases    \* MAX_RETIRED_KEY_ALIASES

(* The cap on retained records is positive, as is the one on aliases; keys *)
(* and clients queue for the same lock and are told apart by name.         *)
ASSUME CapsAssumption == MaxRetained \in Nat \ {0} /\ MaxAliases \in Nat \ {0}
ASSUME NamesAssumption == NoKey \notin Keys /\ Keys \cap Clients = {}
ASSUME KeysFinite == IsFiniteSet(Keys)

VARIABLES
    exec,             \* the executions, by key
    byKey,            \* keys the registry still resolves (_by_key)
    active,           \* the active pointer of each channel (_active_by_channel)
    aliases,          \* keys with a retired alias (_retired_aliases)
    admissionClosed,  \* _admission_closed
    lockQueue,        \* runtime.lock of each channel: the head holds it
    client,           \* what each request is doing, and its last answer
    clock,            \* how many executions have finished
    expiredUpTo       \* retention has lapsed for everything finished by then

vars == <<exec, byKey, active, aliases, admissionClosed, lockQueue, client,
          clock, expiredUpTo>>
registryVars == <<byKey, active, aliases, admissionClosed>>

Kinds == {"chat", "initialize_startup"}
CollectableKinds == {"initialize_startup"}

(* compute_idempotency_key hashes exactly these three, so a request is its *)
(* own idempotency key.                                                    *)
Request == [channel : Channels, kind : Kinds, args : Args]

ASSUME NoRequestAssumption == NoRequest \notin Request

Execution == [state   : {"unminted", "queued", "running", "done"},
              req     : Request \cup {NoRequest},
              logical : BOOLEAN,   \* logical_turn_key is recorded
              fin     : Nat]       \* finished_at, as a position in time

Client == [pc   : {"idle", "waiting", "rotating", "cancelling"},
           req  : Request \cup {NoRequest},
           key  : Keys \cup {NoKey}]

IdleClient == [pc |-> "idle", req |-> NoRequest, key |-> NoKey]

TypeOK ==
    /\ exec \in [Keys -> Execution]
    /\ byKey \subseteq Keys
    /\ active \in [Channels -> Keys \cup {NoKey}]
    /\ aliases \subseteq Keys
    /\ admissionClosed \in BOOLEAN
    /\ lockQueue \in [Channels -> Seq(Keys \cup Clients)]
    /\ client \in [Clients -> Client]
    /\ clock \in Nat
    /\ expiredUpTo \in Nat
    /\ expiredUpTo <= clock

Init ==
    /\ exec = [k \in Keys |-> [state |-> "unminted", req |-> NoRequest,
                               logical |-> FALSE, fin |-> 0]]
    /\ byKey = {}
    /\ active = [ch \in Channels |-> NoKey]
    /\ aliases = {}
    /\ admissionClosed = FALSE
    /\ lockQueue = [ch \in Channels |-> <<>>]
    /\ client = [c \in Clients |-> IdleClient]
    /\ clock = 0
    /\ expiredUpTo = 0

-----------------------------------------------------------------------------
Live(k) == exec[k].state \in {"queued", "running"}
Terminal(k) == exec[k].state = "done"

(* Deviation: busy only while the runtime lock is held by the turn. *)
ActiveWhileRunning(ch) ==
    IF active[ch] \in byKey /\ exec[active[ch]].state = "running"
    THEN active[ch] ELSE NoKey

(* The execution the pointer names, if it is still live. *)
ActiveExecution(ch) ==
    IF active[ch] \in byKey /\ ~Terminal(active[ch]) THEN active[ch] ELSE NoKey

HasActive(ch) == ActiveExecution(ch) # NoKey

Queued(ch) == {lockQueue[ch][i] : i \in DOMAIN lockQueue[ch]}
Holds(x, ch) == lockQueue[ch] # <<>> /\ Head(lockQueue[ch]) = x

Idle(c) == client[c].pc = "idle"
Answered(c) ==
    client' = [client EXCEPT ![c] = IdleClient]
WaitsFor(c, r, k) ==
    client' = [client EXCEPT ![c] = [pc |-> "waiting", req |-> r, key |-> k]]

-----------------------------------------------------------------------------
(* start_or_get_active: join the active execution, or create and launch.   *)
(* A refused submission (503 once admission is closed, 409 on a channel    *)
(* busy with another request) leaves everything as it was and is no step.  *)

Join(c, r) ==
    /\ Idle(c)
    /\ ~admissionClosed
    /\ HasActive(r.channel)
    /\ exec[ActiveExecution(r.channel)].req = r
    /\ WaitsFor(c, r, ActiveExecution(r.channel))
    /\ UNCHANGED <<registryVars, exec, lockQueue, clock, expiredUpTo>>

Accept(c, r, k) ==
    /\ Idle(c)
    /\ ~admissionClosed
    /\ ~HasActive(r.channel)
    /\ exec[k].state = "unminted"
    /\ exec' = [exec EXCEPT ![k] = [state |-> "queued", req |-> r,
                                    logical |-> FALSE, fin |-> 0]]
    /\ byKey' = byKey \cup {k}
    /\ active' = [active EXCEPT ![r.channel] = k]
    /\ WaitsFor(c, r, k)
    /\ UNCHANGED <<aliases, admissionClosed, lockQueue, clock, expiredUpTo>>

(* run_turn raised: both insertions are undone before anybody can look, so *)
(* the request fails; a pointer the insertion overwrote stays gone.        *)
LaunchFails(c, r) ==
    /\ Idle(c)
    /\ ~admissionClosed
    /\ ~HasActive(r.channel)
    /\ active' = [active EXCEPT ![r.channel] = NoKey]
    /\ UNCHANGED <<exec, byKey, aliases, admissionClosed, lockQueue, client,
                   clock, expiredUpTo>>

CloseAdmission ==
    /\ ~admissionClosed
    /\ admissionClosed' = TRUE
    /\ UNCHANGED <<exec, byKey, active, aliases, lockQueue, client, clock,
                   expiredUpTo>>

-----------------------------------------------------------------------------
(* The task that owns an execution (_run_turn, run_owned_turn). *)

(* First step of the task: take the runtime lock, or queue for it. *)
StartTask(k) ==
    LET ch == exec[k].req.channel IN
    /\ exec[k].state = "queued"
    /\ k \notin Queued(ch)
    /\ lockQueue' = [lockQueue EXCEPT ![ch] = Append(@, k)]
    /\ exec' = IF lockQueue[ch] = <<>>
               THEN [exec EXCEPT ![k].state = "running"]
               ELSE exec
    /\ UNCHANGED <<registryVars, client, clock, expiredUpTo>>

(* The lock came round to a queued task. *)
GrantLock(k) ==
    /\ exec[k].state = "queued"
    /\ Holds(k, exec[k].req.channel)
    /\ exec' = [exec EXCEPT ![k].state = "running"]
    /\ UNCHANGED <<registryVars, lockQueue, client, clock, expiredUpTo>>

Newest(S, n, fin) == {x \in S : Cardinality({y \in S : fin[y] > fin[x]}) < n}

(* Deviation: every record is kept until its window lapses, no count cap. *)
RetireUncapped(k, ex) ==
    LET ch == ex[k].req.channel IN
    /\ active' = [active EXCEPT ![ch] = IF @ = k THEN NoKey ELSE @]
    /\ byKey' = {x \in byKey : ex[x].state # "done" \/ ex[x].fin > expiredUpTo}
    /\ UNCHANGED aliases

(* clear_active, given the executions as they stand with k DONE: drop the  *)
(* pointer if it is ours; keep a startup record within the age window and  *)
(* the count cap; drop any other record, remembering its key if there is a *)
(* stored turn behind it.                                                  *)
Retire(k, ex) ==
    LET ch == ex[k].req.channel
        fin == [x \in Keys |-> ex[x].fin]
        fresh == {x \in Keys : ex[x].fin > expiredUpTo}
        live == {x \in byKey : ex[x].state # "done"}
    IN  /\ active' = [active EXCEPT ![ch] = IF @ = k THEN NoKey ELSE @]
        /\ \/ /\ ex[k].req.kind \in CollectableKinds
              /\ byKey' = live \cup
                          Newest((byKey \ live) \cap fresh, MaxRetained, fin)
              /\ UNCHANGED aliases
           \/ /\ ex[k].req.kind \notin CollectableKinds
              /\ byKey' = byKey \ {k}
              /\ aliases' = IF ex[k].logical
                            THEN Newest((aliases \cup {k}) \cap fresh,
                                        MaxAliases, fin)
                            ELSE aliases

(* Deviation: a turn that ends keeps the runtime lock. *)
FinishTurnHoldingLock(k, known) ==
    LET done == [exec EXCEPT ![k].state = "done", ![k].logical = known,
                             ![k].fin = clock + 1]
    IN  /\ exec[k].state = "running"
        /\ exec' = done
        /\ clock' = clock + 1
        /\ Retire(k, done)
        /\ UNCHANGED <<lockQueue, admissionClosed, client, expiredUpTo>>

(* The work returned or raised.  Everything up to done_event.set() follows *)
(* without a real suspension: the lock is released, the execution is DONE  *)
(* and the registry retires it.  A result names its logical turn; an error *)
(* may or may not have had it recorded while it ran.                       *)
FinishTurn(k, known) ==
    LET ch == exec[k].req.channel
        done == [exec EXCEPT ![k].state = "done", ![k].logical = known,
                             ![k].fin = clock + 1]
    IN  /\ exec[k].state = "running"
        /\ lockQueue' = [lockQueue EXCEPT ![ch] = Tail(@)]
        /\ exec' = done
        /\ clock' = clock + 1
        /\ Retire(k, done)
        /\ UNCHANGED <<admissionClosed, client, expiredUpTo>>

(* TTL: one more of the finished executions leaves its retention window.   *)
(* Nothing is dropped until the next completion sweeps.                    *)
Elapse ==
    /\ expiredUpTo < clock
    /\ expiredUpTo' = expiredUpTo + 1
    /\ UNCHANGED <<registryVars, exec, lockQueue, client, clock>>

(* A poll under a retired execution key whose alias has expired drops it. *)
ForgetAlias(k) ==
    /\ k \in aliases
    /\ exec[k].fin <= expiredUpTo
    /\ aliases' = aliases \ {k}
    /\ UNCHANGED <<exec, byKey, active, admissionClosed, lockQueue, client,
                   clock, expiredUpTo>>

-----------------------------------------------------------------------------
(* The waiting side of submit_turn: wait-or-defer. *)

(* Deviation: the waiter looks its execution up again when it is done. *)
AnswerIfStillRegistered(c) ==
    /\ client[c].pc = "waiting"
    /\ Terminal(client[c].key)
    /\ client[c].key \in byKey
    /\ Answered(c)
    /\ UNCHANGED <<registryVars, exec, lockQueue, clock, expiredUpTo>>

AnswerDone(c) ==
    /\ client[c].pc = "waiting"
    /\ Terminal(client[c].key)
    /\ Answered(c)
    /\ UNCHANGED <<registryVars, exec, lockQueue, clock, expiredUpTo>>

Defer(c) ==
    /\ client[c].pc = "waiting"
    /\ ~Terminal(client[c].key)
    /\ Answered(c)
    /\ UNCHANGED <<registryVars, exec, lockQueue, clock, expiredUpTo>>

-----------------------------------------------------------------------------
(* Endpoints that mutate the conversation under the runtime lock. *)

Enqueue(c, ch, doing) ==
    /\ lockQueue' = [lockQueue EXCEPT ![ch] = Append(@, c)]
    /\ client' = [client EXCEPT ![c] = [pc |-> doing, req |-> NoRequest,
                                        key |-> NoKey]]

(* Deviation: the lock alone is taken for the busy signal. *)
RotateUnchecked(c, ch) ==
    /\ Idle(c)
    /\ Enqueue(c, ch, "rotating")
    /\ UNCHANGED <<registryVars, exec, clock, expiredUpTo>>

(* /new_conversation and /activate_conversation: refused while a turn is   *)
(* active, otherwise they hold the lock across an LLM round trip.          *)
Rotate(c, ch) ==
    /\ Idle(c)
    /\ ~HasActive(ch)
    /\ Enqueue(c, ch, "rotating")
    /\ UNCHANGED <<registryVars, exec, clock, expiredUpTo>>

(* /cancel_pending does not look at the registry, and does nothing that    *)
(* suspends once it has the lock: on a free lock it is over in one step.   *)
Cancel(c, ch) ==
    /\ Idle(c)
    /\ IF lockQueue[ch] = <<>>
       THEN UNCHANGED <<lockQueue, client>>
       ELSE Enqueue(c, ch, "cancelling")
    /\ UNCHANGED <<registryVars, exec, clock, expiredUpTo>>

LeaveLock(c, ch) ==
    /\ client[c].pc \in {"rotating", "cancelling"}
    /\ Holds(c, ch)
    /\ lockQueue' = [lockQueue EXCEPT ![ch] = Tail(@)]
    /\ Answered(c)
    /\ UNCHANGED <<registryVars, exec, clock, expiredUpTo>>

-----------------------------------------------------------------------------
Submit(c) == \E r \in Request :
    \/ Join(c, r)
    \/ \E k \in Keys : Accept(c, r, k)
    \/ LaunchFails(c, r)

TaskStep(k) ==
    \/ StartTask(k)
    \/ GrantLock(k)
    \/ \E known \in BOOLEAN : FinishTurn(k, known)

WaitStep(c) == AnswerDone(c) \/ Defer(c)

Next ==
    \/ \E c \in Clients : Submit(c) \/ WaitStep(c)
    \/ \E c \in Clients, ch \in Channels :
          \/ Rotate(c, ch)
          \/ Cancel(c, ch)
          \/ LeaveLock(c, ch)
    \/ \E k \in Keys : TaskStep(k) \/ ForgetAlias(k)
    \/ CloseAdmission
    \/ Elapse

(* The loop runs every ready task; the work and the labelling under the    *)
(* lock are bounded by their LLM timeouts, so a holder lets go; a request  *)
(* stops waiting at its deadline at the latest.  Nothing makes a client    *)
(* submit, time pass, or the server shut down.                             *)
Fairness ==
    /\ \A k \in Keys : WF_vars(TaskStep(k))
    /\ \A c \in Clients : WF_vars(WaitStep(c))
    /\ \A c \in Clients, ch \in Channels : WF_vars(LeaveLock(c, ch))

Spec == Init /\ [][Next]_vars
FairSpec == Spec /\ Fairness

-----------------------------------------------------------------------------
(* Correctness. *)

(* A channel never has two live executions, and the live one is where      *)
(* every reader looks: the pointer names it and the registry resolves it.  *)
(* turns.py:19-22 and 232 rest the 409 guard, the retries and the drain on *)
(* this.                                                                   *)
SingleFlight ==
    \A k \in Keys : Live(k) =>
        /\ active[exec[k].req.channel] = k
        /\ k \in byKey

(* Only the holder of a channel's runtime lock runs, and a conversation is *)
(* never rotated from behind an admitted turn: a rotation that passed the  *)
(* busy check acts before any turn admitted since (__main__.py:2131,2524). *)
LockDiscipline ==
    \A ch \in Channels :
        /\ \A k \in Keys : exec[k].state = "running" /\ exec[k].req.channel = ch
                              => Holds(k, ch)
        /\ \A i, j \in DOMAIN lockQueue[ch] :
              /\ lockQueue[ch][i] \in Keys
              /\ lockQueue[ch][j] \in Clients
              /\ client[lockQueue[ch][j]].pc = "rotating"
              => j < i

(* A waiting request waits for the execution of its own submission: the    *)
(* one it launched or an identical one it rejoined, never another's.       *)
WaitsForItsOwn ==
    \A c \in Clients : client[c].pc = "waiting" =>
        exec[client[c].key].req = client[c].req

(* Finished records are bounded, and what is kept is a startup record; the *)
(* aliases are bounded, and one never shadows a record (turns.py:86-110).  *)
RetentionBounded ==
    LET kept == {k \in byKey : Terminal(k)} IN
    /\ Cardinality(kept) <= MaxRetained
    /\ \A k \in kept : exec[k].req.kind = "initialize_startup"
    /\ Cardinality(aliases) <= MaxAliases
    /\ \A k \in aliases : Terminal(k) /\ k \notin byKey

(* A handle that was given out keeps resolving.  A finished turn's handle  *)
(* (its startup record or its alias) goes before its window has lapsed     *)
(* only by overflow, when as many younger ones fill the cap.               *)
YoungerThan(k, S) == {x \in S : exec'[x].fin > exec'[k].fin}
HandlesOutlastTheWindow ==
    [][\A k \in Keys :
          /\ k \in byKey /\ k \notin byKey' => exec'[k].state = "done"
          /\ (exec'[k].state = "done" /\ exec'[k].fin > expiredUpTo) =>
             /\ (exec'[k].req.kind = "initialize_startup" /\ k \notin byKey') =>
                Cardinality(YoungerThan(k, {x \in Keys : exec'[x].req # NoRequest /\
                     exec'[x].req.kind = "initialize_startup"})) >= MaxRetained
             /\ (exec'[k].req.kind = "chat" /\ exec'[k].logical /\ k \notin aliases') =>
                Cardinality(YoungerThan(k, {x \in Keys : exec'[x].req # NoRequest /\
                     exec'[x].req.kind = "chat" /\ exec'[x].logical})) >= MaxAliases]_vars

(* What a channel keeps of its finished turns is bounded, and a handle that *)
(* was given out outlasts its window all the same (clear_active).          *)
Retention == [][RetentionBounded']_vars /\ HandlesOutlastTheWindow

(* Every request is answered, those waiting for the lock included.         *)
EveryRequestAnswered == \A c \in Clients : ~Idle(c) ~> Idle(c)

-----------------------------------------------------------------------------
(* The engine keeps the promise of TurnService: the request a channel      *)
(* serves is that of its active execution.                                 *)
Serving(ch) == IF HasActive(ch) THEN exec[active[ch]].req ELSE NoRequest
Awaiting(c) == IF client[c].pc = "waiting" THEN client[c].req ELSE NoRequest

Service == INSTANCE TurnService WITH
    Requests <- Request,
    serving  <- [ch \in Channels |-> Serving(ch)],
    awaiting <- [c \in Clients |-> Awaiting(c)],
    open     <- ~admissionClosed

(* Every behaviour of the engine is one of the service (turns.py:11-31:    *)
(* wait-or-defer, single flight, rejoin of the identical submission).      *)
ImplementsService == Service!Spec

(* And so it is with the service's liveness, under the engine's fairness:  *)
(* every admitted turn lets go of its channel, whatever its requester does *)
(* meanwhile (clear_active), and no request waits for ever.                *)
ImplementsServiceFairly == Service!FairSpec
=============================================================================
