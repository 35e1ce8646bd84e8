---------------------------- MODULE SessionCache ----------------------------
(***************************************************************************)
(* The live-session cache of the FastAPI/MCP server and the two durable    *)
(* stores behind it (src/fastworkflow/run_fastapi_mcp/utils.py             *)
(* ChannelSessionManager, checkpoint.py, session_state_store.py).          *)
(*                                                                         *)
(* A session is a live WorkflowExecutionContext.  While it is cached it is *)
(* the truth about its channel; when it has been retired the truth is what *)
(* the checkpoint and the pending-state blob say, and the next request     *)
(* rebuilds the session from them.  Leases and the busy predicate keep a   *)
(* session in use from being retired; whatever the stores cannot hold pins *)
(* the session.  The reaper runs on an executor thread beside all this.    *)
(*                                                                         *)
(* A step of a request ends at each await, whether or not it suspends.     *)
(***************************************************************************)
EXTENDS Integers, FiniteSets

CONSTANTS
    Channels,
    Clients,        \* concurrent HTTP requests
    Values,         \* application state a checkpoint can hold
    Fresh,          \* the application state of a launch configuration
    Opaque,         \* application states that cannot be projected
    Asks,           \* suspensions on ask_user
    Opens,          \* commands in the middle of parameter extraction
    NoSuspension,
    Torn,           \* a pending blob that was cut short
    NoRecord,       \* no checkpoint
    NoChannel,
    MaxLive,        \* MAX_LIVE_SESSIONS
    Worlds          \* kinds of run: what may fail, who asks, what a turn leaves

ASSUME FreshAssumption == Fresh \in Values /\ Opaque \cap Values = {} /\ NoRecord \notin Values
ASSUME CapAssumption == MaxLive \in Nat
ASSUME ClientsAssumption == IsFiniteSet(Clients)
(* A state that cannot be encoded, a turn that raises once its suspension   *)
(* has changed, a checkpoint write that fails, a drain and a crash, a torn  *)
(* blob, a retention pass on its thread.                                    *)
Faults == {"encoding", "raise", "publish", "stop", "tear", "reap ckpt", "reap blob"}

Suspensions == Asks \cup Opens

ASSUME WorldsAssumption ==
    Worlds \subseteq [faults : SUBSET Faults, clients : SUBSET Clients,
                      values : SUBSET (Values \cup Opaque), suspensions : SUBSET Suspensions]

ASSUME SuspensionsAssumption ==
    /\ Asks \cap Opens = {}
    /\ NoSuspension \notin Suspensions
    /\ Torn \notin Suspensions \cup {NoSuspension}

VARIABLES
    cached,     \* channels with a live session (_sessions)
    older,      \* older[ch]: the channels used less recently than ch
    live,       \* the content of each live session
    leases,     \* _leases, the eviction refcounts
    turn,       \* the active turn of each channel, and the lock it holds
    trims,      \* channels whose streaming turn has ended and is yet to trim
    ckpt,       \* the durable checkpoint of each channel
    blob,       \* the durable pending state of each channel
    client,     \* what each request is doing
    closed,     \* _admission_closed
    reaper,     \* the retention pass in progress
    adrift,     \* channels whose turn raised and left another suspension than the
                \* one it began with; nothing has been persisted since
    world       \* the kind of this run

vars == <<cached, older, live, leases, turn, trims, ckpt, blob, client, closed, reaper,
          adrift, world>>

faults == world.faults

Content == [val : Values \cup Opaque, susp : Suspensions \cup {NoSuspension}]
Blank == [val |-> Fresh, susp |-> NoSuspension]

NoTurn == [at |-> "none", streams |-> FALSE]
Turn == [at : {"none", "queued", "running"}, streams : BOOLEAN]

IdleClient == [pc |-> "idle", ch |-> NoChannel]
Client == [pc : {"ensured", "leased", "waiting", "locked"}, ch : Channels] \cup {IdleClient}

Resting == [at |-> "rest", store |-> "none", spared |-> {}, doomed |-> {}]
Reaper == [at     : {"rest", "listing", "removing"},
           store  : {"none", "ckpt", "blob"},
           spared : SUBSET Channels,
           doomed : SUBSET Channels]

TypeOK ==
    /\ cached \subseteq Channels
    /\ older \in [Channels -> SUBSET Channels]
    /\ live \in [Channels -> Content]
    /\ leases \in [Channels -> Nat]
    /\ turn \in [Channels -> Turn]
    /\ trims \subseteq Channels
    /\ ckpt \in [Channels -> Values \cup {NoRecord}]
    /\ blob \in [Channels -> Suspensions \cup {NoSuspension, Torn}]
    /\ client \in [Clients -> Client]
    /\ closed \in BOOLEAN
    /\ reaper \in Reaper
    /\ adrift \subseteq Channels
    /\ world \in Worlds

Init ==
    /\ cached = {}
    /\ older = [ch \in Channels |-> {}]
    /\ live = [ch \in Channels |-> Blank]
    /\ leases = [ch \in Channels |-> 0]
    /\ turn = [ch \in Channels |-> NoTurn]
    /\ trims = {}
    /\ ckpt = [ch \in Channels |-> NoRecord]
    /\ blob = [ch \in Channels |-> NoSuspension]
    /\ client = [c \in Clients |-> IdleClient]
    /\ closed = FALSE
    /\ reaper = Resting
    /\ adrift = {}
    /\ world \in Worlds

-----------------------------------------------------------------------------
(* What a cold creation builds: _restore_from_checkpoint, then the pending *)
(* blob on top of it.                                                      *)
Restored(ch) == [val  |-> IF ckpt[ch] = NoRecord THEN Fresh ELSE ckpt[ch],
                 susp |-> blob[ch]]

(* The state of a channel, wherever it is. *)
Stored(ch) == IF ch \in cached THEN live[ch] ELSE Restored(ch)

LockHeld(ch) ==
    \/ turn[ch].at = "running"
    \/ \E c \in Clients : client[c] = [pc |-> "locked", ch |-> ch]

(* _has_work_in_flight, or leased: busy_channel_ids reports these. *)
Busy == {ch \in Channels : leases[ch] > 0 \/ turn[ch].at # "none" \/ LockHeld(ch)}

(* Deviation: what is on disk is not looked at. *)
EvictableUnsaved(content, pending) ==
    content.val \notin Opaque /\ pending = pending

(* assess: a suspended session whose snapshot is not on disk, and one whose *)
(* command contexts cannot be projected, is pinned.                         *)
Evictable(content, pending) ==
    /\ content.susp # NoSuspension => pending # NoSuspension
    /\ content.val \notin Opaque

Touched(ch) ==
    [x \in Channels |-> IF x = ch THEN cached \ {ch} ELSE older[x] \ {ch}]

(* _evict_oldest_if_needed, on the sessions and contents a step leaves:     *)
(* the oldest candidates, as many as the cache is over target, are written  *)
(* and then dropped; one whose write fails stays.                           *)
Sweep(sessions, content, pending, order, busy, failing) ==
    LET excess == Cardinality(sessions) - MaxLive
        candidates == {x \in sessions \ (busy \cup failing) :
                          Evictable(content[x], pending[x])}
    IN  \E R \in SUBSET candidates :
          /\ Cardinality(R) = IF excess <= 0 THEN 0
                              ELSE IF excess <= Cardinality(candidates) THEN excess
                                   ELSE Cardinality(candidates)
          /\ \A r \in R : order[r] \cap candidates \subseteq R
          /\ cached' = sessions \ R
          /\ older' = [x \in Channels |-> IF x \in cached' THEN order[x] \ R ELSE {}]
          /\ live' = [x \in Channels |-> IF x \in R THEN Blank ELSE content[x]]
          /\ ckpt' = [x \in Channels |-> IF x \in R THEN content[x].val ELSE ckpt[x]]
          /\ adrift' = adrift \ R

Failing == IF "publish" \in faults THEN SUBSET Channels ELSE {{}}

-----------------------------------------------------------------------------
(* The request side. *)

Becomes(c, pc, ch) == client' = [client EXCEPT ![c] = [pc |-> pc, ch |-> ch]]
Answered(c) == client' = [client EXCEPT ![c] = IdleClient]

(* ensure_user_runtime_exists on a cached channel. *)
Ensure(c, ch) ==
    /\ client[c].pc = "idle"
    /\ ch \in cached
    /\ older' = Touched(ch)
    /\ Becomes(c, "ensured", ch)
    /\ UNCHANGED <<cached, live, leases, turn, trims, ckpt, blob, closed, reaper, adrift>>

(* ... and on a cold one: rebuild it, register it and sweep, all under the *)
(* initialization lease.  It is refused once admission is closed; a torn   *)
(* blob makes it raise.                                                    *)
Create(c, ch) ==
    /\ client[c].pc = "idle"
    /\ ch \notin cached
    /\ ~closed
    /\ blob[ch] # Torn
    /\ \E failing \in Failing :
          Sweep(cached \cup {ch}, [live EXCEPT ![ch] = Restored(ch)], blob,
                Touched(ch), Busy \cup {ch}, failing)
    /\ Becomes(c, "ensured", ch)
    /\ UNCHANGED <<leases, turn, trims, blob, closed, reaper>>

(* leased_session: lookup and lease in one. *)
Lease(c) ==
    LET ch == client[c].ch IN
    /\ client[c].pc = "ensured"
    /\ ch \in cached
    /\ older' = Touched(ch)
    /\ leases' = [leases EXCEPT ![ch] = @ + 1]
    /\ Becomes(c, "leased", ch)
    /\ UNCHANGED <<cached, live, turn, trims, ckpt, blob, closed, reaper, adrift>>

(* The session was retired since: 404. *)
NotFound(c) ==
    /\ client[c].pc = "ensured"
    /\ client[c].ch \notin cached
    /\ Answered(c)
    /\ UNCHANGED <<cached, older, live, leases, turn, trims, ckpt, blob, closed, reaper, adrift>>

(* Deviation: a release forgets every lease on the channel. *)
ReleaseAll(ch) == leases' = [leases EXCEPT ![ch] = 0]

Release(ch) == leases' = [leases EXCEPT ![ch] = IF @ > 1 THEN @ - 1 ELSE 0]

(* A turn is registered.  An ordinary request waits for it under its lease; *)
(* a streaming one returns, and the registry alone keeps the session.       *)
Register(c, streams) ==
    LET ch == client[c].ch IN
    /\ client[c].pc = "leased"
    /\ ~closed
    /\ turn[ch] = NoTurn
    /\ turn' = [turn EXCEPT ![ch] = [at |-> "queued", streams |-> streams]]
    /\ \/ streams /\ Answered(c) /\ Release(ch)
       \/ ~streams /\ Becomes(c, "waiting", ch) /\ UNCHANGED leases
    /\ UNCHANGED <<cached, older, live, trims, ckpt, blob, closed, reaper, adrift>>

(* An identical submission waits for the active turn. *)
Rejoin(c) ==
    LET ch == client[c].ch IN
    /\ client[c].pc = "leased"
    /\ ~closed
    /\ turn[ch] # NoTurn
    /\ Becomes(c, "waiting", ch)
    /\ UNCHANGED <<cached, older, live, leases, turn, trims, ckpt, blob, closed, reaper, adrift>>

(* The request is answered: a read, a refusal, a result or a deferral. *)
Leave(c) ==
    /\ client[c].pc \in {"leased", "waiting"}
    /\ Answered(c)
    /\ Release(client[c].ch)
    /\ UNCHANGED <<cached, older, live, turn, trims, ckpt, blob, closed, reaper, adrift>>

(* /new_conversation and /activate_conversation hold the runtime lock       *)
(* across an LLM round trip; the conversation id is runtime state.          *)
Lock(c) ==
    LET ch == client[c].ch IN
    /\ client[c].pc = "leased"
    /\ turn[ch] = NoTurn
    /\ ~LockHeld(ch)
    /\ Becomes(c, "locked", ch)
    /\ UNCHANGED <<cached, older, live, leases, turn, trims, ckpt, blob, closed, reaper, adrift>>

Unlock(c) ==
    LET ch == client[c].ch IN
    /\ client[c].pc = "locked"
    /\ \E v \in world.values : live' = [live EXCEPT ![ch].val = v]
    /\ Answered(c)
    /\ Release(ch)
    /\ UNCHANGED <<cached, older, turn, trims, ckpt, blob, closed, reaper, adrift>>

(* /cancel_pending: the suspension on ask_user is abandoned, an open       *)
(* command is not; the blob goes either way.                               *)
CancelPending(c) ==
    LET ch == client[c].ch IN
    /\ client[c].pc = "leased"
    /\ ~LockHeld(ch)
    /\ live' = [live EXCEPT ![ch].susp = IF @ \in Asks THEN NoSuspension ELSE @]
    /\ blob' = [blob EXCEPT ![ch] = NoSuspension]
    /\ adrift' = adrift \ {ch}
    /\ Answered(c)
    /\ Release(ch)
    /\ UNCHANGED <<cached, older, turn, trims, ckpt, closed, reaper>>

-----------------------------------------------------------------------------
(* The turn side. *)

StartTurn(ch) ==
    /\ turn[ch].at = "queued"
    /\ ~LockHeld(ch)
    /\ turn' = [turn EXCEPT ![ch].at = "running"]
    /\ UNCHANGED <<cached, older, live, leases, trims, ckpt, blob, client, closed, reaper, adrift>>

(* _persist_after_turn: save what is suspended, clear what is not; a state *)
(* that cannot be encoded is not written, and what was there stays.        *)
PersistPending(ch, s) ==
    IF s = NoSuspension
    THEN blob' = [blob EXCEPT ![ch] = NoSuspension]
    ELSE \/ blob' = [blob EXCEPT ![ch] = s]
         \/ "encoding" \in faults /\ UNCHANGED blob

(* The work returned, suspended or not. *)
Returned(ch, v, s) ==
    /\ live' = [live EXCEPT ![ch] = [val |-> v, susp |-> s]]
    /\ PersistPending(ch, s)
    /\ adrift' = adrift \ {ch}

(* It raised, wherever it was, and the persistence was skipped: a command   *)
(* whose parameters were complete has been ended before its response       *)
(* generator runs, and the blob still holds it.                             *)
Raised(ch, v, s) ==
    /\ s = live[ch].susp \/ "raise" \in faults
    /\ live' = [live EXCEPT ![ch] = [val |-> v, susp |-> s]]
    /\ adrift' = IF s = live[ch].susp THEN adrift ELSE adrift \cup {ch}
    /\ UNCHANGED blob

(* A startup turn then commits a checkpoint if it can                       *)
(* (commit_startup_state); the registry lets go.  A streaming turn goes on  *)
(* to trim the cache, an ordinary one does not.                            *)
EndTurn(ch) ==
    /\ turn[ch].at = "running"
    /\ turn' = [turn EXCEPT ![ch] = NoTurn]
    /\ trims' = IF turn[ch].streams THEN trims \cup {ch} ELSE trims
    /\ \E v \in world.values, s \in world.suspensions \cup {NoSuspension} :
          Returned(ch, v, s) \/ Raised(ch, v, s)
    /\ \/ UNCHANGED ckpt
       \/ /\ ~turn[ch].streams
          /\ Evictable(live'[ch], blob'[ch])
          /\ ckpt' = [ckpt EXCEPT ![ch] = live'[ch].val]
    /\ UNCHANGED <<cached, older, leases, client, closed, reaper>>

(* trim_live_sessions, once the registry lock is free again.               *)
Trim(ch) ==
    /\ ch \in trims
    /\ trims' = trims \ {ch}
    /\ \E failing \in Failing : Sweep(cached, live, blob, older, Busy, failing)
    /\ UNCHANGED <<leases, turn, blob, client, closed, reaper>>

-----------------------------------------------------------------------------
(* Retention.  A pass names what it must not touch, lists what the policy  *)
(* lets go (the caps take records of any age), and removes that.           *)

Entries(store) ==
    IF store = "ckpt" THEN {ch \in Channels : ckpt[ch] # NoRecord}
                      ELSE {ch \in Channels : blob[ch] \in Suspensions}

Held == cached \cup {ch \in Channels : leases[ch] > 0}

Removed(store, S) ==
    /\ ckpt' = [ch \in Channels |->
                   IF store = "ckpt" /\ ch \in S THEN NoRecord ELSE ckpt[ch]]
    /\ blob' = [ch \in Channels |->
                   IF store = "blob" /\ ch \in S THEN NoSuspension ELSE blob[ch]]

Threaded(store) == (IF store = "ckpt" THEN "reap ckpt" ELSE "reap blob") \in faults

(* A pass nothing comes in between of. *)
Reap(store) ==
    /\ ~Threaded(store)
    /\ \E S \in SUBSET (Entries(store) \ Held) : S # {} /\ Removed(store, S)
    /\ UNCHANGED <<cached, older, live, leases, turn, trims, client, closed, reaper, adrift>>

(* The pass as the executor thread runs it, beside the event loop. *)
ReapStart(store) ==
    /\ Threaded(store)
    /\ reaper = Resting
    /\ reaper' = [Resting EXCEPT !.at = "listing", !.store = store, !.spared = Held]
    /\ UNCHANGED <<cached, older, live, leases, turn, trims, ckpt, blob, client, closed, adrift>>

ReapList ==
    /\ reaper.at = "listing"
    /\ \E S \in SUBSET (Entries(reaper.store) \ reaper.spared) :
          reaper' = IF S = {} THEN Resting
                    ELSE [reaper EXCEPT !.at = "removing", !.doomed = S, !.spared = {}]
    /\ UNCHANGED <<cached, older, live, leases, turn, trims, ckpt, blob, client, closed, adrift>>

ReapRemove(ch) ==
    /\ reaper.at = "removing"
    /\ ch \in reaper.doomed
    /\ Removed(reaper.store, {ch})
    /\ reaper' = IF reaper.doomed = {ch} THEN Resting
                 ELSE [reaper EXCEPT !.doomed = @ \ {ch}]
    /\ UNCHANGED <<cached, older, live, leases, turn, trims, client, closed, adrift>>

-----------------------------------------------------------------------------
(* The process. *)

Restarted ==
    /\ cached' = {}
    /\ older' = [ch \in Channels |-> {}]
    /\ live' = [ch \in Channels |-> Blank]
    /\ leases' = [ch \in Channels |-> 0]
    /\ turn' = [ch \in Channels |-> NoTurn]
    /\ trims' = {}
    /\ client' = [c \in Clients |-> IdleClient]
    /\ closed' = FALSE
    /\ reaper' = Resting
    /\ adrift' = {}

(* DiskSessionStateStore.save truncates the file it then writes. *)
Crash ==
    /\ "stop" \in faults
    /\ Restarted
    /\ \/ UNCHANGED blob
       \/ /\ "tear" \in faults
          /\ \E ch \in Channels : turn[ch].at = "running" /\ blob' = [blob EXCEPT ![ch] = Torn]
    /\ UNCHANGED ckpt

CloseAdmission ==
    /\ "stop" \in faults
    /\ ~closed
    /\ closed' = TRUE
    /\ UNCHANGED <<cached, older, live, leases, turn, trims, ckpt, blob, client, reaper, adrift>>

(* Deviation: the process exits without writing the sessions at rest.      *)
ShutdownWritesNothing ==
    /\ closed
    /\ Restarted
    /\ UNCHANGED <<ckpt, blob>>

(* The drain is over, or its deadline is: checkpoint_for_shutdown writes   *)
(* every session that is not busy and not pinned; one whose write fails is *)
(* given up; the process exits.                                            *)
Shutdown ==
    /\ closed
    /\ \E failing \in Failing :
          ckpt' = [ch \in Channels |->
                      IF ch \in cached \ (Busy \cup failing) /\ Evictable(live[ch], blob[ch])
                      THEN live[ch].val ELSE ckpt[ch]]
    /\ Restarted
    /\ UNCHANGED <<blob>>

-----------------------------------------------------------------------------
RequestStep(c) ==
    \/ Lease(c) \/ NotFound(c) \/ Rejoin(c) \/ Leave(c)
    \/ Lock(c) \/ Unlock(c) \/ CancelPending(c)
    \/ \E streams \in BOOLEAN : Register(c, streams)

TurnStep(ch) == StartTurn(ch) \/ EndTurn(ch) \/ Trim(ch)

Next ==
    /\ UNCHANGED world
    /\ \/ \E c \in world.clients : RequestStep(c)
       \/ \E c \in world.clients, ch \in Channels : Ensure(c, ch) \/ Create(c, ch)
       \/ \E ch \in Channels : TurnStep(ch) \/ ReapRemove(ch)
       \/ \E store \in {"ckpt", "blob"} : Reap(store) \/ ReapStart(store)
       \/ ReapList
       \/ CloseAdmission
       \/ Shutdown
       \/ Crash

Spec == Init /\ [][Next]_vars

-----------------------------------------------------------------------------
(* Correctness. *)

(* A session somebody was handed stays in the cache until he is done with  *)
(* it, and so does one whose turn is queued or running                     *)
(* (utils.py:1487-1508, 1751; the design's invariants 19 and 21).          *)
InUseStaysCached ==
    /\ \A c \in Clients :
          client[c].pc \in {"leased", "waiting", "locked"} => client[c].ch \in cached
    /\ \A ch \in Channels : turn[ch].at # "none" => ch \in cached

(* A creation hands over a session that is there: the sweep it ends with   *)
(* does not take the one session nobody uses yet (utils.py:1510-1520).     *)
CreatedIsCached ==
    [][\A c \in Clients, ch \in Channels :
          Create(c, ch) => ch \in cached' /\ client'[c].ch = ch]_vars

(* So a session is there for whom it was created or handed to, until he is *)
(* done with it.                                                           *)
SessionsInHand == [][InUseStaysCached']_vars /\ CreatedIsCached

(* Retiring a session and rebuilding it are invisible: the channel has the *)
(* same application state and the same suspended turn before and after     *)
(* (utils.py:1729-1773, checkpoint.py:123-158).  Only the death of the     *)
(* process may show; and a session whose last turn raised in the middle of *)
(* a suspension is excepted, which may come back with what it had finished *)
(* (turns.py:692-726 skips the persistence, wildcard.py:213).               *)
CachingIsInvisible ==
    [][~Crash /\ ~Shutdown =>
          \A ch \in Channels \ adrift :
             (ch \in cached) # (ch \in cached') => Stored(ch)' = Stored(ch)]_vars

(* An orderly restart loses nothing of a channel at rest that is not       *)
(* pinned, the same session excepted: "without this, a clean restart loses *)
(* everything a live channel accumulated since it was last evicted"        *)
(* (utils.py:1661-1669).                                                   *)
RestartKeepsWhatRests ==
    [][Shutdown =>
          \A ch \in Channels \ (Busy \cup adrift) :
             ch \in cached => \/ Stored(ch)' = Stored(ch)
                              \/ ~Evictable(live[ch], blob[ch])]_vars

(* "What pins is the snapshot not being on disk": a suspended session is   *)
(* retired only when what the pending store holds is its own suspension    *)
(* (checkpoint.py:136-142).                                                *)
RetiredWithItsSnapshot ==
    [][\A ch \in cached \ adrift :
          ch \notin cached' => \/ live[ch].susp \in {NoSuspension, blob[ch]}
                               \/ Crash \/ Shutdown]_vars

(* So retirement loses nothing: what a session held is what comes back.    *)
RetirementLosesNothing == CachingIsInvisible /\ RetiredWithItsSnapshot
=============================================================================
