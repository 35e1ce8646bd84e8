------------------------------ MODULE RecordSink ------------------------------
(* The sink that writes turn records to the observability database            *)
(* (SQLiteTraceSink of observability/store.py): a synchronous write on the    *)
(* thread of the turn, and behind it a bounded queue, a writer thread, a ring *)
(* of terminal records to retry and a breaker.  Around it the callers that    *)
(* depend on what the writer says: the evidence run of                        *)
(* observability/evidence_run.py, the archivers that hold the writer still    *)
(* for a snapshot, and the one that closes the sink.  Every transaction of    *)
(* the database, and every step of a thread between two of them, is an action.*)
EXTENDS Naturals, FiniteSets, SequencesExt

CONSTANTS
    Turns,      \* logical turns
    Final,      \* Final[t]: number of the terminal record of t; those before it await the user
    Archivers,  \* callers that take a snapshot
    Run,        \* the evidence run
    QueueMax,   \* _RECORD_QUEUE_MAX
    RingMax,    \* _PENDING_RETRY_MAX
    RetryMax,   \* _RECORD_BUSY_MAX_RETRIES
    Worlds      \* who calls, and how many failures of the database, or claims lost to another
                \* server, there are at most

ASSUME SinkAssumption ==
    /\ IsFiniteSet(Turns) /\ Final \in [Turns -> Nat \ {0}]
    /\ Run \notin Archivers
    /\ {QueueMax, RingMax} \subseteq Nat \ {0} /\ RetryMax \in Nat
    /\ Worlds \subseteq [who : SUBSET (Archivers \cup {Run}), faults : Nat]

VARIABLES
    rows,     \* the turns table: number of the record each turn's row holds, 0 without one
    sent,     \* number of records each turn has emitted
    at,       \* where the emission of each turn is
    acknowledged,    \* history: records whose emission returned True
    trusted,  \* history: records whose emission returned False before the sink closed
    queue,    \* the record queue
    ring,     \* _pending: terminal records to retry, oldest first
    breaker,  \* of the synchronous write; "cooled" once its cooldown is over
    writer,   \* where the writer thread is
    work,     \* the batch it applies, or the ring entries it still has to retry
    landed,   \* turns whose ring entry it has written in this pass
    set,      \* callers whose flush event is set
    request,  \* _quiesce_request
    parked,   \* _quiesce_parked
    archive,  \* where each archiver is
    run,      \* where the evidence run is
    covers,   \* records emitted before the barrier of the run
    named,    \* records_dropped_turn_keys: turns counted as dropped
    dropped,  \* records_dropped has grown since the run opened
    closed,   \* _closed, and _stop
    left,     \* failures still to come
    past,     \* history: the kinds of failure so far
    stale,    \* turns of an experiment whose claim is no longer the current one
    turned    \* history: turns a record of which was turned away for that, and whose
              \* terminal row was not there
claims == <<stale, turned>>

emission == <<sent, at, acknowledged, trusted>>
callers  == <<archive, run, covers>>
counters == <<named, dropped>>
thread   == <<writer, work, landed>>
sinkVars == <<rows, emission, queue, ring, breaker, thread, set, request, parked, callers,
          counters, closed, left, past, claims>>

Records == UNION {{t} \X (1..Final[t]) : t \in Turns}
Terminal(r) == r[2] = Final[r[1]]
Callers == Archivers \cup {Run}

(* A caller of the sink is none of the records it takes.                       *)
ASSUME CallersAreNoRecords == Callers \cap Records = {}

(* An item of the queue is a record with its retries, or a caller's flush.    *)
Item(what, tries) == [what |-> what, tries |-> tries]
IsFlush(item) == item.what \in Callers
FlushesIn(items) == {item.what : item \in {i \in ToSet(items) : IsFlush(i)}}
RecordsIn(items) == {item.what : item \in {i \in ToSet(items) : ~IsFlush(i)}}
Room == Len(queue) < QueueMax

(* Deviation: a terminal row can be written over.                             *)
UpsertAlways(r, table) == [table EXCEPT ![r[1]] = r[2]]

(* A record of a stale claim is turned away; a terminal row is final; any     *)
(* other row is replaced by what comes.                                       *)
Upsert(r, table) ==
    IF r[1] \in stale \/ table[r[1]] = Final[r[1]] THEN table
    ELSE [table EXCEPT ![r[1]] = r[2]]

(* What a transaction turns away, it counts, and takes for written.           *)
TurnsAway(turns) ==
    /\ turned' = turned \cup {t \in turns \cap stale : rows[t] # Final[t]}
    /\ UNCHANGED stale

(* The table after the first n items of a batch, for every n.                 *)
Tables(items, table) ==
    LET after[n \in 0..Len(items)] ==
            IF n = 0 THEN table
            ELSE IF IsFlush(items[n]) THEN after[n - 1] ELSE Upsert(items[n].what, after[n - 1])
    IN after
UpsertAll(items, table) == Tables(items, table)[Len(items)]

(* What of the first n elements of a sequence is wanted, for every n.         *)
Sifted(s, wanted) ==
    LET kept[n \in 0..Len(s)] ==
            IF n = 0 THEN <<>>
            ELSE IF s[n] \in wanted THEN Append(kept[n - 1], s[n]) ELSE kept[n - 1]
    IN kept
Sift(s, wanted) == Sifted(s, wanted)[Len(s)]

Forget(turns, entries) == Sift(entries, {r \in ToSet(entries) : r[1] \notin turns})
TurnsOf(records) == {r[1] : r \in records}

Fails(kind) == left > 0 /\ left' = left - 1 /\ past' = past \cup {kind}
Sound == UNCHANGED <<left, past>>

Drop(turns) ==
    /\ named' = named \cup turns
    /\ dropped' = (dropped \/ turns # {})

----------------------------------------------------------------------------
(* A turn emits a record: sync first, unless the breaker holds.               *)
Emit(t) ==
    /\ ~closed /\ at[t] = "idle" /\ sent[t] < Final[t]
    /\ sent' = [sent EXCEPT ![t] = @ + 1]
    /\ at' = [at EXCEPT ![t] = IF breaker = "cooling" THEN "keep" ELSE "sync"]
    /\ UNCHANGED <<rows, acknowledged, trusted, queue, ring, breaker, thread, set, request, parked,
                   callers, counters, closed, claims>> /\ Sound

Latest(t) == <<t, sent[t]>>

SyncWrites(t) ==
    /\ at[t] = "sync" /\ at' = [at EXCEPT ![t] = "idle"]
    /\ rows' = Upsert(Latest(t), rows)
    /\ acknowledged' = acknowledged \cup {Latest(t)}
    /\ ring' = Forget({t}, ring)
    /\ TurnsAway({t})
    /\ UNCHANGED <<sent, trusted, queue, breaker, thread, set, request, parked, callers,
                   counters, closed>> /\ Sound

SyncFails(t) ==
    /\ at[t] = "sync" /\ Fails("sync")
    /\ at' = [at EXCEPT ![t] = "keep"]
    /\ breaker' = "cooling"
    /\ UNCHANGED <<rows, sent, acknowledged, trusted, queue, ring, thread, set, request, parked,
                   callers, counters, closed, claims>>

(* The degraded path remembers a terminal record before it queues it; a full  *)
(* ring gives up the one unrecorded longest.                                  *)
Keep(t) ==
    /\ at[t] = "keep" /\ at' = [at EXCEPT ![t] = "put"]
    /\ LET entries == IF Terminal(Latest(t)) THEN Append(ring, Latest(t)) ELSE ring
           over == Len(entries) > RingMax
       IN /\ ring' = IF over THEN Tail(entries) ELSE entries
          /\ Drop(IF over THEN {Head(entries)[1]} ELSE {})
    /\ UNCHANGED <<rows, sent, acknowledged, trusted, queue, breaker, thread, set, request, parked,
                   callers, closed, claims>> /\ Sound

Put(t) ==
    /\ at[t] = "put" /\ at' = [at EXCEPT ![t] = "idle"]
    /\ IF Room THEN queue' = Append(queue, Item(Latest(t), 0)) /\ UNCHANGED counters
               ELSE Drop({t}) /\ UNCHANGED queue
    /\ trusted' = IF closed THEN trusted ELSE trusted \cup {Latest(t)}
    /\ UNCHANGED <<rows, sent, acknowledged, ring, breaker, thread, set, request, parked, callers,
                   closed, claims>> /\ Sound

(* The cooldown of the breaker passes.                                        *)
Cool ==
    /\ breaker = "cooling" /\ breaker' = "cooled"
    /\ UNCHANGED <<rows, emission, queue, ring, thread, set, request, parked, callers,
                   counters, closed, claims>> /\ Sound

----------------------------------------------------------------------------
(* The writer thread: the top of its loop, and its parking place.             *)
Park ==
    /\ writer = "loop" /\ ~closed /\ request
    /\ writer' = "parked" /\ parked' = TRUE
    /\ UNCHANGED <<rows, emission, queue, ring, breaker, work, landed, set, request, callers,
                   counters, closed, claims>> /\ Sound

(* Deviation: a parked writer waits for its archiver also when it must stop.   *)
WakeOnRelease ==
    /\ writer = "parked" /\ ~request
    /\ writer' = "leaving"
    /\ UNCHANGED <<rows, emission, queue, ring, breaker, work, landed, set, request, parked,
                   callers, counters, closed, claims>> /\ Sound

Wake ==
    /\ writer = "parked" /\ (request => closed)
    /\ writer' = "leaving"
    /\ UNCHANGED <<rows, emission, queue, ring, breaker, work, landed, set, request, parked,
                   callers, counters, closed, claims>> /\ Sound

Leave ==
    /\ writer = "leaving" /\ writer' = "next"
    /\ parked' = FALSE
    /\ UNCHANGED <<rows, emission, queue, ring, breaker, work, landed, set, request, callers,
                   counters, closed, claims>> /\ Sound

Pass ==
    /\ writer = "loop" /\ ~closed /\ ~request
    /\ writer' = "next"
    /\ UNCHANGED <<rows, emission, queue, ring, breaker, work, landed, set, request, parked,
                   callers, counters, closed, claims>> /\ Sound

(* A closed sink's writer drains without looking at the request.              *)
TakeBatch ==
    /\ writer = "next" \/ (writer = "loop" /\ closed)
    /\ queue # <<>>
    /\ writer' = "apply" /\ work' = queue /\ queue' = <<>>
    /\ UNCHANGED <<rows, emission, ring, breaker, landed, set, request, parked, callers,
                   counters, closed, claims>> /\ Sound

(* Deviation: the flush events are set while the batch is still open.         *)
AppliesAfterTelling ==
    /\ writer = "apply"
    /\ IF FlushesIn(work) \subseteq set
       THEN /\ writer' = "loop" /\ work' = <<>>
            /\ rows' = UpsertAll(work, rows)
            /\ ring' = Forget(TurnsOf(RecordsIn(work)), ring) /\ UNCHANGED set
            /\ TurnsAway(TurnsOf(RecordsIn(work)))
       ELSE set' = set \cup FlushesIn(work) /\ UNCHANGED <<writer, work, rows, ring, claims>>
    /\ UNCHANGED <<emission, queue, breaker, landed, request, parked, callers, counters, closed>>
    /\ Sound

(* One transaction for the batch; its flush events are set after the commit.  *)
Applies ==
    /\ writer = "apply" /\ writer' = "loop" /\ work' = <<>>
    /\ rows' = UpsertAll(work, rows)
    /\ ring' = Forget(TurnsOf(RecordsIn(work)), ring)
    /\ set' = set \cup FlushesIn(work)
    /\ TurnsAway(TurnsOf(RecordsIn(work)))
    /\ UNCHANGED <<emission, queue, breaker, landed, request, parked, callers, counters, closed>>
    /\ Sound

(* A failed batch has applied some of its items: their ring entries are gone, *)
(* and the rollback brings none of them back.  Every flush event is set.      *)
BatchFails(kind) ==
    /\ writer = "apply" /\ Fails(kind)
    /\ writer' = "loop" /\ work' = <<>>
    /\ \E n \in 0..Len(work) : ring' = Forget(TurnsOf(RecordsIn(SubSeq(work, 1, n))), ring)
    /\ set' = set \cup FlushesIn(work)
    /\ UNCHANGED <<rows, emission, breaker, landed, request, parked, callers, closed, claims>>

Again(items) == Sift(items, {item \in ToSet(items) : ~IsFlush(item) /\ item.tries < RetryMax})
Requeued(items) ==
    [i \in DOMAIN Again(items) |-> Item(Again(items)[i].what, Again(items)[i].tries + 1)]

(* What of the items goes back to the queue.                                  *)
Fitting(items) == SubSeq(Requeued(items), 1, Min({Len(Again(items)), QueueMax - Len(queue)}))

(* Deviation: what was retried often enough is left out of the count.         *)
BusyUncounted ==
    /\ BatchFails("busy")
    /\ queue' = queue \o Fitting(work)
    /\ UNCHANGED counters

(* The database is busy: the records go to the end of the queue again, unless *)
(* they were retried often enough or the queue is full.                       *)
Busy ==
    /\ BatchFails("busy")
    /\ queue' = queue \o Fitting(work)
    /\ Drop(TurnsOf(RecordsIn(work) \ RecordsIn(Fitting(work))))

(* Any other failure: the loss is total, and counted as one write error.      *)
Broken == BatchFails("broken") /\ UNCHANGED <<queue, counters>>

(* The idle tick and the end of a closed sink retry the ring, a transaction   *)
(* for each entry; the first failure leaves the rest for the next tick.       *)
Retry(last) ==
    /\ queue = <<>>
    /\ IF last THEN writer = "loop" /\ closed ELSE writer = "next"
    /\ writer' = IF last THEN "final" ELSE "retry"
    /\ work' = [i \in DOMAIN ring |-> Item(ring[i], 0)]
    /\ UNCHANGED <<rows, emission, queue, ring, breaker, landed, set, request, parked, callers,
                   counters, closed, claims>> /\ Sound

Retrying == writer \in {"retry", "final"}

RetryLands ==
    /\ Retrying /\ work # <<>>
    /\ rows' = Upsert(Head(work).what, rows)
    /\ landed' = landed \cup {Head(work).what[1]}
    /\ work' = Tail(work)
    /\ TurnsAway({Head(work).what[1]})
    /\ UNCHANGED <<emission, queue, ring, breaker, writer, set, request, parked, callers,
                   counters, closed>> /\ Sound

RetryFails ==
    /\ Retrying /\ work # <<>> /\ Fails("retry")
    /\ work' = <<>>
    /\ UNCHANGED <<rows, emission, queue, ring, breaker, writer, landed, set, request, parked,
                   callers, counters, closed, claims>>

RetryEnds ==
    /\ Retrying /\ work = <<>>
    /\ ring' = Forget(landed, ring) /\ landed' = {}
    /\ writer' = CASE writer = "final" -> "done"
                   [] breaker = "cooled" -> "probe"
                   [] OTHER -> "loop"
    /\ UNCHANGED <<rows, emission, queue, breaker, work, set, request, parked, callers,
                   counters, closed, claims>> /\ Sound

(* A write probe decides whether the breaker closes or cools down once more.  *)
Probe ==
    /\ writer = "probe" /\ writer' = "loop"
    /\ \/ breaker' = "shut" /\ Sound
       \/ breaker' = "cooling" /\ Fails("probe")
    /\ UNCHANGED <<rows, emission, queue, ring, work, landed, set, request, parked, callers,
                   counters, closed, claims>>

Close ==
    /\ ~closed /\ closed' = TRUE
    /\ UNCHANGED <<rows, emission, queue, ring, breaker, thread, set, request, parked, callers,
                   counters, claims>> /\ Sound

(* Another server takes the experiment of a turn over.                        *)
Supersede(t) ==
    /\ t \notin stale /\ Fails("claim")
    /\ stale' = stale \cup {t}
    /\ UNCHANGED <<rows, emission, queue, ring, breaker, thread, set, request, parked, callers,
                   counters, closed, turned>>

----------------------------------------------------------------------------
(* An archiver holds the writer still: flush, park, settle.                   *)
Holds(s) == archive[s] \in {"flush", "ask", "held", "free"}

(* A sink that is closed has nothing to hold still, or so the archiver thinks.*)
Begin(s) ==
    /\ archive[s] = "no" /\ \A o \in Archivers : ~Holds(o)
    /\ \/ closed /\ archive' = [archive EXCEPT ![s] = "free"] /\ UNCHANGED queue
       \/ ~closed /\ Room /\ archive' = [archive EXCEPT ![s] = "flush"]
          /\ queue' = Append(queue, Item(s, 0))
       \/ ~closed /\ ~Room /\ archive' = [archive EXCEPT ![s] = "done"] /\ UNCHANGED queue
    /\ UNCHANGED <<rows, emission, ring, breaker, thread, set, request, parked, run, covers,
                   counters, closed, claims>> /\ Sound

Ask(s) ==
    /\ archive[s] = "flush" /\ s \in set
    /\ archive' = [archive EXCEPT ![s] = "ask"] /\ request' = TRUE
    /\ UNCHANGED <<rows, emission, queue, ring, breaker, thread, set, parked, run, covers,
                   counters, closed, claims>> /\ Sound

Hold(s) ==
    /\ archive[s] = "ask" /\ (parked \/ closed)
    /\ archive' = [archive EXCEPT ![s] = "held"]
    /\ UNCHANGED <<rows, emission, queue, ring, breaker, thread, set, request, parked, run,
                   covers, counters, closed, claims>> /\ Sound

LetGo(s) ==
    /\ archive' = [archive EXCEPT ![s] = "done"]
    /\ request' = IF archive[s] \in {"ask", "held"} THEN FALSE ELSE request
    /\ UNCHANGED <<rows, emission, queue, ring, breaker, thread, set, parked, run, covers,
                   counters, closed, claims>> /\ Sound

(* One of the two waits runs out of time.                                     *)
GiveUp(s) == archive[s] \in {"flush", "ask"} /\ LetGo(s)

(* The snapshot is taken, in a time nothing bounds.                           *)
Release(s) == archive[s] \in {"held", "free"} /\ LetGo(s)

----------------------------------------------------------------------------
(* The evidence run: what it counts begins here, and ends with a barrier.     *)
OpenRun ==
    /\ run = "no" /\ run' = "open" /\ dropped' = FALSE
    /\ UNCHANGED <<rows, emission, queue, ring, breaker, thread, set, request, parked, archive,
                   covers, named, closed, claims>> /\ Sound

Barrier ==
    /\ run = "open" /\ ~closed
    /\ covers' = acknowledged \cup trusted
    /\ IF Room THEN run' = "wait" /\ queue' = Append(queue, Item(Run, 0))
               ELSE run' = "refused" /\ UNCHANGED queue
    /\ UNCHANGED <<rows, emission, ring, breaker, thread, set, request, parked, archive,
                   counters, closed, claims>> /\ Sound

(* A run is valid when the barrier settled and no record was dropped.         *)
Certify ==
    /\ run = "wait"
    /\ \/ Run \in set /\ run' = IF dropped THEN "refused" ELSE "certified"
       \/ run' = "refused"
    /\ UNCHANGED <<rows, emission, queue, ring, breaker, thread, set, request, parked, archive,
                   covers, counters, closed, claims>> /\ Sound

----------------------------------------------------------------------------
SinkInit ==
    /\ rows = [t \in Turns |-> 0]
    /\ sent = [t \in Turns |-> 0] /\ at = [t \in Turns |-> "idle"]
    /\ acknowledged = {} /\ trusted = {}
    /\ queue = <<>> /\ ring = <<>> /\ breaker = "shut"
    /\ writer = "loop" /\ work = <<>> /\ landed = {}
    /\ set = {} /\ request = FALSE /\ parked = FALSE
    /\ covers = {} /\ named = {} /\ dropped = FALSE
    /\ closed = FALSE /\ past = {} /\ stale = {} /\ turned = {}
    /\ \E world \in Worlds :
        /\ archive = [s \in Archivers |-> IF s \in world.who THEN "no" ELSE "done"]
        /\ run = IF Run \in world.who THEN "no" ELSE "refused"
        /\ left = world.faults

Emission(t) == SyncWrites(t) \/ SyncFails(t) \/ Keep(t) \/ Put(t)

Writer ==
    \/ Park \/ Wake \/ Leave \/ Pass \/ TakeBatch
    \/ Applies \/ Busy \/ Broken
    \/ Retry(FALSE) \/ Retry(TRUE) \/ RetryLands \/ RetryFails \/ RetryEnds
    \/ Probe

SinkNext ==
    \/ \E t \in Turns : Emit(t) \/ Emission(t) \/ Supersede(t)
    \/ Writer \/ Cool \/ Close
    \/ \E s \in Archivers : Begin(s) \/ Ask(s) \/ Hold(s) \/ GiveUp(s) \/ Release(s)
    \/ OpenRun \/ Barrier \/ Certify

SinkSpec == SinkInit /\ [][SinkNext]_sinkVars

(* The threads of the process run, a cooldown passes, and the waits of an     *)
(* archiver have timeouts; its snapshot may take for ever.                    *)
FairSinkSpec ==
    /\ SinkSpec /\ WF_sinkVars(Writer) /\ WF_sinkVars(Cool)
    /\ \A t \in Turns : WF_sinkVars(Emission(t))
    /\ \A s \in Archivers : WF_sinkVars(GiveUp(s))

----------------------------------------------------------------------------
Kinds == {"sync", "busy", "broken", "retry", "probe", "claim"}
Items == [what : Records \cup Callers, tries : 0..RetryMax]

(* The variables have their types; the queue and the ring keep their limits.  *)
SinkTypes ==
    /\ rows \in [Turns -> Nat] /\ sent \in [Turns -> Nat]
    /\ \A t \in Turns : rows[t] <= sent[t] /\ sent[t] <= Final[t]
    /\ at \in [Turns -> {"idle", "sync", "keep", "put"}]
    /\ acknowledged \subseteq Records /\ trusted \subseteq Records /\ covers \subseteq Records
    /\ ToSet(queue) \cup ToSet(work) \subseteq Items /\ Len(queue) <= QueueMax
    /\ ToSet(ring) \subseteq {r \in Records : Terminal(r)} /\ Len(ring) <= RingMax
    /\ breaker \in {"shut", "cooling", "cooled"}
    /\ writer \in {"loop", "parked", "leaving", "next", "apply", "retry", "probe", "final", "done"}
    /\ landed \subseteq Turns /\ named \subseteq Turns /\ set \subseteq Callers
    /\ {request, parked, dropped, closed} \subseteq BOOLEAN
    /\ archive \in [Archivers -> {"no", "flush", "ask", "held", "free", "done"}]
    /\ run \in {"no", "open", "wait", "certified", "refused"}
    /\ left \in Nat /\ past \subseteq Kinds
    /\ turned \subseteq stale /\ stale \subseteq Turns

Stored(r) == rows[r[1]] >= r[2]

(* records_dropped_turn_keys names it, or stale_claim_records counts it.      *)
Counted(r) == r[1] \in named \cup turned
Held(r) == r \in RecordsIn(queue) \cup RecordsIn(work) \cup ToSet(ring)

(* A terminal record that was acknowledged as stored is the row of its turn   *)
(* for good: nothing that drains later, an older record of the turn from the  *)
(* queue above all, takes its place (emit_turn_record, upsert_turn_row).  But *)
(* for a record of a stale claim, which is turned away and acknowledged all   *)
(* the same: no other record is ever acknowledged without its row.            *)
AckedIsFinal ==
    \A r \in acknowledged : Terminal(r) => rows[r[1]] = r[2] \/ r[1] \in turned

(* No terminal record is lost in silence while the worst that happens is a    *)
(* busy database: it is stored, or named among the dropped, or still with the *)
(* writer; and once the writer of a closed sink has finished, the last no     *)
(* longer counts (close: the last turn of a session is never lost).           *)
NothingLostInSilence ==
    "broken" \notin past =>
        \A r \in trusted : Terminal(r) =>
            Stored(r) \/ Counted(r) \/ (Held(r) /\ writer # "done")

(* While an archiver reads the file of an open sink the writer stands still;  *)
(* the parked flag it saw is not that of an earlier archiver (quiesced).      *)
StillWhileHeld ==
    \A s \in Archivers : archive[s] = "held" /\ ~closed => writer = "parked"

(* A valid evidence run holds every terminal record emitted before its        *)
(* barrier, provided no batch failed (evidence_run, flush).                   *)
CertifiedHasItsRecords ==
    run = "certified" /\ past \cap {"busy", "broken"} = {} =>
        \A r \in covers : Terminal(r) => Stored(r) \/ Counted(r)

(* So an archive is read whole and at rest.                                   *)
ArchivesAreWhole == StillWhileHeld /\ CertifiedHasItsRecords

(* What the comments of evidence_run and flush say of every run: when the     *)
(* barrier settled and no drop was counted, no batch was lost, and a terminal *)
(* record emitted before the barrier is stored or at least still on its way.  *)
ValidLostNothing ==
    run = "certified" => \A r \in covers : Terminal(r) => Stored(r) \/ Counted(r) \/ Held(r)

(* No archiver keeps the writer still for ever.                               *)
NobodyHolds == \A s \in Archivers : <>[](archive[s] # "held")

(* Every terminal record the degraded path took is stored or counted at last, *)
(* whatever the order of its retries, unless a batch broke or an archiver     *)
(* never lets go (_requeue_records, _retry_pending).                          *)
EveryRecordSettles ==
    NobodyHolds =>
        \A r \in Records : Terminal(r) =>
            (r \in trusted ~> Stored(r) \/ Counted(r) \/ "broken" \in past)

(* The breaker of the synchronous write closes again once the database can be *)
(* written, unless the sink is closed first or an archiver never lets go      *)
(* (_maybe_rearm_sync_breaker).                                               *)
BreakerCloses == NobodyHolds => (breaker # "shut" ~> breaker = "shut" \/ closed)

(* A closed sink's writer finishes from wherever the close found it, also     *)
(* parked under an archiver that never lets go (close, _park_if_quiescing).   *)
CloseEnds == closed ~> writer = "done"

(* So the sink comes to rest: what it took is settled, and a close ends.      *)
SinkComesToRest == EveryRecordSettles /\ CloseEnds

(* The flush of a caller is answered by whichever batch takes it, also one    *)
(* that fails, and in the drain of a close: the caller of a sink that is idle *)
(* does not run into its timeout (flush, _apply_batch).                       *)
FlushAnswered ==
    NobodyHolds => \A c \in Callers : c \in FlushesIn(queue) ~> c \in set
===============================================================================
