---------------------------- MODULE ExperimentStore ----------------------------
(* One experiment of the observability database: its row, its attempts, the   *)
(* claims that fence the servers recording it, its evidence, its seal and its *)
(* erasure (observability/store.py), and the harness that drives it           *)
(* (experiment/runner.py, observability/evidence_run.py).  Every action is    *)
(* one BEGIN IMMEDIATE transaction of the database, or one step of a process. *)
(* Two drivers exist: an "external" controller, which registers attempts that *)
(* servers then claim, and calls the store in any order it likes; and the     *)
(* in-process "harness", which follows its own program.                       *)
EXTENDS Naturals, FiniteSets

CONSTANTS
    Attempts,    \* the declared (task, attempt) pairs of the experiment
    Servers,     \* server incarnations; one that stops never comes back
    Harness,     \* the process of the in-process harness
    MaxEpoch,    \* bound on the claims of an attempt
    MaxRestarts, \* bound on the restarts of an attempt
    MaxSegs,     \* bound on the evidence segments of each driver
    Needs,       \* numbers of segments an external controller may promise
    Worlds       \* the drivers to consider, each with what else goes on

(* What other processes may do to the experiment: seal it, release it, force  *)
(* its verdict, prune, forget a channel, clear the database.                  *)
Around == {"seal", "release", "force", "prune", "forget", "clear"}

ASSUME ConstantsAssumption ==
    /\ IsFiniteSet(Attempts) /\ Attempts # {}
    /\ Harness \notin Servers
    /\ MaxEpoch \in [Attempts -> Nat]
    /\ MaxRestarts \in Nat /\ MaxSegs \in [{"external", "harness"} -> Nat] /\ Needs \subseteq 0..1
    /\ Worlds \subseteq [driver : {"external", "harness"}, around : SUBSET Around]

VARIABLES
    world,    \* which driver runs the experiment, and what goes on around it
    exp,      \* the experiments row
    row,      \* the experiment_attempts rows
    claim,    \* the experiment_attempt_claims rows
    conv,     \* the labelled conversation of each attempt, 0 without one
    minted,   \* the conversation counter of each attempt's channel
    turns,    \* the records stored under the experiment
    segs,     \* the experiment_evidence_runs rows
    archive,  \* the sealed file
    sealing,  \* where the sealing handler is
    release,  \* where the releasing handler is; "done" with the release row
    bound,    \* the execution contexts bound to an attempt
    pending,  \* records emitted and not yet written
    alive,    \* the servers that run
    drv,      \* where the harness is
    at,       \* where the harness is with each attempt
    dropped,  \* the writer counted a drop since the harness began this run
    past      \* history: what happened so far, a part of Events

table == <<exp, row, claim, conv, minted, turns, segs, release>>
procs == <<bound, pending, alive, drv, at, dropped>>
vars  == <<world, table, archive, sealing, procs, past>>

mode == world.driver
Segs == 1..MaxSegs[mode]
NoRow == [status |-> "none"]
Erased == [status |-> "erased"]
NoClaim == [state |-> "none", epoch |-> 0, server |-> Harness]
NoArchive == [status |-> "none", turns |-> {}, recorded |-> FALSE]
NoAttempt == [there |-> FALSE, finished |-> FALSE, outcome |-> "none", restarts |-> 0]

Statuses == {"running", "awaiting_evaluation", "capture_complete", "complete", "invalid"}
Events == {"refused", "fenced", "cleared", "crashed", "dropped"}
Closed == {"capture_complete", "complete", "invalid"}
Outcomes == {"pass", "incomplete"}
There == exp.status \in Statuses
Is(status) == exp.status = status

(* A record carries the labels of the context that emitted it.                *)
Records == [a : Attempts, epoch : Nat, server : Servers \cup {Harness}, conv : Nat]

----------------------------------------------------------------------------
(* Deviation: any claim will do, its epoch is not compared.                   *)
CurrentWithoutEpoch(r) ==
    IF r.epoch = 0 THEN \A a \in Attempts : claim[a] = NoClaim
    ELSE claim[r.a].state = "claimed"

(* The claim check every write of a labelled record goes through: a record    *)
(* without an epoch passes as long as nothing of the experiment was ever      *)
(* registered, one with an epoch only under the claim that issued it.  The    *)
(* lease is not looked at.                                                    *)
Current(r) ==
    IF r.epoch = 0 THEN \A a \in Attempts : claim[a] = NoClaim
    ELSE /\ claim[r.a].state = "claimed"
         /\ claim[r.a].epoch = r.epoch
         /\ claim[r.a].server = r.server

Invalidated == IF There THEN [exp EXCEPT !.status = "invalid"] ELSE exp

(* The verdict of the store on a request to complete.                         *)
Rows == {a \in Attempts : row[a].there}
Recorded == {n \in Segs : segs[n] # "none"}
Verdict(external) ==
    LET short == Rows # Attempts \/ \E a \in Rows : ~row[a].finished
        incomplete == \E a \in Rows : row[a].outcome = "incomplete"
        lost == \E n \in Recorded : segs[n] = "lost"
        thin == Cardinality(Recorded) < exp.need
    IN  IF short THEN (IF external THEN "running" ELSE "invalid")
        ELSE IF incomplete \/ lost THEN "invalid"
        ELSE IF thin THEN (IF external THEN "running" ELSE "invalid")
        ELSE IF \E a \in Rows : row[a].outcome = "none" THEN "awaiting_evaluation"
        ELSE IF external THEN "capture_complete" ELSE "complete"

(* Deleting an experiment takes every row that names it, claims included.     *)
EraseRows ==
    /\ exp' = Erased
    /\ row' = [a \in Attempts |-> NoAttempt]
    /\ claim' = [a \in Attempts |-> NoClaim]
    /\ conv' = [a \in Attempts |-> 0]
    /\ minted' = [a \in Attempts |-> 0]
    /\ turns' = {}
    /\ segs' = [n \in Segs |-> "none"]
    /\ release' = "no"
    /\ past' = past \ {"refused"}

Init ==
    /\ world \in Worlds
    /\ exp = NoRow
    /\ row = [a \in Attempts |-> NoAttempt]
    /\ claim = [a \in Attempts |-> NoClaim]
    /\ conv = [a \in Attempts |-> 0]
    /\ minted = [a \in Attempts |-> 0]
    /\ turns = {}
    /\ segs = [n \in Segs |-> "none"]
    /\ archive = NoArchive
    /\ sealing = "no" /\ release = "no"
    /\ bound = {} /\ pending = {}
    /\ alive = Servers
    /\ drv = "idle"
    /\ at = [a \in Attempts |-> "off"]
    /\ dropped = FALSE
    /\ past = {}

----------------------------------------------------------------------------
(* The store's transactions on the experiment and its attempts.               *)

(* create_experiment with its plan: a first creation, or a resume attaching   *)
(* to an experiment that still runs and has no attempt.                       *)
CreateRow(need) ==
    /\ Is("none") \/ Is("running")
    /\ Rows = {}
    /\ exp' = IF Is("none") THEN [status |-> "running", need |-> need,
                                  sealed |-> FALSE, digest |-> FALSE]
                            ELSE [exp EXCEPT !.need = need]

StartRow(a) ==
    /\ Is("running")
    /\ row' = [row EXCEPT ![a].there = TRUE]

CanFinish(a) == Is("running") /\ row[a].there /\ ~row[a].finished
TerminalRow(a) ==
    /\ CanFinish(a)
    /\ row' = [row EXCEPT ![a].finished = TRUE]

CanGrade(a) ==
    /\ Is("running") \/ Is("awaiting_evaluation")
    /\ row[a].there /\ row[a].finished /\ row[a].outcome = "none"
OutcomeRow(a, outcome) ==
    /\ CanGrade(a)
    /\ row' = [row EXCEPT ![a].outcome = outcome]

(* Deviation: the conversation is deleted and its turns are not.              *)
RestartRowKeepingTurns(a) ==
    /\ row[a].there /\ ~row[a].finished /\ row[a].restarts < MaxRestarts
    /\ row' = [row EXCEPT ![a].restarts = @ + 1]
    /\ conv' = [conv EXCEPT ![a] = 0]
    /\ UNCHANGED turns

(* restart_attempt asks nothing of the experiment's status or of the claim.   *)
RestartRow(a) ==
    /\ row[a].there /\ ~row[a].finished
    /\ row[a].restarts < MaxRestarts
    /\ row' = [row EXCEPT ![a] = [there |-> TRUE, finished |-> FALSE,
                                  outcome |-> "none", restarts |-> @.restarts + 1]]
    /\ turns' = {t \in turns : t.a # a}
    /\ conv' = [conv EXCEPT ![a] = 0]

(* A segment that reported a loss keeps the report.                           *)
SegmentRow(n, valid) ==
    /\ There /\ exp.status \notin Closed
    /\ segs' = [segs EXCEPT ![n] = IF @ = "lost" \/ ~valid THEN "lost" ELSE "valid"]

(* Deviation: a complete experiment is judged again.                          *)
CanCompleteAgain == There /\ ~Is("invalid")

CanComplete == Is("running") \/ Is("awaiting_evaluation")
CompleteRow(external) ==
    /\ CanComplete
    /\ exp' = [exp EXCEPT !.status = Verdict(external)]

----------------------------------------------------------------------------
(* The external controller: any call of the store, in any order.              *)

External == mode = "external"

CreateExternal(need) ==
    /\ External /\ CreateRow(need)
    /\ UNCHANGED <<world, row, claim, conv, minted, turns, segs, release,
                   archive, sealing, procs, past>>

(* Replacing a claimed registration takes an expired lease and a proof: the   *)
(* server is dead, or the caller fenced it and reconciled what it did.  Time  *)
(* is the environment's: a lease may have run out at any moment, a bootstrap  *)
(* whose time ran out is one that is not claimed, or is issued again.         *)
Register(a, proof) ==
    /\ External /\ There
    /\ claim[a].state # "pending"
    /\ claim[a].state = "claimed" /\ proof = "dead" => claim[a].server \notin alive
    /\ claim' = [claim EXCEPT ![a] = [state |-> "pending", epoch |-> @.epoch,
                                      server |-> Harness]]
    /\ past' = IF claim[a].state = "claimed" /\ proof = "fence"
               THEN past \cup {"fenced"} ELSE past
    /\ UNCHANGED <<world, exp, row, conv, minted, turns, segs, release,
                   archive, sealing, procs>>

(* A server consumes a bootstrap: the epoch moves, the attempt's conversation *)
(* is reserved, the attempt row is opened or handed to the new binding.       *)
ClaimAttempt(s, a) ==
    /\ s \in alive /\ \A b \in bound : ~(b.server = s /\ b.a = a)
    /\ claim[a].state = "pending"
    /\ Is("running")
    /\ claim[a].epoch < MaxEpoch[a]
    /\ LET id == IF conv[a] = 0 THEN minted[a] + 1 ELSE conv[a]
           epoch == claim[a].epoch + 1
       IN  /\ conv' = [conv EXCEPT ![a] = id]
           /\ minted' = [minted EXCEPT ![a] = IF conv[a] = 0 THEN id ELSE @]
           /\ claim' = [claim EXCEPT ![a] = [state |-> "claimed", epoch |-> epoch,
                                             server |-> s]]
           /\ bound' = bound \cup {[a |-> a, epoch |-> epoch, server |-> s, conv |-> id]}
    /\ row' = [row EXCEPT ![a].there = TRUE]
    /\ UNCHANGED <<world, exp, turns, segs, release, archive, sealing,
                   pending, alive, drv, at, dropped, past>>

TerminalizeExternal(a) ==
    /\ External /\ TerminalRow(a)
    /\ UNCHANGED <<world, exp, claim, conv, minted, turns, segs, release,
                   archive, sealing, procs, past>>

OutcomeExternal(a, outcome) ==
    /\ External /\ OutcomeRow(a, outcome)
    /\ UNCHANGED <<world, exp, claim, conv, minted, turns, segs, release,
                   archive, sealing, procs, past>>

RestartExternal(a) ==
    /\ External /\ RestartRow(a)
    /\ UNCHANGED <<world, exp, claim, minted, segs, release,
                   archive, sealing, procs, past>>

SegmentExternal(n, valid) ==
    /\ External /\ SegmentRow(n, valid)
    /\ UNCHANGED <<world, exp, row, claim, conv, minted, turns, release,
                   archive, sealing, procs, past>>

CompleteExternal ==
    /\ External /\ CompleteRow(TRUE)
    /\ UNCHANGED <<world, row, claim, conv, minted, turns, segs, release,
                   archive, sealing, procs, past>>

(* An operator forces the verdict, whatever the status.                       *)
Invalidate ==
    /\ "force" \in world.around
    /\ There /\ ~Is("invalid")
    /\ exp' = Invalidated
    /\ UNCHANGED <<world, row, claim, conv, minted, turns, segs, release,
                   archive, sealing, procs, past>>

----------------------------------------------------------------------------
(* Recording: a context emits records, the writer of its process stores them. *)

(* Admission of a turn, and each dispatch, checks the claim of the context.   *)
Emit(b) ==
    /\ b \in bound /\ b \notin pending \cup turns
    /\ b.epoch # 0 => Current(b)
    /\ pending' = pending \cup {b}
    /\ UNCHANGED <<world, table, archive, sealing, bound, alive, drv, at, dropped,
                   past>>

(* The transaction of the writer.  A stale record is not stored, and its      *)
(* experiment is invalid from then on.  The experiment's status is not asked. *)
Write(r) ==
    /\ r \in pending
    /\ pending' = pending \ {r}
    /\ IF Current(r)
       THEN turns' = turns \cup {r} /\ UNCHANGED <<exp, past>>
       ELSE /\ exp' = Invalidated
            /\ past' = IF There THEN past \cup {"refused"} ELSE past
            /\ UNCHANGED turns
    /\ UNCHANGED <<world, row, claim, conv, minted, segs, release, archive, sealing,
                   bound, alive, drv, at, dropped>>

(* The queue of the writer overflows: the record is gone, and counted.        *)
Drop(r) ==
    /\ mode = "harness" /\ r \in pending
    /\ pending' = pending \ {r}
    /\ dropped' = TRUE
    /\ past' = past \cup {"dropped"}
    /\ UNCHANGED <<world, table, archive, sealing, bound, alive, drv, at>>

(* A server dies with its contexts and its unwritten records.                 *)
Kill(s) ==
    /\ External /\ s \in alive
    /\ alive' = alive \ {s}
    /\ bound' = {b \in bound : b.server # s}
    /\ pending' = {r \in pending : r.server # s}
    /\ UNCHANGED <<world, table, archive, sealing, drv, at, dropped, past>>

----------------------------------------------------------------------------
(* The in-process harness.                                                    *)

(* run(): the experiment and its plan, before any attempt.                    *)
Run ==
    /\ mode = "harness" /\ drv = "idle"
    /\ CreateRow(1)
    /\ drv' = "working"
    /\ at' = [a \in Attempts |-> "todo"]
    /\ dropped' = FALSE
    /\ UNCHANGED <<world, row, claim, conv, minted, turns, segs, release, archive,
                   sealing, bound, pending, alive, past>>

(* resume(): attempts whose execution never finished start over, those never  *)
(* started start.                                                             *)
Resume ==
    /\ mode = "harness" /\ drv = "idle" /\ Is("running")
    /\ drv' = "resuming"
    /\ at' = [a \in Attempts |-> IF ~row[a].there THEN "todo"
                                  ELSE IF row[a].finished THEN "off" ELSE "restart"]
    /\ UNCHANGED <<world, table, archive, sealing, bound, pending, alive, dropped,
                   past>>

RestartOne(a) ==
    /\ drv = "resuming" /\ at[a] = "restart"
    /\ RestartRow(a)
    /\ at' = [at EXCEPT ![a] = "todo"]
    /\ UNCHANGED <<world, exp, claim, minted, segs, release, archive, sealing,
                   bound, pending, alive, drv, dropped, past>>

(* The row went away under the resume: resume() raises.                       *)
ResumeRaises ==
    /\ drv = "resuming"
    /\ \E a \in Attempts : at[a] = "restart" /\ (~row[a].there \/ row[a].finished)
    /\ drv' = "idle"
    /\ at' = [a \in Attempts |-> "off"]
    /\ UNCHANGED <<world, table, archive, sealing, bound, pending, alive, dropped,
                   past>>

Execute ==
    /\ drv = "resuming" /\ \A a \in Attempts : at[a] # "restart"
    /\ drv' = "working"
    /\ dropped' = FALSE
    /\ UNCHANGED <<world, table, archive, sealing, bound, pending, alive, at,
                   past>>

(* _run_attempt: the row first, then a context of its own, whose first turn   *)
(* mints the attempt's conversation.                                          *)
StartAttempt(a) ==
    /\ drv = "working" /\ at[a] = "todo"
    /\ IF Is("running")
       THEN /\ StartRow(a)
            /\ at' = [at EXCEPT ![a] = "run"]
            /\ LET id == IF conv[a] = 0 THEN minted[a] + 1 ELSE 0
               IN  /\ conv' = [conv EXCEPT ![a] = IF @ = 0 THEN id ELSE @]
                   /\ minted' = [minted EXCEPT ![a] = IF id # 0 THEN id ELSE @]
                   /\ bound' = bound \cup
                        {[a |-> a, epoch |-> 0, server |-> Harness, conv |-> id]}
       ELSE /\ at' = [at EXCEPT ![a] = "failed"]
            /\ UNCHANGED <<row, conv, minted, bound>>
    /\ UNCHANGED <<world, exp, claim, turns, segs, release, archive, sealing, pending,
                   alive, drv, dropped, past>>

(* finish_attempt is two transactions, one after the other.                   *)
Terminalize(a) ==
    /\ drv = "working" /\ at[a] = "run"
    /\ bound' = {b \in bound : b.a # a}
    /\ IF CanFinish(a)
       THEN TerminalRow(a) /\ at' = [at EXCEPT ![a] = "term"]
       ELSE UNCHANGED row /\ at' = [at EXCEPT ![a] = "failed"]
    /\ UNCHANGED <<world, exp, claim, conv, minted, turns, segs, release, archive,
                   sealing, pending, alive, drv, dropped, past>>

Grade(a, outcome) ==
    /\ drv = "working" /\ at[a] = "term"
    /\ IF CanGrade(a)
       THEN OutcomeRow(a, outcome) /\ at' = [at EXCEPT ![a] = "done"]
       ELSE UNCHANGED row /\ at' = [at EXCEPT ![a] = "failed"]
    /\ UNCHANGED <<world, exp, claim, conv, minted, turns, segs, release, archive,
                   sealing, bound, pending, alive, drv, dropped, past>>

(* EvidenceRun.valid: the flush settled, and no drop was counted meanwhile.   *)
Clean == pending = {} /\ ~dropped

(* The end of evidence_run(), once every worker returned: flush the writer,   *)
(* look at its counters, record the segment.  A flush that does not settle    *)
(* makes the segment invalid.  After a worker that raised the run aborts      *)
(* there; a closed experiment refuses the segment and the run aborts too.     *)
EndRun(n) ==
    /\ drv = "working"
    /\ \A a \in Attempts : at[a] \notin {"todo", "run", "term"}
    /\ n \in Segs /\ Recorded = 1..(n - 1)
    /\ LET aborts == \E a \in Attempts : at[a] = "failed"
       IN  /\ IF There /\ exp.status \notin Closed THEN SegmentRow(n, Clean)
              ELSE UNCHANGED segs
           /\ drv' = IF aborts \/ ~There \/ exp.status \in Closed THEN "idle" ELSE "closing"
    /\ at' = [a \in Attempts |-> "off"]
    /\ UNCHANGED <<world, exp, row, claim, conv, minted, turns, release, archive,
                   sealing, bound, pending, alive, dropped, past>>

CompleteRun ==
    /\ drv = "closing"
    /\ IF CanComplete THEN CompleteRow(FALSE) ELSE UNCHANGED exp
    /\ drv' = "idle"
    /\ UNCHANGED <<world, row, claim, conv, minted, turns, segs, release, archive,
                   sealing, bound, pending, alive, at, dropped, past>>

Crash ==
    /\ mode = "harness" /\ drv # "idle"
    /\ drv' = "idle"
    /\ at' = [a \in Attempts |-> "off"]
    /\ bound' = {} /\ pending' = {}
    /\ past' = past \cup {"crashed"}
    /\ UNCHANGED <<world, table, archive, sealing, alive, dropped>>

----------------------------------------------------------------------------
(* Sealing: promote the row, copy the experiment's rows into a file, attach   *)
(* the file to the row, then free the live rows.                              *)

(* Deviation: the status is left to the end of the seal.                      *)
BeginSealUnstamped ==
    /\ "seal" \in world.around
    /\ sealing = "no"
    /\ exp.status \in {"capture_complete", "complete"} /\ ~exp.digest
    /\ exp' = [exp EXCEPT !.sealed = TRUE]
    /\ sealing' = "begun"
    /\ UNCHANGED <<world, row, claim, conv, minted, turns, segs, release, archive,
                   procs, past>>

BeginSeal ==
    /\ "seal" \in world.around
    /\ sealing = "no"
    /\ exp.status \in {"capture_complete", "complete"} /\ ~exp.digest
    /\ exp' = [exp EXCEPT !.status = "complete", !.sealed = TRUE]
    /\ sealing' = "begun"
    /\ UNCHANGED <<world, row, claim, conv, minted, turns, segs, release, archive,
                   procs, past>>

(* One read transaction: a consistent copy that blocks no writer.             *)
Snapshot ==
    /\ sealing = "begun" /\ There
    /\ archive' = [status |-> exp.status, turns |-> turns, recorded |-> FALSE]
    /\ sealing' = "copied"
    /\ UNCHANGED <<world, table, procs, past>>

RecordArchive ==
    /\ sealing = "copied"
    /\ exp.status \in {"capture_complete", "complete"} /\ ~exp.digest
    /\ exp' = [exp EXCEPT !.status = "complete", !.sealed = TRUE, !.digest = TRUE]
    /\ archive' = [archive EXCEPT !.recorded = TRUE]
    /\ sealing' = "archived"
    /\ UNCHANGED <<world, row, claim, conv, minted, turns, segs, release, procs,
                   past>>

(* The seal ends early: a full disk, a refusal, a stopped process.            *)
SealStops ==
    /\ sealing # "no"
    /\ sealing' = "no"
    /\ UNCHANGED <<world, table, archive, procs, past>>

(* drop_sealed_live_evidence asks for a readable archive, not for a verdict.  *)
FreeSealed ==
    /\ sealing = "archived" /\ archive.recorded
    /\ EraseRows
    /\ sealing' = "no"
    /\ UNCHANGED <<world, archive, procs>>

DeleteSealed ==
    /\ archive.recorded
    /\ EraseRows
    /\ archive' = NoArchive
    /\ UNCHANGED <<world, sealing, procs>>

----------------------------------------------------------------------------
(* Release and erasure.                                                       *)

(* The handler of a release reads the status in one transaction ...           *)
ReleaseRead ==
    /\ "release" \in world.around /\ release = "no"
    /\ There /\ exp.status \notin {"capture_complete", "complete"}
    /\ release' = IF Is("invalid") THEN "closed" ELSE "read"
    /\ UNCHANGED <<world, exp, row, claim, conv, minted, turns, segs, archive, sealing,
                   procs, past>>

(* ... closes the experiment in a second ...                                  *)
ReleaseClose ==
    /\ release = "read"
    /\ exp' = Invalidated
    /\ release' = IF There THEN "closed" ELSE "no"
    /\ UNCHANGED <<world, row, claim, conv, minted, turns, segs, archive, sealing,
                   procs, past>>

(* ... and releases its evidence in a third.                                  *)
ReleaseWrite ==
    /\ release = "closed"
    /\ release' = IF There THEN "done" ELSE "no"
    /\ UNCHANGED <<world, exp, row, claim, conv, minted, turns, segs, archive, sealing,
                   procs, past>>

DeleteReleased ==
    /\ release = "done" /\ There /\ archive = NoArchive
    /\ EraseRows
    /\ UNCHANGED <<world, archive, sealing, procs>>

(* Retention reaches a record whose experiment is not bound.                  *)
Prune(t) ==
    /\ "prune" \in world.around
    /\ t \in turns
    /\ There => exp.sealed \/ release = "done"
    /\ turns' = turns \ {t}
    /\ UNCHANGED <<world, exp, row, claim, conv, minted, segs, release, archive, sealing,
                   procs, past>>

(* The channel of one attempt is forgotten: its rows go, and the experiment   *)
(* of an attempt row that goes is invalid.  Claims and counters stay.         *)
Forget(a) ==
    /\ "forget" \in world.around
    /\ turns' = {t \in turns : t.a # a}
    /\ conv' = [conv EXCEPT ![a] = 0]
    /\ row' = [row EXCEPT ![a] = NoAttempt]
    /\ exp' = IF row[a].there THEN Invalidated ELSE exp
    /\ UNCHANGED <<world, claim, minted, segs, release, archive, sealing, procs,
                   past>>

(* Everything recorded is cleared, except counters, claims and releases.      *)
Clear ==
    /\ "clear" \in world.around /\ There /\ "cleared" \notin past
    /\ exp' = NoRow
    /\ row' = [a \in Attempts |-> NoAttempt]
    /\ conv' = [a \in Attempts |-> 0]
    /\ turns' = {}
    /\ segs' = [n \in Segs |-> "none"]
    /\ past' = (past \ {"refused"}) \cup {"cleared"}
    /\ UNCHANGED <<world, claim, minted, release, archive, sealing, procs>>

Next ==
    \/ \E need \in Needs : CreateExternal(need)
    \/ \E a \in Attempts :
          \/ \E proof \in {"dead", "fence"} : Register(a, proof)
          \/ \E s \in Servers : ClaimAttempt(s, a)
          \/ TerminalizeExternal(a)
          \/ \E outcome \in Outcomes : OutcomeExternal(a, outcome) \/ Grade(a, outcome)
          \/ RestartExternal(a) \/ RestartOne(a) \/ StartAttempt(a) \/ Terminalize(a)
          \/ Forget(a)
    \/ \E n \in Segs : (\E valid \in BOOLEAN : SegmentExternal(n, valid)) \/ EndRun(n)
    \/ CompleteExternal \/ Invalidate
    \/ \E b \in bound : Emit(b)
    \/ \E r \in pending : Write(r) \/ Drop(r)
    \/ \E s \in Servers : Kill(s)
    \/ Run \/ Resume \/ ResumeRaises \/ Execute \/ CompleteRun \/ Crash
    \/ BeginSeal \/ Snapshot \/ RecordArchive \/ SealStops \/ FreeSealed \/ DeleteSealed
    \/ ReleaseRead \/ ReleaseClose \/ ReleaseWrite \/ DeleteReleased \/ Clear
    \/ \E t \in turns : Prune(t)

Spec == Init /\ [][Next]_vars

----------------------------------------------------------------------------
(* Properties.                                                                *)

RowType == [there : BOOLEAN, finished : BOOLEAN, outcome : Outcomes \cup {"none"},
            restarts : 0..MaxRestarts]
ClaimType == [state : {"none", "pending", "claimed"}, epoch : Nat,
              server : Servers \cup {Harness}]

(* The state has its types, a claimed attempt names the server that holds it, *)
(* and a conversation in use is one its channel's counter already passed.     *)
TypeOK ==
    /\ world \in Worlds
    /\ exp \in {NoRow, Erased} \cup
              [status : Statuses, need : 0..1, sealed : BOOLEAN, digest : BOOLEAN]
    /\ row \in [Attempts -> RowType]
    /\ claim \in [Attempts -> ClaimType]
    /\ minted \in [Attempts -> Nat] /\ conv \in [Attempts -> Nat]
    /\ \A a \in Attempts : /\ conv[a] <= minted[a]
                           /\ (claim[a].state = "claimed") = (claim[a].server \in Servers)
    /\ turns \subseteq Records /\ bound \subseteq Records /\ pending \subseteq Records
    /\ segs \in [Segs -> {"none", "valid", "lost"}]
    /\ archive.turns \subseteq Records /\ archive.recorded \in BOOLEAN
    /\ sealing \in {"no", "begun", "copied", "archived"}
    /\ release \in {"no", "read", "closed", "done"}
    /\ alive \subseteq Servers
    /\ drv \in {"idle", "resuming", "working", "closing"}
    /\ at \in [Attempts -> {"off", "restart", "todo", "run", "term", "done", "failed"}]
    /\ dropped \in BOOLEAN /\ past \subseteq Events

(* What experiment_scores calls unreachable stays unreachable: an experiment  *)
(* that counts as captured or complete has every declared attempt executed    *)
(* and graded, no grade "incomplete", and the segments it was promised, none  *)
(* of which reported a loss - whatever calls came before and come after.      *)
CoveredWhenClosed ==
    exp.status \in {"capture_complete", "complete"} =>
        /\ \A a \in Attempts : row[a].there /\ row[a].finished
        /\ exp.status = "complete" \/ mode = "external"
        /\ \A a \in Attempts : row[a].outcome = "pass"
        /\ \A n \in Segs : segs[n] # "lost"
        /\ Cardinality(Recorded) >= exp.need

Rank(status) ==
    CASE status = "running" -> 0 [] status = "awaiting_evaluation" -> 1
      [] status = "capture_complete" -> 2 [] status = "complete" -> 3
      [] OTHER -> 4

(* A verdict is never taken back: an experiment that waits for its grades     *)
(* never runs again, one that is complete is never open again, and "invalid"  *)
(* is the end - for a resume, a late completion, a seal or a late grade.      *)
VerdictsOnlyAdvance ==
    [][There /\ There' => Rank(exp'.status) >= Rank(exp.status)]_vars

(* A grade changes only when the experiment it counted for is void or gone:   *)
(* no restart, re-claim or second grader moves a number once it is stored.    *)
GradesStand ==
    [][\A a \in Attempts :
         row[a].outcome # "none" /\ row'[a].outcome # row[a].outcome
            => ~There' \/ exp'.status = "invalid"]_vars

(* So a verdict stands, with the grades it was given for.                     *)
VerdictsStand == VerdictsOnlyAdvance /\ GradesStand

(* A refused record is a lost record, so an experiment that had one refused   *)
(* is never scored: the refusal itself makes it invalid, and that stays.      *)
RefusalVoidsTheScore == "refused" \in past => ~There \/ Is("invalid")

(* An epoch names one binding: two contexts or records of an attempt with the *)
(* same epoch are of the same server and conversation.                        *)
AnEpochIsOneBinding ==
    \A r1, r2 \in bound \cup pending \cup turns :
        r1.a = r2.a /\ r1.epoch = r2.epoch /\ r1.epoch # 0 => r1 = r2

(* Once a newer binding of an attempt exists nothing of an older one lands.   *)
TheOldBindingIsSilent ==
    [][\A t \in turns' \ turns : \A b \in bound \cup turns :
         b.a = t.a => b.epoch <= t.epoch]_vars

(* So the fence keeps an attempt's evidence to one binding at a time.         *)
BindingsAreFenced == []AnEpochIsOneBinding /\ TheOldBindingIsSilent

(* What a complete harness run is scored on is one trajectory per attempt: a  *)
(* resume left nothing of the abandoned one behind.                           *)
OneTrajectory ==
    mode = "harness" /\ Is("complete") /\ "cleared" \notin past
        => \A t \in turns : t.conv = conv[t.a]

(* A record the writer dropped is never behind a complete harness run, unless *)
(* the process died between the drop and the end of that run.                 *)
DropsAreReported ==
    mode = "harness" /\ Is("complete") /\ "dropped" \in past
        => past \cap {"crashed", "cleared"} # {}

(* So what is scored was captured: all of it, nothing else, and nothing of it *)
(* was refused or dropped.                                                    *)
ScoresAreEarned ==
    CoveredWhenClosed /\ OneTrajectory /\ RefusalVoidsTheScore /\ DropsAreReported

(* The archive the store points readers at says what the row said when it was *)
(* promoted: complete, whatever happened to the row while it was copied.      *)
ArchiveSaysComplete ==
    archive.recorded /\ "cleared" \notin past => archive.status = "complete"

(* What single_live_db_design.md:320 and runner.py:739 say: a late write to a *)
(* closed experiment of registered attempts is refused by the epoch fence.    *)
LateWritesAreRefused ==
    [][mode = "external" /\ exp.status \in {"capture_complete", "complete"} /\ There'
         => turns' \subseteq turns]_vars

(* What single_live_db_design.md:406 says: sealing releases the live evidence *)
(* because the archive carries it.                                            *)
SealedEvidenceIsCarried ==
    [][Is("complete") /\ Is("complete")' => turns \ turns' \subseteq archive.turns]_vars
================================================================================
