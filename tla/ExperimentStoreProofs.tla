------------------------ MODULE ExperimentStoreProofs ------------------------
(***************************************************************************)
(* Proofs about ExperimentStore for any attempts, servers, bounds and       *)
(* worlds, in particular with everything going on around an experiment at   *)
(* once.  A binding is newer than whatever it finds of its attempt; an      *)
(* experiment that waits for its grades is covered already; and the harness *)
(* never looks away while something it began is unrecorded, unless it says  *)
(* so in a segment.                                                         *)
(***************************************************************************)
EXTENDS ExperimentStore, FiniteSetTheorems, TLAPS

ExpRow == [status : Statuses, need : 0..1, sealed : BOOLEAN, digest : BOOLEAN]
Held == bound \cup pending \cup turns

(* An attempt is graded when it was executed, and that when it was started. *)
Graded ==
    \A a \in Attempts :
        /\ row[a].finished => row[a].there
        /\ row[a].outcome # "none" => row[a].finished

(* An experiment that waits for its grades is covered, and when it closes   *)
(* its grades are passes and no segment reported a loss.                    *)
Covered ==
    /\ exp.status \in {"awaiting_evaluation", "capture_complete", "complete"} =>
          /\ \A a \in Attempts : row[a].there /\ row[a].finished
          /\ Cardinality(Recorded) >= exp.need
    /\ exp.status \in {"capture_complete", "complete"} =>
          /\ \A a \in Attempts : row[a].outcome = "pass"
          /\ \A n \in Segs : segs[n] # "lost"
    /\ Is("capture_complete") => mode = "external"

(* No binding is ahead of the claim of its attempt, only an external        *)
(* controller's have an epoch, and only the harness has a program.          *)
Fenced ==
    /\ drv # "idle" => mode = "harness"
    /\ Is("erased") \/ mode = "harness" => \A a \in Attempts : claim[a] = NoClaim
    /\ ~Is("erased") => \A r \in Held : r.epoch <= claim[r.a].epoch
    /\ \A r \in Held : r.epoch = 0 <=> mode = "harness"
    /\ AnEpochIsOneBinding

Refused == "refused" \in past => Is("invalid")

(* What is being sealed is complete, or void by now, and so says the copy.  *)
Attached ==
    "cleared" \notin past =>
        /\ sealing # "no" => exp.status \in {"complete", "invalid", "erased"}
        /\ sealing \in {"copied", "archived"} /\ Is("complete") => archive.status = "complete"
        /\ archive.recorded => archive.status = "complete"

(* A harness run that may still be complete: outside of a run nothing is    *)
(* under way; every record is of its attempt's conversation, a new one for  *)
(* each start; and a drop is on the mind of the run that met it.            *)
MayCount ==
    /\ mode = "harness" /\ "cleared" \notin past
    /\ exp.status \in {"none", "running", "awaiting_evaluation", "complete"}
    /\ \A n \in Segs : segs[n] # "lost"
Harnessed ==
    MayCount =>
        /\ drv # "idle" => Is("running")
        /\ drv # "working" => bound = {} /\ pending = {}
        /\ \A b \in bound : at[b.a] = "run"
        /\ \A r \in Held : r.conv # 0 /\ r.conv = conv[r.a]
        /\ \A a \in Attempts : ~row[a].there \/ at[a] = "todo" => conv[a] = 0
        /\ "dropped" \in past /\ "crashed" \notin past => drv = "working" /\ dropped

IInv == TypeOK /\ Graded /\ Covered /\ Fenced /\ Refused /\ Attached /\ Harnessed

-----------------------------------------------------------------------------
(* The experiments row: none, erased, or a row with a status.               *)
LEMMA ExpIs ==
    ASSUME exp \in {NoRow, Erased} \cup ExpRow
    PROVE  /\ exp.status \in Statuses \cup {"none", "erased"}
           /\ There => exp \in ExpRow
           /\ Is("none") => exp = NoRow
           /\ Is("erased") => exp = Erased
  BY DEF NoRow, Erased, ExpRow, There, Is, Statuses

LEMMA Stamped ==
    ASSUME exp \in {NoRow, Erased} \cup ExpRow, There, NEW s \in Statuses
    PROVE  /\ [exp EXCEPT !.status = s] \in ExpRow
           /\ [exp EXCEPT !.status = s].status = s
           /\ [exp EXCEPT !.status = s].need = exp.need
  <1>1. exp \in ExpRow
    BY ExpIs
  <1> QED
    BY <1>1 DEF ExpRow

LEMMA InvalidatedIs ==
    ASSUME exp \in {NoRow, Erased} \cup ExpRow
    PROVE  /\ Invalidated \in {NoRow, Erased} \cup ExpRow
           /\ There => Invalidated.status = "invalid"
           /\ ~There => Invalidated = exp
  <1>1. "invalid" \in Statuses
    BY DEF Statuses
  <1> QED
    BY <1>1, Stamped DEF Invalidated

LEMMA RecordedIsFinite ==
    ASSUME NEW e \in {"external", "harness"}, NEW S \in SUBSET (1..MaxSegs[e])
    PROVE  IsFiniteSet(S) /\ Cardinality(S) \in Nat
  <1>1. MaxSegs[e] \in Nat
    BY ConstantsAssumption
  <1>2. IsFiniteSet(1..MaxSegs[e])
    BY <1>1, FS_Interval
  <1>3. IsFiniteSet(S)
    BY <1>2, FS_Subset
  <1> QED
    BY <1>3, FS_CardinalityType

(* The verdict of the store: covered before it waits, passed before it closes. *)
LEMMA VerdictIs ==
    ASSUME TypeOK, exp \in ExpRow, NEW external \in BOOLEAN
    PROVE  /\ Verdict(external) \in Statuses
           /\ Verdict(external) \in {"awaiting_evaluation", "capture_complete", "complete"} =>
                 /\ \A a \in Attempts : row[a].there /\ row[a].finished
                 /\ Cardinality(Recorded) >= exp.need
           /\ Verdict(external) \in {"capture_complete", "complete"} =>
                 /\ \A a \in Attempts : row[a].outcome = "pass"
                 /\ \A n \in Segs : segs[n] # "lost"
           /\ Verdict(external) = "capture_complete" => external
           /\ (/\ \A a \in Attempts : row[a].there /\ row[a].finished
               /\ Cardinality(Recorded) >= exp.need) => Verdict(external) # "running"
  <1> DEFINE short == Rows # Attempts \/ \E a \in Rows : ~row[a].finished
             incomplete == \E a \in Rows : row[a].outcome = "incomplete"
             lost == \E n \in Recorded : segs[n] = "lost"
             thin == Cardinality(Recorded) < exp.need
             open == \E a \in Rows : row[a].outcome = "none"
  <1>1. Cardinality(Recorded) \in Nat /\ exp.need \in Nat
    <2>1. mode \in {"external", "harness"}
      BY ConstantsAssumption DEF TypeOK, mode
    <2>2. Recorded \in SUBSET (1..MaxSegs[mode])
      BY DEF Recorded, Segs
    <2> QED
      BY <2>1, <2>2, RecordedIsFinite DEF ExpRow
  <1>2. short <=> ~ \A a \in Attempts : row[a].there /\ row[a].finished
    BY DEF Rows
  <1>3. ~short /\ ~incomplete /\ ~open => \A a \in Attempts : row[a].outcome = "pass"
    BY <1>2 DEF TypeOK, RowType, Outcomes, Rows
  <1>4. ~lost => \A n \in Segs : segs[n] # "lost"
    BY DEF Recorded
  <1>5. thin <=> ~(Cardinality(Recorded) >= exp.need)
    BY <1>1
  <1>6. Verdict(external) =
           IF short THEN (IF external THEN "running" ELSE "invalid")
           ELSE IF incomplete \/ lost THEN "invalid"
           ELSE IF thin THEN (IF external THEN "running" ELSE "invalid")
           ELSE IF open THEN "awaiting_evaluation"
           ELSE IF external THEN "capture_complete" ELSE "complete"
    BY DEF Verdict
  <1> HIDE DEF short, incomplete, lost, thin, open
  <1> QED
    BY <1>2, <1>3, <1>4, <1>5, <1>6 DEF Statuses

-----------------------------------------------------------------------------
(* The steps, by what they touch.                                           *)
Creates == (\E need \in Needs : CreateExternal(need)) \/ Run
Registers == \E a \in Attempts, proof \in {"dead", "fence"} : Register(a, proof)
Claims == \E s \in Servers, a \in Attempts : ClaimAttempt(s, a)
Starts == \E a \in Attempts : StartAttempt(a)
Finishes == \E a \in Attempts : TerminalizeExternal(a) \/ Terminalize(a)
Grades == \E a \in Attempts, outcome \in Outcomes : OutcomeExternal(a, outcome) \/ Grade(a, outcome)
Restarts == \E a \in Attempts : RestartExternal(a) \/ RestartOne(a)
Reports == \E n \in Segs : (\E valid \in BOOLEAN : SegmentExternal(n, valid)) \/ EndRun(n)
Completes == CompleteExternal \/ CompleteRun
Voids == Invalidate \/ ReleaseClose
Emits == \E b \in bound : Emit(b)
Writes == \E r \in pending : Write(r)
Drops == \E r \in pending : Drop(r)
Dies == (\E s \in Servers : Kill(s)) \/ Crash
Drives == Resume \/ ResumeRaises \/ Execute
Seals == BeginSeal \/ Snapshot \/ RecordArchive \/ SealStops
Erases == FreeSealed \/ DeleteSealed \/ DeleteReleased
Looks == ReleaseRead \/ ReleaseWrite
Prunes == \E t \in turns : Prune(t)
Forgets == \E a \in Attempts : Forget(a)
Idles == UNCHANGED vars

LEMMA NextCases ==
    ASSUME [Next]_vars
    PROVE  \/ Creates \/ Registers \/ Claims \/ Starts \/ Finishes \/ Grades \/ Restarts
           \/ Reports \/ Completes \/ Voids \/ Emits \/ Writes \/ Drops \/ Dies \/ Drives
           \/ Seals \/ Erases \/ Looks \/ Prunes \/ Forgets \/ Clear \/ Idles
  BY DEF Next, Creates, Registers, Claims, Starts, Finishes, Grades, Restarts, Reports, Completes,
         Voids, Emits, Writes, Drops, Dies, Drives, Seals, Erases, Looks, Prunes, Forgets, Idles

LEMMA WorldStays == ASSUME [Next]_vars PROVE world' = world /\ mode' = mode /\ Segs' = Segs
  <1>1. world' = world
    <2>1. CASE Creates \/ Registers \/ Claims \/ Starts \/ Finishes \/ Grades
      BY <2>1 DEF Creates, Registers, Claims, Starts, Finishes, Grades, CreateExternal, Run, Register,
         ClaimAttempt, StartAttempt, TerminalizeExternal, Terminalize, OutcomeExternal, Grade
    <2>2. CASE Restarts \/ Reports \/ Completes \/ Voids \/ Emits \/ Writes \/ Drops
      BY <2>2 DEF Restarts, Reports, Completes, Voids, Emits, Writes, Drops, RestartExternal, RestartOne,
         SegmentExternal, EndRun, CompleteExternal, CompleteRun, Invalidate, ReleaseClose, Emit, Write, Drop
    <2>3. CASE Dies \/ Drives \/ Seals \/ Erases
      BY <2>3 DEF Dies, Drives, Seals, Erases, Kill, Crash, Resume, ResumeRaises, Execute, BeginSeal,
         Snapshot, RecordArchive, SealStops, FreeSealed, DeleteSealed, DeleteReleased
    <2>4. CASE Looks \/ Prunes \/ Forgets \/ Clear \/ Idles
      BY <2>4 DEF Looks, Prunes, Forgets, Idles, ReleaseRead, ReleaseWrite, Prune, Forget, Clear, vars
    <2> QED
      BY <2>1, <2>2, <2>3, <2>4, NextCases
  <1> QED
    BY <1>1 DEF mode, Segs

(* What each group of steps leaves alone.                                   *)
LEMMA ExpStays ==
    ASSUME \/ Registers \/ Claims \/ Starts \/ Finishes \/ Grades \/ Restarts \/ Reports
           \/ Emits \/ Drops \/ Dies \/ Drives \/ Looks \/ Prunes \/ Idles
    PROVE  exp' = exp
  <1>1. CASE Registers \/ Claims \/ Starts \/ Finishes \/ Grades
    BY <1>1 DEF Registers, Claims, Starts, Finishes, Grades, Register, ClaimAttempt, StartAttempt,
       TerminalizeExternal, Terminalize, OutcomeExternal, Grade
  <1>2. CASE Restarts \/ Reports \/ Emits \/ Drops \/ Dies
    BY <1>2 DEF Restarts, Reports, Emits, Drops, Dies, RestartExternal, RestartOne, SegmentExternal,
       EndRun, Emit, Drop, Kill, Crash, table
  <1>3. CASE Drives \/ Looks \/ Prunes \/ Idles
    BY <1>3 DEF Drives, Looks, Prunes, Idles, Resume, ResumeRaises, Execute, ReleaseRead, ReleaseWrite,
       Prune, vars, table
  <1> QED
    BY <1>1, <1>2, <1>3

LEMMA RowStays ==
    ASSUME \/ Creates \/ Registers \/ Reports \/ Completes \/ Voids \/ Emits \/ Writes \/ Drops
           \/ Dies \/ Drives \/ Seals \/ Looks \/ Prunes \/ Idles
    PROVE  row' = row
  <1>1. CASE Creates \/ Registers \/ Reports \/ Completes \/ Voids
    BY <1>1 DEF Creates, Registers, Reports, Completes, Voids, CreateExternal, Run, Register,
       SegmentExternal, EndRun, CompleteExternal, CompleteRun, Invalidate, ReleaseClose
  <1>2. CASE Emits \/ Writes \/ Drops \/ Dies \/ Drives
    BY <1>2 DEF Emits, Writes, Drops, Dies, Drives, Emit, Write, Drop, Kill, Crash, Resume,
       ResumeRaises, Execute, table
  <1>3. CASE Seals \/ Looks \/ Prunes \/ Idles
    BY <1>3 DEF Seals, Looks, Prunes, Idles, BeginSeal, Snapshot, RecordArchive, SealStops,
       ReleaseRead, ReleaseWrite, Prune, vars, table
  <1> QED
    BY <1>1, <1>2, <1>3

LEMMA ClaimStays ==
    ASSUME \/ Creates \/ Starts \/ Finishes \/ Grades \/ Restarts \/ Reports \/ Completes \/ Voids
           \/ Emits \/ Writes \/ Drops \/ Dies \/ Drives \/ Seals \/ Looks \/ Prunes \/ Forgets
           \/ Clear \/ Idles
    PROVE  claim' = claim
  <1>1. CASE Creates \/ Starts \/ Finishes \/ Grades \/ Restarts
    BY <1>1 DEF Creates, Starts, Finishes, Grades, Restarts, CreateExternal, Run, StartAttempt,
       TerminalizeExternal, Terminalize, OutcomeExternal, Grade, RestartExternal, RestartOne
  <1>2. CASE Reports \/ Completes \/ Voids \/ Emits \/ Writes \/ Drops
    BY <1>2 DEF Reports, Completes, Voids, Emits, Writes, Drops, SegmentExternal, EndRun,
       CompleteExternal, CompleteRun, Invalidate, ReleaseClose, Emit, Write, Drop, table
  <1>3. CASE Dies \/ Drives \/ Seals
    BY <1>3 DEF Dies, Drives, Seals, Kill, Crash, Resume, ResumeRaises, Execute, BeginSeal, Snapshot,
       RecordArchive, SealStops, table
  <1>4. CASE Looks \/ Prunes \/ Forgets \/ Clear \/ Idles
    BY <1>4 DEF Looks, Prunes, Forgets, Idles, ReleaseRead, ReleaseWrite, Prune, Forget, Clear, vars, table
  <1> QED
    BY <1>1, <1>2, <1>3, <1>4

LEMMA SegsStay ==
    ASSUME \/ Creates \/ Registers \/ Claims \/ Starts \/ Finishes \/ Grades \/ Restarts
           \/ Completes \/ Voids \/ Emits \/ Writes \/ Drops \/ Dies \/ Drives
           \/ Seals \/ Looks \/ Prunes \/ Forgets \/ Idles
    PROVE  segs' = segs
  <1>1. CASE Creates \/ Registers \/ Claims \/ Starts \/ Finishes \/ Grades \/ Restarts
    BY <1>1 DEF Creates, Registers, Claims, Starts, Finishes, Grades, Restarts, CreateExternal, Run,
       Register, ClaimAttempt, StartAttempt, TerminalizeExternal, Terminalize, OutcomeExternal, Grade,
       RestartExternal, RestartOne
  <1>2. CASE Completes \/ Voids \/ Emits \/ Writes \/ Drops \/ Dies
    BY <1>2 DEF Completes, Voids, Emits, Writes, Drops, Dies, CompleteExternal, CompleteRun,
       Invalidate, ReleaseClose, Emit, Write, Drop, Kill, Crash, table
  <1>3. CASE Drives \/ Seals \/ Looks \/ Prunes \/ Forgets \/ Idles
    BY <1>3 DEF Drives, Seals, Looks, Prunes, Forgets, Idles, Resume, ResumeRaises, Execute, BeginSeal,
       Snapshot, RecordArchive, SealStops, ReleaseRead, ReleaseWrite, Prune, Forget, vars, table
  <1> QED
    BY <1>1, <1>2, <1>3

LEMMA ConvStays ==
    ASSUME \/ Creates \/ Registers \/ Finishes \/ Grades \/ Reports \/ Completes \/ Voids
           \/ Emits \/ Writes \/ Drops \/ Dies \/ Drives \/ Seals \/ Looks \/ Prunes \/ Idles
    PROVE  conv' = conv /\ minted' = minted
  <1>1. CASE Creates \/ Registers \/ Finishes \/ Grades
    BY <1>1 DEF Creates, CreateExternal, Run, Registers, Register, Finishes, TerminalizeExternal,
       Terminalize, Grades, OutcomeExternal, Grade, table
  <1>2. CASE Reports \/ Completes \/ Voids \/ Emits
    BY <1>2 DEF Reports, SegmentExternal, EndRun, Completes, CompleteExternal, CompleteRun, Voids,
       Invalidate, ReleaseClose, Emits, Emit, table
  <1>3. CASE Writes \/ Drops \/ Dies \/ Drives
    BY <1>3 DEF Writes, Write, Drops, Drop, Dies, Kill, Crash, Drives, Resume, ResumeRaises,
       Execute, table
  <1>4. CASE Seals \/ Looks \/ Prunes \/ Idles
    BY <1>4 DEF Seals, BeginSeal, Snapshot, RecordArchive, SealStops, Looks, ReleaseRead,
       ReleaseWrite, Prunes, Prune, Idles, vars, table
  <1> QED
    BY <1>1, <1>2, <1>3, <1>4

LEMMA HeldStays ==
    ASSUME \/ Creates \/ Registers \/ Grades \/ Reports \/ Completes \/ Voids \/ Drives
           \/ Seals \/ Looks \/ Idles
    PROVE  bound' = bound /\ pending' = pending /\ turns' = turns
  <1>1. CASE Creates \/ Registers \/ Grades \/ Reports
    BY <1>1 DEF Creates, CreateExternal, Run, Registers, Register, Grades, OutcomeExternal, Grade,
       Reports, SegmentExternal, EndRun, table, procs
  <1>2. CASE Completes \/ Voids \/ Drives \/ Seals
    BY <1>2 DEF Completes, CompleteExternal, CompleteRun, Voids, Invalidate, ReleaseClose, Drives,
       Resume, ResumeRaises, Execute, Seals, BeginSeal, Snapshot, RecordArchive, SealStops, table,
       procs
  <1>3. CASE Looks \/ Idles
    BY <1>3 DEF Looks, ReleaseRead, ReleaseWrite, Idles, vars, table, procs
  <1> QED
    BY <1>1, <1>2, <1>3

LEMMA ArchiveStays ==
    ASSUME \/ Creates \/ Registers \/ Claims \/ Starts \/ Finishes \/ Grades \/ Restarts
           \/ Reports \/ Completes \/ Voids \/ Emits \/ Writes \/ Drops \/ Dies \/ Drives
           \/ Looks \/ Prunes \/ Forgets \/ Clear \/ Idles
    PROVE  archive' = archive /\ sealing' = sealing
  <1>1. CASE Creates \/ Registers \/ Claims \/ Starts
    BY <1>1 DEF Creates, CreateExternal, Run, Registers, Register, Claims, ClaimAttempt, Starts,
       StartAttempt, table, procs
  <1>2. CASE Finishes \/ Grades \/ Restarts \/ Reports
    BY <1>2 DEF Finishes, TerminalizeExternal, Terminalize, Grades, OutcomeExternal, Grade,
       Restarts, RestartExternal, RestartOne, Reports, SegmentExternal, EndRun, table, procs
  <1>3. CASE Completes \/ Voids \/ Emits \/ Writes
    BY <1>3 DEF Completes, CompleteExternal, CompleteRun, Voids, Invalidate, ReleaseClose, Emits,
       Emit, Writes, Write, table, procs
  <1>4. CASE Drops \/ Dies \/ Drives \/ Looks
    BY <1>4 DEF Drops, Drop, Dies, Kill, Crash, Drives, Resume, ResumeRaises, Execute, Looks,
       ReleaseRead, ReleaseWrite, table, procs
  <1>5. CASE Prunes \/ Forgets \/ Clear \/ Idles
    BY <1>5 DEF Prunes, Prune, Forgets, Forget, Clear, Idles, vars, table, procs
  <1> QED
    BY <1>1, <1>2, <1>3, <1>4, <1>5

LEMMA PastStays ==
    ASSUME \/ Creates \/ Claims \/ Starts \/ Finishes \/ Grades \/ Restarts \/ Reports
           \/ Completes \/ Voids \/ Emits \/ Drives \/ Seals \/ Looks \/ Prunes \/ Forgets
           \/ Idles
    PROVE  past' = past
  <1>1. CASE Creates \/ Claims \/ Starts \/ Finishes
    BY <1>1 DEF Creates, CreateExternal, Run, Claims, ClaimAttempt, Starts, StartAttempt,
       Finishes, TerminalizeExternal, Terminalize, table, procs
  <1>2. CASE Grades \/ Restarts \/ Reports \/ Completes
    BY <1>2 DEF Grades, OutcomeExternal, Grade, Restarts, RestartExternal, RestartOne, Reports,
       SegmentExternal, EndRun, Completes, CompleteExternal, CompleteRun, table, procs
  <1>3. CASE Voids \/ Emits \/ Drives \/ Seals
    BY <1>3 DEF Voids, Invalidate, ReleaseClose, Emits, Emit, Drives, Resume, ResumeRaises,
       Execute, Seals, BeginSeal, Snapshot, RecordArchive, SealStops, table, procs
  <1>4. CASE Looks \/ Prunes \/ Forgets \/ Idles
    BY <1>4 DEF Looks, ReleaseRead, ReleaseWrite, Prunes, Prune, Forgets, Forget, Idles, vars,
       table, procs
  <1> QED
    BY <1>1, <1>2, <1>3, <1>4

LEMMA HarnessStays ==
    ASSUME \/ Registers \/ Claims \/ Voids \/ Emits \/ Writes \/ Seals \/ Erases \/ Looks
           \/ Prunes \/ Forgets \/ Clear \/ Idles
    PROVE  drv' = drv /\ at' = at /\ dropped' = dropped
  <1>1. CASE Registers \/ Claims \/ Voids \/ Emits
    BY <1>1 DEF Registers, Register, Claims, ClaimAttempt, Voids, Invalidate, ReleaseClose, Emits,
       Emit, table, procs
  <1>2. CASE Writes \/ Seals \/ Erases \/ Looks
    BY <1>2 DEF Writes, Write, Seals, BeginSeal, Snapshot, RecordArchive, SealStops, Erases,
       FreeSealed, DeleteSealed, DeleteReleased, Looks, ReleaseRead, ReleaseWrite, table, procs
  <1>3. CASE Prunes \/ Forgets \/ Clear \/ Idles
    BY <1>3 DEF Prunes, Prune, Forgets, Forget, Clear, Idles, vars, table, procs
  <1> QED
    BY <1>1, <1>2, <1>3

(* Nothing new is held but by a claim or the start of an attempt.            *)
LEMMA HeldShrinks ==
    ASSUME [Next]_vars, ~Claims, ~Starts
    PROVE  Held' \subseteq Held /\ bound' \subseteq bound
  <1>1. CASE \/ Creates \/ Registers \/ Grades \/ Reports \/ Completes \/ Voids \/ Drives \/ Seals
             \/ Looks \/ Idles
    BY <1>1, HeldStays DEF Held
  <1>2. CASE Finishes \/ Restarts
    BY <1>2 DEF Held, Finishes, Restarts, TerminalizeExternal, Terminalize, RestartExternal, RestartOne,
       RestartRow, procs
  <1>3. CASE Emits \/ Writes \/ Drops
    BY <1>3 DEF Held, Emits, Writes, Drops, Emit, Write, Drop, table
  <1>4. CASE Dies
    BY <1>4 DEF Held, Dies, Kill, Crash, table
  <1>5. CASE Erases \/ Prunes \/ Forgets \/ Clear
    BY <1>5 DEF Held, Erases, Prunes, Forgets, FreeSealed, DeleteSealed, DeleteReleased, EraseRows,
       Prune, Forget, Clear, procs
  <1> QED
    BY <1>1, <1>2, <1>3, <1>4, <1>5, NextCases

-----------------------------------------------------------------------------
(* The types, part by part.                                                  *)
ExpTyped == exp \in {NoRow, Erased} \cup ExpRow
RowTyped == row \in [Attempts -> RowType]
ClaimTyped ==
    /\ claim \in [Attempts -> ClaimType]
    /\ \A a \in Attempts : (claim[a].state = "claimed") = (claim[a].server \in Servers)
ConvTyped ==
    /\ minted \in [Attempts -> Nat] /\ conv \in [Attempts -> Nat]
    /\ \A a \in Attempts : conv[a] <= minted[a]
HeldTyped == Held \subseteq Records
SegsTyped == segs \in [Segs -> {"none", "valid", "lost"}]
SealTyped ==
    /\ archive.turns \subseteq Records /\ archive.recorded \in BOOLEAN
    /\ sealing \in {"no", "begun", "copied", "archived"} /\ release \in {"no", "read", "closed", "done"}
ProcTyped ==
    /\ alive \subseteq Servers /\ drv \in {"idle", "resuming", "working", "closing"}
    /\ at \in [Attempts -> {"off", "restart", "todo", "run", "term", "done", "failed"}]
    /\ dropped \in BOOLEAN /\ past \subseteq Events

LEMMA TypeParts ==
    TypeOK <=> /\ world \in Worlds /\ ExpTyped /\ RowTyped /\ ClaimTyped /\ ConvTyped /\ HeldTyped
               /\ SegsTyped /\ SealTyped /\ ProcTyped
  BY DEF TypeOK, ExpTyped, RowTyped, ClaimTyped, ConvTyped, HeldTyped, SegsTyped, SealTyped, ProcTyped,
     Held, ExpRow

LEMMA ExpTypedStep == ASSUME TypeOK, [Next]_vars PROVE ExpTyped'
  <1>0. ExpTyped /\ exp \in {NoRow, Erased} \cup ExpRow
    BY TypeParts DEF ExpTyped
  <1>1. CASE exp' = exp
    BY <1>0, <1>1 DEF ExpTyped, ExpRow
  <1>2. CASE Creates
    <2>1. PICK need \in 0..1 : CreateRow(need)
      BY <1>2, ConstantsAssumption DEF Creates, CreateExternal, Run
    <2>2. CASE Is("none")
      BY <2>1, <2>2 DEF CreateRow, ExpTyped, ExpRow, Statuses
    <2>3. CASE ~Is("none")
      <3>1. exp \in ExpRow
        BY <1>0, <2>1, <2>3, ExpIs DEF CreateRow, Is, There, Statuses
      <3> QED
        BY <2>1, <2>3, <3>1 DEF CreateRow, ExpTyped, ExpRow
    <2> QED
      BY <2>2, <2>3
  <1>3. CASE Completes
    <2>1. PICK external \in BOOLEAN : CompleteRow(external) \/ exp' = exp
      BY <1>3 DEF Completes, CompleteExternal, CompleteRun
    <2>2. CASE CompleteRow(external)
      <3>1. There
        BY <2>2 DEF CompleteRow, CanComplete, Is, There, Statuses
      <3>2. exp \in ExpRow
        BY <1>0, <3>1, ExpIs
      <3>3. Verdict(external) \in Statuses
        BY <3>2, VerdictIs
      <3> QED
        BY <1>0, <2>2, <3>1, <3>3, Stamped DEF CompleteRow, ExpTyped
    <2> QED
      BY <1>1, <2>1, <2>2
  <1>4. CASE exp' = Invalidated
    BY <1>0, <1>4, InvalidatedIs DEF ExpTyped
  <1>5. CASE Seals
    <2>1. CASE BeginSeal \/ RecordArchive
      <3>1. exp \in ExpRow
        BY <1>0, <2>1, ExpIs DEF BeginSeal, RecordArchive, There, Statuses
      <3> QED
        BY <2>1, <3>1 DEF BeginSeal, RecordArchive, ExpTyped, ExpRow, Statuses
    <2>2. CASE Snapshot \/ SealStops
      BY <1>1, <2>2 DEF Snapshot, SealStops, table
    <2> QED
      BY <1>5, <2>1, <2>2 DEF Seals
  <1>6. CASE Erases \/ Clear
    BY <1>6 DEF Erases, FreeSealed, DeleteSealed, DeleteReleased, EraseRows, Clear, ExpTyped, ExpRow
  <1>7. Voids \/ Writes \/ Forgets => exp' = exp \/ exp' = Invalidated
    BY DEF Voids, Writes, Forgets, Invalidate, ReleaseClose, Write, Forget
  <1> QED
    BY <1>1, <1>2, <1>3, <1>4, <1>5, <1>6, <1>7, ExpStays, NextCases

LEMMA RowTypedStep == ASSUME TypeOK, [Next]_vars PROVE RowTyped'
  <1>0. RowTyped /\ row \in [Attempts -> RowType] /\ MaxRestarts \in Nat
    BY TypeParts, ConstantsAssumption DEF RowTyped
  <1>1. CASE row' = row
    BY <1>0, <1>1 DEF RowTyped, RowType, Outcomes
  <1>2. CASE Claims \/ Starts
    <2>1. row' = row \/ \E a \in Attempts : row' = [row EXCEPT ![a].there = TRUE]
      BY <1>2 DEF Claims, Starts, ClaimAttempt, StartAttempt, StartRow
    <2> QED
      BY <1>0, <1>1, <2>1 DEF RowTyped, RowType, Outcomes
  <1>3. CASE Finishes
    <2>1. row' = row \/ \E a \in Attempts : row' = [row EXCEPT ![a].finished = TRUE]
      BY <1>3 DEF Finishes, TerminalizeExternal, Terminalize, TerminalRow
    <2> QED
      BY <1>0, <1>1, <2>1 DEF RowTyped, RowType, Outcomes
  <1>4. CASE Grades
    <2>1. row' = row \/ \E a \in Attempts, outcome \in Outcomes : row' = [row EXCEPT ![a].outcome = outcome]
      BY <1>4 DEF Grades, OutcomeExternal, Grade, OutcomeRow
    <2> QED
      BY <1>0, <1>1, <2>1 DEF RowTyped, RowType, Outcomes
  <1>5. CASE Restarts
    <2>1. PICK a \in Attempts : RestartRow(a)
      BY <1>5 DEF Restarts, RestartExternal, RestartOne
    <2>2. row[a].restarts + 1 \in 0..MaxRestarts
      BY <1>0, <2>1 DEF RestartRow, RowType
    <2> QED
      BY <1>0, <2>1, <2>2 DEF RestartRow, RowTyped, RowType, Outcomes
  <1>n. NoAttempt \in RowType
    <2>1. 0 \in 0..MaxRestarts
      BY <1>0
    <2> QED
      BY <2>1 DEF NoAttempt, RowType, Outcomes
  <1>6. CASE Erases \/ Clear
    <2>1. row' = [a \in Attempts |-> NoAttempt]
      BY <1>6 DEF Erases, FreeSealed, DeleteSealed, DeleteReleased, EraseRows, Clear
    <2> QED
      BY <1>n, <2>1 DEF RowTyped, RowType, Outcomes
  <1>7. CASE Forgets
    <2>1. PICK a \in Attempts : row' = [row EXCEPT ![a] = NoAttempt]
      BY <1>7 DEF Forgets, Forget
    <2> QED
      BY <1>0, <1>n, <2>1 DEF RowTyped, RowType, Outcomes
  <1> QED
    BY <1>1, <1>2, <1>3, <1>4, <1>5, <1>6, <1>7, RowStays, NextCases

LEMMA ClaimTypedStep == ASSUME TypeOK, [Next]_vars PROVE ClaimTyped'
  <1>0. ClaimTyped /\ Harness \notin Servers
    BY TypeParts, ConstantsAssumption
  <1>1. CASE claim' = claim
    BY <1>0, <1>1 DEF ClaimTyped, ClaimType
  <1>2. CASE Registers
    BY <1>0, <1>2 DEF Registers, Register, ClaimTyped, ClaimType
  <1>3. CASE Claims
    BY <1>0, <1>3 DEF Claims, ClaimAttempt, ClaimTyped, ClaimType
  <1>4. CASE Erases
    BY <1>0, <1>4 DEF Erases, FreeSealed, DeleteSealed, DeleteReleased, EraseRows, ClaimTyped,
       ClaimType, NoClaim
  <1> QED
    BY <1>1, <1>2, <1>3, <1>4, ClaimStays, NextCases

LEMMA ConvTypedStep == ASSUME TypeOK, [Next]_vars PROVE ConvTyped'
  <1>0. ConvTyped
    BY TypeParts
  <1>1. CASE conv' = conv /\ minted' = minted
    BY <1>0, <1>1 DEF ConvTyped
  <1>2. CASE Claims
    BY <1>0, <1>2 DEF Claims, ClaimAttempt, ConvTyped
  <1>3. CASE Starts
    BY <1>0, <1>3 DEF Starts, StartAttempt, ConvTyped
  <1>4. CASE Restarts \/ Forgets
    BY <1>0, <1>4 DEF Restarts, RestartExternal, RestartOne, RestartRow, Forgets, Forget, ConvTyped
  <1>5. CASE Erases \/ Clear
    BY <1>0, <1>5 DEF Erases, FreeSealed, DeleteSealed, DeleteReleased, EraseRows, Clear, ConvTyped
  <1> QED
    BY <1>1, <1>2, <1>3, <1>4, <1>5, ConvStays, NextCases

(* What a claim or a start adds to what is held.                             *)
LEMMA HeldGrows ==
    ASSUME TypeOK, Claims \/ Starts
    PROVE  \E b \in Records :
              /\ Held' \subseteq Held \cup {b} /\ bound' \subseteq bound \cup {b}
              /\ pending' = pending /\ turns' = turns /\ b.conv \in Nat
  <1>0. ConvTyped
    BY TypeParts
  <1>1. CASE Claims
    <2>1. PICK s \in Servers, a \in Attempts : ClaimAttempt(s, a)
      BY <1>1 DEF Claims
    <2>e. PICK epoch \in Nat : epoch = claim[a].epoch + 1
      BY TypeParts DEF ClaimTyped, ClaimType
    <2>i. PICK id \in Nat : id = IF conv[a] = 0 THEN minted[a] + 1 ELSE conv[a]
      BY <1>0 DEF ConvTyped
    <2>2. bound' = bound \cup {[a |-> a, epoch |-> epoch, server |-> s, conv |-> id]}
      BY <2>1, <2>e, <2>i DEF ClaimAttempt
    <2>3. PICK b : b = [a |-> a, epoch |-> epoch, server |-> s, conv |-> id]
      OBVIOUS
    <2>4. b \in Records /\ b.conv \in Nat
      BY <2>3 DEF Records
    <2> QED
      BY <2>1, <2>2, <2>3, <2>4 DEF Held, ClaimAttempt
  <1>2. CASE Starts
    <2>1. PICK a \in Attempts : StartAttempt(a)
      BY <1>2 DEF Starts
    <2>2. PICK id \in Nat :
             bound' \subseteq bound \cup {[a |-> a, epoch |-> 0, server |-> Harness, conv |-> id]}
      BY <1>0, <2>1 DEF StartAttempt, ConvTyped
    <2>3. PICK b : b = [a |-> a, epoch |-> 0, server |-> Harness, conv |-> id]
      OBVIOUS
    <2>4. b \in Records /\ b.conv \in Nat
      BY <2>3 DEF Records
    <2> QED
      BY <2>1, <2>2, <2>3, <2>4 DEF Held, StartAttempt
  <1> QED
    BY <1>1, <1>2

LEMMA HeldTypedStep == ASSUME TypeOK, [Next]_vars PROVE HeldTyped'
  BY TypeParts, HeldShrinks, HeldGrows DEF HeldTyped

LEMMA SegsTypedStep == ASSUME TypeOK, [Next]_vars PROVE SegsTyped'
  <1>0. SegsTyped /\ Segs' = Segs
    BY TypeParts, WorldStays
  <1>1. CASE segs' = segs
    BY <1>0, <1>1 DEF SegsTyped
  <1>2. CASE Reports
    <2>1. segs' = segs \/ \E n \in Segs : \E valid : SegmentRow(n, valid)
      BY <1>2 DEF Reports, SegmentExternal, EndRun
    <2> QED
      BY <1>0, <1>1, <2>1 DEF SegmentRow, SegsTyped
  <1>3. CASE Erases \/ Clear
    BY <1>0, <1>3 DEF Erases, FreeSealed, DeleteSealed, DeleteReleased, EraseRows, Clear, SegsTyped
  <1> QED
    BY <1>1, <1>2, <1>3, SegsStay, NextCases

LEMMA SealTypedStep == ASSUME TypeOK, [Next]_vars PROVE SealTyped'
  <1>0. SealTyped /\ HeldTyped
    BY TypeParts
  <1>1. release' \in {"no", "read", "closed", "done"}
    <2>1. CASE Creates \/ Registers \/ Claims \/ Starts \/ Finishes \/ Grades
      BY <1>0, <2>1 DEF SealTyped, Creates, Registers, Claims, Starts, Finishes, Grades, CreateExternal,
         Run, Register, ClaimAttempt, StartAttempt, TerminalizeExternal, Terminalize, OutcomeExternal, Grade
    <2>2. CASE Restarts \/ Reports \/ Completes \/ Voids \/ Emits \/ Writes \/ Drops
      BY <1>0, <2>2 DEF SealTyped, Restarts, Reports, Completes, Voids, Emits, Writes, Drops,
         RestartExternal, RestartOne, SegmentExternal, EndRun, CompleteExternal, CompleteRun, Invalidate,
         ReleaseClose, Emit, Write, Drop, table
    <2>3. CASE Dies \/ Drives \/ Seals \/ Erases
      BY <1>0, <2>3 DEF SealTyped, Dies, Drives, Seals, Erases, Kill, Crash, Resume, ResumeRaises,
         Execute, BeginSeal, Snapshot, RecordArchive, SealStops, FreeSealed, DeleteSealed,
         DeleteReleased, EraseRows, table
    <2>4. CASE Looks \/ Prunes \/ Forgets \/ Clear \/ Idles
      BY <1>0, <2>4 DEF SealTyped, Looks, Prunes, Forgets, Idles, ReleaseRead, ReleaseWrite, Prune,
         Forget, Clear, vars, table
    <2> QED
      BY <2>1, <2>2, <2>3, <2>4, NextCases
  <1>2. CASE archive' = archive /\ sealing' = sealing
    BY <1>0, <1>1, <1>2 DEF SealTyped
  <1>3. CASE Seals
    <2>1. CASE BeginSeal \/ SealStops
      BY <1>0, <1>1, <2>1 DEF BeginSeal, SealStops, SealTyped
    <2>2. CASE Snapshot
      BY <1>0, <1>1, <2>2 DEF Snapshot, SealTyped, HeldTyped, Held
    <2>3. CASE RecordArchive
      <3>1. archive'.turns = archive.turns /\ archive'.recorded \in {TRUE, archive.recorded}
        BY <2>3 DEF RecordArchive
      <3> QED
        BY <1>0, <1>1, <2>3, <3>1 DEF RecordArchive, SealTyped
    <2> QED
      BY <1>3, <2>1, <2>2, <2>3 DEF Seals
  <1>4. CASE Erases
    <2>1. archive' \in {archive, NoArchive} /\ sealing' \in {"no", sealing}
      BY <1>4 DEF Erases, FreeSealed, DeleteSealed, DeleteReleased
    <2>2. NoArchive.turns = {} /\ NoArchive.recorded = FALSE
      BY DEF NoArchive
    <2>3. archive'.turns \subseteq Records' /\ archive'.recorded \in BOOLEAN
      BY <1>0, <2>1, <2>2 DEF SealTyped, Records
    <2> QED
      BY <1>0, <1>1, <2>1, <2>3 DEF SealTyped, Records
  <1> QED
    BY <1>2, <1>3, <1>4, ArchiveStays, NextCases

LEMMA ProcTypedStep == ASSUME TypeOK, [Next]_vars PROVE ProcTyped'
  <1>0. ProcTyped
    BY TypeParts
  <1>1. alive' \subseteq Servers
    <2>1. alive' \subseteq alive
      <3>1. CASE Creates \/ Registers \/ Claims \/ Starts \/ Finishes \/ Grades
        BY <3>1 DEF Creates, Registers, Claims, Starts, Finishes, Grades, CreateExternal, Run, Register,
           ClaimAttempt, StartAttempt, TerminalizeExternal, Terminalize, OutcomeExternal, Grade, procs
      <3>2. CASE Restarts \/ Reports \/ Completes \/ Voids \/ Emits \/ Writes \/ Drops
        BY <3>2 DEF Restarts, Reports, Completes, Voids, Emits, Writes, Drops, RestartExternal,
           RestartOne, SegmentExternal, EndRun, CompleteExternal, CompleteRun, Invalidate,
           ReleaseClose, Emit, Write, Drop, procs
      <3>3. CASE Dies \/ Drives \/ Seals \/ Erases
        BY <3>3 DEF Dies, Drives, Seals, Erases, Kill, Crash, Resume, ResumeRaises, Execute, BeginSeal,
           Snapshot, RecordArchive, SealStops, FreeSealed, DeleteSealed, DeleteReleased, procs
      <3>4. CASE Looks \/ Prunes \/ Forgets \/ Clear \/ Idles
        BY <3>4 DEF Looks, Prunes, Forgets, Idles, ReleaseRead, ReleaseWrite, Prune, Forget, Clear, vars, procs
      <3> QED
        BY <3>1, <3>2, <3>3, <3>4, NextCases
    <2> QED
      BY <1>0, <2>1 DEF ProcTyped
  <1>2. /\ drv' \in {"idle", "resuming", "working", "closing"} /\ dropped' \in BOOLEAN
        /\ at' \in [Attempts -> {"off", "restart", "todo", "run", "term", "done", "failed"}]
    <2>0. CASE drv' = drv /\ at' = at /\ dropped' = dropped
      BY <1>0, <2>0 DEF ProcTyped
    <2>1. CASE Creates \/ Starts \/ Finishes \/ Grades
      BY <1>0, <2>1 DEF Creates, Starts, Finishes, Grades, CreateExternal, Run, StartAttempt,
         TerminalizeExternal, Terminalize, OutcomeExternal, Grade, procs, ProcTyped
    <2>2. CASE Restarts \/ Reports \/ Completes
      BY <1>0, <2>2 DEF Restarts, Reports, Completes, RestartExternal, RestartOne, SegmentExternal,
         EndRun, CompleteExternal, CompleteRun, procs, ProcTyped
    <2>3. CASE Drops \/ Dies \/ Drives
      BY <1>0, <2>3 DEF Drops, Dies, Drives, Drop, Kill, Crash, Resume, ResumeRaises, Execute, ProcTyped
    <2> QED
      BY <2>0, <2>1, <2>2, <2>3, HarnessStays, NextCases
  <1>3. past' \subseteq Events
    <2>1. past' = past \/ Registers \/ Writes \/ Drops \/ Dies \/ Erases \/ Clear
      BY PastStays, NextCases
    <2>2. past' \subseteq past \cup Events
      BY <2>1 DEF Registers, Writes, Drops, Dies, Erases, Register, Write, Drop, Kill, Crash, FreeSealed,
         DeleteSealed, DeleteReleased, EraseRows, Clear, Events
    <2> QED
      BY <1>0, <2>2 DEF ProcTyped
  <1> QED
    BY <1>1, <1>2, <1>3 DEF ProcTyped, Events

LEMMA TypeStep == ASSUME TypeOK, [Next]_vars PROVE TypeOK'
  <1>1. world' \in Worlds
    BY WorldStays DEF TypeOK
  <1>2. /\ ExpTyped' /\ RowTyped' /\ ClaimTyped' /\ ConvTyped' /\ HeldTyped'
        /\ SegsTyped' /\ SealTyped' /\ ProcTyped'
    BY ExpTypedStep, RowTypedStep, ClaimTypedStep, ConvTypedStep, HeldTypedStep, SegsTypedStep,
       SealTypedStep, ProcTypedStep
  <1> QED
    BY <1>1, <1>2 DEF TypeOK, ExpTyped, RowTyped, ClaimTyped, ConvTyped, HeldTyped, SegsTyped, SealTyped,
       ProcTyped, Held, ExpRow

-----------------------------------------------------------------------------
(* What a step may do to the row of an attempt.                              *)
RowKept(a) == row'[a] = row[a]
RowOpened(a) ==
    /\ Is("running") /\ row'[a].there
    /\ row'[a].finished = row[a].finished /\ row'[a].outcome = row[a].outcome
RowFinished(a) ==
    /\ Is("running") /\ row[a].there /\ ~row[a].finished
    /\ row'[a].there /\ row'[a].finished /\ row'[a].outcome = row[a].outcome
RowGraded(a) ==
    /\ Is("running") \/ Is("awaiting_evaluation")
    /\ row[a].there /\ row[a].finished /\ row[a].outcome = "none"
    /\ row'[a].there /\ row'[a].finished
RowRestarted(a) ==
    /\ row[a].there /\ ~row[a].finished
    /\ row'[a].there /\ ~row'[a].finished /\ row'[a].outcome = "none"
RowGone(a) ==
    /\ row'[a] = NoAttempt
    /\ exp' = Erased \/ exp' = NoRow \/ (row[a].there /\ exp' = Invalidated)

LEMMA RowMoves ==
    ASSUME TypeOK, [Next]_vars, NEW a \in Attempts
    PROVE  \/ RowKept(a)
           \/ (Claims \/ Starts) /\ RowOpened(a)
           \/ Finishes /\ RowFinished(a)
           \/ Grades /\ RowGraded(a)
           \/ Restarts /\ RowRestarted(a)
           \/ (Erases \/ Clear \/ Forgets) /\ (RowGone(a) \/ (~row[a].there /\ row'[a] = NoAttempt))
  <1>0. row \in [Attempts -> RowType]
    BY DEF TypeOK
  <1>1. CASE row' = row
    BY <1>1 DEF RowKept
  <1>2. CASE Claims \/ Starts
    <2>1. row' = row \/ (Is("running") /\ \E x \in Attempts : row' = [row EXCEPT ![x].there = TRUE])
      BY <1>2 DEF Claims, Starts, ClaimAttempt, StartAttempt, StartRow
    <2> QED
      BY <1>0, <1>2, <2>1 DEF RowType, RowKept, RowOpened
  <1>3. CASE Finishes
    <2>1. row' = row \/ \E x \in Attempts : CanFinish(x) /\ row' = [row EXCEPT ![x].finished = TRUE]
      BY <1>3 DEF Finishes, TerminalizeExternal, Terminalize, TerminalRow
    <2> QED
      BY <1>0, <1>3, <2>1 DEF RowType, RowKept, RowFinished, CanFinish
  <1>4. CASE Grades
    <2>1. row' = row \/ \E x \in Attempts, outcome \in Outcomes :
                           CanGrade(x) /\ row' = [row EXCEPT ![x].outcome = outcome]
      BY <1>4 DEF Grades, OutcomeExternal, Grade, OutcomeRow
    <2> QED
      BY <1>0, <1>4, <2>1 DEF RowType, RowKept, RowGraded, CanGrade
  <1>5. CASE Restarts
    <2>1. PICK x \in Attempts : RestartRow(x)
      BY <1>5 DEF Restarts, RestartExternal, RestartOne
    <2> QED
      BY <1>0, <1>5, <2>1 DEF RestartRow, RowType, RowKept, RowRestarted
  <1>6. CASE Erases \/ Clear
    BY <1>6 DEF Erases, FreeSealed, DeleteSealed, DeleteReleased, EraseRows, Clear, RowGone
  <1>7. CASE Forgets
    <2>1. PICK x \in Attempts : Forget(x)
      BY <1>7 DEF Forgets
    <2>2. CASE x = a
      BY <1>0, <1>7, <2>1, <2>2 DEF Forget, RowGone
    <2>3. CASE x # a
      BY <1>0, <2>1, <2>3 DEF Forget, RowKept
    <2> QED
      BY <2>2, <2>3
  <1> QED
    BY <1>1, <1>2, <1>3, <1>4, <1>5, <1>6, <1>7, RowStays, NextCases

LEMMA GradedStep == ASSUME TypeOK, Graded, [Next]_vars PROVE Graded'
  <1> SUFFICES ASSUME NEW a \in Attempts
               PROVE  /\ row'[a].finished => row'[a].there
                      /\ row'[a].outcome # "none" => row'[a].finished
    BY DEF Graded
  <1> USE DEF Graded, NoAttempt
  <1>1. CASE RowKept(a)
    BY <1>1 DEF RowKept
  <1>2. CASE RowOpened(a)
    BY <1>2 DEF RowOpened
  <1>3. CASE RowFinished(a)
    BY <1>3 DEF RowFinished
  <1>4. CASE RowGraded(a)
    BY <1>4 DEF RowGraded
  <1>5. CASE RowRestarted(a)
    BY <1>5 DEF RowRestarted
  <1>6. CASE row'[a] = NoAttempt
    BY <1>6
  <1> QED
    BY <1>1, <1>2, <1>3, <1>4, <1>5, <1>6, RowMoves DEF RowGone

(* What a step may do to the experiments row.                                *)
LEMMA ExpMoves ==
    ASSUME TypeOK, [Next]_vars
    PROVE  \/ exp' = exp
           \/ Creates /\ (Is("none") \/ Is("running")) /\ exp'.status = "running"
           \/ /\ Completes /\ There /\ (Is("running") \/ Is("awaiting_evaluation"))
              /\ \E external \in BOOLEAN :
                    /\ exp' = [exp EXCEPT !.status = Verdict(external)]
                    /\ external => mode = "external"
           \/ Seals /\ exp.status \in {"capture_complete", "complete"} /\ exp'.status = "complete"
              /\ exp'.need = exp.need
           \/ (Voids \/ Writes \/ Forgets) /\ There /\ exp'.status = "invalid"
           \/ Erases /\ exp' = Erased
           \/ Clear /\ exp' = NoRow
  <1>0. exp \in {NoRow, Erased} \cup ExpRow
    BY TypeParts DEF ExpTyped
  <1>1. CASE Creates
    <2>1. PICK need \in 0..1 : CreateRow(need)
      BY <1>1, ConstantsAssumption DEF Creates, CreateExternal, Run
    <2>2. CASE Is("none")
      BY <1>1, <2>1, <2>2 DEF CreateRow
    <2>3. CASE ~Is("none")
      <3>1. exp \in ExpRow
        BY <1>0, <2>1, <2>3, ExpIs DEF CreateRow, Is, There, Statuses
      <3> QED
        BY <1>1, <2>1, <2>3, <3>1 DEF CreateRow, ExpRow, Is
    <2> QED
      BY <2>2, <2>3
  <1>2. CASE Completes
    <2>1. \/ exp' = exp
          \/ External /\ CompleteRow(TRUE)
          \/ CompleteRow(FALSE)
      BY <1>2 DEF Completes, CompleteExternal, CompleteRun
    <2> QED
      BY <1>2, <2>1 DEF CompleteRow, CanComplete, External, There, Is, Statuses
  <1>3. CASE Seals
    <2>1. CASE BeginSeal \/ RecordArchive
      <3>1. exp \in ExpRow
        BY <1>0, <2>1, ExpIs DEF BeginSeal, RecordArchive, There, Statuses
      <3> QED
        BY <1>3, <2>1, <3>1 DEF BeginSeal, RecordArchive, ExpRow
    <2>2. CASE Snapshot \/ SealStops
      BY <2>2 DEF Snapshot, SealStops, table
    <2> QED
      BY <1>3, <2>1, <2>2 DEF Seals
  <1>4. CASE Voids \/ Writes \/ Forgets
    <2>1. exp' = exp \/ exp' = Invalidated
      BY <1>4 DEF Voids, Writes, Forgets, Invalidate, ReleaseClose, Write, Forget
    <2> QED
      BY <1>0, <1>4, <2>1, InvalidatedIs
  <1>5. CASE Erases
    BY <1>5 DEF Erases, FreeSealed, DeleteSealed, DeleteReleased, EraseRows
  <1>6. CASE Clear
    BY <1>6 DEF Clear
  <1> QED
    BY <1>1, <1>2, <1>3, <1>4, <1>5, <1>6, ExpStays, NextCases

LEMMA CoveredStep == ASSUME TypeOK, Graded, Covered, [Next]_vars PROVE Covered'
  <1>0. /\ exp \in {NoRow, Erased} \cup ExpRow
        /\ mode' = mode /\ Segs' = Segs /\ mode \in {"external", "harness"}
    BY TypeParts, WorldStays, ConstantsAssumption DEF ExpTyped, TypeOK, mode
  <1> DEFINE waits == {"awaiting_evaluation", "capture_complete", "complete"}
             closed == {"capture_complete", "complete"}
  <1>s. closed \subseteq waits /\ closed \subseteq Statuses /\ waits \subseteq Statuses
    BY DEF Statuses
  <1>1. CASE exp' = exp
    <2>1. SUFFICES ASSUME exp.status \in waits
                   PROVE  /\ \A a \in Attempts : row'[a].there /\ row'[a].finished
                          /\ Cardinality(Recorded') >= exp.need
                          /\ exp.status \in closed => /\ \A a \in Attempts : row'[a].outcome = "pass"
                                                      /\ \A n \in Segs : segs'[n] # "lost"
                          /\ Is("capture_complete") => mode = "external"
      BY <1>0, <1>1, <1>s DEF Covered, Is
    <2>2. There /\ exp \in ExpRow /\ exp.status # "invalid" /\ ~Is("running")
      BY <1>0, <1>s, <2>1, ExpIs DEF There, Is
    <2>3. exp # Erased /\ exp # NoRow /\ exp # Invalidated
      BY <1>0, <1>1, <2>1, <2>2, InvalidatedIs DEF Erased, NoRow
    <2>4. ASSUME NEW a \in Attempts
          PROVE  /\ row'[a].there /\ row'[a].finished
                 /\ exp.status \in closed => row'[a].outcome = "pass"
      <3>1. row[a].there /\ row[a].finished /\ (exp.status \in closed => row[a].outcome = "pass")
        BY <2>1 DEF Covered
      <3>2. ~RowOpened(a) /\ ~RowFinished(a) /\ ~RowRestarted(a) /\ ~RowGone(a)
        BY <1>1, <2>2, <2>3, <3>1 DEF RowOpened, RowFinished, RowRestarted, RowGone
      <3>3. RowKept(a) \/ RowGraded(a)
        BY <3>1, <3>2, RowMoves
      <3> QED
        BY <2>2, <3>1, <3>3 DEF RowKept, RowGraded, Is
    <2>5. CASE segs' = segs
      <3>1. Recorded' = Recorded
        BY <1>0, <2>5 DEF Recorded
      <3> QED
        BY <2>1, <2>4, <2>5, <3>1 DEF Covered
    <2>6. CASE segs' # segs
      <3>1. Reports
        <4>1. ~Erases /\ ~Clear
          BY <1>1, <2>3 DEF Erases, FreeSealed, DeleteSealed, DeleteReleased, EraseRows, Clear
        <4> QED
          BY <2>6, <4>1, SegsStay, NextCases
      <3>2. PICK n \in Segs : \E valid : SegmentRow(n, valid)
        BY <2>6, <3>1 DEF Reports, SegmentExternal, EndRun
      <3>3. exp.status \notin closed
        BY <3>2 DEF SegmentRow, Closed
      <3>4. Recorded \subseteq Recorded' /\ Recorded' \in SUBSET (1..MaxSegs[mode])
            /\ Recorded \in SUBSET (1..MaxSegs[mode])
        <4>1. segs \in [Segs -> {"none", "valid", "lost"}]
          BY DEF TypeOK
        <4>2. Recorded' = {m \in Segs : segs'[m] # "none"}
          BY <1>0 DEF Recorded
        <4> QED
          BY <3>2, <4>1, <4>2 DEF SegmentRow, Recorded, Segs
      <3>5. /\ Cardinality(Recorded) \in Nat /\ Cardinality(Recorded') \in Nat
            /\ Cardinality(Recorded) <= Cardinality(Recorded')
        BY <1>0, <3>4, RecordedIsFinite, FS_Subset
      <3>6. Cardinality(Recorded) >= exp.need /\ exp.need \in Nat
        BY <2>1, <2>2 DEF Covered, ExpRow
      <3> QED
        BY <2>4, <3>3, <3>5, <3>6, <1>s DEF Is
    <2> QED
      BY <2>5, <2>6
  <1>2. CASE exp'.status \notin waits
    BY <1>2, <1>s DEF Covered, Is
  <1>3. ASSUME Completes, There, NEW external \in BOOLEAN,
               exp' = [exp EXCEPT !.status = Verdict(external)], external => mode = "external"
        PROVE  Covered'
    <2>1. exp \in ExpRow
      BY <1>0, <1>3, ExpIs
    <2>2. exp'.status = Verdict(external) /\ exp'.need = exp.need
      BY <1>0, <1>3, <2>1, VerdictIs, Stamped
    <2>3. row' = row /\ segs' = segs /\ Recorded' = Recorded
      BY <1>0, <1>3, RowStays, SegsStay DEF Recorded
    <2>4. PICK v : v = Verdict(external)
      OBVIOUS
    <2>5. /\ v \in waits => /\ \A a \in Attempts : row[a].there /\ row[a].finished
                           /\ Cardinality(Recorded) >= exp.need
          /\ v \in closed => /\ \A a \in Attempts : row[a].outcome = "pass"
                            /\ \A n \in Segs : segs[n] # "lost"
          /\ v = "capture_complete" => external
      BY <2>1, <2>4, VerdictIs
    <2> QED
      BY <1>0, <1>3, <2>2, <2>3, <2>4, <2>5 DEF Covered, Is
  <1>4. ASSUME Seals, exp.status \in closed, exp'.status = "complete", exp'.need = exp.need
        PROVE  Covered'
    <2>1. row' = row /\ segs' = segs /\ Recorded' = Recorded
      BY <1>0, <1>4, RowStays, SegsStay DEF Recorded
    <2> QED
      BY <1>0, <1>4, <2>1 DEF Covered, Is
  <1> QED
    BY <1>1, <1>2, <1>3, <1>4, ExpMoves DEF Erased, NoRow

(* Only a clearing forgets that it happened to clear, only an erasure or a   *)
(* clearing that a record was refused.                                       *)
LEMMA PastMoves ==
    ASSUME [Next]_vars
    PROVE  /\ \A e \in Events \ {"refused"} : e \in past => e \in past'
           /\ "cleared" \in past' => "cleared" \in past \/ Clear
           /\ "crashed" \in past => "crashed" \in past'
           /\ "dropped" \in past' => "dropped" \in past \/ Drops
           /\ "refused" \in past' => \/ "refused" \in past /\ ~Erases /\ ~Clear
                                     \/ Writes /\ There /\ exp' = Invalidated
  <1>1. CASE past' = past
    BY <1>1 DEF Events, Erases, FreeSealed, DeleteSealed, DeleteReleased, EraseRows, Clear
  <1>2. CASE Registers
    BY <1>2 DEF Registers, Register, Events, Erases, FreeSealed, DeleteSealed, DeleteReleased,
       EraseRows, Clear
  <1>3. CASE Writes
    BY <1>3 DEF Writes, Write, Events, Erases, FreeSealed, DeleteSealed, DeleteReleased,
       EraseRows, Clear
  <1>4. CASE Drops
    BY <1>4 DEF Drops, Drop, Events, Erases, FreeSealed, DeleteSealed, DeleteReleased,
       EraseRows, Clear
  <1>5. CASE Dies
    BY <1>5 DEF Dies, Kill, Crash, Events, Erases, FreeSealed, DeleteSealed, DeleteReleased,
       EraseRows, Clear
  <1>6. CASE Erases
    BY <1>6 DEF Erases, FreeSealed, DeleteSealed, DeleteReleased, EraseRows, Events
  <1>7. CASE Clear
    BY <1>7 DEF Clear, Events
  <1> QED
    BY <1>1, <1>2, <1>3, <1>4, <1>5, <1>6, <1>7, PastStays, NextCases

LEMMA RefusedStep == ASSUME TypeOK, Refused, [Next]_vars PROVE Refused'
  <1> SUFFICES ASSUME "refused" \in past' PROVE exp'.status = "invalid"
    BY DEF Refused, Is
  <1>0. exp \in {NoRow, Erased} \cup ExpRow
    BY TypeParts DEF ExpTyped
  <1>1. CASE Writes /\ There /\ exp' = Invalidated
    BY <1>0, <1>1, InvalidatedIs
  <1>2. CASE "refused" \in past /\ ~Erases /\ ~Clear
    <2>1. exp.status = "invalid"
      BY <1>2 DEF Refused, Is
    <2> QED
      BY <1>2, <2>1, ExpMoves DEF Is
  <1> QED
    BY <1>1, <1>2, PastMoves

LEMMA AttachedStep == ASSUME TypeOK, Attached, [Next]_vars PROVE Attached'
  <1> SUFFICES ASSUME "cleared" \notin past'
               PROVE  /\ sealing' # "no" => exp'.status \in {"complete", "invalid", "erased"}
                      /\ sealing' \in {"copied", "archived"} /\ exp'.status = "complete"
                            => archive'.status = "complete"
                      /\ archive'.recorded => archive'.status = "complete"
    BY DEF Attached, Is
  <1>0. /\ "cleared" \notin past
        /\ archive.recorded \in BOOLEAN /\ sealing \in {"no", "begun", "copied", "archived"}
    BY PastMoves DEF Events, TypeOK
  <1>a. /\ sealing # "no" => exp.status \in {"complete", "invalid", "erased"}
        /\ sealing \in {"copied", "archived"} /\ exp.status = "complete" => archive.status = "complete"
        /\ archive.recorded => archive.status = "complete"
    BY <1>0 DEF Attached, Is
  <1>1. CASE BeginSeal
    BY <1>a, <1>1, ExpIs, TypeParts DEF BeginSeal, ExpTyped, ExpRow, There, Statuses
  <1>2. CASE Snapshot
    BY <1>a, <1>2 DEF Snapshot, table, There, Statuses
  <1>3. CASE RecordArchive
    BY <1>a, <1>3 DEF RecordArchive
  <1>4. CASE SealStops
    BY <1>a, <1>4 DEF SealStops, table
  <1>5. CASE Erases
    BY <1>a, <1>5 DEF Erases, FreeSealed, DeleteSealed, DeleteReleased, EraseRows, NoArchive, Erased
  <1>6. CASE archive' = archive /\ sealing' = sealing /\ ~Erases /\ ~Seals /\ ~Clear
    <2>1. exp' = exp \/ exp.status \notin {"complete", "invalid", "erased"} \/ exp'.status = "invalid"
      BY <1>6, ExpMoves DEF Is, There, Statuses
    <2>2. exp'.status = "complete" => exp.status \in {"complete"} \/ sealing = "no"
      BY <1>a, <2>1
    <2> QED
      BY <1>0, <1>a, <1>6, <2>1, <2>2
  <1>7. CASE Clear
    BY <1>7 DEF Clear
  <1> QED
    BY <1>1, <1>2, <1>3, <1>4, <1>5, <1>6, <1>7, ArchiveStays, NextCases DEF Seals

-----------------------------------------------------------------------------
(* The fence.                                                                *)
LEMMA DriverIs ==
    ASSUME Fenced, [Next]_vars
    PROVE  /\ drv' # "idle" => mode = "harness"
           /\ Starts => mode = "harness" /\ drv = "working"
  <1>0. drv # "idle" => mode = "harness"
    BY DEF Fenced
  <1>1. CASE drv' = drv
    BY <1>0, <1>1 DEF Starts, StartAttempt
  <1>2. CASE Creates \/ Starts \/ Finishes \/ Grades
    BY <1>0, <1>2 DEF Creates, Starts, Finishes, Grades, CreateExternal, Run, StartAttempt,
       TerminalizeExternal, Terminalize, OutcomeExternal, Grade, procs
  <1>3. CASE Restarts \/ Reports \/ Completes
    BY <1>0, <1>3 DEF Restarts, Reports, Completes, RestartExternal, RestartOne, SegmentExternal,
       EndRun, CompleteExternal, CompleteRun, procs, Starts, StartAttempt
  <1>4. CASE Drops \/ Dies \/ Drives
    BY <1>0, <1>4 DEF Drops, Dies, Drives, Drop, Kill, Crash, Resume, ResumeRaises, Execute, Starts,
       StartAttempt
  <1> QED
    BY <1>1, <1>2, <1>3, <1>4, HarnessStays, NextCases

(* An erased experiment stays erased.                                        *)
LEMMA ErasedStays ==
    ASSUME TypeOK, [Next]_vars
    PROVE  /\ Is("erased") => exp'.status = "erased"
           /\ exp'.status = "erased" => Is("erased") \/ Erases
  <1>1. Is("erased") => ~Clear
    BY DEF Clear, Is, There, Statuses
  <1>2. ASSUME There, NEW external \in BOOLEAN, exp' = [exp EXCEPT !.status = Verdict(external)]
        PROVE  exp'.status \in Statuses
    <2>1. exp \in {NoRow, Erased} \cup ExpRow /\ exp \in ExpRow
      BY <1>2, ExpIs, TypeParts DEF ExpTyped
    <2>2. PICK v \in Statuses : v = Verdict(external)
      BY <2>1, VerdictIs
    <2>3. [exp EXCEPT !.status = v].status = v
      BY <1>2, <2>1, <2>2, Stamped
    <2> QED
      BY <1>2, <2>2, <2>3
  <1>3. exp' = Erased => exp'.status = "erased"
    BY DEF Erased
  <1>4. exp' = NoRow => exp'.status = "none"
    BY DEF NoRow
  <1> QED
    BY <1>1, <1>2, <1>3, <1>4, ExpMoves DEF Is, There, Statuses

LEMMA FencedStep == ASSUME TypeOK, Fenced, [Next]_vars PROVE Fenced'
  <1>0. /\ mode' = mode
        /\ ClaimTyped /\ Held \subseteq Records
    BY WorldStays, TypeParts DEF HeldTyped
  <1>a. /\ \A r \in Held : r.a \in Attempts /\ r.epoch \in Nat
        /\ \A a \in Attempts : claim[a].epoch \in Nat
    BY <1>0 DEF Records, ClaimTyped, ClaimType
  <1>f. /\ Is("erased") \/ mode = "harness" => \A a \in Attempts : claim[a] = NoClaim
        /\ ~Is("erased") => \A r \in Held : r.epoch <= claim[r.a].epoch
        /\ \A r \in Held : r.epoch = 0 <=> mode = "harness"
        /\ \A r1, r2 \in Held : r1.a = r2.a /\ r1.epoch = r2.epoch /\ r1.epoch # 0 => r1 = r2
    BY DEF Fenced, AnEpochIsOneBinding, Held
  <1> SUFFICES /\ exp'.status = "erased" \/ mode = "harness" => \A a \in Attempts : claim'[a] = NoClaim
               /\ exp'.status # "erased" => \A r \in Held' : r.epoch <= claim'[r.a].epoch
               /\ \A r \in Held' : r.epoch = 0 <=> mode = "harness"
               /\ \A r1, r2 \in Held' : r1.a = r2.a /\ r1.epoch = r2.epoch /\ r1.epoch # 0 => r1 = r2
    BY <1>0, DriverIs DEF Fenced, Is, AnEpochIsOneBinding, Held
  <1>1. CASE Held' \subseteq Held /\ claim' = claim /\ ~Erases
    BY <1>1, <1>f, ErasedStays DEF Is
  <1>2. CASE Erases
    <2>1. /\ exp'.status = "erased" /\ Held' \subseteq Held
          /\ claim' = [a \in Attempts |-> NoClaim]
      BY <1>2 DEF Erases, FreeSealed, DeleteSealed, DeleteReleased, EraseRows, Erased, Held, procs
    <2> QED
      BY <1>f, <2>1
  <1>3. CASE Registers
    <2>1. PICK a \in Attempts, proof \in {"dead", "fence"} : Register(a, proof)
      BY <1>3 DEF Registers
    <2>2. /\ Held' = Held /\ exp' = exp /\ mode # "harness" /\ ~Is("erased")
      BY <1>3, <2>1, HeldStays, ExpStays DEF Held, Register, External, Is, There, Statuses
    <2>3. \A x \in Attempts : claim'[x].epoch = claim[x].epoch
      BY <1>0, <2>1 DEF Register, ClaimTyped, ClaimType
    <2> QED
      BY <1>a, <1>f, <2>2, <2>3 DEF Is
  <1>4. CASE Claims
    <2>1. PICK s \in Servers, a \in Attempts : ClaimAttempt(s, a)
      BY <1>4 DEF Claims
    <2>e. PICK epoch \in Nat : epoch = claim[a].epoch + 1
      BY <1>a
    <2>i. PICK id : id = IF conv[a] = 0 THEN minted[a] + 1 ELSE conv[a]
      OBVIOUS
    <2>3. PICK b : b = [a |-> a, epoch |-> epoch, server |-> s, conv |-> id]
      OBVIOUS
    <2>4. /\ bound' = bound \cup {b} /\ pending' = pending /\ turns' = turns
          /\ claim' = [claim EXCEPT ![a] = [state |-> "claimed", epoch |-> epoch, server |-> s]]
          /\ exp' = exp /\ Is("running") /\ claim[a].state = "pending"
      BY <2>1, <2>e, <2>i, <2>3 DEF ClaimAttempt
    <2>5. Held' = Held \cup {b} /\ b.a = a /\ b.epoch = epoch
      BY <2>3, <2>4 DEF Held
    <2>6. mode # "harness" /\ ~Is("erased") /\ exp'.status # "erased"
      BY <1>f, <2>4 DEF NoClaim, Is
    <2>7. /\ claim'[a].epoch = epoch
          /\ \A x \in Attempts : x # a => claim'[x] = claim[x]
      BY <1>0, <2>4 DEF ClaimTyped
    <2>8. \A r \in Held : r.a = a => r.epoch < epoch /\ r.epoch <= epoch
      BY <1>a, <1>f, <2>e, <2>6
    <2>9. \A r \in Held' : r.epoch <= claim'[r.a].epoch
      BY <1>a, <1>f, <2>5, <2>6, <2>7, <2>8
    <2>10. \A r \in Held' : r.epoch # 0
      BY <1>a, <1>f, <2>e, <2>5, <2>6
    <2>11. \A r1, r2 \in Held' : r1.a = r2.a /\ r1.epoch = r2.epoch /\ r1.epoch # 0 => r1 = r2
      BY <1>a, <1>f, <2>5, <2>8
    <2> QED
      BY <2>6, <2>9, <2>10, <2>11
  <1>5. CASE Starts
    <2>1. PICK a \in Attempts : StartAttempt(a)
      BY <1>5 DEF Starts
    <2>2. /\ mode = "harness" /\ claim' = claim /\ exp' = exp
      BY <1>5, DriverIs, ClaimStays, ExpStays
    <2>3. PICK b : bound' \subseteq bound \cup {b} /\ b.a = a /\ b.epoch = 0
      <3>1. PICK id : bound' \subseteq bound \cup {[a |-> a, epoch |-> 0, server |-> Harness, conv |-> id]}
        BY <2>1 DEF StartAttempt
      <3>2. PICK b : b = [a |-> a, epoch |-> 0, server |-> Harness, conv |-> id]
        OBVIOUS
      <3>3. b.a = a /\ b.epoch = 0
        BY <3>2
      <3> QED
        BY <3>1, <3>2, <3>3
    <2>4. Held' \subseteq Held \cup {b}
      BY <2>1, <2>3 DEF StartAttempt, Held
    <2>5. \A r \in Held' : r.epoch = 0 /\ r.a \in Attempts
      BY <1>a, <1>f, <2>2, <2>3, <2>4
    <2> QED
      BY <1>a, <1>f, <2>2, <2>5
  <1> QED
    BY <1>1, <1>2, <1>3, <1>4, <1>5, HeldShrinks, ClaimStays, NextCases

-----------------------------------------------------------------------------
(* The harness.                                                              *)

(* A run that counts after a step counted before it: no verdict, loss or     *)
(* clearing is taken back.                                                   *)
LEMMA CountedBefore ==
    ASSUME TypeOK, Covered, Fenced, [Next]_vars, MayCount'
    PROVE  /\ MayCount /\ ~Erases /\ ~Clear
           /\ ~Registers /\ ~Claims
           /\ \/ exp' = exp
              \/ Creates /\ exp'.status = "running"
              \/ Completes /\ (Is("running") \/ Is("awaiting_evaluation"))
              \/ Seals /\ Is("complete")
  <1>0. /\ mode = "harness" /\ mode' = mode /\ Segs' = Segs /\ "cleared" \notin past'
        /\ exp'.status \in {"none", "running", "awaiting_evaluation", "complete"}
        /\ \A n \in Segs : segs'[n] # "lost"
    BY WorldStays DEF MayCount, Is
  <1>1. "cleared" \notin past
    BY <1>0, PastMoves DEF Events
  <1>2. ~Erases /\ ~Clear
    BY <1>0 DEF Erases, FreeSealed, DeleteSealed, DeleteReleased, EraseRows, Erased, Clear
  <1>3. ~Registers /\ ~Claims
    BY <1>0 DEF Registers, Register, External, Claims, ClaimAttempt, Fenced, NoClaim
  <1>4. /\ exp.status \in {"none", "running", "awaiting_evaluation", "complete"}
        /\ \/ exp' = exp
           \/ Creates /\ exp'.status = "running"
           \/ Completes /\ (Is("running") \/ Is("awaiting_evaluation"))
           \/ Seals /\ Is("complete")
    <2>1. ~Is("capture_complete")
      BY <1>0 DEF Covered
    <2> QED
      BY <1>0, <1>2, <2>1, ExpMoves DEF Is
  <1>5. \A n \in Segs : segs[n] # "lost"
    <2>1. segs' = segs \/ \E n \in Segs : \E valid : SegmentRow(n, valid)
      BY <1>2, SegsStay, NextCases DEF Reports, SegmentExternal, EndRun
    <2>2. segs \in [Segs -> {"none", "valid", "lost"}]
      BY DEF TypeOK
    <2> QED
      BY <1>0, <2>1, <2>2 DEF SegmentRow
  <1> QED
    BY <1>0, <1>1, <1>2, <1>3, <1>4, <1>5 DEF MayCount

(* What a run that counts consists of, before and after a step.               *)
LEMMA HarnessParts ==
    ASSUME [Next]_vars
    PROVE  /\ Harnessed /\ MayCount =>
                 /\ drv # "idle" => Is("running")
                 /\ drv # "working" => bound = {} /\ pending = {}
                 /\ \A b \in bound : at[b.a] = "run"
                 /\ \A x \in Held : x.conv # 0 /\ x.conv = conv[x.a]
                 /\ \A a \in Attempts : ~row[a].there \/ at[a] = "todo" => conv[a] = 0
                 /\ "dropped" \in past /\ "crashed" \notin past => drv = "working" /\ dropped
           /\ (/\ drv' # "idle" => exp'.status = "running"
               /\ drv' # "working" => bound' = {} /\ pending' = {}
               /\ \A b \in bound' : at'[b.a] = "run"
               /\ \A x \in Held' : x.conv # 0 /\ x.conv = conv'[x.a]
               /\ \A a \in Attempts : ~row'[a].there \/ at'[a] = "todo" => conv'[a] = 0
               /\ "dropped" \in past' /\ "crashed" \notin past' => drv' = "working" /\ dropped')
              => Harnessed'
  BY DEF Harnessed, Is

(* The steps that leave the harness and its attempts where they are.         *)
LEMMA PlainStep ==
    ASSUME TypeOK, Covered, Fenced, Harnessed, [Next]_vars, MayCount',
           \/ Voids \/ Emits \/ Writes \/ Seals \/ Looks \/ Prunes \/ Idles
    PROVE  Harnessed'
  <1>0. /\ MayCount /\ mode = "harness"
        /\ \/ exp' = exp \/ Is("complete") \/ exp'.status = "running" \/ Completes
    BY CountedBefore DEF MayCount
  <1>1. /\ drv' = drv /\ at' = at /\ dropped' = dropped
        /\ row' = row /\ conv' = conv
    BY HarnessStays, RowStays, ConvStays
  <1>2. /\ Held' \subseteq Held /\ bound' = bound /\ pending' \subseteq pending \cup bound
    <2>1. CASE Voids \/ Seals \/ Looks \/ Idles
      BY <2>1, HeldStays DEF Held
    <2>2. CASE Emits \/ Writes \/ Prunes
      BY <2>2 DEF Held, Emits, Writes, Prunes, Emit, Write, Prune, table, procs
    <2> QED
      BY <2>1, <2>2
  <1>3. Completes => drv = "closing" /\ drv' = "idle"
    BY <1>0 DEF Completes, CompleteExternal, CompleteRun, External
  <1>4. /\ "dropped" \in past' => "dropped" \in past
        /\ "crashed" \in past => "crashed" \in past'
    <2>1. past' = past \/ Writes
      BY PastStays
    <2>2. CASE Writes
      BY <2>2 DEF Writes, Write
    <2> QED
      BY <2>1, <2>2
  <1>5. drv' # "idle" => exp'.status = "running"
    BY <1>0, <1>1, <1>3, HarnessParts DEF Is
  <1> QED
    BY <1>0, <1>1, <1>2, <1>4, <1>5, HarnessParts

LEMMA StartStep ==
    ASSUME TypeOK, Covered, Fenced, Harnessed, [Next]_vars, MayCount', Starts
    PROVE  Harnessed'
  <1>0. /\ MayCount /\ Held \subseteq Records
        /\ row \in [Attempts -> RowType] /\ conv \in [Attempts -> Nat] /\ minted \in [Attempts -> Nat]
        /\ at \in [Attempts -> {"off", "restart", "todo", "run", "term", "done", "failed"}]
    BY CountedBefore, TypeParts DEF HeldTyped, TypeOK
  <1>1. PICK a \in Attempts : StartAttempt(a)
    BY DEF Starts
  <1>2. /\ drv = "working" /\ at[a] = "todo" /\ Is("running") /\ conv[a] = 0
    BY <1>0, <1>1, HarnessParts DEF StartAttempt
  <1>3. PICK id \in Nat : id = minted[a] + 1
    BY <1>0
  <1>4. PICK b : b = [a |-> a, epoch |-> 0, server |-> Harness, conv |-> id]
    OBVIOUS
  <1>5. /\ row' = [row EXCEPT ![a].there = TRUE]
        /\ at' = [at EXCEPT ![a] = "run"]
        /\ conv' = [conv EXCEPT ![a] = id]
        /\ bound' = bound \cup {b} /\ pending' = pending /\ turns' = turns
        /\ drv' = drv /\ exp' = exp /\ dropped' = dropped /\ past' = past
    BY <1>1, <1>2, <1>3, <1>4 DEF StartAttempt, StartRow
  <1>6. /\ Held' = Held \cup {b} /\ b.a = a /\ b.conv = id /\ id # 0
    BY <1>0, <1>3, <1>4, <1>5 DEF Held
  <1>7. \A r \in Held : r.a \in Attempts /\ r.a # a
    BY <1>0, <1>2, HarnessParts DEF Records
  <1>8. /\ conv'[a] = id /\ at'[a] = "run" /\ row'[a].there
        /\ \A x \in Attempts : x # a => conv'[x] = conv[x] /\ at'[x] = at[x] /\ row'[x] = row[x]
    BY <1>0, <1>5 DEF RowType
  <1>9. \A x \in Held' : x.conv # 0 /\ x.conv = conv'[x.a]
    BY <1>0, <1>6, <1>7, <1>8, HarnessParts
  <1>10. \A x \in bound' : at'[x.a] = "run"
    BY <1>0, <1>5, <1>6, <1>7, <1>8, HarnessParts DEF Held
  <1>11. \A x \in Attempts : ~row'[x].there \/ at'[x] = "todo" => conv'[x] = 0
    BY <1>0, <1>8, HarnessParts
  <1> QED
    BY <1>0, <1>2, <1>5, <1>9, <1>10, <1>11, HarnessParts DEF Is

LEMMA ProgramStep ==
    ASSUME TypeOK, Covered, Fenced, Harnessed, [Next]_vars, MayCount',
           Creates \/ Finishes \/ Grades \/ Completes \/ Drops \/ Dies \/ Drives
    PROVE  Harnessed'
  <1>0. /\ MayCount /\ mode = "harness" /\ Held \subseteq Records
        /\ at \in [Attempts -> {"off", "restart", "todo", "run", "term", "done", "failed"}]
    BY CountedBefore, TypeParts DEF HeldTyped, TypeOK, MayCount
  <1>a. \A r \in Held : r.a \in Attempts
    BY <1>0 DEF Records
  <1>1. CASE Creates
    <2>1. /\ Run /\ CreateRow(1)
      BY <1>0, <1>1 DEF Creates, CreateExternal, External, Run
    <2>2. exp'.status = "running"
      BY <1>1, <2>1, ExpMoves, TypeParts, ExpIs DEF CreateRow, ExpTyped, ExpRow, Is, There, Statuses
    <2>3. /\ drv = "idle" /\ drv' = "working" /\ row' = row /\ conv' = conv
          /\ bound' = bound /\ Held' = Held /\ past' = past
      BY <1>1, <2>1, HeldStays DEF Run, Held
    <2>4. bound = {} /\ ("dropped" \in past => "crashed" \in past)
      BY <1>0, <2>3, HarnessParts
    <2>5. \A a \in Attempts : ~row[a].there
      BY <2>1 DEF CreateRow, Rows
    <2> QED
      BY <1>0, <2>2, <2>3, <2>4, <2>5, HarnessParts
  <1>2. CASE Finishes
    <2>1. PICK a \in Attempts : Terminalize(a)
      BY <1>0, <1>2 DEF Finishes, TerminalizeExternal, External
    <2>2. /\ drv = "working" /\ drv' = drv /\ exp' = exp /\ conv' = conv /\ past' = past
          /\ dropped' = dropped
          /\ bound' = {b \in bound : b.a # a} /\ Held' \subseteq Held
      BY <2>1 DEF Terminalize, Held
    <2>3. /\ at'[a] \in {"term", "failed"}
          /\ \A x \in Attempts : x # a => at'[x] = at[x]
      BY <1>0, <2>1 DEF Terminalize
    <2>4. \A x \in Attempts : row'[x].there = row[x].there
      <3>1. row' = row \/ row' = [row EXCEPT ![a].finished = TRUE]
        BY <2>1 DEF Terminalize, TerminalRow
      <3>2. row \in [Attempts -> RowType]
        BY DEF TypeOK
      <3> QED
        BY <3>1, <3>2 DEF RowType
    <2>5. \A b \in bound' : at'[b.a] = "run"
      BY <1>0, <1>a, <2>2, <2>3, HarnessParts DEF Held
    <2>6. \A x \in Attempts : ~row'[x].there \/ at'[x] = "todo" => conv'[x] = 0
      BY <1>0, <2>2, <2>3, <2>4, HarnessParts
    <2>7. \A x \in Held' : x.conv # 0 /\ x.conv = conv'[x.a]
      BY <1>0, <2>2, HarnessParts
    <2> QED
      BY <1>0, <2>2, <2>5, <2>6, <2>7, HarnessParts DEF Is
  <1>3. CASE Grades
    <2>1. PICK a \in Attempts, outcome \in Outcomes : Grade(a, outcome)
      BY <1>0, <1>3 DEF Grades, OutcomeExternal, External
    <2>2. /\ drv = "working" /\ drv' = drv /\ exp' = exp /\ conv' = conv /\ past' = past
          /\ dropped' = dropped /\ bound' = bound /\ Held' = Held /\ at[a] = "term"
      BY <2>1 DEF Grade, Held
    <2>3. /\ at'[a] \in {"done", "failed"}
          /\ \A x \in Attempts : x # a => at'[x] = at[x]
      BY <1>0, <2>1 DEF Grade
    <2>4. \A x \in Attempts : row'[x].there = row[x].there
      <3>1. row' = row \/ row' = [row EXCEPT ![a].outcome = outcome]
        BY <2>1 DEF Grade, OutcomeRow
      <3>2. row \in [Attempts -> RowType]
        BY DEF TypeOK
      <3> QED
        BY <3>1, <3>2 DEF RowType
    <2>5. \A b \in bound' : at'[b.a] = "run"
      BY <1>0, <1>a, <2>2, <2>3, HarnessParts DEF Held
    <2>6. \A x \in Attempts : ~row'[x].there \/ at'[x] = "todo" => conv'[x] = 0
      BY <1>0, <2>2, <2>3, <2>4, HarnessParts
    <2> QED
      BY <1>0, <2>2, <2>5, <2>6, HarnessParts DEF Is
  <1>4. CASE Completes
    <2>1. CompleteRun
      BY <1>0, <1>4 DEF Completes, CompleteExternal, External
    <2>2. /\ drv = "closing" /\ drv' = "idle" /\ bound' = bound /\ pending' = pending /\ Held' = Held
          /\ row' = row /\ conv' = conv /\ at' = at /\ past' = past /\ dropped' = dropped
      BY <2>1 DEF CompleteRun, Held
    <2> QED
      BY <1>0, <2>2, HarnessParts
  <1>5. CASE Drops
    <2>1. PICK r \in pending : Drop(r)
      BY <1>5 DEF Drops
    <2>2. /\ drv' = drv /\ bound' = bound /\ Held' \subseteq Held /\ dropped' = TRUE
          /\ row' = row /\ conv' = conv /\ at' = at /\ exp' = exp
      BY <2>1 DEF Drop, Held, table
    <2> QED
      BY <1>0, <2>1, <2>2, HarnessParts DEF Is
  <1>6. CASE Dies
    <2>1. Crash
      BY <1>0, <1>6 DEF Dies, Kill, External
    <2>2. /\ drv' = "idle" /\ bound' = {} /\ pending' = {} /\ Held' \subseteq Held
          /\ row' = row /\ conv' = conv /\ "crashed" \in past'
          /\ at' = [a \in Attempts |-> "off"]
      BY <2>1 DEF Crash, Held, table
    <2> QED
      BY <1>0, <2>2, HarnessParts
  <1>7. CASE Drives
    <2>1. /\ drv # "working" /\ bound' = bound /\ pending' = pending /\ Held' = Held
          /\ row' = row /\ conv' = conv /\ exp' = exp /\ past' = past
      BY <1>7 DEF Drives, Resume, ResumeRaises, Execute, Held, table
    <2>2. /\ bound' = {} /\ pending' = {} /\ ("dropped" \in past' => "crashed" \in past')
      BY <1>0, <2>1, HarnessParts
    <2>3. drv' # "idle" => exp'.status = "running"
      BY <1>0, <1>7, <2>1, HarnessParts DEF Drives, Resume, ResumeRaises, Execute, Is
    <2>4. \A x \in Attempts : at'[x] = "todo" => at[x] = "todo" \/ ~row[x].there
      BY <1>7 DEF Drives, Resume, ResumeRaises, Execute
    <2>5. \A x \in Attempts : ~row'[x].there \/ at'[x] = "todo" => conv'[x] = 0
      BY <1>0, <2>1, <2>4, HarnessParts
    <2> QED
      BY <1>0, <2>1, <2>2, <2>3, <2>5, HarnessParts
  <1> QED
    BY <1>1, <1>2, <1>3, <1>4, <1>5, <1>6, <1>7

(* An attempt starts over with nothing left of it; the end of a run leaves   *)
(* nothing under way, or says that it did.                                   *)
LEMMA TurnoverStep ==
    ASSUME TypeOK, Covered, Fenced, Harnessed, [Next]_vars, MayCount',
           Restarts \/ Reports \/ Forgets
    PROVE  Harnessed'
  <1>0. /\ MayCount /\ mode = "harness" /\ Held \subseteq Records
        /\ row \in [Attempts -> RowType] /\ conv \in [Attempts -> Nat]
        /\ at \in [Attempts -> {"off", "restart", "todo", "run", "term", "done", "failed"}]
    BY CountedBefore, TypeParts DEF HeldTyped, TypeOK, MayCount
  <1>a. \A r \in Held : r.a \in Attempts
    BY <1>0 DEF Records
  <1>1. CASE Restarts
    <2>1. PICK a \in Attempts : RestartOne(a)
      BY <1>0, <1>1 DEF Restarts, RestartExternal, External
    <2>2. /\ drv = "resuming" /\ drv' = drv /\ bound' = bound /\ pending' = pending
          /\ turns' = {t \in turns : t.a # a} /\ exp' = exp /\ past' = past /\ dropped' = dropped
      BY <2>1 DEF RestartOne, RestartRow
    <2>3. bound = {} /\ pending = {}
      BY <1>0, <2>2, HarnessParts
    <2>4. /\ conv'[a] = 0
          /\ \A x \in Attempts : x # a => /\ conv'[x] = conv[x] /\ at'[x] = at[x]
                                          /\ row'[x] = row[x]
      BY <1>0, <2>1 DEF RestartOne, RestartRow
    <2>5. \A x \in Held' : x.conv # 0 /\ x.conv = conv'[x.a]
      BY <1>0, <1>a, <2>2, <2>3, <2>4, HarnessParts DEF Held
    <2>6. \A x \in Attempts : ~row'[x].there \/ at'[x] = "todo" => conv'[x] = 0
      BY <1>0, <2>4, HarnessParts
    <2> QED
      BY <1>0, <2>2, <2>3, <2>5, <2>6, HarnessParts DEF Is
  <1>2. CASE Reports
    <2>1. PICK n \in Segs : EndRun(n)
      BY <1>0, <1>2 DEF Reports, SegmentExternal, External
    <2>2. /\ drv = "working" /\ drv' \in {"idle", "closing"} /\ Is("running")
          /\ bound' = bound /\ pending' = pending /\ Held' = Held /\ exp' = exp /\ past' = past
          /\ row' = row /\ conv' = conv
          /\ at' = [x \in Attempts |-> "off"]
          /\ \A x \in Attempts : at[x] # "run"
      BY <1>0, <2>1, HarnessParts DEF EndRun, Held
    <2>3. bound = {}
      BY <1>0, <1>a, <2>2, HarnessParts DEF Held
    <2>4. Clean
      <3>1. SegmentRow(n, Clean)
        BY <2>1, <2>2 DEF EndRun, There, Is, Statuses, Closed
      <3>2. segs'[n] # "lost"
        BY WorldStays DEF MayCount
      <3>3. segs \in [Segs -> {"none", "valid", "lost"}]
        BY DEF TypeOK
      <3> QED
        BY <3>1, <3>2, <3>3 DEF SegmentRow
    <2>5. pending = {} /\ ("dropped" \in past => "crashed" \in past)
      BY <1>0, <2>4, HarnessParts DEF Clean
    <2> QED
      BY <1>0, <2>2, <2>3, <2>5, HarnessParts DEF Is
  <1>3. CASE Forgets
    <2>1. PICK a \in Attempts : Forget(a)
      BY <1>3 DEF Forgets
    <2>2. /\ drv' = drv /\ bound' = bound /\ pending' = pending /\ at' = at /\ past' = past
          /\ dropped' = dropped /\ turns' = {t \in turns : t.a # a}
      BY <2>1 DEF Forget, procs
    <2>3. /\ conv'[a] = 0
          /\ \A x \in Attempts : x # a => conv'[x] = conv[x] /\ row'[x] = row[x]
      BY <1>0, <2>1 DEF Forget
    <2>4. exp' = exp /\ (row[a].there => ~There)
      <3>1. exp \in {NoRow, Erased} \cup ExpRow
        BY TypeParts DEF ExpTyped
      <3>2. row[a].there /\ There => exp'.status = "invalid"
        BY <2>1, <3>1, InvalidatedIs DEF Forget
      <3>3. exp'.status # "invalid"
        BY DEF MayCount
      <3> QED
        BY <2>1, <3>1, <3>2, <3>3, InvalidatedIs DEF Forget
    <2>5. \A r \in bound \cup pending : r.a # a
      <3>1. CASE row[a].there
        BY <1>0, <2>4, <3>1, HarnessParts DEF Is, There, Statuses
      <3>2. CASE ~row[a].there
        BY <1>0, <3>2, HarnessParts DEF Held
      <3> QED
        BY <3>1, <3>2
    <2>6. \A x \in Held' : x.conv # 0 /\ x.conv = conv'[x.a]
      BY <1>0, <1>a, <2>2, <2>3, <2>5, HarnessParts DEF Held
    <2>7. \A x \in Attempts : ~row'[x].there \/ at'[x] = "todo" => conv'[x] = 0
      BY <1>0, <2>2, <2>3, HarnessParts
    <2> QED
      BY <1>0, <2>2, <2>4, <2>6, <2>7, HarnessParts DEF Is
  <1> QED
    BY <1>1, <1>2, <1>3

LEMMA HarnessedStep == ASSUME TypeOK, Covered, Fenced, Harnessed, [Next]_vars PROVE Harnessed'
  <1>1. CASE ~MayCount'
    BY <1>1 DEF Harnessed
  <1>2. CASE MayCount'
    <2>1. ~Erases /\ ~Clear /\ ~Registers /\ ~Claims
      BY <1>2, CountedBefore
    <2> QED
      BY <1>2, <2>1, PlainStep, StartStep, ProgramStep, TurnoverStep, NextCases
  <1> QED
    BY <1>1, <1>2

-----------------------------------------------------------------------------
LEMMA InitIInv == ASSUME Init PROVE IInv
  <1>1. mode \in {"external", "harness"} /\ world \in Worlds
    BY ConstantsAssumption DEF Init, mode
  <1>2. TypeOK
    <2>1. NoAttempt \in RowType
      <3>1. 0 \in 0..MaxRestarts
        BY ConstantsAssumption
      <3> QED
        BY <3>1 DEF NoAttempt, RowType, Outcomes
    <2>2. NoClaim \in ClaimType /\ NoClaim.state # "claimed" /\ NoClaim.server \notin Servers
      BY ConstantsAssumption DEF NoClaim, ClaimType
    <2>3. NoArchive.turns = {} /\ NoArchive.recorded = FALSE
      BY DEF NoArchive
    <2>4. ExpTyped /\ RowTyped /\ ClaimTyped /\ HeldTyped /\ SegsTyped
      BY <2>1, <2>2 DEF Init, ExpTyped, RowTyped, ClaimTyped, HeldTyped, Held, SegsTyped
    <2>5. ConvTyped
      BY DEF Init, ConvTyped
    <2>6. SealTyped
      BY <2>3 DEF Init, SealTyped
    <2>7. ProcTyped
      BY DEF Init, ProcTyped
    <2> QED
      BY <1>1, <2>4, <2>5, <2>6, <2>7, TypeParts
  <1>3. Graded /\ Refused /\ Attached
    BY DEF Init, Graded, Refused, Attached, NoAttempt, NoArchive
  <1>4. Covered
    BY DEF Init, Covered, Is, NoRow
  <1>5. Fenced /\ Harnessed
    BY DEF Init, Fenced, AnEpochIsOneBinding, Harnessed, Held
  <1> QED
    BY <1>2, <1>3, <1>4, <1>5 DEF IInv

LEMMA NextIInv == ASSUME IInv, [Next]_vars PROVE IInv'
  BY TypeStep, GradedStep, CoveredStep, FencedStep, RefusedStep, AttachedStep, HarnessedStep DEF IInv

LEMMA Invariance == Spec => []IInv
  BY InitIInv, NextIInv, PTL DEF Spec

(* The state keeps its types, in every world.                                *)
THEOREM TypeCorrect == Spec => []TypeOK
  BY Invariance, PTL DEF IInv

(* Ranks of the statuses an experiment can have.                             *)
LEMMA Ranks ==
    /\ Rank("running") = 0 /\ Rank("awaiting_evaluation") = 1
    /\ Rank("capture_complete") = 2 /\ Rank("complete") = 3 /\ Rank("invalid") = 4
  BY DEF Rank

LEMMA AdvanceStep ==
    ASSUME IInv, [Next]_vars, There, There'
    PROVE  Rank(exp'.status) >= Rank(exp.status)
  <1>0. /\ exp \in ExpRow /\ exp \in {NoRow, Erased} \cup ExpRow
        /\ exp.status \in Statuses /\ exp'.status \in Statuses
        /\ TypeOK /\ Covered
    BY TypeParts, ExpIs DEF IInv, ExpTyped, There
  <1>1. CASE exp' = exp
    BY <1>0, <1>1, Ranks DEF Statuses
  <1>2. CASE exp'.status \in {"invalid", "complete"} /\ ~Is("invalid")
    BY <1>0, <1>2, Ranks DEF Statuses, Is
  <1>3. CASE Is("running")
    BY <1>0, <1>3, Ranks DEF Statuses, Is
  <1>4. CASE exp'.status = "invalid"
    BY <1>0, <1>4, Ranks DEF Statuses
  <1>5. ASSUME Is("awaiting_evaluation"), NEW external \in BOOLEAN,
               exp' = [exp EXCEPT !.status = Verdict(external)]
        PROVE  Rank(exp'.status) >= Rank(exp.status)
    <2>1. PICK v \in Statuses : v = Verdict(external)
      BY <1>0, VerdictIs
    <2>2. v # "running"
      BY <1>0, <1>5, <2>1, VerdictIs DEF Covered, Is
    <2>3. exp'.status = v
      BY <1>0, <1>5, <2>1, Stamped
    <2> QED
      BY <1>5, <2>2, <2>3, Ranks DEF Statuses, Is
  <1>6. CASE exp' \in {NoRow, Erased}
    BY <1>0, <1>6 DEF NoRow, Erased, Statuses
  <1>7. ~Is("none")
    BY <1>0 DEF Is, Statuses
  <1>8. exp.status \in {"capture_complete", "complete"} => ~Is("invalid")
    BY DEF Is
  <1>9. \/ exp' = exp \/ Is("running") \/ exp' \in {NoRow, Erased} \/ exp'.status = "invalid"
        \/ exp'.status = "complete" /\ ~Is("invalid")
        \/ Is("awaiting_evaluation") /\ \E external \in BOOLEAN :
                                          exp' = [exp EXCEPT !.status = Verdict(external)]
    BY <1>0, <1>7, <1>8, ExpMoves
  <1> QED
    BY <1>1, <1>2, <1>3, <1>4, <1>5, <1>6, <1>9

LEMMA GradeStep ==
    ASSUME IInv, [Next]_vars, NEW a \in Attempts,
           row[a].outcome # "none", row'[a].outcome # row[a].outcome
    PROVE  ~There' \/ exp'.status = "invalid"
  <1>0. row[a].finished /\ row[a].there /\ exp \in {NoRow, Erased} \cup ExpRow /\ TypeOK
    BY TypeParts DEF IInv, Graded, ExpTyped
  <1>1. RowGone(a)
    BY <1>0, RowMoves DEF RowKept, RowOpened, RowFinished, RowGraded, RowRestarted
  <1>2. CASE exp' = Erased \/ exp' = NoRow
    BY <1>2 DEF There, Erased, NoRow, Statuses
  <1>3. CASE exp' = Invalidated
    <2>1. CASE There
      BY <1>0, <1>3, <2>1, InvalidatedIs
    <2>2. CASE ~There
      BY <1>0, <1>3, <2>2, InvalidatedIs DEF There
    <2> QED
      BY <2>1, <2>2
  <1> QED
    BY <1>1, <1>2, <1>3 DEF RowGone

(* A verdict of the store stands, with the grades it was given for: whatever *)
(* is called before and after, in whatever order, the status only advances   *)
(* and no stored grade changes while the experiment counts.                  *)
THEOREM VerdictsAreFinal == Spec => VerdictsStand
  <1>1. ASSUME IInv, [Next]_vars
        PROVE  [There /\ There' => Rank(exp'.status) >= Rank(exp.status)]_vars
    BY <1>1, AdvanceStep
  <1>2. ASSUME IInv, [Next]_vars
        PROVE  [\A a \in Attempts : row[a].outcome # "none" /\ row'[a].outcome # row[a].outcome
                   => ~There' \/ exp'.status = "invalid"]_vars
    BY <1>2, GradeStep
  <1> QED
    BY <1>1, <1>2, Invariance, PTL DEF Spec, VerdictsStand, VerdictsOnlyAdvance, GradesStand

LEMMA SilenceStep ==
    ASSUME IInv, [Next]_vars, NEW t \in turns' \ turns, NEW b \in bound \cup turns, b.a = t.a
    PROVE  b.epoch <= t.epoch
  <1>0. /\ Fenced /\ Held \subseteq Records /\ b \in Held
    BY TypeParts DEF IInv, HeldTyped, Held
  <1>1. t \in pending /\ Current(t)
    <2>1. Writes
      <3>1. turns' \subseteq turns \/ Claims \/ Starts \/ Emits \/ Writes \/ Finishes \/ Restarts
            \/ Drops \/ Dies \/ Erases \/ Prunes \/ Forgets \/ Clear
        BY HeldStays, NextCases
      <3>2. ~(Claims \/ Starts \/ Emits \/ Finishes \/ Restarts \/ Drops \/ Dies \/ Erases \/ Prunes
              \/ Forgets \/ Clear)
        <4>1. ~Claims /\ ~Starts /\ ~Emits /\ ~Finishes /\ ~Restarts
          BY DEF Claims, Starts, Emits, Finishes, Restarts, ClaimAttempt, StartAttempt, Emit,
             TerminalizeExternal, Terminalize, RestartExternal, RestartOne, RestartRow, table
        <4>2. ~Drops /\ ~Dies /\ ~Erases
          BY DEF Drops, Dies, Erases, Drop, Kill, Crash, FreeSealed, DeleteSealed, DeleteReleased,
             EraseRows, table
        <4>3. ~Prunes /\ ~Forgets /\ ~Clear
          BY DEF Prunes, Forgets, Prune, Forget, Clear
        <4> QED
          BY <4>1, <4>2, <4>3
      <3> QED
        BY <3>1, <3>2
    <2> QED
      BY <2>1 DEF Writes, Write
  <1>2. /\ t \in Held /\ t.a \in Attempts /\ t.epoch \in Nat /\ b.epoch \in Nat
    BY <1>0, <1>1 DEF Held, Records
  <1>3. CASE t.epoch = 0
    BY <1>0, <1>2, <1>3 DEF Fenced
  <1>4. CASE t.epoch # 0
    <2>1. claim[t.a].state = "claimed" /\ claim[t.a].epoch = t.epoch
      BY <1>1, <1>4 DEF Current
    <2>2. ~Is("erased")
      BY <1>0, <1>2, <2>1 DEF Fenced, NoClaim
    <2> QED
      BY <1>0, <2>1, <2>2 DEF Fenced
  <1> QED
    BY <1>3, <1>4

(* An epoch is one binding, and once a newer binding of an attempt exists    *)
(* nothing of an older one is stored - late writers, servers that come back  *)
(* from a pause and replaced registrations included.                         *)
THEOREM BindingsStayFenced == Spec => BindingsAreFenced
  <1>1. ASSUME IInv, [Next]_vars
        PROVE  [\A t \in turns' \ turns : \A b \in bound \cup turns : b.a = t.a => b.epoch <= t.epoch]_vars
    BY <1>1, SilenceStep
  <1>2. IInv => AnEpochIsOneBinding
    BY DEF IInv, Fenced
  <1> QED
    BY <1>1, <1>2, Invariance, PTL DEF Spec, BindingsAreFenced, TheOldBindingIsSilent

LEMMA EarnedIs == ASSUME IInv PROVE ScoresAreEarned
  <1>0. /\ mode \in {"external", "harness"} /\ turns \subseteq Held
        /\ past \subseteq Events
    BY ConstantsAssumption DEF IInv, TypeOK, mode, Held
  <1>1. CoveredWhenClosed
    BY <1>0 DEF IInv, Covered, CoveredWhenClosed, Is
  <1>2. mode = "harness" /\ Is("complete") /\ "cleared" \notin past => MayCount
    BY DEF IInv, Covered, MayCount, Is
  <1>3. OneTrajectory
    BY <1>0, <1>2 DEF IInv, Harnessed, OneTrajectory
  <1>4. DropsAreReported
    BY <1>2 DEF IInv, Harnessed, DropsAreReported, Is
  <1>5. RefusalVoidsTheScore
    BY DEF IInv, Refused, RefusalVoidsTheScore
  <1> QED
    BY <1>1, <1>3, <1>4, <1>5 DEF ScoresAreEarned

(* What counts as complete was captured: every declared attempt, one         *)
(* trajectory of each, no segment lost, nothing refused and nothing dropped  *)
(* in silence.                                                               *)
THEOREM ScoresStayEarned == Spec => []ScoresAreEarned
  BY Invariance, EarnedIs, PTL

(* The archive readers are pointed at says "complete", though the row may be *)
(* voided while it is copied and while it is attached.                       *)
THEOREM ArchivesSayComplete == Spec => []ArchiveSaysComplete
  <1>1. IInv => ArchiveSaysComplete
    BY DEF IInv, Attached, ArchiveSaysComplete
  <1> QED
    BY <1>1, Invariance, PTL

=============================================================================
