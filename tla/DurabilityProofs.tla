------------------------- MODULE DurabilityProofs -------------------------
(***************************************************************************)
(* Proofs about the two stores a session writes to, CheckpointStore and    *)
(* RecordSink.  First the checkpoints, for every set of session lifetimes  *)
(* and contents and every bound on numbers and faults: a COMMIT names a    *)
(* whole generation, a number is fresh, the files implement the register,  *)
(* and an unreadable COMMIT is written over only if it could not be set    *)
(* aside.  Then the sink, for any turns, callers, bounds and failures: an  *)
(* acknowledged record is final, losses are counted, archives are whole.   *)
(***************************************************************************)
EXTENDS CheckpointStore, RecordSink, WellFoundedInduction, TLAPS

(* A publication knows its record throughout, and its number once chosen. *)
OperationFits ==
    /\ op.at \in {"publishing", "pending", "named", "committed"} => op.rec \in Record
    /\ op.at \in {"pending", "named", "committed"} => op.gen \in Generations

(* What a publication has done so far is on disk: COMMIT never runs ahead  *)
(* of its generation, and reset takes COMMIT away before the generations.  *)
Progress ==
    /\ op.at \in {"named", "committed"} =>
          gens[op.gen] = [rec |-> op.rec, state |-> "whole"]
    /\ op.at = "committed" =>
          commit = [gen |-> op.gen, rec |-> op.rec, readable |-> TRUE]
    /\ op.at = "uncommitted" => commit = NoCommit

(* The generation COMMIT names is never pruned, only damaged. *)
CommitOnDisk == Committed => commit.gen \in OnDisk

(* A publication under way started from a COMMIT of its own lifetime. *)
OwnIncarnation ==
    op.at \in {"publishing", "pending", "named"} /\ Committed /\ commit.readable
        => commit.rec.inc = op.rec.inc

IInv ==
    /\ TypeOK
    /\ OperationFits
    /\ Progress
    /\ CommitOnDisk
    /\ OwnIncarnation
    /\ CommittedIsWhole
    /\ FreshNumber

-----------------------------------------------------------------------------
LEMMA InitInvariant == Init => IInv
  <1> SUFFICES ASSUME Init PROVE IInv
    OBVIOUS
  <1>1. TypeOK
    <2>1. present \in BOOLEAN
      BY Zenon DEF Init
    <2>2. op \in Operation
      BY BoundsAssumption DEF Init, Idle, Operation
    <2>3. floor \in 0 .. MaxGeneration /\ faults \in 0 .. MaxFaults
      BY BoundsAssumption DEF Init
    <2>4. refused \in BOOLEAN
      BY Zenon DEF Init
    <2> QED
      BY <2>1, <2>2, <2>3, <2>4 DEF Init, TypeOK
  <1>2. ~Committed /\ op.at = "idle"
    BY DEF Init, Committed, Idle
  <1> QED
    BY <1>1, <1>2 DEF IInv, OperationFits, Progress, CommitOnDisk, OwnIncarnation,
       CommittedIsWhole, FreshNumber

LEMMA DirectoryGoneTypes ==
    ASSUME DirectoryGone
    PROVE  /\ present' \in BOOLEAN
           /\ floor' \in 0 .. MaxGeneration
           /\ gens' \in [Generations -> Generation \cup {Absent}]
           /\ acked' \in Record \cup {Nothing}
           /\ commit' \in Commit \cup {NoCommit}
           /\ refused' \in BOOLEAN
  <1>1. present' \in BOOLEAN /\ refused' \in BOOLEAN
    BY Zenon DEF DirectoryGone
  <1>2. floor' \in 0 .. MaxGeneration
    BY BoundsAssumption DEF DirectoryGone
  <1> QED
    BY <1>1, <1>2 DEF DirectoryGone

(* What setting a directory aside does, whichever way it ends. *)
LEMMA SetAsideLeaves ==
    ASSUME IInv, SetAside
    PROVE  /\ present' \in BOOLEAN
           /\ floor' \in 0 .. MaxGeneration
           /\ gens' \in [Generations -> Generation \cup {Absent}]
           /\ acked' \in Record \cup {Nothing}
           /\ commit' \in Commit \cup {NoCommit}
           /\ refused' \in BOOLEAN
           /\ commit' = NoCommit \/ UNCHANGED <<dirVars, acked>>
  <1>1. CASE present /\ DirectoryGone
    BY <1>1, DirectoryGoneTypes DEF DirectoryGone
  <1>2. CASE refused' = TRUE /\ UNCHANGED <<dirVars, acked>>
    <2>1. refused' \in BOOLEAN
      BY <1>2, Zenon
    <2> QED
      BY <1>2, <2>1 DEF IInv, TypeOK, dirVars
  <1> QED
    BY <1>1, <1>2 DEF SetAside

LEMMA GenerationNumbers ==
    /\ Generations \subseteq Nat
    /\ Generations \subseteq 0 .. MaxGeneration
    /\ 0 \notin Generations
    /\ NoCommit \notin Commit
    /\ Absent \notin Generation
    /\ \A g, h \in Generations : g < h => g # h
  BY BoundsAssumption, NothingAssumption
     DEF Generations, NoCommit, Commit, Absent, Generation

LEMMA TypeStep == IInv /\ [Next]_vars => TypeOK'
  <1> SUFFICES ASSUME IInv, [Next]_vars PROVE TypeOK'
    OBVIOUS
  <1> USE BoundsAssumption, GenerationNumbers
  <1>1. ASSUME NEW r \in Record, Republish(r) PROVE TypeOK'
    BY <1>1 DEF IInv, TypeOK, Republish, dirVars
  <1>2. ASSUME NEW r \in Record, StartPublish(r) PROVE TypeOK'
    <2>1. op' \in Operation
      <3>1. PICK n \in 0 .. MaxGeneration :
               op' = [at |-> "publishing", rec |-> r, gen |-> n]
        <4>1. CASE Committed /\ commit.readable
          BY <1>2, <4>1 DEF IInv, TypeOK, StartPublish, Committed, Commit
        <4>2. CASE ~(Committed /\ commit.readable)
          BY <1>2, <4>2 DEF StartPublish
        <4> QED
          BY <4>1, <4>2
      <3> QED
        BY <3>1 DEF Operation
    <2>2. CASE Unreadable
      BY <1>2, <2>1, <2>2, SetAsideLeaves DEF IInv, TypeOK, StartPublish
    <2>3. CASE ~Unreadable
      BY <1>2, <2>1, <2>3 DEF IInv, TypeOK, StartPublish, dirVars
    <2> QED
      BY <2>2, <2>3
  <1>3. ASSUME NEW g \in Generations, WritePending(g) PROVE TypeOK'
    BY <1>3 DEF IInv, TypeOK, WritePending, Operation
  <1>4. CASE NameGeneration
    <2>1. [rec |-> op.rec, state |-> "whole"] \in Generation
      BY <1>4 DEF IInv, OperationFits, NameGeneration, Generation
    <2> QED
      BY <1>4, <2>1 DEF IInv, TypeOK, NameGeneration, Operation
  <1>5. CASE ReplaceCommit
    BY <1>5 DEF IInv, TypeOK, OperationFits, ReplaceCommit, Operation, Commit
  <1>6. CASE Prune
    BY <1>6 DEF IInv, TypeOK, OperationFits, Prune, Operation, Idle
  <1>7. CASE LoadDamaged \/ Quarantine
    BY <1>7, SetAsideLeaves DEF IInv, TypeOK, LoadDamaged, Quarantine
  <1>8. CASE Delete
    BY <1>8, DirectoryGoneTypes DEF IInv, TypeOK, Delete
  <1>9. CASE WriteFloor
    <2>1. PICK n \in 0 .. MaxGeneration :
             floor' = n /\ op' = [Idle EXCEPT !.at = "resetting", !.gen = n]
      BY <1>9 DEF IInv, TypeOK, WriteFloor, OnDisk, Committed, Commit
    <2>2. op' \in Operation
      BY <2>1 DEF Idle, Operation
    <2> QED
      BY <1>9, <2>1, <2>2 DEF IInv, TypeOK, WriteFloor
  <1>10. CASE UnlinkCommit
    BY <1>10 DEF IInv, TypeOK, UnlinkCommit, Operation
  <1>11. CASE RetireGenerations
    BY <1>11 DEF IInv, TypeOK, RetireGenerations, Operation, Idle
  <1>12. CASE Crash
    BY <1>12 DEF IInv, TypeOK, Crash, Operation, Idle, dirVars
  <1>13. CASE Damage
    <2>1. commit' \in Commit \cup {NoCommit}
      BY <1>13 DEF IInv, TypeOK, Damage, Committed, Commit
    <2>2. gens' \in [Generations -> Generation \cup {Absent}]
      <3>1. commit.gen \in Generations /\ gens[commit.gen] \in Generation \cup {Absent}
        BY <1>13 DEF IInv, TypeOK, Damage, Committed, Commit
      <3>2. gens[commit.gen].state # "absent" => gens[commit.gen] \in Generation
        BY <3>1 DEF Absent
      <3>3. \A s \in {"incomplete", "corrupt"} : gens[commit.gen] \in Generation =>
               [gens[commit.gen] EXCEPT !.state = s] \in Generation
        BY DEF Generation
      <3> QED
        BY <1>13, <3>1, <3>2, <3>3 DEF IInv, TypeOK, Damage
    <2>3. faults' \in 0 .. MaxFaults /\ acked' \in Record \cup {Nothing}
      BY <1>13 DEF IInv, TypeOK, Damage
    <2> QED
      BY <1>13, <2>1, <2>2, <2>3 DEF IInv, TypeOK, Damage
  <1>14. CASE UNCHANGED vars
    BY <1>14 DEF IInv, TypeOK, vars
  <1> QED
    BY <1>1, <1>2, <1>3, <1>4, <1>5, <1>6, <1>7, <1>8, <1>9, <1>10, <1>11, <1>12,
       <1>13, <1>14 DEF Next, Publish, Reset

-----------------------------------------------------------------------------
(* Three ways a step keeps most of the invariant: it ends the operation,   *)
(* it leaves no COMMIT, or it touches neither COMMIT nor the generations.  *)
LEMMA AtRest ==
    ASSUME op' = Idle
    PROVE  OperationFits' /\ Progress' /\ OwnIncarnation' /\ FreshNumber'
  BY DEF Idle, OperationFits, Progress, OwnIncarnation, FreshNumber

LEMMA WithoutCommit ==
    ASSUME commit' = NoCommit
    PROVE  CommitOnDisk' /\ CommittedIsWhole' /\ OwnIncarnation'
  BY DEF CommitOnDisk, CommittedIsWhole, OwnIncarnation, Committed

LEMMA SameFiles ==
    ASSUME IInv, UNCHANGED <<commit, gens, faults>>
    PROVE  CommitOnDisk' /\ CommittedIsWhole'
  BY DEF IInv, CommitOnDisk, CommittedIsWhole, Committed, Loadable, OnDisk

LEMMA PublishStep == IInv /\ Publish /\ TypeOK' => IInv'
  <1> SUFFICES ASSUME IInv, Publish, TypeOK' PROVE IInv'
    OBVIOUS
  <1> USE GenerationNumbers
  <1>1. ASSUME NEW r \in Record, Republish(r) PROVE IInv'
    <2>1. op' = Idle /\ UNCHANGED <<commit, gens, faults>>
      BY <1>1 DEF Republish, dirVars
    <2> QED
      BY <2>1, AtRest, SameFiles DEF IInv
  <1>2. ASSUME NEW r \in Record, StartPublish(r) PROVE IInv'
    <2>1. op'.at = "publishing" /\ op'.rec = r /\ UNCHANGED faults
      BY <1>2 DEF StartPublish
    <2>2. commit' = NoCommit \/ UNCHANGED <<commit, gens>>
      BY <1>2, SetAsideLeaves DEF StartPublish, dirVars
    <2>3. OperationFits' /\ Progress' /\ FreshNumber'
      BY <2>1 DEF OperationFits, Progress, FreshNumber
    <2>4. OwnIncarnation'
      BY <1>2, <2>1, <2>2 DEF StartPublish, OwnIncarnation, Committed
    <2> QED
      BY <2>1, <2>2, <2>3, <2>4, WithoutCommit, SameFiles DEF IInv
  <1>3. ASSUME NEW g \in Generations, WritePending(g) PROVE IInv'
    <2>1. op.at = "publishing" /\ op' = [op EXCEPT !.at = "pending", !.gen = g]
          /\ UNCHANGED <<floor, commit, gens, faults>>
      BY <1>3 DEF WritePending
    <2>2. op'.at = "pending" /\ op'.rec = op.rec /\ op'.gen = g
      BY <2>1 DEF IInv, TypeOK, Operation
    <2>3. OperationFits' /\ Progress' /\ OwnIncarnation'
      BY <2>1, <2>2
         DEF IInv, OperationFits, Progress, OwnIncarnation, Committed
    <2>4. FreshNumber'
      <3>1. floor < g /\ \A n \in OnDisk : n < g
        BY <1>3 DEF WritePending, Numbered
      <3>2. Committed => commit.gen < g
        BY <3>1 DEF IInv, CommitOnDisk
      <3> QED
        BY <2>1, <2>2, <3>1, <3>2 DEF FreshNumber, Committed, OnDisk
    <2> QED
      BY <2>1, <2>3, <2>4, SameFiles DEF IInv
  <1>4. CASE NameGeneration
    <2> DEFINE whole == [rec |-> op.rec, state |-> "whole"]
    <2>1. /\ op.at = "pending" /\ op.gen \in Generations /\ op.rec \in Record
          /\ UNCHANGED <<floor, commit, faults>>
          /\ gens' = [gens EXCEPT ![op.gen] = whole]
      BY <1>4 DEF NameGeneration, IInv, OperationFits
    <2>2. op'.at = "named" /\ op'.rec = op.rec /\ op'.gen = op.gen
      BY <1>4 DEF NameGeneration, IInv, TypeOK, Operation
    <2>3. gens'[op.gen] = whole /\ \A g \in Generations \ {op.gen} : gens'[g] = gens[g]
      BY <2>1 DEF IInv, TypeOK
    <2>4. Committed => commit.gen \in Generations /\ commit.gen # op.gen
      <3>1. Committed => commit.gen \in Generations /\ commit.gen < op.gen
        BY <2>1 DEF IInv, TypeOK, FreshNumber, Committed, Commit
      <3> QED
        BY <2>1, <3>1
    <2>5. OperationFits' /\ Progress' /\ OwnIncarnation'
      BY <2>1, <2>2, <2>3
         DEF IInv, OperationFits, Progress, OwnIncarnation, Committed
    <2>6. CommitOnDisk' /\ CommittedIsWhole'
      BY <2>1, <2>3, <2>4
         DEF IInv, CommitOnDisk, CommittedIsWhole, Loadable, Committed, OnDisk
    <2>7. FreshNumber'
      <3>1. floor < op.gen /\ (Committed => commit.gen < op.gen)
        BY <2>1 DEF IInv, FreshNumber
      <3>2. \A g \in Generations : gens[g].state # "absent" => g < op.gen
        BY <2>1 DEF IInv, FreshNumber, OnDisk
      <3>3. \A g \in OnDisk' : g < op.gen \/ g = op.gen
        BY <2>3, <3>2 DEF OnDisk
      <3> QED
        BY <2>1, <2>2, <3>1, <3>3 DEF FreshNumber, Committed
    <2> QED
      BY <2>5, <2>6, <2>7 DEF IInv
  <1>5. CASE ReplaceCommit
    <2>1. /\ op.at = "named" /\ op.gen \in Generations /\ op.rec \in Record
          /\ UNCHANGED <<gens, faults>>
          /\ commit' = [gen |-> op.gen, rec |-> op.rec, readable |-> TRUE]
          /\ gens[op.gen] = [rec |-> op.rec, state |-> "whole"]
      BY <1>5 DEF ReplaceCommit, IInv, OperationFits, Progress
    <2>2. op'.at = "committed" /\ op'.rec = op.rec /\ op'.gen = op.gen
      BY <1>5 DEF ReplaceCommit, IInv, TypeOK, Operation
    <2>3. OperationFits' /\ Progress' /\ OwnIncarnation' /\ FreshNumber'
      BY <2>1, <2>2 DEF OperationFits, Progress, OwnIncarnation, FreshNumber
    <2>4. CommitOnDisk' /\ CommittedIsWhole'
      BY <2>1 DEF CommitOnDisk, CommittedIsWhole, Loadable, Committed, OnDisk
    <2> QED
      BY <2>3, <2>4 DEF IInv
  <1>6. CASE Prune
    <2>1. /\ op.at = "committed" /\ op.gen \in Generations /\ op' = Idle
          /\ commit.gen = op.gen
          /\ gens[op.gen] = [rec |-> op.rec, state |-> "whole"]
          /\ UNCHANGED <<commit, faults>>
          /\ gens'[op.gen] = gens[op.gen]
      BY <1>6 DEF Prune, IInv, OperationFits, Progress
    <2>2. CommitOnDisk' /\ CommittedIsWhole'
      BY <2>1 DEF IInv, CommitOnDisk, CommittedIsWhole, Loadable, Committed, OnDisk
    <2> QED
      BY <2>1, <2>2, AtRest DEF IInv
  <1> QED
    BY <1>1, <1>2, <1>3, <1>4, <1>5, <1>6 DEF Publish

LEMMA OtherStep ==
    IInv /\ (LoadDamaged \/ Quarantine \/ Delete \/ Reset \/ Crash \/ Damage) /\ TypeOK'
        => IInv'
  <1> SUFFICES ASSUME IInv, TypeOK',
                      LoadDamaged \/ Quarantine \/ Delete \/ Reset \/ Crash \/ Damage
               PROVE  IInv'
    OBVIOUS
  <1>1. CASE LoadDamaged \/ Quarantine \/ Delete
    <2>1. op' = Idle /\ UNCHANGED faults
      BY <1>1 DEF LoadDamaged, Quarantine, Delete
    <2>2. commit' = NoCommit \/ UNCHANGED <<commit, gens>>
      BY <1>1, SetAsideLeaves DEF LoadDamaged, Quarantine, Delete, DirectoryGone, dirVars
    <2> QED
      BY <2>1, <2>2, AtRest, WithoutCommit, SameFiles DEF IInv
  <1>2. CASE WriteFloor
    <2>1. op'.at = "resetting" /\ UNCHANGED <<commit, gens, faults>>
      BY <1>2 DEF WriteFloor, Idle
    <2> QED
      BY <2>1, SameFiles
         DEF IInv, OperationFits, Progress, OwnIncarnation, FreshNumber
  <1>3. CASE UnlinkCommit
    <2>1. op'.at = "uncommitted" /\ commit' = NoCommit
      BY <1>3 DEF UnlinkCommit, IInv, TypeOK, Operation
    <2> QED
      BY <2>1, WithoutCommit
         DEF IInv, OperationFits, Progress, OwnIncarnation, FreshNumber
  <1>4. CASE RetireGenerations
    <2>1. op' = Idle /\ commit' = NoCommit
      BY <1>4 DEF RetireGenerations, IInv, Progress
    <2> QED
      BY <2>1, AtRest, WithoutCommit DEF IInv
  <1>5. CASE Crash
    <2>1. op' = Idle /\ UNCHANGED <<commit, gens, faults>>
      BY <1>5 DEF Crash, dirVars
    <2> QED
      BY <2>1, AtRest, SameFiles DEF IInv
  <1>6. CASE Damage
    <2>1. op' = Idle /\ faults' # 0 /\ Committed /\ commit.gen \in OnDisk
      BY <1>6 DEF Damage, IInv, TypeOK, CommitOnDisk
    <2>2. commit'.gen = commit.gen
      BY <1>6 DEF Damage, IInv, TypeOK, Committed, Commit
    <2>3. gens'[commit.gen].state # "absent"
      <3>1. gens[commit.gen] \in Generation
        BY <2>1 DEF IInv, TypeOK, OnDisk, Absent
      <3> QED
        BY <1>6, <2>1, <3>1 DEF Damage, IInv, TypeOK, OnDisk, Generation
    <2>4. CommitOnDisk' /\ CommittedIsWhole'
      BY <2>1, <2>2, <2>3 DEF CommitOnDisk, CommittedIsWhole, OnDisk
    <2> QED
      BY <2>1, <2>4, AtRest DEF IInv
  <1> QED
    BY <1>1, <1>2, <1>3, <1>4, <1>5, <1>6 DEF Reset

LEMMA Inductive == IInv /\ [Next]_vars => IInv'
  <1> SUFFICES ASSUME IInv, [Next]_vars PROVE IInv'
    OBVIOUS
  <1>1. TypeOK'
    BY TypeStep
  <1>2. CASE UNCHANGED vars
    BY <1>1, <1>2, SameFiles
       DEF vars, IInv, OperationFits, Progress, OwnIncarnation, FreshNumber,
           Committed, OnDisk
  <1> QED
    BY <1>1, <1>2, PublishStep, OtherStep DEF Next

LEMMA Invariance == Spec => []IInv
  <1> QED
    BY InitInvariant, Inductive, PTL DEF Spec

-----------------------------------------------------------------------------
(* Every variable keeps its type: in particular a publication that started *)
(* has a record to publish and never leaves the numbers it may use.        *)
THEOREM TypeCorrect == Spec => []TypeOK
  <1>1. IInv => TypeOK
    BY DEF IInv
  <1> QED
    BY <1>1, Invariance, PTL

(* publish is crash-atomic (checkpoint_store.py:753-755): wherever the     *)
(* process dies, COMMIT names a generation that is whole and its own.      *)
THEOREM CommitIsAtomic == Spec => []CommittedIsWhole
  <1>1. IInv => CommittedIsWhole
    BY DEF IInv
  <1> QED
    BY <1>1, Invariance, PTL

(* _next_generation never hands out a number that is on disk, committed,   *)
(* or below the floor, whatever crashes and failed quarantines left there. *)
THEOREM NumbersAreFresh == Spec => []FreshNumber
  <1>1. IInv => FreshNumber
    BY DEF IInv
  <1> QED
    BY <1>1, Invariance, PTL

-----------------------------------------------------------------------------
(* The refinement.  A step is invisible if it changes neither the record a *)
(* reader would load nor the promise.                                      *)
LEMMA LoadedRecord == IInv => (Loaded # Nothing <=> Loadable)
  BY NothingAssumption DEF IInv, TypeOK, Loaded, Loadable, Committed, Commit

LEMMA Invisible ==
    ASSUME Loaded' = Loaded, acked' = acked
    PROVE  [Register!Next]_(Register!registerVars)
  BY DEF Register!registerVars

LEMMA SameLoaded ==
    ASSUME UNCHANGED <<commit, gens>>
    PROVE  Loaded' = Loaded
  BY DEF Loaded, Loadable, Committed

LEMMA Gone ==
    ASSUME commit' = NoCommit, acked' = Nothing
    PROVE  [Register!Next]_(Register!registerVars)
  BY DEF Loaded, Loadable, Committed, Register!Next, Register!GiveUp

LEMMA SetAsideRefines ==
    ASSUME SetAside
    PROVE  [Register!Next]_(Register!registerVars)
  <1>1. CASE DirectoryGone
    BY <1>1, Gone DEF DirectoryGone
  <1>2. CASE UNCHANGED <<dirVars, acked>>
    BY <1>2, SameLoaded, Invisible DEF dirVars
  <1> QED
    BY <1>1, <1>2 DEF SetAside

LEMMA PublishRefines ==
    IInv /\ Publish => [Register!Next]_(Register!registerVars)
  <1> SUFFICES ASSUME IInv, Publish PROVE [Register!Next]_(Register!registerVars)
    OBVIOUS
  <1>1. ASSUME NEW r \in Record, Republish(r)
        PROVE  [Register!Next]_(Register!registerVars)
    <2>1. Loaded' = Loaded /\ commit.rec = r
      BY <1>1, SameLoaded DEF Republish, dirVars
    <2>2. CASE Loadable
      <3>1. Register!Acknowledge
        BY <1>1, <2>1, <2>2, LoadedRecord DEF Republish, Loaded, Register!Acknowledge
      <3> QED
        BY <3>1 DEF Register!Next
    <2>3. CASE ~Loadable
      BY <1>1, <2>1, <2>3, Invisible DEF Republish
    <2> QED
      BY <2>2, <2>3
  <1>2. ASSUME NEW r \in Record, StartPublish(r)
        PROVE  [Register!Next]_(Register!registerVars)
    <2>1. SetAside \/ UNCHANGED <<dirVars, acked>>
      BY <1>2 DEF StartPublish
    <2> QED
      BY <2>1, SetAsideRefines, SameLoaded, Invisible DEF dirVars
  <1>3. ASSUME NEW g \in Generations, WritePending(g)
        PROVE  [Register!Next]_(Register!registerVars)
    BY <1>3, SameLoaded, Invisible DEF WritePending
  <1>4. CASE NameGeneration
    <2>1. op.at = "pending" /\ acked' = acked /\ commit' = commit
          /\ gens' = [gens EXCEPT ![op.gen] = [rec |-> op.rec, state |-> "whole"]]
      BY <1>4 DEF NameGeneration
    <2>2. Committed => commit.gen \in Generations /\ commit.gen # op.gen
      <3>1. Committed => commit.gen \in Generations /\ commit.gen < op.gen
        BY <2>1 DEF IInv, TypeOK, FreshNumber, Committed, Commit
      <3>2. op.gen \in Generations
        BY <2>1 DEF IInv, OperationFits
      <3> QED
        BY <3>1, <3>2, GenerationNumbers
    <2>3. Committed => gens'[commit.gen] = gens[commit.gen]
      BY <2>1, <2>2 DEF IInv, TypeOK
    <2>4. Loaded' = Loaded
      BY <2>1, <2>3 DEF Loaded, Loadable, Committed
    <2> QED
      BY <2>1, <2>4, Invisible
  <1>5. CASE ReplaceCommit
    <2>1. /\ op.at = "named" /\ op.gen \in Generations /\ op.rec \in Record
          /\ gens' = gens /\ acked' = acked
          /\ commit' = [gen |-> op.gen, rec |-> op.rec, readable |-> TRUE]
          /\ gens[op.gen] = [rec |-> op.rec, state |-> "whole"]
      BY <1>5 DEF ReplaceCommit, IInv, OperationFits, Progress
    <2>2. Loaded' = op.rec
      BY <2>1, GenerationNumbers DEF Loaded, Loadable, Committed, NoCommit
    <2>3. Loaded # Nothing => Loaded.inc = op.rec.inc
      BY <2>1, LoadedRecord DEF IInv, OwnIncarnation, Loaded, Loadable
    <2>4. Register!Save(op.rec)
      BY <2>1, <2>2, <2>3 DEF Register!Save
    <2>5. op.rec \in Register!Record
      BY <2>1 DEF Record, Register!Record
    <2> QED
      BY <2>4, <2>5 DEF Register!Next
  <1>6. CASE Prune
    <2>1. /\ op.at = "committed" /\ op.gen \in Generations /\ op.rec \in Record
          /\ commit' = commit /\ acked' = op.rec
          /\ commit = [gen |-> op.gen, rec |-> op.rec, readable |-> TRUE]
          /\ gens[op.gen] = [rec |-> op.rec, state |-> "whole"]
          /\ gens'[op.gen] = gens[op.gen]
      BY <1>6 DEF Prune, IInv, OperationFits, Progress
    <2>2. Loaded = op.rec /\ Loaded' = op.rec
      BY <2>1, GenerationNumbers DEF Loaded, Loadable, Committed, NoCommit
    <2>3. Register!Acknowledge
      BY <2>1, <2>2, NothingAssumption DEF Register!Acknowledge
    <2> QED
      BY <2>3 DEF Register!Next
  <1> QED
    BY <1>1, <1>2, <1>3, <1>4, <1>5, <1>6 DEF Publish

LEMMA OtherRefines ==
    IInv /\ (LoadDamaged \/ Quarantine \/ Delete \/ Reset \/ Crash \/ Damage)
        => [Register!Next]_(Register!registerVars)
  <1> SUFFICES ASSUME IInv,
                      LoadDamaged \/ Quarantine \/ Delete \/ Reset \/ Crash \/ Damage
               PROVE  [Register!Next]_(Register!registerVars)
    OBVIOUS
  <1>1. CASE LoadDamaged \/ Quarantine
    BY <1>1, SetAsideRefines DEF LoadDamaged, Quarantine
  <1>2. CASE Delete
    BY <1>2, Gone DEF Delete, DirectoryGone
  <1>3. CASE WriteFloor \/ Crash
    BY <1>3, SameLoaded, Invisible DEF WriteFloor, Crash, dirVars
  <1>4. CASE UnlinkCommit
    BY <1>4, Gone DEF UnlinkCommit
  <1>5. CASE RetireGenerations
    <2>1. commit = NoCommit /\ commit' = NoCommit /\ acked' = acked
      BY <1>5 DEF RetireGenerations, IInv, Progress
    <2>2. Loaded = Nothing /\ Loaded' = Nothing
      BY <2>1 DEF Loaded, Loadable, Committed
    <2> QED
      BY <2>1, <2>2, Invisible
  <1>6. CASE Damage
    <2>1. Committed /\ commit \in Commit /\ acked' = Nothing
      BY <1>6 DEF Damage, IInv, TypeOK, Committed
    <2>2. ~Loadable'
      <3>1. CASE commit' = [commit EXCEPT !.readable = FALSE]
        BY <2>1, <3>1 DEF Loadable, Commit
      <3>2. ASSUME NEW s \in {"incomplete", "corrupt"},
                   gens[commit.gen].state # "absent", commit' = commit,
                   gens' = [gens EXCEPT ![commit.gen].state = s]
            PROVE  ~Loadable'
        <4>1. commit.gen \in Generations /\ gens[commit.gen] \in Generation
          BY <2>1, <3>2 DEF IInv, TypeOK, Commit, Absent
        <4>2. gens'[commit.gen].state = s
          BY <3>2, <4>1 DEF IInv, TypeOK, Generation
        <4> QED
          BY <3>2, <4>2 DEF Loadable
      <3> QED
        BY <1>6, <3>1, <3>2 DEF Damage
    <2> QED
      BY <2>1, <2>2 DEF Loaded, Register!Next, Register!GiveUp
  <1> QED
    BY <1>1, <1>2, <1>3, <1>4, <1>5, <1>6 DEF Reset

(* The files of a channel implement the register: whatever crashes, a      *)
(* reader finds the old record or the new one, and a finished publication  *)
(* keeps its promise until the record is given up.                         *)
THEOREM FilesImplementRegister == Spec => ImplementsRegister
  <1>1. Init => Register!Init
    BY DEF Init, Register!Init, Loaded, Loadable, Committed
  <1>2. IInv /\ [Next]_vars => [Register!Next]_(Register!registerVars)
    <2>1. UNCHANGED vars => [Register!Next]_(Register!registerVars)
      BY SameLoaded, Invisible DEF vars
    <2> QED
      BY <2>1, PublishRefines, OtherRefines DEF Next
  <1> QED
    BY <1>1, <1>2, Invariance, PTL DEF Spec, ImplementsRegister, Register!Spec

-----------------------------------------------------------------------------
(* Evidence.  What a publication that has begun finds in front of it is    *)
(* readable, or could not be set aside.                                    *)
ClearedTheWay ==
    op.at \in {"publishing", "pending", "named"} /\ Unreadable => refused

LEMMA ClearedInductive ==
    IInv /\ ClearedTheWay /\ [Next]_vars => ClearedTheWay'
  <1> SUFFICES ASSUME IInv, ClearedTheWay, [Next]_vars
               PROVE  ClearedTheWay'
    OBVIOUS
  <1>1. ASSUME NEW r \in Record, StartPublish(r) PROVE ClearedTheWay'
    <2>1. CASE Unreadable
      BY <1>1, <2>1 DEF StartPublish, SetAside, DirectoryGone, ClearedTheWay,
         Unreadable, Committed
    <2>2. CASE ~Unreadable
      BY <1>1, <2>2 DEF StartPublish, dirVars, ClearedTheWay, Unreadable, Committed
    <2> QED
      BY <2>1, <2>2
  <1>2. ASSUME NEW g \in Generations, WritePending(g) PROVE ClearedTheWay'
    BY <1>2 DEF WritePending, ClearedTheWay, Unreadable, Committed
  <1>3. CASE NameGeneration
    BY <1>3 DEF NameGeneration, ClearedTheWay, Unreadable, Committed
  <1>4. CASE ReplaceCommit \/ UnlinkCommit \/ WriteFloor
    BY <1>4 DEF ReplaceCommit, UnlinkCommit, WriteFloor, Idle, ClearedTheWay,
       IInv, TypeOK, Operation
  <1>5. ASSUME op' = Idle PROVE ClearedTheWay'
    BY <1>5 DEF Idle, ClearedTheWay
  <1>6. CASE UNCHANGED vars
    BY <1>6 DEF vars, ClearedTheWay, Unreadable, Committed
  <1> QED
    BY <1>1, <1>2, <1>3, <1>4, <1>5, <1>6
       DEF Next, Publish, Reset, Republish, Prune, LoadDamaged, Quarantine, Delete,
           RetireGenerations, Crash, Damage

LEMMA EvidenceStep ==
    IInv /\ ClearedTheWay /\ [Next]_vars
        => [Unreadable /\ commit' # commit =>
               ~present' \/ op.at = "resetting" \/ refused]_vars
  <1> SUFFICES ASSUME IInv, ClearedTheWay, Next, Unreadable, commit' # commit, ~refused
               PROVE  ~present' \/ op.at = "resetting"
    OBVIOUS
  <1>1. CASE Publish
    <2>1. ASSUME NEW r \in Record, StartPublish(r) PROVE ~present'
      BY <1>1, <2>1 DEF StartPublish, SetAside, DirectoryGone, dirVars
    <2>2. ~ReplaceCommit
      BY DEF ReplaceCommit, ClearedTheWay
    <2> QED
      BY <1>1, <2>1, <2>2
         DEF Publish, Republish, WritePending, NameGeneration, Prune, dirVars
  <1>2. CASE LoadDamaged \/ Quarantine \/ Delete
    BY <1>2 DEF LoadDamaged, Quarantine, Delete, SetAside, DirectoryGone, dirVars
  <1>3. CASE Reset \/ Crash
    BY <1>3 DEF Reset, WriteFloor, UnlinkCommit, RetireGenerations, Crash, dirVars
  <1>4. CASE Damage
    <2>1. commit \in Commit /\ commit.readable = FALSE
      BY DEF IInv, TypeOK, Unreadable, Committed, Commit
    <2>2. [commit EXCEPT !.readable = FALSE] = commit
      BY <2>1 DEF Commit
    <2> QED
      BY <1>4, <2>2 DEF Damage
  <1> QED
    BY <1>1, <1>2, <1>3, <1>4 DEF Next

(* A COMMIT that cannot be read leaves only with its directory, at a       *)
(* reset, or under a publication that the disk did not let set it aside:   *)
(* what _read_commit_for_write sees to (checkpoint_store.py:1438-1461).    *)
THEOREM EvidenceIsKept == Spec => EvidencePreserved
  <1>1. Init => ClearedTheWay
    BY DEF Init, Idle, ClearedTheWay
  <1>2. IInv /\ ClearedTheWay /\ [Next]_vars => ClearedTheWay'
    BY ClearedInductive
  <1> QED
    BY <1>1, <1>2, EvidenceStep, Invariance, PTL DEF Spec, EvidencePreserved

----------------------------------------------------------------------------
(* RecordSink.                                                                *)

(* Induction on the natural numbers, over a set: a least number outside of it *)
(* has a predecessor inside.                                                  *)
LEMMA NumbersByInduction ==
    ASSUME NEW S, 0 \in S, \A n \in Nat : n \in S => n + 1 \in S
    PROVE  Nat \subseteq S
  <1> DEFINE T == Nat \ S
  <1>1. SUFFICES ASSUME T # {} PROVE FALSE
    OBVIOUS
  <1>2. T \subseteq Nat
    OBVIOUS
  <1>3. PICK x \in T : \A y \in T : <<y, x>> \notin OpToRel(<, Nat)
    BY <1>1, <1>2, WFMin, NatLessThanWellFounded
  <1>4. \A y \in T : ~(y < x)
    BY <1>3 DEF OpToRel
  <1>5. x \in Nat /\ x # 0
    BY <1>3
  <1>6. x - 1 \in Nat /\ x - 1 < x
    BY <1>5
  <1>7. x - 1 \in S
    BY <1>4, <1>6
  <1>8. (x - 1) + 1 \in S
    BY <1>6, <1>7
  <1>9. x \in S
    BY <1>5, <1>8
  <1> QED
    BY <1>9

(* What a sifting keeps is defined along the sequence. *)
LEMMA SiftingIsDefined ==
    ASSUME NEW T, NEW s \in Seq(T), NEW wanted
    PROVE  Sifted(s, wanted) =
               [n \in 0..Len(s) |->
                   IF n = 0 THEN <<>>
                   ELSE IF s[n] \in wanted THEN Append(Sifted(s, wanted)[n - 1], s[n])
                        ELSE Sifted(s, wanted)[n - 1]]
  <1> DEFINE G(g, n) == IF n = 0 THEN <<>>
                        ELSE IF s[n] \in wanted THEN Append(g[n - 1], s[n]) ELSE g[n - 1]
             Defines(n, g) == g = [i \in 0..n |-> G(g, i)]
             S == {n \in Nat : \E g : Defines(n, g)}
  <1>1. 0 \in S
    <2> DEFINE g == [i \in 0..0 |-> <<>>]
    <2>1. g = [i \in 0..0 |-> G(g, i)]
      OBVIOUS
    <2> QED
      BY <2>1
  <1>2. ASSUME NEW n \in Nat, n \in S PROVE n + 1 \in S
    <2>1. PICK g : Defines(n, g)
      BY <1>2
    <2> DEFINE h == [i \in 0..(n + 1) |-> G(g, i)]
    <2>2. ASSUME NEW i \in 0..(n + 1), i # 0 PROVE h[i - 1] = g[i - 1]
      <3>1. i - 1 \in 0..n /\ i - 1 \in 0..(n + 1)
        BY <2>2
      <3>2. g[i - 1] = G(g, i - 1)
        BY <2>1, <3>1
      <3> HIDE DEF G
      <3> QED
        BY <3>1, <3>2
    <2>3. \A i \in 0..(n + 1) : G(g, i) = G(h, i)
      BY <2>2
    <2>4. h = [i \in 0..(n + 1) |-> G(h, i)]
      <3> HIDE DEF G
      <3> QED
        BY <2>3
    <2> HIDE DEF h, G
    <2>5. Defines(n + 1, h)
      BY <2>4
    <2>6. n + 1 \in Nat
      OBVIOUS
    <2> HIDE DEF Defines
    <2> QED
      BY <2>5, <2>6
  <1> HIDE DEF S
  <1>3. Nat \subseteq S
    BY <1>1, <1>2, NumbersByInduction
  <1>4. Len(s) \in Nat
    OBVIOUS
  <1>5. \E g : Defines(Len(s), g)
    BY <1>3, <1>4 DEF S
  <1> HIDE DEF G
  <1>6. Sifted(s, wanted) = CHOOSE g : Defines(Len(s), g)
    BY Zenon DEF Sifted, G
  <1>7. Defines(Len(s), Sifted(s, wanted))
    BY <1>5, <1>6, Zenon
  <1> QED
    BY <1>7, Zenon DEF G

(* The elements of a sequence that was put together or taken apart. *)
LEMMA AppendsToSet ==
    ASSUME NEW T, NEW s \in Seq(T), NEW x \in T
    PROVE  ToSet(Append(s, x)) = ToSet(s) \cup {x}
  <1>1. DOMAIN Append(s, x) = DOMAIN s \cup {Len(s) + 1}
    OBVIOUS
  <1>2. \A i \in DOMAIN s : Append(s, x)[i] = s[i]
    OBVIOUS
  <1>3. Append(s, x)[Len(s) + 1] = x
    OBVIOUS
  <1> QED
    BY <1>1, <1>2, <1>3 DEF ToSet

LEMMA JoinsSets ==
    ASSUME NEW T, NEW s \in Seq(T), NEW u \in Seq(T)
    PROVE  ToSet(s \o u) = ToSet(s) \cup ToSet(u)
  <1>1. ToSet(s) \cup ToSet(u) \subseteq ToSet(s \o u)
    <2>1. ASSUME NEW i \in DOMAIN s PROVE s[i] \in ToSet(s \o u)
      <3>1. i \in DOMAIN (s \o u) /\ (s \o u)[i] = s[i]
        OBVIOUS
      <3> QED
        BY <3>1 DEF ToSet
    <2>2. ASSUME NEW i \in DOMAIN u PROVE u[i] \in ToSet(s \o u)
      <3>1. Len(s) + i \in DOMAIN (s \o u) /\ (s \o u)[Len(s) + i] = u[i]
        OBVIOUS
      <3> QED
        BY <3>1 DEF ToSet
    <2> QED
      BY <2>1, <2>2 DEF ToSet
  <1>2. ASSUME NEW i \in DOMAIN (s \o u) PROVE (s \o u)[i] \in ToSet(s) \cup ToSet(u)
    <2>1. CASE i <= Len(s)
      BY <2>1 DEF ToSet
    <2>2. CASE i > Len(s)
      <3>1. i - Len(s) \in DOMAIN u /\ (s \o u)[i] = u[i - Len(s)]
        BY <2>2
      <3> QED
        BY <3>1 DEF ToSet
    <2> QED
      BY <2>1, <2>2
  <1> QED
    BY <1>1, <1>2 DEF ToSet

LEMMA TakesFromSet ==
    ASSUME NEW T, NEW s \in Seq(T), s # <<>>
    PROVE  /\ Head(s) \in T /\ Tail(s) \in Seq(T) /\ Len(Tail(s)) = Len(s) - 1
           /\ ToSet(s) = {Head(s)} \cup ToSet(Tail(s))
  <1>1. Head(s) = s[1] /\ 1 \in DOMAIN s /\ Len(Tail(s)) = Len(s) - 1
    OBVIOUS
  <1>2. ASSUME NEW i \in DOMAIN s PROVE s[i] \in {Head(s)} \cup ToSet(Tail(s))
    <2>1. CASE i # 1
      <3>1. i - 1 \in DOMAIN Tail(s) /\ Tail(s)[i - 1] = s[i]
        BY <2>1
      <3> QED
        BY <3>1 DEF ToSet
    <2> QED
      BY <1>1, <2>1
  <1>3. ASSUME NEW i \in DOMAIN Tail(s) PROVE Tail(s)[i] \in ToSet(s)
    <2>1. i + 1 \in DOMAIN s /\ Tail(s)[i] = s[i + 1]
      OBVIOUS
    <2> QED
      BY <2>1 DEF ToSet
  <1> QED
    BY <1>1, <1>2, <1>3 DEF ToSet

LEMMA StartsOfSequences ==
    ASSUME NEW T, NEW s \in Seq(T), NEW n \in 0..Len(s)
    PROVE  SubSeq(s, 1, n) \in Seq(T) /\ Len(SubSeq(s, 1, n)) = n
           /\ ToSet(SubSeq(s, 1, n)) \subseteq ToSet(s)
  <1>1. /\ SubSeq(s, 1, n) \in Seq(T) /\ Len(SubSeq(s, 1, n)) = n
        /\ \A i \in 1..n : SubSeq(s, 1, n)[i] = s[i]
    OBVIOUS
  <1> QED
    BY <1>1 DEF ToSet

(* A sifting keeps exactly what is wanted, and makes nothing longer. *)
LEMMA SiftKeepsTheWanted ==
    ASSUME NEW T, NEW s \in Seq(T), NEW wanted
    PROVE  /\ Sift(s, wanted) \in Seq(T) /\ Len(Sift(s, wanted)) <= Len(s)
           /\ ToSet(Sift(s, wanted)) = ToSet(s) \cap wanted
  <1> DEFINE kept == Sifted(s, wanted)
             Right(n) == /\ kept[n] \in Seq(T) /\ Len(kept[n]) <= n
                         /\ ToSet(kept[n]) = {s[i] : i \in 1..n} \cap wanted
             S == {n \in Nat : n <= Len(s) => Right(n)}
  <1>1. /\ kept[0] = <<>>
        /\ \A n \in 1..Len(s) : kept[n] = IF s[n] \in wanted THEN Append(kept[n - 1], s[n])
                                          ELSE kept[n - 1]
    <2>1. kept = [n \in 0..Len(s) |->
                    IF n = 0 THEN <<>>
                    ELSE IF s[n] \in wanted THEN Append(kept[n - 1], s[n]) ELSE kept[n - 1]]
      BY SiftingIsDefined
    <2> HIDE DEF kept
    <2>2. \A n \in 0..Len(s) :
              kept[n] = IF n = 0 THEN <<>>
                        ELSE IF s[n] \in wanted THEN Append(kept[n - 1], s[n]) ELSE kept[n - 1]
      BY <2>1, Zenon
    <2> QED
      BY <2>2
  <1> HIDE DEF kept
  <1>2. 0 \in S
    <2>1. ToSet(kept[0]) = {}
      BY <1>1 DEF ToSet
    <2>2. {s[i] : i \in 1..0} = {}
      OBVIOUS
    <2>3. kept[0] \in Seq(T) /\ Len(kept[0]) = 0
      BY <1>1
    <2> QED
      BY <2>1, <2>2, <2>3
  <1>3. ASSUME NEW n \in Nat, n \in S PROVE n + 1 \in S
    <2>1. SUFFICES ASSUME n + 1 <= Len(s) PROVE Right(n + 1)
      OBVIOUS
    <2>2. Right(n)
      BY <1>3, <2>1
    <2>3. {s[i] : i \in 1..(n + 1)} = {s[i] : i \in 1..n} \cup {s[n + 1]} /\ s[n + 1] \in T
      BY <2>1
    <2>4. kept[n + 1] = IF s[n + 1] \in wanted THEN Append(kept[n], s[n + 1]) ELSE kept[n]
      BY <1>1, <2>1
    <2>5. CASE s[n + 1] \in wanted
      <3> DEFINE u == kept[n]
      <3>1. ToSet(Append(u, s[n + 1])) = ToSet(u) \cup {s[n + 1]}
        BY <2>2, <2>3, AppendsToSet
      <3>2. ToSet(kept[n + 1]) = ToSet(kept[n]) \cup {s[n + 1]}
        BY <2>4, <2>5, <3>1
      <3> QED
        BY <2>2, <2>3, <2>4, <2>5, <3>2
    <2>6. CASE s[n + 1] \notin wanted
      BY <2>2, <2>3, <2>4, <2>6
    <2> QED
      BY <2>5, <2>6
  <1>4. Nat \subseteq S
    <2> HIDE DEF S
    <2> QED
      BY <1>2, <1>3, NumbersByInduction
  <1>5. Right(Len(s))
    BY <1>4
  <1>6. Sift(s, wanted) = kept[Len(s)]
    BY DEF Sift, kept
  <1>7. {s[i] : i \in 1..Len(s)} = ToSet(s)
    BY DEF ToSet
  <1> QED
    BY <1>5, <1>6, <1>7

(* What a batch does to the table is defined item by item. *)
LEMMA TablesAreDefined ==
    ASSUME NEW items \in Seq(Items), NEW table
    PROVE  Tables(items, table) =
               [n \in 0..Len(items) |->
                   IF n = 0 THEN table
                   ELSE IF IsFlush(items[n]) THEN Tables(items, table)[n - 1]
                        ELSE Upsert(items[n].what, Tables(items, table)[n - 1])]
  <1> DEFINE G(g, n) == IF n = 0 THEN table
                        ELSE IF IsFlush(items[n]) THEN g[n - 1]
                             ELSE Upsert(items[n].what, g[n - 1])
             Defines(n, g) == g = [i \in 0..n |-> G(g, i)]
             S == {n \in Nat : \E g : Defines(n, g)}
  <1>1. 0 \in S
    <2> DEFINE g == [i \in 0..0 |-> table]
    <2>1. g = [i \in 0..0 |-> G(g, i)]
      OBVIOUS
    <2> QED
      BY <2>1
  <1>2. ASSUME NEW n \in Nat, n \in S PROVE n + 1 \in S
    <2>1. PICK g : Defines(n, g)
      BY <1>2
    <2> DEFINE h == [i \in 0..(n + 1) |-> G(g, i)]
    <2>2. ASSUME NEW i \in 0..(n + 1), i # 0 PROVE h[i - 1] = g[i - 1]
      <3>1. i - 1 \in 0..n /\ i - 1 \in 0..(n + 1)
        BY <2>2
      <3>2. g[i - 1] = G(g, i - 1)
        BY <2>1, <3>1
      <3> HIDE DEF G
      <3> QED
        BY <3>1, <3>2
    <2>3. \A i \in 0..(n + 1) : G(g, i) = G(h, i)
      BY <2>2
    <2>4. h = [i \in 0..(n + 1) |-> G(h, i)]
      <3> HIDE DEF G
      <3> QED
        BY <2>3
    <2> HIDE DEF h, G
    <2>5. Defines(n + 1, h)
      BY <2>4
    <2>6. n + 1 \in Nat
      OBVIOUS
    <2> HIDE DEF Defines
    <2> QED
      BY <2>5, <2>6
  <1> HIDE DEF S
  <1>3. Nat \subseteq S
    BY <1>1, <1>2, NumbersByInduction
  <1>4. Len(items) \in Nat
    OBVIOUS
  <1>5. \E g : Defines(Len(items), g)
    BY <1>3, <1>4 DEF S
  <1> HIDE DEF G
  <1>6. Tables(items, table) = CHOOSE g : Defines(Len(items), g)
    BY Zenon DEF Tables, G
  <1>7. Defines(Len(items), Tables(items, table))
    BY <1>5, <1>6, Zenon
  <1> QED
    BY <1>7, Zenon DEF G

LEMMA RecordsAreOfTurns ==
    ASSUME NEW r \in Records
    PROVE  /\ r[1] \in Turns /\ r[2] \in 1..Final[r[1]] /\ r = <<r[1], r[2]>>
           /\ Final[r[1]] \in Nat \ {0} /\ r \notin Callers
  BY SinkAssumption, CallersAreNoRecords DEF Records

(* An upsert changes one row, and neither a terminal one nor that of a turn   *)
(* whose claim is stale.                                                      *)
LEMMA UpsertsOneRow ==
    ASSUME NEW r \in Records, NEW table \in [Turns -> Nat]
    PROVE  /\ Upsert(r, table) \in [Turns -> Nat]
           /\ \A t \in Turns : table[t] = Final[t] => Upsert(r, table)[t] = Final[t]
           /\ Terminal(r) => r[1] \in stale \/ Upsert(r, table)[r[1]] = r[2]
           /\ \A t \in Turns \cap stale : Upsert(r, table)[t] = table[t]
           /\ \A t \in Turns : Upsert(r, table)[t] # table[t] => r = <<t, Upsert(r, table)[t]>>
  BY RecordsAreOfTurns DEF Upsert, Terminal

(* A batch leaves every terminal record it holds in its row, but for those of *)
(* a stale claim, and takes none away; the other rows hold what they held or  *)
(* a record of the batch.                                                     *)
LEMMA BatchesUpsert ==
    ASSUME NEW items \in Seq(Items), NEW table \in [Turns -> Nat]
    PROVE  LET after == UpsertAll(items, table)
           IN /\ after \in [Turns -> Nat]
              /\ \A t \in Turns : table[t] = Final[t] => after[t] = Final[t]
              /\ \A r \in RecordsIn(items) :
                    Terminal(r) => r[1] \in stale \/ after[r[1]] = r[2]
              /\ \A t \in Turns : after[t] # table[t] => <<t, after[t]>> \in RecordsIn(items)
  <1> DEFINE tb == Tables(items, table)
             Recs(n) == {items[i].what : i \in {j \in 1..n : ~IsFlush(items[j])}}
             Right(n) ==
                /\ tb[n] \in [Turns -> Nat]
                /\ \A t \in Turns : table[t] = Final[t] => tb[n][t] = Final[t]
                /\ \A r \in Recs(n) : Terminal(r) => r[1] \in stale \/ tb[n][r[1]] = r[2]
                /\ \A t \in Turns : tb[n][t] # table[t] => <<t, tb[n][t]>> \in Recs(n)
             S == {n \in Nat : n <= Len(items) => Right(n)}
  <1>1. /\ tb[0] = table
        /\ \A n \in 1..Len(items) : tb[n] = IF IsFlush(items[n]) THEN tb[n - 1]
                                            ELSE Upsert(items[n].what, tb[n - 1])
    <2>1. tb = [n \in 0..Len(items) |->
                   IF n = 0 THEN table
                   ELSE IF IsFlush(items[n]) THEN tb[n - 1] ELSE Upsert(items[n].what, tb[n - 1])]
      BY TablesAreDefined
    <2> HIDE DEF tb
    <2>2. \A n \in 0..Len(items) :
              tb[n] = IF n = 0 THEN table
                      ELSE IF IsFlush(items[n]) THEN tb[n - 1] ELSE Upsert(items[n].what, tb[n - 1])
      BY <2>1, Zenon
    <2> QED
      BY <2>2
  <1> HIDE DEF tb
  <1>2. 0 \in S
    BY <1>1
  <1>3. ASSUME NEW n \in Nat, n \in S PROVE n + 1 \in S
    <2> HIDE DEF Right
    <2>1. SUFFICES ASSUME n + 1 <= Len(items) PROVE Right(n + 1)
      OBVIOUS
    <2>2. Right(n)
      BY <1>3, <2>1
    <2> USE DEF Right
    <2> DEFINE item == items[n + 1]
    <2>3. item \in Items
      BY <2>1
    <2>4. tb[n + 1] = IF IsFlush(item) THEN tb[n] ELSE Upsert(item.what, tb[n])
      BY <1>1, <2>1
    <2>5. Recs(n + 1) = IF IsFlush(item) THEN Recs(n) ELSE Recs(n) \cup {item.what}
      <3>1. 1..(n + 1) = (1..n) \cup {n + 1}
        OBVIOUS
      <3>2. {j \in 1..(n + 1) : ~IsFlush(items[j])} =
                IF IsFlush(item) THEN {j \in 1..n : ~IsFlush(items[j])}
                ELSE {j \in 1..n : ~IsFlush(items[j])} \cup {n + 1}
        BY <3>1
      <3> QED
        BY <3>2
    <2> HIDE DEF item, Recs
    <2>6. CASE IsFlush(item)
      BY <2>2, <2>4, <2>5, <2>6
    <2>7. CASE ~IsFlush(item)
      <3> DEFINE rec == item.what
      <3>1. rec \in Records
        BY <2>3, <2>7 DEF Items, IsFlush
      <3>2. tb[n + 1] = Upsert(rec, tb[n]) /\ Recs(n + 1) = Recs(n) \cup {rec}
        BY <2>4, <2>5, <2>7
      <3> HIDE DEF rec
      <3>3. /\ tb[n + 1] \in [Turns -> Nat]
            /\ \A t \in Turns : tb[n][t] = Final[t] => tb[n + 1][t] = Final[t]
            /\ Terminal(rec) => rec[1] \in stale \/ tb[n + 1][rec[1]] = rec[2]
            /\ \A t \in Turns : tb[n + 1][t] # tb[n][t] => rec = <<t, tb[n + 1][t]>>
        BY <2>2, <3>1, <3>2, UpsertsOneRow
      <3>4. Recs(n) \subseteq Records
        <4>1. \A i \in 1..n : items[i] \in Items
          BY <2>1
        <4> QED
          BY <4>1 DEF Recs, Items, IsFlush
      <3>5. \A r \in Recs(n) : Terminal(r) => r[1] \in stale \/ tb[n + 1][r[1]] = r[2]
        BY <2>2, <3>3, <3>4, RecordsAreOfTurns DEF Terminal
      <3>6. \A t \in Turns : tb[n + 1][t] # table[t] => <<t, tb[n + 1][t]>> \in Recs(n + 1)
        BY <2>2, <3>2, <3>3
      <3>7. \A t \in Turns : table[t] = Final[t] => tb[n + 1][t] = Final[t]
        BY <2>2, <3>3
      <3> QED
        BY <3>2, <3>3, <3>5, <3>6, <3>7
    <2> QED
      BY <2>6, <2>7
  <1>4. Nat \subseteq S
    <2> HIDE DEF S
    <2> QED
      BY <1>2, <1>3, NumbersByInduction
  <1>5. Right(Len(items))
    <2> HIDE DEF Right
    <2> QED
      BY <1>4
  <1>6. Recs(Len(items)) = RecordsIn(items)
    BY DEF RecordsIn, ToSet
  <1>7. UpsertAll(items, table) = tb[Len(items)]
    BY DEF UpsertAll, tb
  <1> HIDE DEF Recs
  <1> QED
    BY <1>5, <1>6, <1>7

----------------------------------------------------------------------------
Entries == {r \in Records : Terminal(r)}
Types ==
    /\ SinkTypes
    /\ queue \in Seq(Items) /\ work \in Seq(Items) /\ ring \in Seq(Entries)

(* What is on its way was emitted. *)
Emitted ==
    /\ \A r \in RecordsIn(queue) \cup RecordsIn(work) \cup ToSet(ring) : r[2] <= sent[r[1]]
    /\ \A t \in Turns : at[t] # "idle" => sent[t] > 0

(* The writer holds a batch, entries of the ring to retry, or nothing. *)
AtWork ==
    /\ writer \notin {"apply", "retry", "final"} => work = <<>>
    /\ writer \in {"retry", "final"} => FlushesIn(work) = {}
    /\ writer \in {"final", "done"} => closed

(* A terminal record the degraded path took is settled, or rides the queue. *)
Settled(r) == Stored(r) \/ Counted(r)
Rides(r) == r \in RecordsIn(queue) \/ (writer = "apply" /\ r \in RecordsIn(work))
Tracked ==
    "broken" \notin past =>
        \A r \in trusted : Terminal(r) =>
            Settled(r) \/ (writer \notin {"final", "done"} /\ Rides(r))

(* The barrier of the run drains behind the records it covers. *)
Unflushed == set \cup FlushesIn(queue) \cup FlushesIn(work)
Before(r) ==
    \/ r \in RecordsIn(queue) /\ Run \in FlushesIn(queue)
    \/ writer = "apply" /\ r \in RecordsIn(work) /\ Run \in FlushesIn(queue) \cup FlushesIn(work)
Covered ==
    /\ run \in {"no", "open"} => Run \notin Unflushed
    /\ Run \notin FlushesIn(queue) \cap FlushesIn(work)
    /\ run \in {"wait", "certified"} /\ past \cap {"busy", "broken"} = {} =>
           \A r \in covers : Terminal(r) =>
               Settled(r) \/ (run = "wait" /\ Run \notin set /\ Before(r))

(* One archiver at a time has the writer parked, and one whose flush was      *)
(* answered finds it out of the pause of the archiver before.                 *)
Asks(s) == archive[s] \in {"ask", "held"}
Parking ==
    /\ parked <=> writer \in {"parked", "leaving"}
    /\ \A s, o \in Archivers : Holds(s) /\ Holds(o) => s = o
    /\ request <=> \E s \in Archivers : Asks(s)
    /\ \A s \in Archivers :
        /\ archive[s] = "no" => s \notin Unflushed
        /\ Asks(s) /\ ~closed => writer # "leaving"
        /\ archive[s] = "flush" /\ s \in set => writer \notin {"parked", "leaving"}
    /\ StillWhileHeld

SinkInv == Types /\ Emitted /\ AtWork /\ AckedIsFinal /\ Tracked /\ Covered /\ Parking

----------------------------------------------------------------------------
(* What a sequence of items holds. *)
LEMMA PartsAreTyped ==
    ASSUME NEW items \in Seq(Items)
    PROVE  RecordsIn(items) \subseteq Records /\ FlushesIn(items) \subseteq Callers
  <1>1. ToSet(items) \subseteq Items
    BY DEF ToSet
  <1> QED
    BY <1>1 DEF RecordsIn, FlushesIn, IsFlush, Items

LEMMA PartsOfNothing == RecordsIn(<<>>) = {} /\ FlushesIn(<<>>) = {}
  BY DEF RecordsIn, FlushesIn, ToSet

LEMMA PartsOfAppend ==
    ASSUME NEW items \in Seq(Items), NEW x \in Items
    PROVE  /\ RecordsIn(Append(items, x)) = RecordsIn(items) \cup (IF IsFlush(x) THEN {} ELSE {x.what})
           /\ FlushesIn(Append(items, x)) = FlushesIn(items) \cup (IF IsFlush(x) THEN {x.what} ELSE {})
  <1>1. ToSet(Append(items, x)) = ToSet(items) \cup {x}
    BY AppendsToSet
  <1> QED
    BY <1>1 DEF RecordsIn, FlushesIn

LEMMA PartsOfJoin ==
    ASSUME NEW items \in Seq(Items), NEW more \in Seq(Items)
    PROVE  /\ RecordsIn(items \o more) = RecordsIn(items) \cup RecordsIn(more)
           /\ FlushesIn(items \o more) = FlushesIn(items) \cup FlushesIn(more)
  <1>1. ToSet(items \o more) = ToSet(items) \cup ToSet(more)
    BY JoinsSets
  <1> QED
    BY <1>1 DEF RecordsIn, FlushesIn

LEMMA PartsOfTail ==
    ASSUME NEW items \in Seq(Items), items # <<>>
    PROVE  /\ Head(items) \in Items /\ Tail(items) \in Seq(Items)
           /\ RecordsIn(Tail(items)) \subseteq RecordsIn(items)
           /\ FlushesIn(Tail(items)) \subseteq FlushesIn(items)
           /\ IF IsFlush(Head(items)) THEN Head(items).what \in FlushesIn(items)
                                      ELSE Head(items).what \in RecordsIn(items)
  <1>1. /\ Head(items) \in Items /\ Tail(items) \in Seq(Items)
        /\ ToSet(items) = {Head(items)} \cup ToSet(Tail(items))
    BY TakesFromSet
  <1> QED
    BY <1>1 DEF RecordsIn, FlushesIn

(* The entries of the ring as items of a pass of retries. *)
LEMMA PartsOfRing ==
    ASSUME NEW entries \in Seq(Entries)
    PROVE  LET items == [i \in DOMAIN entries |-> Item(entries[i], 0)]
           IN items \in Seq(Items) /\ RecordsIn(items) = ToSet(entries) /\ FlushesIn(items) = {}
  <1> DEFINE items == [i \in DOMAIN entries |-> Item(entries[i], 0)]
  <1>1. \A i \in DOMAIN entries : entries[i] \in Records /\ entries[i] \notin Callers
    BY CallersAreNoRecords DEF Entries
  <1>2. DOMAIN entries = 1..Len(entries) /\ Len(entries) \in Nat
    OBVIOUS
  <1>3. \A i \in DOMAIN entries : items[i] \in Items /\ ~IsFlush(items[i]) /\ items[i].what = entries[i]
    BY <1>1, SinkAssumption DEF Items, Item, IsFlush
  <1>4. items \in Seq(Items)
    BY <1>2, <1>3
  <1>5. ToSet(items) = {items[i] : i \in DOMAIN entries}
    BY DEF ToSet
  <1> HIDE DEF items
  <1>6. {i \in ToSet(items) : IsFlush(i)} = {} /\ {i \in ToSet(items) : ~IsFlush(i)} = ToSet(items)
    BY <1>3, <1>5
  <1>7. {x.what : x \in ToSet(items)} = ToSet(entries)
    <2>1. ToSet(entries) = {entries[i] : i \in DOMAIN entries}
      BY DEF ToSet
    <2>2. \A x \in ToSet(items) : x.what \in ToSet(entries)
      BY <1>3, <1>5, <2>1
    <2>3. \A i \in DOMAIN entries : items[i] \in ToSet(items) /\ items[i].what = entries[i]
      BY <1>3, <1>5
    <2> QED
      BY <2>1, <2>2, <2>3
  <1>8. items \in Seq(Items) /\ RecordsIn(items) = ToSet(entries) /\ FlushesIn(items) = {}
    BY <1>4, <1>6, <1>7 DEF RecordsIn, FlushesIn
  <1> QED
    BY <1>8 DEF items

LEMMA ForgettingShrinks ==
    ASSUME NEW entries \in Seq(Entries), NEW forgotten
    PROVE  /\ Forget(forgotten, entries) \in Seq(Entries)
           /\ Len(Forget(forgotten, entries)) <= Len(entries)
           /\ ToSet(Forget(forgotten, entries)) \subseteq ToSet(entries)
  BY SiftKeepsTheWanted DEF Forget

(* What a busy batch puts back are records of it, and they fit. *)
LEMMA FittingFits ==
    ASSUME NEW items \in Seq(Items), Len(queue) \in Nat, Len(queue) <= QueueMax
    PROVE  /\ Fitting(items) \in Seq(Items) /\ Len(queue) + Len(Fitting(items)) <= QueueMax
           /\ RecordsIn(Fitting(items)) \subseteq RecordsIn(items)
           /\ FlushesIn(Fitting(items)) = {}
  <1> DEFINE wanted == {item \in ToSet(items) : ~IsFlush(item) /\ item.tries < RetryMax}
             again == Again(items)
             back == Requeued(items)
  <1>1. again \in Seq(Items) /\ ToSet(again) = ToSet(items) \cap wanted
    BY SiftKeepsTheWanted DEF Again
  <1>2. \A i \in DOMAIN again :
            again[i] \in ToSet(items) /\ again[i] \in Items /\ ~IsFlush(again[i]) /\ again[i].tries < RetryMax
    BY <1>1 DEF ToSet
  <1> HIDE DEF again, wanted
  <1>3. back = [i \in DOMAIN again |-> Item(again[i].what, again[i].tries + 1)]
    BY DEF Requeued, again, back
  <1>4. ASSUME NEW i \in DOMAIN again
        PROVE  /\ back[i] \in Items /\ ~IsFlush(back[i])
               /\ back[i].what = again[i].what /\ back[i].what \in RecordsIn(items)
    <2>1. back[i] = Item(again[i].what, again[i].tries + 1)
      BY <1>3
    <2>2. again[i].what \in Records /\ again[i].tries + 1 \in 0..RetryMax
      BY <1>2, SinkAssumption DEF Items, IsFlush
    <2>3. again[i].what \in RecordsIn(items)
      BY <1>2 DEF RecordsIn
    <2>4. again[i].what \notin Callers
      BY <1>2 DEF IsFlush
    <2> QED
      BY <2>1, <2>2, <2>3, <2>4 DEF Item, Items, IsFlush
  <1>5. back \in Seq(Items) /\ Len(back) = Len(again) /\ DOMAIN back = DOMAIN again
    <2>1. DOMAIN again = 1..Len(again) /\ Len(again) \in Nat
      BY <1>1
    <2> QED
      BY <1>3, <1>4, <2>1
  <1> DEFINE room == Min({Len(again), QueueMax - Len(queue)})
  <1>6. room \in 0..Len(again) /\ room <= QueueMax - Len(queue)
    <2>1. Len(again) \in Nat /\ QueueMax - Len(queue) \in Nat
      BY <1>1, SinkAssumption
    <2>2. \E x \in {Len(again), QueueMax - Len(queue)} :
              \A y \in {Len(again), QueueMax - Len(queue)} : x <= y
      BY <2>1
    <2> QED
      BY <2>1, <2>2 DEF Min
  <1>7. Fitting(items) = SubSeq(back, 1, room)
    BY DEF Fitting, back, room, again
  <1> HIDE DEF back, room
  <1>8. /\ Fitting(items) \in Seq(Items) /\ Len(Fitting(items)) = room
        /\ ToSet(Fitting(items)) \subseteq ToSet(back)
    BY <1>5, <1>6, <1>7, StartsOfSequences
  <1>9. \A x \in ToSet(back) : ~IsFlush(x) /\ x.what \in RecordsIn(items)
    BY <1>4, <1>5 DEF ToSet
  <1>10. RecordsIn(Fitting(items)) \subseteq RecordsIn(items) /\ FlushesIn(Fitting(items)) = {}
    <2>1. \A x \in ToSet(Fitting(items)) : ~IsFlush(x) /\ x.what \in RecordsIn(items)
      BY <1>8, <1>9
    <2> QED
      BY <2>1 DEF RecordsIn, FlushesIn
  <1>11. Len(queue) + Len(Fitting(items)) <= QueueMax
    BY <1>6, <1>8, SinkAssumption
  <1> QED
    BY <1>8, <1>10, <1>11

LEMMA LatestIsARecord ==
    ASSUME SinkTypes, Emitted, NEW t \in Turns, at[t] # "idle"
    PROVE  /\ Latest(t) \in Records /\ Latest(t)[1] = t /\ Latest(t)[2] = sent[t]
           /\ Item(Latest(t), 0) \in Items /\ ~IsFlush(Item(Latest(t), 0))
           /\ Item(Latest(t), 0).what = Latest(t)
  <1>1. sent[t] \in 1..Final[t]
    BY SinkAssumption DEF SinkTypes, Emitted
  <1>2. Latest(t) \in Records
    BY <1>1 DEF Latest, Records
  <1> QED
    BY <1>2, SinkAssumption, CallersAreNoRecords DEF Latest, Item, Items, IsFlush

----------------------------------------------------------------------------
(* Every step keeps the types. *)
LEMMA EmissionKeepsTypes ==
    ASSUME SinkInv, NEW t \in Turns, Emit(t) \/ Emission(t) \/ Supersede(t)
    PROVE  Types' /\ Emitted'
  <1> USE DEF SinkInv, Types
  <1>1. CASE Emit(t)
    <2>1. sent[t] + 1 \in 1..Final[t] /\ sent' = [sent EXCEPT ![t] = sent[t] + 1]
      <3>1. sent[t] \in Nat /\ Final[t] \in Nat
        BY SinkAssumption DEF SinkTypes
      <3>2. sent[t] < Final[t] /\ sent' = [sent EXCEPT ![t] = sent[t] + 1]
        BY <1>1 DEF Emit
      <3> QED
        BY <3>1, <3>2
    <2>2. \A o \in Turns : sent'[o] \in Nat /\ sent[o] <= sent'[o] /\ sent'[o] <= Final[o]
      BY <2>1, SinkAssumption DEF SinkTypes
    <2>3. SinkTypes'
      BY <1>1, <2>1, <2>2, SinkAssumption DEF Emit, SinkTypes, Sound, emission, thread, callers, counters, claims
    <2>4. RecordsIn(queue) \cup RecordsIn(work) \cup ToSet(ring) \subseteq Records
      BY PartsAreTyped DEF SinkTypes
    <2>5. Emitted'
      <3>1. UNCHANGED <<queue, work, ring>>
        BY <1>1 DEF Emit, thread
      <3>2. \A r \in RecordsIn(queue) \cup RecordsIn(work) \cup ToSet(ring) :
                r[1] \in Turns /\ r[2] \in Nat /\ r[2] <= sent[r[1]]
        BY <2>4, RecordsAreOfTurns DEF Emitted
      <3>3. \A r \in RecordsIn(queue) \cup RecordsIn(work) \cup ToSet(ring) : r[2] <= sent'[r[1]]
        BY <2>2, <3>2 DEF SinkTypes
      <3>4. \A o \in Turns : at'[o] # "idle" => sent'[o] > 0
        BY <1>1, <2>1, <2>2 DEF Emit, Emitted, SinkTypes
      <3> QED
        BY <3>1, <3>3, <3>4 DEF Emitted
    <2> QED
      BY <1>1, <2>3, <2>5 DEF Emit, thread
  <1> DEFINE r == Latest(t)
  <1>2. ASSUME at[t] # "idle"
        PROVE  /\ r \in Records /\ r[1] = t /\ r[2] = sent[t] /\ sent[t] \in Nat
               /\ Item(r, 0) \in Items /\ ~IsFlush(Item(r, 0)) /\ Item(r, 0).what = r
    BY <1>2, LatestIsARecord DEF SinkTypes
  <1> HIDE DEF r
  <1>3. CASE SyncWrites(t)
    <2>1. r \in Records /\ r[1] = t /\ r[2] = sent[t]
      BY <1>2, <1>3 DEF SyncWrites
    <2>2. rows' = Upsert(r, rows) /\ ring' = Forget({t}, ring) /\ acknowledged' = acknowledged \cup {r}
      BY <1>3 DEF SyncWrites, r
    <2>3. rows' \in [Turns -> Nat] /\ \A o \in Turns : rows'[o] <= sent[o]
      <3>1. rows' \in [Turns -> Nat] /\ \A o \in Turns : rows'[o] # rows[o] => r = <<o, rows'[o]>>
        BY <2>1, <2>2, UpsertsOneRow DEF SinkTypes
      <3>2. \A o \in Turns : rows'[o] # rows[o] => r[1] = o /\ r[2] = rows'[o]
        BY <3>1
      <3>3. \A o \in Turns : rows[o] <= sent[o] /\ rows[o] \in Nat /\ sent[o] \in Nat
        BY DEF SinkTypes
      <3> QED
        BY <2>1, <3>1, <3>2, <3>3
    <2>4. ring' \in Seq(Entries) /\ Len(ring') <= Len(ring) /\ ToSet(ring') \subseteq ToSet(ring)
      BY <2>2, ForgettingShrinks
    <2>5. Len(ring') <= RingMax
      BY <2>4, SinkAssumption DEF SinkTypes
    <2>6. SinkTypes'
      BY <1>3, <2>1, <2>2, <2>3, <2>4, <2>5
      DEF SyncWrites, TurnsAway, SinkTypes, Sound, thread, callers, counters, claims
    <2>7. Emitted'
      BY <1>3, <2>4 DEF SyncWrites, Emitted, thread, SinkTypes
    <2> QED
      BY <1>3, <2>4, <2>6, <2>7 DEF SyncWrites, thread
  <1>4. CASE SyncFails(t)
    BY <1>4 DEF SyncFails, SinkTypes, Emitted, Fails, Kinds, thread, callers, counters, claims
  <1>5. CASE Keep(t)
    <2>1. r \in Records /\ r[1] = t /\ r[2] = sent[t] /\ r[2] \in Nat
      BY <1>2, <1>5 DEF Keep
    <2> DEFINE entries == IF Terminal(r) THEN Append(ring, r) ELSE ring
    <2>2. /\ entries \in Seq(Entries) /\ Len(entries) <= RingMax + 1 /\ Len(entries) \in Nat
          /\ ToSet(entries) \subseteq ToSet(ring) \cup {r}
          /\ Len(ring) <= RingMax
      <3>1. CASE Terminal(r)
        <4>1. r \in Entries
          BY <2>1, <3>1 DEF Entries
        <4>2. ToSet(Append(ring, r)) = ToSet(ring) \cup {r}
          BY <4>1, AppendsToSet
        <4> QED
          BY <3>1, <4>1, <4>2, SinkAssumption DEF SinkTypes
      <3>2. CASE ~Terminal(r)
        BY <3>2, SinkAssumption DEF SinkTypes
      <3> QED
        BY <3>1, <3>2
    <2>3. /\ ring' = IF Len(entries) > RingMax THEN Tail(entries) ELSE entries
          /\ named' = named \cup (IF Len(entries) > RingMax THEN {Head(entries)[1]} ELSE {})
          /\ dropped' \in BOOLEAN
      BY <1>5 DEF Keep, r, Drop, SinkTypes
    <2> HIDE DEF entries
    <2>4. /\ ring' \in Seq(Entries) /\ Len(ring') <= RingMax /\ named' \subseteq Turns
          /\ ToSet(ring') \subseteq ToSet(ring) \cup {r}
      <3>1. CASE Len(entries) > RingMax
        <4>1. entries # <<>>
          BY <2>2, <3>1, SinkAssumption
        <4>2. /\ Head(entries) \in Entries /\ Tail(entries) \in Seq(Entries)
              /\ Len(Tail(entries)) = Len(entries) - 1
              /\ ToSet(Tail(entries)) \subseteq ToSet(entries)
          BY <2>2, <4>1, TakesFromSet
        <4>3. Head(entries)[1] \in Turns
          BY <4>2, RecordsAreOfTurns DEF Entries
        <4> QED
          BY <2>2, <2>3, <3>1, <4>2, <4>3, SinkAssumption DEF SinkTypes
      <3>2. CASE ~(Len(entries) > RingMax)
        BY <2>2, <2>3, <3>2, SinkAssumption DEF SinkTypes
      <3> QED
        BY <3>1, <3>2
    <2>5. ToSet(ring') \subseteq Entries
      BY <2>4 DEF ToSet
    <2>6. SinkTypes'
      BY <1>5, <2>3, <2>4, <2>5 DEF Keep, SinkTypes, Sound, thread, callers, Entries, claims
    <2>7. Emitted'
      BY <1>5, <2>1, <2>4 DEF Keep, Emitted, thread, SinkTypes
    <2> QED
      BY <1>5, <2>4, <2>6, <2>7 DEF Keep, thread
  <1>6. CASE Put(t)
    <2>1. /\ r \in Records /\ r[1] = t /\ r[2] = sent[t] /\ r[2] \in Nat
          /\ Item(r, 0) \in Items /\ ~IsFlush(Item(r, 0)) /\ Item(r, 0).what = r
      BY <1>2, <1>6 DEF Put
    <2>2. /\ \/ Room /\ queue' = Append(queue, Item(r, 0)) /\ UNCHANGED <<named, dropped>>
             \/ named' = named \cup {t} /\ dropped' \in BOOLEAN /\ UNCHANGED queue
          /\ trusted' \subseteq trusted \cup {r}
      BY <1>6 DEF Put, r, Drop, counters, SinkTypes
    <2>3. /\ queue' \in Seq(Items) /\ Len(queue') <= QueueMax
          /\ RecordsIn(queue') \subseteq RecordsIn(queue) \cup {r}
      <3>1. QueueMax \in Nat /\ Len(queue) \in Nat /\ Len(queue) <= QueueMax
        BY SinkAssumption DEF SinkTypes
      <3>2. CASE Room /\ queue' = Append(queue, Item(r, 0))
        <4>1. RecordsIn(queue') = RecordsIn(queue) \cup {r}
          BY <2>1, <3>2, PartsOfAppend
        <4>2. queue' \in Seq(Items) /\ Len(queue') = Len(queue) + 1
          BY <2>1, <3>2
        <4> QED
          BY <3>1, <3>2, <4>1, <4>2 DEF Room
      <3> QED
        BY <2>2, <3>1, <3>2
    <2>4. ToSet(queue') \subseteq Items
      BY <2>3 DEF ToSet
    <2>5. SinkTypes'
      BY <1>6, <2>1, <2>2, <2>3, <2>4 DEF Put, SinkTypes, Sound, thread, callers, claims
    <2>6. Emitted'
      BY <1>6, <2>1, <2>3 DEF Put, Emitted, thread, SinkTypes
    <2> QED
      BY <1>6, <2>3, <2>5, <2>6 DEF Put, thread
  <1>7. CASE Supersede(t)
    <2>1. stale' \subseteq Turns /\ stale \subseteq stale' /\ turned' = turned
      BY <1>7 DEF Supersede, SinkTypes
    <2>2. past' \subseteq Kinds /\ left' \in Nat
      BY <1>7 DEF Supersede, Fails, Kinds, SinkTypes
    <2> QED
      BY <1>7, <2>1, <2>2 DEF Supersede, SinkTypes, Emitted, emission, thread, callers, counters
  <1> QED
    BY <1>1, <1>3, <1>4, <1>5, <1>6, <1>7 DEF Emission

(* What the batch of the writer is made of, and what is done to the table. *)
LEMMA WriterKeepsTypes ==
    ASSUME SinkInv, Writer
    PROVE  Types' /\ Emitted'
  <1> USE DEF SinkInv, Types
  <1>i. /\ RecordsIn(queue) \cup RecordsIn(work) \cup ToSet(ring) \subseteq Records
        /\ FlushesIn(queue) \cup FlushesIn(work) \subseteq Callers
        /\ \A o \in Turns : rows[o] \in Nat /\ sent[o] \in Nat /\ rows[o] <= sent[o]
        /\ Len(queue) \in Nat /\ Len(queue) <= QueueMax
        /\ QueueMax \in Nat /\ RingMax \in Nat
    BY PartsAreTyped, SinkAssumption DEF SinkTypes
  <1>1. CASE Park \/ Wake \/ Leave \/ Pass
    BY <1>1 DEF Park, Wake, Leave, Pass, SinkTypes, Emitted, Sound, emission, thread, callers, counters, claims
  <1>2. CASE TakeBatch
    <2>1. /\ UNCHANGED <<rows, emission, ring, breaker, landed, set, request, parked, callers,
                         counters, closed, left, past, claims>>
          /\ writer' = "apply" /\ work' = queue /\ queue' = <<>>
      BY <1>2 DEF TakeBatch, Sound
    <2>2. SinkTypes'
      BY <2>1, <1>i DEF SinkTypes, emission, callers, counters, ToSet, claims
    <2>3. RecordsIn(queue') = {} /\ RecordsIn(work') = RecordsIn(queue)
      BY <2>1, PartsOfNothing
    <2>4. Emitted'
      BY <2>1, <2>3 DEF Emitted, emission
    <2> QED
      BY <2>1, <2>2, <2>4
  <1>3. CASE Applies
    <2>1. /\ UNCHANGED <<emission, queue, breaker, landed, request, parked, callers, counters,
                         closed, left, past>>
          /\ writer' = "loop" /\ work' = <<>>
          /\ rows' = UpsertAll(work, rows) /\ set' = set \cup FlushesIn(work)
          /\ ring' = Forget(TurnsOf(RecordsIn(work)), ring)
          /\ turned' \subseteq turned \cup stale /\ stale' = stale
      BY <1>3 DEF Applies, TurnsAway, Sound
    <2>2. ring' \in Seq(Entries) /\ Len(ring') <= Len(ring) /\ ToSet(ring') \subseteq ToSet(ring)
      BY <2>1, ForgettingShrinks
    <2>3. /\ rows' \in [Turns -> Nat]
          /\ \A o \in Turns : rows'[o] # rows[o] => <<o, rows'[o]>> \in RecordsIn(work)
      BY <2>1, BatchesUpsert DEF SinkTypes
    <2>4. \A o \in Turns : rows'[o] <= sent[o]
      <3>1. ASSUME NEW o \in Turns, rows'[o] # rows[o] PROVE rows'[o] <= sent[o]
        <4>1. <<o, rows'[o]>> \in RecordsIn(work)
          BY <2>3, <3>1
        <4>2. <<o, rows'[o]>>[2] <= sent[<<o, rows'[o]>>[1]]
          BY <4>1 DEF Emitted
        <4> QED
          BY <4>2
      <3> QED
        BY <1>i, <3>1
    <2>5. SinkTypes'
      <3>1. ToSet(work') = {} /\ set' \subseteq Callers /\ Len(ring') <= RingMax
        BY <1>i, <2>1, <2>2 DEF ToSet, SinkTypes
      <3> QED
        BY <1>i, <2>1, <2>2, <2>3, <2>4, <3>1 DEF SinkTypes, emission, callers, counters, claims
    <2>6. Emitted'
      BY <2>1, <2>2, PartsOfNothing DEF Emitted, emission
    <2> QED
      BY <2>1, <2>2, <2>5, <2>6
  <1>4. ASSUME NEW kind \in Kinds, BatchFails(kind), NEW back \in Seq(Items),
               RecordsIn(back) \subseteq RecordsIn(work), Len(queue) + Len(back) <= QueueMax,
               queue' = queue \o back, named' \subseteq Turns, dropped' \in BOOLEAN
        PROVE  Types' /\ Emitted'
    <2>1. /\ UNCHANGED <<rows, emission, breaker, landed, request, parked, callers, closed, claims>>
          /\ writer' = "loop" /\ work' = <<>> /\ set' = set \cup FlushesIn(work)
          /\ left > 0 /\ left' = left - 1 /\ past' = past \cup {kind}
      BY <1>4 DEF BatchFails, Fails
    <2>2. PICK n \in 0..Len(work) : ring' = Forget(TurnsOf(RecordsIn(SubSeq(work, 1, n))), ring)
      BY <1>4 DEF BatchFails
    <2>3. ring' \in Seq(Entries) /\ Len(ring') <= Len(ring) /\ ToSet(ring') \subseteq ToSet(ring)
      BY <2>2, ForgettingShrinks
    <2>4. queue' \in Seq(Items) /\ Len(queue') <= QueueMax
          /\ RecordsIn(queue') \subseteq RecordsIn(queue) \cup RecordsIn(work)
      BY <1>4, PartsOfJoin
    <2>5. SinkTypes'
      <3>1. ToSet(work') = {} /\ set' \subseteq Callers /\ Len(ring') <= RingMax
        BY <1>i, <2>1, <2>3 DEF ToSet, SinkTypes
      <3>2. ToSet(queue') \subseteq Items
        BY <2>4 DEF ToSet
      <3> QED
        BY <1>i, <1>4, <2>1, <2>3, <2>4, <3>1, <3>2 DEF SinkTypes, emission, callers, claims
    <2>6. Emitted'
      BY <2>1, <2>3, <2>4, PartsOfNothing DEF Emitted, emission
    <2> QED
      BY <2>1, <2>3, <2>4, <2>5, <2>6
  <1>5. CASE Busy
    <2> DEFINE back == Fitting(work)
    <2>1. /\ back \in Seq(Items) /\ Len(queue) + Len(back) <= QueueMax
          /\ RecordsIn(back) \subseteq RecordsIn(work)
      BY <1>i, FittingFits
    <2>2. BatchFails("busy") /\ queue' = queue \o back /\ Drop(TurnsOf(RecordsIn(work) \ RecordsIn(back)))
      BY <1>5 DEF Busy
    <2> HIDE DEF back
    <2>3. TurnsOf(RecordsIn(work) \ RecordsIn(back)) \subseteq Turns
      BY <1>i, RecordsAreOfTurns DEF TurnsOf
    <2>4. named' \subseteq Turns /\ dropped' \in BOOLEAN
      BY <2>2, <2>3 DEF Drop, SinkTypes
    <2> QED
      BY <1>4, <2>1, <2>2, <2>4 DEF Kinds
  <1>6. CASE Broken
    <2>1. BatchFails("broken") /\ queue' = queue \o <<>> /\ named' \subseteq Turns /\ dropped' \in BOOLEAN
      BY <1>6 DEF Broken, counters, SinkTypes
    <2>2. /\ <<>> \in Seq(Items) /\ RecordsIn(<<>>) \subseteq RecordsIn(work)
          /\ Len(queue) + Len(<<>>) <= QueueMax
      BY <1>i, PartsOfNothing
    <2> QED
      BY <1>4, <2>1, <2>2 DEF Kinds
  <1>7. CASE Retry(FALSE) \/ Retry(TRUE)
    <2>1. /\ UNCHANGED <<rows, emission, queue, ring, breaker, landed, set, request, parked, callers,
                         counters, closed, left, past, claims>>
          /\ writer' \in {"final", "retry"} /\ work' = [i \in DOMAIN ring |-> Item(ring[i], 0)]
      BY <1>7 DEF Retry, Sound
    <2>2. work' \in Seq(Items) /\ RecordsIn(work') = ToSet(ring)
      BY <2>1, PartsOfRing
    <2>3. SinkTypes'
      <3>1. ToSet(work') \subseteq Items
        BY <2>2 DEF ToSet
      <3> QED
        BY <2>1, <3>1 DEF SinkTypes, emission, callers, counters, claims
    <2>4. Emitted'
      BY <2>1, <2>2 DEF Emitted, emission
    <2> QED
      BY <2>1, <2>2, <2>3, <2>4
  <1>8. CASE RetryLands
    <2> DEFINE r == Head(work).what
    <2>1. /\ UNCHANGED <<emission, queue, ring, breaker, writer, set, request, parked, callers,
                         counters, closed, left, past>>
          /\ work # <<>> /\ work' = Tail(work) /\ Retrying
          /\ rows' = Upsert(r, rows) /\ landed' = landed \cup {r[1]}
          /\ turned' \subseteq turned \cup stale /\ stale' = stale
      BY <1>8 DEF RetryLands, TurnsAway, Sound
    <2>2. r \in RecordsIn(work) /\ work' \in Seq(Items) /\ RecordsIn(work') \subseteq RecordsIn(work)
      BY <2>1, PartsOfTail DEF AtWork, Retrying
    <2> HIDE DEF r
    <2>3. r \in Records /\ r[1] \in Turns /\ r[2] <= sent[r[1]]
      BY <1>i, <2>2, RecordsAreOfTurns DEF Emitted
    <2>4. rows' \in [Turns -> Nat] /\ \A o \in Turns : rows'[o] # rows[o] => r = <<o, rows'[o]>>
      <3>1. rows \in [Turns -> Nat]
        BY DEF SinkTypes
      <3> HIDE DEF SinkInv
      <3> QED
        BY <2>1, <2>3, <3>1, UpsertsOneRow
    <2>5. \A o \in Turns : rows'[o] # rows[o] => r[1] = o /\ r[2] = rows'[o]
      BY <2>4
    <2>6. \A o \in Turns : rows'[o] <= sent[o]
      BY <1>i, <2>3, <2>5
    <2>7. SinkTypes'
      <3>1. ToSet(work') \subseteq Items /\ landed' \subseteq Turns
        BY <2>1, <2>2, <2>3 DEF ToSet, SinkTypes
      <3> QED
        BY <2>1, <2>4, <2>6, <3>1 DEF SinkTypes, emission, callers, counters, claims
    <2>8. Emitted'
      BY <2>1, <2>2 DEF Emitted, emission
    <2> QED
      BY <2>1, <2>2, <2>7, <2>8
  <1>9. CASE RetryFails
    <2>1. /\ UNCHANGED <<rows, emission, queue, ring, breaker, writer, landed, set, request, parked,
                         callers, counters, closed, claims>>
          /\ work' = <<>> /\ left > 0 /\ left' = left - 1 /\ past' = past \cup {"retry"}
      BY <1>9 DEF RetryFails, Fails
    <2>2. SinkTypes'
      <3>1. ToSet(work') = {}
        BY <2>1 DEF ToSet
      <3> QED
        BY <2>1, <3>1 DEF SinkTypes, emission, callers, counters, Kinds, claims
    <2>3. Emitted'
      BY <2>1, PartsOfNothing DEF Emitted, emission
    <2> QED
      BY <2>1, <2>2, <2>3
  <1>10. CASE RetryEnds
    <2>1. /\ UNCHANGED <<rows, emission, queue, breaker, work, set, request, parked, callers, counters,
                         closed, left, past, claims>>
          /\ ring' = Forget(landed, ring) /\ landed' = {} /\ writer' \in {"done", "probe", "loop"}
      BY <1>10 DEF RetryEnds, Sound
    <2>2. ring' \in Seq(Entries) /\ Len(ring') <= Len(ring) /\ ToSet(ring') \subseteq ToSet(ring)
      BY <2>1, ForgettingShrinks
    <2>3. SinkTypes'
      BY <1>i, <2>1, <2>2 DEF SinkTypes, emission, callers, counters, claims
    <2>4. Emitted'
      BY <2>1, <2>2 DEF Emitted, emission
    <2> QED
      BY <2>1, <2>2, <2>3, <2>4
  <1>11. CASE Probe
    <2>1. /\ UNCHANGED <<rows, emission, queue, ring, work, landed, set, request, parked, callers,
                         counters, closed, claims>>
          /\ writer' = "loop" /\ breaker' \in {"shut", "cooling"}
          /\ left' \in Nat /\ past' \subseteq Kinds
      <3>1. left \in Nat /\ past \subseteq Kinds
        BY DEF SinkTypes
      <3>2. \/ breaker' = "shut" /\ left' = left /\ past' = past
            \/ breaker' = "cooling" /\ left > 0 /\ left' = left - 1 /\ past' = past \cup {"probe"}
        BY <1>11 DEF Probe, Fails, Sound
      <3>3. left' \in Nat /\ past' \subseteq past \cup {"probe"}
        BY <3>1, <3>2
      <3>4. past' \subseteq Kinds
        BY <3>1, <3>3 DEF Kinds
      <3> QED
        BY <1>11, <3>2, <3>3, <3>4 DEF Probe
    <2> QED
      BY <2>1 DEF SinkTypes, Emitted, emission, callers, counters, claims
  <1> QED
    BY <1>1, <1>2, <1>3, <1>5, <1>6, <1>7, <1>8, <1>9, <1>10, <1>11 DEF Writer

LEMMA CallersKeepTypes ==
    ASSUME SinkInv, 
           \/ Cool \/ Close \/ OpenRun \/ Barrier \/ Certify
           \/ \E s \in Archivers : Begin(s) \/ Ask(s) \/ Hold(s) \/ GiveUp(s) \/ Release(s)
    PROVE  Types' /\ Emitted'
  <1> USE DEF SinkInv, Types
  <1>i. QueueMax \in Nat /\ Len(queue) \in Nat /\ Len(queue) <= QueueMax
    BY SinkAssumption DEF SinkTypes
  <1>1. ASSUME NEW c \in Callers, Room, queue' = Append(queue, Item(c, 0))
        PROVE  /\ queue' \in Seq(Items) /\ Len(queue') <= QueueMax /\ ToSet(queue') \subseteq Items
               /\ RecordsIn(queue') = RecordsIn(queue)
    <2>1. Item(c, 0) \in Items /\ IsFlush(Item(c, 0))
      BY SinkAssumption DEF Item, Items, IsFlush
    <2>2. RecordsIn(queue') = RecordsIn(queue)
      BY <1>1, <2>1, PartsOfAppend
    <2>3. queue' \in Seq(Items) /\ Len(queue') = Len(queue) + 1
      BY <1>1, <2>1
    <2>4. ToSet(queue') \subseteq Items
      BY <2>3 DEF ToSet
    <2> QED
      BY <1>i, <1>1, <2>2, <2>3, <2>4 DEF Room
  <1>2. CASE Cool \/ Close \/ OpenRun \/ Certify
    BY <1>2 DEF Cool, Close, OpenRun, Certify, SinkTypes, Emitted, Sound, emission, thread,
                callers, counters, claims
  <1>3. CASE Barrier
    <2>1. /\ UNCHANGED <<rows, emission, ring, breaker, thread, set, request, parked, archive,
                         counters, closed, left, past, claims>>
          /\ covers' = acknowledged \cup trusted /\ run' \in {"wait", "refused"}
          /\ (Room /\ queue' = Append(queue, Item(Run, 0))) \/ UNCHANGED queue
      BY <1>3 DEF Barrier, Sound
    <2>2. /\ queue' \in Seq(Items) /\ Len(queue') <= QueueMax /\ ToSet(queue') \subseteq Items
          /\ RecordsIn(queue') = RecordsIn(queue)
      <3>1. Run \in Callers
        BY DEF Callers
      <3>2. CASE Room /\ queue' = Append(queue, Item(Run, 0))
        BY <1>1, <3>1, <3>2
      <3>3. CASE UNCHANGED queue
        BY <1>i, <3>3 DEF ToSet
      <3> QED
        BY <2>1, <3>2, <3>3
    <2>3. SinkTypes'
      BY <2>1, <2>2 DEF SinkTypes, emission, thread, counters, claims
    <2>4. Emitted'
      BY <2>1, <2>2 DEF Emitted, emission, thread
    <2> QED
      BY <2>1, <2>2, <2>3, <2>4 DEF thread
  <1>4. ASSUME NEW s \in Archivers, Begin(s) PROVE Types' /\ Emitted'
    <2>1. /\ UNCHANGED <<rows, emission, ring, breaker, thread, set, request, parked, run, covers,
                         counters, closed, left, past, claims>>
          /\ \E to \in {"free", "flush", "done"} : archive' = [archive EXCEPT ![s] = to]
          /\ (Room /\ queue' = Append(queue, Item(s, 0))) \/ UNCHANGED queue
      BY <1>4 DEF Begin, Sound
    <2>2. /\ queue' \in Seq(Items) /\ Len(queue') <= QueueMax /\ ToSet(queue') \subseteq Items
          /\ RecordsIn(queue') = RecordsIn(queue)
      <3>1. s \in Callers
        BY DEF Callers
      <3>2. CASE Room /\ queue' = Append(queue, Item(s, 0))
        BY <1>1, <3>1, <3>2
      <3>3. CASE UNCHANGED queue
        BY <1>i, <3>3 DEF ToSet
      <3> QED
        BY <2>1, <3>2, <3>3
    <2>3. SinkTypes'
      BY <2>1, <2>2 DEF SinkTypes, emission, thread, counters, claims
    <2>4. Emitted'
      BY <2>1, <2>2 DEF Emitted, emission, thread
    <2> QED
      BY <2>1, <2>2, <2>3, <2>4 DEF thread
  <1>5. ASSUME NEW s \in Archivers, Ask(s) \/ Hold(s) \/ GiveUp(s) \/ Release(s)
        PROVE  Types' /\ Emitted'
    <2>1. /\ UNCHANGED <<rows, emission, queue, ring, breaker, thread, set, parked, run, covers,
                         counters, closed, left, past, claims>>
          /\ \E to \in {"ask", "held", "done"} : archive' = [archive EXCEPT ![s] = to]
          /\ request' \in BOOLEAN
      BY <1>5 DEF Ask, Hold, GiveUp, Release, LetGo, SinkTypes, Sound
    <2> QED
      BY <2>1 DEF SinkTypes, Emitted, emission, thread, counters, claims
  <1> QED
    BY <1>2, <1>3, <1>4, <1>5

LEMMA StepKeepsTypes == SinkInv /\ [SinkNext]_sinkVars => Types' /\ Emitted'
  <1> SUFFICES ASSUME SinkInv, [SinkNext]_sinkVars PROVE Types' /\ Emitted'
    OBVIOUS
  <1>1. CASE UNCHANGED sinkVars
    BY <1>1 DEF SinkInv, Types, Emitted, SinkTypes, sinkVars, emission, thread, callers, counters, claims
  <1>2. CASE SinkNext
    BY <1>2, EmissionKeepsTypes, WriterKeepsTypes, CallersKeepTypes DEF SinkNext
  <1> QED
    BY <1>1, <1>2

----------------------------------------------------------------------------
(* What the writer holds tells where it is. *)
LEMMA StepKeepsWork == SinkInv /\ [SinkNext]_sinkVars => AtWork'
  <1> SUFFICES ASSUME SinkInv, [SinkNext]_sinkVars PROVE AtWork'
    OBVIOUS
  <1> USE DEF SinkInv, AtWork
  <1>1. CASE UNCHANGED sinkVars
    BY <1>1 DEF sinkVars, thread
  <1>2. CASE \E t \in Turns : Emit(t) \/ Emission(t) \/ Supersede(t)
    BY <1>2 DEF Emit, Emission, SyncWrites, SyncFails, Keep, Put, Supersede, thread
  <1>3. CASE Cool \/ Close \/ OpenRun \/ Barrier \/ Certify
    BY <1>3 DEF Cool, Close, OpenRun, Barrier, Certify, thread
  <1>4. CASE \E s \in Archivers : Begin(s) \/ Ask(s) \/ Hold(s) \/ GiveUp(s) \/ Release(s)
    <2>1. UNCHANGED <<writer, work, closed>>
      BY <1>4 DEF Begin, Ask, Hold, GiveUp, Release, LetGo, thread
    <2> QED
      BY <2>1
  <1>5. CASE Park \/ Wake \/ Leave \/ Pass \/ Probe
    BY <1>5 DEF Park, Wake, Leave, Pass, Probe
  <1>6. CASE TakeBatch \/ Applies \/ Busy \/ Broken
    BY <1>6 DEF TakeBatch, Applies, Busy, Broken, BatchFails
  <1>7. CASE Retry(FALSE) \/ Retry(TRUE)
    <2>1. work' = [i \in DOMAIN ring |-> Item(ring[i], 0)]
      BY <1>7 DEF Retry
    <2>2. FlushesIn(work') = {}
      BY <2>1, PartsOfRing DEF Types
    <2> QED
      BY <1>7, <2>2 DEF Retry
  <1>8. CASE RetryLands
    BY <1>8, PartsOfTail DEF RetryLands, Retrying, Types
  <1>9. CASE RetryFails \/ RetryEnds
    BY <1>9, PartsOfNothing DEF RetryFails, RetryEnds, Retrying
  <1> QED
    BY <1>1, <1>2, <1>3, <1>4, <1>5, <1>6, <1>7, <1>8, <1>9 DEF SinkNext, Writer

(* An acknowledged terminal record stays in its row, and a turn that was      *)
(* turned away stays counted.                                                 *)
LEMMA StepKeepsRows == SinkInv /\ [SinkNext]_sinkVars =>
                           /\ AckedIsFinal' /\ turned \subseteq turned'
                           /\ \A r \in Records : Terminal(r) /\ Stored(r) => Stored(r)'
  <1> SUFFICES ASSUME SinkInv, [SinkNext]_sinkVars
               PROVE  /\ AckedIsFinal' /\ turned \subseteq turned'
                      /\ \A r \in Records : Terminal(r) /\ Stored(r) => Stored(r)'
    OBVIOUS
  <1>i. /\ rows \in [Turns -> Nat] /\ acknowledged \subseteq Records
        /\ \A t \in Turns : rows[t] <= Final[t] /\ rows[t] \in Nat /\ Final[t] \in Nat
    <2>1. \A t \in Turns : rows[t] <= sent[t] /\ sent[t] <= Final[t] /\ sent[t] \in Nat /\ rows[t] \in Nat
      BY DEF SinkInv, Types, SinkTypes
    <2> QED
      BY <2>1, SinkAssumption DEF SinkInv, Types, SinkTypes
  <1> DEFINE Kept == /\ \A t \in Turns : rows[t] = Final[t] => rows'[t] = Final[t]
                     /\ turned \subseteq turned'
                     /\ \A r \in acknowledged' \ acknowledged :
                            /\ r \in Records
                            /\ Terminal(r) => rows'[r[1]] = r[2] \/ r[1] \in turned'
  <1>1. ASSUME Kept
        PROVE  /\ AckedIsFinal' /\ turned \subseteq turned'
               /\ \A r \in Records : Terminal(r) /\ Stored(r) => Stored(r)'
    <2>1. \A t \in Turns : rows'[t] = Final[t] => rows'[t] >= Final[t]
      BY <1>i
    <2>2. ASSUME NEW r \in Records, Terminal(r), Stored(r) PROVE Stored(r)'
      <3>1. r[1] \in Turns /\ r[2] = Final[r[1]] /\ rows[r[1]] >= r[2]
        BY <2>2, RecordsAreOfTurns DEF Terminal, Stored
      <3>2. rows[r[1]] = Final[r[1]]
        BY <1>i, <3>1
      <3> QED
        BY <1>1, <2>1, <3>1, <3>2 DEF Stored
    <2>3. ASSUME NEW r \in acknowledged', Terminal(r)
          PROVE  rows'[r[1]] = r[2] \/ r[1] \in turned'
      <3>1. CASE r \in acknowledged
        <4>1. /\ rows[r[1]] = r[2] \/ r[1] \in turned
              /\ r[1] \in Turns /\ r[2] = Final[r[1]]
          BY <1>i, <2>3, <3>1, RecordsAreOfTurns DEF SinkInv, AckedIsFinal, Terminal
        <4> QED
          BY <1>1, <4>1
      <3>2. CASE r \notin acknowledged
        BY <1>1, <2>3, <3>2
      <3> QED
        BY <3>1, <3>2
    <2> QED
      BY <1>1, <2>2, <2>3 DEF AckedIsFinal, Terminal
  <1>2. ASSUME UNCHANGED <<rows, acknowledged, turned>> PROVE Kept
    BY <1>2
  <1>3. ASSUME NEW t \in Turns, SyncWrites(t)
        PROVE  Kept
    <2> DEFINE r == Latest(t)
    <2>1. r \in Records /\ rows' = Upsert(r, rows) /\ acknowledged' = acknowledged \cup {r}
      BY <1>3, LatestIsARecord DEF SyncWrites, SinkInv, Types
    <2>2. r[1] = t /\ turned' = turned \cup {o \in {t} \cap stale : rows[o] # Final[o]}
      BY <1>3, LatestIsARecord DEF SyncWrites, TurnsAway, SinkInv, Types
    <2> HIDE DEF r
    <2>3. ASSUME Terminal(r), rows'[r[1]] # r[2] PROVE r[1] \in turned'
      <3>1. t \in stale /\ rows'[t] = rows[t] /\ r[2] = Final[t]
        BY <1>i, <2>1, <2>2, <2>3, UpsertsOneRow DEF Terminal
      <3> QED
        BY <2>2, <2>3, <3>1
    <2> QED
      BY <1>i, <2>1, <2>2, <2>3, UpsertsOneRow
  <1>4. ASSUME Applies
        PROVE  Kept
    <2>1. /\ rows' = UpsertAll(work, rows) /\ acknowledged' = acknowledged
          /\ turned \subseteq turned'
      BY <1>4 DEF Applies, TurnsAway, emission
    <2>2. work \in Seq(Items)
      BY DEF SinkInv, Types
    <2> QED
      BY <1>i, <2>1, <2>2, BatchesUpsert
  <1>5. ASSUME RetryLands
        PROVE  Kept
    <2> DEFINE r == Head(work).what
    <2>1. /\ rows' = Upsert(r, rows) /\ acknowledged' = acknowledged /\ work # <<>> /\ Retrying
          /\ turned \subseteq turned'
      BY <1>5 DEF RetryLands, TurnsAway, emission
    <2>2. r \in Records
      BY <2>1, PartsOfTail, PartsAreTyped DEF SinkInv, Types, AtWork, Retrying
    <2> HIDE DEF r
    <2> QED
      BY <1>i, <2>1, <2>2, UpsertsOneRow
  <1>6. ASSUME \E t \in Turns : Emit(t) \/ SyncFails(t) \/ Keep(t) \/ Put(t) \/ Supersede(t)
        PROVE  Kept
    BY <1>2, <1>6 DEF Emit, SyncFails, Keep, Put, Supersede, emission, claims
  <1>7. ASSUME Cool \/ Close \/ OpenRun \/ Barrier \/ Certify PROVE Kept
    BY <1>2, <1>7 DEF Cool, Close, OpenRun, Barrier, Certify, emission, claims
  <1>8. ASSUME \E s \in Archivers : Begin(s) \/ Ask(s) \/ Hold(s) \/ GiveUp(s) \/ Release(s) PROVE Kept
    <2>1. UNCHANGED <<rows, acknowledged, turned>>
      BY <1>8 DEF Begin, Ask, Hold, GiveUp, Release, LetGo, emission, claims
    <2> QED
      BY <1>2, <2>1
  <1>9. ASSUME Park \/ Wake \/ Leave \/ Pass \/ Probe \/ TakeBatch \/ Retry(FALSE) \/ Retry(TRUE)
             \/ RetryFails \/ RetryEnds PROVE Kept
    BY <1>2, <1>9 DEF Park, Wake, Leave, Pass, Probe, TakeBatch, Retry, RetryFails, RetryEnds,
                      emission, claims
  <1>10. ASSUME Busy \/ Broken PROVE Kept
    BY <1>2, <1>10 DEF Busy, Broken, BatchFails, emission, claims
  <1>11. ASSUME UNCHANGED sinkVars PROVE Kept
    BY <1>2, <1>11 DEF sinkVars, emission, claims
  <1>12. Kept
    BY <1>3, <1>4, <1>5, <1>6, <1>7, <1>8, <1>9, <1>10, <1>11 DEF SinkNext, Writer, Emission
  <1> QED
    BY <1>1, <1>12

(* What is settled stays settled, and the failures are remembered. *)
LEMMA SettledStays ==
    ASSUME SinkInv, [SinkNext]_sinkVars
    PROVE  /\ \A r \in Records : Terminal(r) /\ Settled(r) => Settled(r)'
           /\ past \subseteq past' /\ named \subseteq named'
  <1>1. past \subseteq past' /\ named \subseteq named'
    <2>1. CASE UNCHANGED sinkVars
      BY <2>1 DEF sinkVars, counters
    <2>2. CASE \E t \in Turns : Emit(t) \/ Emission(t) \/ Supersede(t)
      BY <2>2 DEF Emit, Emission, SyncWrites, SyncFails, Keep, Put, Supersede, Sound, Fails, Drop,
                  counters
    <2>3. CASE Cool \/ Close \/ OpenRun \/ Barrier \/ Certify
      BY <2>3 DEF Cool, Close, OpenRun, Barrier, Certify, Sound, counters
    <2>4. CASE \E s \in Archivers : Begin(s) \/ Ask(s) \/ Hold(s) \/ GiveUp(s) \/ Release(s)
      <3>1. UNCHANGED <<past, named>>
        BY <2>4 DEF Begin, Ask, Hold, GiveUp, Release, LetGo, Sound, counters
      <3> QED
        BY <3>1
    <2>5. CASE Park \/ Wake \/ Leave \/ Pass \/ Probe \/ TakeBatch \/ Applies
      BY <2>5 DEF Park, Wake, Leave, Pass, Probe, TakeBatch, Applies, Sound, Fails, counters
    <2>6. CASE Busy \/ Broken
      BY <2>6 DEF Busy, Broken, BatchFails, Fails, Drop, counters
    <2>7. CASE Retry(FALSE) \/ Retry(TRUE) \/ RetryLands \/ RetryFails \/ RetryEnds
      BY <2>7 DEF Retry, RetryLands, RetryFails, RetryEnds, Sound, Fails, counters
    <2> QED
      BY <2>1, <2>2, <2>3, <2>4, <2>5, <2>6, <2>7 DEF SinkNext, Writer
  <1>2. turned \subseteq turned' /\ \A r \in Records : Terminal(r) /\ Stored(r) => Stored(r)'
    BY StepKeepsRows
  <1> QED
    BY <1>1, <1>2 DEF Settled, Counted

(* What a batch that commits writes, and what a busy one puts back or counts. *)
LEMMA BatchesSettle ==
    ASSUME SinkInv
    PROVE  /\ Applies => \A r \in RecordsIn(work) : Terminal(r) => Settled(r)'
           /\ Busy => /\ \A r \in RecordsIn(work) : Settled(r)' \/ r \in RecordsIn(queue')
                      /\ RecordsIn(queue) \subseteq RecordsIn(queue')
                      /\ FlushesIn(queue') = FlushesIn(queue)
  <1>i. /\ work \in Seq(Items) /\ queue \in Seq(Items) /\ rows \in [Turns -> Nat]
        /\ Len(queue) \in Nat /\ Len(queue) <= QueueMax
    BY DEF SinkInv, Types, SinkTypes
  <1>1. ASSUME Applies, NEW r \in RecordsIn(work), Terminal(r) PROVE Settled(r)'
    <2>1. rows' = UpsertAll(work, rows)
      BY <1>1 DEF Applies
    <2>2. r[1] \in stale \/ rows'[r[1]] = r[2]
      BY <1>i, <1>1, <2>1, BatchesUpsert
    <2>3. r[2] \in Nat /\ r[1] \in Turns /\ r[2] = Final[r[1]]
      BY <1>i, <1>1, PartsAreTyped, RecordsAreOfTurns DEF Terminal
    <2>4. rows[r[1]] = Final[r[1]] => rows'[r[1]] = r[2]
      BY <1>i, <2>1, <2>3, BatchesUpsert
    <2>5. r[1] \in stale /\ rows[r[1]] # Final[r[1]] => r[1] \in turned'
      BY <1>1 DEF Applies, TurnsAway, TurnsOf
    <2> QED
      BY <2>2, <2>3, <2>4, <2>5 DEF Settled, Stored, Counted
  <1>2. ASSUME Busy
        PROVE  /\ \A r \in RecordsIn(work) : Settled(r)' \/ r \in RecordsIn(queue')
               /\ RecordsIn(queue) \subseteq RecordsIn(queue')
               /\ FlushesIn(queue') = FlushesIn(queue)
    <2> DEFINE back == Fitting(work)
    <2>1. back \in Seq(Items) /\ FlushesIn(back) = {}
      BY <1>i, FittingFits
    <2>2. queue' = queue \o back /\ named' = named \cup TurnsOf(RecordsIn(work) \ RecordsIn(back))
      BY <1>2 DEF Busy, Drop
    <2> HIDE DEF back
    <2>3. /\ RecordsIn(queue') = RecordsIn(queue) \cup RecordsIn(back)
          /\ FlushesIn(queue') = FlushesIn(queue)
      <3>1. /\ RecordsIn(queue \o back) = RecordsIn(queue) \cup RecordsIn(back)
            /\ FlushesIn(queue \o back) = FlushesIn(queue) \cup FlushesIn(back)
        BY <1>i, <2>1, PartsOfJoin
      <3> QED
        BY <2>1, <2>2, <3>1
    <2>4. ASSUME NEW r \in RecordsIn(work), r \notin RecordsIn(back) PROVE Settled(r)'
      BY <2>2, <2>4 DEF TurnsOf, Settled, Counted
    <2> QED
      BY <2>3, <2>4
  <1> QED
    BY <1>1, <1>2

(* A caller's flush joins the queue behind the records. *)
LEMMA FlushesJoin ==
    ASSUME SinkInv, NEW c \in Callers, queue' = Append(queue, Item(c, 0))
    PROVE  RecordsIn(queue') = RecordsIn(queue) /\ FlushesIn(queue') = FlushesIn(queue) \cup {c}
  <1>1. Item(c, 0) \in Items /\ IsFlush(Item(c, 0)) /\ Item(c, 0).what = c
    BY SinkAssumption DEF Item, Items, IsFlush
  <1> QED
    BY <1>1, PartsOfAppend DEF SinkInv, Types

(* What an emission and its record do to the queue. *)
LEMMA EmissionsJoin ==
    ASSUME SinkInv, NEW t \in Turns, Put(t)
    PROVE  /\ Latest(t) \in Records
           /\ RecordsIn(queue) \subseteq RecordsIn(queue') /\ FlushesIn(queue') = FlushesIn(queue)
           /\ trusted' = IF closed THEN trusted ELSE trusted \cup {Latest(t)}
           /\ Latest(t) \in RecordsIn(queue') \/ Latest(t)[1] \in named'
           /\ UNCHANGED <<writer, work, set>>
  <1> DEFINE r == Latest(t)
  <1>1. /\ r \in Records /\ r[1] = t /\ Item(r, 0) \in Items
        /\ ~IsFlush(Item(r, 0)) /\ Item(r, 0).what = r
    BY LatestIsARecord DEF Put, SinkInv, Types
  <1>2. /\ \/ queue' = Append(queue, Item(r, 0))
           \/ named' = named \cup {t} /\ UNCHANGED queue
        /\ trusted' = IF closed THEN trusted ELSE trusted \cup {r}
        /\ UNCHANGED <<writer, work, set>>
    BY DEF Put, Drop, thread
  <1> HIDE DEF r
  <1>3. CASE queue' = Append(queue, Item(r, 0))
    <2>1. RecordsIn(queue') = RecordsIn(queue) \cup {r} /\ FlushesIn(queue') = FlushesIn(queue)
      BY <1>1, <1>3, PartsOfAppend DEF SinkInv, Types
    <2> QED
      BY <1>1, <1>2, <2>1 DEF r
  <1>4. CASE named' = named \cup {t} /\ UNCHANGED queue
    <2>1. r[1] \in named'
      BY <1>1, <1>4
    <2> QED
      BY <1>1, <1>2, <1>4, <2>1 DEF r
  <1> QED
    BY <1>2, <1>3, <1>4

(* No terminal record the degraded path took is lost in silence. *)
LEMMA StepKeepsTrack == SinkInv /\ [SinkNext]_sinkVars => Tracked'
  <1> SUFFICES ASSUME SinkInv, [SinkNext]_sinkVars, "broken" \notin past' PROVE Tracked'
    BY DEF Tracked
  <1>i. /\ trusted \subseteq Records
        /\ \A r \in trusted : Terminal(r) => Settled(r) \/ (writer \notin {"final", "done"} /\ Rides(r))
        /\ \A r \in Records : Terminal(r) /\ Settled(r) => Settled(r)'
    BY SettledStays DEF SinkInv, Types, SinkTypes, Tracked
  <1>1. ASSUME trusted' = trusted,
               \A r \in trusted : Terminal(r) /\ Rides(r) /\ writer \notin {"final", "done"} =>
                                      Settled(r)' \/ (writer' \notin {"final", "done"} /\ Rides(r)')
        PROVE  Tracked'
    BY <1>i, <1>1 DEF Tracked, Terminal
  <1>2. ASSUME trusted' = trusted, RecordsIn(queue) \subseteq RecordsIn(queue'),
               work' = work \/ writer # "apply",
               writer' = writer \/ (writer # "apply" /\ writer' \notin {"final", "done"})
        PROVE  Tracked'
    BY <1>1, <1>2 DEF Rides
  <1>3. CASE UNCHANGED sinkVars
    BY <1>2, <1>3 DEF sinkVars, emission, thread
  <1>4. CASE \E t \in Turns :
              Emit(t) \/ SyncWrites(t) \/ SyncFails(t) \/ Keep(t) \/ Supersede(t)
    BY <1>2, <1>4 DEF Emit, SyncWrites, SyncFails, Keep, Supersede, emission, thread
  <1>5. ASSUME NEW t \in Turns, Put(t) PROVE Tracked'
    <2> DEFINE r == Latest(t)
    <2>1. /\ r \in Records /\ RecordsIn(queue) \subseteq RecordsIn(queue')
          /\ trusted' = IF closed THEN trusted ELSE trusted \cup {r}
          /\ r \in RecordsIn(queue') \/ r[1] \in named'
          /\ UNCHANGED <<writer, work>>
      BY <1>5, EmissionsJoin
    <2>2. writer \in {"final", "done"} => closed
      BY DEF SinkInv, AtWork
    <2> HIDE DEF r
    <2>3. ASSUME NEW o \in trusted', Terminal(o)
          PROVE  Settled(o)' \/ (writer' \notin {"final", "done"} /\ Rides(o)')
      <3>1. CASE o \in trusted
        BY <1>i, <2>1, <2>3, <3>1 DEF Rides
      <3>2. CASE o = r /\ ~closed
        <4>1. o \in RecordsIn(queue') \/ o[1] \in named'
          BY <2>1, <3>2
        <4>2. writer' \notin {"final", "done"}
          BY <2>1, <2>2, <3>2
        <4> QED
          BY <4>1, <4>2 DEF Rides, Settled, Counted
      <3> QED
        BY <2>1, <3>1, <3>2
    <2> QED
      BY <2>3 DEF Tracked, Terminal
  <1>6. CASE Cool \/ Close \/ OpenRun \/ Certify
    BY <1>2, <1>6 DEF Cool, Close, OpenRun, Certify, emission, thread
  <1>7. CASE Barrier
    <2>1. RecordsIn(queue') = RecordsIn(queue) /\ UNCHANGED <<writer, work, trusted>>
      <3>1. queue' = Append(queue, Item(Run, 0)) \/ queue' = queue
        BY <1>7 DEF Barrier
      <3>2. Run \in Callers
        BY DEF Callers
      <3> QED
        BY <1>7, <3>1, <3>2, FlushesJoin DEF Barrier, emission, thread
    <2> QED
      BY <1>2, <2>1
  <1>8. ASSUME NEW s \in Archivers, Begin(s) PROVE Tracked'
    <2>1. RecordsIn(queue') = RecordsIn(queue) /\ UNCHANGED <<writer, work, trusted>>
      <3>1. queue' = Append(queue, Item(s, 0)) \/ queue' = queue
        BY <1>8 DEF Begin
      <3>2. s \in Callers
        BY DEF Callers
      <3> QED
        BY <1>8, <3>1, <3>2, FlushesJoin DEF Begin, emission, thread
    <2> QED
      BY <1>2, <2>1
  <1>9. CASE \E s \in Archivers : Ask(s) \/ Hold(s) \/ GiveUp(s) \/ Release(s)
    <2>1. UNCHANGED <<queue, writer, work, trusted>>
      BY <1>9 DEF Ask, Hold, GiveUp, Release, LetGo, emission, thread
    <2> QED
      BY <1>2, <2>1
  <1>10. CASE Park \/ Wake \/ Leave \/ Pass \/ Probe
    BY <1>2, <1>10 DEF Park, Wake, Leave, Pass, Probe, emission
  <1>11. CASE TakeBatch
    BY <1>1, <1>11 DEF TakeBatch, Rides, emission
  <1>12. CASE Applies
    <2>1. trusted' = trusted /\ queue' = queue /\ writer' = "loop"
      BY <1>12 DEF Applies, emission
    <2>2. \A r \in RecordsIn(work) : Terminal(r) => Settled(r)'
      BY <1>12, BatchesSettle
    <2> QED
      BY <1>1, <2>1, <2>2 DEF Rides
  <1>13. CASE Busy
    <2>1. trusted' = trusted /\ writer' = "loop"
      BY <1>13 DEF Busy, BatchFails, emission
    <2>2. /\ \A r \in RecordsIn(work) : Settled(r)' \/ r \in RecordsIn(queue')
          /\ RecordsIn(queue) \subseteq RecordsIn(queue')
      BY <1>13, BatchesSettle
    <2> QED
      BY <1>1, <2>1, <2>2 DEF Rides
  <1>14. CASE Broken
    BY <1>14 DEF Broken, BatchFails, Fails
  <1>15. CASE Retry(FALSE) \/ Retry(TRUE)
    <2>1. trusted' = trusted /\ queue = <<>> /\ writer \in {"loop", "next"}
      BY <1>15 DEF Retry, emission
    <2> QED
      BY <1>1, <2>1, PartsOfNothing DEF Rides
  <1>16. CASE RetryLands \/ RetryFails
    BY <1>2, <1>16 DEF RetryLands, RetryFails, Retrying, emission
  <1>17. CASE RetryEnds
    <2>1. trusted' = trusted /\ queue' = queue /\ writer \in {"retry", "final"}
          /\ (writer = "retry" => writer' \in {"probe", "loop"})
      BY <1>17 DEF RetryEnds, Retrying, emission
    <2> QED
      BY <1>1, <2>1 DEF Rides
  <1> QED
    BY <1>3, <1>4, <1>5, <1>6, <1>7, <1>8, <1>9, <1>10, <1>11, <1>12, <1>13, <1>14, <1>15, <1>16, <1>17
    DEF SinkNext, Writer, Emission

(* A flush is asked for by an archiver that begins or by the barrier of the run. *)
LEMMA FlushesAreAsked ==
    ASSUME SinkInv, [SinkNext]_sinkVars, NEW c \in Callers, c \in Unflushed'
    PROVE  \/ c \in Unflushed
           \/ c \in Archivers /\ Begin(c)
           \/ c = Run /\ Barrier
  <1> SUFFICES ASSUME ~(c \in Archivers /\ Begin(c)), ~(c = Run /\ Barrier) PROVE c \in Unflushed
    OBVIOUS
  <1>i. queue \in Seq(Items) /\ work \in Seq(Items)
    BY DEF SinkInv, Types
  <1>1. CASE UNCHANGED <<set, queue, work>>
    BY <1>1 DEF Unflushed
  <1>2. CASE UNCHANGED sinkVars
    BY <1>1, <1>2 DEF sinkVars, thread
  <1>3. CASE \E t \in Turns :
              Emit(t) \/ SyncWrites(t) \/ SyncFails(t) \/ Keep(t) \/ Supersede(t)
    BY <1>1, <1>3 DEF Emit, SyncWrites, SyncFails, Keep, Supersede, thread
  <1>4. CASE \E t \in Turns : Put(t)
    <2>1. FlushesIn(queue') = FlushesIn(queue) /\ UNCHANGED <<work, set>>
      BY <1>4, EmissionsJoin
    <2> QED
      BY <2>1 DEF Unflushed
  <1>5. CASE Cool \/ Close \/ OpenRun \/ Certify
    BY <1>1, <1>5 DEF Cool, Close, OpenRun, Certify, thread
  <1>6. CASE Barrier
    <2>1. (queue' = Append(queue, Item(Run, 0)) \/ queue' = queue) /\ UNCHANGED <<work, set>>
      BY <1>6 DEF Barrier, thread
    <2>2. Run \in Callers
      BY DEF Callers
    <2>3. FlushesIn(queue') \subseteq FlushesIn(queue) \cup {Run}
      BY <2>1, <2>2, FlushesJoin
    <2> QED
      BY <1>6, <2>1, <2>3 DEF Unflushed
  <1>7. ASSUME NEW s \in Archivers, Begin(s) PROVE c \in Unflushed
    <2>1. (queue' = Append(queue, Item(s, 0)) \/ queue' = queue) /\ UNCHANGED <<work, set>>
      BY <1>7 DEF Begin, thread
    <2>2. s \in Callers
      BY DEF Callers
    <2>3. FlushesIn(queue') \subseteq FlushesIn(queue) \cup {s}
      BY <2>1, <2>2, FlushesJoin
    <2> QED
      BY <1>7, <2>1, <2>3 DEF Unflushed
  <1>8. CASE \E s \in Archivers : Ask(s) \/ Hold(s) \/ GiveUp(s) \/ Release(s)
    <2>1. UNCHANGED <<set, queue, work>>
      BY <1>8 DEF Ask, Hold, GiveUp, Release, LetGo, thread
    <2> QED
      BY <1>1, <2>1
  <1>9. CASE Park \/ Wake \/ Leave \/ Pass \/ Probe
    BY <1>1, <1>9 DEF Park, Wake, Leave, Pass, Probe
  <1>10. CASE TakeBatch
    BY <1>10, PartsOfNothing DEF TakeBatch, Unflushed
  <1>11. CASE Applies
    BY <1>11, PartsOfNothing DEF Applies, Unflushed
  <1>12. CASE Busy
    <2>1. FlushesIn(queue') = FlushesIn(queue)
      BY <1>12, BatchesSettle
    <2> QED
      BY <1>12, <2>1, PartsOfNothing DEF Busy, BatchFails, Unflushed
  <1>13. CASE Broken
    BY <1>13, PartsOfNothing DEF Broken, BatchFails, Unflushed
  <1>14. CASE Retry(FALSE) \/ Retry(TRUE)
    <2>1. /\ work' = [i \in DOMAIN ring |-> Item(ring[i], 0)] /\ UNCHANGED <<queue, set>>
      BY <1>14 DEF Retry
    <2>2. FlushesIn(work') = {}
      BY <2>1, PartsOfRing DEF SinkInv, Types
    <2> QED
      BY <2>1, <2>2 DEF Unflushed
  <1>15. CASE RetryLands
    <2>1. work # <<>> /\ work' = Tail(work) /\ UNCHANGED <<queue, set>>
      BY <1>15 DEF RetryLands
    <2>2. FlushesIn(work') \subseteq FlushesIn(work)
      BY <1>i, <2>1, PartsOfTail
    <2> QED
      BY <2>1, <2>2 DEF Unflushed
  <1>16. CASE RetryFails \/ RetryEnds
    BY <1>16, PartsOfNothing DEF RetryFails, RetryEnds, Unflushed
  <1> QED
    BY <1>2, <1>3, <1>4, <1>5, <1>6, <1>7, <1>8, <1>9, <1>10, <1>11, <1>12, <1>13, <1>14, <1>15, <1>16
    DEF SinkNext, Writer, Emission

(* What the run covers is settled by the time its barrier is answered. *)
LEMMA StepKeepsCover == SinkInv /\ [SinkNext]_sinkVars => Covered'
  <1> SUFFICES ASSUME SinkInv, [SinkNext]_sinkVars PROVE Covered'
    OBVIOUS
  <1> DEFINE Fine == past' \cap {"busy", "broken"} = {}
             Waits(r) == run = "wait" /\ Run \notin set /\ Before(r)
  <1>i. /\ queue \in Seq(Items) /\ work \in Seq(Items)
        /\ covers \subseteq Records /\ trusted \subseteq Records /\ acknowledged \subseteq Records
        /\ Run \in Callers /\ Run \notin Archivers
    BY SinkAssumption DEF SinkInv, Types, SinkTypes, Callers
  <1>s. /\ \A r \in Records : Terminal(r) /\ Settled(r) => Settled(r)'
        /\ past \subseteq past'
    BY SettledStays
  <1>c. /\ run \in {"no", "open"} => Run \notin Unflushed
        /\ Run \notin FlushesIn(queue) \cap FlushesIn(work)
        /\ Fine /\ run \in {"wait", "certified"} =>
               \A r \in covers : Terminal(r) => Settled(r) \/ Waits(r)
    BY <1>s DEF SinkInv, Covered
  <1>0. ASSUME run' \in {"no", "open"} => run \in {"no", "open"} /\ ~Barrier
        PROVE  run' \in {"no", "open"} => Run \notin Unflushed'
    BY <1>0, <1>i, <1>c, FlushesAreAsked
  <1> HIDE DEF Fine
  (* Where the run, what it covers and its flush stay as they are. *)
  <1>1. ASSUME run' = run, covers' = covers, ~Barrier,
               Run \notin FlushesIn(queue') \cap FlushesIn(work'),
               Fine => \A r \in covers : Terminal(r) /\ Waits(r) => Settled(r)' \/ Waits(r)'
        PROVE  Covered'
    <2>1. run' \in {"no", "open"} => Run \notin Unflushed'
      BY <1>0, <1>1
    <2>2. ASSUME run' \in {"wait", "certified"}, Fine, NEW r \in covers', Terminal(r)
          PROVE  Settled(r)' \/ (run' = "wait" /\ Run \notin set' /\ Before(r)')
      BY <1>i, <1>s, <1>c, <1>1, <2>2
    <2> QED
      BY <1>1, <2>1, <2>2 DEF Covered, Terminal, Fine
  <1>2. ASSUME run' = run, covers' = covers, ~Barrier, work' = work, set' = set,
               RecordsIn(queue) \subseteq RecordsIn(queue'),
               FlushesIn(queue) \subseteq FlushesIn(queue'),
               Run \notin FlushesIn(queue) => Run \notin FlushesIn(queue'),
               writer' = writer \/ writer # "apply"
        PROVE  Covered'
    <2>1. \A r \in covers : Waits(r) => Waits(r)'
      BY <1>2 DEF Before
    <2> QED
      BY <1>c, <1>1, <1>2, <2>1
  <1>3. CASE UNCHANGED sinkVars
    <2>1. ~Barrier
      BY <1>3 DEF Barrier, sinkVars, callers
    <2> QED
      BY <1>2, <1>3, <2>1 DEF sinkVars, thread, callers
  <1>4. CASE \E t \in Turns :
              Emit(t) \/ SyncWrites(t) \/ SyncFails(t) \/ Keep(t) \/ Supersede(t)
    BY <1>2, <1>4 DEF Emit, SyncWrites, SyncFails, Keep, Supersede, thread, callers, Barrier
  <1>5. ASSUME NEW t \in Turns, Put(t) PROVE Covered'
    <2>1. /\ RecordsIn(queue) \subseteq RecordsIn(queue') /\ FlushesIn(queue') = FlushesIn(queue)
          /\ UNCHANGED <<writer, work, set>>
      BY <1>5, EmissionsJoin
    <2>2. UNCHANGED <<run, covers>> /\ ~Barrier
      BY <1>5 DEF Put, callers, Barrier
    <2> QED
      BY <1>2, <2>1, <2>2
  <1>6. CASE Cool \/ Close
    BY <1>2, <1>6 DEF Cool, Close, thread, callers, Barrier
  <1>7. CASE OpenRun
    <2>1. /\ run = "no" /\ run' = "open" /\ UNCHANGED <<queue, work>> /\ ~Barrier
      BY <1>7 DEF OpenRun, thread, Barrier
    <2> QED
      BY <1>0, <1>c, <2>1 DEF Covered
  <1>8. CASE Barrier
    <2>1. /\ run = "open" /\ run' \in {"wait", "refused"} /\ covers' = acknowledged \cup trusted
          /\ UNCHANGED <<work, set, writer>>
          /\ run' = "wait" => queue' = Append(queue, Item(Run, 0))
          /\ run' = "refused" => queue' = queue
      BY <1>8 DEF Barrier, thread
    <2>2. CASE run' = "refused"
      BY <1>c, <2>1, <2>2 DEF Covered
    <2>3. CASE run' = "wait"
      <3>1. /\ RecordsIn(queue') = RecordsIn(queue) /\ FlushesIn(queue') = FlushesIn(queue) \cup {Run}
            /\ Run \notin set /\ Run \notin FlushesIn(work)
        BY <1>i, <1>c, <2>1, <2>3, FlushesJoin DEF Unflushed
      <3>2. ASSUME Fine, NEW r \in covers', Terminal(r)
            PROVE  Settled(r)' \/ Waits(r)'
        <4>1. CASE r \in acknowledged
          <5>1. /\ rows[r[1]] = r[2] \/ r[1] \in turned
                /\ r[2] \in Nat /\ r \in Records
            BY <1>i, <3>2, <4>1, RecordsAreOfTurns DEF SinkInv, AckedIsFinal
          <5>2. Settled(r)
            BY <5>1 DEF Settled, Stored, Counted
          <5> QED
            BY <1>s, <3>2, <5>1, <5>2
        <4>2. CASE r \in trusted
          <5>1. Settled(r) \/ Rides(r)
            BY <1>s, <3>2, <4>2 DEF SinkInv, Tracked, Fine
          <5>2. CASE Settled(r)
            BY <1>i, <1>s, <3>2, <4>2, <5>2
          <5>3. CASE Rides(r)
            BY <2>1, <2>3, <3>1, <5>3 DEF Rides, Before
          <5> QED
            BY <5>1, <5>2, <5>3
        <4> QED
          BY <2>1, <3>2, <4>1, <4>2
      <3> QED
        BY <2>1, <2>3, <3>1, <3>2 DEF Covered, Terminal, Fine
    <2> QED
      BY <2>1, <2>2, <2>3
  <1>9. CASE Certify
    <2>1. /\ run = "wait" /\ run' \in {"certified", "refused"} /\ (run' = "certified" => Run \in set)
          /\ UNCHANGED <<queue, work, set, covers, writer>>
      BY <1>9 DEF Certify, thread
    <2>2. ASSUME run' = "certified", Fine, NEW r \in covers', Terminal(r) PROVE Settled(r)'
      BY <1>i, <1>s, <1>c, <2>1, <2>2
    <2> QED
      BY <1>c, <2>1, <2>2 DEF Covered, Terminal, Fine
  <1>10. ASSUME NEW s \in Archivers, Begin(s) PROVE Covered'
    <2>1. /\ queue' = Append(queue, Item(s, 0)) \/ queue' = queue
          /\ UNCHANGED <<writer, work, set, run, covers>> /\ ~Barrier
      BY <1>10 DEF Begin, thread, Barrier
    <2>2. s \in Callers /\ s # Run
      BY <1>i DEF Callers
    <2>3. RecordsIn(queue') = RecordsIn(queue) /\ (queue' = queue \/ FlushesIn(queue') = FlushesIn(queue) \cup {s})
      BY <2>1, <2>2, FlushesJoin
    <2> QED
      BY <1>2, <2>1, <2>2, <2>3
  <1>11. CASE \E s \in Archivers : Ask(s) \/ Hold(s) \/ GiveUp(s) \/ Release(s)
    <2>1. UNCHANGED <<queue, writer, work, set, run, covers>> /\ ~Barrier
      BY <1>11 DEF Ask, Hold, GiveUp, Release, LetGo, thread, Barrier
    <2> QED
      BY <1>2, <2>1
  <1>12. CASE Park \/ Wake \/ Leave \/ Pass \/ Probe
    BY <1>2, <1>12 DEF Park, Wake, Leave, Pass, Probe, callers, Barrier
  <1>13. CASE TakeBatch
    <2>1. /\ UNCHANGED <<run, covers, set>> /\ ~Barrier /\ writer # "apply"
          /\ writer' = "apply" /\ work' = queue /\ queue' = <<>>
      BY <1>13 DEF TakeBatch, callers, Barrier
    <2>2. \A r \in covers : Waits(r) => Waits(r)'
      BY <2>1 DEF Before
    <2> QED
      BY <1>1, <2>1, <2>2, PartsOfNothing
  <1>14. CASE Applies
    <2>1. /\ UNCHANGED <<run, covers, queue>> /\ ~Barrier
          /\ writer' = "loop" /\ work' = <<>> /\ set' = set \cup FlushesIn(work)
      BY <1>14 DEF Applies, callers, Barrier
    <2>2. \A r \in RecordsIn(work) : Terminal(r) => Settled(r)'
      BY <1>14, BatchesSettle
    <2>3. ASSUME NEW r \in covers, Waits(r), r \notin RecordsIn(work) PROVE Waits(r)'
      BY <1>c, <2>1, <2>3 DEF Before
    <2> QED
      BY <1>1, <2>1, <2>2, <2>3, PartsOfNothing
  <1>15. CASE Busy \/ Broken
    <2>1. /\ UNCHANGED <<run, covers>> /\ ~Barrier /\ work' = <<>> /\ ~Fine
      BY <1>15 DEF Busy, Broken, BatchFails, Fails, callers, Barrier, Fine
    <2> QED
      BY <1>1, <2>1, PartsOfNothing
  <1>16. CASE Retry(FALSE) \/ Retry(TRUE)
    <2>1. /\ UNCHANGED <<run, covers, set, queue>> /\ ~Barrier /\ queue = <<>> /\ writer # "apply"
      BY <1>16 DEF Retry, callers, Barrier
    <2>2. \A r \in covers : ~Waits(r)
      BY <2>1, PartsOfNothing DEF Before
    <2> QED
      BY <1>1, <2>1, <2>2, PartsOfNothing
  <1>17. CASE RetryLands
    <2>1. /\ UNCHANGED <<run, covers, set, queue, writer>> /\ ~Barrier /\ work # <<>>
          /\ work' = Tail(work) /\ writer # "apply"
      BY <1>17 DEF RetryLands, Retrying, callers, Barrier
    <2>2. FlushesIn(work') \subseteq FlushesIn(work)
      BY <1>i, <2>1, PartsOfTail
    <2>3. \A r \in covers : Waits(r) => Waits(r)'
      BY <2>1 DEF Before
    <2> QED
      BY <1>c, <1>1, <2>1, <2>2, <2>3
  <1>18. CASE RetryFails \/ RetryEnds
    <2>1. /\ UNCHANGED <<run, covers, set, queue>> /\ ~Barrier /\ writer # "apply"
          /\ work' = <<>>
      BY <1>18 DEF RetryFails, RetryEnds, Retrying, callers, Barrier
    <2>2. \A r \in covers : Waits(r) => Waits(r)'
      BY <2>1 DEF Before
    <2> QED
      BY <1>1, <2>1, <2>2, PartsOfNothing
  <1> QED
    BY <1>3, <1>4, <1>5, <1>6, <1>7, <1>8, <1>9, <1>10, <1>11, <1>12, <1>13, <1>14, <1>15, <1>16, <1>17,
       <1>18 DEF SinkNext, Writer, Emission

(* The writer stands still under an archiver, and moves on between two. *)
LEMMA StepKeepsParking == SinkInv /\ [SinkNext]_sinkVars => Parking'
  <1> SUFFICES ASSUME SinkInv, [SinkNext]_sinkVars PROVE Parking'
    OBVIOUS
  <1>i. /\ archive \in [Archivers -> {"no", "flush", "ask", "held", "free", "done"}]
        /\ parked \in BOOLEAN /\ request \in BOOLEAN /\ Archivers \subseteq Callers
        /\ Run \notin Archivers
    BY SinkAssumption DEF SinkInv, Types, SinkTypes, Callers
  <1>p. /\ parked <=> writer \in {"parked", "leaving"}
        /\ \A s, o \in Archivers : Holds(s) /\ Holds(o) => s = o
        /\ request <=> \E s \in Archivers : Asks(s)
        /\ \A s \in Archivers :
            /\ archive[s] = "no" => s \notin Unflushed
            /\ Asks(s) /\ ~closed => writer # "leaving"
            /\ archive[s] = "flush" /\ s \in set => writer \notin {"parked", "leaving"}
            /\ archive[s] = "held" /\ ~closed => writer = "parked"
    BY DEF SinkInv, Parking, StillWhileHeld
  (* Where the archivers stay as they are. *)
  <1>1. ASSUME archive' = archive, request' = request, parked' <=> writer' \in {"parked", "leaving"},
               closed => closed', \A s \in Archivers : ~Begin(s),
               \A s \in Archivers : Asks(s) /\ ~closed' => writer' # "leaving",
               \A s \in Archivers : archive[s] = "flush" /\ s \in set' => writer' \notin {"parked", "leaving"},
               \A s \in Archivers : archive[s] = "held" /\ ~closed' => writer' = "parked"
        PROVE  Parking'
    <2>1. \A s \in Archivers : archive'[s] = "no" => s \notin Unflushed'
      BY <1>i, <1>p, <1>1, FlushesAreAsked
    <2> QED
      BY <1>p, <1>1, <2>1 DEF Parking, StillWhileHeld, Holds, Asks
  <1>2. ASSUME archive' = archive, request' = request, parked' = parked, writer' = writer, closed => closed',
               set' = set, \A s \in Archivers : ~Begin(s)
        PROVE  Parking'
    BY <1>p, <1>1, <1>2
  (* A writer that is at work neither stands still nor leaves a pause. *)
  <1>3. ASSUME archive' = archive, request' = request, parked' = parked, closed' = closed,
               writer \notin {"parked", "leaving"}, writer' \notin {"parked", "leaving"},
               \A s \in Archivers : ~Begin(s)
        PROVE  Parking'
    BY <1>p, <1>1, <1>3
  <1>4. CASE UNCHANGED sinkVars
    <2>1. \A s \in Archivers : ~Begin(s)
      BY <1>4, <1>i DEF Begin, sinkVars, callers
    <2> QED
      BY <1>2, <1>4, <2>1 DEF sinkVars, thread, callers
  <1>5. CASE \E t \in Turns : Emit(t) \/ Emission(t) \/ Supersede(t)
    <2>1. UNCHANGED <<archive, request, parked, writer, closed, set>>
      BY <1>5 DEF Emit, Emission, SyncWrites, SyncFails, Keep, Put, Supersede, thread, callers
    <2>2. \A s \in Archivers : ~Begin(s)
      BY <2>1, <1>i DEF Begin
    <2> QED
      BY <1>2, <2>1, <2>2
  <1>6. CASE Cool \/ Close \/ OpenRun \/ Barrier \/ Certify
    <2>1. UNCHANGED <<archive, request, parked, writer, set>> /\ (closed => closed')
      BY <1>6 DEF Cool, Close, OpenRun, Barrier, Certify, thread, callers
    <2>2. \A s \in Archivers : ~Begin(s)
      BY <2>1, <1>i DEF Begin
    <2> QED
      BY <1>2, <2>1, <2>2
  <1>7. CASE Park
    <2>1. /\ UNCHANGED <<archive, request, closed, set>> /\ request /\ ~closed /\ writer = "loop"
          /\ writer' = "parked" /\ parked'
      BY <1>7 DEF Park, callers
    <2>2. PICK s \in Archivers : Asks(s)
      BY <1>p, <2>1
    <2>3. \A o \in Archivers : archive[o] # "flush"
      BY <1>p, <2>2 DEF Asks, Holds
    <2>4. \A o \in Archivers : ~Begin(o)
      BY <2>1, <1>i DEF Begin
    <2> QED
      BY <1>1, <1>p, <2>1, <2>3, <2>4
  <1>8. CASE Wake
    <2>1. /\ UNCHANGED <<archive, request, closed, set, parked>> /\ (request => closed)
          /\ writer = "parked" /\ writer' = "leaving"
      BY <1>8 DEF Wake, callers
    <2>2. \A o \in Archivers : ~Begin(o)
      BY <2>1, <1>i DEF Begin
    <2>3. \A s \in Archivers : archive[s] = "held" => Asks(s)
      BY DEF Asks
    <2> QED
      BY <1>1, <1>p, <2>1, <2>2, <2>3
  <1>9. CASE Leave
    <2>1. /\ UNCHANGED <<archive, request, closed, set>> /\ ~parked'
          /\ writer = "leaving" /\ writer' = "next"
      BY <1>9 DEF Leave, callers
    <2>2. \A o \in Archivers : ~Begin(o)
      BY <2>1, <1>i DEF Begin
    <2> QED
      BY <1>1, <1>p, <2>1, <2>2
  <1>10. CASE Pass \/ Probe \/ TakeBatch \/ Applies \/ Busy \/ Broken \/ Retry(FALSE) \/ Retry(TRUE)
              \/ RetryLands \/ RetryFails \/ RetryEnds
    <2>1. /\ UNCHANGED <<archive, request, parked, closed>>
          /\ writer \notin {"parked", "leaving"} /\ writer' \notin {"parked", "leaving"}
      BY <1>10 DEF Pass, Probe, TakeBatch, Applies, Busy, Broken, BatchFails, Retry, RetryLands, RetryFails,
                   RetryEnds, Retrying, callers
    <2>2. \A s \in Archivers : ~Begin(s)
      BY <2>1, <1>i DEF Begin
    <2> QED
      BY <1>3, <2>1, <2>2
  (* An archiver moves on. *)
  <1>11. ASSUME NEW s \in Archivers, Begin(s) PROVE Parking'
    <2>1. /\ archive[s] = "no" /\ \A o \in Archivers : ~Holds(o)
          /\ UNCHANGED <<request, parked, writer, closed, set>>
      BY <1>11 DEF Begin, thread
    <2>2. PICK to \in {"free", "flush", "done"} : archive' = [archive EXCEPT ![s] = to]
      BY <1>11 DEF Begin
    <2>3. archive' \in [Archivers -> {"no", "flush", "ask", "held", "free", "done"}]
          /\ archive'[s] = to /\ \A o \in Archivers \ {s} : archive'[o] = archive[o]
      BY <1>i, <2>2
    <2>4. \A o \in Archivers : Asks(o)' <=> Asks(o)
      BY <2>1, <2>2, <2>3 DEF Asks
    <2>5. \A o \in Archivers : Holds(o)' => o = s
      BY <2>1, <2>3 DEF Holds
    <2>6. ASSUME NEW o \in Archivers, archive'[o] = "no" PROVE o \notin Unflushed'
      <3>1. o # s /\ archive[o] = "no" /\ o \in Callers /\ o \notin Unflushed /\ o # Run
        BY <1>i, <1>p, <2>2, <2>3, <2>6
      <3>2. ~Begin(o)
        <4>1. archive'[o] = archive[o]
          BY <2>3, <3>1
        <4> QED
          BY <4>1, <3>1, <1>i DEF Begin
      <3> QED
        BY <3>1, <3>2, FlushesAreAsked
    <2>7. s \notin set
      BY <1>p, <2>1 DEF Unflushed
    <2> QED
      BY <1>p, <2>1, <2>2, <2>3, <2>4, <2>5, <2>6, <2>7 DEF Parking, StillWhileHeld, Asks
  <1>12. ASSUME NEW s \in Archivers, Ask(s) \/ Hold(s) \/ GiveUp(s) \/ Release(s) PROVE Parking'
    <2>1. UNCHANGED <<queue, work, parked, writer, closed, set>>
      BY <1>12 DEF Ask, Hold, GiveUp, Release, LetGo, thread
    <2>2. PICK to \in {"ask", "held", "done"} : archive' = [archive EXCEPT ![s] = to]
      BY <1>12 DEF Ask, Hold, GiveUp, Release, LetGo
    <2>3. archive'[s] = to /\ \A o \in Archivers \ {s} : archive'[o] = archive[o]
      BY <1>i, <2>2
    <2>4. Holds(s) /\ \A o \in Archivers : Holds(o)' => Holds(o)
      BY <1>12, <2>3 DEF Ask, Hold, GiveUp, Release, Holds
    <2>5. \A o \in Archivers \ {s} : ~Holds(o) /\ ~Asks(o)
      BY <1>p, <2>4 DEF Holds, Asks
    <2>6. \A o \in Archivers : archive'[o] = "no" => o \notin Unflushed'
      BY <1>p, <2>1, <2>2, <2>3 DEF Unflushed
    <2>7. request' <=> Asks(s)'
      <3>1. request <=> Asks(s)
        BY <1>p, <2>5
      <3>2. CASE Ask(s)
        BY <1>i, <3>2 DEF Ask, Asks
      <3>3. CASE Hold(s)
        BY <1>i, <3>1, <3>3 DEF Hold, Asks
      <3>4. CASE GiveUp(s) \/ Release(s)
        BY <1>i, <3>1, <3>4 DEF GiveUp, Release, LetGo, Asks
      <3> QED
        BY <1>12, <3>2, <3>3, <3>4
    <2>8. (Asks(s)' /\ ~closed => writer # "leaving") /\ (archive'[s] = "held" /\ ~closed => writer = "parked")
      <3>1. CASE Ask(s)
        BY <1>i, <1>p, <3>1 DEF Ask
      <3>2. CASE Hold(s)
        BY <1>i, <1>p, <3>2 DEF Hold, Asks
      <3>3. CASE GiveUp(s) \/ Release(s)
        BY <1>i, <3>3 DEF GiveUp, Release, LetGo, Asks
      <3> QED
        BY <1>12, <3>1, <3>2, <3>3
    <2>9. \A o \in Archivers \ {s} : ~Asks(o)' /\ archive'[o] \notin {"flush", "held"} /\ ~Holds(o)'
      BY <2>3, <2>5 DEF Holds, Asks
    <2> QED
      BY <1>p, <2>1, <2>2, <2>3, <2>6, <2>7, <2>8, <2>9 DEF Parking, StillWhileHeld, Asks
  <1> QED
    BY <1>4, <1>5, <1>6, <1>7, <1>8, <1>9, <1>10, <1>11, <1>12 DEF SinkNext, Writer

----------------------------------------------------------------------------
LEMMA SinkInitHolds == SinkInit => SinkInv
  <1> SUFFICES ASSUME SinkInit PROVE SinkInv
    OBVIOUS
  <1>1. PICK world \in Worlds :
            /\ archive = [s \in Archivers |-> IF s \in world.who THEN "no" ELSE "done"]
            /\ run = IF Run \in world.who THEN "no" ELSE "refused"
            /\ left = world.faults
    BY DEF SinkInit
  <1>2. left \in Nat
    BY <1>1, SinkAssumption
  <1>3. ToSet(<<>>) = {} /\ <<>> \in Seq(Items) /\ <<>> \in Seq(Entries) /\ Len(<<>>) = 0
    BY DEF ToSet
  <1>4. SinkTypes
    <2>1. archive \in [Archivers -> {"no", "flush", "ask", "held", "free", "done"}]
          /\ run \in {"no", "open", "wait", "certified", "refused"}
      BY <1>1
    <2>2. \A t \in Turns : 0 <= Final[t]
      BY SinkAssumption
    <2>3. rows \in [Turns -> Nat] /\ sent \in [Turns -> Nat]
          /\ \A t \in Turns : rows[t] <= sent[t] /\ sent[t] <= Final[t]
      BY <2>2 DEF SinkInit
    <2>4. ToSet(queue) \cup ToSet(work) \subseteq Items /\ Len(queue) <= QueueMax
          /\ ToSet(ring) \subseteq {r \in Records : Terminal(r)} /\ Len(ring) <= RingMax
      BY <1>3, SinkAssumption DEF SinkInit
    <2>5. /\ acknowledged = {} /\ trusted = {} /\ covers = {} /\ landed = {} /\ named = {} /\ set = {}
          /\ past = {} /\ {request, parked, dropped, closed} \subseteq BOOLEAN
          /\ stale = {} /\ turned = {}
      BY DEF SinkInit
    <2>6. /\ at \in [Turns -> {"idle", "sync", "keep", "put"}] /\ breaker = "shut" /\ writer = "loop"
      BY DEF SinkInit
    <2> QED
      BY <1>2, <2>1, <2>3, <2>4, <2>5, <2>6 DEF SinkTypes
  <1>5. Types
    BY <1>3, <1>4 DEF SinkInit, Types
  <1>6. Emitted /\ AtWork /\ AckedIsFinal /\ Tracked /\ Covered
    BY <1>1, <1>3, PartsOfNothing
    DEF SinkInit, Emitted, AtWork, AckedIsFinal, Tracked, Covered, Unflushed
  <1>7. Parking
    BY <1>1, PartsOfNothing DEF SinkInit, Parking, StillWhileHeld, Holds, Asks, Unflushed
  <1> QED
    BY <1>5, <1>6, <1>7 DEF SinkInv

LEMMA SinkStep == SinkInv /\ [SinkNext]_sinkVars => SinkInv'
  BY StepKeepsTypes, StepKeepsWork, StepKeepsRows, StepKeepsTrack, StepKeepsCover, StepKeepsParking
  DEF SinkInv

LEMMA SinkInvariant == SinkSpec => []SinkInv
  BY SinkInitHolds, SinkStep, PTL DEF SinkSpec

(* The variables of the sink have their types; its queue and its ring keep    *)
(* their limits, whatever fails and whoever calls (_queue_turn_row,           *)
(* _remember_pending, _requeue_records).                                      *)
THEOREM SinkTypesHold == SinkSpec => []SinkTypes
  <1>1. SinkInv => SinkTypes
    BY DEF SinkInv, Types
  <1> QED
    BY <1>1, SinkInvariant, PTL

(* A terminal record that was acknowledged is the row of its turn for good,   *)
(* unless its claim had gone stale: no record that drains later takes its     *)
(* place (emit_turn_record, upsert_turn_row).                                 *)
THEOREM AcknowledgedIsDurable == SinkSpec => []AckedIsFinal
  <1>1. SinkInv => AckedIsFinal
    BY DEF SinkInv
  <1> QED
    BY <1>1, SinkInvariant, PTL

(* While the worst that happens is a busy database, a terminal record the     *)
(* degraded path took is stored, counted or still with the writer             *)
(* (_requeue_records, close).                                                 *)
THEOREM LossesAreCounted == SinkSpec => []NothingLostInSilence
  <1>1. SinkInv => NothingLostInSilence
    BY DEF SinkInv, Tracked, NothingLostInSilence, Settled, Rides, Held
  <1> QED
    BY <1>1, SinkInvariant, PTL

(* An archiver of an open sink reads while the writer stands still, and a     *)
(* valid evidence run holds what was emitted before its barrier (quiesced,    *)
(* evidence_run).                                                             *)
THEOREM ArchivesStayWhole == SinkSpec => []ArchivesAreWhole
  <1>1. SinkInv => ArchivesAreWhole
    <2>1. SinkInv => StillWhileHeld
      BY DEF SinkInv, Parking
    <2>2. SinkInv => CertifiedHasItsRecords
      BY DEF SinkInv, Covered, CertifiedHasItsRecords, Settled
    <2> QED
      BY <2>1, <2>2 DEF ArchivesAreWhole
  <1> QED
    BY <1>1, SinkInvariant, PTL
=============================================================================
