--------------------------- MODULE CheckpointStore ---------------------------
(***************************************************************************)
(* The durable record of one channel (src/fastworkflow/checkpoint_store.py *)
(* ChannelCheckpointStore), at the granularity a crash can see: a step is  *)
(* one rename, one unlink, or a bulk of writes no reader looks at.         *)
(*                                                                         *)
(*   <channel>/GENERATION_FLOOR     the floor a reset left behind          *)
(*   <channel>/COMMIT               names a generation; its replacement is *)
(*                                  what publishes it                      *)
(*   <channel>/gen/.pending-N-<id>  being written                          *)
(*   <channel>/gen/N                a complete generation                  *)
(*                                                                         *)
(* Channels are independent directories, so one is modelled.  It has one   *)
(* writer at a time, as the store requires of its callers: the reaper and  *)
(* the operator's verbs are not run on a channel that is being published.  *)
(***************************************************************************)
EXTENDS Naturals, FiniteSets

CONSTANTS
    Incarnations,      \* session lifetimes
    Contents,          \* what a snapshot holds, up to its content digest
    Nothing,           \* no record
    MaxGeneration,     \* bound on the generation numbers of a behaviour
    MaxFaults          \* bound on the damage done to the disk

ASSUME BoundsAssumption == MaxGeneration \in Nat /\ MaxFaults \in Nat

Record == [inc : Incarnations, val : Contents]

ASSUME NothingAssumption == Nothing \notin Record

Generations == 1 .. MaxGeneration

VARIABLES
    present,  \* the channel directory exists
    floor,    \* its GENERATION_FLOOR, 0 if none
    commit,   \* its COMMIT
    gens,     \* its gen/N directories
    op,       \* the operation in progress, in the memory of its process
    faults,   \* how often the disk was damaged
    acked,    \* history: what the last finished publication promised
    refused   \* history: the disk has refused to set COMMIT, as it is now, aside

dirVars == <<present, floor, commit, gens>>
vars == <<present, floor, commit, gens, op, faults, acked, refused>>

NoCommit == [gen |-> 0, rec |-> Nothing, readable |-> FALSE]
Commit == [gen : Generations, rec : Record, readable : BOOLEAN]

Absent == [rec |-> Nothing, state |-> "absent"]
Generation == [rec : Record, state : {"whole", "incomplete", "corrupt"}]

Idle == [at |-> "idle", rec |-> Nothing, gen |-> 0]
Operation == [at  : {"idle", "publishing", "pending", "named", "committed",
                     "resetting", "uncommitted"},
              rec : Record \cup {Nothing},
              gen : 0 .. MaxGeneration]

TypeOK ==
    /\ present \in BOOLEAN
    /\ floor \in 0 .. MaxGeneration
    /\ commit \in Commit \cup {NoCommit}
    /\ gens \in [Generations -> Generation \cup {Absent}]
    /\ op \in Operation
    /\ faults \in 0 .. MaxFaults
    /\ acked \in Record \cup {Nothing}
    /\ refused \in BOOLEAN

Init ==
    /\ present = FALSE
    /\ floor = 0
    /\ commit = NoCommit
    /\ gens = [g \in Generations |-> Absent]
    /\ op = Idle
    /\ faults = 0
    /\ acked = Nothing
    /\ refused = FALSE

-----------------------------------------------------------------------------
OnDisk == {g \in Generations : gens[g].state # "absent"}
Committed == commit # NoCommit
Unreadable == Committed /\ ~commit.readable

(* load_for_adoption: everything COMMIT names is there, whole, and agrees. *)
Loadable ==
    /\ Committed
    /\ commit.readable
    /\ gens[commit.gen] = [rec |-> commit.rec, state |-> "whole"]
Loaded == IF Loadable THEN commit.rec ELSE Nothing

(* The channel directory leaves the live namespace with one rename. *)
DirectoryGone ==
    /\ present' = FALSE
    /\ floor' = 0
    /\ commit' = NoCommit
    /\ gens' = [g \in Generations |-> Absent]
    /\ acked' = Nothing
    /\ refused' = FALSE

(* _quarantine: best effort.  If the rename fails, or the channel has no   *)
(* directory, everything stays where it is and the caller is not told.     *)
SetAside ==
    \/ present /\ DirectoryGone
    \/ refused' = TRUE /\ UNCHANGED <<dirVars, acked>>

-----------------------------------------------------------------------------
(* publish, up to the choice of a generation.  A readable COMMIT of        *)
(* another session lifetime refuses, which is no step.                     *)

(* The same content is committed and structurally present: nothing to do.  *)
(* A corrupt part is not noticed here; nothing is promised about it.       *)
Republish(r) ==
    /\ op = Idle
    /\ Committed /\ commit.readable
    /\ commit.rec = r
    /\ gens[commit.gen].state \in {"whole", "corrupt"}
    /\ acked' = IF Loadable THEN r ELSE acked
    /\ UNCHANGED <<dirVars, op, faults, refused>>

(* Deviation: a COMMIT that cannot be read is treated as no COMMIT. *)
StartPublishOverDamage(r) ==
    /\ op = Idle
    /\ (Committed /\ commit.readable) =>
          /\ commit.rec.inc = r.inc
          /\ ~(/\ commit.rec = r
               /\ gens[commit.gen].state \in {"whole", "corrupt"})
    /\ UNCHANGED <<dirVars, acked>>
    /\ op' = [at |-> "publishing", rec |-> r,
              gen |-> IF Committed /\ commit.readable THEN commit.gen ELSE 0]
    /\ UNCHANGED <<faults, refused>>

(* Deviation: the incarnation of the committed record is not compared. *)
StartPublishOverOthers(r) ==
    /\ op = Idle
    /\ (Committed /\ commit.readable) =>
          ~(/\ commit.rec = r
            /\ gens[commit.gen].state \in {"whole", "corrupt"})
    /\ IF Unreadable THEN SetAside ELSE UNCHANGED <<dirVars, acked, refused>>
    /\ op' = [at |-> "publishing", rec |-> r,
              gen |-> IF Committed /\ commit.readable THEN commit.gen ELSE 0]
    /\ UNCHANGED faults

(* Otherwise the committed number is remembered, and a COMMIT that cannot  *)
(* be read is first set aside with everything beside it.                   *)
StartPublish(r) ==
    /\ op = Idle
    /\ (Committed /\ commit.readable) =>
          /\ commit.rec.inc = r.inc
          /\ ~(/\ commit.rec = r
               /\ gens[commit.gen].state \in {"whole", "corrupt"})
    /\ IF Unreadable THEN SetAside ELSE UNCHANGED <<dirVars, acked, refused>>
    /\ op' = [at |-> "publishing", rec |-> r,
              gen |-> IF Committed /\ commit.readable THEN commit.gen ELSE 0]
    /\ UNCHANGED faults

(* Deviation: the floor a reset left is not consulted. *)
NumberedWithoutFloor(g) ==
    LET numbers == {0, op.gen} \cup OnDisk
    IN  /\ \A n \in numbers : n < g
        /\ g - 1 \in numbers

(* _next_generation: one above the committed number, the floor and every   *)
(* gen/N on disk, committed or not.                                        *)
Numbered(g) ==
    LET numbers == {0, op.gen, floor} \cup OnDisk
    IN  /\ \A n \in numbers : n < g
        /\ g - 1 \in numbers

(* The directories are made and the parts and the manifest written into    *)
(* gen/.pending-N.                                                         *)
WritePending(g) ==
    /\ op.at = "publishing"
    /\ Numbered(g)
    /\ present' = TRUE
    /\ op' = [op EXCEPT !.at = "pending", !.gen = g]
    /\ UNCHANGED <<floor, commit, gens, faults, acked, refused>>

(* .pending-N is renamed to gen/N: complete, and still invisible. *)
NameGeneration ==
    /\ op.at = "pending"
    /\ gens' = [gens EXCEPT ![op.gen] = [rec |-> op.rec, state |-> "whole"]]
    /\ op' = [op EXCEPT !.at = "named"]
    /\ UNCHANGED <<present, floor, commit, faults, acked, refused>>

(* Deviation: COMMIT is replaced before the generation is in its place. *)
ReplaceCommitEarly ==
    /\ op.at = "pending"
    /\ commit' = [gen |-> op.gen, rec |-> op.rec, readable |-> TRUE]
    /\ op' = [op EXCEPT !.at = "committed"]
    /\ refused' = FALSE
    /\ UNCHANGED <<present, floor, gens, faults, acked>>

(* COMMIT is replaced: the one step that makes the record visible. *)
ReplaceCommit ==
    /\ op.at = "named"
    /\ commit' = [gen |-> op.gen, rec |-> op.rec, readable |-> TRUE]
    /\ op' = [op EXCEPT !.at = "committed"]
    /\ refused' = FALSE
    /\ UNCHANGED <<present, floor, gens, faults, acked>>

(* _prune_generations keeps the new generation and the number before it;   *)
(* the liveness marker is touched and the publication returns.             *)
Prune ==
    /\ op.at = "committed"
    /\ gens' = [g \in Generations |->
                   IF g \in {op.gen, op.gen - 1} THEN gens[g] ELSE Absent]
    /\ acked' = op.rec
    /\ op' = Idle
    /\ UNCHANGED <<present, floor, commit, faults, refused>>

-----------------------------------------------------------------------------
(* The other operations. *)

(* load_for_adoption, or load by a caller that knows its incarnation: a    *)
(* record that cannot be applied is set aside.  A whole one is no step.    *)
LoadDamaged ==
    /\ op = Idle
    /\ Committed
    /\ ~Loadable
    /\ SetAside
    /\ UNCHANGED <<op, faults>>

(* The runtime cannot be rebuilt from the record, or a caller asserts an   *)
(* incarnation that is not the stored one: quarantine, whatever is there.  *)
Quarantine ==
    /\ op = Idle
    /\ present
    /\ SetAside
    /\ UNCHANGED <<op, faults>>

(* delete and reap: the directory goes as though it had never existed. *)
Delete ==
    /\ op = Idle
    /\ present
    /\ DirectoryGone
    /\ UNCHANGED <<op, faults>>

(* reset, step 1: the highest number ever assigned becomes the floor.  A   *)
(* COMMIT that does not parse contributes nothing.                         *)
WriteFloor ==
    /\ op = Idle
    /\ present
    /\ LET numbers == {floor} \cup OnDisk \cup
                      (IF Committed /\ commit.readable THEN {commit.gen} ELSE {})
       IN  \E n \in numbers :
             /\ \A m \in numbers : m <= n
             /\ floor' = n
             /\ op' = [Idle EXCEPT !.at = "resetting", !.gen = n]
    /\ UNCHANGED <<present, commit, gens, faults, acked, refused>>

(* Step 2: without COMMIT the channel reads as absent. *)
UnlinkCommit ==
    /\ op.at = "resetting"
    /\ commit' = NoCommit
    /\ acked' = Nothing
    /\ op' = [op EXCEPT !.at = "uncommitted"]
    /\ refused' = FALSE
    /\ UNCHANGED <<present, floor, gens, faults>>

(* Step 3: gen/ is renamed away. *)
RetireGenerations ==
    /\ op.at = "uncommitted"
    /\ gens' = [g \in Generations |-> Absent]
    /\ op' = Idle
    /\ UNCHANGED <<present, floor, commit, faults, acked, refused>>

-----------------------------------------------------------------------------
(* The process dies between two steps; what it had written stays. *)
Crash ==
    /\ op # Idle
    /\ op' = Idle
    /\ UNCHANGED <<dirVars, faults, acked, refused>>

(* The disk loses or garbles COMMIT or a part of the committed generation, *)
(* or a newer node wrote a protocol this one cannot read; not in the       *)
(* middle of an operation.                                                 *)
Damage ==
    /\ op = Idle
    /\ faults < MaxFaults
    /\ Committed
    /\ \/ /\ commit' = [commit EXCEPT !.readable = FALSE]
          /\ UNCHANGED gens
       \/ /\ gens[commit.gen].state # "absent"
          /\ \E s \in {"incomplete", "corrupt"} :
                gens' = [gens EXCEPT ![commit.gen].state = s]
          /\ UNCHANGED commit
    /\ faults' = faults + 1
    /\ acked' = Nothing
    /\ refused' = FALSE
    /\ UNCHANGED <<present, floor, op>>

Publish ==
    \/ \E r \in Record : Republish(r) \/ StartPublish(r)
    \/ \E g \in Generations : WritePending(g)
    \/ NameGeneration
    \/ ReplaceCommit
    \/ Prune

Reset == WriteFloor \/ UnlinkCommit \/ RetireGenerations

Next == Publish \/ LoadDamaged \/ Quarantine \/ Delete \/ Reset \/ Crash \/ Damage

Spec == Init /\ [][Next]_vars

-----------------------------------------------------------------------------
(* Correctness. *)

(* A crash at any step, the damage aside, leaves a COMMIT that names a     *)
(* complete generation with exactly its content: publish promises "no      *)
(* in-between" (checkpoint_store.py:753-755).                              *)
CommittedIsWhole ==
    (faults = 0 /\ Committed) => Loadable

(* A generation being published is never one a reader or a later writer    *)
(* could confuse with another: its number is above all that the channel's  *)
(* directory still knows of, and nothing is in its place.                  *)
FreshNumber ==
    op.at \in {"pending", "named"} =>
        /\ floor < op.gen
        /\ Committed => commit.gen < op.gen
        /\ \A g \in OnDisk : g < op.gen \/ (op.at = "named" /\ g = op.gen)

(* A COMMIT that cannot be read is evidence.  It leaves the channel with   *)
(* its whole directory, or at an operator's reset; publishing writes over  *)
(* it only when the disk has refused to set it aside                       *)
(* (checkpoint_store.py:1438-1461).                                        *)
EvidencePreserved ==
    [][Unreadable /\ commit' # commit =>
          ~present' \/ op.at = "resetting" \/ refused]_vars

(* What the comment in _quarantine wants of a refused rename as well:      *)
(* "leave the record exactly where it is rather than risk destroying the   *)
(* only copy of the evidence" (checkpoint_store.py:1824-1825).             *)
EvidenceNeverOverwritten ==
    [][Unreadable /\ commit' # commit => ~present' \/ op.at = "resetting"]_vars

(* The files of a channel are a register: every crash leaves the old       *)
(* record or the new one, a finished publication stays readable until it   *)
(* is given up, and no session lifetime overwrites another's record.       *)
Register == INSTANCE CheckpointRegister WITH reg <- Loaded, promised <- acked
ImplementsRegister == Register!Spec
=============================================================================
