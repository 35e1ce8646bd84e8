-------------------------- MODULE ArtifactVersions --------------------------
(* The versioned training artifacts of a workflow: what a training run plans, *)
(* trains and carries forward, how it publishes a version by swapping reader  *)
(* entries and then the pointer, what retention removes, and what remains of  *)
(* it when a run raises, is killed, or runs beside another one                *)
(* (src/fastworkflow/train/__main__.py, artifact_versioning.py,               *)
(* selective_training.py).                                                    *)
EXTENDS Naturals

CONSTANTS
    Contexts,       \* routing contexts, a model each
    Ancestors,      \* context -> those whose commands feed its wildcard class
    Trainers,       \* processes that run the trainer on the workflow
    Nobody,         \* no process: the publication lock is free
    MaxVersions,    \* bound: version ids ever minted, in any setting
    MaxEdits,       \* bound: edits of the commands of one context
    Seeds,          \* context -> edition -> the seed utterances its commands name
    Settings        \* [together, legacy, faults, edits, versions]: whether runs
                    \* may overlap, the unversioned contexts they find, which of
                    \* "crash" (or an error of the disk), "damage" may happen,
                    \* whose commands are edited, and how many versions are made

(* A workflow has a context at least, the global one.                         *)
ASSUME VersionsAssumption ==
    /\ Contexts # {} /\ Nobody \notin Trainers /\ {MaxVersions, MaxEdits} \subseteq Nat
    /\ Settings \subseteq [together : BOOLEAN, legacy : SUBSET Contexts,
                          faults : SUBSET {"crash", "damage"}, edits : SUBSET Contexts,
                          versions : 0..MaxVersions]
    /\ Seeds \in [Contexts -> [0..MaxEdits -> Nat]]

(* get_ancestor_contexts returns the whole transitive chain of a hierarchy.   *)
ASSUME AncestryIsClosed ==
    /\ Ancestors \in [Contexts -> SUBSET Contexts]
    /\ \A c \in Contexts : /\ c \notin Ancestors[c]
                           /\ \A d \in Ancestors[c] : Ancestors[d] \subseteq Ancestors[c]

VARIABLES
    setting,
    source,     \* per context, the edition of its commands
    legacy,     \* contexts whose unversioned directory is in place
    store,      \* the version directories
    entry,      \* per context, the version its compatibility entry leads to, or 0
    link,       \* the version of the `current` symlink, or 0
    pointer,    \* the version current.json names, or 0
    strays,     \* versions a temporary symlink of a killed publication leads to
    lock,       \* the holder of the publication lock
    proc,       \* what each trainer is doing
    minted,     \* the last version id
    past        \* "overlap" of two runs, "damage" to a manifest, "edited": a
                \* signature taken after an edit of the modules its run has loaded

disk == <<legacy, store, entry, link, pointer, strays>>
versionVars == <<setting, source, disk, lock, proc, minted, past>>

Versions == 1..MaxVersions
Feeds(c) == {c} \cup Ancestors[c]

(* A version: the models in it with the editions they were trained on, the    *)
(* contexts whose directory lacks an artifact, the signature, and the         *)
(* manifest, which "begun" has no contributions yet.                          *)
Empty == [c \in {} |-> 0]
With(models, c, editions) ==
    [d \in DOMAIN models \cup {c} |-> IF d = c THEN editions ELSE models[d]]
Absent == [there |-> FALSE, models |-> Empty, half |-> {}, sig |-> Empty,
           manifest |-> "none", previous |-> 0, from |-> 0, carried |-> {}]
Holds(v) == IF v = 0 THEN {} ELSE DOMAIN store[v].models
Folders(v) == IF v = 0 THEN {} ELSE DOMAIN store[v].models \cup store[v].half

(* What a run leaves in its version of context c: a directory that lacks an   *)
(* artifact, or its models with the editions they were trained on.            *)
Halve(v, c) == [store EXCEPT ![v] = [store[v] EXCEPT !.there = TRUE,
                    !.models = [d \in DOMAIN store[v].models \ {c} |-> store[v].models[d]],
                    !.half = store[v].half \cup {c}]]
Deliver(v, c, editions) == [store EXCEPT ![v] = [store[v] EXCEPT !.there = TRUE,
                    !.models = With(store[v].models, c, editions),
                    !.half = store[v].half \ {c}]]

Unread == [c \in Contexts |-> 0]
Idle == [step |-> "off", kind |-> "train", prev |-> 0, v |-> 0, todo |-> {}, now |-> {},
         train |-> {}, carry |-> {}, from |-> 0, loaded |-> Unread, sig |-> Empty]
Ended == {"off", "refused"}
Goes(t, after) == proc' = [proc EXCEPT ![t] = after]
At(t, step) == proc[t].step = step
Ends(t, step) ==
    /\ proc' = [proc EXCEPT ![t] =
                   [Idle EXCEPT !.step = step, !.prev = IF step = "off" THEN 0 ELSE proc[t].prev]]
    /\ lock' = IF lock = t THEN Nobody ELSE lock

(* resolve_current_version: the pointer if its version exists, else the link. *)
Resolved ==
    IF pointer # 0 /\ store[pointer].there THEN pointer
    ELSE IF link # 0 /\ store[link].there THEN link ELSE 0

----------------------------------------------------------------------------
(* A run begins and imports the command modules, once; artifacts of the       *)
(* unversioned layout are moved into a version of their own, which is         *)
(* published without the lock.                                                *)
Begin(t) ==
    /\ proc[t].step \in Ended
    /\ setting.together \/ \A u \in Trainers : proc[u].step \in Ended
    /\ past' = past \cup (IF \E u \in Trainers \ {t} : proc[u].step \notin Ended
                          THEN {"overlap"} ELSE {})
    /\ \/ /\ legacy = {}
          /\ proc' = [proc EXCEPT ![t] = [Idle EXCEPT !.step = "resolve", !.loaded = source]]
          /\ UNCHANGED <<store, minted>>
       \/ /\ legacy # {} /\ minted < setting.versions
          /\ minted' = minted + 1
          /\ store' = [store EXCEPT ![minted + 1].there = TRUE]
          /\ proc' = [proc EXCEPT ![t] = [Idle EXCEPT !.step = "move", !.kind = "migrate",
                                  !.v = minted + 1, !.todo = legacy, !.loaded = source]]
    /\ UNCHANGED <<setting, source, legacy, entry, link, pointer, strays, lock>>

Move(t, c) ==
    /\ At(t, "move") /\ c \in proc[t].todo \cap legacy
    /\ legacy' = legacy \ {c}
    /\ store' = Deliver(proc[t].v, c, [d \in Feeds(c) |-> 0])
    /\ Goes(t, [proc[t] EXCEPT !.todo = @ \ {c}])
    /\ UNCHANGED <<setting, source, entry, link, pointer, strays, lock, minted, past>>

Moved(t) ==
    /\ At(t, "move") /\ proc[t].todo = {}
    /\ store' = [store EXCEPT ![proc[t].v] = [@ EXCEPT !.there = TRUE, !.manifest = "begun"]]
    /\ Goes(t, [proc[t] EXCEPT !.step = "publish"])
    /\ UNCHANGED <<setting, source, legacy, entry, link, pointer, strays, lock, minted, past>>

(* What the run will diff against, long before it plans.                      *)
Resolve(t) ==
    /\ At(t, "resolve")
    /\ Goes(t, [proc[t] EXCEPT !.step = "plan", !.kind = "train", !.prev = Resolved])
    /\ UNCHANGED <<setting, source, disk, lock, minted, past>>

(* compute_command_fingerprints: the file as it is on disk, and the seeds of  *)
(* the module as it was loaded.                                               *)
Prints(t) == [d \in Contexts |-> <<source[d], Seeds[d][proc[t].loaded[d]]>>]

(* close_dirty_contexts with the check of the artifacts: a context is kept if *)
(* nothing that feeds it changed and its models are all there.                *)
Changed(t, v) == {d \in Contexts : Prints(t)[d] # store[v].sig[d]}
Dirty(t, v) == {c \in Contexts : Feeds(c) \cap Changed(t, v) # {} \/ c \notin Holds(v)}

(* compute_training_plan; `whole` stands for the reasons to train everything: *)
(* regenerated utterances, a changed global input, commands missing from the  *)
(* cache. A version to train gets its id and a first manifest.                *)
Plan(t, whole) ==
    /\ At(t, "plan")
    /\ LET prev == proc[t].prev
           based == ~whole /\ prev # 0 /\ store[prev].sig # Empty
           train == IF based THEN Dirty(t, prev) ELSE Contexts
       IN IF train = {}
          THEN /\ Goes(t, [proc[t] EXCEPT !.step = "lock", !.kind = "repair", !.v = prev])
               /\ UNCHANGED <<store, minted, past>>
          ELSE /\ minted < setting.versions
               /\ minted' = minted + 1
               /\ past' = past \cup (IF proc[t].loaded = source THEN {} ELSE {"edited"})
               /\ store' = [store EXCEPT ![minted + 1] = [Absent EXCEPT !.there = TRUE,
                                              !.manifest = "begun", !.previous = prev]]
               /\ Goes(t, [proc[t] EXCEPT !.step = "build", !.v = minted + 1, !.todo = train,
                           !.now = {}, !.train = train, !.sig = Prints(t),
                           !.carry = Contexts \ train, !.from = IF based THEN prev ELSE 0])
    /\ UNCHANGED <<setting, source, legacy, entry, link, pointer, strays, lock>>

(* train() takes one context after the other, and writes its artifacts one by *)
(* one, making directories that lack.                                         *)
TrainBegins(t, c) ==
    /\ At(t, "build") /\ c \in proc[t].todo /\ proc[t].now = {}
    /\ store' = Halve(proc[t].v, c)
    /\ Goes(t, [proc[t] EXCEPT !.now = {c}])
    /\ UNCHANGED <<setting, source, legacy, entry, link, pointer, strays, lock, minted, past>>

(* The last of them; if the directory was removed meanwhile, it has only this.*)
TrainEnds(t, c) ==
    /\ At(t, "build") /\ c \in proc[t].now
    /\ LET v == proc[t].v
           editions == [d \in Feeds(c) |-> proc[t].loaded[d]]
       IN store' = IF c \in store[v].half THEN Deliver(v, c, editions) ELSE Halve(v, c)
    /\ Goes(t, [proc[t] EXCEPT !.now = {}, !.todo = @ \ {c}])
    /\ UNCHANGED <<setting, source, legacy, entry, link, pointer, strays, lock, minted, past>>

(* carry_forward_contexts: what the source has of the context is linked;      *)
(* without its directory the run raises.                                      *)
Carry(t, c) ==
    /\ At(t, "build") /\ proc[t].todo = {} /\ c \in proc[t].carry
    /\ c \in Folders(proc[t].from)
    /\ LET v == proc[t].v
       IN store' = IF c \in Holds(proc[t].from)
                   THEN Deliver(v, c, store[proc[t].from].models[c]) ELSE Halve(v, c)
    /\ Goes(t, [proc[t] EXCEPT !.carry = @ \ {c}])
    /\ UNCHANGED <<setting, source, legacy, entry, link, pointer, strays, lock, minted, past>>

CarryFails(t) ==
    /\ At(t, "build") /\ proc[t].todo = {} /\ ~(proc[t].carry \subseteq Folders(proc[t].from))
    /\ Ends(t, "off")
    /\ UNCHANGED <<setting, source, disk, minted, past>>

(* Deviation: the signature is computed when the training is over.            *)
SignedAnew(t, r) ==
    [r EXCEPT !.there = TRUE, !.sig = Prints(t), !.manifest = "ok", !.from = proc[t].from,
              !.carried = IF proc[t].from = 0 THEN {} ELSE Contexts \ proc[t].train,
              !.previous = IF r.manifest = "begun" THEN @ ELSE 0]

(* The signature of the plan, and the manifest with the contributions, merged *)
(* into what can be read of the first one.                                    *)
Signed(t, r) ==
    [r EXCEPT !.there = TRUE, !.sig = proc[t].sig, !.manifest = "ok", !.from = proc[t].from,
              !.carried = IF proc[t].from = 0 THEN {} ELSE Contexts \ proc[t].train,
              !.previous = IF r.manifest = "begun" THEN @ ELSE 0]
(* Deviation: what the training did not reach is published without.           *)
SignUntrained(t) ==
    /\ At(t, "build") /\ proc[t].carry = {}
    /\ store' = [store EXCEPT ![proc[t].v] = Signed(t, @)]
    /\ Goes(t, [proc[t] EXCEPT !.step = "lock"])
    /\ UNCHANGED <<setting, source, legacy, entry, link, pointer, strays, lock, minted, past>>

Sign(t) ==
    /\ At(t, "build") /\ proc[t].todo = {} /\ proc[t].carry = {}
    /\ store' = [store EXCEPT ![proc[t].v] = Signed(t, @)]
    /\ Goes(t, [proc[t] EXCEPT !.step = "lock"])
    /\ UNCHANGED <<setting, source, legacy, entry, link, pointer, strays, lock, minted, past>>

(* A paid call, the trainer, the report's gate or the wait for the lock fails.*)
Raises(t) ==
    /\ proc[t].step \in {"resolve", "plan", "build", "lock"}
    /\ Ends(t, "off")
    /\ UNCHANGED <<setting, source, disk, minted, past>>

----------------------------------------------------------------------------
Take(t) ==
    /\ At(t, "lock") /\ lock = Nobody
    /\ lock' = t
    /\ Goes(t, [proc[t] EXCEPT !.step = "publish"])
    /\ UNCHANGED <<setting, source, disk, minted, past>>

(* verify_version_consistency: what was carried must have been trained on what*)
(* this version says, as far as the records of its source can still be read,  *)
(* and be there, as far as one artifact of it, the threshold, tells.          *)
Consistent(v, found) ==
    LET r == store[v]
        s == store[r.from]
    IN /\ r.manifest # "damaged"
       /\ r.manifest = "ok" /\ r.carried # {} =>
            /\ r.carried \subseteq found
            /\ s.there => s.manifest # "damaged"
            /\ s.there /\ s.manifest = "ok" =>
                 \A c \in r.carried, d \in Contexts : d \in Feeds(c) => r.sig[d] = s.sig[d]

Publishable(v, found) ==
    /\ store[v].there
    /\ Resolved = v \/ Consistent(v, found)
    /\ legacy \cap Folders(v) = {}

(* publish_version: every entry, the link, the stale entries, the pointer.    *)
Publish(t) ==
    /\ At(t, "publish")
    /\ \E found \in {Holds(proc[t].v), Folders(proc[t].v)} :
        IF Publishable(proc[t].v, found)
        THEN /\ Goes(t, [proc[t] EXCEPT !.step = "route", !.todo = Folders(proc[t].v)])
             /\ UNCHANGED lock
        ELSE Ends(t, "off")
    /\ UNCHANGED <<setting, source, disk, minted, past>>

Route(t, c) ==
    /\ At(t, "route") /\ c \in proc[t].todo
    /\ entry' = [entry EXCEPT ![c] = proc[t].v]
    /\ Goes(t, [proc[t] EXCEPT !.todo = @ \ {c}])
    /\ UNCHANGED <<setting, source, legacy, store, link, pointer, strays, lock, minted, past>>

Link(t) ==
    /\ At(t, "route") /\ proc[t].todo = {}
    /\ link' = proc[t].v
    /\ Goes(t, [proc[t] EXCEPT !.step = "unroute",
                               !.todo = {c \in Contexts \ Folders(proc[t].v) : entry[c] # 0}])
    /\ UNCHANGED <<setting, source, legacy, store, entry, pointer, strays, lock, minted, past>>

Unroute(t, c) ==
    /\ At(t, "unroute") /\ c \in proc[t].todo
    /\ entry' = [entry EXCEPT ![c] = 0]
    /\ Goes(t, [proc[t] EXCEPT !.todo = @ \ {c}])
    /\ UNCHANGED <<setting, source, legacy, store, link, pointer, strays, lock, minted, past>>

Commit(t) ==
    /\ At(t, "unroute") /\ proc[t].todo = {}
    /\ pointer' = proc[t].v
    /\ Goes(t, [proc[t] EXCEPT
                   !.step = IF proc[t].kind = "migrate" THEN "resolve" ELSE "retain"])
    /\ UNCHANGED <<setting, source, legacy, store, entry, link, strays, lock, minted, past>>

(* prune_versions never removes what current.json or a link leads to.         *)
Protected == {v \in Versions : store[v].there} \cap
             ({entry[c] : c \in Contexts} \cup {link} \cup strays \cup {Resolved})

(* Deviation: a manifest that cannot be read is one that says nothing.        *)
ReadableAnyway(v) == TRUE

(* manifest_is_damaged: such a manifest stops retention.                      *)
Readable(v) == v = 0 \/ store[v].manifest # "damaged"

Recorded(v) == IF store[v].manifest \in {"begun", "ok"} THEN store[v].previous ELSE 0
Kept(t) == {Resolved, IF proc[t].kind = "repair" THEN Recorded(proc[t].v) ELSE proc[t].prev}

(* retain_current_and_previous, under the lock: a version it may not remove   *)
(* makes it raise.                                                            *)
Retain(t) ==
    /\ At(t, "retain")
    /\ LET doomed == {v \in Versions : store[v].there} \ Kept(t)
       IN IF ~Readable(Resolved) \/ doomed = {} THEN Ends(t, "off")
          ELSE IF doomed \cap Protected # {} THEN Ends(t, "refused")
          ELSE /\ Goes(t, [proc[t] EXCEPT !.step = "prune", !.todo = doomed])
               /\ UNCHANGED lock
    /\ UNCHANGED <<setting, source, disk, minted, past>>

(* rmtree takes one context after the other, a file at a time, and the        *)
(* directory last; when the disk fails it, or another run writes into the     *)
(* version meanwhile, what remains of it stays.                               *)
Prune(t, v) ==
    /\ At(t, "prune") /\ v \in proc[t].todo
    /\ \/ /\ \E c \in Folders(v) :
                store' = IF c \in Holds(v) THEN Halve(v, c)
                         ELSE [store EXCEPT ![v].half = store[v].half \ {c}]
          /\ UNCHANGED proc
       \/ /\ Folders(v) = {}
          /\ store' = [store EXCEPT ![v] = Absent]
          /\ Goes(t, [proc[t] EXCEPT !.todo = @ \ {v}])
       \/ /\ Folders(v) # {}
          /\ "crash" \in setting.faults \/ \E u \in Trainers \ {t} : proc[u].v = v
          /\ Goes(t, [proc[t] EXCEPT !.todo = @ \ {v}])
          /\ UNCHANGED store
    /\ UNCHANGED <<setting, source, legacy, entry, link, pointer, strays, lock, minted, past>>

Done(t) ==
    /\ At(t, "prune") /\ proc[t].todo = {}
    /\ Ends(t, "off")
    /\ UNCHANGED <<setting, source, disk, minted, past>>

----------------------------------------------------------------------------
(* The process dies, and the kernel frees its lock; between the symlink and   *)
(* the rename of an atomic replacement a temporary symlink stays.             *)
Killed(t) ==
    /\ "crash" \in setting.faults /\ proc[t].step \notin Ended
    /\ Ends(t, "off")
    /\ UNCHANGED <<setting, source, disk, minted, past>>

KilledSwapping(t) ==
    /\ "crash" \in setting.faults /\ At(t, "route")
    /\ Ends(t, "off")
    /\ strays' = strays \cup {proc[t].v}
    /\ UNCHANGED <<setting, source, legacy, store, entry, link, pointer, minted, past>>

(* The developer edits a context's commands; something damages a manifest.    *)
Edit(c) ==
    /\ c \in setting.edits /\ source[c] < MaxEdits
    /\ source' = [source EXCEPT ![c] = @ + 1]
    /\ UNCHANGED <<setting, disk, lock, proc, minted, past>>

Damage(v) ==
    /\ "damage" \in setting.faults \ past /\ store[v].manifest \in {"begun", "ok"}
    /\ store' = [store EXCEPT ![v].manifest = "damaged"]
    /\ past' = past \cup {"damage"}
    /\ UNCHANGED <<setting, source, legacy, entry, link, pointer, strays, lock, proc, minted>>

VersionsInit ==
    /\ setting \in Settings
    /\ source = [c \in Contexts |-> 0]
    /\ legacy = setting.legacy
    /\ store = [v \in Versions |-> Absent]
    /\ entry = [c \in Contexts |-> 0] /\ link = 0 /\ pointer = 0 /\ strays = {}
    /\ lock = Nobody
    /\ proc = [t \in Trainers |-> Idle]
    /\ minted = 0 /\ past = {}

VersionsNext ==
    \/ \E t \in Trainers :
        \/ Begin(t) \/ Moved(t) \/ Resolve(t) \/ CarryFails(t) \/ Sign(t) \/ Raises(t)
        \/ Take(t) \/ Publish(t) \/ Link(t) \/ Commit(t) \/ Retain(t) \/ Done(t)
        \/ Killed(t) \/ KilledSwapping(t)
        \/ \E whole \in BOOLEAN : Plan(t, whole)
        \/ \E c \in Contexts :
            Move(t, c) \/ TrainBegins(t, c) \/ TrainEnds(t, c) \/ Carry(t, c)
            \/ Route(t, c) \/ Unroute(t, c)
        \/ \E v \in Versions : Prune(t, v)
    \/ \E c \in Contexts : Edit(c)
    \/ \E v \in Versions : Damage(v)

VersionsSpec == VersionsInit /\ [][VersionsNext]_versionVars

----------------------------------------------------------------------------
Steps == {"off", "refused", "move", "resolve", "plan", "build", "lock", "publish", "route",
          "unroute", "retain", "prune"}

(* The variables have their types, the lock is held in a publication of the   *)
(* trainer or its retention, and every directory has an id that was minted.   *)
VersionTypes ==
    /\ setting \in Settings /\ legacy \subseteq Contexts
    /\ source \in [Contexts -> 0..MaxEdits]
    /\ entry \in [Contexts -> 0..minted] /\ {link, pointer} \subseteq 0..minted
    /\ strays \subseteq 1..minted /\ minted \in 0..MaxVersions
    /\ \A v \in Versions :
        /\ Folders(v) \subseteq Contexts /\ DOMAIN store[v].sig \in {{}, Contexts}
        /\ store[v].manifest \in {"none", "begun", "ok", "damaged"}
        /\ store[v].there => v <= minted
        /\ {store[v].previous, store[v].from} \subseteq 0..(v - 1)
    /\ \A t \in Trainers :
        /\ proc[t].step \in Steps /\ proc[t].kind \in {"train", "repair", "migrate"}
        /\ {proc[t].prev, proc[t].v, proc[t].from} \subseteq 0..minted
        /\ proc[t].kind = "train" /\ At(t, "publish") => lock = t
    /\ lock # Nobody => proc[lock].step \in {"publish", "route", "unroute", "retain", "prune"}
    /\ past \subseteq {"overlap", "damage", "edited"}

Calm == "overlap" \notin past
Served(c) == entry[c] # 0 /\ c \in Holds(entry[c])

(* A reader's entry never dangles, even beside another run; and as long as no *)
(* two runs overlap it leads to all the artifacts of its context, and a       *)
(* context that is served stays served: over failed runs, crashes in a        *)
(* publication and retention (publish_version, prune_versions,                *)
(* carry_forward_contexts).                                                   *)
ReadersKeepTheirModels ==
    [][\A c \in Contexts :
         /\ entry'[c] # 0 => c \in Folders(entry[c])'
         /\ Calm' /\ entry'[c] # 0 => Served(c)'
         /\ Calm' /\ Served(c) => Served(c)']_versionVars

(* The version the current one replaced stays whole until the next one is     *)
(* published, also over a manifest that cannot be read any more               *)
(* (retain_current_and_previous).                                             *)
RecoveryPointStands ==
    Calm /\ pointer # 0 /\ store[pointer].previous # 0 =>
        LET previous == store[store[pointer].previous]
        IN previous.there /\ DOMAIN previous.sig \subseteq DOMAIN previous.models

Spared(t) == IF proc[t].step = "lock" THEN Contexts ELSE proc[t].carry
FreshFor(t, c) ==
    \A d \in Feeds(c) :
        LET edition == store[proc[t].prev].models[c][d]
        IN /\ Seeds[d][edition] = Seeds[d][proc[t].loaded[d]]
           /\ "edited" \notin past => edition = source[d]

(* What a plan leaves alone or carries forward was trained on the seeds this  *)
(* run has loaded; and, unless some run has signed files that were edited     *)
(* after it loaded them, on the commands of today, its own and those of the   *)
(* contexts above it (compute_training_plan).                                 *)
WhatIsKeptIsFresh ==
    [][\A t \in Trainers : At(t, "plan") /\ At(t, "plan")' = FALSE /\ proc'[t].v # 0 =>
         \A c \in Spared(t)' : FreshFor(t, c)]_versionVars

(* What the warning of CommandFingerprint excludes, models that stay on an    *)
(* older edition of their commands; a run that began before an edit and       *)
(* planned after it leaves such.                                              *)
AllThatIsKeptIsFresh ==
    [][\A t \in Trainers : At(t, "plan") /\ At(t, "plan")' = FALSE /\ proc'[t].v # 0 =>
         \A c \in Spared(t)', d \in Contexts : d \in Feeds(c) =>
             store[proc[t].prev].models[c][d] = source[d]]_versionVars

(* What carry_forward_contexts says of a failure, that what is published is   *)
(* complete; another run's retention can take artifacts from under a build.   *)
PublishedIsWhole ==
    \A c \in Contexts : entry[c] # 0 => Served(c)

(* What the warning beside the versions says: after a publication older and   *)
(* incomplete versions are removed.                                           *)
LeftoversGo ==
    \A t \in Trainers : At(t, "refused") =>
        \A v \in Versions : store[v].there => v \in {Resolved, proc[t].prev}

(* What retain_current_and_previous says: it removes no version that another  *)
(* process is publishing or carrying forward from.                            *)
WorkIsSpared ==
    [][\A t \in Trainers, v \in Versions :
         store[v].there /\ ~store'[v].there =>
             ~(At(t, "build") /\ v \in {proc[t].from, proc[t].v})]_versionVars
===============================================================================
