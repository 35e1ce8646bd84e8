---------------------------- MODULE ServingProofs ----------------------------
(***************************************************************************)
(* Proofs about what serves a channel: the sessions kept in memory and the *)
(* trained versions of a workflow.                                         *)
(*                                                                         *)
(* SessionCache, for any number of channels and requests, any target of    *)
(* the cache and any kinds of run: the leases of a channel count the       *)
(* requests that hold its session, and a cached session, but for one whose *)
(* turn raised, has either its own suspension on disk or none; so nobody   *)
(* loses a session he was handed, and what is retired comes back as it was.*)
(*                                                                         *)
(* ArtifactVersions, for any contexts, trainers, bounds and settings: a    *)
(* version under way is its trainer's alone and its models agree with the  *)
(* signature it will get; until two runs overlap one trainer acts at a     *)
(* time, and what the entries, the link, the pointer and the version       *)
(* before it lead to is not what retention takes.                          *)
(***************************************************************************)
EXTENDS SessionCache, ArtifactVersions, FiniteSetTheorems, TLAPS

Using == {"leased", "waiting", "locked"}
Holders(ch) == {c \in Clients : client[c].pc \in Using /\ client[c].ch = ch}

(* leased_session and its release are paired. *)
LeasesCount == \A ch \in Channels : leases[ch] = Cardinality(Holders(ch))

(* The blob of a live session is its own suspension, or there is none,      *)
(* unless its turn raised; a state that cannot be encoded would leave an    *)
(* older one behind, and a checkpoint that is not written an older state.   *)
Encodes == "encoding" \notin faults
Writes == "publish" \notin faults
SnapshotsAgree == \A ch \in cached \ adrift : blob[ch] \in {live[ch].susp, NoSuspension}

IInv == TypeOK /\ LeasesCount /\ InUseStaysCached
DInv == IInv /\ Encodes /\ SnapshotsAgree

-----------------------------------------------------------------------------
(* What a sweep takes: sessions that are not busy and can be written back,  *)
(* each of which is on disk as it was in memory.                            *)
LEMMA SweepTakes ==
    ASSUME NEW sessions, NEW content, NEW pending, NEW order, NEW busy, NEW failing,
           Sweep(sessions, content, pending, order, busy, failing)
    PROVE  \E R \in SUBSET {x \in sessions \ (busy \cup failing) :
                               Evictable(content[x], pending[x])} :
              /\ cached' = sessions \ R
              /\ older' = [x \in Channels |-> IF x \in cached' THEN order[x] \ R ELSE {}]
              /\ live' = [x \in Channels |-> IF x \in R THEN Blank ELSE content[x]]
              /\ ckpt' = [x \in Channels |-> IF x \in R THEN content[x].val ELSE ckpt[x]]
              /\ adrift' = adrift \ R
  BY Zenon DEF Sweep

LEMMA ContentTypes ==
    ASSUME TypeOK
    PROVE  /\ Blank \in Content
           /\ \A ch \in Channels : blob[ch] # Torn => Restored(ch) \in Content
           /\ \A ch \in Channels : live[ch] \in Content
           /\ \A x \in Content : x.val \in Values \cup Opaque
                                 /\ x.susp \in Suspensions \cup {NoSuspension}
  BY FreshAssumption DEF TypeOK, Blank, Content, Restored

LEMMA SweepTypes ==
    ASSUME TypeOK, NEW sessions \in SUBSET Channels, NEW content \in [Channels -> Content],
           NEW pending, NEW order \in [Channels -> SUBSET Channels], NEW busy, NEW failing,
           Sweep(sessions, content, pending, order, busy, failing)
    PROVE  /\ cached' \subseteq Channels
           /\ older' \in [Channels -> SUBSET Channels]
           /\ live' \in [Channels -> Content]
           /\ ckpt' \in [Channels -> Values \cup {NoRecord}]
           /\ adrift' \subseteq Channels
  <1>1. PICK R \in SUBSET {x \in sessions \ (busy \cup failing) :
                              Evictable(content[x], pending[x])} :
              /\ cached' = sessions \ R
              /\ older' = [x \in Channels |-> IF x \in cached' THEN order[x] \ R ELSE {}]
              /\ live' = [x \in Channels |-> IF x \in R THEN Blank ELSE content[x]]
              /\ ckpt' = [x \in Channels |-> IF x \in R THEN content[x].val ELSE ckpt[x]]
              /\ adrift' = adrift \ R
    BY SweepTakes
  <1>2. \A x \in R : content[x].val \in Values
    BY <1>1, ContentTypes DEF Evictable
  <1>3. ckpt' \in [Channels -> Values \cup {NoRecord}]
    BY <1>1, <1>2 DEF TypeOK
  <1>4. live' \in [Channels -> Content]
    BY <1>1, ContentTypes
  <1>5. older' \in [Channels -> SUBSET Channels] /\ cached' \subseteq Channels
    BY <1>1
  <1>6. adrift' \subseteq Channels
    BY <1>1 DEF TypeOK
  <1> QED
    BY <1>3, <1>4, <1>5, <1>6

(* What the process starts with is typed. *)
LEMMA ResetTypes ==
    /\ NoTurn \in Turn /\ IdleClient \in Client /\ Resting \in Reaper /\ Blank \in Content
    /\ FALSE \in BOOLEAN
  <1>1. FALSE \in BOOLEAN
    BY Zenon
  <1> QED
    BY <1>1, FreshAssumption DEF NoTurn, Turn, Client, Resting, Reaper, Blank, Content

LEMMA TypeStep == TypeOK /\ [Next]_vars => TypeOK'
  <1> SUFFICES ASSUME TypeOK, [Next]_vars PROVE TypeOK'
    OBVIOUS
  <1>w. world' = world /\ world \in Worlds
    BY DEF TypeOK, Next, vars
  <1>v. /\ world.values \subseteq Values \cup Opaque
        /\ world.suspensions \subseteq Suspensions
        /\ world.clients \subseteq Clients
    BY <1>w, WorldsAssumption
  <1>t. \A ch \in Channels : Touched(ch) \in [Channels -> SUBSET Channels]
    BY DEF Touched, TypeOK
  <1>c. \A c \in Clients : client[c].pc # "idle" => client[c].ch \in Channels
    BY DEF TypeOK, Client, IdleClient
  <1>1. ASSUME NEW c \in Clients, RequestStep(c) PROVE TypeOK'
    <2> USE <1>w
    <2>b. \A ch \in Channels, pc \in {"leased", "waiting", "locked"} :
              Becomes(c, pc, ch) => client' \in [Clients -> Client]
      BY DEF Becomes, TypeOK, Client
    <2>a. Answered(c) => client' \in [Clients -> Client]
      BY DEF Answered, TypeOK, Client
    <2>r. \A ch \in Channels : Release(ch) => leases' \in [Channels -> Nat]
      BY DEF Release, TypeOK
    <2> DEFINE ch == client[c].ch
    <2>1. CASE Lease(c)
      <3>1. ch \in Channels
        BY <2>1, <1>c DEF Lease
      <3>2. leases' \in [Channels -> Nat]
        BY <2>1, <3>1 DEF Lease, TypeOK
      <3> QED
        BY <2>1, <2>b, <1>t, <3>1, <3>2 DEF Lease, TypeOK
    <2>2. CASE NotFound(c)
      BY <2>2, <2>a DEF NotFound, TypeOK
    <2>3. CASE Rejoin(c)
      BY <2>3, <2>b, <1>c DEF Rejoin, TypeOK
    <2>4. CASE Leave(c)
      BY <2>4, <2>a, <2>r, <1>c DEF Leave, TypeOK
    <2>5. CASE Lock(c)
      BY <2>5, <2>b, <1>c DEF Lock, TypeOK
    <2>6. CASE Unlock(c)
      <3>1. ch \in Channels
        BY <2>6, <1>c DEF Unlock
      <3>2. live' \in [Channels -> Content]
        BY <2>6, <3>1, <1>v DEF Unlock, TypeOK, Content
      <3> QED
        BY <2>6, <2>a, <2>r, <3>1, <3>2 DEF Unlock, TypeOK
    <2>7. CASE CancelPending(c)
      <3>1. ch \in Channels
        BY <2>7, <1>c DEF CancelPending
      <3>2. live' \in [Channels -> Content]
        BY <2>7, <3>1 DEF CancelPending, TypeOK, Content
      <3>3. blob' \in [Channels -> Suspensions \cup {NoSuspension, Torn}]
        BY <2>7, <3>1 DEF CancelPending, TypeOK
      <3> QED
        BY <2>7, <2>a, <2>r, <3>1, <3>2, <3>3 DEF CancelPending, TypeOK
    <2>8. ASSUME NEW streams \in BOOLEAN, Register(c, streams) PROVE TypeOK'
      <3>1. ch \in Channels
        BY <2>8, <1>c DEF Register
      <3>2. turn' \in [Channels -> Turn]
        BY <2>8, <3>1 DEF Register, TypeOK, Turn
      <3>3. leases' \in [Channels -> Nat] /\ client' \in [Clients -> Client]
        BY <2>8, <2>a, <2>b, <2>r, <3>1 DEF Register, TypeOK
      <3> QED
        BY <2>8, <3>1, <3>2, <3>3 DEF Register, TypeOK
    <2> QED
      BY <1>1, <2>1, <2>2, <2>3, <2>4, <2>5, <2>6, <2>7, <2>8 DEF RequestStep
  <1>2. ASSUME NEW c \in Clients, NEW ch \in Channels, Ensure(c, ch) PROVE TypeOK'
    <2>1. client' \in [Clients -> Client]
      BY <1>2 DEF Ensure, Becomes, TypeOK, Client
    <2> QED
      BY <1>2, <1>w, <1>t, <2>1 DEF Ensure, TypeOK
  <1>3. ASSUME NEW c \in Clients, NEW ch \in Channels, Create(c, ch) PROVE TypeOK'
    <2>1. client' \in [Clients -> Client]
      BY <1>3 DEF Create, Becomes, TypeOK, Client
    <2>2. [live EXCEPT ![ch] = Restored(ch)] \in [Channels -> Content]
      BY <1>3, ContentTypes DEF Create, TypeOK
    <2>3. cached \cup {ch} \in SUBSET Channels
      BY DEF TypeOK
    <2>4. PICK failing \in Failing :
             Sweep(cached \cup {ch}, [live EXCEPT ![ch] = Restored(ch)], blob,
                   Touched(ch), Busy \cup {ch}, failing)
      BY <1>3, Zenon DEF Create
    <2>5. /\ cached' \subseteq Channels
          /\ older' \in [Channels -> SUBSET Channels]
          /\ live' \in [Channels -> Content]
          /\ ckpt' \in [Channels -> Values \cup {NoRecord}]
          /\ adrift' \subseteq Channels
      BY <1>t, <2>2, <2>3, <2>4, SweepTypes
    <2> QED
      BY <1>3, <1>w, <2>1, <2>5 DEF Create, TypeOK
  <1>4. ASSUME NEW ch \in Channels, StartTurn(ch) PROVE TypeOK'
    <2>1. turn' \in [Channels -> Turn]
      BY <1>4 DEF StartTurn, TypeOK, Turn
    <2> QED
      BY <1>4, <1>w, <2>1 DEF StartTurn, TypeOK
  <1>5. ASSUME NEW ch \in Channels, EndTurn(ch) PROVE TypeOK'
    <2>1. PICK v \in world.values, s \in world.suspensions \cup {NoSuspension} :
             Returned(ch, v, s) \/ Raised(ch, v, s)
      BY <1>5 DEF EndTurn
    <2>0. live' = [live EXCEPT ![ch] = [val |-> v, susp |-> s]]
      BY <2>1 DEF Returned, Raised
    <2>2. live' \in [Channels -> Content] /\ live'[ch].val = v
      BY <2>0, <1>v DEF TypeOK, Content
    <2>3. blob' \in [Channels -> Suspensions \cup {NoSuspension, Torn}]
      BY <2>1, <1>v DEF TypeOK, PersistPending, Returned, Raised
    <2>8. adrift' \subseteq Channels
      BY <2>1 DEF TypeOK, Returned, Raised
    <2>4. turn' \in [Channels -> Turn]
      BY <1>5 DEF EndTurn, TypeOK, Turn, NoTurn
    <2>5. Evictable(live'[ch], blob'[ch]) => live'[ch].val \in Values
      BY <2>2, <1>v DEF Evictable
    <2>6. ckpt' \in [Channels -> Values \cup {NoRecord}]
      BY <1>5, <2>5 DEF EndTurn, TypeOK
    <2>7. trims' \subseteq Channels
      BY <1>5 DEF EndTurn, TypeOK
    <2> QED
      BY <1>5, <1>w, <2>2, <2>3, <2>4, <2>6, <2>7, <2>8 DEF EndTurn, TypeOK
  <1>6. ASSUME NEW ch \in Channels, Trim(ch) PROVE TypeOK'
    <2>1. PICK failing \in Failing : Sweep(cached, live, blob, older, Busy, failing)
      BY <1>6, Zenon DEF Trim
    <2>2. /\ cached' \subseteq Channels
          /\ older' \in [Channels -> SUBSET Channels]
          /\ live' \in [Channels -> Content]
          /\ ckpt' \in [Channels -> Values \cup {NoRecord}]
          /\ adrift' \subseteq Channels
      BY <2>1, SweepTypes DEF TypeOK
    <2> QED
      BY <1>6, <1>w, <2>2 DEF Trim, TypeOK
  <1>r. \A dir, S : Removed(dir, S) =>
            /\ ckpt' \in [Channels -> Values \cup {NoRecord}]
            /\ blob' \in [Channels -> Suspensions \cup {NoSuspension, Torn}]
    BY DEF Removed, TypeOK
  <1>7. ASSUME NEW ch \in Channels, ReapRemove(ch) PROVE TypeOK'
    <2>1. reaper' \in Reaper
      BY <1>7 DEF ReapRemove, TypeOK, Reaper, Resting
    <2> QED
      BY <1>7, <1>w, <1>r, <2>1 DEF ReapRemove, TypeOK
  <1>8. ASSUME NEW dir \in {"ckpt", "blob"}, Reap(dir) PROVE TypeOK'
    BY <1>8, <1>w, <1>r DEF Reap, TypeOK
  <1>9. ASSUME NEW dir \in {"ckpt", "blob"}, ReapStart(dir) PROVE TypeOK'
    <2>1. reaper' \in Reaper
      BY <1>9 DEF ReapStart, TypeOK, Reaper, Resting, Held
    <2> QED
      BY <1>9, <1>w, <2>1 DEF ReapStart, TypeOK
  <1>10. CASE ReapList
    <2>0. PICK S \in SUBSET (Entries(reaper.store) \ reaper.spared) :
              reaper' = IF S = {} THEN Resting
                        ELSE [reaper EXCEPT !.at = "removing", !.doomed = S, !.spared = {}]
      BY <1>10 DEF ReapList
    <2>1. S \subseteq Channels
      BY DEF Entries
    <2>2. reaper' \in Reaper
      BY <2>0, <2>1 DEF TypeOK, Reaper, Resting
    <2> QED
      BY <1>10, <1>w, <2>2 DEF ReapList, TypeOK
  <1>11. CASE CloseAdmission
    BY <1>11, <1>w DEF CloseAdmission, TypeOK
  <1>s. Restarted => /\ cached' \subseteq Channels
                     /\ older' \in [Channels -> SUBSET Channels]
                     /\ live' \in [Channels -> Content]
                     /\ leases' \in [Channels -> Nat]
                     /\ turn' \in [Channels -> Turn]
                     /\ trims' \subseteq Channels
                     /\ client' \in [Clients -> Client]
                     /\ closed' \in BOOLEAN
                     /\ reaper' \in Reaper /\ adrift' \subseteq Channels
    <2> SUFFICES ASSUME Restarted
                 PROVE  /\ cached' \subseteq Channels
                        /\ older' \in [Channels -> SUBSET Channels]
                        /\ live' \in [Channels -> Content]
                        /\ leases' \in [Channels -> Nat]
                        /\ turn' \in [Channels -> Turn]
                        /\ trims' \subseteq Channels
                        /\ client' \in [Clients -> Client]
                        /\ closed' \in BOOLEAN
                        /\ reaper' \in Reaper /\ adrift' \subseteq Channels
      OBVIOUS
    <2>1. cached' \subseteq Channels /\ older' \in [Channels -> SUBSET Channels]
      BY DEF Restarted
    <2>2. live' \in [Channels -> Content] /\ leases' \in [Channels -> Nat]
      BY ResetTypes DEF Restarted
    <2>3. turn' \in [Channels -> Turn] /\ trims' \subseteq Channels /\ adrift' \subseteq Channels
      BY ResetTypes DEF Restarted
    <2>4. client' \in [Clients -> Client]
      BY ResetTypes DEF Restarted
    <2>5. closed' \in BOOLEAN /\ reaper' \in Reaper
      BY ResetTypes DEF Restarted
    <2> QED
      BY <2>1, <2>2, <2>3, <2>4, <2>5
  <1>12. CASE Shutdown
    <2>0. PICK failing \in Failing :
              ckpt' = [ch \in Channels |->
                          IF ch \in cached \ (Busy \cup failing) /\ Evictable(live[ch], blob[ch])
                          THEN live[ch].val ELSE ckpt[ch]]
      BY <1>12, Zenon DEF Shutdown
    <2>1. \A ch \in Channels : Evictable(live[ch], blob[ch]) => live[ch].val \in Values
      BY ContentTypes DEF Evictable
    <2>2. ckpt' \in [Channels -> Values \cup {NoRecord}]
      BY <2>0, <2>1 DEF TypeOK
    <2> QED
      BY <1>12, <1>w, <1>s, <2>2 DEF Shutdown, TypeOK
  <1>13. CASE Crash
    <2>1. blob' \in [Channels -> Suspensions \cup {NoSuspension, Torn}]
      BY <1>13 DEF Crash, TypeOK
    <2> QED
      BY <1>13, <1>w, <1>s, <2>1 DEF Crash, TypeOK
  <1>14. CASE UNCHANGED vars
    BY <1>14 DEF vars, TypeOK
  <1> QED
    BY <1>1, <1>2, <1>3, <1>4, <1>5, <1>6, <1>7, <1>8, <1>9, <1>10, <1>11, <1>12, <1>13,
       <1>14, <1>v DEF Next, TurnStep

LEMMA TypeInit == Init => TypeOK
  <1> SUFFICES ASSUME Init PROVE TypeOK
    OBVIOUS
  <1>1. /\ cached \subseteq Channels /\ trims \subseteq Channels /\ adrift \subseteq Channels
        /\ older \in [Channels -> SUBSET Channels]
    BY DEF Init
  <1>2. live \in [Channels -> Content] /\ leases \in [Channels -> Nat]
    BY ResetTypes DEF Init
  <1>3. turn \in [Channels -> Turn] /\ client \in [Clients -> Client]
    BY ResetTypes DEF Init
  <1>4. closed \in BOOLEAN /\ reaper \in Reaper /\ world \in Worlds
    BY ResetTypes DEF Init
  <1>5. ckpt \in [Channels -> Values \cup {NoRecord}]
    BY DEF Init
  <1>6. blob \in [Channels -> Suspensions \cup {NoSuspension, Torn}]
    BY DEF Init
  <1> QED
    BY <1>1, <1>2, <1>3, <1>4, <1>5, <1>6 DEF TypeOK

(* Every variable keeps its type: the cache holds channels, what a         *)
(* checkpoint holds can be restored, and a request names a channel.        *)
THEOREM TypeCorrect == Spec => []TypeOK
  <1>1. Init => TypeOK
    BY TypeInit
  <1>2. TypeOK /\ [Next]_vars => TypeOK'
    BY TypeStep
  <1> QED
    BY <1>1, <1>2, PTL DEF Spec

-----------------------------------------------------------------------------
(* Leases count requests. *)
LEMMA HoldersFinite ==
    \A ch \in Channels : /\ IsFiniteSet(Holders(ch))
                         /\ Cardinality(Holders(ch)) \in Nat
                         /\ Cardinality(Holders(ch)) = 0 <=> Holders(ch) = {}
  <1> SUFFICES ASSUME NEW ch \in Channels
               PROVE  /\ IsFiniteSet(Holders(ch))
                      /\ Cardinality(Holders(ch)) \in Nat
                      /\ Cardinality(Holders(ch)) = 0 <=> Holders(ch) = {}
    OBVIOUS
  <1>1. Holders(ch) \in SUBSET Clients
    BY DEF Holders
  <1>2. IsFiniteSet(Holders(ch))
    BY <1>1, ClientsAssumption, FS_Subset
  <1> QED
    BY <1>2, FS_CardinalityType, FS_EmptySet

LEMMA HoldersLease ==
    ASSUME TypeOK, LeasesCount, NEW c \in Clients, client[c].pc \in Using, client[c].ch \in Channels
    PROVE  leases[client[c].ch] > 0
  <1>1. Holders(client[c].ch) # {}
    BY DEF Holders
  <1> QED
    BY <1>1, HoldersFinite DEF LeasesCount

LEMMA LeaseCounts ==
    ASSUME TypeOK, LeasesCount, NEW c \in Clients, Lease(c)
    PROVE  LeasesCount'
  <1>0. PICK ch \in Channels : ch = client[c].ch
    BY DEF Lease, TypeOK, Client, IdleClient
  <1>1. client[c].pc = "ensured" /\ leases' = [leases EXCEPT ![ch] = @ + 1]
    BY <1>0 DEF Lease
  <1>2. client' = [client EXCEPT ![c] = [pc |-> "leased", ch |-> ch]]
    BY <1>0 DEF Lease, Becomes
  <1>3. Holders(ch)' = Holders(ch) \cup {c} /\ c \notin Holders(ch)
    BY <1>0, <1>1, <1>2 DEF Holders, Using, TypeOK
  <1>4. \A x \in Channels \ {ch} : Holders(x)' = Holders(x)
    BY <1>0, <1>1, <1>2 DEF Holders, Using, TypeOK
  <1>5. Cardinality(Holders(ch)') = Cardinality(Holders(ch)) + 1
    BY <1>3, HoldersFinite, FS_AddElement
  <1> QED
    BY <1>1, <1>4, <1>5 DEF LeasesCount, TypeOK

(* Whoever holds a lease gives back one. *)
LEMMA ReleaseCounts ==
    ASSUME TypeOK, LeasesCount, NEW c \in Clients, client[c].pc \in Using,
           Answered(c), Release(client[c].ch)
    PROVE  LeasesCount'
  <1>1. PICK ch \in Channels : ch = client[c].ch
    BY DEF TypeOK, Client, IdleClient, Using
  <1>2. client' = [client EXCEPT ![c] = IdleClient]
    BY DEF Answered
  <1>3. Holders(ch)' = Holders(ch) \ {c} /\ c \in Holders(ch)
    BY <1>1, <1>2 DEF Holders, Using, TypeOK, IdleClient
  <1>4. \A x \in Channels \ {ch} : Holders(x)' = Holders(x)
    BY <1>1, <1>2 DEF Holders, Using, TypeOK, IdleClient
  <1>5. Cardinality(Holders(ch)') = Cardinality(Holders(ch)) - 1
    <2>1. PICK S : S = Holders(ch) /\ IsFiniteSet(S) /\ c \in S
      BY <1>1, <1>3, HoldersFinite, Zenon
    <2>2. Cardinality(S \ {c}) = Cardinality(S) - 1
      BY <2>1, FS_RemoveElement
    <2>3. Holders(ch)' = S \ {c}
      BY <1>3, <2>1, Zenon
    <2> QED
      BY <2>1, <2>2, <2>3, Zenon
  <1>6. leases[ch] > 0
    BY <1>1, HoldersLease
  <1>7. leases'[ch] = leases[ch] - 1 /\ \A x \in Channels \ {ch} : leases'[x] = leases[x]
    BY <1>1, <1>6 DEF Release, TypeOK
  <1> QED
    BY <1>1, <1>4, <1>5, <1>7 DEF LeasesCount, TypeOK

(* A request that keeps its lease, or has none, changes nothing. *)
LEMMA KeepsCounts ==
    ASSUME TypeOK, LeasesCount, NEW c \in Clients, NEW next,
           client' = [client EXCEPT ![c] = next], UNCHANGED leases,
           \/ client[c].pc \in Using /\ next.pc \in Using /\ next.ch = client[c].ch
           \/ client[c].pc \notin Using /\ next.pc \notin Using
    PROVE  LeasesCount'
  <1>1. \A x \in Channels : Holders(x)' = Holders(x)
    BY DEF Holders, TypeOK
  <1> QED
    BY <1>1 DEF LeasesCount

LEMMA SameCounts ==
    LeasesCount /\ UNCHANGED <<client, leases>> => LeasesCount'
  BY DEF LeasesCount, Holders

LEMMA RestartCounts == Restarted => LeasesCount'
  <1> SUFFICES ASSUME Restarted PROVE LeasesCount'
    OBVIOUS
  <1>1. \A x \in Channels : Holders(x)' = {}
    BY DEF Restarted, Holders, Using, IdleClient
  <1> QED
    BY <1>1, FS_EmptySet DEF Restarted, LeasesCount

LEMMA CountsStep == TypeOK /\ LeasesCount /\ [Next]_vars => LeasesCount'
  <1> SUFFICES ASSUME TypeOK, LeasesCount, [Next]_vars PROVE LeasesCount'
    OBVIOUS
  <1>w. world.clients \subseteq Clients
    BY WorldsAssumption DEF TypeOK
  <1>1. ASSUME NEW c \in Clients, RequestStep(c) PROVE LeasesCount'
    <2> DEFINE ch == client[c].ch
    <2>1. CASE Lease(c)
      BY <2>1, LeaseCounts
    <2>2. CASE NotFound(c)
      BY <2>2, KeepsCounts DEF NotFound, Answered, IdleClient, Using
    <2>3. CASE Rejoin(c)
      BY <2>3, KeepsCounts DEF Rejoin, Becomes, Using
    <2>4. CASE Leave(c)
      BY <2>4, ReleaseCounts DEF Leave, Using
    <2>5. CASE Lock(c)
      BY <2>5, KeepsCounts DEF Lock, Becomes, Using
    <2>6. CASE Unlock(c)
      BY <2>6, ReleaseCounts DEF Unlock, Using
    <2>7. CASE CancelPending(c)
      BY <2>7, ReleaseCounts DEF CancelPending, Using
    <2>8. ASSUME NEW streams \in BOOLEAN, Register(c, streams) PROVE LeasesCount'
      <3>1. CASE streams
        BY <2>8, <3>1, ReleaseCounts DEF Register, Using
      <3>2. CASE ~streams
        BY <2>8, <3>2, KeepsCounts DEF Register, Becomes, Using
      <3> QED
        BY <3>1, <3>2
    <2> QED
      BY <1>1, <2>1, <2>2, <2>3, <2>4, <2>5, <2>6, <2>7, <2>8 DEF RequestStep
  <1>2. ASSUME NEW c \in Clients, NEW ch \in Channels, Ensure(c, ch) \/ Create(c, ch)
        PROVE LeasesCount'
    <2>1. UNCHANGED leases /\ client' = [client EXCEPT ![c] = [pc |-> "ensured", ch |-> ch]]
      BY <1>2 DEF Ensure, Create, Becomes
    <2>2. client[c].pc \notin Using
      BY <1>2 DEF Ensure, Create, Using
    <2> QED
      BY <2>1, <2>2, KeepsCounts DEF Using
  <1>3. ASSUME NEW ch \in Channels, TurnStep(ch) \/ ReapRemove(ch) PROVE LeasesCount'
    BY <1>3, SameCounts DEF TurnStep, StartTurn, EndTurn, Trim, ReapRemove
  <1>4. ASSUME NEW dir, Reap(dir) \/ ReapStart(dir) PROVE LeasesCount'
    BY <1>4, SameCounts DEF Reap, ReapStart
  <1>5. CASE ReapList \/ CloseAdmission \/ UNCHANGED vars
    BY <1>5, SameCounts DEF ReapList, CloseAdmission, vars
  <1>6. CASE Shutdown \/ Crash
    BY <1>6, RestartCounts DEF Shutdown, Crash
  <1> QED
    BY <1>1, <1>2, <1>3, <1>4, <1>5, <1>6, <1>w DEF Next

-----------------------------------------------------------------------------
(* A sweep spares what is in use. *)
LEMMA SweepSpares ==
    ASSUME NEW sessions, NEW content, NEW pending, NEW order, NEW busy, NEW failing,
           Sweep(sessions, content, pending, order, busy, failing)
    PROVE  sessions \cap busy \subseteq cached'
  BY SweepTakes

LEMMA UsedIsBusy ==
    ASSUME TypeOK, LeasesCount
    PROVE  /\ \A c \in Clients : client[c].pc \in Using => client[c].ch \in Channels \cap Busy
           /\ \A ch \in Channels : turn[ch].at # "none" => ch \in Busy
  <1>1. ASSUME NEW c \in Clients, client[c].pc \in Using PROVE client[c].ch \in Channels
    BY <1>1 DEF TypeOK, Client, IdleClient, Using
  <1> QED
    BY <1>1, HoldersLease DEF Busy

(* If no session in use is dropped, the steps of a request and of a turn    *)
(* find it cached.                                                          *)
LEMMA InUseStep == IInv /\ [Next]_vars => InUseStaysCached'
  <1> SUFFICES ASSUME IInv, [Next]_vars PROVE InUseStaysCached'
    OBVIOUS
  <1> USE DEF IInv
  <1>w. world.clients \subseteq Clients
    BY WorldsAssumption DEF TypeOK
  <1>c. \A c \in Clients : client[c].pc # "idle" => client[c].ch \in Channels
    BY DEF TypeOK, Client, IdleClient
  <1>1. ASSUME NEW c \in Clients, RequestStep(c) PROVE InUseStaysCached'
    <2> USE DEF TypeOK, InUseStaysCached, Becomes, Answered, IdleClient
    <2>1. CASE Lease(c)
      BY <2>1 DEF Lease
    <2>2. CASE NotFound(c)
      BY <2>2 DEF NotFound
    <2>3. CASE Rejoin(c)
      BY <2>3 DEF Rejoin
    <2>4. CASE Leave(c)
      BY <2>4 DEF Leave
    <2>5. CASE Lock(c)
      BY <2>5 DEF Lock
    <2>6. CASE Unlock(c)
      BY <2>6 DEF Unlock
    <2>7. CASE CancelPending(c)
      BY <2>7 DEF CancelPending
    <2>8. ASSUME NEW streams \in BOOLEAN, Register(c, streams) PROVE InUseStaysCached'
      <3>1. \A ch \in Channels : turn'[ch].at # "none" => ch \in cached'
        BY <2>8, <1>c DEF Register
      <3>2. \A d \in Clients : client'[d].pc \in Using => client'[d].ch \in cached'
        BY <2>8 DEF Register, Using
      <3> QED
        BY <3>1, <3>2 DEF Using
    <2> QED
      BY <1>1, <2>1, <2>2, <2>3, <2>4, <2>5, <2>6, <2>7, <2>8 DEF RequestStep
  <1>2. ASSUME NEW c \in Clients, NEW ch \in Channels, Ensure(c, ch) PROVE InUseStaysCached'
    BY <1>2 DEF Ensure, Becomes, InUseStaysCached, TypeOK
  <1>3. ASSUME NEW c \in Clients, NEW ch \in Channels, Create(c, ch) PROVE InUseStaysCached'
    <2>1. cached \cap Busy \subseteq cached'
      BY <1>3, SweepSpares DEF Create
    <2> QED
      BY <1>3, <2>1, UsedIsBusy DEF Create, Becomes, InUseStaysCached, TypeOK, Using
  <1>4. ASSUME NEW ch \in Channels, StartTurn(ch) \/ EndTurn(ch) PROVE InUseStaysCached'
    BY <1>4 DEF StartTurn, EndTurn, InUseStaysCached, TypeOK, NoTurn
  <1>5. ASSUME NEW ch \in Channels, Trim(ch) PROVE InUseStaysCached'
    <2>1. cached \cap Busy \subseteq cached'
      BY <1>5, SweepSpares DEF Trim
    <2> QED
      BY <1>5, <2>1, UsedIsBusy DEF Trim, InUseStaysCached, Using
  <1>6. ASSUME NEW ch \in Channels, ReapRemove(ch) PROVE InUseStaysCached'
    BY <1>6 DEF ReapRemove, InUseStaysCached
  <1>7. ASSUME NEW dir, Reap(dir) \/ ReapStart(dir) PROVE InUseStaysCached'
    BY <1>7 DEF Reap, ReapStart, InUseStaysCached
  <1>8. CASE ReapList \/ CloseAdmission \/ UNCHANGED vars
    BY <1>8 DEF ReapList, CloseAdmission, vars, InUseStaysCached
  <1>9. CASE Shutdown \/ Crash
    BY <1>9 DEF Shutdown, Crash, Restarted, InUseStaysCached, IdleClient, NoTurn
  <1> QED
    BY <1>1, <1>2, <1>3, <1>4, <1>5, <1>6, <1>7, <1>8, <1>9, <1>w DEF Next, TurnStep

LEMMA Inductive ==
    /\ Init => IInv
    /\ IInv /\ [Next]_vars => IInv'
  <1>1. ASSUME Init PROVE IInv
    <2>1. \A ch \in Channels : Holders(ch) = {}
      BY <1>1 DEF Init, Holders, Using, IdleClient
    <2>2. LeasesCount
      BY <1>1, <2>1, FS_EmptySet DEF Init, LeasesCount
    <2>3. InUseStaysCached
      BY <1>1 DEF Init, InUseStaysCached, IdleClient, NoTurn
    <2> QED
      BY <1>1, <2>2, <2>3, TypeInit DEF IInv
  <1> QED
    BY <1>1, TypeStep, CountsStep, InUseStep DEF IInv

(* A session somebody was handed, or whose turn is queued or running, is    *)
(* never dropped, and a creation hands over a session that is there: leases *)
(* and the busy predicate see every use (leased_session, _busy_channel_ids).*)
THEOREM HandedOverIsThere == Spec => SessionsInHand
  <1>1. IInv /\ [Next]_vars => [InUseStaysCached']_vars
    BY Inductive DEF IInv
  <1>2. IInv /\ [Next]_vars =>
            [\A c \in Clients, ch \in Channels :
                Create(c, ch) => ch \in cached' /\ client'[c].ch = ch]_vars
    <2> SUFFICES ASSUME IInv, NEW c \in Clients, NEW ch \in Channels, Create(c, ch)
                 PROVE  ch \in cached' /\ client'[c].ch = ch
      OBVIOUS
    <2>1. ch \in cached'
      BY SweepSpares DEF Create
    <2> QED
      BY <2>1 DEF Create, Becomes, IInv, TypeOK
  <1> QED
    BY <1>1, <1>2, Inductive, PTL DEF Spec, SessionsInHand, CreatedIsCached

-----------------------------------------------------------------------------
(* What a sweep leaves cached is as it was; what it takes is stored.        *)
LEMMA SweepKeeps ==
    ASSUME TypeOK, NEW sessions \in SUBSET Channels, NEW content \in [Channels -> Content],
           \A ch \in sessions \ adrift : blob[ch] \in {content[ch].susp, NoSuspension},
           UNCHANGED blob, NEW order, NEW busy, NEW failing,
           Sweep(sessions, content, blob, order, busy, failing)
    PROVE  /\ cached' \subseteq sessions
           /\ \A ch \in cached' : live'[ch] = content[ch]
           /\ \A ch \in (sessions \ cached') \ adrift : Restored(ch)' = content[ch]
           /\ \A ch \in cached' \ adrift' : ch \notin adrift
           /\ \A ch \in Channels \ sessions : Restored(ch)' = Restored(ch)
  <1>1. PICK R \in SUBSET {x \in sessions \ (busy \cup failing) :
                              Evictable(content[x], blob[x])} :
              /\ cached' = sessions \ R
              /\ older' = [x \in Channels |-> IF x \in cached' THEN order[x] \ R ELSE {}]
              /\ live' = [x \in Channels |-> IF x \in R THEN Blank ELSE content[x]]
              /\ ckpt' = [x \in Channels |-> IF x \in R THEN content[x].val ELSE ckpt[x]]
              /\ adrift' = adrift \ R
    BY Zenon DEF Sweep
  <1>2. ASSUME NEW ch \in R \ adrift PROVE Restored(ch)' = content[ch]
    <2>1. /\ content[ch] \in Content /\ content[ch].val \in Values
          /\ ckpt'[ch] = content[ch].val
      BY <1>1, ContentTypes DEF Evictable
    <2>2. blob[ch] = content[ch].susp
      BY <1>1 DEF Evictable
    <2> QED
      BY <2>1, <2>2, FreshAssumption DEF Restored, Content
  <1>3. ASSUME NEW ch \in Channels \ sessions PROVE Restored(ch)' = Restored(ch)
    <2>1. ckpt'[ch] = ckpt[ch]
      BY <1>1, <1>3
    <2> QED
      BY <2>1 DEF Restored
  <1> QED
    BY <1>1, <1>2, <1>3

(* A creation has the session the stores describe, and no session is lost.  *)
LEMMA CreateSweeps ==
    ASSUME DInv, NEW c \in Clients, NEW ch \in Channels, Create(c, ch)
    PROVE  /\ cached' \subseteq cached \cup {ch} /\ ch \in cached'
           /\ live'[ch] = Restored(ch)
           /\ \A x \in cached' \ {ch} : live'[x] = live[x]
           /\ \A x \in (cached \ cached') \ adrift : Restored(x)' = live[x]
           /\ \A x \in cached' \ adrift' : x \notin adrift
           /\ UNCHANGED blob
  <1> DEFINE content == [live EXCEPT ![ch] = Restored(ch)]
  <1>1. /\ content \in [Channels -> Content] /\ content[ch] = Restored(ch)
        /\ \A x \in Channels \ {ch} : content[x] = live[x]
    BY ContentTypes DEF DInv, IInv, TypeOK, Create
  <1>2. \A x \in (cached \cup {ch}) \ adrift : blob[x] \in {content[x].susp, NoSuspension}
    BY <1>1 DEF DInv, SnapshotsAgree, Restored, IInv, TypeOK
  <1>3. PICK failing \in Failing :
             Sweep(cached \cup {ch}, content, blob, Touched(ch), Busy \cup {ch}, failing)
    BY Zenon DEF Create
  <1>4. cached \cup {ch} \in SUBSET Channels /\ UNCHANGED blob /\ ch \notin cached
    BY DEF DInv, IInv, TypeOK, Create
  <1>5. /\ cached' \subseteq cached \cup {ch}
        /\ \A x \in cached' : live'[x] = content[x]
        /\ \A x \in ((cached \cup {ch}) \ cached') \ adrift : Restored(x)' = content[x]
        /\ \A x \in cached' \ adrift' : x \notin adrift
    <2> HIDE DEF content
    <2> QED
      BY <1>1, <1>2, <1>3, <1>4, SweepKeeps DEF DInv, IInv
  <1>6. ch \in cached'
    BY <1>3, SweepSpares
  <1> QED
    BY <1>1, <1>4, <1>5, <1>6

LEMMA TrimSweeps ==
    ASSUME DInv, NEW ch \in Channels, Trim(ch)
    PROVE  /\ cached' \subseteq cached
           /\ \A x \in cached' : live'[x] = live[x]
           /\ \A x \in (cached \ cached') \ adrift : Restored(x)' = live[x]
           /\ \A x \in cached' \ adrift' : x \notin adrift
           /\ UNCHANGED blob
  <1>1. PICK failing \in Failing : Sweep(cached, live, blob, older, Busy, failing)
    BY Zenon DEF Trim
  <1>2. UNCHANGED blob
    BY DEF Trim
  <1> QED
    BY <1>1, <1>2, SweepKeeps DEF DInv, IInv, TypeOK, SnapshotsAgree

(* A blob is written with what the session suspends on, or cleared.         *)
LEMMA SnapshotsStep == DInv /\ [Next]_vars => Encodes' /\ SnapshotsAgree'
  <1> SUFFICES ASSUME DInv, [Next]_vars PROVE Encodes' /\ SnapshotsAgree'
    OBVIOUS
  <1>e. Encodes'
    BY DEF DInv, Encodes, faults, Next, vars
  <1>w. world.clients \subseteq Clients /\ world.suspensions \subseteq Suspensions
    BY WorldsAssumption DEF DInv, IInv, TypeOK
  <1>t. /\ live \in [Channels -> Content] /\ cached \subseteq Channels
        /\ blob \in [Channels -> Suspensions \cup {NoSuspension, Torn}]
        /\ \A c \in Clients : client[c].pc # "idle" => client[c].ch \in Channels
    BY DEF DInv, IInv, TypeOK, Client, IdleClient
  <1>same. UNCHANGED <<cached, live, blob, adrift>> => SnapshotsAgree'
    BY DEF DInv, SnapshotsAgree
  <1>1. ASSUME NEW c \in Clients, RequestStep(c) PROVE SnapshotsAgree'
    <2>1. CASE Unlock(c)
      <3>1. \A ch \in Channels : live'[ch].susp = live[ch].susp
        BY <2>1, <1>t DEF Unlock, Content
      <3> QED
        BY <2>1, <3>1, <1>t DEF Unlock, DInv, SnapshotsAgree
    <2>2. CASE CancelPending(c)
      <3> DEFINE ch == client[c].ch
      <3>1. /\ blob' = [blob EXCEPT ![ch] = NoSuspension] /\ cached' = cached
            /\ adrift' = adrift \ {ch}
        BY <2>2 DEF CancelPending
      <3>2. \A x \in Channels \ {ch} : live'[x] = live[x] /\ blob'[x] = blob[x]
        BY <2>2, <1>t DEF CancelPending
      <3>3. ch \in Channels => blob'[ch] = NoSuspension
        BY <3>1, <1>t
      <3>4. ASSUME NEW x \in cached' \ adrift' PROVE blob'[x] \in {live'[x].susp, NoSuspension}
        BY <3>1, <3>2, <3>3, <1>t DEF DInv, SnapshotsAgree
      <3> QED
        BY <3>4 DEF SnapshotsAgree
    <2> QED
      BY <1>1, <2>1, <2>2, <1>same
      DEF RequestStep, Lease, NotFound, Rejoin, Leave, Lock, Register
  <1>2. ASSUME NEW c \in Clients, NEW ch \in Channels, Create(c, ch) PROVE SnapshotsAgree'
    <2>1. Restored(ch).susp = blob[ch]
      BY DEF Restored
    <2> QED
      BY <1>2, <2>1, CreateSweeps DEF DInv, SnapshotsAgree
  <1>3. ASSUME NEW ch \in Channels, EndTurn(ch) PROVE SnapshotsAgree'
    <2>1. PICK v \in world.values, s \in world.suspensions \cup {NoSuspension} :
             Returned(ch, v, s) \/ Raised(ch, v, s)
      BY <1>3 DEF EndTurn
    <2>2. live'[ch].susp = s /\ \A x \in Channels \ {ch} : live'[x] = live[x]
      BY <2>1, <1>t DEF Returned, Raised
    <2>3. CASE Returned(ch, v, s)
      <3>1. blob' = [blob EXCEPT ![ch] = s] /\ adrift' = adrift \ {ch}
        BY <2>3 DEF Returned, PersistPending, DInv, Encodes
      <3> QED
        BY <1>3, <2>2, <3>1, <1>t DEF EndTurn, DInv, SnapshotsAgree
    <2>4. CASE Raised(ch, v, s)
      <3>1. CASE s = live[ch].susp
        BY <1>3, <2>2, <2>4, <3>1, <1>t DEF EndTurn, Raised, DInv, SnapshotsAgree
      <3>2. CASE s # live[ch].susp
        BY <1>3, <2>2, <2>4, <3>2, <1>t DEF EndTurn, Raised, DInv, SnapshotsAgree
      <3> QED
        BY <3>1, <3>2
    <2> QED
      BY <2>1, <2>3, <2>4
  <1>4. ASSUME NEW ch \in Channels, Trim(ch) PROVE SnapshotsAgree'
    BY <1>4, TrimSweeps DEF DInv, SnapshotsAgree
  <1>5. ASSUME NEW dir, NEW S, Removed(dir, S), UNCHANGED <<cached, live, adrift>>
        PROVE  SnapshotsAgree'
    BY <1>5, <1>t DEF Removed, DInv, SnapshotsAgree
  <1>6. ASSUME NEW ch \in Channels, ReapRemove(ch) PROVE SnapshotsAgree'
    BY <1>5, <1>6 DEF ReapRemove
  <1>7. ASSUME NEW dir, Reap(dir) PROVE SnapshotsAgree'
    BY <1>5, <1>7 DEF Reap
  <1>8. CASE Shutdown \/ Crash
    BY <1>8, <1>e DEF Shutdown, Crash, Restarted, SnapshotsAgree
  <1>9. ASSUME NEW c \in Clients, NEW ch \in Channels, Ensure(c, ch) PROVE SnapshotsAgree'
    BY <1>9, <1>same DEF Ensure
  <1>10. ASSUME NEW dir, ReapStart(dir) PROVE SnapshotsAgree'
    BY <1>10, <1>same DEF ReapStart
  <1>11. CASE ReapList \/ CloseAdmission \/ UNCHANGED vars
    BY <1>11, <1>e, <1>same DEF ReapList, CloseAdmission, vars
  <1>12. ASSUME NEW ch \in Channels, StartTurn(ch) PROVE SnapshotsAgree'
    BY <1>12, <1>same DEF StartTurn
  <1> QED
    BY <1>e, <1>1, <1>2, <1>3, <1>4, <1>6, <1>7, <1>8, <1>9, <1>10, <1>11, <1>12, <1>w
    DEF Next, TurnStep

LEMMA DurablyInductive ==
    /\ Init /\ Encodes => DInv
    /\ DInv /\ [Next]_vars => DInv'
  <1>1. Init => SnapshotsAgree
    BY DEF Init, SnapshotsAgree
  <1> QED
    BY <1>1, Inductive, SnapshotsStep DEF DInv

LEMMA RetiredAsItWas ==
    ASSUME DInv, [Next]_vars, ~Crash, ~Shutdown, NEW ch \in Channels \ adrift
    PROVE  /\ (ch \in cached) # (ch \in cached') => Stored(ch)' = Stored(ch)
           /\ ch \in cached /\ ch \notin cached' => live[ch].susp \in {NoSuspension, blob[ch]}
  <1>w. world.clients \subseteq Clients
    BY WorldsAssumption DEF DInv, IInv, TypeOK
  <1>1. ASSUME NEW c \in Clients, NEW x \in Channels, Create(c, x)
        PROVE  /\ (ch \in cached) # (ch \in cached') => Stored(ch)' = Stored(ch)
               /\ ch \in cached /\ ch \notin cached' => live[ch].susp \in {NoSuspension, blob[ch]}
    <2>1. CASE ch \in cached /\ ch \notin cached'
      <3>1. Restored(ch)' = live[ch] /\ UNCHANGED blob
        BY <1>1, <2>1, CreateSweeps
      <3> QED
        BY <2>1, <3>1 DEF Stored, Restored
    <2>2. CASE ch \notin cached /\ ch \in cached'
      BY <1>1, <2>2, CreateSweeps DEF Stored
    <2> QED
      BY <2>1, <2>2
  <1>2. ASSUME NEW x \in Channels, Trim(x)
        PROVE  /\ (ch \in cached) # (ch \in cached') => Stored(ch)' = Stored(ch)
               /\ ch \in cached /\ ch \notin cached' => live[ch].susp \in {NoSuspension, blob[ch]}
    <2>1. CASE ch \in cached /\ ch \notin cached'
      <3>1. Restored(ch)' = live[ch] /\ UNCHANGED blob
        BY <1>2, <2>1, TrimSweeps
      <3> QED
        BY <2>1, <3>1 DEF Stored, Restored
    <2> QED
      BY <1>2, <2>1, TrimSweeps
  <1> QED
    BY <1>1, <1>2, <1>w
    DEF Next, TurnStep, RequestStep, Lease, NotFound, Rejoin, Leave, Lock, Unlock, CancelPending,
        Register, Ensure, StartTurn, EndTurn, Reap, ReapStart, ReapList, ReapRemove,
        CloseAdmission, vars

(* Where every state can be encoded, retiring a session and rebuilding it   *)
(* are invisible, and a suspended one leaves with its own snapshot, whatever*)
(* writes fail, whatever is cancelled, cleared by the reaper, torn or       *)
(* restarted in between; but for a session whose last turn raised after it  *)
(* had changed what is suspended (assess, _evict_oldest_if_needed).         *)
THEOREM RetiringIsInvisible == Spec /\ Encodes => RetirementLosesNothing
  <1>1. DInv /\ [Next]_vars =>
           [~Crash /\ ~Shutdown =>
               \A ch \in Channels \ adrift : (ch \in cached) # (ch \in cached') =>
                   Stored(ch)' = Stored(ch)]_vars
    BY RetiredAsItWas
  <1>2. DInv /\ [Next]_vars =>
           [\A ch \in cached \ adrift :
               ch \notin cached' => \/ live[ch].susp \in {NoSuspension, blob[ch]}
                                    \/ Crash \/ Shutdown]_vars
    BY RetiredAsItWas DEF DInv, IInv, TypeOK
  <1> QED
    BY <1>1, <1>2, DurablyInductive, PTL
    DEF Spec, RetirementLosesNothing, CachingIsInvisible, RetiredWithItsSnapshot

(* Where moreover no checkpoint write fails, an orderly stop keeps every    *)
(* session that is at rest and not pinned, but for one whose last turn      *)
(* raised like that (checkpoint_for_shutdown).                              *)
THEOREM RestingSurvivesShutdown == Spec /\ Encodes /\ Writes => RestartKeepsWhatRests
  <1>1. Writes /\ [Next]_vars => Writes'
    BY DEF Writes, faults, Next, vars
  <1>2. DInv /\ Writes /\ [Next]_vars =>
           [Shutdown => \A ch \in Channels \ (Busy \cup adrift) :
               ch \in cached => \/ Stored(ch)' = Stored(ch)
                                \/ ~Evictable(live[ch], blob[ch])]_vars
    <2> SUFFICES ASSUME DInv, Writes, Shutdown, NEW ch \in Channels \ (Busy \cup adrift), ch \in cached,
                        Evictable(live[ch], blob[ch])
                 PROVE  Stored(ch)' = Stored(ch)
      BY Zenon
    <2>1. live[ch] \in Content /\ live[ch].val \in Values
      BY ContentTypes DEF DInv, IInv, Evictable
    <2>2. ckpt'[ch] = live[ch].val
      BY DEF Shutdown, Failing, Writes
    <2>3. blob'[ch] = live[ch].susp
      BY DEF Shutdown, Evictable, DInv, SnapshotsAgree
    <2>4. cached' = {}
      BY DEF Shutdown, Restarted
    <2> QED
      BY <2>1, <2>2, <2>3, <2>4, FreshAssumption DEF Stored, Restored, Content
  <1> QED
    BY <1>1, <1>2, DurablyInductive, PTL DEF Spec, RestartKeepsWhatRests

-----------------------------------------------------------------------------
(* ArtifactVersions: a trainer makes a version, publishes one, or rests.    *)
Building == {"move", "build"}
Publishing == {"publish", "route", "unroute", "retain", "prune"}
Manifests == {"none", "begun", "ok", "damaged"}
Kinds == {"train", "repair", "migrate"}

(* What the variables are, field by field.                                  *)
Editions == UNION {[D -> Nat] : D \in SUBSET Contexts}
Models == UNION {[D -> Editions] : D \in SUBSET Contexts}
Signatures == UNION {[D -> Nat \X Nat] : D \in SUBSET Contexts}
Version == [there : BOOLEAN, models : Models, half : SUBSET Contexts, sig : Signatures,
            manifest : Manifests, previous : Nat, from : Nat, carried : SUBSET Contexts]
Trainer == [step : Steps, kind : Kinds, prev : Nat, v : Nat,
            todo : SUBSET (Contexts \cup Versions), now : SUBSET Contexts,
            train : SUBSET Contexts, carry : SUBSET Contexts, from : Nat,
            loaded : [Contexts -> 0..MaxEdits], sig : Signatures]
Shapes ==
    /\ setting \in Settings /\ legacy \subseteq Contexts
    /\ source \in [Contexts -> 0..MaxEdits]
    /\ minted \in 0..MaxVersions
    /\ entry \in [Contexts -> 0..minted] /\ link \in 0..minted /\ pointer \in 0..minted
    /\ strays \subseteq 1..minted
    /\ store \in [Versions -> Version]
    /\ proc \in [Trainers -> Trainer]
    /\ lock \in Trainers \cup {Nobody}
    /\ past \subseteq {"overlap", "damage", "edited"}

(* The directories: a signature is of all commands, and a version comes     *)
(* after those it refers to.                                                *)
Ordered ==
    \A v \in Versions :
        /\ DOMAIN store[v].sig \in {{}, Contexts}
        /\ store[v].there => v <= minted
        /\ store[v].previous < v /\ store[v].from < v

(* Nothing is in the directory of a version that was not minted.            *)
Unminted == \A v \in Versions : v <= minted \/ store[v] = Absent

(* Who publishes but for a migration has the lock, and who has the lock     *)
(* publishes; and a trainer is at a version that was minted.                *)
Placed(t) ==
    /\ proc[t].step \in Publishing => (lock = t <=> proc[t].kind # "migrate")
    /\ proc[t].kind = "migrate" =>
          /\ setting.legacy # {}
          /\ proc[t].step \in {"move", "publish", "route", "unroute", "resolve"}
    /\ At(t, "move") => proc[t].kind = "migrate"
    /\ {proc[t].prev, proc[t].v, proc[t].from} \subseteq 0..minted
    /\ proc[t].step \in Publishing \cup Building \cup {"lock"} => proc[t].v # 0
    /\ At(t, "build") => /\ proc[t].from < proc[t].v
                         /\ DOMAIN proc[t].sig = Contexts
Locked ==
    /\ legacy \subseteq setting.legacy
    /\ lock # Nobody => proc[lock].step \in Publishing
    /\ \A t \in Trainers : Placed(t)

VTypes == Shapes /\ Ordered /\ Unminted /\ Locked
-----------------------------------------------------------------------------
LEMMA MaxVersionsNat == MaxVersions \in Nat /\ MaxEdits \in Nat
  BY VersionsAssumption

LEMMA EmptyIs ==
    Empty \in Models /\ Empty \in Editions /\ Empty \in Signatures /\ DOMAIN Empty = {}
  <1>1. /\ Empty \in [{} -> Nat] /\ Empty \in [{} -> Editions]
        /\ Empty \in [{} -> Nat \X Nat]
    BY DEF Empty
  <1> QED
    BY <1>1 DEF Models, Editions, Signatures

LEMMA EditionsAre ==
    ASSUME NEW D \in SUBSET Contexts
    PROVE  /\ \A e \in [D -> Nat] : e \in Editions
           /\ \A m \in [D -> Editions] : m \in Models
  BY DEF Editions, Models

LEMMA ModelsAre ==
    ASSUME NEW m \in Models
    PROVE  /\ DOMAIN m \subseteq Contexts
           /\ m \in [DOMAIN m -> Editions]
  BY DEF Models

LEMMA EditionIs ==
    ASSUME NEW e \in Editions
    PROVE  DOMAIN e \subseteq Contexts /\ e \in [DOMAIN e -> Nat]
  BY DEF Editions

LEMMA WithIs ==
    ASSUME NEW m \in Models, NEW c \in Contexts, NEW e \in Editions
    PROVE  /\ With(m, c, e) \in Models
           /\ DOMAIN With(m, c, e) = DOMAIN m \cup {c}
           /\ With(m, c, e)[c] = e
           /\ \A d \in DOMAIN m \ {c} : With(m, c, e)[d] = m[d]
  <1>1. DOMAIN m \cup {c} \in SUBSET Contexts /\ m \in [DOMAIN m -> Editions]
    BY ModelsAre
  <1>2. With(m, c, e) \in [DOMAIN m \cup {c} -> Editions]
    BY <1>1 DEF With
  <1>3. With(m, c, e) \in Models
    BY <1>1, <1>2, EditionsAre
  <1> QED
    BY <1>3 DEF With

LEMMA WithoutIs ==
    ASSUME NEW m \in Models, NEW c
    PROVE  /\ [d \in DOMAIN m \ {c} |-> m[d]] \in Models
           /\ DOMAIN [d \in DOMAIN m \ {c} |-> m[d]] = DOMAIN m \ {c}
           /\ \A e \in DOMAIN m \ {c} : [d \in DOMAIN m \ {c} |-> m[d]][e] = m[e]
  <1>1. DOMAIN m \ {c} \in SUBSET Contexts /\ m \in [DOMAIN m -> Editions]
    BY ModelsAre
  <1>2. [d \in DOMAIN m \ {c} |-> m[d]] \in [DOMAIN m \ {c} -> Editions]
    BY <1>1
  <1> QED
    BY <1>1, <1>2, EditionsAre

LEMMA FeedsAre ==
    ASSUME NEW c \in Contexts
    PROVE  Feeds(c) \subseteq Contexts /\ c \in Feeds(c)
  BY AncestryIsClosed DEF Feeds

(* What the modules a run has loaded are, for a context and for all.        *)
Loaded(t, c) == [d \in Feeds(c) |-> proc[t].loaded[d]]

LEMMA LoadedIs ==
    ASSUME Shapes, NEW t \in Trainers, NEW c \in Contexts
    PROVE  /\ Loaded(t, c) \in Editions
           /\ \A d \in Feeds(c) : Loaded(t, c)[d] = proc[t].loaded[d]
  <1>1. Feeds(c) \in SUBSET Contexts
    BY FeedsAre
  <1>2. proc[t].loaded \in [Contexts -> 0..MaxEdits]
    BY DEF Shapes, Trainer
  <1>3. \A d \in Contexts : proc[t].loaded[d] \in Nat
    BY <1>2, MaxVersionsNat
  <1>4. Loaded(t, c) \in [Feeds(c) -> Nat]
    BY <1>1, <1>3 DEF Loaded
  <1> QED
    BY <1>1, <1>4, EditionsAre DEF Loaded

LEMMA OldIs ==
    ASSUME NEW c \in Contexts
    PROVE  /\ [d \in Feeds(c) |-> 0] \in Editions
           /\ DOMAIN [d \in Feeds(c) |-> 0] = Feeds(c)
           /\ \A d \in Feeds(c) : [x \in Feeds(c) |-> 0][d] = 0
  <1>1. Feeds(c) \in SUBSET Contexts /\ [d \in Feeds(c) |-> 0] \in [Feeds(c) -> Nat]
    BY FeedsAre
  <1> QED
    BY <1>1, EditionsAre

LEMMA PrintsAre ==
    ASSUME Shapes, NEW t \in Trainers
    PROVE  /\ Prints(t) \in Signatures /\ DOMAIN Prints(t) = Contexts
           /\ \A d \in Contexts : /\ Prints(t)[d][1] = source[d]
                                  /\ Prints(t)[d][2] = Seeds[d][proc[t].loaded[d]]
  <1>1. proc[t].loaded \in [Contexts -> 0..MaxEdits]
    BY DEF Shapes, Trainer
  <1>2. ASSUME NEW d \in Contexts PROVE <<source[d], Seeds[d][proc[t].loaded[d]]>> \in Nat \X Nat
    <2>1. source[d] \in Nat /\ proc[t].loaded[d] \in 0..MaxEdits
      BY <1>1, MaxVersionsNat DEF Shapes
    <2>2. Seeds[d] \in [0..MaxEdits -> Nat]
      BY VersionsAssumption
    <2> QED
      BY <2>1, <2>2
  <1>3. Prints(t) \in [Contexts -> Nat \X Nat]
    BY <1>2 DEF Prints
  <1> QED
    BY <1>3 DEF Prints, Signatures

LEMMA AbsentIs == Absent \in Version /\ Idle \in Trainer
  <1>1. Unread \in [Contexts -> 0..MaxEdits]
    BY MaxVersionsNat DEF Unread
  <1> QED
    BY <1>1, EmptyIs DEF Absent, Idle, Version, Trainer, Manifests, Kinds, Steps

LEMMA AtVersion ==
    ASSUME VTypes, NEW t \in Trainers
    PROVE  /\ proc[t] \in Trainer
           /\ proc[t].v \in Nat /\ proc[t].prev \in Nat /\ proc[t].from \in Nat
           /\ proc[t].v # 0 => proc[t].v \in Versions
           /\ proc[t].prev # 0 => proc[t].prev \in Versions
           /\ proc[t].from # 0 => proc[t].from \in Versions
           /\ proc[t].step \in Publishing \cup Building \cup {"lock"} => proc[t].v \in Versions
  BY MaxVersionsNat DEF VTypes, Shapes, Locked, Placed, Versions, Trainer

LEMMA LeadsToVersion ==
    ASSUME VTypes
    PROVE  /\ pointer # 0 => pointer \in Versions
           /\ link # 0 => link \in Versions
           /\ 0 \notin Versions
           /\ \A c \in Contexts : entry[c] # 0 => entry[c] \in Versions
  BY MaxVersionsNat DEF VTypes, Shapes, Versions

LEMMA ModelsOf ==
    ASSUME Shapes, NEW v \in Versions
    PROVE  /\ store[v] \in Version
           /\ Holds(v) = DOMAIN store[v].models /\ Holds(v) \subseteq Contexts
           /\ Folders(v) = DOMAIN store[v].models \cup store[v].half
           /\ Folders(v) \subseteq Contexts
           /\ \A c \in Holds(v) : store[v].models[c] \in Editions
  <1>1. store[v] \in Version /\ store[v].models \in Models /\ store[v].half \subseteq Contexts
    BY DEF Shapes, Version
  <1>2. v # 0
    BY DEF Versions
  <1> QED
    BY <1>1, <1>2, ModelsAre DEF Holds, Folders

-----------------------------------------------------------------------------
(* What each step does, field by field.                                     *)
Others(t) == proc' \in [Trainers -> Trainer] /\ \A u \in Trainers \ {t} : proc'[u] = proc[u]
Elsewhere(v) == store' \in [Versions -> Version] /\ \A w \in Versions \ {v} : store'[w] = store[w]
(* A trainer goes on at another step, with what it had.                     *)
Onward(t, step, todo, carry) ==
    /\ Others(t) /\ proc'[t].step = step /\ proc'[t].kind = proc[t].kind
    /\ proc'[t].prev = proc[t].prev /\ proc'[t].v = proc[t].v
    /\ proc'[t].todo = todo /\ proc'[t].carry = carry
    /\ proc'[t].from = proc[t].from /\ proc'[t].sig = proc[t].sig
    /\ proc'[t].train = proc[t].train /\ proc'[t].loaded = proc[t].loaded
(* A version is there with the same records, or with models for a context,  *)
(* or with its directory lacking some.                                      *)
Labelled(v) ==
    /\ Elsewhere(v) /\ store'[v].there /\ store'[v].sig = store[v].sig
    /\ store'[v].previous = store[v].previous /\ store'[v].from = store[v].from
Filled(v, c, e) ==
    /\ Labelled(v) /\ store'[v].manifest = store[v].manifest
    /\ store'[v].models = With(store[v].models, c, e)
    /\ store'[v].half = store[v].half \ {c}
Left(v, c) ==
    /\ Labelled(v) /\ store'[v].manifest = store[v].manifest
    /\ DOMAIN store'[v].models = DOMAIN store[v].models \ {c}
    /\ \A d \in DOMAIN store[v].models \ {c} : store'[v].models[d] = store[v].models[d]
    /\ store'[v].half = store[v].half \cup {c}
(* A trainer stops, whether it succeeds, raises or is killed.               *)
Stops(t) ==
    /\ proc[t].step \notin Ended
    /\ Others(t) /\ proc'[t].step \in Ended /\ proc'[t].kind = "train"
    /\ proc'[t].v = 0 /\ proc'[t].from = 0 /\ proc'[t].prev \in {0, proc[t].prev}
    /\ lock' = IF lock = t THEN Nobody ELSE lock
    /\ strays \subseteq strays' /\ strays' \subseteq strays \cup ({proc[t].v} \ {0})
    /\ UNCHANGED <<setting, source, legacy, store, entry, link, pointer, minted, past>>

LEMMA Going ==
    ASSUME Shapes, NEW t \in Trainers, NEW r \in Trainer, Goes(t, r)
    PROVE  Others(t) /\ proc'[t] = r
  BY DEF Shapes, Goes, Others

LEMMA Storing ==
    ASSUME Shapes, NEW v \in Versions, NEW r \in Version, store' = [store EXCEPT ![v] = r]
    PROVE  Elsewhere(v) /\ store'[v] = r
  BY DEF Shapes, Elsewhere

LEMMA Stopping ==
    ASSUME VTypes, NEW t \in Trainers, NEW s \in Ended, Ends(t, s)
    PROVE  /\ Others(t) /\ proc'[t].step \in Ended /\ proc'[t].kind = "train"
           /\ proc'[t].v = 0 /\ proc'[t].from = 0 /\ proc'[t].prev \in {0, proc[t].prev}
           /\ lock' = IF lock = t THEN Nobody ELSE lock
  <1> DEFINE r == [Idle EXCEPT !.step = s, !.prev = IF s = "off" THEN 0 ELSE proc[t].prev]
  <1>1. r \in Trainer
    BY AbsentIs, AtVersion DEF Trainer, Idle, Ended, Steps
  <1>2. Goes(t, r)
    BY DEF Ends, Goes
  <1>3. Others(t) /\ proc'[t] = r
    BY <1>1, <1>2, Going DEF VTypes
  <1>4. /\ r.step = s /\ r.kind = "train" /\ r.v = 0 /\ r.from = 0
        /\ r.prev = IF s = "off" THEN 0 ELSE proc[t].prev
    BY DEF Idle
  <1> QED
    BY <1>3, <1>4 DEF Ends

LEMMA EndsStop ==
    ASSUME VTypes, NEW t \in Trainers, NEW s \in Ended, Ends(t, s), proc[t].step \notin Ended,
           UNCHANGED <<setting, source, disk, minted, past>>
    PROVE  Stops(t)
  BY Stopping DEF Stops, disk

LEMMA KilledSwappingStops ==
    ASSUME VTypes, NEW t \in Trainers, KilledSwapping(t)
    PROVE  Stops(t)
  <1>1. Ends(t, "off") /\ "off" \in Ended
    BY DEF KilledSwapping, Ended
  <1>2. proc[t].v # 0 /\ proc[t].step \notin Ended
    BY DEF KilledSwapping, At, VTypes, Locked, Placed, Publishing, Ended
  <1> QED
    BY <1>1, <1>2, Stopping DEF Stops, KilledSwapping

LEMMA Filling ==
    ASSUME VTypes, NEW v \in Versions, NEW c \in Contexts, NEW e \in Editions,
           store' = Deliver(v, c, e)
    PROVE  Filled(v, c, e)
  <1> DEFINE m == With(store[v].models, c, e)
             h == store[v].half \ {c}
             s == [store[v] EXCEPT !.there = TRUE, !.models = m, !.half = h]
  <1>1. store[v] \in Version /\ m \in Models
    BY WithIs, ModelsOf DEF VTypes, Version
  <1>2. s \in Version
    BY <1>1 DEF Version
  <1>3. Elsewhere(v) /\ store'[v] = s
    BY <1>2, Storing DEF VTypes, Deliver
  <1>4. /\ s.there /\ s.models = m /\ s.half = h
        /\ s.sig = store[v].sig /\ s.manifest = store[v].manifest
        /\ s.previous = store[v].previous /\ s.from = store[v].from
    BY <1>1 DEF Version
  <1> QED
    BY <1>3, <1>4 DEF Filled, Labelled

LEMMA Leaving ==
    ASSUME VTypes, NEW v \in Versions, NEW c \in Contexts, store' = Halve(v, c)
    PROVE  Left(v, c)
  <1> DEFINE m == [d \in DOMAIN store[v].models \ {c} |-> store[v].models[d]]
             h == store[v].half \cup {c}
             s == [store[v] EXCEPT !.there = TRUE, !.models = m, !.half = h]
  <1>1. store[v] \in Version /\ store[v].models \in Models
    BY ModelsOf DEF VTypes, Version
  <1>2. /\ m \in Models /\ DOMAIN m = DOMAIN store[v].models \ {c}
        /\ \A d \in DOMAIN store[v].models \ {c} : m[d] = store[v].models[d]
    BY <1>1, WithoutIs
  <1>3. s \in Version
    BY <1>1, <1>2 DEF Version
  <1>4. Elsewhere(v) /\ store'[v] = s
    BY <1>3, Storing DEF VTypes, Halve
  <1>5. /\ s.there /\ s.models = m /\ s.half = h
        /\ s.sig = store[v].sig /\ s.manifest = store[v].manifest
        /\ s.previous = store[v].previous /\ s.from = store[v].from
    BY <1>1 DEF Version
  <1> HIDE DEF m
  <1> QED
    BY <1>2, <1>4, <1>5 DEF Left, Labelled

LEMMA OnwardIs ==
    ASSUME VTypes, NEW t \in Trainers, NEW step \in Steps, NEW todo,
           todo \in SUBSET (Contexts \cup Versions),
           Goes(t, [proc[t] EXCEPT !.step = step, !.todo = todo])
    PROVE  Onward(t, step, todo, proc[t].carry)
  <1> DEFINE r == [proc[t] EXCEPT !.step = step, !.todo = todo]
  <1>1. proc[t] \in Trainer /\ r \in Trainer
    BY AtVersion DEF Trainer
  <1>2. Others(t) /\ proc'[t] = r
    BY <1>1, Going DEF VTypes
  <1>3. /\ r.step = step /\ r.kind = proc[t].kind /\ r.prev = proc[t].prev /\ r.v = proc[t].v
        /\ r.todo = todo /\ r.carry = proc[t].carry
        /\ r.from = proc[t].from /\ r.sig = proc[t].sig /\ r.train = proc[t].train
        /\ r.loaded = proc[t].loaded
    BY <1>1 DEF Trainer
  <1> QED
    BY <1>2, <1>3 DEF Onward

LEMMA MoveIs ==
    ASSUME VTypes, NEW t \in Trainers, NEW c \in Contexts, Move(t, c)
    PROVE  /\ At(t, "move") /\ c \in proc[t].todo \cap legacy
           /\ Onward(t, "move", proc[t].todo \ {c}, proc[t].carry)
           /\ Filled(proc[t].v, c, [d \in Feeds(c) |-> 0]) /\ legacy' = legacy \ {c}
           /\ UNCHANGED <<setting, source, entry, link, pointer, strays, lock, minted, past>>
  <1>1. At(t, "move") /\ proc[t].v \in Versions /\ proc[t] \in Trainer
    BY AtVersion DEF Move, At, Building
  <1>2. Filled(proc[t].v, c, [d \in Feeds(c) |-> 0])
    BY <1>1, OldIs, Filling DEF Move
  <1>3. Onward(t, "move", proc[t].todo \ {c}, proc[t].carry)
    <2>1. [proc[t] EXCEPT !.todo = @ \ {c}] =
              [proc[t] EXCEPT !.step = "move", !.todo = proc[t].todo \ {c}]
      BY <1>1 DEF Trainer, At
    <2> QED
      BY <1>1, <2>1, OnwardIs DEF Move, Trainer, Steps
  <1> QED
    BY <1>1, <1>2, <1>3 DEF Move

LEMMA BeginIs ==
    ASSUME VTypes, NEW t \in Trainers, Begin(t)
    PROVE  /\ proc[t].step \in Ended
           /\ setting.together \/ \A u \in Trainers : proc[u].step \in Ended
           /\ past' = past \cup (IF \E u \in Trainers \ {t} : proc[u].step \notin Ended
                                 THEN {"overlap"} ELSE {})
           /\ Others(t) /\ proc'[t].prev = 0 /\ proc'[t].from = 0
           /\ UNCHANGED <<setting, source, legacy, entry, link, pointer, strays, lock>>
           /\ \/ /\ legacy = {} /\ proc'[t].step = "resolve" /\ proc'[t].kind = "train"
                 /\ proc'[t].v = 0 /\ UNCHANGED <<store, minted>>
              \/ /\ legacy # {} /\ proc'[t].step = "move" /\ proc'[t].kind = "migrate"
                 /\ proc'[t].v = minted + 1 /\ proc'[t].todo = legacy
                 /\ minted' = minted + 1 /\ minted + 1 \in Versions
                 /\ Labelled(minted + 1)
                 /\ store'[minted + 1].models = store[minted + 1].models
                 /\ store'[minted + 1].half = store[minted + 1].half
                 /\ store'[minted + 1].manifest = store[minted + 1].manifest
  <1> DEFINE n == minted + 1
             r1 == [Idle EXCEPT !.step = "resolve", !.loaded = source]
             r2 == [Idle EXCEPT !.step = "move", !.kind = "migrate", !.v = n, !.todo = legacy,
                                !.loaded = source]
             s == [store[n] EXCEPT !.there = TRUE]
  <1>s. source \in [Contexts -> 0..MaxEdits]
    BY DEF VTypes, Shapes
  <1>1. Idle \in Trainer /\ r1 \in Trainer
    BY <1>s, AbsentIs DEF Trainer, Idle, Steps
  <1>2. ASSUME legacy = {}, Goes(t, r1), UNCHANGED <<store, minted>>
        PROVE  /\ Others(t) /\ proc'[t].prev = 0 /\ proc'[t].from = 0
               /\ proc'[t].step = "resolve" /\ proc'[t].kind = "train" /\ proc'[t].v = 0
    <2>1. Others(t) /\ proc'[t] = r1
      BY <1>1, <1>2, Going DEF VTypes
    <2> QED
      BY <2>1 DEF Idle
  <1>3. ASSUME legacy # {}, n <= setting.versions, minted' = n,
               store' = [store EXCEPT ![n].there = TRUE], Goes(t, r2)
        PROVE  /\ Others(t) /\ proc'[t].prev = 0 /\ proc'[t].from = 0
               /\ proc'[t].step = "move" /\ proc'[t].kind = "migrate"
               /\ proc'[t].v = n /\ proc'[t].todo = legacy /\ n \in Versions
               /\ Labelled(n) /\ store'[n].models = store[n].models
               /\ store'[n].half = store[n].half
               /\ store'[n].manifest = store[n].manifest
    <2>1. setting.versions \in 0..MaxVersions /\ minted \in 0..MaxVersions
      BY VersionsAssumption DEF VTypes, Shapes
    <2>2. n \in Versions
      BY <1>3, <2>1, MaxVersionsNat DEF Versions
    <2>3. store[n] \in Version /\ s \in Version
      BY <2>2 DEF VTypes, Shapes, Version
    <2>4. r2 \in Trainer
      <3>1. n \in Nat /\ legacy \in SUBSET (Contexts \cup Versions)
        BY <2>1, MaxVersionsNat DEF VTypes, Shapes
      <3>2. "move" \in Steps /\ "migrate" \in Kinds
        BY DEF Steps, Kinds
      <3> QED
        BY <1>1, <1>s, <3>1, <3>2 DEF Trainer, Idle
    <2>5. store' = [store EXCEPT ![n] = s]
      BY <1>3
    <2>6. Others(t) /\ proc'[t] = r2 /\ Elsewhere(n) /\ store'[n] = s
      BY <1>3, <2>2, <2>3, <2>4, <2>5, Going, Storing DEF VTypes
    <2>7. /\ s.there /\ s.models = store[n].models /\ s.half = store[n].half
          /\ s.sig = store[n].sig
          /\ s.manifest = store[n].manifest /\ s.previous = store[n].previous
          /\ s.from = store[n].from
      BY <2>3 DEF Version
    <2> QED
      BY <2>2, <2>6, <2>7 DEF Idle, Labelled
  <1>4. minted < setting.versions => n <= setting.versions
    BY VersionsAssumption, MaxVersionsNat DEF VTypes, Shapes
  <1>5. CASE legacy = {}
    BY <1>2, <1>5 DEF Begin, Goes
  <1>6. CASE legacy # {}
    BY <1>3, <1>4, <1>6 DEF Begin, Goes
  <1> QED
    BY <1>5, <1>6

LEMMA MovedIs ==
    ASSUME VTypes, NEW t \in Trainers, Moved(t)
    PROVE  /\ At(t, "move") /\ proc[t].todo = {}
           /\ Onward(t, "publish", {}, proc[t].carry)
           /\ Labelled(proc[t].v) /\ store'[proc[t].v].manifest = "begun"
           /\ store'[proc[t].v].models = store[proc[t].v].models
           /\ store'[proc[t].v].half = store[proc[t].v].half
           /\ UNCHANGED <<setting, source, legacy, entry, link, pointer, strays, lock,
                          minted, past>>
  <1> DEFINE v == proc[t].v
             s == [store[v] EXCEPT !.there = TRUE, !.manifest = "begun"]
  <1>1. At(t, "move") /\ v \in Versions /\ proc[t] \in Trainer
    BY AtVersion DEF Moved, At, Building
  <1>2. store[v] \in Version /\ s \in Version
    BY <1>1, ModelsOf DEF VTypes, Version, Manifests
  <1>3. Elsewhere(v) /\ store'[v] = s
    BY <1>1, <1>2, Storing DEF VTypes, Moved
  <1>4. /\ s.there /\ s.models = store[v].models /\ s.half = store[v].half
        /\ s.sig = store[v].sig /\ s.manifest = "begun" /\ s.previous = store[v].previous /\ s.from = store[v].from
    BY <1>2 DEF Version, Manifests
  <1>5. Onward(t, "publish", {}, proc[t].carry)
    <2>1. [proc[t] EXCEPT !.step = "publish"] =
              [proc[t] EXCEPT !.step = "publish", !.todo = {}]
      BY <1>1 DEF Trainer, Moved
    <2> QED
      BY <1>1, <2>1, OnwardIs DEF Moved, Trainer, Steps
  <1> QED
    BY <1>1, <1>3, <1>4, <1>5 DEF Moved, Labelled

LEMMA ResolvedIs ==
    ASSUME VTypes
    PROVE  /\ Resolved \in {0, pointer, link} /\ Resolved \in 0..minted
           /\ Resolved # 0 => store[Resolved].there
  BY DEF Resolved, VTypes, Shapes

LEMMA ResolveIs ==
    ASSUME VTypes, NEW t \in Trainers, Resolve(t)
    PROVE  /\ At(t, "resolve") /\ Others(t)
           /\ proc'[t].step = "plan" /\ proc'[t].kind = "train" /\ proc'[t].prev = Resolved
           /\ proc'[t].v = proc[t].v /\ proc'[t].from = proc[t].from
           /\ UNCHANGED <<setting, source, legacy, store, entry, link, pointer, strays, lock,
                          minted, past>>
  <1> DEFINE r == [proc[t] EXCEPT !.step = "plan", !.kind = "train", !.prev = Resolved]
  <1>1. proc[t] \in Trainer
    BY AtVersion
  <1>2. Resolved \in Nat
    BY ResolvedIs, MaxVersionsNat DEF VTypes, Shapes
  <1>3. r \in Trainer
    BY <1>1, <1>2 DEF Trainer, Steps, Kinds
  <1>4. Others(t) /\ proc'[t] = r
    BY <1>3, Going DEF VTypes, Resolve
  <1>5. /\ r.step = "plan" /\ r.kind = "train" /\ r.prev = Resolved /\ r.v = proc[t].v
        /\ r.from = proc[t].from
    BY <1>1 DEF Trainer
  <1> QED
    BY <1>4, <1>5 DEF Resolve, disk

LEMMA DirtyIs == \A t, v : Dirty(t, v) \subseteq Contexts
  BY DEF Dirty

(* A plan that finds nothing to train, and one that begins a version.       *)
PlansRepair(t) ==
    LET prev == proc[t].prev
    IN /\ prev # 0 /\ store[prev].sig # Empty /\ Dirty(t, prev) = {}
       /\ Others(t) /\ proc'[t].step = "lock" /\ proc'[t].kind = "repair"
       /\ proc'[t].v = prev /\ proc'[t].prev = prev /\ proc'[t].from = proc[t].from
       /\ UNCHANGED <<store, minted, past>>
PlansVersion(t) ==
    LET prev == proc[t].prev
        n == minted + 1
        from == proc'[t].from
    IN /\ Others(t) /\ proc'[t].step = "build" /\ proc'[t].kind = proc[t].kind
       /\ proc'[t].v = n /\ proc'[t].prev = prev /\ proc'[t].sig = Prints(t)
       /\ proc'[t].loaded = proc[t].loaded /\ proc'[t].now = {}
       /\ \/ /\ from = prev /\ prev # 0 /\ store[prev].sig # Empty
             /\ proc'[t].carry = Contexts \ Dirty(t, prev)
          \/ from = 0 /\ proc'[t].carry = {}
       /\ Contexts \subseteq proc'[t].todo \cup proc'[t].carry
       /\ minted' = n /\ n \in Versions
       /\ Elsewhere(n) /\ store'[n].there /\ store'[n].models = Empty
       /\ store'[n].sig = Empty /\ store'[n].manifest = "begun"
       /\ store'[n].previous = prev /\ store'[n].from = 0
       /\ past' = past \cup (IF proc[t].loaded = source THEN {} ELSE {"edited"})

LEMMA PlanIs ==
    ASSUME VTypes, NEW t \in Trainers, NEW whole \in BOOLEAN, Plan(t, whole)
    PROVE  /\ At(t, "plan") /\ (PlansRepair(t) \/ PlansVersion(t))
           /\ UNCHANGED <<setting, source, legacy, entry, link, pointer, strays, lock>>
  <1> DEFINE prev == proc[t].prev
             based == ~whole /\ prev # 0 /\ store[prev].sig # Empty
             train == IF based THEN Dirty(t, prev) ELSE Contexts
             print == Prints(t)
             ages == IF proc[t].loaded = source THEN {} ELSE {"edited"}
             n == minted + 1
             from == IF based THEN prev ELSE 0
             r1 == [proc[t] EXCEPT !.step = "lock", !.kind = "repair", !.v = prev]
             r2 == [proc[t] EXCEPT !.step = "build", !.v = n, !.todo = train, !.now = {},
                                   !.train = train, !.sig = print,
                                   !.carry = Contexts \ train, !.from = from]
             s == [Absent EXCEPT !.there = TRUE, !.manifest = "begun", !.previous = prev]
  <1>1. proc[t] \in Trainer /\ prev \in Nat /\ from \in Nat
    BY AtVersion
  <1>2. train \in SUBSET Contexts /\ train \in SUBSET (Contexts \cup Versions)
    BY DirtyIs
  <1>3. ASSUME train = {}, Goes(t, r1), UNCHANGED <<store, minted, past>>
        PROVE  PlansRepair(t)
    <2>1. r1 \in Trainer
      BY <1>1 DEF Trainer, Steps, Kinds
    <2>2. Others(t) /\ proc'[t] = r1
      BY <1>3, <2>1, Going DEF VTypes
    <2>3. /\ r1.step = "lock" /\ r1.kind = "repair" /\ r1.v = prev /\ r1.prev = prev
          /\ r1.from = proc[t].from
      BY <1>1 DEF Trainer
    <2>4. based /\ Dirty(t, prev) = {}
      BY <1>3, VersionsAssumption
    <2> QED
      BY <1>3, <2>2, <2>3, <2>4 DEF PlansRepair
  <1>4. ASSUME train # {}, minted < setting.versions, minted' = n,
               store' = [store EXCEPT ![n] = s], Goes(t, r2), past' = past \cup ages
        PROVE  PlansVersion(t)
    <2>1. setting.versions \in 0..MaxVersions /\ minted \in 0..MaxVersions
      BY VersionsAssumption DEF VTypes, Shapes
    <2>2. n \in Versions /\ n \in Nat
      BY <1>4, <2>1, MaxVersionsNat DEF Versions
    <2>3. s \in Version
      BY <1>1, AbsentIs DEF Version, Absent, Manifests
    <2>4. print \in Signatures
      BY PrintsAre DEF VTypes
    <2>5. r2 \in Trainer
      <3>1. "build" \in Steps /\ Contexts \ train \in SUBSET Contexts
        BY DEF Steps
      <3>2. train \in SUBSET Contexts /\ train \in SUBSET (Contexts \cup Versions)
        BY <1>2
      <3> HIDE DEF train, from, n, print
      <3> QED
        BY <1>1, <3>1, <3>2, <2>2, <2>4 DEF Trainer
    <2>6. Others(t) /\ proc'[t] = r2 /\ Elsewhere(n) /\ store'[n] = s
      BY <1>4, <2>2, <2>3, <2>5, Going, Storing DEF VTypes
    <2>7. /\ s.there /\ s.models = Empty /\ s.sig = Empty /\ s.manifest = "begun"
          /\ s.previous = prev /\ s.from = 0
      BY DEF Absent
    <2>8. /\ r2.step = "build" /\ r2.kind = proc[t].kind /\ r2.v = n /\ r2.prev = prev
          /\ r2.sig = print /\ r2.from = from /\ r2.carry = Contexts \ train /\ r2.todo = train
          /\ r2.loaded = proc[t].loaded /\ r2.now = {}
      <3> HIDE DEF train, from, n, print
      <3> QED
        BY <1>1 DEF Trainer
    <2>9. Contexts \subseteq r2.todo \cup r2.carry
      BY <2>8
    <2>10. \/ from = prev /\ prev # 0 /\ store[prev].sig # Empty
              /\ Contexts \ train = Contexts \ Dirty(t, prev)
           \/ from = 0 /\ Contexts \ train = {}
      OBVIOUS
    <2> HIDE DEF train, from, n, r2, s
    <2> QED
      BY <1>4, <2>2, <2>6, <2>7, <2>8, <2>9, <2>10 DEF PlansVersion, n, print, ages
  <1>5. CASE train = {}
    BY <1>3, <1>5 DEF Plan
  <1>6. CASE train # {}
    BY <1>4, <1>6 DEF Plan
  <1> QED
    BY <1>5, <1>6 DEF Plan

(* A context is begun, and its last artifact written.                       *)
Trains(t, c) == TrainBegins(t, c) \/ TrainEnds(t, c)
Begun(t, c) ==
    /\ c \in proc[t].todo /\ proc'[t].now = {c}
    /\ Onward(t, "build", proc[t].todo, proc[t].carry) /\ Left(proc[t].v, c)
Finished(t, c) ==
    /\ c \in proc[t].now /\ proc'[t].now = {}
    /\ Onward(t, "build", proc[t].todo \ {c}, proc[t].carry)
    /\ \/ c \in store[proc[t].v].half /\ Filled(proc[t].v, c, Loaded(t, c))
       \/ c \notin store[proc[t].v].half /\ Left(proc[t].v, c)

LEMMA TrainIs ==
    ASSUME VTypes, NEW t \in Trainers, NEW c \in Contexts, Trains(t, c)
    PROVE  /\ At(t, "build") /\ (Begun(t, c) \/ Finished(t, c))
           /\ Onward(t, "build", proc'[t].todo, proc[t].carry)
           /\ Labelled(proc[t].v)
           /\ store'[proc[t].v].manifest = store[proc[t].v].manifest
           /\ UNCHANGED <<setting, source, legacy, entry, link, pointer, strays, lock,
                          minted, past>>
  <1>1. At(t, "build") /\ proc[t].v \in Versions /\ proc[t] \in Trainer
    BY AtVersion DEF Trains, TrainBegins, TrainEnds, At, Building
  <1>2. ASSUME NEW todo \in SUBSET (Contexts \cup Versions), NEW now \in SUBSET Contexts,
               Goes(t, [proc[t] EXCEPT !.now = now, !.todo = todo])
        PROVE  Onward(t, "build", todo, proc[t].carry) /\ proc'[t].now = now
    <2> DEFINE r == [proc[t] EXCEPT !.now = now, !.todo = todo]
    <2>1. r \in Trainer
      BY <1>1 DEF Trainer
    <2>2. Others(t) /\ proc'[t] = r
      BY <1>2, <2>1, Going DEF VTypes
    <2>3. /\ r.step = "build" /\ r.kind = proc[t].kind /\ r.prev = proc[t].prev
          /\ r.v = proc[t].v /\ r.todo = todo /\ r.carry = proc[t].carry
          /\ r.from = proc[t].from /\ r.sig = proc[t].sig /\ r.train = proc[t].train
          /\ r.loaded = proc[t].loaded /\ r.now = now
      BY <1>1 DEF Trainer, At
    <2> QED
      BY <2>2, <2>3 DEF Onward
  <1>3. CASE TrainBegins(t, c)
    <2>1. [proc[t] EXCEPT !.now = {c}] = [proc[t] EXCEPT !.now = {c}, !.todo = proc[t].todo]
      BY <1>1 DEF Trainer
    <2>2. proc[t].todo \in SUBSET (Contexts \cup Versions) /\ {c} \in SUBSET Contexts
      BY <1>1 DEF Trainer
    <2>3. Onward(t, "build", proc[t].todo, proc[t].carry) /\ proc'[t].now = {c}
      BY <1>2, <1>3, <2>1, <2>2 DEF TrainBegins
    <2>4. Left(proc[t].v, c)
      BY <1>1, <1>3, Leaving DEF TrainBegins
    <2> QED
      BY <1>1, <1>3, <2>3, <2>4 DEF TrainBegins, Begun, Left, Onward
  <1>4. CASE TrainEnds(t, c)
    <2>1. proc[t].todo \ {c} \in SUBSET (Contexts \cup Versions) /\ {} \in SUBSET Contexts
      BY <1>1 DEF Trainer
    <2>2. Onward(t, "build", proc[t].todo \ {c}, proc[t].carry) /\ proc'[t].now = {}
      BY <1>2, <1>4, <2>1 DEF TrainEnds
    <2>3. CASE c \in store[proc[t].v].half
      <3>1. store' = Deliver(proc[t].v, c, Loaded(t, c)) /\ Loaded(t, c) \in Editions
        BY <1>4, <2>3, LoadedIs DEF TrainEnds, Loaded, VTypes
      <3>2. Filled(proc[t].v, c, Loaded(t, c))
        BY <1>1, <3>1, Filling
      <3> QED
        BY <1>1, <1>4, <2>2, <2>3, <3>2 DEF TrainEnds, Finished, Filled, Onward
    <2>4. CASE c \notin store[proc[t].v].half
      <3>1. Left(proc[t].v, c)
        BY <1>1, <1>4, <2>4, Leaving DEF TrainEnds
      <3> QED
        BY <1>1, <1>4, <2>2, <2>4, <3>1 DEF TrainEnds, Finished, Left, Onward
    <2> QED
      BY <2>3, <2>4
  <1> QED
    BY <1>3, <1>4 DEF Trains

LEMMA CarryIs ==
    ASSUME VTypes, NEW t \in Trainers, NEW c \in Contexts, Carry(t, c)
    PROVE  /\ At(t, "build") /\ proc[t].todo = {} /\ c \in proc[t].carry
           /\ proc[t].from \in Versions /\ c \in Folders(proc[t].from)
           /\ Onward(t, "build", {}, proc[t].carry \ {c}) /\ proc'[t].now = proc[t].now
           /\ Labelled(proc[t].v)
           /\ store'[proc[t].v].manifest = store[proc[t].v].manifest
           /\ \/ /\ c \in Holds(proc[t].from)
                 /\ Filled(proc[t].v, c, store[proc[t].from].models[c])
              \/ c \notin Holds(proc[t].from) /\ Left(proc[t].v, c)
           /\ UNCHANGED <<setting, source, legacy, entry, link, pointer, strays, lock,
                          minted, past>>
  <1> DEFINE r == [proc[t] EXCEPT !.carry = @ \ {c}]
  <1>1. At(t, "build") /\ proc[t].v \in Versions /\ proc[t] \in Trainer
    BY AtVersion DEF Carry, At, Building
  <1>2. proc[t].from \in Versions
    BY AtVersion DEF Carry, Folders
  <1>3. \/ /\ c \in Holds(proc[t].from)
           /\ Filled(proc[t].v, c, store[proc[t].from].models[c])
        \/ c \notin Holds(proc[t].from) /\ Left(proc[t].v, c)
    <2>1. CASE c \in Holds(proc[t].from)
      <3>1. store[proc[t].from].models[c] \in Editions
        BY <1>2, <2>1, ModelsOf DEF VTypes
      <3> QED
        BY <1>1, <2>1, <3>1, Filling DEF Carry
    <2>2. CASE c \notin Holds(proc[t].from)
      BY <1>1, <2>2, Leaving DEF Carry
    <2> QED
      BY <2>1, <2>2
  <1>5. r \in Trainer
    BY <1>1 DEF Trainer
  <1>6. Others(t) /\ proc'[t] = r
    BY <1>5, Going DEF VTypes, Carry
  <1>7. /\ r.step = "build" /\ r.kind = proc[t].kind /\ r.prev = proc[t].prev
        /\ r.v = proc[t].v /\ r.todo = {} /\ r.carry = proc[t].carry \ {c}
        /\ r.from = proc[t].from /\ r.sig = proc[t].sig /\ r.train = proc[t].train
        /\ r.loaded = proc[t].loaded /\ r.now = proc[t].now
    BY <1>1 DEF Trainer, At, Carry
  <1>8. Labelled(proc[t].v) /\ store'[proc[t].v].manifest = store[proc[t].v].manifest
    BY <1>3 DEF Filled, Left
  <1> QED
    BY <1>1, <1>2, <1>3, <1>6, <1>7, <1>8 DEF Carry, Onward

LEMMA SignIs ==
    ASSUME VTypes, NEW t \in Trainers, Sign(t)
    PROVE  LET v == proc[t].v IN
           /\ At(t, "build") /\ proc[t].todo = {} /\ proc[t].carry = {}
           /\ Onward(t, "lock", {}, {})
           /\ Elsewhere(v) /\ store'[v].there /\ store'[v].models = store[v].models
           /\ store'[v].half = store[v].half
           /\ store'[v].sig = proc[t].sig /\ store'[v].manifest = "ok"
           /\ store'[v].previous \in {0, store[v].previous} /\ store'[v].from = proc[t].from
           /\ UNCHANGED <<setting, source, legacy, entry, link, pointer, strays, lock,
                          minted, past>>
  <1> DEFINE v == proc[t].v
             s == Signed(t, store[v])
  <1>1. At(t, "build") /\ v \in Versions /\ proc[t] \in Trainer
    BY AtVersion DEF Sign, At, Building
  <1>2. store[v] \in Version
    BY <1>1, ModelsOf DEF VTypes
  <1>3. s \in Version
    BY <1>1, <1>2 DEF Version, Manifests, Signed, Trainer
  <1>4. store' = [store EXCEPT ![v] = s]
    BY DEF Sign
  <1>5. Elsewhere(v) /\ store'[v] = s
    BY <1>1, <1>3, <1>4, Storing DEF VTypes
  <1>6. /\ s.there /\ s.models = store[v].models /\ s.half = store[v].half
        /\ s.sig = proc[t].sig /\ s.manifest = "ok"
        /\ s.previous \in {0, store[v].previous} /\ s.from = proc[t].from
    BY <1>2 DEF Version, Signed
  <1>7. Onward(t, "lock", {}, proc[t].carry)
    <2>1. [proc[t] EXCEPT !.step = "lock"] = [proc[t] EXCEPT !.step = "lock", !.todo = {}]
      BY <1>1 DEF Trainer, Sign
    <2> QED
      BY <1>1, <2>1, OnwardIs DEF Sign, Trainer, Steps
  <1> QED
    BY <1>1, <1>5, <1>6, <1>7 DEF Sign

LEMMA TakeIs ==
    ASSUME VTypes, NEW t \in Trainers, Take(t)
    PROVE  /\ At(t, "lock") /\ lock = Nobody /\ lock' = t
           /\ Onward(t, "publish", proc[t].todo, proc[t].carry)
           /\ UNCHANGED <<setting, source, legacy, store, entry, link, pointer, strays,
                          minted, past>>
  <1>1. proc[t] \in Trainer
    BY AtVersion
  <1>2. [proc[t] EXCEPT !.step = "publish"] =
            [proc[t] EXCEPT !.step = "publish", !.todo = proc[t].todo]
    BY <1>1 DEF Trainer
  <1>3. Onward(t, "publish", proc[t].todo, proc[t].carry)
    BY <1>1, <1>2, OnwardIs DEF Take, Trainer, Steps
  <1> QED
    BY <1>3 DEF Take, disk

(* A publication that starts; one that is refused stops.                    *)
Publishes(t) ==
    /\ \E found : Publishable(proc[t].v, found)
    /\ Onward(t, "route", Folders(proc[t].v), proc[t].carry)
    /\ UNCHANGED <<setting, source, legacy, store, entry, link, pointer, strays, lock,
                   minted, past>>

LEMMA PublishIs ==
    ASSUME VTypes, NEW t \in Trainers, Publish(t)
    PROVE  At(t, "publish") /\ (Stops(t) \/ Publishes(t))
  <1>1. proc[t] \in Trainer /\ At(t, "publish") /\ proc[t].v \in Versions
    BY AtVersion DEF Publish, At, Publishing
  <1>2. Folders(proc[t].v) \in SUBSET (Contexts \cup Versions)
    BY <1>1, ModelsOf DEF VTypes
  <1>3. PICK found \in {Holds(proc[t].v), Folders(proc[t].v)} :
            IF Publishable(proc[t].v, found)
            THEN /\ Goes(t, [proc[t] EXCEPT !.step = "route", !.todo = Folders(proc[t].v)])
                 /\ UNCHANGED lock
            ELSE Ends(t, "off")
    BY DEF Publish
  <1>4. CASE Publishable(proc[t].v, found)
    <2>1. Onward(t, "route", Folders(proc[t].v), proc[t].carry)
      BY <1>1, <1>2, <1>3, <1>4, OnwardIs DEF Steps
    <2> QED
      BY <1>1, <1>3, <1>4, <2>1 DEF Publish, Publishes, disk
  <1>5. CASE ~Publishable(proc[t].v, found)
    <2>1. Ends(t, "off") /\ "off" \in Ended
      BY <1>3, <1>5 DEF Ended
    <2> QED
      BY <1>1, <2>1, EndsStop DEF Publish, At, Ended
  <1> QED
    BY <1>4, <1>5

LEMMA RouteIs ==
    ASSUME VTypes, NEW t \in Trainers, NEW c \in Contexts, Route(t, c)
    PROVE  /\ At(t, "route") /\ c \in proc[t].todo
           /\ entry' = [entry EXCEPT ![c] = proc[t].v]
           /\ Onward(t, "route", proc[t].todo \ {c}, proc[t].carry)
           /\ UNCHANGED <<setting, source, legacy, store, link, pointer, strays, lock,
                          minted, past>>
  <1>1. proc[t] \in Trainer /\ At(t, "route")
    BY AtVersion DEF Route
  <1>2. [proc[t] EXCEPT !.todo = @ \ {c}] =
            [proc[t] EXCEPT !.step = "route", !.todo = proc[t].todo \ {c}]
    BY <1>1 DEF Trainer, At
  <1>3. Onward(t, "route", proc[t].todo \ {c}, proc[t].carry)
    BY <1>1, <1>2, OnwardIs DEF Route, Trainer, Steps
  <1> QED
    BY <1>3 DEF Route

LEMMA LinkIs ==
    ASSUME VTypes, NEW t \in Trainers, Link(t)
    PROVE  /\ At(t, "route") /\ proc[t].todo = {} /\ link' = proc[t].v
           /\ Onward(t, "unroute", {c \in Contexts \ Folders(proc[t].v) : entry[c] # 0},
                     proc[t].carry)
           /\ UNCHANGED <<setting, source, legacy, store, entry, pointer, strays, lock,
                          minted, past>>
  <1> DEFINE stale == {c \in Contexts \ Folders(proc[t].v) : entry[c] # 0}
  <1>1. stale \in SUBSET (Contexts \cup Versions)
    OBVIOUS
  <1>2. Goes(t, [proc[t] EXCEPT !.step = "unroute", !.todo = stale])
    BY DEF Link
  <1>3. Onward(t, "unroute", stale, proc[t].carry)
    <2> HIDE DEF stale
    <2> QED
      BY <1>1, <1>2, OnwardIs DEF Steps
  <1> QED
    BY <1>3 DEF Link

LEMMA UnrouteIs ==
    ASSUME VTypes, NEW t \in Trainers, NEW c \in Contexts, Unroute(t, c)
    PROVE  /\ At(t, "unroute") /\ c \in proc[t].todo
           /\ entry' = [entry EXCEPT ![c] = 0]
           /\ Onward(t, "unroute", proc[t].todo \ {c}, proc[t].carry)
           /\ UNCHANGED <<setting, source, legacy, store, link, pointer, strays, lock,
                          minted, past>>
  <1>1. proc[t] \in Trainer /\ At(t, "unroute")
    BY AtVersion DEF Unroute
  <1>2. [proc[t] EXCEPT !.todo = @ \ {c}] =
            [proc[t] EXCEPT !.step = "unroute", !.todo = proc[t].todo \ {c}]
    BY <1>1 DEF Trainer, At
  <1>3. Onward(t, "unroute", proc[t].todo \ {c}, proc[t].carry)
    BY <1>1, <1>2, OnwardIs DEF Unroute, Trainer, Steps
  <1> QED
    BY <1>3 DEF Unroute

LEMMA CommitIs ==
    ASSUME VTypes, NEW t \in Trainers, Commit(t)
    PROVE  /\ At(t, "unroute") /\ proc[t].todo = {} /\ pointer' = proc[t].v
           /\ Onward(t, IF proc[t].kind = "migrate" THEN "resolve" ELSE "retain", {},
                     proc[t].carry)
           /\ UNCHANGED <<setting, source, legacy, store, entry, link, strays, lock,
                          minted, past>>
  <1> DEFINE step == IF proc[t].kind = "migrate" THEN "resolve" ELSE "retain"
  <1>1. proc[t] \in Trainer /\ step \in Steps
    BY AtVersion DEF Steps
  <1>2. Goes(t, [proc[t] EXCEPT !.step = step]) /\ proc[t].todo = {}
    BY DEF Commit
  <1>3. Onward(t, step, {}, proc[t].carry)
    <2> HIDE DEF step
    <2>1. [proc[t] EXCEPT !.step = step] = [proc[t] EXCEPT !.step = step, !.todo = {}]
      BY <1>1, <1>2 DEF Trainer
    <2> QED
      BY <1>1, <1>2, <2>1, OnwardIs DEF Trainer
  <1> QED
    BY <1>3 DEF Commit

Doomed(t) == {v \in Versions : store[v].there} \ Kept(t)

LEMMA RetainIs ==
    ASSUME VTypes, NEW t \in Trainers, Retain(t)
    PROVE  /\ At(t, "retain")
           /\ \/ Stops(t)
              \/ /\ Readable(Resolved) /\ Doomed(t) \cap Protected = {}
                 /\ Onward(t, "prune", Doomed(t), proc[t].carry)
                 /\ UNCHANGED <<setting, source, legacy, store, entry, link, pointer, strays,
                                lock, minted, past>>
  <1>1. At(t, "retain") /\ proc[t] \in Trainer /\ {"off", "refused"} \subseteq Ended
    BY AtVersion DEF Retain, Ended
  <1>2. CASE ~Readable(Resolved) \/ Doomed(t) = {}
    <2>1. Ends(t, "off")
      BY <1>2 DEF Retain, Doomed
    <2> QED
      BY <1>1, <2>1, EndsStop DEF Retain, At, Ended
  <1>3. CASE Readable(Resolved) /\ Doomed(t) # {} /\ Doomed(t) \cap Protected # {}
    <2>1. Ends(t, "refused")
      BY <1>3 DEF Retain, Doomed
    <2> QED
      BY <1>1, <2>1, EndsStop DEF Retain, At, Ended
  <1>4. CASE Readable(Resolved) /\ Doomed(t) # {} /\ Doomed(t) \cap Protected = {}
    <2>1. Goes(t, [proc[t] EXCEPT !.step = "prune", !.todo = Doomed(t)]) /\ UNCHANGED lock
      BY <1>4 DEF Retain, Doomed
    <2>2. Onward(t, "prune", Doomed(t), proc[t].carry)
      BY <1>1, <2>1, OnwardIs DEF Steps, Doomed
    <2> QED
      BY <1>1, <1>4, <2>1, <2>2 DEF Retain, disk
  <1> QED
    BY <1>2, <1>3, <1>4

(* Retention takes from a version, or it takes an emptied directory, or it  *)
(* gives one up.                                                            *)
Thins(v) ==
    /\ Elsewhere(v) /\ store'[v].there \in {TRUE, store[v].there}
    /\ store'[v].sig = store[v].sig /\ store'[v].manifest = store[v].manifest
    /\ store'[v].previous = store[v].previous /\ store'[v].from = store[v].from
    /\ Folders(v) # {} /\ DOMAIN store'[v].models \subseteq DOMAIN store[v].models
    /\ \A d \in DOMAIN store'[v].models : store'[v].models[d] = store[v].models[d]
    /\ UNCHANGED proc
Drops(t, v) ==
    /\ Elsewhere(v) /\ store'[v] = Absent
    /\ Onward(t, "prune", proc[t].todo \ {v}, proc[t].carry)
Skips(t, v) ==
    /\ UNCHANGED store
    /\ Onward(t, "prune", proc[t].todo \ {v}, proc[t].carry)

LEMMA PruneIs ==
    ASSUME VTypes, NEW t \in Trainers, NEW v \in Versions, Prune(t, v)
    PROVE  /\ At(t, "prune") /\ v \in proc[t].todo
           /\ Thins(v) \/ Drops(t, v) \/ Skips(t, v)
           /\ Elsewhere(v)
           /\ UNCHANGED <<setting, source, legacy, entry, link, pointer, strays, lock,
                          minted, past>>
  <1>1. proc[t] \in Trainer /\ At(t, "prune") /\ store[v] \in Version
    BY AtVersion, ModelsOf DEF Prune, VTypes
  <1>2. Folders(v) \subseteq Contexts
    BY ModelsOf DEF VTypes
  <1>3. ASSUME NEW c \in Folders(v), UNCHANGED proc,
               store' = IF c \in Holds(v) THEN Halve(v, c)
                        ELSE [store EXCEPT ![v].half = store[v].half \ {c}]
        PROVE  Thins(v)
    <2>1. CASE c \in Holds(v)
      <3>1. Left(v, c)
        BY <1>2, <1>3, <2>1, Leaving
      <3> QED
        BY <1>3, <3>1 DEF Left, Labelled, Thins
    <2>2. CASE c \notin Holds(v)
      <3> DEFINE h == store[v].half \ {c}
                 s == [store[v] EXCEPT !.half = h]
      <3>1. s \in Version /\ store' = [store EXCEPT ![v] = s]
        BY <1>1, <1>3, <2>2 DEF Version
      <3>2. Elsewhere(v) /\ store'[v] = s
        BY <3>1, Storing DEF VTypes
      <3>3. /\ s.there = store[v].there /\ s.models = store[v].models /\ s.sig = store[v].sig
            /\ s.manifest = store[v].manifest /\ s.previous = store[v].previous
            /\ s.from = store[v].from
        BY <1>1 DEF Version
      <3> QED
        BY <1>3, <3>2, <3>3 DEF Thins
    <2> QED
      BY <2>1, <2>2
  <1>4. ASSUME Goes(t, [proc[t] EXCEPT !.todo = @ \ {v}])
        PROVE  Onward(t, "prune", proc[t].todo \ {v}, proc[t].carry)
    <2>1. [proc[t] EXCEPT !.todo = @ \ {v}] =
              [proc[t] EXCEPT !.step = "prune", !.todo = proc[t].todo \ {v}]
      BY <1>1 DEF Trainer, At
    <2> QED
      BY <1>1, <1>4, <2>1, OnwardIs DEF Trainer, Steps
  <1>5. ASSUME store' = [store EXCEPT ![v] = Absent],
               Goes(t, [proc[t] EXCEPT !.todo = @ \ {v}])
        PROVE  Drops(t, v)
    BY <1>4, <1>5, AbsentIs, Storing DEF VTypes, Drops
  <1>6. ASSUME UNCHANGED store, Goes(t, [proc[t] EXCEPT !.todo = @ \ {v}])
        PROVE  Skips(t, v)
    BY <1>4, <1>6 DEF Skips
  <1>7. Thins(v) \/ Drops(t, v) \/ Skips(t, v)
    BY <1>3, <1>5, <1>6 DEF Prune
  <1>8. Elsewhere(v)
    BY <1>7 DEF Thins, Drops, Skips, Elsewhere, VTypes, Shapes
  <1> QED
    BY <1>1, <1>7, <1>8 DEF Prune

LEMMA EditIs ==
    ASSUME VTypes, NEW c \in Contexts, Edit(c)
    PROVE  /\ source' \in [Contexts -> 0..MaxEdits] /\ \A d \in Contexts : source[d] <= source'[d]
           /\ UNCHANGED <<setting, legacy, store, entry, link, pointer, strays, lock, proc,
                          minted, past>>
  <1>1. source \in [Contexts -> 0..MaxEdits] /\ source[c] + 1 \in 0..MaxEdits
    BY MaxVersionsNat DEF VTypes, Shapes, Edit
  <1> QED
    BY <1>1, MaxVersionsNat DEF Edit, disk

LEMMA DamageIs ==
    ASSUME VTypes, NEW v \in Versions, Damage(v)
    PROVE  /\ Elsewhere(v) /\ store'[v].manifest = "damaged" /\ store[v].manifest # "none"
           /\ store'[v].there = store[v].there /\ store'[v].sig = store[v].sig
           /\ store'[v].models = store[v].models /\ store'[v].half = store[v].half
           /\ store'[v].previous = store[v].previous /\ store'[v].from = store[v].from
           /\ past' = past \cup {"damage"}
           /\ UNCHANGED <<setting, source, legacy, entry, link, pointer, strays, lock, proc,
                          minted>>
  <1> DEFINE s == [store[v] EXCEPT !.manifest = "damaged"]
  <1>1. store[v] \in Version /\ s \in Version
    BY ModelsOf DEF VTypes, Version, Manifests
  <1>2. store' = [store EXCEPT ![v] = s]
    BY DEF Damage
  <1>3. Elsewhere(v) /\ store'[v] = s
    BY <1>1, <1>2, Storing DEF VTypes
  <1>4. /\ s.manifest = "damaged" /\ s.there = store[v].there /\ s.sig = store[v].sig
        /\ s.models = store[v].models /\ s.half = store[v].half
        /\ s.previous = store[v].previous /\ s.from = store[v].from
    BY <1>1 DEF Version
  <1> QED
    BY <1>3, <1>4 DEF Damage

(* A step of the specification is one of these.                             *)
LEMMA StepCases ==
    ASSUME VTypes, [VersionsNext]_versionVars
    PROVE  \/ UNCHANGED <<setting, source, legacy, store, entry, link, pointer, strays, lock,
                          proc, minted, past>>
           \/ \E t \in Trainers :
                 \/ Stops(t) \/ Begin(t) \/ Moved(t) \/ Resolve(t) \/ Sign(t) \/ Take(t)
                 \/ At(t, "publish") /\ Publishes(t)
                 \/ Link(t) \/ Commit(t)
                 \/ Retain(t) /\ ~Stops(t)
                 \/ \E whole \in BOOLEAN : Plan(t, whole)
                 \/ \E c \in Contexts : \/ Move(t, c) \/ Trains(t, c) \/ Carry(t, c)
                                        \/ Route(t, c) \/ Unroute(t, c)
                 \/ \E v \in Versions : Prune(t, v)
           \/ \E c \in Contexts : Edit(c)
           \/ \E v \in Versions : Damage(v)
  <1>1. ASSUME NEW t \in Trainers,
               CarryFails(t) \/ Raises(t) \/ Done(t) \/ Killed(t) \/ KilledSwapping(t)
        PROVE  Stops(t)
    <2>1. "off" \in Ended /\ (~KilledSwapping(t) => proc[t].step \notin Ended)
      BY <1>1 DEF Ended, CarryFails, Raises, Done, Killed, At
    <2> QED
      BY <1>1, <2>1, EndsStop, KilledSwappingStops DEF CarryFails, Raises, Done, Killed
  <1>2. ASSUME NEW t \in Trainers, Publish(t)
        PROVE  Stops(t) \/ (At(t, "publish") /\ Publishes(t))
    BY <1>2, PublishIs
  <1> QED
    BY <1>1, <1>2, Zenon DEF VersionsNext, versionVars, disk, Trains

-----------------------------------------------------------------------------
LEMMA ShapesStep == VTypes /\ [VersionsNext]_versionVars => Shapes'
  <1> SUFFICES ASSUME VTypes, [VersionsNext]_versionVars PROVE Shapes'
    OBVIOUS
  <1> USE MaxVersionsNat
  <1>0. ASSUME minted' = minted \/ (minted' = minted + 1 /\ minted + 1 \in Versions),
               UNCHANGED <<setting, source, legacy, entry, link, pointer, strays, lock>>,
               proc' \in [Trainers -> Trainer], store' \in [Versions -> Version],
               past' \subseteq {"overlap", "damage", "edited"}
        PROVE  Shapes'
    <2>1. minted \in Nat /\ minted' \in 0..MaxVersions /\ 0..minted \subseteq 0..minted'
      BY <1>0 DEF VTypes, Shapes, Versions
    <2>2. entry' \in [Contexts -> 0..minted']
      <3>1. entry \in [Contexts -> 0..minted] /\ entry' = entry
        BY <1>0 DEF VTypes, Shapes
      <3> QED
        BY <2>1, <3>1
    <2>3. strays' \subseteq 1..minted' /\ link' \in 0..minted' /\ pointer' \in 0..minted'
      BY <1>0, <2>1 DEF VTypes, Shapes
    <2> QED
      BY <1>0, <2>1, <2>2, <2>3 DEF VTypes, Shapes
  <1>1. ASSUME NEW t \in Trainers, Stops(t) PROVE Shapes'
    <2>1. proc[t].v \in 0..minted
      BY DEF VTypes, Locked, Placed
    <2> QED
      BY <1>1, <2>1 DEF VTypes, Shapes, Stops, Others
  <1>2. ASSUME NEW t \in Trainers, Begin(t) PROVE Shapes'
    <2>1. /\ minted' = minted \/ (minted' = minted + 1 /\ minted + 1 \in Versions)
          /\ UNCHANGED <<setting, source, legacy, entry, link, pointer, strays, lock>>
          /\ proc' \in [Trainers -> Trainer] /\ store' \in [Versions -> Version]
          /\ past' \subseteq {"overlap", "damage", "edited"}
      BY <1>2, BeginIs DEF VTypes, Shapes, Others, Labelled, Elsewhere
    <2> QED
      BY <1>0, <2>1
  <1>3. ASSUME NEW t \in Trainers, Moved(t) PROVE Shapes'
    BY <1>3, MovedIs DEF VTypes, Shapes, Onward, Others, Labelled, Elsewhere
  <1>4. ASSUME NEW t \in Trainers, Resolve(t) PROVE Shapes'
    BY <1>4, ResolveIs DEF VTypes, Shapes, Others
  <1>5. ASSUME NEW t \in Trainers, Sign(t) PROVE Shapes'
    BY <1>5, SignIs DEF VTypes, Shapes, Onward, Others, Elsewhere
  <1>6. ASSUME NEW t \in Trainers, Take(t) PROVE Shapes'
    BY <1>6, TakeIs DEF VTypes, Shapes, Onward, Others
  <1>7. ASSUME NEW t \in Trainers, Publishes(t) PROVE Shapes'
    BY <1>7 DEF VTypes, Shapes, Onward, Others, Publishes
  <1>8. ASSUME NEW t \in Trainers, Link(t) PROVE Shapes'
    <2>1. proc[t].v \in 0..minted
      BY DEF VTypes, Locked, Placed
    <2> QED
      BY <1>8, <2>1, LinkIs DEF VTypes, Shapes, Onward, Others
  <1>9. ASSUME NEW t \in Trainers, Commit(t) PROVE Shapes'
    <2>1. proc[t].v \in 0..minted
      BY DEF VTypes, Locked, Placed
    <2> QED
      BY <1>9, <2>1, CommitIs DEF VTypes, Shapes, Onward, Others
  <1>10. ASSUME NEW t \in Trainers, Retain(t), ~Stops(t) PROVE Shapes'
    BY <1>10, RetainIs DEF VTypes, Shapes, Onward, Others
  <1>11. ASSUME NEW t \in Trainers, NEW whole \in BOOLEAN, Plan(t, whole) PROVE Shapes'
    <2>1. /\ minted' = minted \/ (minted' = minted + 1 /\ minted + 1 \in Versions)
          /\ UNCHANGED <<setting, source, legacy, entry, link, pointer, strays, lock>>
          /\ proc' \in [Trainers -> Trainer] /\ store' \in [Versions -> Version]
      BY <1>11, PlanIs DEF VTypes, Shapes, PlansRepair, PlansVersion, Others, Elsewhere
    <2>2. past' \subseteq past \cup {"edited"}
      BY <1>11, PlanIs DEF PlansRepair, PlansVersion
    <2> QED
      BY <1>0, <2>1, <2>2 DEF VTypes, Shapes
  <1>12. ASSUME NEW t \in Trainers, NEW c \in Contexts, Move(t, c) PROVE Shapes'
    BY <1>12, MoveIs DEF VTypes, Shapes, Onward, Others, Filled, Labelled, Elsewhere
  <1>13. ASSUME NEW t \in Trainers, NEW c \in Contexts, Trains(t, c) PROVE Shapes'
    BY <1>13, TrainIs DEF VTypes, Shapes, Onward, Others, Labelled, Elsewhere
  <1>14. ASSUME NEW t \in Trainers, NEW c \in Contexts, Carry(t, c) PROVE Shapes'
    BY <1>14, CarryIs DEF VTypes, Shapes, Onward, Others, Labelled, Elsewhere
  <1>15. ASSUME NEW t \in Trainers, NEW c \in Contexts, Route(t, c) PROVE Shapes'
    <2>1. proc[t].v \in 0..minted
      BY DEF VTypes, Locked, Placed
    <2>2. entry \in [Contexts -> 0..minted] /\ minted' = minted
      BY <1>15, RouteIs DEF VTypes, Shapes
    <2>3. entry' \in [Contexts -> 0..minted']
      BY <1>15, <2>1, <2>2, RouteIs
    <2> QED
      BY <1>15, <2>3, RouteIs DEF VTypes, Shapes, Onward, Others
  <1>16. ASSUME NEW t \in Trainers, NEW c \in Contexts, Unroute(t, c) PROVE Shapes'
    <2>0. UNCHANGED minted
      BY <1>16, UnrouteIs
    <2>1. entry \in [Contexts -> 0..minted] /\ minted' = minted /\ 0 \in 0..minted
      BY <2>0 DEF VTypes, Shapes
    <2>2. entry' \in [Contexts -> 0..minted']
      BY <1>16, <2>1, UnrouteIs
    <2> QED
      BY <1>16, <2>2, UnrouteIs DEF VTypes, Shapes, Onward, Others
  <1>17. ASSUME NEW t \in Trainers, NEW v \in Versions, Prune(t, v) PROVE Shapes'
    BY <1>17, PruneIs DEF VTypes, Shapes, Onward, Others, Elsewhere, Thins, Drops, Skips
  <1>18. ASSUME NEW c \in Contexts, Edit(c) PROVE Shapes'
    BY <1>18, EditIs DEF VTypes, Shapes
  <1>19. ASSUME NEW v \in Versions, Damage(v) PROVE Shapes'
    BY <1>19, DamageIs DEF VTypes, Shapes, Elsewhere
  <1>20. CASE UNCHANGED <<setting, source, legacy, store, entry, link, pointer, strays, lock,
                          proc, minted, past>>
    BY <1>20 DEF VTypes, Shapes, Versions
  <1> QED
    BY <1>1, <1>2, <1>3, <1>4, <1>5, <1>6, <1>7, <1>8, <1>9, <1>10, <1>11, <1>12, <1>13,
       <1>14, <1>15, <1>16, <1>17, <1>18, <1>19, <1>20, StepCases, Zenon

LEMMA OrderedStep == VTypes /\ [VersionsNext]_versionVars => Ordered'
  <1> SUFFICES ASSUME VTypes, [VersionsNext]_versionVars PROVE Ordered'
    OBVIOUS
  <1>a. \A v \in Versions : v \in Nat /\ v # 0
    BY MaxVersionsNat DEF Versions
  <1>b. minted \in Nat
    BY MaxVersionsNat DEF VTypes, Shapes
  <1>c. \A v \in Versions : store[v].previous \in Nat /\ store[v].from \in Nat
    BY DEF VTypes, Shapes, Version
  <1>d. \A v \in Versions :
          /\ DOMAIN store[v].sig \in {{}, Contexts}
          /\ store[v].there => v <= minted
          /\ store[v].previous < v /\ store[v].from < v
    BY DEF VTypes, Ordered
  <1> USE <1>a, <1>b, <1>c, <1>d
  <1>0. ASSUME UNCHANGED store, minted' \in Nat, minted <= minted' PROVE Ordered'
    BY <1>0 DEF Ordered
  <1>1. ASSUME NEW t \in Trainers, Stops(t) PROVE Ordered'
    BY <1>0, <1>1 DEF Stops
  <1>2. ASSUME NEW t \in Trainers, Begin(t) PROVE Ordered'
    BY <1>0, <1>2, BeginIs DEF Ordered, Labelled, Elsewhere, Versions
  <1>3. ASSUME NEW t \in Trainers, Moved(t) PROVE Ordered'
    <2>1. proc[t].v <= minted
      BY DEF VTypes, Locked, Placed
    <2> QED
      BY <1>3, <2>1, MovedIs DEF Ordered, Labelled, Elsewhere, Versions
  <1>4. ASSUME NEW t \in Trainers, Resolve(t) PROVE Ordered'
    BY <1>0, <1>4, ResolveIs
  <1>5. ASSUME NEW t \in Trainers, Sign(t) PROVE Ordered'
    <2>1. At(t, "build")
      BY <1>5, SignIs
    <2>2. proc[t].v <= minted /\ proc[t].from < proc[t].v /\ DOMAIN proc[t].sig = Contexts
      BY <2>1 DEF VTypes, Locked, Placed
    <2> QED
      BY <1>5, <2>2, SignIs DEF Ordered, Elsewhere, Versions
  <1>6. ASSUME NEW t \in Trainers, Take(t) PROVE Ordered'
    BY <1>0, <1>6, TakeIs
  <1>7. ASSUME NEW t \in Trainers, Publishes(t) PROVE Ordered'
    BY <1>0, <1>7 DEF Publishes
  <1>8. ASSUME NEW t \in Trainers, Link(t) PROVE Ordered'
    <2>1. UNCHANGED <<store, minted>>
      BY <1>8, LinkIs
    <2> QED
      BY <1>0, <2>1
  <1>9. ASSUME NEW t \in Trainers, Commit(t) PROVE Ordered'
    BY <1>0, <1>9, CommitIs
  <1>10. ASSUME NEW t \in Trainers, Retain(t), ~Stops(t) PROVE Ordered'
    BY <1>0, <1>10, RetainIs
  <1>11. ASSUME NEW t \in Trainers, NEW whole \in BOOLEAN, Plan(t, whole) PROVE Ordered'
    <2>1. proc[t].prev \in Nat /\ proc[t].prev <= minted
      BY AtVersion DEF VTypes, Locked, Placed
    <2>2. CASE PlansRepair(t)
      BY <1>0, <2>2 DEF PlansRepair
    <2>3. CASE PlansVersion(t)
      <3> DEFINE n == minted + 1
      <3>1. /\ minted' = n /\ n \in Versions /\ Elsewhere(n) /\ store'[n].sig = Empty
            /\ store'[n].previous = proc[t].prev /\ store'[n].from = 0
        BY <2>3 DEF PlansVersion
      <3> QED
        BY <2>1, <3>1, EmptyIs DEF Ordered, Elsewhere, Versions
    <2> QED
      BY <1>11, <2>2, <2>3, PlanIs
  <1>12. ASSUME NEW t \in Trainers, Labelled(proc[t].v), UNCHANGED minted
         PROVE  Ordered'
    <2>1. proc[t].v <= minted
      BY DEF VTypes, Locked, Placed
    <2> QED
      BY <1>12, <2>1 DEF Ordered, Labelled, Elsewhere, Versions
  <1>13. ASSUME NEW t \in Trainers, NEW c \in Contexts,
                Move(t, c) \/ Trains(t, c) \/ Carry(t, c)
         PROVE  Ordered'
    BY <1>12, <1>13, MoveIs, TrainIs, CarryIs DEF Filled
  <1>15. ASSUME NEW t \in Trainers, NEW c \in Contexts, Route(t, c) PROVE Ordered'
    <2>1. UNCHANGED <<store, minted>>
      BY <1>15, RouteIs
    <2> QED
      BY <1>0, <2>1
  <1>16. ASSUME NEW t \in Trainers, NEW c \in Contexts, Unroute(t, c) PROVE Ordered'
    <2>1. UNCHANGED <<store, minted>>
      BY <1>16, UnrouteIs
    <2> QED
      BY <1>0, <2>1
  <1>17. ASSUME NEW t \in Trainers, NEW v \in Versions, Prune(t, v) PROVE Ordered'
    <2>1. CASE Drops(t, v)
      <3>1. /\ DOMAIN Absent.sig = {} /\ ~Absent.there /\ Absent.previous = 0
            /\ Absent.from = 0
        BY EmptyIs DEF Absent
      <3>2. Elsewhere(v) /\ store'[v] = Absent /\ minted' = minted
        BY <1>17, <2>1, PruneIs DEF Drops
      <3>3. /\ DOMAIN store'[v].sig = {} /\ ~store'[v].there /\ store'[v].previous = 0
            /\ store'[v].from = 0
        BY <3>1, <3>2
      <3>4. \A w \in Versions \ {v} : store'[w] = store[w]
        BY <3>2 DEF Elsewhere
      <3>5. ASSUME NEW w \in Versions
            PROVE  /\ DOMAIN store'[w].sig \in {{}, Contexts}
                   /\ store'[w].there => w <= minted'
                   /\ store'[w].previous < w /\ store'[w].from < w
        <4>1. CASE w = v
          <5>1. w \in Nat /\ 0 < w
            OBVIOUS
          <5>2. DOMAIN store'[w].sig \in {{}, Contexts}
            BY <3>3, <4>1
          <5>3. ~store'[w].there
            BY <3>3, <4>1
          <5>4. store'[w].previous < w /\ store'[w].from < w
            BY <3>3, <4>1, <5>1
          <5> QED
            BY <5>2, <5>3, <5>4
        <4>2. CASE w # v
          BY <3>2, <3>4, <4>2
        <4> QED
          BY <4>1, <4>2
      <3> QED
        BY <3>5 DEF Ordered
    <2>2. CASE Thins(v)
      <3>1. store[v] # Absent
        BY <2>2, EmptyIs DEF Thins, Folders, Absent, Versions
      <3>2. v <= minted /\ minted' = minted
        BY <1>17, <3>1, PruneIs DEF VTypes, Unminted
      <3> QED
        BY <2>2, <3>2 DEF Ordered, Thins, Elsewhere, Versions
    <2>3. CASE Skips(t, v)
      <3>1. UNCHANGED <<store, minted>>
        BY <1>17, <2>3, PruneIs DEF Skips
      <3> QED
        BY <1>0, <3>1
    <2> QED
      BY <1>17, <2>1, <2>2, <2>3, PruneIs
  <1>18. ASSUME NEW c \in Contexts, Edit(c) PROVE Ordered'
    BY <1>0, <1>18, EditIs
  <1>19. ASSUME NEW v \in Versions, Damage(v) PROVE Ordered'
    BY <1>19, DamageIs DEF Ordered, Elsewhere, Versions
  <1>20. CASE UNCHANGED <<setting, source, legacy, store, entry, link, pointer, strays, lock,
                          proc, minted, past>>
    BY <1>0, <1>20
  <1> QED
    BY <1>1, <1>2, <1>3, <1>4, <1>5, <1>6, <1>7, <1>8, <1>9, <1>10, <1>11, <1>13,
       <1>15, <1>16, <1>17, <1>18, <1>19, <1>20, StepCases, Zenon

LEMMA LockedStep == VTypes /\ [VersionsNext]_versionVars => Locked'
  <1> SUFFICES ASSUME VTypes, [VersionsNext]_versionVars PROVE Locked'
    OBVIOUS
  <1>a. minted \in Nat /\ \A t \in Trainers : t # Nobody
    BY MaxVersionsNat, VersionsAssumption DEF VTypes, Shapes
  <1>b. \A t \in Trainers : Placed(t)
    BY DEF VTypes, Locked
  <1>c. legacy \subseteq setting.legacy /\ lock \in Trainers \cup {Nobody}
        /\ (lock # Nobody => proc[lock].step \in Publishing)
    BY DEF VTypes, Locked, Shapes
  <1>0. ASSUME NEW t \in Trainers, Others(t), UNCHANGED setting, legacy' \subseteq legacy,
               minted' \in {minted, minted + 1}, Placed(t)',
               \/ lock' = lock /\ (lock = t => proc'[t].step \in Publishing)
               \/ lock' = Nobody /\ lock = t
               \/ lock' = t /\ lock = Nobody /\ proc'[t].step \in Publishing
        PROVE  Locked'
    <2>1. \A u \in Trainers \ {t} : lock' = u <=> lock = u
      BY <1>0, <1>a
    <2>2. \A u \in Trainers \ {t} : proc'[u] = proc[u]
      BY <1>0 DEF Others
    <2>3. 0..minted \subseteq 0..minted'
      BY <1>0, <1>a
    <2>4. ASSUME NEW u \in Trainers \ {t} PROVE Placed(u)'
      <3>1. Placed(u) /\ proc'[u] = proc[u] /\ (lock' = u <=> lock = u)
        BY <1>b, <2>1, <2>2
      <3> QED
        BY <1>0, <2>3, <3>1 DEF Placed, At
    <2>5. lock' # Nobody => proc'[lock'].step \in Publishing
      BY <1>0, <1>c, <2>2
    <2> QED
      BY <1>0, <1>c, <2>4, <2>5 DEF Locked
  <1>1. ASSUME NEW t \in Trainers, Stops(t) PROVE Locked'
    <2>1. Placed(t)'
      BY <1>1, <1>a, <1>b DEF Stops, Placed, At, Ended, Publishing, Building
    <2> QED
      BY <1>0, <1>1, <2>1 DEF Stops
  <1>2. ASSUME NEW t \in Trainers, Begin(t) PROVE Locked'
    <2>1. Others(t) /\ UNCHANGED <<setting, lock, legacy>> /\ minted' \in {minted, minted + 1}
          /\ lock # t
      BY <1>2, <1>a, <1>c, BeginIs DEF Ended, Publishing
    <2>2. Placed(t)'
      BY <1>2, <1>a, <1>c, <2>1, BeginIs DEF Placed, At, Publishing, Building
    <2> QED
      BY <1>0, <2>1, <2>2
  <1>3. ASSUME NEW t \in Trainers, Moved(t) PROVE Locked'
    <2>1. Placed(t)'
      BY <1>3, <1>a, <1>b, <1>c, MovedIs DEF Onward, Placed, At, Publishing, Building
    <2> QED
      BY <1>0, <1>3, <2>1, MovedIs DEF Onward, Publishing
  <1>4. ASSUME NEW t \in Trainers, Resolve(t) PROVE Locked'
    <2>1. Placed(t)'
      BY <1>4, <1>a, <1>b, <1>c, ResolveIs, ResolvedIs DEF Placed, At, Publishing, Building
    <2> QED
      BY <1>0, <1>4, <1>c, <2>1, ResolveIs DEF At, Publishing
  <1>5. ASSUME NEW t \in Trainers, Sign(t) PROVE Locked'
    <2>1. Placed(t)'
      BY <1>5, <1>a, <1>b, <1>c, SignIs DEF Onward, Placed, At, Publishing, Building
    <2> QED
      BY <1>0, <1>5, <1>c, <2>1, SignIs DEF Onward, At, Publishing
  <1>6. ASSUME NEW t \in Trainers, Take(t) PROVE Locked'
    <2>1. Placed(t)'
      BY <1>6, <1>a, <1>b, <1>c, TakeIs DEF Onward, Placed, At, Publishing, Building
    <2> QED
      BY <1>0, <1>6, <2>1, TakeIs DEF Onward, Publishing
  <1>7. ASSUME NEW t \in Trainers, At(t, "publish"), Publishes(t) PROVE Locked'
    <2>1. Placed(t)'
      BY <1>7, <1>a, <1>b, <1>c DEF Publishes, Onward, Placed, At, Publishing, Building
    <2> QED
      BY <1>0, <1>7, <2>1 DEF Publishes, Onward, Publishing
  <1>8. ASSUME NEW t \in Trainers, Link(t) PROVE Locked'
    <2>1. /\ At(t, "route") /\ \E todo : Onward(t, "unroute", todo, proc[t].carry)
          /\ UNCHANGED <<setting, legacy, lock, minted>>
      BY <1>8, LinkIs
    <2>2. Placed(t)'
      BY <1>a, <1>b, <1>c, <2>1 DEF Onward, Placed, At, Publishing, Building
    <2> QED
      BY <1>0, <2>1, <2>2 DEF Onward, Publishing
  <1>9. ASSUME NEW t \in Trainers, Commit(t) PROVE Locked'
    <2>1. Placed(t)'
      BY <1>9, <1>a, <1>b, <1>c, CommitIs DEF Onward, Placed, At, Publishing, Building
    <2>2. lock = t => proc[t].kind # "migrate"
      BY <1>9, <1>b, CommitIs DEF Placed, At, Publishing
    <2> QED
      BY <1>0, <1>9, <2>1, <2>2, CommitIs DEF Onward, Publishing
  <1>10. ASSUME NEW t \in Trainers, Retain(t), ~Stops(t) PROVE Locked'
    <2>1. Placed(t)'
      BY <1>10, <1>a, <1>b, <1>c, RetainIs DEF Onward, Placed, At, Publishing, Building
    <2> QED
      BY <1>0, <1>10, <2>1, RetainIs DEF Onward, Publishing
  <1>11. ASSUME NEW t \in Trainers, NEW whole \in BOOLEAN, Plan(t, whole) PROVE Locked'
    <2>1. At(t, "plan") /\ UNCHANGED <<setting, legacy, lock>>
      BY <1>11, PlanIs
    <2>2. lock # t
      BY <1>a, <1>c, <2>1 DEF At, Publishing
    <2>3. CASE PlansRepair(t)
      <3>1. Placed(t)'
        BY <1>a, <1>b, <1>c, <2>1, <2>3 DEF PlansRepair, Placed, At, Publishing, Building
      <3> QED
        BY <1>0, <2>1, <2>2, <2>3, <3>1 DEF PlansRepair
    <2>4. CASE PlansVersion(t)
      <3> DEFINE n == minted + 1
      <3>0. proc[t].kind # "migrate" /\ proc[t].prev \in 0..minted
        BY <1>b, <2>1 DEF Placed, At
      <3>1. /\ Others(t) /\ proc'[t].step = "build" /\ proc'[t].kind = proc[t].kind
            /\ proc'[t].v = n /\ proc'[t].prev = proc[t].prev /\ proc'[t].sig = Prints(t)
            /\ proc'[t].from \in {0, proc[t].prev} /\ minted' = n
        BY <2>4 DEF PlansVersion
      <3>2. DOMAIN proc'[t].sig = Contexts
        BY <3>1, PrintsAre DEF VTypes
      <3>3. /\ {proc'[t].prev, proc'[t].v, proc'[t].from} \subseteq 0..minted'
            /\ proc'[t].from < proc'[t].v /\ proc'[t].v # 0
        BY <1>a, <3>0, <3>1
      <3>4. Placed(t)'
        BY <3>0, <3>1, <3>2, <3>3 DEF Placed, At, Publishing, Building
      <3> QED
        BY <1>0, <2>1, <2>2, <3>1, <3>4
    <2> QED
      BY <1>11, <2>3, <2>4, PlanIs
  <1>12. ASSUME NEW t \in Trainers, NEW todo, NEW carry,
                \E s \in {"move", "build", "route", "unroute", "prune"} :
                    At(t, s) /\ Onward(t, s, todo, carry),
                UNCHANGED <<setting, lock, minted>>, legacy' \subseteq legacy
         PROVE  Locked'
    <2>1. Placed(t)'
      BY <1>12, <1>a, <1>b, <1>c DEF Onward, Placed, At, Publishing, Building
    <2>2. proc'[t].step = proc[t].step /\ Others(t)
      BY <1>12 DEF Onward, At
    <2> QED
      BY <1>0, <1>12, <1>a, <1>c, <2>1, <2>2
  <1>13. ASSUME NEW t \in Trainers, NEW c \in Contexts,
                Move(t, c) \/ Trains(t, c) \/ Carry(t, c) \/ Route(t, c) \/ Unroute(t, c)
         PROVE  Locked'
    <2>1. CASE Move(t, c)
      BY <1>12, <2>1, MoveIs
    <2>2. CASE Trains(t, c)
      BY <1>12, <2>2, TrainIs
    <2>3. CASE Carry(t, c)
      BY <1>12, <2>3, CarryIs
    <2>4. CASE Route(t, c)
      BY <1>12, <2>4, RouteIs
    <2>5. CASE Unroute(t, c)
      BY <1>12, <2>5, UnrouteIs
    <2> QED
      BY <1>13, <2>1, <2>2, <2>3, <2>4, <2>5
  <1>17. ASSUME NEW t \in Trainers, NEW v \in Versions, Prune(t, v) PROVE Locked'
    <2>0. At(t, "prune") /\ UNCHANGED <<setting, legacy, lock, minted>>
      BY <1>17, PruneIs
    <2>1. CASE Drops(t, v)
      BY <1>12, <2>0, <2>1 DEF Drops
    <2>2. CASE UNCHANGED proc
      BY <2>0, <2>2 DEF VTypes, Locked, Placed, At
    <2>3. CASE Skips(t, v)
      BY <1>12, <2>0, <2>3 DEF Skips
    <2> QED
      BY <1>17, <2>1, <2>2, <2>3, PruneIs DEF Thins
  <1>18. CASE UNCHANGED <<setting, legacy, lock, minted, proc>>
    BY <1>18 DEF VTypes, Locked, Placed, At
  <1>19. ASSUME NEW c \in Contexts, Edit(c) PROVE Locked'
    BY <1>18, <1>19, EditIs
  <1>20. ASSUME NEW v \in Versions, Damage(v) PROVE Locked'
    BY <1>18, <1>20, DamageIs
  <1> QED
    BY <1>1, <1>2, <1>3, <1>4, <1>5, <1>6, <1>7, <1>8, <1>9, <1>10, <1>11, <1>13,
       <1>17, <1>18, <1>19, <1>20, StepCases, Zenon

LEMMA UnmintedStep == VTypes /\ [VersionsNext]_versionVars => Unminted'
  <1> SUFFICES ASSUME VTypes, [VersionsNext]_versionVars, NEW v \in Versions
               PROVE  v <= minted' \/ store'[v] = Absent
    BY DEF Unminted
  <1>a. minted \in Nat /\ v \in Nat /\ (v <= minted \/ store[v] = Absent)
    BY MaxVersionsNat DEF VTypes, Shapes, Unminted, Versions
  <1>b. \A t \in Trainers : proc[t].v <= minted /\ proc[t].v \in Nat
    BY AtVersion DEF VTypes, Locked, Placed
  <1>0. ASSUME NEW w \in Nat, Elsewhere(w), w <= minted',
               minted' \in {minted, minted + 1}
        PROVE  v <= minted' \/ store'[v] = Absent
    BY <1>0, <1>a DEF Elsewhere
  <1>1. ASSUME NEW t \in Trainers, Begin(t) PROVE v <= minted' \/ store'[v] = Absent
    <2>1. CASE UNCHANGED <<store, minted>>
      BY <1>a, <2>1
    <2>2. CASE Elsewhere(minted + 1) /\ minted' = minted + 1
      BY <1>0, <1>a, <2>2
    <2> QED
      BY <1>1, <2>1, <2>2, BeginIs DEF Labelled
  <1>2. ASSUME NEW t \in Trainers, Elsewhere(proc[t].v), UNCHANGED minted
        PROVE  v <= minted' \/ store'[v] = Absent
    BY <1>0, <1>b, <1>2
  <1>3. ASSUME NEW t \in Trainers, Moved(t) \/ Sign(t)
        PROVE  v <= minted' \/ store'[v] = Absent
    BY <1>2, <1>3, MovedIs, SignIs DEF Labelled
  <1>4. ASSUME NEW t \in Trainers, NEW c \in Contexts, Move(t, c) \/ Trains(t, c) \/ Carry(t, c)
        PROVE  v <= minted' \/ store'[v] = Absent
    BY <1>2, <1>4, MoveIs, TrainIs, CarryIs DEF Filled, Labelled
  <1>5. ASSUME NEW t \in Trainers, NEW whole \in BOOLEAN, Plan(t, whole)
        PROVE  v <= minted' \/ store'[v] = Absent
    <2>1. CASE PlansRepair(t)
      BY <1>a, <2>1 DEF PlansRepair
    <2>2. CASE PlansVersion(t)
      BY <1>0, <1>a, <2>2 DEF PlansVersion
    <2> QED
      BY <1>5, <2>1, <2>2, PlanIs
  <1>6. ASSUME NEW t \in Trainers, NEW w \in Versions, Prune(t, w)
        PROVE  v <= minted' \/ store'[v] = Absent
    <2>0. minted' = minted
      BY <1>6, PruneIs
    <2>1. CASE Drops(t, w)
      BY <1>a, <2>0, <2>1 DEF Drops, Elsewhere
    <2>2. CASE Thins(w)
      <3>1. w = v => store[v] # Absent
        BY <2>2, EmptyIs DEF Thins, Folders, Absent, Versions
      <3> QED
        BY <1>a, <2>0, <2>2, <3>1 DEF Thins, Elsewhere
    <2>3. CASE Skips(t, w)
      BY <1>a, <2>0, <2>3 DEF Skips
    <2> QED
      BY <1>6, <2>1, <2>2, <2>3, PruneIs
  <1>7. ASSUME NEW w \in Versions, Damage(w) PROVE v <= minted' \/ store'[v] = Absent
    <2>1. w = v => store[v] # Absent
      BY <1>7, DamageIs DEF Absent
    <2> QED
      BY <1>7, <1>a, <2>1, DamageIs DEF Elsewhere
  <1>8. CASE UNCHANGED <<store, minted>>
    BY <1>8, <1>a
  <1>9. ASSUME NEW t \in Trainers, \/ Stops(t) \/ Resolve(t) \/ Take(t) \/ Publishes(t)
                                   \/ Link(t) \/ Commit(t) \/ Retain(t)
                                   \/ \E c \in Contexts : Route(t, c) \/ Unroute(t, c)
        PROVE  UNCHANGED <<store, minted>>
    <2>1. CASE Retain(t)
      BY <2>1 DEF Retain, disk
    <2> QED
      BY <1>9, <2>1 DEF Stops, Resolve, Take, Publishes, Link, Commit, Route, Unroute, disk
  <1>10. ASSUME NEW c \in Contexts, Edit(c) PROVE UNCHANGED <<store, minted>>
    BY <1>10, EditIs
  <1>11. CASE UNCHANGED <<setting, source, legacy, store, entry, link, pointer, strays, lock,
                          proc, minted, past>>
    BY <1>8, <1>11
  <1> QED
    BY <1>1, <1>3, <1>4, <1>5, <1>6, <1>7, <1>8, <1>9, <1>10, <1>11, StepCases, Zenon

LEMMA VTypesInit == VersionsInit => VTypes
  <1> SUFFICES ASSUME VersionsInit PROVE VTypes
    OBVIOUS
  <1>1. /\ Absent \in Version /\ Idle \in Trainer /\ Absent.previous = 0 /\ Absent.from = 0
        /\ ~Absent.there /\ DOMAIN Absent.sig = {}
    BY AbsentIs, EmptyIs DEF Absent
  <1>2. /\ Idle.step = "off" /\ Idle.kind = "train" /\ Idle.prev = 0 /\ Idle.v = 0
        /\ Idle.from = 0
    BY DEF Idle
  <1>3. Shapes
    BY <1>1, MaxVersionsNat, VersionsAssumption DEF VersionsInit, Shapes
  <1>4. Ordered
    <2>1. ASSUME NEW v \in Versions
          PROVE  /\ DOMAIN store[v].sig \in {{}, Contexts} /\ ~store[v].there
                 /\ store[v].previous = 0 /\ store[v].from = 0 /\ 0 < v
      <3>1. store[v] = Absent
        BY DEF VersionsInit
      <3>2. 0 < v
        BY MaxVersionsNat DEF Versions
      <3> QED
        BY <1>1, <3>1, <3>2
    <2> QED
      BY <2>1 DEF Ordered
  <1>5. Locked
    BY <1>2 DEF VersionsInit, Locked, Placed, At, Publishing, Building
  <1> QED
    BY <1>3, <1>4, <1>5 DEF VTypes, Unminted, VersionsInit

LEMMA VTypesStep == VTypes /\ [VersionsNext]_versionVars => VTypes'
  BY ShapesStep, OrderedStep, UnmintedStep, LockedStep DEF VTypes

(* Every variable keeps its type, whatever the trainers do.                 *)
THEOREM VersionTypesHold == VersionsSpec => []VersionTypes
  <1>1. VTypes => VersionTypes
    <2> SUFFICES ASSUME VTypes PROVE VersionTypes
      OBVIOUS
    <2>1. \A v \in Versions : store[v] \in Version /\ Folders(v) \subseteq Contexts
      BY ModelsOf DEF VTypes
    <2>2. \A v \in Versions :
            /\ store[v].manifest \in {"none", "begun", "ok", "damaged"}
            /\ {store[v].previous, store[v].from} \subseteq 0..(v - 1)
      BY <2>1, MaxVersionsNat DEF VTypes, Ordered, Version, Manifests, Versions
    <2>3. \A t \in Trainers :
            /\ proc[t].step \in Steps /\ proc[t].kind \in {"train", "repair", "migrate"}
            /\ {proc[t].prev, proc[t].v, proc[t].from} \subseteq 0..minted
            /\ proc[t].kind = "train" /\ At(t, "publish") => lock = t
      BY AtVersion DEF VTypes, Locked, Placed, Trainer, Kinds, Publishing, At
    <2> QED
      BY <2>1, <2>2, <2>3 DEF VTypes, Shapes, Ordered, Locked, VersionTypes, Publishing
  <1> QED
    BY <1>1, VTypesInit, VTypesStep, PTL DEF VersionsSpec

-----------------------------------------------------------------------------
(* A version under way has no signature yet, nothing leads to it, and only  *)
(* the trainer that made it is at it.                                       *)
ApartFrom(v, t) == v \notin {proc[t].prev, proc[t].v, proc[t].from}
ApartAt(t) ==
    proc[t].step \in Building =>
        /\ store[proc[t].v].sig = Empty
        /\ proc[t].v \notin {pointer, link, proc[t].prev, proc[t].from}
        /\ \A u \in Trainers \ {t} : ApartFrom(proc[t].v, u)
Apart == \A t \in Trainers : ApartAt(t)

(* What a step of a trainer may do to the versions others are making.       *)
Respects(t) ==
    /\ Others(t)
    /\ {pointer', link', proc'[t].prev, proc'[t].v, proc'[t].from} \subseteq
           {0, pointer, link, proc[t].prev, proc[t].v, proc[t].from, minted + 1}
    /\ \A w \in Versions \ {proc[t].v} : store[w].sig = Empty => store'[w].sig = Empty
(* It stays at what it makes, or it makes nothing, or it begins.            *)
Stays(t) ==
    /\ proc[t].step \in Building /\ UNCHANGED <<pointer, link>>
    /\ proc'[t].prev = proc[t].prev /\ proc'[t].v = proc[t].v /\ proc'[t].from = proc[t].from
    /\ store'[proc[t].v].sig = store[proc[t].v].sig
Starts(t) ==
    /\ UNCHANGED <<pointer, link>> /\ proc'[t].v = minted + 1 /\ minted + 1 \in Versions
    /\ {proc'[t].prev, proc'[t].from} \subseteq 0..minted
    /\ store'[minted + 1].sig = Empty

LEMMA Respected ==
    ASSUME VTypes, Apart, NEW t \in Trainers, Respects(t),
           Stays(t) \/ Starts(t) \/ proc'[t].step \notin Building
    PROVE  Apart'
  <1>a. minted \in Nat /\ pointer \in 0..minted /\ link \in 0..minted
    BY MaxVersionsNat DEF VTypes, Shapes
  <1>b. \A u \in Trainers : {proc[u].prev, proc[u].v, proc[u].from} \subseteq 0..minted
    BY DEF VTypes, Locked, Placed
  <1>c. \A u \in Trainers : proc[u].step \in Building => proc[u].v \in Versions /\ proc[u].v # 0
    BY AtVersion DEF VTypes, Locked, Placed
  <1>d. \A u \in Trainers \ {t} : proc'[u] = proc[u]
    BY DEF Respects, Others
  <1>1. ASSUME NEW u \in Trainers \ {t}, proc[u].step \in Building
        PROVE  /\ store'[proc[u].v].sig = Empty
               /\ proc[u].v \notin {pointer', link', proc'[t].prev, proc'[t].v, proc'[t].from}
    <2>1. ApartAt(u) /\ ApartFrom(proc[u].v, t)
      BY <1>1 DEF Apart, ApartAt
    <2>2. proc[u].v # minted + 1 /\ proc[u].v # 0
      BY <1>a, <1>b, <1>c, <1>1
    <2>3. proc[u].v \in Versions \ {proc[t].v}
      BY <1>1, <1>c, <2>1 DEF ApartFrom
    <2> QED
      BY <1>1, <2>1, <2>2, <2>3 DEF ApartAt, ApartFrom, Respects
  <1>2. ASSUME NEW u \in Trainers \ {t} PROVE ApartAt(u)'
    <2> SUFFICES ASSUME proc[u].step \in Building PROVE ApartAt(u)'
      BY <1>d DEF ApartAt
    <2>1. ApartAt(u)
      BY DEF Apart
    <2>2. ASSUME NEW x \in Trainers \ {u} PROVE ApartFrom(proc[u].v, x)'
      <3>1. CASE x = t
        BY <1>1, <1>d, <3>1 DEF ApartFrom
      <3>2. CASE x # t
        BY <1>d, <2>1, <3>2 DEF ApartFrom, ApartAt
      <3> QED
        BY <3>1, <3>2
    <2> QED
      BY <1>1, <1>d, <2>1, <2>2 DEF ApartAt, ApartFrom
  <1>3. CASE Stays(t)
    <2>1. ApartAt(t)
      BY DEF Apart
    <2>2. ApartAt(t)'
      BY <1>3, <1>d, <2>1 DEF ApartAt, ApartFrom, Stays
    <2> QED
      BY <1>2, <2>2 DEF Apart
  <1>4. CASE Starts(t)
    <2>1. ApartAt(t)'
      BY <1>4, <1>a, <1>b, <1>d DEF ApartAt, ApartFrom, Starts
    <2> QED
      BY <1>2, <2>1 DEF Apart
  <1>5. CASE proc'[t].step \notin Building
    BY <1>2, <1>5 DEF Apart, ApartAt
  <1> QED
    BY <1>3, <1>4, <1>5

LEMMA ApartStep == VTypes /\ Apart /\ [VersionsNext]_versionVars => Apart'
  <1> SUFFICES ASSUME VTypes, Apart, [VersionsNext]_versionVars PROVE Apart'
    OBVIOUS
  <1>a. minted \in Nat /\ Absent.sig = Empty /\ 0 \in 0..minted
    BY MaxVersionsNat DEF VTypes, Shapes, Absent
  <1>1. ASSUME NEW t \in Trainers, Stops(t) PROVE Apart'
    <2>1. Respects(t)
      BY <1>1 DEF Stops, Respects
    <2> QED
      BY <1>1, <2>1, Respected DEF Stops, Ended, Building
  <1>2. ASSUME NEW t \in Trainers, Begin(t) PROVE Apart'
    <2>1. /\ Others(t) /\ UNCHANGED <<pointer, link>> /\ proc'[t].prev = 0 /\ proc'[t].from = 0
      BY <1>2, BeginIs
    <2>2. CASE proc'[t].step = "resolve" /\ proc'[t].v = 0 /\ UNCHANGED store
      <3>1. Respects(t)
        BY <2>1, <2>2 DEF Respects
      <3> QED
        BY <2>2, <3>1, Respected DEF Building
    <2>3. CASE proc'[t].v = minted + 1 /\ minted + 1 \in Versions /\ Labelled(minted + 1)
      <3>1. store[minted + 1].sig = Empty
        BY <1>a, <2>3 DEF VTypes, Unminted
      <3>2. Respects(t)
        BY <2>1, <2>3, <3>1 DEF Respects, Labelled, Elsewhere
      <3>3. Starts(t)
        BY <1>a, <2>1, <2>3, <3>1 DEF Starts, Labelled
      <3> QED
        BY <3>2, <3>3, Respected
    <2> QED
      BY <1>2, <2>2, <2>3, BeginIs
  <1>3. ASSUME NEW t \in Trainers, NEW todo, NEW carry, At(t, "move") \/ At(t, "build"),
               Onward(t, proc[t].step, todo, carry), UNCHANGED <<pointer, link>>,
               Labelled(proc[t].v)
        PROVE  Apart'
    <2>1. Respects(t)
      BY <1>3 DEF Respects, Onward, Labelled, Elsewhere
    <2>2. Stays(t)
      BY <1>3 DEF Stays, Onward, Labelled, At, Building
    <2> QED
      BY <2>1, <2>2, Respected
  <1>4. ASSUME NEW t \in Trainers, NEW c \in Contexts, Move(t, c) \/ Trains(t, c) \/ Carry(t, c)
        PROVE  Apart'
    <2>1. CASE Move(t, c)
      <3>1. Onward(t, proc[t].step, proc[t].todo \ {c}, proc[t].carry)
        BY <2>1, MoveIs DEF At
      <3>2. /\ At(t, "move") \/ At(t, "build")
            /\ UNCHANGED <<pointer, link>> /\ Labelled(proc[t].v)
        BY <2>1, MoveIs DEF Filled
      <3> QED
        BY <1>3, <3>1, <3>2
    <2>2. CASE Trains(t, c)
      <3>1. Onward(t, proc[t].step, proc'[t].todo, proc[t].carry)
        BY <2>2, TrainIs DEF At
      <3>2. /\ At(t, "move") \/ At(t, "build")
            /\ UNCHANGED <<pointer, link>> /\ Labelled(proc[t].v)
        BY <2>2, TrainIs
      <3> QED
        BY <1>3, <3>1, <3>2
    <2>3. CASE Carry(t, c)
      <3>1. Onward(t, proc[t].step, {}, proc[t].carry \ {c})
        BY <2>3, CarryIs DEF At
      <3>2. /\ At(t, "move") \/ At(t, "build")
            /\ UNCHANGED <<pointer, link>> /\ Labelled(proc[t].v)
        BY <2>3, CarryIs
      <3> QED
        BY <1>3, <3>1, <3>2
    <2> QED
      BY <1>4, <2>1, <2>2, <2>3
  <1>5. ASSUME NEW t \in Trainers, Moved(t) PROVE Apart'
    <2>1. Respects(t)
      BY <1>5, MovedIs DEF Respects, Onward, Labelled, Elsewhere
    <2> QED
      BY <1>5, <2>1, MovedIs, Respected DEF Onward, Building
  <1>6. ASSUME NEW t \in Trainers, Resolve(t) PROVE Apart'
    <2>1. Respects(t)
      BY <1>6, ResolveIs, ResolvedIs DEF Respects
    <2> QED
      BY <1>6, <2>1, ResolveIs, Respected DEF Building
  <1>7. ASSUME NEW t \in Trainers, Sign(t) PROVE Apart'
    <2>1. Respects(t)
      BY <1>7, SignIs DEF Respects, Onward, Elsewhere
    <2> QED
      BY <1>7, <2>1, SignIs, Respected DEF Onward, Building
  <1>8. ASSUME NEW t \in Trainers, NEW step \in Steps \ Building, NEW todo, NEW carry,
               Onward(t, step, todo, carry), UNCHANGED store,
               {pointer', link'} \subseteq {pointer, link, proc[t].v}
        PROVE  Apart'
    <2>1. Respects(t)
      BY <1>8 DEF Respects, Onward
    <2> QED
      BY <1>8, <2>1, Respected DEF Onward
  <1>9. ASSUME NEW t \in Trainers, Take(t) \/ Publishes(t) PROVE Apart'
    <2>1. {"publish", "route"} \subseteq Steps \ Building
      BY DEF Steps, Building
    <2> QED
      BY <1>8, <1>9, <2>1, TakeIs DEF Publishes
  <1>10. ASSUME NEW t \in Trainers, Link(t) \/ Commit(t) PROVE Apart'
    <2>1. {"unroute", "resolve", "retain"} \subseteq Steps \ Building
      BY DEF Steps, Building
    <2> QED
      BY <1>8, <1>10, <2>1, LinkIs, CommitIs
  <1>11. ASSUME NEW t \in Trainers, Retain(t), ~Stops(t) PROVE Apart'
    <2>1. "prune" \in Steps \ Building
      BY DEF Steps, Building
    <2> QED
      BY <1>8, <1>11, <2>1, RetainIs
  <1>12. ASSUME NEW t \in Trainers, NEW c \in Contexts, Route(t, c) \/ Unroute(t, c) PROVE Apart'
    <2>1. {"route", "unroute"} \subseteq Steps \ Building
      BY DEF Steps, Building
    <2> QED
      BY <1>8, <1>12, <2>1, RouteIs, UnrouteIs
  <1>13. ASSUME NEW t \in Trainers, NEW whole \in BOOLEAN, Plan(t, whole) PROVE Apart'
    <2>0. UNCHANGED <<pointer, link>>
      BY <1>13, PlanIs
    <2>1. CASE PlansRepair(t)
      <3>1. Respects(t)
        BY <2>0, <2>1 DEF PlansRepair, Respects
      <3> QED
        BY <2>1, <3>1, Respected DEF PlansRepair, Building
    <2>2. CASE PlansVersion(t)
      <3>1. proc[t].prev \in 0..minted
        BY DEF VTypes, Locked, Placed
      <3>2. /\ Others(t) /\ proc'[t].v = minted + 1 /\ proc'[t].prev = proc[t].prev
            /\ proc'[t].from \in {0, proc[t].prev} /\ minted + 1 \in Versions
            /\ Elsewhere(minted + 1) /\ store'[minted + 1].sig = Empty
        BY <2>2 DEF PlansVersion
      <3>3. Respects(t)
        BY <2>0, <3>2 DEF Respects, Elsewhere
      <3>4. Starts(t)
        BY <1>a, <2>0, <3>1, <3>2 DEF Starts
      <3> QED
        BY <3>3, <3>4, Respected
    <2> QED
      BY <1>13, <2>1, <2>2, PlanIs
  <1>14. ASSUME UNCHANGED <<pointer, link, proc>>,
                \A w \in Versions : store[w].sig = Empty => store'[w].sig = Empty
         PROVE  Apart'
    <2>1. \A u \in Trainers : proc[u].step \in Building => proc[u].v \in Versions
      BY AtVersion
    <2> QED
      BY <1>14, <2>1 DEF Apart, ApartAt, ApartFrom
  <1>15. ASSUME NEW t \in Trainers, NEW v \in Versions, Prune(t, v) PROVE Apart'
    <2>0. UNCHANGED <<pointer, link>> /\ At(t, "prune")
      BY <1>15, PruneIs
    <2>1. CASE Drops(t, v)
      <3>1. Respects(t)
        BY <1>a, <2>0, <2>1 DEF Drops, Respects, Onward, Elsewhere
      <3> QED
        BY <2>1, <3>1, Respected DEF Drops, Onward, Building
    <2>2. CASE Thins(v)
      BY <1>14, <2>0, <2>2 DEF Thins, Elsewhere
    <2>3. CASE Skips(t, v)
      <3>1. Respects(t)
        BY <2>0, <2>3 DEF Skips, Respects, Onward
      <3> QED
        BY <2>3, <3>1, Respected DEF Skips, Onward, Building
    <2> QED
      BY <1>15, <2>1, <2>2, <2>3, PruneIs
  <1>16. ASSUME NEW c \in Contexts, Edit(c) PROVE Apart'
    BY <1>14, <1>16, EditIs
  <1>17. ASSUME NEW v \in Versions, Damage(v) PROVE Apart'
    BY <1>14, <1>17, DamageIs DEF Elsewhere
  <1>18. CASE UNCHANGED <<setting, source, legacy, store, entry, link, pointer, strays, lock,
                          proc, minted, past>>
    BY <1>14, <1>18
  <1> QED
    BY <1>1, <1>2, <1>4, <1>5, <1>6, <1>7, <1>9, <1>10, <1>11, <1>12, <1>13, <1>15,
       <1>16, <1>17, <1>18, StepCases, Zenon

(* What settled stays, and what has happened is not forgotten.              *)
LEMMA StepsOn ==
    ASSUME VTypes, [VersionsNext]_versionVars
    PROVE  setting' = setting /\ past \subseteq past' /\ legacy' \subseteq legacy
  <1>1. ASSUME NEW t \in Trainers,
               Stops(t) \/ Begin(t) \/ Moved(t) \/ Resolve(t) \/ Sign(t) \/ Take(t)
               \/ Publishes(t) \/ Link(t) \/ Commit(t) \/ Retain(t)
        PROVE  setting' = setting /\ past \subseteq past' /\ legacy' \subseteq legacy
    BY <1>1 DEF Stops, Begin, Moved, Resolve, Sign, Take, Publishes, Link, Commit, Retain, disk
  <1>2. ASSUME NEW t \in Trainers, NEW whole \in BOOLEAN, Plan(t, whole)
        PROVE  setting' = setting /\ past \subseteq past' /\ legacy' \subseteq legacy
    BY <1>2, PlanIs DEF PlansRepair, PlansVersion
  <1>3. ASSUME NEW t \in Trainers, NEW c \in Contexts,
               Move(t, c) \/ Trains(t, c) \/ Carry(t, c) \/ Route(t, c) \/ Unroute(t, c)
        PROVE  setting' = setting /\ past \subseteq past' /\ legacy' \subseteq legacy
    BY <1>3 DEF Move, Trains, TrainBegins, TrainEnds, Carry, Route, Unroute
  <1>4. ASSUME NEW t \in Trainers, NEW v \in Versions, Prune(t, v)
        PROVE  setting' = setting /\ past \subseteq past' /\ legacy' \subseteq legacy
    BY <1>4 DEF Prune
  <1>5. ASSUME NEW c \in Contexts, Edit(c)
        PROVE  setting' = setting /\ past \subseteq past' /\ legacy' \subseteq legacy
    BY <1>5, EditIs
  <1>6. ASSUME NEW v \in Versions, Damage(v)
        PROVE  setting' = setting /\ past \subseteq past' /\ legacy' \subseteq legacy
    BY <1>6 DEF Damage
  <1> QED
    BY <1>1, <1>2, <1>3, <1>4, <1>5, <1>6, StepCases, Zenon

-----------------------------------------------------------------------------
(* Models trained on editions e agree with a signature f about all that     *)
(* feeds a context: on the seeds, and on the file unless one was edited     *)
(* between the import and a signature.                                      *)
Matches(e, f, c) ==
    \A d \in Feeds(c) : /\ f[d][2] = Seeds[d][e[d]]
                        /\ "edited" \notin past => f[d][1] = e[d]

(* Models agree with the signature beside them; and those of a version      *)
(* under way, those it will carry forward and those it will train, with the *)
(* signature it will get.                                                   *)
FreshIn(v) ==
    store[v].sig # Empty =>
        \A c \in DOMAIN store[v].models : Matches(store[v].models[c], store[v].sig, c)
FreshWork(t) ==
    At(t, "build") =>
        /\ \A c \in Contexts : Matches(proc[t].loaded, proc[t].sig, c)
        /\ \A c \in DOMAIN store[proc[t].v].models :
              Matches(store[proc[t].v].models[c], proc[t].sig, c)
        /\ proc[t].from # 0 =>
              \A c \in proc[t].carry \cap DOMAIN store[proc[t].from].models :
                  Matches(store[proc[t].from].models[c], proc[t].sig, c)
UpToDate ==
    /\ \A v \in Versions : FreshIn(v)
    /\ \A t \in Trainers : FreshWork(t)

(* A step that adds no models and no signatures.                            *)
FewerModels(v) ==
    /\ DOMAIN store'[v].models \subseteq DOMAIN store[v].models
    /\ \A c \in DOMAIN store'[v].models : store'[v].models[c] = store[v].models[c]
Fewer(v) == store'[v].sig \in {store[v].sig, Empty} /\ FewerModels(v)
(* A trainer stays at its work, or has none.                                *)
Works(t) ==
    At(t, "build")' =>
        /\ At(t, "build") /\ proc'[t].v = proc[t].v /\ proc'[t].from = proc[t].from
        /\ proc'[t].sig = proc[t].sig /\ proc'[t].loaded = proc[t].loaded
        /\ proc'[t].carry \subseteq proc[t].carry

LEMMA MatchesLater ==
    ASSUME past \subseteq past', NEW e, NEW f, NEW c, Matches(e, f, c)
    PROVE  Matches(e, f, c)'
  BY DEF Matches, Feeds

LEMMA WorkFresh ==
    ASSUME VTypes, UpToDate, past \subseteq past', \A v \in Versions : FewerModels(v),
           NEW t \in Trainers, Works(t)
    PROVE  FreshWork(t)'
  <1> SUFFICES ASSUME At(t, "build")' PROVE FreshWork(t)'
    BY DEF FreshWork
  <1>1. /\ FreshWork(t) /\ At(t, "build") /\ proc[t].v \in Versions
        /\ proc[t].from # 0 => proc[t].from \in Versions
    BY AtVersion DEF UpToDate, At, Building, Works
  <1>2. PICK e, f : e = proc[t].loaded /\ f = proc[t].sig
    OBVIOUS
  <1>3. proc'[t].loaded = e /\ proc'[t].sig = f
    BY <1>2 DEF Works
  <1>4. ASSUME NEW c \in Contexts PROVE Matches(proc[t].loaded, proc[t].sig, c)'
    <2>1. Matches(e, f, c)'
      BY <1>1, <1>2, MatchesLater DEF FreshWork
    <2> QED
      BY <1>3, <2>1 DEF Matches
  <1>5. ASSUME NEW c \in DOMAIN store'[proc[t].v].models
        PROVE  Matches(store[proc[t].v].models[c], proc[t].sig, c)'
    <2>1. /\ proc'[t].v = proc[t].v /\ c \in DOMAIN store[proc[t].v].models
          /\ store'[proc[t].v].models[c] = store[proc[t].v].models[c]
      BY <1>1 DEF Works, FewerModels
    <2>2. PICK g : g = store[proc[t].v].models[c]
      OBVIOUS
    <2>3. Matches(g, f, c)'
      BY <1>1, <1>2, <2>1, <2>2, MatchesLater DEF FreshWork
    <2> QED
      BY <1>3, <2>1, <2>2, <2>3 DEF Matches
  <1>6. ASSUME proc'[t].from # 0,
               NEW c \in proc'[t].carry \cap DOMAIN store'[proc'[t].from].models
        PROVE  Matches(store[proc[t].from].models[c], proc[t].sig, c)'
    <2>1. /\ proc'[t].from = proc[t].from /\ proc[t].from # 0
          /\ c \in proc[t].carry \cap DOMAIN store[proc[t].from].models
          /\ store'[proc[t].from].models[c] = store[proc[t].from].models[c]
      BY <1>1, <1>6 DEF Works, FewerModels
    <2>2. PICK g : g = store[proc[t].from].models[c]
      OBVIOUS
    <2>3. Matches(g, f, c)'
      BY <1>1, <1>2, <2>1, <2>2, MatchesLater DEF FreshWork
    <2> QED
      BY <1>3, <2>1, <2>2, <2>3 DEF Matches
  <1>7. proc'[t].v = proc[t].v
    BY DEF Works
  <1> QED
    BY <1>4, <1>5, <1>6, <1>7 DEF FreshWork

LEMMA FewerFresh ==
    ASSUME VTypes, UpToDate, past \subseteq past', \A v \in Versions : Fewer(v)
    PROVE  /\ \A v \in Versions : FreshIn(v)'
           /\ \A t \in Trainers : Works(t) => FreshWork(t)'
  <1>1. ASSUME NEW v \in Versions PROVE FreshIn(v)'
    <2> SUFFICES ASSUME store'[v].sig # Empty, NEW c \in DOMAIN store'[v].models
                 PROVE  Matches(store[v].models[c], store[v].sig, c)'
      BY DEF FreshIn
    <2>1. /\ store'[v].sig = store[v].sig /\ store'[v].models[c] = store[v].models[c]
          /\ c \in DOMAIN store[v].models
      BY DEF Fewer, FewerModels
    <2>2. PICK e, f : e = store[v].models[c] /\ f = store[v].sig
      OBVIOUS
    <2>3. Matches(e, f, c)
      BY <2>1, <2>2 DEF UpToDate, FreshIn
    <2>4. Matches(e, f, c)'
      BY <2>3, MatchesLater
    <2> QED
      BY <2>1, <2>2, <2>4 DEF Matches
  <1>2. ASSUME NEW t \in Trainers, Works(t) PROVE FreshWork(t)'
    BY <1>2, WorkFresh DEF Fewer
  <1> QED
    BY <1>1, <1>2

(* The work of one who does not act, on versions that stay as they are.     *)
LEMMA StillFresh ==
    ASSUME past \subseteq past', NEW u \in Trainers, FreshWork(u), proc'[u] = proc[u],
           store'[proc[u].v] = store[proc[u].v],
           proc[u].from # 0 => store'[proc[u].from] = store[proc[u].from]
    PROVE  FreshWork(u)'
  <1> SUFFICES ASSUME At(u, "build") PROVE FreshWork(u)'
    BY DEF FreshWork, At
  <1>1. PICK r, s, q : r = proc[u] /\ s = store[proc[u].v] /\ q = store[proc[u].from]
    OBVIOUS
  <1>2. ASSUME NEW c \in Contexts PROVE Matches(r.loaded, r.sig, c)'
    BY <1>1, MatchesLater DEF FreshWork
  <1>3. ASSUME NEW c \in DOMAIN s.models PROVE Matches(s.models[c], r.sig, c)'
    BY <1>1, <1>3, MatchesLater DEF FreshWork
  <1>4. ASSUME r.from # 0, NEW c \in r.carry \cap DOMAIN q.models
        PROVE  Matches(q.models[c], r.sig, c)'
    BY <1>1, <1>4, MatchesLater DEF FreshWork
  <1>5. /\ proc'[u] = r /\ store'[r.v] = s
        /\ r.from # 0 => store'[r.from] = q
    BY <1>1
  <1> QED
    BY <1>2, <1>3, <1>4, <1>5 DEF FreshWork

(* One more context in a version under way.                                 *)
LEMMA FilledFresh ==
    ASSUME VTypes, Apart, UpToDate, UNCHANGED past, NEW t \in Trainers,
           proc[t].step \in Building, NEW c \in Contexts, NEW e \in Editions,
           Filled(proc[t].v, c, e), Others(t),
           At(t, "build")' => Works(t) /\ Matches(e, proc[t].sig, c)
    PROVE  UpToDate'
  <1> DEFINE v == proc[t].v
             m == store[v].models
  <1>a. v \in Versions /\ store[v].sig = Empty /\ v # proc[t].from
        /\ \A u \in Trainers \ {t} : ApartFrom(v, u)
    BY AtVersion DEF Apart, ApartAt
  <1>b. m \in Models
    BY <1>a, ModelsOf DEF VTypes, Version
  <1>c. /\ store'[v].sig = Empty /\ DOMAIN store'[v].models = DOMAIN m \cup {c}
        /\ store'[v].models[c] = e
        /\ \A d \in DOMAIN m \ {c} : store'[v].models[d] = m[d]
    <2>1. store'[v].models = With(m, c, e) /\ store'[v].sig = store[v].sig
      BY DEF Filled, Labelled
    <2> HIDE DEF m, v
    <2>2. /\ DOMAIN With(m, c, e) = DOMAIN m \cup {c} /\ With(m, c, e)[c] = e
          /\ \A d \in DOMAIN m \ {c} : With(m, c, e)[d] = m[d]
      BY <1>b, WithIs
    <2> QED
      BY <1>a, <2>1, <2>2
  <1>d. \A w \in Versions \ {v} : store'[w] = store[w]
    BY DEF Filled, Labelled, Elsewhere
  <1>3. ASSUME NEW w \in Versions PROVE FreshIn(w)'
    <2>1. CASE w = v
      BY <1>c, <2>1 DEF FreshIn
    <2>2. CASE w # v
      BY <1>d, <2>2 DEF UpToDate, FreshIn, Matches
    <2> QED
      BY <2>1, <2>2
  <1>4. ASSUME NEW u \in Trainers \ {t} PROVE FreshWork(u)'
    <2> SUFFICES ASSUME At(u, "build") PROVE FreshWork(u)'
      BY DEF FreshWork, At, Others
    <2>1. proc'[u] = proc[u] /\ FreshWork(u)
      BY DEF Others, UpToDate
    <2>2. proc[u].v \in Versions \ {v} /\ (proc[u].from # 0 => proc[u].from \in Versions \ {v})
      BY <1>a, AtVersion DEF ApartFrom, At, Building
    <2>3. /\ store'[proc[u].v] = store[proc[u].v]
          /\ proc[u].from # 0 => store'[proc[u].from] = store[proc[u].from]
      BY <1>d, <2>2
    <2> QED
      BY <2>1, <2>3, StillFresh
  <1>5. FreshWork(t)'
    <2> SUFFICES ASSUME At(t, "build")' PROVE FreshWork(t)'
      BY DEF FreshWork
    <2>0. /\ FreshWork(t) /\ At(t, "build") /\ Matches(e, proc[t].sig, c)
          /\ proc'[t].v = v /\ proc'[t].from = proc[t].from /\ proc'[t].sig = proc[t].sig
          /\ proc'[t].loaded = proc[t].loaded /\ proc'[t].carry \subseteq proc[t].carry
      BY DEF Works, UpToDate
    <2>1. \A x \in DOMAIN store'[v].models : Matches(store'[v].models[x], proc[t].sig, x)
      BY <2>0, <1>c DEF FreshWork
    <2>2. proc[t].from # 0 => proc[t].from \in Versions \ {v}
      BY <1>a, AtVersion
    <2>3. proc[t].from # 0 => store'[proc[t].from] = store[proc[t].from]
      BY <1>d, <2>2
    <2> HIDE DEF v
    <2> QED
      BY <2>0, <2>1, <2>3 DEF FreshWork, Matches
  <1> QED
    BY <1>3, <1>4, <1>5 DEF UpToDate

(* One that is lacking there.                                               *)
LEMMA LeftFresh ==
    ASSUME VTypes, UpToDate, UNCHANGED past, NEW t \in Trainers, NEW c \in Contexts,
           Left(proc[t].v, c), Others(t), Works(t)
    PROVE  UpToDate'
  <1>1. \A v \in Versions : Fewer(v)
    BY DEF Left, Labelled, Elsewhere, Fewer, FewerModels
  <1>2. \A u \in Trainers : Works(u)
    BY DEF Works, Others, At
  <1> QED
    BY <1>1, <1>2, FewerFresh DEF UpToDate

LEMMA SignFresh ==
    ASSUME VTypes, UpToDate, NEW t \in Trainers, Sign(t)
    PROVE  UpToDate'
  <1> DEFINE v == proc[t].v
  <1>a. /\ At(t, "build") /\ Others(t) /\ proc'[t].step = "lock" /\ UNCHANGED past
        /\ Elsewhere(v) /\ store'[v].models = store[v].models /\ store'[v].sig = proc[t].sig
    BY SignIs DEF Onward
  <1>b. v \in Versions /\ FreshWork(t)
    BY <1>a, AtVersion DEF At, Building, UpToDate
  <1>1. ASSUME NEW w \in Versions PROVE FreshIn(w)'
    <2>1. CASE w = v
      <3> HIDE DEF v
      <3>2. store[w].models = store'[w].models /\ store'[w].sig = proc[t].sig
        BY <1>a, <2>1
      <3>3. \A c \in DOMAIN store[w].models : Matches(store[w].models[c], proc[t].sig, c)
        BY <1>a, <1>b, <2>1 DEF FreshWork, v
      <3> QED
        BY <1>a, <3>2, <3>3 DEF FreshIn, Matches
    <2>2. CASE w # v
      BY <1>a, <2>2 DEF UpToDate, FreshIn, Elsewhere, Matches
    <2> QED
      BY <2>1, <2>2
  <1>2. \A w \in Versions : FewerModels(w)
    BY <1>a DEF Elsewhere, FewerModels
  <1>3. ASSUME NEW u \in Trainers PROVE FreshWork(u)'
    <2>1. Works(u)
      BY <1>a DEF Works, Others, At
    <2> QED
      BY <1>a, <1>2, <2>1, WorkFresh
  <1> QED
    BY <1>1, <1>3 DEF UpToDate

(* What a plan keeps of the version before agrees with what it will sign.   *)
LEMMA KeptFresh ==
    ASSUME VTypes, UpToDate, NEW t \in Trainers, NEW v \in Versions, store[v].sig # Empty,
           NEW c \in Contexts \ Dirty(t, v)
    PROVE  c \in DOMAIN store[v].models /\ Matches(store[v].models[c], Prints(t), c)
  <1>1. c \in DOMAIN store[v].models /\ Feeds(c) \cap Changed(t, v) = {}
    BY ModelsOf DEF Dirty, VTypes
  <1>2. Matches(store[v].models[c], store[v].sig, c)
    BY <1>1 DEF UpToDate, FreshIn
  <1>3. \A d \in Feeds(c) : Prints(t)[d] = store[v].sig[d]
    BY <1>1, FeedsAre DEF Changed
  <1> QED
    BY <1>1, <1>2, <1>3 DEF Matches

LEMMA PlanFresh ==
    ASSUME VTypes, UpToDate, NEW t \in Trainers, At(t, "plan"), PlansVersion(t)
    PROVE  UpToDate'
  <1> DEFINE n == minted + 1
             prev == proc[t].prev
             print == Prints(t)
  <1>a. /\ Others(t) /\ proc'[t].v = n /\ proc'[t].sig = print /\ n \in Versions
        /\ proc'[t].loaded = proc[t].loaded
        /\ Elsewhere(n) /\ store'[n].models = Empty /\ store'[n].sig = Empty
        /\ \/ /\ proc'[t].from = prev /\ prev # 0 /\ store[prev].sig # Empty
              /\ proc'[t].carry = Contexts \ Dirty(t, prev)
           \/ proc'[t].from = 0 /\ proc'[t].carry = {}
    BY DEF PlansVersion
  <1>b. \A u \in Trainers : {proc[u].prev, proc[u].v, proc[u].from} \subseteq 0..minted
    BY DEF VTypes, Locked, Placed
  <1>c. minted \in Nat /\ DOMAIN Empty = {}
    BY MaxVersionsNat, EmptyIs DEF VTypes, Shapes
  <1>p. past' = past \cup (IF proc[t].loaded = source THEN {} ELSE {"edited"})
    BY DEF PlansVersion
  <1>q. past \subseteq past'
    BY <1>p
  <1>1. ASSUME NEW w \in Versions PROVE FreshIn(w)'
    <2>1. CASE w = n
      BY <1>a, <1>c, <2>1 DEF FreshIn
    <2>2. CASE w # n
      BY <1>a, <1>q, <2>2 DEF UpToDate, FreshIn, Elsewhere, Matches
    <2> QED
      BY <2>1, <2>2
  <1>2. ASSUME NEW u \in Trainers \ {t} PROVE FreshWork(u)'
    <2> SUFFICES ASSUME At(u, "build") PROVE FreshWork(u)'
      BY <1>a DEF FreshWork, At, Others
    <2>1. proc'[u] = proc[u] /\ FreshWork(u)
      BY <1>a DEF Others, UpToDate
    <2>2. /\ proc[u].v \in Versions \ {n}
          /\ proc[u].from # 0 => proc[u].from \in Versions \ {n}
      BY <1>b, <1>c, AtVersion DEF At, Building
    <2>3. /\ store'[proc[u].v] = store[proc[u].v]
          /\ proc[u].from # 0 => store'[proc[u].from] = store[proc[u].from]
      BY <1>a, <2>2 DEF Elsewhere
    <2> QED
      BY <1>q, <2>1, <2>3, StillFresh
  <1>3. ASSUME NEW c \in Contexts PROVE Matches(proc[t].loaded, proc[t].sig, c)'
    <2>1. \A d \in Feeds(c) : d \in Contexts
      BY FeedsAre
    <2>2. \A d \in Contexts : /\ print[d][1] = source[d]
                              /\ print[d][2] = Seeds[d][proc[t].loaded[d]]
      BY PrintsAre DEF VTypes
    <2>3. "edited" \notin past' => proc[t].loaded = source
      BY <1>p
    <2> HIDE DEF print
    <2> QED
      BY <1>a, <2>1, <2>2, <2>3 DEF Matches, Feeds
  <1>4. ASSUME proc'[t].from # 0, NEW c \in proc'[t].carry
        PROVE  Matches(store[proc[t].from].models[c], proc[t].sig, c)'
    <2>1. /\ proc'[t].from = prev /\ prev # 0 /\ store[prev].sig # Empty
          /\ c \in Contexts \ Dirty(t, prev)
      BY <1>a, <1>4
    <2>2. prev \in Versions \ {n}
      BY <1>b, <1>c, <2>1, AtVersion
    <2>3. store'[prev] = store[prev]
      BY <1>a, <2>2 DEF Elsewhere
    <2>4. Matches(store[prev].models[c], print, c)
      BY <2>1, <2>2, KeptFresh
    <2> HIDE DEF print, prev
    <2> QED
      BY <1>a, <1>q, <2>1, <2>3, <2>4 DEF Matches, Feeds
  <1>5. FreshWork(t)'
    <2>1. DOMAIN store'[proc'[t].v].models = {}
      BY <1>a, <1>c
    <2> QED
      BY <1>3, <1>4, <2>1 DEF FreshWork
  <1> QED
    BY <1>1, <1>2, <1>5 DEF UpToDate

LEMMA FreshStep == VTypes /\ Apart /\ UpToDate /\ [VersionsNext]_versionVars => UpToDate'
  <1> SUFFICES ASSUME VTypes, Apart, UpToDate, [VersionsNext]_versionVars PROVE UpToDate'
    OBVIOUS
  <1>a. Absent.sig = Empty /\ DOMAIN Absent.models = {} /\ past \subseteq past'
    BY EmptyIs, StepsOn DEF Absent
  <1>c. ASSUME \A v \in Versions : Fewer(v), \A u \in Trainers : Works(u) PROVE UpToDate'
    BY <1>a, <1>c, FewerFresh DEF UpToDate
  <1>b. ASSUME NEW t \in Trainers, Others(t), proc'[t].step # "build",
               \A v \in Versions : Fewer(v)
        PROVE  UpToDate'
    <2>1. \A u \in Trainers : Works(u)
      BY <1>b DEF Works, Others, At
    <2> QED
      BY <1>b, <1>c, <2>1
  <1>d. ASSUME UNCHANGED store PROVE \A v \in Versions : Fewer(v)
    BY <1>d DEF Fewer, FewerModels
  <1>f. ASSUME UNCHANGED proc PROVE \A u \in Trainers : Works(u)
    BY <1>f DEF Works, At
  <1>e. ASSUME NEW t \in Trainers, NEW step \in Steps \ {"build"}, NEW todo, NEW carry,
               Onward(t, step, todo, carry), UNCHANGED store
        PROVE  UpToDate'
    BY <1>b, <1>d, <1>e DEF Onward
  <1>1. ASSUME NEW t \in Trainers, Stops(t) PROVE UpToDate'
    BY <1>1, <1>b, <1>d DEF Stops, Ended
  <1>2. ASSUME NEW t \in Trainers, Begin(t) PROVE UpToDate'
    <2>1. CASE UNCHANGED store
      BY <1>2, <1>b, <1>d, <2>1, BeginIs
    <2>2. CASE /\ Labelled(minted + 1)
               /\ store'[minted + 1].models = store[minted + 1].models
      <3>1. \A v \in Versions : Fewer(v)
        BY <2>2 DEF Labelled, Elsewhere, Fewer, FewerModels
      <3> QED
        BY <1>2, <1>b, <3>1, BeginIs
    <2> QED
      BY <1>2, <2>1, <2>2, BeginIs
  <1>3. ASSUME NEW t \in Trainers, Moved(t) PROVE UpToDate'
    <2>1. \A v \in Versions : Fewer(v)
      BY <1>3, MovedIs DEF Labelled, Elsewhere, Fewer, FewerModels
    <2> QED
      BY <1>3, <1>b, <2>1, MovedIs DEF Onward
  <1>4. ASSUME NEW t \in Trainers, Resolve(t) PROVE UpToDate'
    BY <1>4, <1>b, <1>d, ResolveIs
  <1>5. ASSUME NEW t \in Trainers, Sign(t) PROVE UpToDate'
    BY <1>5, SignFresh
  <1>6. ASSUME NEW t \in Trainers, Take(t) \/ Publishes(t) PROVE UpToDate'
    <2>1. {"publish", "route"} \subseteq Steps \ {"build"}
      BY DEF Steps
    <2> QED
      BY <1>6, <1>e, <2>1, TakeIs DEF Publishes
  <1>7. ASSUME NEW t \in Trainers, Link(t) \/ Commit(t) PROVE UpToDate'
    <2>1. {"unroute", "resolve", "retain"} \subseteq Steps \ {"build"}
      BY DEF Steps
    <2> QED
      BY <1>7, <1>e, <2>1, LinkIs, CommitIs
  <1>8. ASSUME NEW t \in Trainers, Retain(t), ~Stops(t) PROVE UpToDate'
    <2>1. "prune" \in Steps \ {"build"}
      BY DEF Steps
    <2> QED
      BY <1>8, <1>e, <2>1, RetainIs
  <1>9. ASSUME NEW t \in Trainers, NEW c \in Contexts, Route(t, c) \/ Unroute(t, c) PROVE UpToDate'
    <2>1. {"route", "unroute"} \subseteq Steps \ {"build"}
      BY DEF Steps
    <2> QED
      BY <1>9, <1>e, <2>1, RouteIs, UnrouteIs
  <1>10. ASSUME NEW t \in Trainers, NEW whole \in BOOLEAN, Plan(t, whole) PROVE UpToDate'
    <2>1. At(t, "plan") /\ (PlansRepair(t) \/ PlansVersion(t))
      BY <1>10, PlanIs
    <2>2. CASE PlansRepair(t)
      BY <1>b, <1>d, <2>1, <2>2 DEF PlansRepair
    <2>3. CASE PlansVersion(t)
      BY <2>1, <2>3, PlanFresh
    <2> QED
      BY <2>1, <2>2, <2>3
  <1>11. ASSUME NEW t \in Trainers, NEW c \in Contexts, Move(t, c) PROVE UpToDate'
    <2> DEFINE e == [d \in Feeds(c) |-> 0]
    <2>1. e \in Editions
      BY OldIs
    <2>2. /\ At(t, "move") /\ Others(t) /\ proc'[t].step = "move" /\ UNCHANGED past
          /\ Filled(proc[t].v, c, e)
      BY <1>11, MoveIs DEF Onward
    <2> HIDE DEF e
    <2> QED
      BY <2>1, <2>2, FilledFresh DEF At, Building
  <1>12. ASSUME NEW t \in Trainers, NEW c \in Contexts, Trains(t, c) PROVE UpToDate'
    <2>1. /\ At(t, "build") /\ Onward(t, "build", proc'[t].todo, proc[t].carry)
          /\ UNCHANGED past
          /\ Left(proc[t].v, c) \/ Filled(proc[t].v, c, Loaded(t, c))
      BY <1>12, TrainIs DEF Begun, Finished
    <2>2. Works(t) /\ Others(t)
      BY <2>1 DEF Works, Onward
    <2>3. Loaded(t, c) \in Editions /\ Matches(Loaded(t, c), proc[t].sig, c)
      BY <2>1, LoadedIs DEF UpToDate, FreshWork, Matches, VTypes
    <2> QED
      BY <2>1, <2>2, <2>3, FilledFresh, LeftFresh DEF At, Building
  <1>13. ASSUME NEW t \in Trainers, NEW c \in Contexts, Carry(t, c) PROVE UpToDate'
    <2> DEFINE e == store[proc[t].from].models[c]
    <2>1. /\ At(t, "build") /\ Onward(t, "build", {}, proc[t].carry \ {c}) /\ c \in proc[t].carry
          /\ UNCHANGED past /\ proc[t].from \in Versions /\ proc[t].from # 0
          /\ \/ c \in Holds(proc[t].from) /\ Filled(proc[t].v, c, e)
             \/ Left(proc[t].v, c)
      BY <1>13, CarryIs, LeadsToVersion
    <2>2. Works(t) /\ Others(t)
      BY <2>1 DEF Works, Onward
    <2>3. CASE c \in Holds(proc[t].from) /\ Filled(proc[t].v, c, e)
      <3>1. c \in DOMAIN store[proc[t].from].models /\ e \in Editions
        BY <2>1, <2>3, ModelsOf DEF VTypes
      <3>2. Matches(e, proc[t].sig, c)
        BY <2>1, <3>1 DEF UpToDate, FreshWork
      <3> HIDE DEF e
      <3> QED
        BY <2>1, <2>2, <2>3, <3>1, <3>2, FilledFresh DEF At, Building
    <2>4. CASE Left(proc[t].v, c)
      BY <2>1, <2>2, <2>4, LeftFresh
    <2> QED
      BY <2>1, <2>3, <2>4
  <1>14. ASSUME NEW t \in Trainers, NEW v \in Versions, Prune(t, v) PROVE UpToDate'
    <2>1. CASE Drops(t, v)
      <3>1. \A w \in Versions : Fewer(w)
        BY <1>a, <2>1 DEF Drops, Elsewhere, Fewer, FewerModels
      <3> QED
        BY <1>b, <2>1, <3>1 DEF Drops, Onward
    <2>2. CASE Thins(v)
      <3>1. \A w \in Versions : Fewer(w)
        BY <2>2 DEF Thins, Elsewhere, Fewer, FewerModels
      <3> QED
        BY <1>c, <1>f, <2>2, <3>1 DEF Thins
    <2>3. CASE Skips(t, v)
      BY <1>b, <1>d, <2>3 DEF Skips, Onward
    <2> QED
      BY <1>14, <2>1, <2>2, <2>3, PruneIs
  <1>15. ASSUME NEW c \in Contexts, Edit(c) PROVE UpToDate'
    BY <1>15, <1>c, <1>d, <1>f, EditIs
  <1>16. ASSUME NEW v \in Versions, Damage(v) PROVE UpToDate'
    <2>1. \A w \in Versions : Fewer(w)
      BY <1>16, DamageIs DEF Elsewhere, Fewer, FewerModels
    <2> QED
      BY <1>16, <1>c, <1>f, <2>1, DamageIs
  <1>17. CASE UNCHANGED <<setting, source, legacy, store, entry, link, pointer, strays, lock,
                          proc, minted, past>>
    BY <1>17, <1>c, <1>d, <1>f
  <1> QED
    BY <1>1, <1>2, <1>3, <1>4, <1>5, <1>6, <1>7, <1>8, <1>9, <1>10, <1>11, <1>12, <1>13,
       <1>14, <1>15, <1>16, <1>17, StepCases, Zenon

LEMMA WorkInit == VersionsInit => Apart /\ UpToDate
  <1> SUFFICES ASSUME VersionsInit PROVE Apart /\ UpToDate
    OBVIOUS
  <1>1. DOMAIN Absent.models = {} /\ Idle.step = "off"
    BY EmptyIs DEF Absent, Idle
  <1>2. /\ \A v \in Versions : DOMAIN store[v].models = {}
        /\ \A t \in Trainers : proc[t].step = "off"
    BY <1>1 DEF VersionsInit
  <1> QED
    BY <1>2 DEF Apart, ApartAt, UpToDate, FreshIn, FreshWork, At, Building

(* What a selective run leaves alone or carries forward was trained on the  *)
(* seeds the run has loaded; and on the commands of today, its own and      *)
(* those of the contexts above it, if no signature was taken of files that  *)
(* were edited after their run had imported them.                           *)
THEOREM KeptModelsAreFresh == VersionsSpec => WhatIsKeptIsFresh
  <1> DEFINE Inv == VTypes /\ Apart /\ UpToDate
             Good(t) == At(t, "plan") /\ At(t, "plan")' = FALSE /\ proc'[t].v # 0 =>
                            \A c \in Spared(t)' : FreshFor(t, c)
  <1>1. VersionsInit => Inv
    BY VTypesInit, WorkInit
  <1>2. Inv /\ [VersionsNext]_versionVars => Inv'
    BY VTypesStep, ApartStep, FreshStep
  <1>3. Inv /\ [VersionsNext]_versionVars => [\A t \in Trainers : Good(t)]_versionVars
    <2> SUFFICES ASSUME VTypes, Apart, UpToDate, [VersionsNext]_versionVars,
                        NEW t \in Trainers, At(t, "plan"), proc'[t].step # "plan",
                        proc'[t].v # 0, NEW c \in Spared(t)'
                 PROVE  FreshFor(t, c)
      BY DEF At
    <2>0. proc[t].step = "plan"
      BY DEF At
    <2>a. ASSUME proc[t].prev \in Versions, store[proc[t].prev].sig # Empty,
                 c \in Contexts \ Dirty(t, proc[t].prev)
          PROVE  FreshFor(t, c)
      <3>1. Matches(store[proc[t].prev].models[c], Prints(t), c)
        BY <2>a, KeptFresh
      <3>2. \A d \in Feeds(c) : /\ d \in Contexts /\ Prints(t)[d][1] = source[d]
                                /\ Prints(t)[d][2] = Seeds[d][proc[t].loaded[d]]
        BY <2>a, FeedsAre, PrintsAre DEF VTypes
      <3> QED
        BY <3>1, <3>2 DEF Matches, FreshFor
    <2>1. CASE PlansRepair(t)
      <3>1. /\ proc[t].prev \in Versions /\ store[proc[t].prev].sig # Empty
            /\ Dirty(t, proc[t].prev) = {} /\ c \in Contexts
        BY <2>1, AtVersion DEF PlansRepair, Spared
      <3> QED
        BY <2>a, <3>1
    <2>2. CASE PlansVersion(t)
      <3>1. c \in proc'[t].carry
        BY <2>2 DEF PlansVersion, Spared
      <3>2. /\ proc[t].prev \in Versions /\ store[proc[t].prev].sig # Empty
            /\ c \in Contexts \ Dirty(t, proc[t].prev)
        BY <2>2, <3>1, AtVersion DEF PlansVersion
      <3> QED
        BY <2>a, <3>2
    <2>3. ASSUME NEW u \in Trainers, u # t, Others(u) PROVE FALSE
      BY <2>3, <2>0 DEF Others
    <2>4. ASSUME NEW whole \in BOOLEAN, NEW u \in Trainers, Plan(u, whole)
          PROVE  PlansRepair(t) \/ PlansVersion(t)
      BY <2>3, <2>4, PlanIs DEF PlansRepair, PlansVersion
    <2>5. ASSUME NEW u \in Trainers, Stops(u) PROVE FALSE
      BY <2>3, <2>5 DEF Stops
    <2>6. ASSUME NEW u \in Trainers,
                 \/ Begin(u) \/ Moved(u) \/ Resolve(u) \/ Sign(u) \/ Take(u)
                 \/ At(u, "publish") /\ Publishes(u)
                 \/ Link(u) \/ Commit(u)
                 \/ Retain(u) /\ ~Stops(u)
                 \/ \E d \in Contexts : \/ Move(u, d) \/ Trains(u, d) \/ Carry(u, d)
                                        \/ Route(u, d) \/ Unroute(u, d)
                 \/ \E v \in Versions : Prune(u, v)
          PROVE  FALSE
      <3>1. proc[u].step # "plan"
        BY <2>6, BeginIs DEF Moved, Resolve, Sign, Take, Link, Commit, Retain, Move, Trains,
              TrainBegins, TrainEnds, Carry, Route, Unroute, Prune, At, Ended
      <3>2. Others(u) \/ UNCHANGED proc
        <4>1. CASE Begin(u) \/ Resolve(u)
          BY <4>1, BeginIs, ResolveIs
        <4>2. CASE Moved(u) \/ Sign(u) \/ Take(u) \/ Publishes(u)
          BY <4>2, MovedIs, SignIs, TakeIs DEF Onward, Publishes
        <4>3. CASE Link(u) \/ Commit(u)
          BY <4>3, LinkIs, CommitIs DEF Onward
        <4>4. CASE Retain(u) /\ ~Stops(u)
          BY <4>4, RetainIs DEF Onward
        <4>5. ASSUME NEW d \in Contexts, Move(u, d) \/ Trains(u, d) \/ Carry(u, d)
              PROVE  Others(u)
          BY <4>5, MoveIs, TrainIs, CarryIs DEF Onward
        <4>6. ASSUME NEW d \in Contexts, Route(u, d) \/ Unroute(u, d) PROVE Others(u)
          BY <4>6, RouteIs, UnrouteIs DEF Onward
        <4>7. ASSUME NEW v \in Versions, Prune(u, v) PROVE Others(u) \/ UNCHANGED proc
          BY <4>7, PruneIs DEF Drops, Thins, Skips, Onward
        <4> QED
          BY <2>6, <4>1, <4>2, <4>3, <4>4, <4>5, <4>6, <4>7, Zenon
      <3> QED
        BY <2>0, <2>3, <3>1, <3>2
    <2>7. ASSUME NEW d \in Contexts, Edit(d) PROVE FALSE
      BY <2>0, <2>7, EditIs
    <2>8. ASSUME NEW v \in Versions, Damage(v) PROVE FALSE
      BY <2>0, <2>8, DamageIs
    <2>9. ~ UNCHANGED <<setting, source, legacy, store, entry, link, pointer, strays, lock,
                        proc, minted, past>>
      BY <2>0
    <2> QED
      BY <2>1, <2>2, <2>4, <2>5, <2>6, <2>7, <2>8, <2>9, StepCases, Zenon
  <1> QED
    BY <1>1, <1>2, <1>3, PTL DEF VersionsSpec, WhatIsKeptIsFresh

-----------------------------------------------------------------------------
Active(t) == proc[t].step \notin Ended

(* Until two runs overlap one trainer at most is active.                    *)
Alone ==
    /\ setting.together \/ Calm
    /\ Calm => \A t, u \in Trainers : t # u => ~Active(t) \/ ~Active(u)

(* Who acts: nobody, an active trainer, or one that begins.                 *)
LEMMA WhoActs ==
    ASSUME VTypes, [VersionsNext]_versionVars
    PROVE  \/ UNCHANGED proc /\ (Calm' <=> Calm)
           \/ \E t \in Trainers : Active(t) /\ Others(t) /\ (Calm' <=> Calm)
           \/ \E t \in Trainers : Begin(t)
  <1> DEFINE Actor(t) == Active(t) /\ Others(t) /\ (Calm' <=> Calm)
  <1>0. proc \in [Trainers -> Trainer]
    BY DEF VTypes, Shapes
  <1>1. ASSUME NEW t \in Trainers, Stops(t) \/ Resolve(t) \/ Moved(t) \/ Sign(t) \/ Take(t)
        PROVE  Actor(t)
    BY <1>1, ResolveIs, MovedIs, SignIs, TakeIs DEF Stops, Active, Onward, At, Ended, Calm
  <1>2. ASSUME NEW t \in Trainers, At(t, "publish") /\ Publishes(t) PROVE Actor(t)
    BY <1>2 DEF Publishes, Active, Onward, At, Ended, Calm
  <1>3. ASSUME NEW t \in Trainers, Link(t) \/ Commit(t) PROVE Actor(t)
    BY <1>3, LinkIs, CommitIs DEF Active, Onward, At, Ended, Calm
  <1>4. ASSUME NEW t \in Trainers, Retain(t), ~Stops(t) PROVE Actor(t)
    BY <1>4, RetainIs DEF Active, Onward, At, Ended, Calm
  <1>5. ASSUME NEW t \in Trainers, NEW whole \in BOOLEAN, Plan(t, whole) PROVE Actor(t)
    <2>1. At(t, "plan") /\ (PlansRepair(t) \/ PlansVersion(t))
      BY <1>5, PlanIs
    <2>2. Others(t) /\ (Calm' <=> Calm)
      BY <2>1 DEF PlansRepair, PlansVersion, Calm
    <2> QED
      BY <2>1, <2>2 DEF Active, At, Ended
  <1>6. ASSUME NEW t \in Trainers, NEW c \in Contexts, Move(t, c) \/ Trains(t, c) \/ Carry(t, c)
        PROVE  Actor(t)
    BY <1>6, MoveIs, TrainIs, CarryIs DEF Active, Onward, At, Ended, Calm
  <1>7. ASSUME NEW t \in Trainers, NEW c \in Contexts, Route(t, c) \/ Unroute(t, c)
        PROVE  Actor(t)
    BY <1>7, RouteIs, UnrouteIs DEF Active, Onward, At, Ended, Calm
  <1>8. ASSUME NEW t \in Trainers, NEW v \in Versions, Prune(t, v) PROVE Actor(t)
    <2>1. At(t, "prune") /\ (Calm' <=> Calm)
      BY <1>8, PruneIs DEF Calm
    <2>2. Others(t)
      BY <1>0, <1>8, PruneIs DEF Others, Drops, Thins, Skips, Onward
    <2> QED
      BY <2>1, <2>2 DEF At, Active, Ended
  <1>9. ASSUME NEW c \in Contexts, Edit(c) PROVE UNCHANGED proc /\ (Calm' <=> Calm)
    BY <1>9, EditIs DEF Calm
  <1>10. ASSUME NEW v \in Versions, Damage(v) PROVE UNCHANGED proc /\ (Calm' <=> Calm)
    BY <1>10, DamageIs DEF Calm
  <1>11. CASE UNCHANGED <<setting, source, legacy, store, entry, link, pointer, strays, lock,
                          proc, minted, past>>
    BY <1>11 DEF Calm
  <1> HIDE DEF Actor
  <1>12. (\E t \in Trainers : Actor(t)) \/ (\E t \in Trainers : Begin(t))
         \/ (UNCHANGED proc /\ (Calm' <=> Calm))
    BY <1>1, <1>2, <1>3, <1>4, <1>5, <1>6, <1>7, <1>8, <1>9, <1>10, <1>11, StepCases, Zenon
  <1> QED
    BY <1>12 DEF Actor

LEMMA AloneStep == VTypes /\ Alone /\ [VersionsNext]_versionVars => Alone'
  <1> SUFFICES ASSUME VTypes, Alone, [VersionsNext]_versionVars PROVE Alone'
    OBVIOUS
  <1>0. setting' = setting
    BY StepsOn
  <1>1. CASE UNCHANGED proc /\ (Calm' <=> Calm)
    BY <1>0, <1>1 DEF Alone, Active
  <1>2. ASSUME NEW t \in Trainers, Active(t), Others(t), Calm' <=> Calm PROVE Alone'
    BY <1>0, <1>2 DEF Alone, Active, Others
  <1>3. ASSUME NEW t \in Trainers, Begin(t) PROVE Alone'
    <2>1. /\ Others(t) /\ (setting.together \/ \A u \in Trainers : proc[u].step \in Ended)
          /\ past' = past \cup (IF \E u \in Trainers \ {t} : proc[u].step \notin Ended
                                THEN {"overlap"} ELSE {})
      BY <1>3, BeginIs
    <2>2. Calm' => \A u \in Trainers \ {t} : proc[u].step \in Ended
      BY <2>1 DEF Calm
    <2>3. setting.together \/ Calm'
      BY <2>1 DEF Alone, Calm
    <2> QED
      BY <1>0, <2>1, <2>2, <2>3 DEF Alone, Active, Others
  <1> QED
    BY <1>1, <1>2, <1>3, WhoActs

(* No two runs have overlapped, or no migration is among those that may.    *)
Sole == Calm \/ (setting.together => setting.legacy = {})

LEMMA SoleBefore ==
    ASSUME VTypes, [VersionsNext]_versionVars
    PROVE  (Calm' => Calm) /\ (Sole' => Sole)
  BY StepsOn DEF Sole, Calm

LEMMA OnePublisher ==
    ASSUME VTypes, Alone, Sole, NEW t \in Trainers, NEW u \in Trainers,
           proc[t].step \in Publishing, proc[u].step \in Publishing
    PROVE  t = u
  <1>1. CASE Calm
    BY <1>1 DEF Alone, Active, Ended, Publishing
  <1>2. CASE ~Calm
    <2>1. setting.legacy = {}
      BY <1>2 DEF Alone, Sole
    <2>2. proc[t].kind # "migrate" /\ proc[u].kind # "migrate"
      BY <2>1 DEF VTypes, Locked, Placed
    <2> QED
      BY <2>2 DEF VTypes, Locked, Placed
  <1> QED
    BY <1>1, <1>2

(* Every entry leads to a directory of its context; a publication routes to *)
(* those of its version, and retention removes no version an entry leads to.*)
ReadersAt(t) ==
    /\ At(t, "route") => proc[t].todo \subseteq Folders(proc[t].v)
    /\ At(t, "prune") => \A c \in Contexts : entry[c] \notin proc[t].todo
Readers ==
    Sole =>
        /\ \A c \in Contexts : entry[c] # 0 => c \in Folders(entry[c])
        /\ \A t \in Trainers : ReadersAt(t)

Grows(v) ==
    DOMAIN store[v].models \cup store[v].half \subseteq
        DOMAIN store'[v].models \cup store'[v].half

LEMMA HeldStill ==
    ASSUME NEW v \in Versions, Grows(v), NEW c, c \in Folders(v)
    PROVE  c \in Folders(v)'
  <1>1. v # 0
    BY MaxVersionsNat DEF Versions
  <1> QED
    BY <1>1 DEF Folders, Grows

(* A step that leaves the entries and takes no directories of contexts.                      *)
LEMMA ReadersKept ==
    ASSUME VTypes, Readers, Sole' => Sole, UNCHANGED entry, \A v \in Versions : Grows(v),
           \A t \in Trainers : proc'[t] # proc[t] =>
               \/ proc'[t].step \notin {"route", "prune"}
               \/ ReadersAt(t)'
               \/ /\ proc'[t].step = proc[t].step /\ proc'[t].v = proc[t].v
                  /\ proc'[t].todo \subseteq proc[t].todo
    PROVE  Readers'
  <1> SUFFICES ASSUME Sole, Sole'
               PROVE  /\ \A c \in Contexts : entry'[c] # 0 => c \in Folders(entry[c])'
                      /\ \A t \in Trainers : ReadersAt(t)'
    BY DEF Readers
  <1>1. ASSUME NEW c \in Contexts, entry'[c] # 0 PROVE c \in Folders(entry[c])'
    <2>1. entry[c] \in Versions /\ entry'[c] = entry[c] /\ c \in Folders(entry[c])
      <3>1. entry'[c] = entry[c]
        OBVIOUS
      <3>2. entry[c] # 0
        BY <1>1, <3>1
      <3> QED
        BY <3>1, <3>2, LeadsToVersion DEF Readers
    <2>2. PICK v \in Versions : v = entry[c]
      BY <2>1
    <2>3. c \in Folders(v)'
      BY <2>1, <2>2, HeldStill
    <2> QED
      BY <2>1, <2>2, <2>3 DEF Folders
  <1>2. ASSUME NEW t \in Trainers PROVE ReadersAt(t)'
    <2> SUFFICES ASSUME proc'[t].step = proc[t].step, proc'[t].v = proc[t].v,
                        proc'[t].todo \subseteq proc[t].todo
                 PROVE  ReadersAt(t)'
      BY DEF ReadersAt, At
    <2>1. ReadersAt(t)
      BY DEF Readers
    <2>2. ASSUME At(t, "route") PROVE proc'[t].todo \subseteq Folders(proc[t].v)'
      <3>1. proc[t].v \in Versions
        BY <2>2, AtVersion DEF At, Publishing
      <3>2. PICK v \in Versions : v = proc[t].v
        BY <3>1
      <3>3. \A c \in proc'[t].todo : c \in Folders(v)'
        BY <2>1, <2>2, <3>2, HeldStill DEF ReadersAt
      <3> QED
        BY <3>2, <3>3 DEF Folders
    <2> QED
      BY <2>1, <2>2 DEF ReadersAt, At
  <1> QED
    BY <1>1, <1>2

LEMMA RouteReaders ==
    ASSUME VTypes, Alone, Readers, Sole' => Sole, NEW t \in Trainers, NEW c \in Contexts,
           Route(t, c) \/ Unroute(t, c)
    PROVE  Readers'
  <1>a. /\ proc[t].step \in {"route", "unroute"}
        /\ Onward(t, proc[t].step, proc[t].todo \ {c}, proc[t].carry) /\ UNCHANGED store
        /\ \/ entry' = [entry EXCEPT ![c] = 0]
           \/ At(t, "route") /\ c \in proc[t].todo /\ entry' = [entry EXCEPT ![c] = proc[t].v]
    <2>1. CASE Route(t, c)
      BY <2>1, RouteIs DEF At
    <2>2. CASE Unroute(t, c)
      BY <2>2, UnrouteIs DEF At
    <2> QED
      BY <2>1, <2>2
  <1> SUFFICES ASSUME Sole
               PROVE  /\ \A d \in Contexts : entry'[d] # 0 => d \in Folders(entry[d])'
                      /\ \A u \in Trainers : ReadersAt(u)'
    BY DEF Readers
  <1>b. entry \in [Contexts -> 0..minted]
    BY DEF VTypes, Shapes
  <1>1. \A v : Folders(v)' = Folders(v')
    BY <1>a DEF Folders
  <1>2. ASSUME NEW d \in Contexts, entry'[d] # 0 PROVE d \in Folders(entry[d])'
    <2>1. CASE entry'[d] = entry[d]
      BY <1>a, <1>2, <2>1 DEF Readers, Folders
    <2>2. CASE entry'[d] # entry[d]
      <3>1. d = c /\ At(t, "route") /\ c \in proc[t].todo /\ entry'[d] = proc[t].v
        BY <1>a, <1>b, <1>2, <2>2
      <3>2. c \in Folders(proc[t].v)
        BY <3>1 DEF Readers, ReadersAt
      <3> QED
        BY <1>a, <3>1, <3>2 DEF Folders
    <2> QED
      BY <2>1, <2>2
  <1>3. ASSUME NEW u \in Trainers PROVE ReadersAt(u)'
    <2>1. ReadersAt(u)
      BY DEF Readers
    <2>2. u # t => proc[u].step \notin Publishing
      BY <1>a, OnePublisher DEF Publishing
    <2>3. CASE u = t
      BY <1>a, <2>1, <2>3 DEF ReadersAt, At, Onward, Folders
    <2>4. CASE u # t
      BY <1>a, <2>2, <2>4 DEF ReadersAt, At, Onward, Others, Publishing
    <2> QED
      BY <2>3, <2>4
  <1> QED
    BY <1>2, <1>3

LEMMA PruneReaders ==
    ASSUME VTypes, Alone, Readers, Sole' => Sole, NEW t \in Trainers, NEW v \in Versions,
           Prune(t, v)
    PROVE  Readers'
  <1>a. At(t, "prune") /\ v \in proc[t].todo /\ UNCHANGED entry /\ Elsewhere(v)
    BY PruneIs
  <1>b. \A u \in Trainers : \/ proc'[u] = proc[u]
                            \/ /\ u = t /\ proc'[t].step = "prune"
                               /\ proc'[t].todo \subseteq proc[t].todo
    BY PruneIs DEF Drops, Thins, Skips, Onward, Others
  <1> SUFFICES ASSUME Sole
               PROVE  /\ \A c \in Contexts : entry'[c] # 0 => c \in Folders(entry[c])'
                      /\ \A u \in Trainers : ReadersAt(u)'
    BY DEF Readers
  <1>1. ASSUME NEW c \in Contexts, entry'[c] # 0 PROVE c \in Folders(entry[c])'
    <2>1. entry[c] # v /\ entry[c] \in Versions /\ c \in Folders(entry[c]) /\ entry'[c] = entry[c]
      BY <1>a, <1>1, LeadsToVersion DEF Readers, ReadersAt
    <2> QED
      BY <1>a, <2>1 DEF Elsewhere, Folders
  <1>2. ASSUME NEW u \in Trainers PROVE ReadersAt(u)'
    <2>1. ReadersAt(u) /\ ReadersAt(t)
      BY DEF Readers
    <2>2. u # t => proc[u].step \notin Publishing
      BY <1>a, OnePublisher DEF Publishing, At
    <2>3. CASE u = t
      BY <1>a, <1>b, <2>1, <2>3 DEF ReadersAt, At
    <2>4. CASE u # t
      BY <1>a, <1>b, <2>2, <2>4 DEF ReadersAt, At, Publishing
    <2> QED
      BY <2>3, <2>4
  <1> QED
    BY <1>1, <1>2

LEMMA FilledHas ==
    ASSUME VTypes, NEW v \in Versions, NEW c \in Contexts, NEW e \in Editions, Filled(v, c, e)
    PROVE  DOMAIN store'[v].models = DOMAIN store[v].models \cup {c}
  <1>1. store[v].models \in Models
    BY ModelsOf DEF VTypes, Version
  <1>2. \A m \in Models : DOMAIN With(m, c, e) = DOMAIN m \cup {c}
    BY WithIs
  <1>3. store'[v].models = With(store[v].models, c, e)
    BY DEF Filled
  <1> QED
    BY <1>1, <1>2, <1>3

LEMMA ReadersStep == VTypes /\ Alone /\ Readers /\ [VersionsNext]_versionVars => Readers'
  <1> SUFFICES ASSUME VTypes, Alone, Readers, [VersionsNext]_versionVars PROVE Readers'
    OBVIOUS
  <1>a. Sole' => Sole
    BY SoleBefore
  <1>b. ASSUME NEW t \in Trainers, Others(t), UNCHANGED entry, \A v \in Versions : Grows(v),
               \/ proc'[t].step \notin {"route", "prune"}
               \/ ReadersAt(t)'
        PROVE  Readers'
    BY <1>a, <1>b, ReadersKept DEF Others
  <1>c. ASSUME UNCHANGED store PROVE \A v \in Versions : Grows(v)
    BY <1>c DEF Grows
  <1>1. ASSUME NEW t \in Trainers, Stops(t) PROVE Readers'
    BY <1>1, <1>b, <1>c DEF Stops, Ended
  <1>2. ASSUME NEW t \in Trainers, Begin(t) PROVE Readers'
    <2>1. /\ Others(t) /\ UNCHANGED entry /\ proc'[t].step \notin {"route", "prune"}
      BY <1>2, BeginIs
    <2>2. \A v \in Versions : Grows(v)
      BY <1>2, <1>c, BeginIs DEF Labelled, Elsewhere, Grows
    <2> QED
      BY <1>b, <2>1, <2>2
  <1>3. ASSUME NEW t \in Trainers, Moved(t) \/ Sign(t) PROVE Readers'
    <2>1. /\ Others(t) /\ UNCHANGED entry /\ proc'[t].step \notin {"route", "prune"}
          /\ Elsewhere(proc[t].v) /\ store'[proc[t].v].models = store[proc[t].v].models
          /\ store'[proc[t].v].half = store[proc[t].v].half
      BY <1>3, MovedIs, SignIs DEF Onward, Labelled
    <2>2. \A v \in Versions : Grows(v)
      BY <2>1 DEF Elsewhere, Grows
    <2> QED
      BY <1>b, <2>1, <2>2
  <1>4. ASSUME NEW t \in Trainers, Resolve(t) \/ Take(t) PROVE Readers'
    BY <1>4, <1>b, <1>c, ResolveIs, TakeIs DEF Onward
  <1>5. ASSUME NEW t \in Trainers, Publishes(t) PROVE Readers'
    <2>1. /\ Others(t) /\ UNCHANGED <<entry, store>> /\ proc'[t].step = "route"
          /\ proc'[t].v = proc[t].v /\ proc'[t].todo = Folders(proc[t].v)
      BY <1>5 DEF Publishes, Onward
    <2>2. ReadersAt(t)'
      BY <2>1 DEF ReadersAt, At, Folders
    <2> QED
      BY <1>b, <1>c, <2>1, <2>2
  <1>6. ASSUME NEW t \in Trainers, Link(t) \/ Commit(t) PROVE Readers'
    <2>1. /\ Others(t) /\ UNCHANGED <<entry, store>>
          /\ proc'[t].step \in {"unroute", "resolve", "retain"}
      BY <1>6, LinkIs, CommitIs DEF Onward
    <2> QED
      BY <1>b, <1>c, <2>1
  <1>7. ASSUME NEW t \in Trainers, Retain(t), ~Stops(t) PROVE Readers'
    <2>1. /\ Others(t) /\ UNCHANGED <<entry, store>> /\ proc'[t].step = "prune"
          /\ proc'[t].todo = Doomed(t) /\ Doomed(t) \cap Protected = {}
      BY <1>7, RetainIs DEF Onward
    <2>2. \A c \in Contexts : entry[c] \notin Doomed(t)
      BY <2>1 DEF Doomed, Protected
    <2>3. ReadersAt(t)'
      BY <2>1, <2>2 DEF ReadersAt, At
    <2> QED
      BY <1>b, <1>c, <2>1, <2>3
  <1>8. ASSUME NEW t \in Trainers, NEW whole \in BOOLEAN, Plan(t, whole) PROVE Readers'
    <2>0. UNCHANGED entry
      BY <1>8, PlanIs
    <2>1. CASE PlansRepair(t)
      BY <1>b, <1>c, <2>0, <2>1 DEF PlansRepair
    <2>2. CASE PlansVersion(t)
      <3>1. minted + 1 \in Versions /\ ~(minted + 1 <= minted)
        BY <2>2, MaxVersionsNat DEF PlansVersion, VTypes, Shapes
      <3>2. DOMAIN store[minted + 1].models \cup store[minted + 1].half = {}
        BY <3>1, EmptyIs DEF VTypes, Unminted, Absent
      <3>3. \A v \in Versions : Grows(v)
        BY <2>2, <3>2 DEF PlansVersion, Elsewhere, Grows
      <3> QED
        BY <1>b, <2>0, <2>2, <3>3 DEF PlansVersion
    <2> QED
      BY <1>8, <2>1, <2>2, PlanIs
  <1>9. ASSUME NEW t \in Trainers, NEW c \in Contexts, Move(t, c) \/ Trains(t, c) \/ Carry(t, c)
        PROVE  Readers'
    <2>1. /\ Others(t) /\ UNCHANGED entry /\ proc'[t].step \notin {"route", "prune"}
          /\ proc[t].step \in Building
          /\ Left(proc[t].v, c) \/ \E e \in Editions : Filled(proc[t].v, c, e)
      <3>1. CASE Move(t, c)
        BY <3>1, MoveIs, OldIs DEF Onward, At, Building
      <3>2. CASE Trains(t, c)
        BY <3>2, TrainIs, LoadedIs DEF Begun, Finished, Onward, At, Building, VTypes
      <3>3. CASE Carry(t, c)
        BY <3>3, CarryIs, ModelsOf DEF Onward, At, Building, VTypes
      <3> QED
        BY <1>9, <3>1, <3>2, <3>3
    <2>2. proc[t].v \in Versions
      BY <2>1, AtVersion
    <2>3. Elsewhere(proc[t].v)
      BY <2>1 DEF Filled, Left, Labelled
    <2>4. Grows(proc[t].v)
      <3>1. CASE Left(proc[t].v, c)
        BY <3>1 DEF Left, Grows
      <3>2. ASSUME NEW e \in Editions, Filled(proc[t].v, c, e) PROVE Grows(proc[t].v)
        <4>1. DOMAIN store'[proc[t].v].models = DOMAIN store[proc[t].v].models \cup {c}
          BY <2>2, <3>2, FilledHas
        <4> QED
          BY <3>2, <4>1 DEF Filled, Grows
      <3> QED
        BY <2>1, <3>1, <3>2
    <2>5. \A v \in Versions : Grows(v)
      BY <2>3, <2>4 DEF Elsewhere, Grows
    <2> QED
      BY <1>b, <2>1, <2>5
  <1>10. ASSUME NEW t \in Trainers, NEW c \in Contexts, Route(t, c) \/ Unroute(t, c)
         PROVE  Readers'
    BY <1>10, <1>a, RouteReaders
  <1>11. ASSUME NEW t \in Trainers, NEW v \in Versions, Prune(t, v) PROVE Readers'
    BY <1>11, <1>a, PruneReaders
  <1>12. ASSUME NEW c \in Contexts, Edit(c) PROVE Readers'
    BY <1>12, <1>a, <1>c, EditIs, ReadersKept
  <1>13. ASSUME NEW v \in Versions, Damage(v) PROVE Readers'
    <2>1. \A w \in Versions : Grows(w)
      BY <1>13, DamageIs DEF Elsewhere, Grows
    <2> QED
      BY <1>13, <1>a, <2>1, DamageIs, ReadersKept
  <1>14. CASE UNCHANGED <<setting, source, legacy, store, entry, link, pointer, strays, lock,
                          proc, minted, past>>
    BY <1>14, <1>a, <1>c, ReadersKept
  <1> QED
    BY <1>1, <1>2, <1>3, <1>4, <1>5, <1>6, <1>7, <1>8, <1>9, <1>10, <1>11, <1>12, <1>13,
       <1>14, StepCases, Zenon

-----------------------------------------------------------------------------
(* A version without a manifest names none before it.                       *)
Noted == \A v \in Versions : store[v].manifest = "none" => store[v].previous = 0

LEMMA NotedStep == VTypes /\ Noted /\ [VersionsNext]_versionVars => Noted'
  <1> SUFFICES ASSUME VTypes, Noted, [VersionsNext]_versionVars, NEW v \in Versions,
                      store'[v].manifest = "none"
               PROVE  store'[v].previous = 0
    BY DEF Noted
  <1>a. /\ store[v].manifest = "none" => store[v].previous = 0
        /\ Absent.previous = 0
    BY DEF Noted, Absent
  <1>b. CASE UNCHANGED store
    BY <1>a, <1>b
  <1>c. ASSUME NEW w, Elsewhere(w), store'[w].manifest = store[w].manifest,
               store'[w].previous = store[w].previous
        PROVE  store'[v].previous = 0
    BY <1>a, <1>c DEF Elsewhere
  <1>d. ASSUME NEW w, Elsewhere(w), store'[w].manifest # "none" PROVE store'[v].previous = 0
    BY <1>a, <1>d DEF Elsewhere
  <1>1. ASSUME NEW t \in Trainers, Begin(t) PROVE store'[v].previous = 0
    BY <1>1, <1>b, <1>c, BeginIs DEF Labelled
  <1>2. ASSUME NEW t \in Trainers, Moved(t) \/ Sign(t) PROVE store'[v].previous = 0
    BY <1>2, <1>d, MovedIs, SignIs DEF Labelled
  <1>3. ASSUME NEW t \in Trainers, NEW c \in Contexts, Move(t, c) \/ Trains(t, c) \/ Carry(t, c)
        PROVE  store'[v].previous = 0
    BY <1>3, <1>c, MoveIs, TrainIs, CarryIs DEF Filled, Labelled
  <1>4. ASSUME NEW t \in Trainers, NEW whole \in BOOLEAN, Plan(t, whole)
        PROVE  store'[v].previous = 0
    BY <1>4, <1>b, <1>d, PlanIs DEF PlansRepair, PlansVersion
  <1>5. ASSUME NEW t \in Trainers, NEW w \in Versions, Prune(t, w)
        PROVE  store'[v].previous = 0
    <2>1. CASE Drops(t, w)
      BY <1>a, <2>1 DEF Drops, Elsewhere
    <2> QED
      BY <1>5, <1>b, <1>c, <2>1, PruneIs DEF Thins, Skips
  <1>6. ASSUME NEW w \in Versions, Damage(w) PROVE store'[v].previous = 0
    BY <1>6, <1>d, DamageIs
  <1>7. ASSUME NEW t \in Trainers, Stops(t) \/ Resolve(t) \/ Take(t) \/ Publishes(t) \/ Link(t)
               \/ Commit(t) \/ Retain(t) \/ \E c \in Contexts : Route(t, c) \/ Unroute(t, c)
        PROVE  UNCHANGED store
    <2>1. CASE Retain(t)
      BY <2>1 DEF Retain, disk
    <2> QED
      BY <1>7, <2>1 DEF Stops, Resolve, Take, Publishes, Link, Commit, Route, Unroute, disk
  <1>8. ASSUME NEW c \in Contexts, Edit(c) PROVE UNCHANGED store
    BY <1>8, EditIs
  <1> QED
    BY <1>b, <1>1, <1>2, <1>3, <1>4, <1>5, <1>6, <1>7, <1>8, StepCases, Zenon

-----------------------------------------------------------------------------
(* A version that a reader may be led back to has all its models.           *)
Whole(v) == store[v].there /\ DOMAIN store[v].sig \subseteq DOMAIN store[v].models
Sound(v) == v = 0 \/ Whole(v)
(* What a run finds published, also when the publication before was killed. *)
Base == IF pointer # 0 THEN pointer ELSE link
Full(v) == store[v].there /\ Contexts \subseteq DOMAIN store[v].models

(* Readers are led to all the artifacts of their context.                   *)
Serving == \A c \in Contexts : entry[c] # 0 => Served(c)

(* On disk, while no two runs have overlapped.                              *)
Foundation ==
    /\ legacy # {} => link = 0 /\ pointer = 0 /\ \A c \in Contexts : entry[c] = 0
    /\ Sound(pointer) /\ Sound(link)
    /\ Base # 0 => Sound(store[Base].previous)
    /\ Serving

(* A trainer that moves the unversioned models, that publishes them, that   *)
(* plans and builds, and that publishes what it built or found.             *)
Migrates(t) ==
    proc[t].kind = "migrate" /\ ~At(t, "resolve") =>
        /\ \A c \in Contexts : entry[c] \in {0, proc[t].v}
        /\ store[proc[t].v].there /\ store[proc[t].v].sig = Empty
        /\ store[proc[t].v].previous = 0 /\ store[proc[t].v].half = {}
Prepares(t) ==
    /\ Sound(proc[t].prev)
    /\ IF At(t, "move") THEN proc[t].todo = legacy ELSE legacy = {}
    /\ At(t, "plan") => proc[t].kind = "train" /\ proc[t].prev = Base
    /\ proc[t].kind = "repair" => /\ proc[t].v = proc[t].prev /\ proc[t].prev = Base
                                  /\ Base # 0
    /\ At(t, "build") =>
          /\ Contexts \subseteq DOMAIN store[proc[t].v].models \cup proc[t].todo \cup proc[t].carry
          /\ proc[t].now \subseteq proc[t].todo \cap store[proc[t].v].half
          /\ proc[t].carry \subseteq Holds(proc[t].from)
          /\ \A c \in Contexts : entry[c] # proc[t].v
    /\ proc[t].kind = "train" /\ proc[t].step \in {"build", "lock"} \cup Publishing =>
          store[proc[t].v].previous \in {0, proc[t].prev}
Delivers(t) ==
    /\ proc[t].kind # "migrate" /\ proc[t].step \in {"lock"} \cup (Publishing \ {"prune"}) =>
          Full(proc[t].v)
    /\ At(t, "unroute") => proc[t].todo = {}
    /\ proc[t].step \in {"retain", "prune"} => pointer = proc[t].v
    /\ At(t, "prune") =>
          /\ proc[t].todo \subseteq Versions
          /\ {pointer, link, store[pointer].previous, proc[t].prev} \cap proc[t].todo = {}
Course(t) == Migrates(t) /\ Prepares(t) /\ Delivers(t)

Quiet == Calm => Foundation /\ \A t \in Trainers : Active(t) => Course(t)

LEMMA PreviousIs ==
    ASSUME VTypes, NEW v \in Versions
    PROVE  store[v].previous \in Versions \cup {0}
  <1>1. store[v].previous \in Nat /\ store[v].previous < v /\ v \in Nat /\ v <= MaxVersions
    BY MaxVersionsNat DEF VTypes, Shapes, Version, Ordered, Versions
  <1> QED
    BY <1>1, MaxVersionsNat DEF Versions

(* A step that breaks no version, and takes no models of one that is read.  *)
Spares == \A c \in Contexts : entry[c] # 0 =>
              DOMAIN store[entry[c]].models \subseteq DOMAIN store'[entry[c]].models
Intact == Spares /\ \A v \in Versions : Whole(v) => Whole(v)'

LEMMA SoundStays ==
    ASSUME Intact, NEW v \in Versions \cup {0}, Sound(v)
    PROVE  Sound(v)'
  BY DEF Intact, Sound

LEMMA ServingKept ==
    ASSUME VTypes, Serving, Spares, UNCHANGED entry
    PROVE  Serving'
  <1> SUFFICES ASSUME NEW c \in Contexts, entry'[c] # 0 PROVE Served(c)'
    BY DEF Serving
  <1>1. entry[c] # 0 /\ c \in Holds(entry[c])
    BY DEF Serving, Served
  <1>2. c \in DOMAIN store'[entry[c]].models
    BY <1>1 DEF Spares, Holds
  <1> QED
    BY <1>1, <1>2 DEF Served, Holds

LEMMA FoundationKept ==
    ASSUME VTypes, Foundation, Intact, UNCHANGED <<pointer, link>>, legacy' \subseteq legacy,
           UNCHANGED entry \/ (legacy = {} /\ Serving'),
           \A v \in Versions : v \in {pointer, link} => store'[v].previous = store[v].previous
    PROVE  Foundation'
  <1>1. pointer \in Versions \cup {0} /\ link \in Versions \cup {0}
    BY LeadsToVersion
  <1>2. /\ \A v \in Versions \cup {0} : Sound(v) => Sound(v)'
    BY SoundStays
  <1>3. Sound(pointer)' /\ Sound(link)'
    <2>1. PICK v \in Versions \cup {0} : v = pointer
      BY <1>1
    <2>2. PICK w \in Versions \cup {0} : w = link
      BY <1>1
    <2>3. Sound(v)' /\ Sound(w)'
      BY <1>2, <2>1, <2>2 DEF Foundation
    <2> QED
      BY <2>1, <2>2, <2>3 DEF Sound, Whole
  <1>4. Base' # 0 => Sound(store[Base].previous)'
    <2> SUFFICES ASSUME Base # 0 PROVE Sound(store[Base].previous)'
      BY DEF Base
    <2>1. Base \in Versions /\ Base' = Base /\ store'[Base].previous = store[Base].previous
      BY <1>1 DEF Base
    <2>2. PICK v \in Versions \cup {0} : v = store[Base].previous
      BY <2>1, PreviousIs
    <2>3. Sound(v)'
      BY <1>2, <2>2 DEF Foundation
    <2> QED
      BY <2>1, <2>2, <2>3 DEF Sound, Whole
  <1>5. Serving'
    BY ServingKept DEF Foundation, Intact
  <1> QED
    BY <1>3, <1>4, <1>5 DEF Foundation

(* Calm, only the trainer that acts is active, before and after.            *)
LEMMA QuietBy ==
    ASSUME VTypes, Alone, Alone', Quiet, Calm' => Calm, NEW t \in Trainers, Others(t),
           Active(t) \/ \A u \in Trainers \ {t} : Calm' => ~Active(u),
           Calm' /\ Foundation /\ (Active(t) => Course(t)) =>
               Foundation' /\ (Active(t)' => Course(t)')
    PROVE  Quiet'
  <1> SUFFICES ASSUME Calm'
               PROVE  Foundation' /\ \A u \in Trainers : Active(u)' => Course(u)'
    BY DEF Quiet
  <1>1. \A u \in Trainers \ {t} : ~Active(u)
    BY DEF Alone
  <1>2. \A u \in Trainers \ {t} : ~Active(u)'
    BY <1>1 DEF Active, Others
  <1>3. Foundation' /\ (Active(t)' => Course(t)')
    BY DEF Quiet
  <1> QED
    BY <1>2, <1>3

(* A step that changes one version leaves the others, and all if it breaks  *)
(* not that one.                                                            *)
LEMMA IntactBut ==
    ASSUME NEW w, Elsewhere(w), VTypes,
           Whole(w) => store'[w].there /\ DOMAIN store'[w].sig \subseteq DOMAIN store'[w].models,
           \/ DOMAIN store[w].models \subseteq DOMAIN store'[w].models
           \/ \A c \in Contexts : entry[c] # w
    PROVE  Intact
  <1>1. ASSUME NEW v \in Versions, Whole(v) PROVE Whole(v)'
    <2>1. CASE v = w
      BY <1>1, <2>1 DEF Whole
    <2>2. CASE v # w
      BY <1>1, <2>2 DEF Whole, Elsewhere
    <2> QED
      BY <2>1, <2>2
  <1>2. ASSUME NEW c \in Contexts, entry[c] # 0
        PROVE  DOMAIN store[entry[c]].models \subseteq DOMAIN store'[entry[c]].models
    <2>1. entry[c] \in Versions
      BY <1>2, LeadsToVersion
    <2> QED
      BY <2>1 DEF Elsewhere
  <1> QED
    BY <1>1, <1>2 DEF Intact, Spares

LEMMA IntactSame ==
    ASSUME UNCHANGED store
    PROVE  Intact
  BY DEF Intact, Spares, Whole

LEMMA IntactFilled ==
    ASSUME VTypes, NEW w \in Versions, NEW c \in Contexts, NEW e \in Editions, Filled(w, c, e)
    PROVE  /\ Intact
           /\ DOMAIN store'[w].models = DOMAIN store[w].models \cup {c}
  <1>1. DOMAIN store'[w].models = DOMAIN store[w].models \cup {c}
    BY FilledHas
  <1> QED
    BY <1>1, IntactBut DEF Filled, Labelled, Whole

LEMMA SoundBut ==
    ASSUME NEW w, Elsewhere(w), NEW v \in Versions \cup {0}, v # w, Sound(v)
    PROVE  Sound(v)'
  BY DEF Sound, Whole, Elsewhere

LEMMA PrevSound ==
    ASSUME VTypes, Intact, NEW t \in Trainers, Sound(proc[t].prev),
           proc'[t].prev \in {0, proc[t].prev}
    PROVE  Sound(proc[t].prev)'
  <1>1. PICK v \in Versions \cup {0} : v = proc[t].prev
    BY AtVersion
  <1>2. Sound(v)'
    BY <1>1, SoundStays
  <1> QED
    BY <1>1, <1>2 DEF Sound, Whole

LEMMA BaseIs ==
    ASSUME VTypes, Foundation
    PROVE  /\ Resolved = Base /\ Base \in Versions \cup {0} /\ Sound(Base)
           /\ pointer # 0 => Base = pointer
  BY LeadsToVersion DEF Foundation, Base, Resolved, Sound, Whole

(* What is delivered can be led back to, and what it names before it.       *)
LEMMA Delivered ==
    ASSUME VTypes, Foundation, NEW t \in Trainers, Course(t),
           proc[t].step \in {"route", "unroute"}
    PROVE  /\ proc[t].v \in Versions /\ proc[t].v # 0 /\ legacy = {}
           /\ Sound(proc[t].v) /\ Sound(store[proc[t].v].previous)
  <1>1. /\ proc[t].v \in Versions /\ proc[t].v # 0 /\ proc[t].kind \in Kinds
        /\ DOMAIN store[proc[t].v].sig \in {{}, Contexts}
    BY AtVersion, LeadsToVersion DEF Publishing, Trainer, VTypes, Ordered
  <1>2. legacy = {}
    BY DEF Course, Prepares, At
  <1>3. CASE proc[t].kind = "migrate"
    BY <1>1, <1>2, <1>3, EmptyIs DEF Course, Migrates, At, Sound, Whole
  <1>4. CASE proc[t].kind # "migrate"
    <2>1. Full(proc[t].v)
      BY <1>4 DEF Course, Delivers, Publishing
    <2>2. Sound(proc[t].v)
      BY <1>1, <2>1 DEF Full, Sound, Whole
    <2>3. Sound(store[proc[t].v].previous)
      <3>1. CASE proc[t].kind = "train"
        BY <3>1 DEF Course, Prepares, Publishing, Sound
      <3>2. CASE proc[t].kind = "repair"
        BY <3>2 DEF Course, Prepares, Foundation
      <3> QED
        BY <1>1, <1>4, <3>1, <3>2 DEF Kinds
    <2> QED
      BY <1>1, <1>2, <2>2, <2>3
  <1> QED
    BY <1>3, <1>4

Before == VTypes /\ Apart /\ Readers /\ Noted /\ Calm /\ Foundation

LEMMA BeginQuiet ==
    ASSUME Before, NEW t \in Trainers, Begin(t)
    PROVE  Foundation' /\ Course(t)'
  <1>0. VTypes /\ Foundation
    BY DEF Before
  <1>a. UNCHANGED <<legacy, entry, link, pointer>> /\ proc'[t].prev = 0
    BY <1>0, BeginIs
  <1>b. Sound(proc[t].prev)'
    BY <1>a DEF Sound
  <1>1. CASE legacy = {}
    <2>1. /\ proc'[t].step = "resolve" /\ proc'[t].kind = "train" /\ UNCHANGED store
      BY <1>0, <1>1, BeginIs
    <2>2. Foundation'
      BY <1>0, <1>a, <2>1, IntactSame, FoundationKept
    <2> QED
      BY <1>a, <1>b, <1>1, <2>1, <2>2
         DEF Course, Migrates, Prepares, Delivers, At, Publishing
  <1>2. CASE legacy # {}
    <2> DEFINE n == minted + 1
    <2>1. /\ proc'[t].step = "move" /\ proc'[t].kind = "migrate" /\ proc'[t].v = n
          /\ proc'[t].todo = legacy /\ n \in Versions /\ Labelled(n)
          /\ store'[n].models = store[n].models /\ store'[n].half = store[n].half
      BY <1>0, <1>2, BeginIs
    <2>2. ~(n <= minted)
      BY <1>0, MaxVersionsNat DEF VTypes, Shapes
    <2>3. store[n].sig = Empty /\ store[n].previous = 0 /\ store[n].half = {}
      BY <1>0, <2>1, <2>2 DEF VTypes, Unminted, Absent
    <2> HIDE DEF n
    <2>4. Intact
      BY <1>0, <2>1, IntactBut DEF Labelled, Whole
    <2>5. Foundation'
      BY <1>0, <1>a, <2>1, <2>4, FoundationKept DEF Labelled, Elsewhere
    <2>6. \A c \in Contexts : entry[c] = 0
      BY <1>0, <1>2 DEF Foundation
    <2>7. Migrates(t)'
      BY <1>a, <2>1, <2>3, <2>6 DEF Migrates, Labelled
    <2> QED
      BY <1>a, <1>b, <2>1, <2>5, <2>7 DEF Course, Prepares, Delivers, At, Publishing
  <1> QED
    BY <1>1, <1>2

LEMMA MoveQuiet ==
    ASSUME Before, NEW t \in Trainers, Course(t), NEW c \in Contexts, Move(t, c)
    PROVE  Foundation' /\ Course(t)'
  <1>0. VTypes /\ Foundation
    BY DEF Before
  <1>a. /\ At(t, "move") /\ Onward(t, "move", proc[t].todo \ {c}, proc[t].carry)
        /\ Filled(proc[t].v, c, [d \in Feeds(c) |-> 0])
        /\ legacy' = legacy \ {c} /\ UNCHANGED <<entry, link, pointer>>
    BY <1>0, MoveIs
  <1>b. proc[t].v \in Versions /\ proc[t].kind = "migrate"
    BY <1>0, <1>a, AtVersion DEF VTypes, Locked, Placed, At, Building
  <1>1. Intact
    BY <1>0, <1>a, <1>b, OldIs, IntactFilled
  <1>2. Foundation'
    BY <1>0, <1>a, <1>1, FoundationKept DEF Filled, Labelled, Elsewhere
  <1>3. Migrates(t)'
    BY <1>a, <1>b DEF Course, Migrates, Onward, Filled, Labelled, At
  <1>4. Sound(proc[t].prev)'
    BY <1>0, <1>a, <1>1, PrevSound DEF Course, Prepares, Onward
  <1> QED
    BY <1>a, <1>b, <1>2, <1>3, <1>4
       DEF Course, Prepares, Delivers, Onward, At, Publishing

LEMMA MovedQuiet ==
    ASSUME Before, NEW t \in Trainers, Course(t), Moved(t)
    PROVE  Foundation' /\ Course(t)'
  <1>0. VTypes /\ Foundation
    BY DEF Before
  <1>a. /\ At(t, "move") /\ proc[t].todo = {} /\ Onward(t, "publish", {}, proc[t].carry)
        /\ Labelled(proc[t].v) /\ store'[proc[t].v].models = store[proc[t].v].models
        /\ store'[proc[t].v].half = store[proc[t].v].half
        /\ UNCHANGED <<legacy, entry, link, pointer>>
    BY <1>0, MovedIs
  <1>b. proc[t].v \in Versions /\ proc[t].kind = "migrate"
    BY <1>0, <1>a, AtVersion DEF VTypes, Locked, Placed, At, Building
  <1>1. Intact
    BY <1>0, <1>a, IntactBut DEF Labelled, Whole
  <1>2. Foundation'
    BY <1>0, <1>a, <1>1, FoundationKept DEF Labelled, Elsewhere
  <1>3. Migrates(t)'
    BY <1>a, <1>b DEF Course, Migrates, Onward, Labelled, At
  <1>4. Sound(proc[t].prev)'
    BY <1>0, <1>a, <1>1, PrevSound DEF Course, Prepares, Onward
  <1> QED
    BY <1>a, <1>b, <1>2, <1>3, <1>4
       DEF Course, Prepares, Delivers, Onward, At, Publishing

LEMMA ResolveQuiet ==
    ASSUME Before, NEW t \in Trainers, Course(t), Resolve(t)
    PROVE  Foundation' /\ Course(t)'
  <1>0. VTypes /\ Foundation
    BY DEF Before
  <1>a. /\ At(t, "resolve") /\ proc'[t].step = "plan" /\ proc'[t].kind = "train"
        /\ proc'[t].prev = Resolved /\ UNCHANGED <<legacy, store, entry, link, pointer>>
    BY <1>0, ResolveIs
  <1>1. Foundation'
    BY <1>0, <1>a, IntactSame, FoundationKept
  <1>2. Resolved = Base /\ Sound(Base) /\ Base' = Base
    BY <1>0, <1>a, BaseIs DEF Base
  <1>3. Sound(proc[t].prev)'
    BY <1>a, <1>2 DEF Sound, Whole
  <1> QED
    BY <1>a, <1>1, <1>2, <1>3
       DEF Course, Migrates, Prepares, Delivers, At, Publishing

LEMMA PlanQuiet ==
    ASSUME Before, NEW t \in Trainers, Course(t), NEW whole \in BOOLEAN, Plan(t, whole)
    PROVE  Foundation' /\ Course(t)'
  <1>0. VTypes /\ Foundation
    BY DEF Before
  <1>a. At(t, "plan") /\ UNCHANGED <<legacy, entry, link, pointer>>
    BY <1>0, PlanIs
  <1>b. /\ proc[t].kind = "train" /\ proc[t].prev = Base /\ legacy = {} /\ Base' = Base
        /\ Sound(proc[t].prev)
    BY <1>a DEF Course, Prepares, At, Base
  <1>1. CASE PlansRepair(t)
    <2>1. /\ proc[t].prev # 0 /\ Dirty(t, proc[t].prev) = {} /\ UNCHANGED store
          /\ proc'[t].step = "lock" /\ proc'[t].kind = "repair"
          /\ proc'[t].v = proc[t].prev /\ proc'[t].prev = proc[t].prev
      BY <1>1 DEF PlansRepair
    <2>2. Foundation'
      BY <1>0, <1>a, <2>1, IntactSame, FoundationKept
    <2>3. Full(proc[t].v)'
      BY <1>b, <2>1 DEF Dirty, Holds, Full, Sound, Whole
    <2>4. Sound(proc[t].prev)'
      BY <1>b, <2>1 DEF Sound, Whole
    <2> QED
      BY <1>a, <1>b, <2>1, <2>2, <2>3, <2>4
         DEF Course, Migrates, Prepares, Delivers, At, Publishing
  <1>2. CASE PlansVersion(t)
    <2> DEFINE n == minted + 1
    <2>1. /\ proc'[t].step = "build" /\ proc'[t].kind = "train" /\ proc'[t].v = n
          /\ proc'[t].prev = proc[t].prev /\ Elsewhere(n) /\ n \in Versions
          /\ Contexts \subseteq proc'[t].todo \cup proc'[t].carry
          /\ store'[n].previous = proc[t].prev /\ proc'[t].now = {}
          /\ \/ proc'[t].from = proc[t].prev /\ proc'[t].carry = Contexts \ Dirty(t, proc[t].prev)
                /\ proc[t].prev # 0
             \/ proc'[t].carry = {}
      BY <1>b, <1>2 DEF PlansVersion
    <2>2. ~store[n].there /\ n \notin {pointer, link, proc[t].prev}
      BY <1>0, <2>1, MaxVersionsNat DEF VTypes, Shapes, Unminted, Absent, Locked, Placed
    <2>e. \A c \in Contexts : entry[c] # n
      BY <1>0, MaxVersionsNat DEF VTypes, Shapes
    <2> HIDE DEF n
    <2>3. Intact
      BY <1>0, <2>1, <2>2, <2>e, IntactBut DEF Whole
    <2>6. proc'[t].carry \subseteq Holds(proc[t].from)'
      <3>1. CASE proc'[t].carry = {}
        BY <3>1
      <3>2. CASE /\ proc'[t].from = proc[t].prev /\ proc[t].prev # 0
                 /\ proc'[t].carry = Contexts \ Dirty(t, proc[t].prev)
        <4>1. proc'[t].carry \subseteq DOMAIN store[proc[t].prev].models
          BY <3>2 DEF Dirty, Holds
        <4>2. store'[proc[t].prev] = store[proc[t].prev]
          BY <1>0, <2>1, <2>2, <3>2, AtVersion DEF Elsewhere
        <4> QED
          BY <3>2, <4>1, <4>2 DEF Holds
      <3> QED
        BY <2>1, <3>1, <3>2
    <2>4. Foundation'
      BY <1>0, <1>a, <2>1, <2>2, <2>3, FoundationKept DEF Elsewhere
    <2>5. Sound(proc[t].prev)'
      BY <1>0, <1>b, <2>1, <2>3, PrevSound
    <2> QED
      BY <1>a, <1>b, <2>1, <2>e, <2>4, <2>5, <2>6
         DEF Course, Migrates, Prepares, Delivers, At, Publishing
  <1> QED
    BY <1>0, <1>1, <1>2, PlanIs

LEMMA BuildQuiet ==
    ASSUME Before, NEW t \in Trainers, Course(t), NEW c \in Contexts,
           Trains(t, c) \/ Carry(t, c)
    PROVE  Foundation' /\ Course(t)'
  <1>0. VTypes /\ Foundation
    BY DEF Before
  <1> DEFINE v == proc[t].v
             r == proc'[t]
  <1>a. /\ At(t, "build") /\ UNCHANGED <<legacy, entry, link, pointer>> /\ Labelled(v)
        /\ Onward(t, "build", r.todo, r.carry)
    BY <1>0, TrainIs, CarryIs DEF Onward
  <1>b. v \in Versions /\ proc[t].kind # "migrate"
    BY <1>0, <1>a, AtVersion DEF VTypes, Locked, Placed, At, Building
  <1>c. store[v].sig = Empty /\ v # proc[t].from
    BY <1>a DEF Before, Apart, ApartAt, At, Building
  <1>d. /\ Contexts \subseteq DOMAIN store[v].models \cup proc[t].todo \cup proc[t].carry
        /\ proc[t].now \subseteq proc[t].todo \cap store[v].half
        /\ proc[t].carry \subseteq Holds(proc[t].from)
        /\ \A x \in Contexts : entry[x] # v
    BY <1>a DEF Course, Prepares
  <1>f. /\ r.carry \subseteq proc[t].carry
        /\ Contexts \subseteq DOMAIN store'[v].models \cup r.todo \cup r.carry
        /\ r.now \subseteq r.todo \cap store'[v].half
    <2>1. CASE Begun(t, c)
      BY <1>d, <2>1 DEF Begun, Left, Onward
    <2>2. CASE Finished(t, c)
      <3>1. Filled(v, c, Loaded(t, c)) /\ Loaded(t, c) \in Editions
        BY <1>0, <1>d, <2>2, LoadedIs DEF Finished, VTypes
      <3>2. DOMAIN store'[v].models = DOMAIN store[v].models \cup {c}
        BY <1>0, <1>b, <3>1, FilledHas
      <3> QED
        BY <1>d, <2>2, <3>2 DEF Finished, Onward
    <2>3. CASE Carry(t, c)
      <3> DEFINE e == store[proc[t].from].models[c]
      <3>1. /\ proc[t].todo = {} /\ c \in proc[t].carry /\ proc[t].from \in Versions
            /\ Onward(t, "build", {}, proc[t].carry \ {c}) /\ r.now = proc[t].now
            /\ c \in Holds(proc[t].from) /\ Filled(v, c, e)
        BY <1>0, <1>d, <2>3, CarryIs
      <3>2. e \in Editions
        BY <1>0, <3>1, ModelsOf DEF VTypes
      <3>3. DOMAIN store'[v].models = DOMAIN store[v].models \cup {c}
        <4> HIDE DEF e, v
        <4> QED
          BY <1>0, <1>b, <3>1, <3>2, FilledHas
      <3> QED
        BY <1>d, <3>1, <3>3 DEF Onward
    <2> QED
      BY <1>0, <2>1, <2>2, <2>3, TrainIs
  <1>g. proc[t].from # 0 => store'[proc[t].from] = store[proc[t].from]
    BY <1>0, <1>a, <1>c, AtVersion DEF Labelled, Elsewhere
  <1>h. r.carry \subseteq Holds(proc[t].from)'
    BY <1>a, <1>d, <1>f, <1>g DEF Onward, Holds
  <1>1. Intact
    <2>1. store'[v].there /\ DOMAIN store'[v].sig = {}
      BY <1>a, <1>c, EmptyIs DEF Labelled
    <2> QED
      BY <1>0, <1>a, <1>d, <2>1, IntactBut DEF Labelled
  <1>2. Foundation'
    BY <1>0, <1>a, <1>1, FoundationKept DEF Labelled, Elsewhere
  <1>3. Sound(proc[t].prev)'
    BY <1>0, <1>a, <1>1, PrevSound DEF Course, Prepares, Onward
  <1>4. store'[v].previous = store[v].previous /\ Base' = Base
    BY <1>a DEF Labelled, Base
  <1>5. Prepares(t)'
    <2>1. /\ r.step = "build" /\ r.kind = proc[t].kind /\ r.v = v /\ r.prev = proc[t].prev
      BY <1>a DEF Onward
    <2> QED
      BY <1>a, <1>b, <1>d, <1>f, <1>h, <1>3, <1>4, <2>1 DEF Course, Prepares, At
  <1> QED
    BY <1>a, <1>b, <1>2, <1>5 DEF Course, Migrates, Delivers, At, Publishing, Onward

LEMMA SignQuiet ==
    ASSUME Before, NEW t \in Trainers, Course(t), Sign(t)
    PROVE  Foundation' /\ Course(t)'
  <1>0. VTypes /\ Foundation
    BY DEF Before
  <1>a. /\ At(t, "build") /\ proc[t].todo = {} /\ proc[t].carry = {}
        /\ Onward(t, "lock", {}, {}) /\ UNCHANGED <<legacy, entry, link, pointer>>
        /\ Elsewhere(proc[t].v) /\ store'[proc[t].v].there
        /\ store'[proc[t].v].models = store[proc[t].v].models
        /\ store'[proc[t].v].sig = proc[t].sig
        /\ store'[proc[t].v].previous \in {0, store[proc[t].v].previous}
    BY <1>0, SignIs
  <1>b. proc[t].v \in Versions /\ proc[t].kind # "migrate" /\ DOMAIN proc[t].sig = Contexts
    BY <1>0, <1>a, AtVersion DEF VTypes, Locked, Placed, At, Building
  <1>c. proc[t].v \notin {pointer, link}
    BY <1>a DEF Before, Apart, ApartAt, At, Building
  <1>d. Contexts \subseteq DOMAIN store[proc[t].v].models
    BY <1>a DEF Course, Prepares
  <1>1. Intact
    BY <1>0, <1>a, <1>b, <1>d, IntactBut
  <1>2. Foundation'
    BY <1>0, <1>a, <1>c, <1>1, FoundationKept DEF Elsewhere
  <1>3. Sound(proc[t].prev)'
    BY <1>0, <1>a, <1>1, PrevSound DEF Course, Prepares, Onward
  <1>4. Full(proc[t].v)'
    BY <1>a, <1>d DEF Full, Onward
  <1>5. Prepares(t)'
    BY <1>a, <1>b, <1>3 DEF Course, Prepares, At, Onward, Base
  <1> QED
    BY <1>a, <1>b, <1>2, <1>4, <1>5 DEF Course, Migrates, Delivers, At, Publishing, Onward

(* A step that changes no version, entry or link.                           *)
LEMMA OnQuiet ==
    ASSUME Before, NEW t \in Trainers, Course(t),
           Take(t) \/ (At(t, "publish") /\ Publishes(t))
    PROVE  Foundation' /\ Course(t)'
  <1>0. VTypes /\ Foundation
    BY DEF Before
  <1>a. /\ UNCHANGED <<legacy, store, entry, link, pointer>>
        /\ proc'[t].kind = proc[t].kind /\ proc'[t].v = proc[t].v
        /\ proc'[t].prev = proc[t].prev
        /\ proc[t].step \in {"lock", "publish"} /\ proc'[t].step \in {"publish", "route"}
    <2>1. CASE Take(t)
      BY <1>0, <2>1, TakeIs DEF Onward, At
    <2>2. CASE At(t, "publish") /\ Publishes(t)
      BY <2>2 DEF Publishes, Onward, At
    <2> QED
      BY <2>1, <2>2
  <1>1. Foundation'
    BY <1>0, <1>a, IntactSame, FoundationKept
  <1>2. Migrates(t)'
    BY <1>a DEF Course, Migrates, At
  <1>3. Sound(proc[t].prev)'
    BY <1>a DEF Course, Prepares, Sound, Whole
  <1>4. Prepares(t)'
    BY <1>a, <1>3 DEF Course, Prepares, At, Base, Publishing
  <1>5. Delivers(t)'
    BY <1>a DEF Course, Delivers, At, Publishing, Full
  <1> QED
    BY <1>1, <1>2, <1>4, <1>5 DEF Course

LEMMA RouteQuiet ==
    ASSUME Before, NEW t \in Trainers, Course(t), NEW c \in Contexts,
           Route(t, c) \/ Unroute(t, c)
    PROVE  Foundation' /\ Course(t)'
  <1>0. VTypes /\ Foundation /\ entry \in [Contexts -> 0..minted]
    BY DEF Before, VTypes, Shapes
  <1>1. ~ Unroute(t, c)
    BY <1>0, UnrouteIs DEF Course, Delivers
  <1>a. /\ At(t, "route") /\ UNCHANGED <<legacy, store, link, pointer>>
        /\ entry' = [entry EXCEPT ![c] = proc[t].v]
        /\ Onward(t, "route", proc[t].todo \ {c}, proc[t].carry)
    BY <1>0, <1>1, RouteIs
  <1>b. legacy = {}
    BY <1>a DEF Course, Prepares, At
  <1>c. c \in DOMAIN store[proc[t].v].models /\ proc[t].v # 0
    <2>1. proc[t].v # 0 /\ c \in Folders(proc[t].v)
      BY <1>0, <1>1, <1>a, RouteIs, Delivered DEF Before, Readers, ReadersAt, Sole, At
    <2>2. CASE proc[t].kind = "migrate"
      BY <1>a, <2>1, <2>2 DEF Course, Migrates, At, Folders
    <2>3. CASE proc[t].kind # "migrate"
      BY <1>a, <2>1, <2>3 DEF Course, Delivers, At, Publishing, Full
    <2> QED
      BY <2>1, <2>2, <2>3
  <1>d. Serving'
    <2> SUFFICES ASSUME NEW d \in Contexts, entry'[d] # 0
                 PROVE  d \in DOMAIN store'[entry'[d]].models
      BY DEF Serving, Served, Holds
    <2>1. CASE d = c
      BY <1>0, <1>a, <1>c, <2>1
    <2>2. CASE d # c
      <3>1. entry'[d] = entry[d] /\ store' = store
        BY <1>0, <1>a, <2>2
      <3> QED
        BY <1>0, <3>1 DEF Foundation, Serving, Served, Holds
    <2> QED
      BY <2>1, <2>2
  <1>2. Foundation'
    BY <1>0, <1>a, <1>b, <1>d, IntactSame, FoundationKept
  <1>3. Migrates(t)'
    BY <1>0, <1>a DEF Course, Migrates, At, Onward
  <1>4. Sound(proc[t].prev)'
    BY <1>a DEF Course, Prepares, Sound, Whole, Onward
  <1>5. Prepares(t)'
    BY <1>a, <1>b, <1>4 DEF Course, Prepares, At, Base, Publishing, Onward
  <1>6. Delivers(t)'
    BY <1>a DEF Course, Delivers, At, Publishing, Full, Onward
  <1> QED
    BY <1>2, <1>3, <1>5, <1>6 DEF Course

LEMMA LinkQuiet ==
    ASSUME Before, NEW t \in Trainers, Course(t), Link(t)
    PROVE  Foundation' /\ Course(t)'
  <1>0. VTypes /\ Foundation
    BY DEF Before
  <1> DEFINE stale == {c \in Contexts \ Folders(proc[t].v) : entry[c] # 0}
  <1>a. /\ At(t, "route") /\ UNCHANGED <<legacy, store, entry, pointer>>
        /\ link' = proc[t].v /\ Onward(t, "unroute", stale, proc[t].carry)
    BY <1>0, LinkIs
  <1>b. /\ proc[t].v \in Versions /\ proc[t].v # 0 /\ legacy = {}
        /\ Sound(proc[t].v) /\ Sound(store[proc[t].v].previous)
    BY <1>0, <1>a, Delivered DEF At
  <1>c. stale = {}
    <2>1. CASE proc[t].kind = "migrate"
      <3>1. \A c \in Contexts : entry[c] \in {0, proc[t].v}
        BY <1>a, <2>1 DEF Course, Migrates, At
      <3>2. \A c \in Contexts : entry[c] # 0 => c \in Folders(entry[c])
        BY DEF Before, Readers, Sole
      <3> QED
        BY <3>1, <3>2
    <2>2. CASE proc[t].kind # "migrate"
      BY <1>a, <1>b, <2>2 DEF Course, Delivers, At, Publishing, Full, Folders
    <2> QED
      BY <2>1, <2>2
  <1>d. proc'[t].todo = {} /\ proc'[t].step = "unroute" /\ proc'[t].kind = proc[t].kind
        /\ proc'[t].v = proc[t].v /\ proc'[t].prev = proc[t].prev
    BY <1>a, <1>c DEF Onward
  <1>e. Base' = IF pointer # 0 THEN Base ELSE proc[t].v
    BY <1>a DEF Base
  <1>1. Foundation'
    <2>1. Sound(pointer)' /\ Sound(link)'
      BY <1>0, <1>a, <1>b DEF Foundation, Sound, Whole
    <2>2. Base' # 0 => Sound(store[Base].previous)'
      <3>1. CASE pointer # 0
        BY <1>0, <1>a, <1>e, <3>1 DEF Foundation, Sound, Whole, Base
      <3>2. CASE pointer = 0
        BY <1>a, <1>b, <1>e, <3>2 DEF Sound, Whole
      <3> QED
        BY <3>1, <3>2
    <2>3. Serving'
      BY <1>0, <1>a, IntactSame, ServingKept DEF Foundation, Intact
    <2> QED
      BY <1>a, <1>b, <2>1, <2>2, <2>3 DEF Foundation
  <1>2. Migrates(t)'
    BY <1>a, <1>d DEF Course, Migrates, At
  <1>3. Sound(proc[t].prev)'
    BY <1>a, <1>d DEF Course, Prepares, Sound, Whole
  <1>4. proc[t].kind = "repair" => proc[t].v = proc[t].prev /\ proc[t].prev = Base'
    BY <1>e DEF Course, Prepares
  <1>5. Prepares(t)'
    BY <1>a, <1>b, <1>d, <1>3, <1>4 DEF Course, Prepares, At, Publishing
  <1>6. Delivers(t)'
    BY <1>a, <1>d DEF Course, Delivers, At, Publishing, Full
  <1> QED
    BY <1>1, <1>2, <1>5, <1>6 DEF Course

LEMMA CommitQuiet ==
    ASSUME Before, NEW t \in Trainers, Course(t), Commit(t)
    PROVE  Foundation' /\ Course(t)'
  <1>0. VTypes /\ Foundation
    BY DEF Before
  <1>a. /\ At(t, "unroute") /\ UNCHANGED <<legacy, store, entry, link>> /\ pointer' = proc[t].v
        /\ Onward(t, IF proc[t].kind = "migrate" THEN "resolve" ELSE "retain", {}, proc[t].carry)
    BY <1>0, CommitIs
  <1>b. /\ proc[t].v \in Versions /\ proc[t].v # 0 /\ legacy = {}
        /\ Sound(proc[t].v) /\ Sound(store[proc[t].v].previous)
    BY <1>0, <1>a, Delivered DEF At
  <1>c. /\ proc'[t].step = IF proc[t].kind = "migrate" THEN "resolve" ELSE "retain"
        /\ proc'[t].kind = proc[t].kind /\ proc'[t].v = proc[t].v
        /\ proc'[t].prev = proc[t].prev
    BY <1>a DEF Onward
  <1>d. Base' = proc[t].v
    BY <1>a, <1>b DEF Base
  <1>1. Foundation'
    <2>1. Sound(pointer)' /\ Sound(link)'
      BY <1>0, <1>a, <1>b DEF Foundation, Sound, Whole
    <2>2. Sound(store[Base].previous)'
      BY <1>a, <1>b, <1>d DEF Sound, Whole
    <2>3. Serving'
      BY <1>0, <1>a, IntactSame, ServingKept DEF Foundation, Intact
    <2> QED
      BY <1>a, <1>b, <2>1, <2>2, <2>3 DEF Foundation
  <1>2. Migrates(t)'
    BY <1>c DEF Migrates, At
  <1>3. Sound(proc[t].prev)'
    BY <1>a, <1>c DEF Course, Prepares, Sound, Whole
  <1>4. Prepares(t)'
    BY <1>a, <1>b, <1>c, <1>d, <1>3 DEF Course, Prepares, At, Publishing
  <1>5. Delivers(t)'
    BY <1>a, <1>c DEF Course, Delivers, At, Publishing, Full
  <1> QED
    BY <1>1, <1>2, <1>4, <1>5 DEF Course

(* Retention keeps the version current.json names, the one the run before   *)
(* it recorded, and what the link leads to.                                 *)
LEMMA RetainQuiet ==
    ASSUME Before, NEW t \in Trainers, Course(t), Retain(t), ~Stops(t)
    PROVE  Foundation' /\ Course(t)'
  <1>0. VTypes /\ Foundation /\ Noted
    BY DEF Before
  <1>a. /\ At(t, "retain") /\ Readable(Resolved) /\ Doomed(t) \cap Protected = {}
        /\ UNCHANGED <<legacy, store, entry, link, pointer>>
        /\ Onward(t, "prune", Doomed(t), proc[t].carry)
    BY <1>0, RetainIs
  <1>b. /\ proc[t].v \in Versions /\ proc[t].kind \in Kinds /\ proc[t].kind # "migrate"
        /\ 0 \notin Versions /\ store[proc[t].v].manifest \in Manifests
    BY <1>0, <1>a, AtVersion, ModelsOf, LeadsToVersion
       DEF At, Publishing, Trainer, VTypes, Locked, Placed, Version
  <1>c. pointer = proc[t].v /\ Resolved = proc[t].v
    <2>1. pointer = proc[t].v
      BY <1>a DEF Course, Delivers, At
    <2> QED
      BY <1>0, <1>b, <2>1, BaseIs
  <1>1. pointer \notin Doomed(t)
    BY <1>c DEF Doomed, Kept
  <1>2. link \notin Doomed(t)
    BY <1>a DEF Doomed, Protected
  <1>3. proc[t].prev \notin Doomed(t) /\ store[pointer].previous \notin Doomed(t)
    <2>1. CASE proc[t].kind = "train"
      <3>1. store[proc[t].v].previous \in {0, proc[t].prev}
        BY <1>a, <2>1 DEF Course, Prepares, At, Publishing
      <3> QED
        BY <1>b, <1>c, <2>1, <3>1 DEF Doomed, Kept
    <2>2. CASE proc[t].kind = "repair"
      <3>1. proc[t].prev = proc[t].v
        BY <2>2 DEF Course, Prepares
      <3>2. Recorded(proc[t].v) \in Kept(t)
        BY <2>2 DEF Kept
      <3>3. Recorded(proc[t].v) = store[proc[t].v].previous
        BY <1>0, <1>a, <1>b, <1>c DEF Recorded, Readable, Noted, Manifests
      <3> QED
        BY <1>1, <1>c, <3>1, <3>2, <3>3 DEF Doomed
    <2> QED
      BY <1>b, <2>1, <2>2 DEF Kinds
  <1>4. Foundation'
    BY <1>0, <1>a, IntactSame, FoundationKept
  <1>5. Migrates(t)'
    BY <1>a, <1>b DEF Migrates, Onward
  <1>6. Sound(proc[t].prev)'
    BY <1>a DEF Course, Prepares, Sound, Whole, Onward
  <1>7. Prepares(t)'
    BY <1>a, <1>6 DEF Course, Prepares, At, Base, Publishing, Onward
  <1>8. Delivers(t)'
    <2>1. Doomed(t) \subseteq Versions
      BY DEF Doomed
    <2> QED
      BY <1>a, <1>c, <1>1, <1>2, <1>3, <2>1 DEF Delivers, At, Publishing, Onward
  <1> QED
    BY <1>4, <1>5, <1>7, <1>8 DEF Course

LEMMA PruneQuiet ==
    ASSUME Before, NEW t \in Trainers, Course(t), NEW w \in Versions, Prune(t, w)
    PROVE  Foundation' /\ Course(t)'
  <1>0. VTypes /\ Foundation
    BY DEF Before
  <1>a. /\ At(t, "prune") /\ w \in proc[t].todo /\ Elsewhere(w)
        /\ UNCHANGED <<legacy, entry, link, pointer>>
    BY <1>0, PruneIs
  <1>b. /\ proc'[t].step = "prune" /\ proc'[t].kind = proc[t].kind /\ proc'[t].v = proc[t].v
        /\ proc'[t].prev = proc[t].prev /\ proc'[t].todo \subseteq proc[t].todo
    BY <1>0, PruneIs DEF Thins, Skips, Drops, Onward, At
  <1>c. /\ pointer = proc[t].v /\ pointer # 0 /\ Base = pointer /\ Base' = pointer
        /\ proc[t].kind # "migrate" /\ legacy = {}
    BY <1>0, <1>a, LeadsToVersion
       DEF Course, Delivers, Prepares, VTypes, Locked, Placed, At, Publishing, Base
  <1>d. /\ w \notin {pointer, link, store[pointer].previous, proc[t].prev}
        /\ proc[t].todo \subseteq Versions
    BY <1>a DEF Course, Delivers
  <1>e. /\ pointer \in Versions /\ link \in Versions \cup {0}
        /\ proc[t].prev \in Versions \cup {0}
    BY <1>0, <1>c, LeadsToVersion, AtVersion
  <1>f. store'[pointer] = store[pointer]
    BY <1>a, <1>d, <1>e DEF Elsewhere
  <1>s. ASSUME NEW x \in Versions \cup {0}, x # w, Sound(x) PROVE Sound(x)'
    BY <1>a, <1>s, SoundBut
  <1>1. Sound(pointer)' /\ Sound(link)' /\ Sound(proc[t].prev)'
    <2>1. PICK p \in Versions \cup {0}, l \in Versions \cup {0}, r \in Versions \cup {0} :
              p = pointer /\ l = link /\ r = proc[t].prev
      BY <1>e
    <2>2. Sound(p)' /\ Sound(l)' /\ Sound(r)'
      BY <1>0, <1>d, <1>s, <2>1 DEF Foundation, Course, Prepares
    <2> QED
      BY <1>a, <1>b, <2>1, <2>2 DEF Sound, Whole
  <1>2. Sound(store[Base].previous)'
    <2>1. PICK x \in Versions \cup {0} : x = store[pointer].previous
      BY <1>0, <1>e, PreviousIs
    <2>2. Sound(x)'
      BY <1>0, <1>c, <1>d, <1>s, <2>1 DEF Foundation
    <2> QED
      BY <1>a, <1>c, <1>f, <2>1, <2>2 DEF Sound, Whole, Base
  <1>v. Serving'
    <2>1. \A c \in Contexts : entry[c] # w
      BY <1>a DEF Before, Readers, ReadersAt, Sole
    <2>2. Spares
      <3> SUFFICES ASSUME NEW c \in Contexts, entry[c] # 0
                   PROVE  DOMAIN store[entry[c]].models \subseteq DOMAIN store'[entry[c]].models
        BY DEF Spares
      <3>1. entry[c] \in Versions
        BY <1>0, LeadsToVersion
      <3> QED
        BY <1>a, <2>1, <3>1 DEF Elsewhere
    <2> QED
      BY <1>0, <1>a, <2>2, ServingKept DEF Foundation
  <1>3. Foundation'
    BY <1>a, <1>c, <1>v, <1>1, <1>2 DEF Foundation
  <1>4. Migrates(t)'
    BY <1>b, <1>c DEF Migrates
  <1>5. Prepares(t)'
    BY <1>a, <1>b, <1>c, <1>f, <1>1 DEF Course, Prepares, At, Publishing
  <1>6. Delivers(t)'
    BY <1>a, <1>b, <1>c, <1>d, <1>f DEF Course, Delivers, At, Publishing
  <1> QED
    BY <1>3, <1>4, <1>5, <1>6 DEF Course

(* A step of no trainer: what the versions hold and name stays.             *)
LEMMA StillQuiet ==
    ASSUME VTypes, Quiet, Calm' => Calm, UNCHANGED <<legacy, entry, link, pointer, proc>>,
           \A v \in Versions :
               /\ store'[v].there = store[v].there /\ store'[v].sig = store[v].sig
               /\ store'[v].models = store[v].models /\ store'[v].half = store[v].half
               /\ store'[v].previous = store[v].previous
    PROVE  Quiet'
  <1> SUFFICES ASSUME Calm'
               PROVE  Foundation' /\ \A t \in Trainers : Active(t)' => Course(t)'
    BY DEF Quiet
  <1>1. Foundation /\ Intact
    BY LeadsToVersion DEF Quiet, Intact, Spares, Whole
  <1>2. Foundation'
    BY <1>1, FoundationKept
  <1>3. ASSUME NEW t \in Trainers, Active(t)' PROVE Course(t)'
    <2>1. Course(t) /\ Base' = Base
      BY <1>3 DEF Quiet, Active, Base
    <2>2. /\ proc'[t] = proc[t] /\ (proc[t].v # 0 => proc[t].v \in Versions)
          /\ pointer # 0 => pointer \in Versions
      BY AtVersion, LeadsToVersion
    <2>3. Migrates(t)'
      <3>1. proc[t].kind = "migrate" /\ ~At(t, "resolve") => proc[t].v \in Versions
        BY AtVersion DEF VTypes, Locked, Placed, Publishing, Building, At
      <3> QED
        BY <2>1, <2>2, <3>1 DEF Course, Migrates, At
    <2>4. Sound(proc[t].prev)'
      BY <1>1, <2>1, PrevSound DEF Course, Prepares
    <2>5. proc[t].step \in Publishing \cup Building \cup {"lock"} => proc[t].v \in Versions
      BY AtVersion
    <2>h. Holds(proc[t].from)' = Holds(proc[t].from)
      BY <2>2, AtVersion DEF Holds
    <2>6. Prepares(t)'
      BY <2>1, <2>2, <2>4, <2>5, <2>h DEF Course, Prepares, At, Building
    <2>7. Delivers(t)'
      <3>1. proc[t].step \in {"retain", "prune"} => pointer \in Versions
        BY <2>1, <2>5 DEF Course, Delivers, Publishing
      <3> QED
        BY <2>1, <2>5, <3>1 DEF Course, Delivers, At, Full, Publishing
    <2> QED
      BY <2>3, <2>6, <2>7 DEF Course
  <1> QED
    BY <1>2, <1>3

LEMMA QuietStep ==
    VTypes /\ Apart /\ Alone /\ Readers /\ Noted /\ Quiet /\ [VersionsNext]_versionVars => Quiet'
  <1> SUFFICES ASSUME VTypes, Apart, Alone, Readers, Noted, Quiet, [VersionsNext]_versionVars
               PROVE  Quiet'
    OBVIOUS
  <1>a. Alone' /\ (Calm' => Calm)
    BY AloneStep, SoleBefore
  <1>b. Calm /\ Foundation => Before
    BY DEF Before
  <1>c. ASSUME NEW t \in Trainers, Others(t), Active(t),
               Before /\ Course(t) => Foundation' /\ Course(t)'
        PROVE  Quiet'
    <2>1. Calm' /\ Foundation /\ (Active(t) => Course(t)) =>
              Foundation' /\ (Active(t)' => Course(t)')
      BY <1>a, <1>b, <1>c
    <2> QED
      BY <1>a, <1>c, <2>1, QuietBy
  <1>1. ASSUME NEW t \in Trainers, Stops(t) PROVE Quiet'
    <2>1. Others(t) /\ Active(t) /\ ~Active(t)'
      BY <1>1 DEF Stops, Active
    <2>2. UNCHANGED <<legacy, store, entry, link, pointer>>
      BY <1>1 DEF Stops
    <2>3. Foundation => Foundation'
      BY <2>2, IntactSame, FoundationKept
    <2> QED
      BY <1>a, <2>1, <2>3, QuietBy
  <1>2. ASSUME NEW t \in Trainers, Begin(t) PROVE Quiet'
    <2>1. Others(t) /\ (Calm' => \A u \in Trainers \ {t} : ~Active(u))
      BY <1>2, BeginIs DEF Calm, Active
    <2>2. Before => Foundation' /\ Course(t)'
      BY <1>2, BeginQuiet
    <2>3. Calm' /\ Foundation => Foundation' /\ Course(t)'
      BY <1>a, <1>b, <2>2
    <2> QED
      BY <1>2, <1>a, <2>1, <2>3, BeginIs, QuietBy
  <1>3. ASSUME NEW t \in Trainers, Moved(t) \/ Resolve(t) \/ Sign(t) \/ Take(t) PROVE Quiet'
    <2>1. Others(t) /\ Active(t)
      BY <1>3, MovedIs, ResolveIs, SignIs, TakeIs DEF Onward, Active, At, Ended
    <2>2. Before /\ Course(t) => Foundation' /\ Course(t)'
      BY <1>3, MovedQuiet, ResolveQuiet, SignQuiet, OnQuiet
    <2> QED
      BY <1>c, <2>1, <2>2
  <1>4. ASSUME NEW t \in Trainers, At(t, "publish"), Publishes(t) PROVE Quiet'
    <2>1. Others(t) /\ Active(t)
      BY <1>4 DEF Publishes, Onward, Active, At, Ended
    <2>2. Before /\ Course(t) => Foundation' /\ Course(t)'
      BY <1>4, OnQuiet
    <2> QED
      BY <1>c, <2>1, <2>2
  <1>5. ASSUME NEW t \in Trainers, Link(t) \/ Commit(t) PROVE Quiet'
    <2>1. Others(t) /\ Active(t)
      BY <1>5, LinkIs, CommitIs DEF Onward, Active, At, Ended
    <2>2. Before /\ Course(t) => Foundation' /\ Course(t)'
      BY <1>5, LinkQuiet, CommitQuiet
    <2> QED
      BY <1>c, <2>1, <2>2
  <1>6. ASSUME NEW t \in Trainers, Retain(t), ~Stops(t) PROVE Quiet'
    <2>1. Others(t) /\ Active(t)
      BY <1>6, RetainIs DEF Onward, Active, At, Ended
    <2>2. Before /\ Course(t) => Foundation' /\ Course(t)'
      BY <1>6, RetainQuiet
    <2> QED
      BY <1>c, <2>1, <2>2
  <1>7. ASSUME NEW t \in Trainers, NEW whole \in BOOLEAN, Plan(t, whole) PROVE Quiet'
    <2>1. Others(t) /\ Active(t)
      BY <1>7, PlanIs DEF PlansRepair, PlansVersion, Active, At, Ended
    <2>2. Before /\ Course(t) => Foundation' /\ Course(t)'
      BY <1>7, PlanQuiet
    <2> QED
      BY <1>c, <2>1, <2>2
  <1>8. ASSUME NEW t \in Trainers, NEW c \in Contexts,
               Move(t, c) \/ Trains(t, c) \/ Carry(t, c) \/ Route(t, c) \/ Unroute(t, c)
        PROVE  Quiet'
    <2>1. Others(t) /\ Active(t)
      BY <1>8, MoveIs, TrainIs, CarryIs, RouteIs, UnrouteIs DEF Onward, Active, At, Ended
    <2>2. Before /\ Course(t) => Foundation' /\ Course(t)'
      BY <1>8, MoveQuiet, BuildQuiet, RouteQuiet
    <2> QED
      BY <1>c, <2>1, <2>2
  <1>9. ASSUME NEW t \in Trainers, NEW v \in Versions, Prune(t, v) PROVE Quiet'
    <2>1. Active(t) /\ Others(t)
      <3>1. proc \in [Trainers -> Trainer]
        BY DEF VTypes, Shapes
      <3> QED
        BY <1>9, <3>1, PruneIs DEF Thins, Skips, Drops, Onward, Others, Active, At, Ended
    <2>2. Before /\ Course(t) => Foundation' /\ Course(t)'
      BY <1>9, PruneQuiet
    <2> QED
      BY <1>c, <2>1, <2>2
  <1>10. ASSUME NEW c \in Contexts, Edit(c) PROVE Quiet'
    BY <1>10, <1>a, EditIs, StillQuiet
  <1>11. ASSUME NEW v \in Versions, Damage(v) PROVE Quiet'
    BY <1>11, <1>a, DamageIs, StillQuiet DEF Elsewhere
  <1>12. CASE UNCHANGED <<setting, source, legacy, store, entry, link, pointer, strays, lock,
                          proc, minted, past>>
    BY <1>12, <1>a, StillQuiet
  <1> QED
    BY <1>1, <1>2, <1>3, <1>4, <1>5, <1>6, <1>7, <1>8, <1>9, <1>10, <1>11, <1>12, StepCases,
       Zenon

LEMMA QuietInit == VersionsInit => Alone /\ Readers /\ Noted /\ Quiet
  <1> SUFFICES ASSUME VersionsInit PROVE Alone /\ Readers /\ Noted /\ Quiet
    OBVIOUS
  <1>1. Absent.previous = 0 /\ Idle.step = "off"
    BY DEF Absent, Idle
  <1>2. /\ \A v \in Versions : store[v].previous = 0
        /\ \A t \in Trainers : proc[t].step = "off"
        /\ \A c \in Contexts : entry[c] = 0
        /\ pointer = 0 /\ link = 0 /\ past = {}
    BY <1>1 DEF VersionsInit
  <1> QED
    BY <1>2 DEF Alone, Calm, Active, Ended, Readers, ReadersAt, At, Noted, Quiet, Foundation,
               Sound, Base, Serving

(* Nothing that the versions rest on is lost until two runs overlap.        *)
Standing == VTypes /\ Apart /\ Alone /\ Readers /\ Noted /\ Quiet

LEMMA VersionsStand == VersionsSpec => []Standing
  <1>1. VersionsInit => Standing
    BY VTypesInit, WorkInit, QuietInit DEF Standing
  <1>2. Standing /\ [VersionsNext]_versionVars => Standing'
    BY VTypesStep, ApartStep, AloneStep, ReadersStep, NotedStep, QuietStep DEF Standing
  <1> QED
    BY <1>1, <1>2, PTL DEF VersionsSpec

(* The version that the published one replaced is whole while no two runs   *)
(* overlap: killed and failed runs, edits, damaged manifests and retention  *)
(* leave a version to go back to.                                           *)
THEOREM RecoveryPointKept == VersionsSpec => []RecoveryPointStands
  <1>1. Standing => RecoveryPointStands
    <2> SUFFICES ASSUME Standing, Calm, pointer # 0, store[pointer].previous # 0
                 PROVE  /\ store[store[pointer].previous].there
                        /\ DOMAIN store[store[pointer].previous].sig \subseteq
                               DOMAIN store[store[pointer].previous].models
      BY DEF RecoveryPointStands
    <2> QED
      BY DEF Standing, Quiet, Foundation, Base, Sound, Whole
  <1> QED
    BY <1>1, VersionsStand, PTL

(* A context once served is served on, by whichever version.                *)
LEMMA ServedOn ==
    ASSUME Standing, [VersionsNext]_versionVars, Calm', NEW c \in Contexts, entry[c] # 0
    PROVE  entry'[c] # 0
  <1>0. VTypes /\ Alone /\ Calm /\ entry \in [Contexts -> 0..minted]
    BY SoleBefore DEF Standing, VTypes, Shapes
  <1>1. ASSUME NEW t \in Trainers, NEW d \in Contexts, Route(t, d) PROVE entry'[c] # 0
    <2>1. entry' = [entry EXCEPT ![d] = proc[t].v] /\ proc[t].v \in Versions
      BY <1>0, <1>1, RouteIs, AtVersion DEF At, Publishing
    <2> QED
      BY <1>0, <2>1, LeadsToVersion
  <1>2. ASSUME NEW t \in Trainers, NEW d \in Contexts, Unroute(t, d) PROVE FALSE
    <2>1. At(t, "unroute") /\ d \in proc[t].todo
      BY <1>0, <1>2, UnrouteIs
    <2>2. Active(t)
      BY <2>1 DEF Active, At, Ended
    <2>3. Delivers(t)
      BY <1>0, <2>2 DEF Standing, Quiet, Course
    <2> QED
      BY <2>1, <2>3 DEF Delivers
  <1>3. ASSUME NEW t \in Trainers,
               Stops(t) \/ Begin(t) \/ Moved(t) \/ Resolve(t) \/ Sign(t) \/ Take(t)
               \/ Publishes(t) \/ Link(t) \/ Commit(t) \/ Retain(t)
        PROVE  entry' = entry
    BY <1>3 DEF Stops, Begin, Moved, Resolve, Sign, Take, Publishes, Link, Commit, Retain, disk
  <1>4. ASSUME NEW t \in Trainers, NEW whole \in BOOLEAN, Plan(t, whole) PROVE entry' = entry
    BY <1>0, <1>4, PlanIs
  <1>5. ASSUME NEW t \in Trainers, NEW d \in Contexts, Move(t, d) \/ Trains(t, d) \/ Carry(t, d)
        PROVE  entry' = entry
    BY <1>5 DEF Move, Trains, TrainBegins, TrainEnds, Carry
  <1>6. ASSUME NEW t \in Trainers, NEW v \in Versions, Prune(t, v) PROVE entry' = entry
    BY <1>6 DEF Prune
  <1>7. ASSUME NEW d \in Contexts, Edit(d) PROVE entry' = entry
    BY <1>0, <1>7, EditIs
  <1>8. ASSUME NEW v \in Versions, Damage(v) PROVE entry' = entry
    BY <1>8 DEF Damage
  <1>9. entry' = entry \/ entry'[c] # 0
    BY <1>0, <1>1, <1>2, <1>3, <1>4, <1>5, <1>6, <1>7, <1>8, StepCases, Zenon
  <1> QED
    BY <1>9

(* No run that may overlap another finds models of the unversioned layout.  *)
MigratesAlone == \A w \in Settings : w.together => w.legacy = {}

(* A migration publishes without the lock: beside an overlapping run it can *)
(* route readers to what is being removed. Where no setting has both, a     *)
(* reader's entry never dangles; and until two runs overlap it leads to all *)
(* the artifacts of its context, and contexts that are served stay so.      *)
THEOREM ReadersAreServed ==
    ASSUME MigratesAlone
    PROVE  VersionsSpec => ReadersKeepTheirModels
  <1> DEFINE Good(c) == /\ entry'[c] # 0 => c \in Folders(entry[c])'
                        /\ Calm' /\ entry'[c] # 0 => Served(c)'
                        /\ Calm' /\ Served(c) => Served(c)'
  <1>1. Standing /\ Standing' /\ [VersionsNext]_versionVars =>
            [\A c \in Contexts : Good(c)]_versionVars
    <2> SUFFICES ASSUME Standing, Standing', [VersionsNext]_versionVars, NEW c \in Contexts
                 PROVE  Good(c)
      OBVIOUS
    <2>1. Sole'
      BY DEF Standing, VTypes, Shapes, Sole, MigratesAlone
    <2>2. entry'[c] # 0 => c \in Folders(entry[c])'
      BY <2>1 DEF Standing, Readers
    <2>3. Calm' /\ entry'[c] # 0 => Served(c)'
      BY DEF Standing, Quiet, Foundation, Serving
    <2>4. Calm' /\ Served(c) => entry'[c] # 0
      BY ServedOn DEF Served
    <2> QED
      BY <2>2, <2>3, <2>4
  <1> QED
    BY <1>1, VersionsStand, PTL DEF VersionsSpec, ReadersKeepTheirModels
=============================================================================
