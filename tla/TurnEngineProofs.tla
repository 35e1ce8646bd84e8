-------------------------- MODULE TurnEngineProofs --------------------------
(***************************************************************************)
(* Proofs about the turn engine and the stream of a turn.  First           *)
(* TurnRegistry, for every set of channels, keys and clients: type         *)
(* correctness, single flight, the discipline of the runtime lock and the  *)
(* wait for one's own submission, from one inductive invariant; that the   *)
(* finished turns it still holds are the newest ones, no more than the     *)
(* retention it is given; and that every step of the engine is a step of   *)
(* TurnService or a stutter.  Then TurnStream, for any number of turns and *)
(* events: a body that is read to its end is whole.                        *)
(***************************************************************************)
EXTENDS TurnRegistry, TurnStream, FiniteSetTheorems, WellFoundedInduction, TLAPS

(* An execution that was minted has a request, whose channel is the one a  *)
(* pointer to it belongs to, and which is the one of whoever waits for it. *)
Minted ==
    /\ \A k \in Keys : exec[k].state # "unminted" => exec[k].req \in Request
    /\ \A k \in byKey \cup aliases : exec[k].state # "unminted"
    /\ \A ch \in Channels : active[ch] # NoKey =>
          /\ exec[active[ch]].state # "unminted"
          /\ exec[active[ch]].req.channel = ch
    /\ \A c \in Clients : client[c].pc = "waiting" =>
          /\ client[c].key \in Keys
          /\ exec[client[c].key].state # "unminted"
          /\ exec[client[c].key].req = client[c].req
    /\ \A c \in Clients : client[c].pc # "waiting" =>
          client[c].key = NoKey /\ client[c].req = NoRequest

(* A runtime lock is queued for by live turns of its own channel and by    *)
(* requests in a locking endpoint, each once.                              *)
QueueMembers ==
    \A ch \in Channels : \A i \in DOMAIN lockQueue[ch] :
        \/ /\ lockQueue[ch][i] \in Keys
           /\ Live(lockQueue[ch][i])
           /\ exec[lockQueue[ch][i]].req.channel = ch
        \/ /\ lockQueue[ch][i] \in Clients
           /\ client[lockQueue[ch][i]].pc \in {"rotating", "cancelling"}

QueuedOnce ==
    \A ch, dh \in Channels :
        \A i \in DOMAIN lockQueue[ch], j \in DOMAIN lockQueue[dh] :
            lockQueue[ch][i] = lockQueue[dh][j] => ch = dh /\ i = j

IInv == /\ TypeOK
        /\ Minted
        /\ SingleFlight
        /\ QueueMembers
        /\ QueuedOnce
        /\ LockDiscipline

-----------------------------------------------------------------------------
(* A channel the registry calls free has no live execution; a busy one has *)
(* exactly the one its pointer names.                                      *)
LEMMA FreeChannel ==
    ASSUME TypeOK, SingleFlight, Minted, NEW ch \in Channels, ~HasActive(ch)
    PROVE  \A k \in Keys : Live(k) => exec[k].req.channel # ch
  BY NamesAssumption DEF TypeOK, SingleFlight, Minted, HasActive, ActiveExecution,
     Live, Terminal, Execution, Request

LEMMA BusyChannel ==
    ASSUME TypeOK, NEW ch \in Channels, HasActive(ch)
    PROVE  /\ ActiveExecution(ch) = active[ch]
           /\ active[ch] \in Keys
           /\ active[ch] \in byKey
           /\ exec[active[ch]].state # "done"
  BY NamesAssumption DEF TypeOK, HasActive, ActiveExecution, Terminal

LEMMA InitEstablishes == Init => IInv
  <1> SUFFICES ASSUME Init PROVE IInv
    OBVIOUS
  <1>1. \A k \in Keys : exec[k].state = "unminted" /\ ~Live(k)
    BY DEF Init, Live
  <1>2. \A ch \in Channels : lockQueue[ch] = <<>> /\ DOMAIN lockQueue[ch] = {}
    BY DEF Init
  <1>3. TypeOK
    <2>1. exec \in [Keys -> Execution]
      BY DEF Init, Execution
    <2>2. lockQueue \in [Channels -> Seq(Keys \cup Clients)]
      BY DEF Init
    <2>3. client \in [Clients -> Client]
      BY DEF Init, Client, IdleClient
    <2>4. active \in [Channels -> Keys \cup {NoKey}]
      BY DEF Init
    <2>5. byKey \subseteq Keys /\ aliases \subseteq Keys
      BY DEF Init
    <2>6. admissionClosed \in BOOLEAN
      BY Zenon DEF Init
    <2>7. clock \in Nat /\ expiredUpTo \in Nat /\ expiredUpTo <= clock
      BY DEF Init
    <2> QED
      BY <2>1, <2>2, <2>3, <2>4, <2>5, <2>6, <2>7 DEF TypeOK
  <1>4. Minted
    BY <1>1 DEF Init, Minted, IdleClient
  <1>5. SingleFlight
    BY <1>1 DEF SingleFlight
  <1>6. QueueMembers /\ QueuedOnce
    BY <1>2 DEF QueueMembers, QueuedOnce
  <1>7. LockDiscipline
    BY <1>1, <1>2 DEF LockDiscipline
  <1> QED
    BY <1>3, <1>4, <1>5, <1>6, <1>7 DEF IInv

(* Rejoining an execution only makes the client wait for it. *)
LEMMA JoinKeeps ==
    ASSUME IInv, NEW c \in Clients, NEW r \in Request, Join(c, r)
    PROVE  IInv'
  <1> DEFINE k == active[r.channel]
  <1>1. r.channel \in Channels
    BY DEF Request
  <1>2. k \in Keys /\ k \in byKey /\ ActiveExecution(r.channel) = k
    BY <1>1, BusyChannel DEF IInv, Join
  <1>3. exec[k].req = r /\ exec[k].state # "unminted"
    BY <1>2 DEF IInv, Minted, Join
  <1>4. /\ client' = [client EXCEPT ![c] = [pc |-> "waiting", req |-> r,
                                             key |-> k]]
        /\ UNCHANGED <<exec, byKey, active, aliases, admissionClosed,
                       lockQueue, clock, expiredUpTo>>
        /\ client[c].pc = "idle"
    BY <1>2 DEF Join, WaitsFor, registryVars, Idle
  <1>5. TypeOK'
    <2>1. client' \in [Clients -> Client]
      BY <1>2, <1>4 DEF IInv, TypeOK, Client
    <2> QED
      BY <2>1, <1>4 DEF IInv, TypeOK
  <1>6. Minted'
    BY <1>2, <1>3, <1>4 DEF IInv, TypeOK, Minted, Client
  <1>7. SingleFlight'
    BY <1>4 DEF IInv, SingleFlight, Live
  <1>8. QueueMembers'
    BY <1>4 DEF IInv, TypeOK, QueueMembers, Live, Client
  <1>9. QueuedOnce'
    BY <1>4 DEF IInv, QueuedOnce
  <1>10. LockDiscipline'
    BY <1>4 DEF IInv, TypeOK, LockDiscipline, Holds, Client
  <1> QED
    BY <1>5, <1>6, <1>7, <1>8, <1>9, <1>10 DEF IInv

LEMMA AcceptKeeps ==
    ASSUME IInv, NEW c \in Clients, NEW r \in Request, NEW k \in Keys,
           Accept(c, r, k)
    PROVE  IInv'
  <1>1. r.channel \in Channels
    BY DEF Request
  <1>2. /\ client' = [client EXCEPT ![c] = [pc |-> "waiting", req |-> r,
                                             key |-> k]]
        /\ exec' = [exec EXCEPT ![k] = [state |-> "queued", req |-> r,
                                        logical |-> FALSE, fin |-> 0]]
        /\ byKey' = byKey \cup {k}
        /\ active' = [active EXCEPT ![r.channel] = k]
        /\ UNCHANGED <<aliases, admissionClosed, lockQueue, clock, expiredUpTo>>
        /\ client[c].pc = "idle"
        /\ exec[k].state = "unminted"
    BY DEF Accept, WaitsFor, Idle
  <1>3. \A l \in Keys : Live(l) => exec[l].req.channel # r.channel
    BY <1>1, FreeChannel DEF IInv, Accept
  <1>4. TypeOK'
    <2>1. client' \in [Clients -> Client]
      BY <1>2 DEF IInv, TypeOK, Client
    <2>2. exec' \in [Keys -> Execution]
      BY <1>2 DEF IInv, TypeOK, Execution
    <2>3. active' \in [Channels -> Keys \cup {NoKey}]
      BY <1>1, <1>2 DEF IInv, TypeOK
    <2> QED
      BY <2>1, <2>2, <2>3, <1>2 DEF IInv, TypeOK
  <1>5. \A l \in Keys : l # k => exec'[l] = exec[l]
    BY <1>2 DEF IInv, TypeOK
  <1>6. /\ exec'[k].state = "queued" /\ exec'[k].req = r
        /\ ~Live(k)
    BY <1>2 DEF IInv, TypeOK, Live
  <1>7. Minted'
    BY <1>2, <1>5, <1>6 DEF IInv, TypeOK, Minted, Client
  <1>8. SingleFlight'
    <2> SUFFICES ASSUME NEW l \in Keys, Live(l)'
                 PROVE  active'[exec'[l].req.channel] = l /\ l \in byKey'
      BY DEF SingleFlight
    <2>1. CASE l = k
      BY <2>1, <1>1, <1>2, <1>6 DEF IInv, TypeOK
    <2>2. CASE l # k
      <3>1. Live(l) /\ exec'[l] = exec[l]
        BY <2>2, <1>5 DEF Live
      <3>2. active[exec[l].req.channel] = l /\ l \in byKey
        BY <3>1 DEF IInv, SingleFlight
      <3>3. exec[l].req \in Request /\ exec[l].req.channel # r.channel
        BY <3>1, <1>3 DEF IInv, Minted, Live
      <3> QED
        BY <3>1, <3>2, <3>3, <1>1, <1>2 DEF IInv, TypeOK, Request
    <2> QED
      BY <2>1, <2>2
  <1>9. QueueMembers'
    <2> SUFFICES ASSUME NEW ch \in Channels, NEW i \in DOMAIN lockQueue[ch]
                 PROVE \/ /\ lockQueue[ch][i] \in Keys
                          /\ Live(lockQueue[ch][i])'
                          /\ exec'[lockQueue[ch][i]].req.channel = ch
                       \/ /\ lockQueue[ch][i] \in Clients
                          /\ client'[lockQueue[ch][i]].pc
                                \in {"rotating", "cancelling"}
      BY <1>2 DEF QueueMembers, Live
    <2>1. CASE /\ lockQueue[ch][i] \in Keys
               /\ Live(lockQueue[ch][i])
               /\ exec[lockQueue[ch][i]].req.channel = ch
      BY <2>1, <1>2, <1>5, <1>6 DEF Live
    <2>2. CASE /\ lockQueue[ch][i] \in Clients
               /\ client[lockQueue[ch][i]].pc \in {"rotating", "cancelling"}
      BY <2>2, <1>2 DEF IInv, TypeOK
    <2>3. \/ /\ lockQueue[ch][i] \in Keys
             /\ Live(lockQueue[ch][i])
             /\ exec[lockQueue[ch][i]].req.channel = ch
          \/ /\ lockQueue[ch][i] \in Clients
             /\ client[lockQueue[ch][i]].pc \in {"rotating", "cancelling"}
      BY DEF IInv, QueueMembers
    <2> QED
      BY <2>1, <2>2, <2>3
  <1>10. QueuedOnce'
    BY <1>2 DEF IInv, QueuedOnce
  <1>11. LockDiscipline'
    BY <1>2, <1>5, <1>6 DEF IInv, TypeOK, LockDiscipline, Holds, Client
  <1> QED
    BY <1>4, <1>7, <1>8, <1>9, <1>10, <1>11 DEF IInv

LEMMA LaunchFailsKeeps ==
    ASSUME IInv, NEW c \in Clients, NEW r \in Request, LaunchFails(c, r)
    PROVE  IInv'
  <1>1. r.channel \in Channels
    BY DEF Request
  <1>2. /\ active' = [active EXCEPT ![r.channel] = NoKey]
        /\ UNCHANGED <<exec, byKey, aliases, admissionClosed, lockQueue,
                       client, clock, expiredUpTo>>
    BY DEF LaunchFails
  <1>3. \A l \in Keys : Live(l) => exec[l].req.channel # r.channel
    BY <1>1, FreeChannel DEF IInv, LaunchFails
  <1>4. TypeOK'
    <2>1. active' \in [Channels -> Keys \cup {NoKey}]
      BY <1>1, <1>2 DEF IInv, TypeOK
    <2> QED
      BY <2>1, <1>2 DEF IInv, TypeOK
  <1>5. Minted'
    BY <1>2 DEF IInv, Minted
  <1>6. SingleFlight'
    BY <1>1, <1>2, <1>3 DEF IInv, TypeOK, Minted, SingleFlight, Live, Request
  <1>7. QueueMembers' /\ QueuedOnce'
    BY <1>2 DEF IInv, QueueMembers, QueuedOnce, Live
  <1>8. LockDiscipline'
    BY <1>2 DEF IInv, LockDiscipline, Holds
  <1> QED
    BY <1>4, <1>5, <1>6, <1>7, <1>8 DEF IInv

(* Steps that leave the executions, the registry and the locks alone: time *)
(* passing, admission closing, an alias forgotten.                         *)
LEMMA BackgroundKeeps ==
    ASSUME IInv,
           CloseAdmission \/ Elapse \/ (\E k \in Keys : ForgetAlias(k))
    PROVE  IInv'
  <1>1. /\ UNCHANGED <<exec, byKey, active, lockQueue, client, clock>>
        /\ aliases' \subseteq aliases
        /\ admissionClosed' \in BOOLEAN
        /\ expiredUpTo' \in Nat /\ expiredUpTo' <= clock
    <2>1. CASE CloseAdmission
      BY <2>1 DEF CloseAdmission, IInv, TypeOK
    <2>2. CASE Elapse
      <3>1. expiredUpTo' \in Nat /\ expiredUpTo' <= clock
        BY <2>2 DEF Elapse, IInv, TypeOK
      <3> QED
        BY <2>2, <3>1 DEF Elapse, IInv, TypeOK, registryVars
    <2>3. CASE \E k \in Keys : ForgetAlias(k)
      BY <2>3 DEF ForgetAlias, IInv, TypeOK
    <2> QED
      BY <2>1, <2>2, <2>3
  <1>2. TypeOK'
    BY <1>1 DEF IInv, TypeOK
  <1>3. Minted'
    BY <1>1 DEF IInv, Minted
  <1>4. SingleFlight' /\ QueueMembers' /\ QueuedOnce'
    BY <1>1 DEF IInv, SingleFlight, QueueMembers, QueuedOnce, Live
  <1>5. LockDiscipline'
    BY <1>1 DEF IInv, LockDiscipline, Holds
  <1> QED
    BY <1>2, <1>3, <1>4, <1>5 DEF IInv

(* A request that stops waiting, answered or deferred, changes nothing but *)
(* itself; it was in no lock's queue.                                      *)
LEMMA WaitStepKeeps ==
    ASSUME IInv, NEW c \in Clients, WaitStep(c)
    PROVE  IInv'
  <1>1. /\ client' = [client EXCEPT ![c] = IdleClient]
        /\ client[c].pc = "waiting"
        /\ UNCHANGED <<exec, byKey, active, aliases, admissionClosed,
                       lockQueue, clock, expiredUpTo>>
    BY DEF WaitStep, AnswerDone, Defer, Answered, registryVars
  <1>2. TypeOK'
    <2>1. client' \in [Clients -> Client]
      BY <1>1 DEF IInv, TypeOK, Client, IdleClient
    <2> QED
      BY <2>1, <1>1 DEF IInv, TypeOK
  <1>3. Minted'
    BY <1>1 DEF IInv, TypeOK, Minted, IdleClient
  <1>4. SingleFlight'
    BY <1>1 DEF IInv, SingleFlight, Live
  <1>5. QueueMembers'
    BY <1>1 DEF IInv, TypeOK, QueueMembers, Live
  <1>6. QueuedOnce'
    BY <1>1 DEF IInv, QueuedOnce
  <1>7. LockDiscipline'
    BY <1>1 DEF IInv, TypeOK, LockDiscipline, Holds, IdleClient
  <1> QED
    BY <1>2, <1>3, <1>4, <1>5, <1>6, <1>7 DEF IInv

-----------------------------------------------------------------------------
(* Queueing for a lock: one new place, behind all the others. *)
LEMMA Appended ==
    ASSUME NEW q \in Seq(Keys \cup Clients), NEW x \in Keys \cup Clients
    PROVE  /\ Append(q, x) \in Seq(Keys \cup Clients)
           /\ Append(q, x) # <<>>
           /\ DOMAIN Append(q, x) = 1 .. Len(q) + 1
           /\ DOMAIN q = 1 .. Len(q) /\ Len(q) \in Nat
           /\ \A i \in 1 .. Len(q) : Append(q, x)[i] = q[i]
           /\ Append(q, x)[Len(q) + 1] = x
           /\ q # <<>> => Head(Append(q, x)) = Head(q)
           /\ q = <<>> => Head(Append(q, x)) = x
  OBVIOUS

LEMMA HeadLeft ==
    ASSUME NEW q \in Seq(Keys \cup Clients), q # <<>>
    PROVE  /\ Tail(q) \in Seq(Keys \cup Clients)
           /\ DOMAIN q = 1 .. Len(q) /\ Len(q) \in Nat \ {0}
           /\ DOMAIN Tail(q) = 1 .. Len(q) - 1
           /\ \A i \in 1 .. Len(q) - 1 : Tail(q)[i] = q[i + 1]
           /\ Head(q) = q[1]
  OBVIOUS

LEMMA Enqueued ==
    ASSUME TypeOK, NEW ch \in Channels, NEW x \in Keys \cup Clients,
           lockQueue' = [lockQueue EXCEPT ![ch] = Append(@, x)]
    PROVE  /\ lockQueue' \in [Channels -> Seq(Keys \cup Clients)]
           /\ \A dh \in Channels : \A i \in DOMAIN lockQueue'[dh] :
                \/ /\ i \in DOMAIN lockQueue[dh]
                   /\ lockQueue'[dh][i] = lockQueue[dh][i]
                \/ /\ dh = ch /\ i = Len(lockQueue[ch]) + 1
                   /\ lockQueue'[dh][i] = x
                   /\ \A j \in DOMAIN lockQueue[dh] : j < i
           /\ \A dh \in Channels, y \in Keys : Holds(y, dh) => Holds(y, dh)'
           /\ lockQueue[ch] = <<>> => Holds(x, ch)'
  <1>1. /\ lockQueue[ch] \in Seq(Keys \cup Clients)
        /\ lockQueue'[ch] = Append(lockQueue[ch], x)
        /\ \A dh \in Channels : dh # ch => lockQueue'[dh] = lockQueue[dh]
    BY DEF TypeOK
  <1>2. /\ Append(lockQueue[ch], x) \in Seq(Keys \cup Clients)
        /\ Append(lockQueue[ch], x) # <<>>
        /\ DOMAIN Append(lockQueue[ch], x) = 1 .. Len(lockQueue[ch]) + 1
        /\ DOMAIN lockQueue[ch] = 1 .. Len(lockQueue[ch])
        /\ Len(lockQueue[ch]) \in Nat
        /\ \A i \in 1 .. Len(lockQueue[ch]) :
              Append(lockQueue[ch], x)[i] = lockQueue[ch][i]
        /\ Append(lockQueue[ch], x)[Len(lockQueue[ch]) + 1] = x
        /\ lockQueue[ch] # <<>> =>
              Head(Append(lockQueue[ch], x)) = Head(lockQueue[ch])
        /\ lockQueue[ch] = <<>> => Head(Append(lockQueue[ch], x)) = x
    BY <1>1, Appended
  <1>3. lockQueue' \in [Channels -> Seq(Keys \cup Clients)]
    BY <1>1, <1>2 DEF TypeOK
  <1>4. ASSUME NEW i \in DOMAIN lockQueue'[ch]
        PROVE \/ /\ i \in DOMAIN lockQueue[ch]
                 /\ lockQueue'[ch][i] = lockQueue[ch][i]
              \/ /\ i = Len(lockQueue[ch]) + 1
                 /\ lockQueue'[ch][i] = x
                 /\ \A j \in DOMAIN lockQueue[ch] : j < i
    <2>1. i \in 1 .. Len(lockQueue[ch]) \/ i = Len(lockQueue[ch]) + 1
      BY <1>1, <1>2
    <2>2. CASE i \in 1 .. Len(lockQueue[ch])
      BY <2>2, <1>1, <1>2
    <2>3. CASE i = Len(lockQueue[ch]) + 1
      <3>1. \A j \in DOMAIN lockQueue[ch] : j < i
        BY <2>3, <1>2
      <3> QED
        BY <3>1, <2>3, <1>1, <1>2
    <2> QED
      BY <2>1, <2>2, <2>3
  <1>5. \A dh \in Channels, y \in Keys : Holds(y, dh) => Holds(y, dh)'
    BY <1>1, <1>2, Zenon DEF Holds
  <1>6. lockQueue[ch] = <<>> => Holds(x, ch)'
    BY <1>1, <1>2, Zenon DEF Holds
  <1> QED
    BY <1>1, <1>3, <1>4, <1>5, <1>6, Zenon

(* Leaving a lock: the others move up one place, in order. *)
LEMMA Dequeued ==
    ASSUME TypeOK, NEW ch \in Channels, lockQueue[ch] # <<>>,
           lockQueue' = [lockQueue EXCEPT ![ch] = Tail(@)]
    PROVE  /\ lockQueue' \in [Channels -> Seq(Keys \cup Clients)]
           /\ \A i \in DOMAIN lockQueue'[ch] :
                /\ i \in Nat /\ i # 0 /\ i + 1 \in DOMAIN lockQueue[ch]
                /\ lockQueue'[ch][i] = lockQueue[ch][i + 1]
           /\ \A dh \in Channels : dh # ch => lockQueue'[dh] = lockQueue[dh]
           /\ 1 \in DOMAIN lockQueue[ch] /\ Head(lockQueue[ch]) = lockQueue[ch][1]
  <1>1. /\ lockQueue[ch] \in Seq(Keys \cup Clients)
        /\ lockQueue'[ch] = Tail(lockQueue[ch])
        /\ \A dh \in Channels : dh # ch => lockQueue'[dh] = lockQueue[dh]
    BY DEF TypeOK
  <1>2. /\ Tail(lockQueue[ch]) \in Seq(Keys \cup Clients)
        /\ DOMAIN lockQueue[ch] = 1 .. Len(lockQueue[ch])
        /\ Len(lockQueue[ch]) \in Nat \ {0}
        /\ DOMAIN Tail(lockQueue[ch]) = 1 .. Len(lockQueue[ch]) - 1
        /\ \A i \in 1 .. Len(lockQueue[ch]) - 1 :
              Tail(lockQueue[ch])[i] = lockQueue[ch][i + 1]
        /\ Head(lockQueue[ch]) = lockQueue[ch][1]
    BY <1>1, HeadLeft
  <1>3. lockQueue' \in [Channels -> Seq(Keys \cup Clients)]
    BY <1>1, <1>2 DEF TypeOK
  <1>4. \A i \in DOMAIN lockQueue'[ch] :
                /\ i \in Nat /\ i # 0 /\ i + 1 \in DOMAIN lockQueue[ch]
                /\ lockQueue'[ch][i] = lockQueue[ch][i + 1]
    <2> SUFFICES ASSUME NEW i \in 1 .. Len(lockQueue[ch]) - 1
                 PROVE  /\ i \in Nat /\ i # 0 /\ i + 1 \in 1 .. Len(lockQueue[ch])
                        /\ Tail(lockQueue[ch])[i] = lockQueue[ch][i + 1]
      BY <1>1, <1>2
    <2>1. i \in Nat /\ i # 0 /\ i + 1 \in 1 .. Len(lockQueue[ch])
      BY <1>2
    <2> QED
      BY <2>1, <1>2
  <1> QED
    BY <1>1, <1>2, <1>3, <1>4

-----------------------------------------------------------------------------
(* The task takes the lock of its channel, or joins its queue. *)
LEMMA StartTaskKeeps ==
    ASSUME IInv, NEW k \in Keys, StartTask(k)
    PROVE  IInv'
  <1>1. /\ exec[k].state = "queued" /\ exec[k].req \in Request
        /\ exec[k].req.channel \in Channels
    BY DEF StartTask, IInv, Minted, Request
  <1>2. /\ k \notin Queued(exec[k].req.channel)
        /\ lockQueue' = [lockQueue EXCEPT ![exec[k].req.channel] = Append(@, k)]
        /\ exec' = IF lockQueue[exec[k].req.channel] = <<>>
                   THEN [exec EXCEPT ![k].state = "running"] ELSE exec
        /\ UNCHANGED <<byKey, active, aliases, admissionClosed, client, clock,
                       expiredUpTo>>
    BY DEF StartTask, registryVars
  <1>3. PICK ch \in Channels : ch = exec[k].req.channel
    BY <1>1
  <1>4. /\ lockQueue' \in [Channels -> Seq(Keys \cup Clients)]
        /\ \A dh \in Channels : \A i \in DOMAIN lockQueue'[dh] :
             \/ /\ i \in DOMAIN lockQueue[dh]
                /\ lockQueue'[dh][i] = lockQueue[dh][i]
             \/ /\ dh = ch /\ i = Len(lockQueue[ch]) + 1
                /\ lockQueue'[dh][i] = k
                /\ \A j \in DOMAIN lockQueue[dh] : j < i
        /\ \A dh \in Channels, y \in Keys : Holds(y, dh) => Holds(y, dh)'
        /\ lockQueue[ch] = <<>> => Holds(k, ch)'
    BY <1>2, <1>3, Enqueued DEF IInv
  <1>6. /\ exec' \in [Keys -> Execution]
        /\ \A l \in Keys :
              /\ exec'[l].req = exec[l].req
              /\ l # k => exec'[l] = exec[l]
              /\ Live(l) <=> exec'[l].state \in {"queued", "running"}
        /\ exec'[k].state = "running" => lockQueue[ch] = <<>>
    BY <1>1, <1>2, <1>3 DEF IInv, TypeOK, Execution, Live
  <1>7. TypeOK'
    BY <1>4, <1>2, <1>6 DEF IInv, TypeOK
  <1>8. Minted'
    BY <1>1, <1>2, <1>6 DEF IInv, TypeOK, Minted, Live
  <1>9. SingleFlight'
    <2> SUFFICES ASSUME NEW l \in Keys, exec'[l].state \in {"queued", "running"}
                 PROVE  active'[exec'[l].req.channel] = l /\ l \in byKey'
      BY DEF SingleFlight, Live
    <2>1. Live(l) /\ exec'[l].req = exec[l].req
      BY <1>6 DEF Live
    <2> QED
      BY <2>1, <1>2 DEF IInv, SingleFlight
  <1>10. \A dh \in Channels : \A i \in DOMAIN lockQueue[dh] : lockQueue[dh][i] # k
    BY <1>1, <1>2, <1>3, NamesAssumption DEF IInv, QueueMembers, Queued
  <1>11. QueueMembers'
    <2> SUFFICES ASSUME NEW dh \in Channels, NEW i \in DOMAIN lockQueue'[dh]
                 PROVE \/ /\ lockQueue'[dh][i] \in Keys
                          /\ exec'[lockQueue'[dh][i]].state \in {"queued", "running"}
                          /\ exec'[lockQueue'[dh][i]].req.channel = dh
                       \/ /\ lockQueue'[dh][i] \in Clients
                          /\ client[lockQueue'[dh][i]].pc
                                \in {"rotating", "cancelling"}
      BY <1>2 DEF QueueMembers, Live
    <2>1. CASE i \in DOMAIN lockQueue[dh] /\ lockQueue'[dh][i] = lockQueue[dh][i]
      BY <2>1, <1>6 DEF IInv, QueueMembers
    <2>2. CASE dh = ch /\ lockQueue'[dh][i] = k
      BY <2>2, <1>1, <1>3, <1>6 DEF Live
    <2> QED
      BY <2>1, <2>2, <1>4
  <1>12. QueuedOnce'
    <2> SUFFICES ASSUME NEW ah \in Channels, NEW dh \in Channels,
                        NEW i \in DOMAIN lockQueue'[ah],
                        NEW j \in DOMAIN lockQueue'[dh],
                        lockQueue'[ah][i] = lockQueue'[dh][j]
                 PROVE  ah = dh /\ i = j
      BY DEF QueuedOnce
    <2>1. \/ ah = ch /\ i = Len(lockQueue[ch]) + 1 /\ lockQueue'[ah][i] = k
          \/ i \in DOMAIN lockQueue[ah] /\ lockQueue'[ah][i] = lockQueue[ah][i]
      BY <1>4
    <2>2. \/ dh = ch /\ j = Len(lockQueue[ch]) + 1 /\ lockQueue'[dh][j] = k
          \/ j \in DOMAIN lockQueue[dh] /\ lockQueue'[dh][j] = lockQueue[dh][j]
      BY <1>4
    <2> QED
      BY <2>1, <2>2, <1>10 DEF IInv, QueuedOnce
  <1>13. LockDiscipline'
    <2>1. ASSUME NEW dh \in Channels, NEW l \in Keys,
                 exec'[l].state = "running", exec'[l].req.channel = dh
          PROVE  Holds(l, dh)'
      <3>1. CASE l = k
        BY <3>1, <2>1, <1>3, <1>4, <1>6
      <3>2. CASE l # k
        BY <3>2, <2>1, <1>4, <1>6 DEF IInv, LockDiscipline
      <3> QED
        BY <3>1, <3>2
    <2>2. ASSUME NEW dh \in Channels,
                 NEW i \in DOMAIN lockQueue'[dh], NEW j \in DOMAIN lockQueue'[dh],
                 lockQueue'[dh][i] \in Keys, lockQueue'[dh][j] \in Clients,
                 client[lockQueue'[dh][j]].pc = "rotating"
          PROVE  j < i
      <3>1. j \in DOMAIN lockQueue[dh] /\ lockQueue'[dh][j] = lockQueue[dh][j]
        BY <2>2, <1>4, NamesAssumption
      <3> QED
        BY <2>2, <3>1, <1>4 DEF IInv, LockDiscipline
    <2> QED
      BY <2>1, <2>2, <1>2 DEF LockDiscipline
  <1> QED
    BY <1>7, <1>8, <1>9, <1>11, <1>12, <1>13 DEF IInv

LEMMA GrantLockKeeps ==
    ASSUME IInv, NEW k \in Keys, GrantLock(k)
    PROVE  IInv'
  <1>1. /\ exec[k].state = "queued" /\ Holds(k, exec[k].req.channel)
        /\ exec' = [exec EXCEPT ![k].state = "running"]
        /\ UNCHANGED <<byKey, active, aliases, admissionClosed, lockQueue,
                       client, clock, expiredUpTo>>
    BY DEF GrantLock, registryVars
  <1>2. /\ exec' \in [Keys -> Execution]
        /\ \A l \in Keys :
              /\ exec'[l].req = exec[l].req
              /\ l # k => exec'[l] = exec[l]
              /\ Live(l) <=> exec'[l].state \in {"queued", "running"}
    BY <1>1 DEF IInv, TypeOK, Execution, Live
  <1>3. TypeOK'
    BY <1>1, <1>2 DEF IInv, TypeOK
  <1>4. Minted'
    BY <1>1, <1>2 DEF IInv, TypeOK, Minted, Live
  <1>5. SingleFlight'
    BY <1>1, <1>2 DEF IInv, SingleFlight, Live
  <1>6. QueueMembers' /\ QueuedOnce'
    BY <1>1, <1>2 DEF IInv, QueueMembers, QueuedOnce, Live
  <1>7. LockDiscipline'
    <2>1. ASSUME NEW dh \in Channels, NEW l \in Keys,
                 exec'[l].state = "running", exec'[l].req.channel = dh
          PROVE  Holds(l, dh)'
      BY <2>1, <1>1, <1>2 DEF IInv, LockDiscipline, Holds
    <2> QED
      BY <2>1, <1>1 DEF IInv, LockDiscipline
  <1> QED
    BY <1>3, <1>4, <1>5, <1>6, <1>7 DEF IInv

(* A request queues for a channel's lock.  It may rotate the conversation  *)
(* only if the channel is free, so no turn is in the queue before it.      *)
LEMMA EnqueueKeeps ==
    ASSUME IInv, NEW c \in Clients, NEW ch \in Channels,
           NEW doing \in {"rotating", "cancelling"},
           Idle(c), Enqueue(c, ch, doing), doing = "rotating" => ~HasActive(ch),
           UNCHANGED <<exec, byKey, active, aliases, admissionClosed, clock,
                       expiredUpTo>>
    PROVE  IInv'
  <1>1. /\ client' = [client EXCEPT ![c] = [pc |-> doing, req |-> NoRequest,
                                             key |-> NoKey]]
        /\ client[c].pc = "idle"
    BY DEF Enqueue, Idle
  <1>2. /\ lockQueue' \in [Channels -> Seq(Keys \cup Clients)]
        /\ \A dh \in Channels : \A i \in DOMAIN lockQueue'[dh] :
             \/ /\ i \in DOMAIN lockQueue[dh]
                /\ lockQueue'[dh][i] = lockQueue[dh][i]
             \/ /\ dh = ch /\ i = Len(lockQueue[ch]) + 1
                /\ lockQueue'[dh][i] = c
                /\ \A j \in DOMAIN lockQueue[dh] : j < i
        /\ \A dh \in Channels, y \in Keys : Holds(y, dh) => Holds(y, dh)'
    BY Enqueued DEF Enqueue, IInv
  <1>3. TypeOK'
    <2>1. client' \in [Clients -> Client]
      BY <1>1 DEF IInv, TypeOK, Client
    <2> QED
      BY <2>1, <1>2 DEF IInv, TypeOK
  <1>4. Minted'
    BY <1>1 DEF IInv, TypeOK, Minted
  <1>5. SingleFlight'
    BY DEF IInv, SingleFlight, Live
  <1>6. \A dh \in Channels : \A i \in DOMAIN lockQueue[dh] : lockQueue[dh][i] # c
    BY <1>1, NamesAssumption DEF IInv, QueueMembers
  <1>7. QueueMembers'
    <2> SUFFICES ASSUME NEW dh \in Channels, NEW i \in DOMAIN lockQueue'[dh]
                 PROVE \/ /\ lockQueue'[dh][i] \in Keys
                          /\ Live(lockQueue'[dh][i])
                          /\ exec[lockQueue'[dh][i]].req.channel = dh
                       \/ /\ lockQueue'[dh][i] \in Clients
                          /\ client'[lockQueue'[dh][i]].pc
                                \in {"rotating", "cancelling"}
      BY DEF QueueMembers, Live
    <2>1. CASE i \in DOMAIN lockQueue[dh] /\ lockQueue'[dh][i] = lockQueue[dh][i]
      BY <2>1, <1>1, <1>6 DEF IInv, TypeOK, QueueMembers
    <2>2. CASE lockQueue'[dh][i] = c
      BY <2>2, <1>1 DEF IInv, TypeOK
    <2> QED
      BY <2>1, <2>2, <1>2
  <1>8. QueuedOnce'
    <2> SUFFICES ASSUME NEW ah \in Channels, NEW dh \in Channels,
                        NEW i \in DOMAIN lockQueue'[ah],
                        NEW j \in DOMAIN lockQueue'[dh],
                        lockQueue'[ah][i] = lockQueue'[dh][j]
                 PROVE  ah = dh /\ i = j
      BY DEF QueuedOnce
    <2>1. \/ ah = ch /\ i = Len(lockQueue[ch]) + 1 /\ lockQueue'[ah][i] = c
          \/ i \in DOMAIN lockQueue[ah] /\ lockQueue'[ah][i] = lockQueue[ah][i]
      BY <1>2
    <2>2. \/ dh = ch /\ j = Len(lockQueue[ch]) + 1 /\ lockQueue'[dh][j] = c
          \/ j \in DOMAIN lockQueue[dh] /\ lockQueue'[dh][j] = lockQueue[dh][j]
      BY <1>2
    <2> QED
      BY <2>1, <2>2, <1>6 DEF IInv, QueuedOnce
  <1>9. LockDiscipline'
    <2>1. \A dh \in Channels, l \in Keys :
            exec[l].state = "running" /\ exec[l].req.channel = dh => Holds(l, dh)'
      BY <1>2 DEF IInv, LockDiscipline
    <2>2. ASSUME NEW dh \in Channels,
                 NEW i \in DOMAIN lockQueue'[dh], NEW j \in DOMAIN lockQueue'[dh],
                 lockQueue'[dh][i] \in Keys, lockQueue'[dh][j] \in Clients,
                 client'[lockQueue'[dh][j]].pc = "rotating"
          PROVE  j < i
      <3>1. i \in DOMAIN lockQueue[dh] /\ lockQueue'[dh][i] = lockQueue[dh][i]
        BY <2>2, <1>2, NamesAssumption
      <3>2. CASE j \in DOMAIN lockQueue[dh] /\ lockQueue'[dh][j] = lockQueue[dh][j]
        <4>1. client'[lockQueue'[dh][j]] = client[lockQueue[dh][j]]
          BY <3>2, <2>2, <1>1, <1>6 DEF IInv, TypeOK
        <4> QED
          BY <3>1, <3>2, <4>1, <2>2 DEF IInv, LockDiscipline
      <3>3. CASE dh = ch /\ lockQueue'[dh][j] = c
        <4>1. ~HasActive(ch)
          BY <3>3, <2>2, <1>1 DEF IInv, TypeOK
        <4>2. \A k \in Keys : Live(k) => exec[k].req.channel # ch
          BY <4>1, FreeChannel DEF IInv
        <4>3. Live(lockQueue[dh][i]) /\ exec[lockQueue[dh][i]].req.channel = dh
          BY <3>1, <2>2, NamesAssumption DEF IInv, QueueMembers
        <4> QED
          BY <4>2, <4>3, <3>1, <3>3, <2>2
      <3> QED
        BY <3>2, <3>3, <1>2
    <2> QED
      BY <2>1, <2>2 DEF LockDiscipline
  <1> QED
    BY <1>3, <1>4, <1>5, <1>7, <1>8, <1>9 DEF IInv

LEMMA RotateKeeps ==
    ASSUME IInv, NEW c \in Clients, NEW ch \in Channels, Rotate(c, ch)
    PROVE  IInv'
  <1>1. UNCHANGED <<exec, byKey, active, aliases, admissionClosed, clock,
                    expiredUpTo>>
    BY DEF Rotate, registryVars
  <1> QED
    BY <1>1, EnqueueKeeps DEF Rotate

LEMMA StutterKeeps == ASSUME IInv, UNCHANGED vars PROVE IInv'
  BY DEF vars, IInv, TypeOK, Minted, SingleFlight, QueueMembers, QueuedOnce,
     LockDiscipline, Live, Holds

LEMMA CancelKeeps ==
    ASSUME IInv, NEW c \in Clients, NEW ch \in Channels, Cancel(c, ch)
    PROVE  IInv'
  <1>1. UNCHANGED <<exec, byKey, active, aliases, admissionClosed, clock,
                    expiredUpTo>>
    BY DEF Cancel, registryVars
  <1>2. CASE lockQueue[ch] = <<>>
    BY <1>1, <1>2, StutterKeeps DEF Cancel, vars
  <1>3. CASE lockQueue[ch] # <<>>
    BY <1>1, <1>3, EnqueueKeeps DEF Cancel
  <1> QED
    BY <1>2, <1>3

Leaves(x, ch) == /\ Holds(x, ch)
                 /\ lockQueue' = [lockQueue EXCEPT ![ch] = Tail(@)]

(* Whoever leaves a lock was its holder, and is nowhere else in a queue. *)
LEMMA HolderLeaves ==
    ASSUME TypeOK, QueuedOnce, NEW ch \in Channels, NEW x \in Keys \cup Clients,
           Leaves(x, ch)
    PROVE  /\ lockQueue' \in [Channels -> Seq(Keys \cup Clients)]
           /\ \A dh \in Channels : \A i \in DOMAIN lockQueue'[dh] :
                /\ lockQueue'[dh][i] # x
                /\ dh = ch => /\ i \in Nat /\ i + 1 \in DOMAIN lockQueue[ch]
                              /\ lockQueue'[ch][i] = lockQueue[ch][i + 1]
           /\ \A dh \in Channels : dh # ch => lockQueue'[dh] = lockQueue[dh]
  <1>1. /\ lockQueue[ch] # <<>> /\ Head(lockQueue[ch]) = x
        /\ lockQueue' = [lockQueue EXCEPT ![ch] = Tail(@)]
    BY DEF Leaves, Holds
  <1>2. /\ lockQueue' \in [Channels -> Seq(Keys \cup Clients)]
        /\ \A i \in DOMAIN lockQueue'[ch] :
             /\ i \in Nat /\ i # 0 /\ i + 1 \in DOMAIN lockQueue[ch]
             /\ lockQueue'[ch][i] = lockQueue[ch][i + 1]
        /\ \A dh \in Channels : dh # ch => lockQueue'[dh] = lockQueue[dh]
        /\ 1 \in DOMAIN lockQueue[ch] /\ x = lockQueue[ch][1]
    BY <1>1, Dequeued
  <1>3. ASSUME NEW dh \in Channels, NEW i \in DOMAIN lockQueue'[dh]
        PROVE  lockQueue'[dh][i] # x
    <2>1. CASE dh = ch
      <3>1. i + 1 \in DOMAIN lockQueue[ch] /\ i + 1 # 1
        BY <2>1, <1>2
      <3> QED
        BY <2>1, <3>1, <1>2 DEF QueuedOnce
    <2>2. CASE dh # ch
      BY <2>2, <1>2 DEF QueuedOnce
    <2> QED
      BY <2>1, <2>2
  <1> QED
    BY <1>2, <1>3

(* Every place of a queue after a step that only removed a head is a place *)
(* before it, and the order is the same.                                   *)
LEMMA LeftInOrder ==
    ASSUME TypeOK, QueuedOnce, NEW ch \in Channels, NEW x \in Keys \cup Clients,
           Leaves(x, ch)
    PROVE  \A ah, dh \in Channels :
           \A i \in DOMAIN lockQueue'[ah], j \in DOMAIN lockQueue'[dh] :
           \E m \in DOMAIN lockQueue[ah], n \in DOMAIN lockQueue[dh] :
             /\ lockQueue'[ah][i] = lockQueue[ah][m]
             /\ lockQueue'[dh][j] = lockQueue[dh][n]
             /\ ah = dh => (m = n => i = j) /\ (n < m => j < i)
  <1> TAKE ah, dh \in Channels
  <1> TAKE i \in DOMAIN lockQueue'[ah], j \in DOMAIN lockQueue'[dh]
  <1>1. /\ \A eh \in Channels : \A l \in DOMAIN lockQueue'[eh] :
             /\ lockQueue'[eh][l] # x
             /\ eh = ch => /\ l \in Nat /\ l + 1 \in DOMAIN lockQueue[ch]
                           /\ lockQueue'[ch][l] = lockQueue[ch][l + 1]
        /\ \A eh \in Channels : eh # ch => lockQueue'[eh] = lockQueue[eh]
    BY HolderLeaves
  <1>2. CASE ah = ch /\ dh = ch
    <2>1. /\ i \in Nat /\ i + 1 \in DOMAIN lockQueue[ch]
          /\ j \in Nat /\ j + 1 \in DOMAIN lockQueue[ch]
          /\ lockQueue'[ah][i] = lockQueue[ah][i + 1]
          /\ lockQueue'[dh][j] = lockQueue[dh][j + 1]
      BY <1>1, <1>2
    <2>2. (i + 1 = j + 1 => i = j) /\ (j + 1 < i + 1 => j < i)
      BY <2>1
    <2> QED
      BY <1>2, <2>1, <2>2
  <1>3. CASE ah = ch /\ dh # ch
    BY <1>1, <1>3
  <1>4. CASE ah # ch /\ dh = ch
    BY <1>1, <1>4
  <1>5. CASE ah # ch /\ dh # ch
    BY <1>1, <1>5
  <1> QED
    BY <1>2, <1>3, <1>4, <1>5

LEMMA LeaveLockKeeps ==
    ASSUME IInv, NEW c \in Clients, NEW ch \in Channels, LeaveLock(c, ch)
    PROVE  IInv'
  <1>1. /\ client' = [client EXCEPT ![c] = IdleClient]
        /\ client[c].pc # "waiting"
        /\ Leaves(c, ch)
        /\ UNCHANGED <<exec, byKey, active, aliases, admissionClosed, clock,
                       expiredUpTo>>
    BY DEF LeaveLock, Leaves, Answered, registryVars
  <1>2. /\ lockQueue' \in [Channels -> Seq(Keys \cup Clients)]
        /\ \A dh \in Channels : \A i \in DOMAIN lockQueue'[dh] :
             /\ lockQueue'[dh][i] # c
             /\ dh = ch => /\ i \in Nat /\ i + 1 \in DOMAIN lockQueue[ch]
                           /\ lockQueue'[ch][i] = lockQueue[ch][i + 1]
        /\ \A dh \in Channels : dh # ch => lockQueue'[dh] = lockQueue[dh]
    BY <1>1, HolderLeaves DEF IInv
  <1>3. ASSUME NEW ah \in Channels, NEW dh \in Channels,
               NEW i \in DOMAIN lockQueue'[ah], NEW j \in DOMAIN lockQueue'[dh]
        PROVE  \E m \in DOMAIN lockQueue[ah], n \in DOMAIN lockQueue[dh] :
                 /\ lockQueue'[ah][i] = lockQueue[ah][m]
                 /\ lockQueue'[dh][j] = lockQueue[dh][n]
                 /\ ah = dh => (m = n => i = j) /\ (n < m => j < i)
    BY <1>1, LeftInOrder DEF IInv
  <1>4. TypeOK'
    <2>1. client' \in [Clients -> Client]
      BY <1>1 DEF IInv, TypeOK, Client, IdleClient
    <2> QED
      BY <2>1, <1>1, <1>2 DEF IInv, TypeOK
  <1>5. Minted'
    BY <1>1 DEF IInv, TypeOK, Minted, IdleClient
  <1>6. SingleFlight'
    BY <1>1 DEF IInv, SingleFlight, Live
  <1>7. QueueMembers'
    <2> SUFFICES ASSUME NEW dh \in Channels, NEW i \in DOMAIN lockQueue'[dh]
                 PROVE \/ /\ lockQueue'[dh][i] \in Keys
                          /\ Live(lockQueue'[dh][i])
                          /\ exec[lockQueue'[dh][i]].req.channel = dh
                       \/ /\ lockQueue'[dh][i] \in Clients
                          /\ client'[lockQueue'[dh][i]].pc
                                \in {"rotating", "cancelling"}
      BY <1>1 DEF QueueMembers, Live
    <2>1. PICK m \in DOMAIN lockQueue[dh] : lockQueue'[dh][i] = lockQueue[dh][m]
      BY <1>3
    <2>2. lockQueue[dh][m] # c
      BY <2>1, <1>2
    <2> QED
      BY <2>1, <2>2, <1>1 DEF IInv, TypeOK, QueueMembers
  <1>8. QueuedOnce'
    BY <1>3 DEF IInv, QueuedOnce
  <1>9. LockDiscipline'
    <2>1. ASSUME NEW dh \in Channels, NEW l \in Keys,
                 exec[l].state = "running", exec[l].req.channel = dh
          PROVE  Holds(l, dh)'
      <3>1. Holds(l, dh)
        BY <2>1 DEF IInv, LockDiscipline
      <3>2. dh # ch
        BY <3>1, <1>1, NamesAssumption DEF Leaves, Holds
      <3> QED
        BY <3>1, <3>2, <1>2 DEF Holds
    <2>2. ASSUME NEW dh \in Channels,
                 NEW i \in DOMAIN lockQueue'[dh], NEW j \in DOMAIN lockQueue'[dh],
                 lockQueue'[dh][i] \in Keys, lockQueue'[dh][j] \in Clients,
                 client'[lockQueue'[dh][j]].pc = "rotating"
          PROVE  j < i
      <3>1. PICK m \in DOMAIN lockQueue[dh], n \in DOMAIN lockQueue[dh] :
               /\ lockQueue'[dh][i] = lockQueue[dh][m]
               /\ lockQueue'[dh][j] = lockQueue[dh][n]
               /\ n < m => j < i
        BY <1>3
      <3>2. client[lockQueue[dh][n]].pc = "rotating"
        BY <2>2, <3>1, <1>1, <1>2 DEF IInv, TypeOK
      <3> QED
        BY <2>2, <3>1, <3>2 DEF IInv, LockDiscipline
    <2> QED
      BY <2>1, <2>2, <1>1 DEF LockDiscipline
  <1> QED
    BY <1>4, <1>5, <1>6, <1>7, <1>8, <1>9 DEF IInv

(* A turn ends: the runtime lock is left, the execution is terminal, the   *)
(* pointer is cleared and only finished records are ever dropped.          *)
LEMMA TurnEnds ==
    ASSUME IInv, NEW k \in Keys, NEW known \in BOOLEAN, FinishTurn(k, known),
           NEW ch \in Channels, ch = exec[k].req.channel
    PROVE  /\ exec[k].state = "running" /\ exec[k].req \in Request
           /\ clock' = clock + 1
           /\ UNCHANGED <<admissionClosed, client, expiredUpTo>>
           /\ exec' \in [Keys -> Execution]
           /\ exec'[k].state = "done"
           /\ \A l \in Keys : exec'[l].req = exec[l].req
           /\ \A l \in Keys : l # k => exec'[l] = exec[l]
           /\ active' = [active EXCEPT ![ch] = IF @ = k THEN NoKey ELSE @]
           /\ byKey' \subseteq byKey
           /\ \A l \in byKey : l # k /\ exec'[l].state # "done" => l \in byKey'
           /\ aliases' \subseteq aliases \cup {k}
           /\ Leaves(k, ch)
           /\ active[ch] = k /\ k \in byKey
  <1>2. /\ exec[k].state = "running" /\ exec[k].req \in Request
        /\ lockQueue' = [lockQueue EXCEPT ![ch] = Tail(@)]
        /\ exec' = [exec EXCEPT ![k].state = "done", ![k].logical = known,
                                ![k].fin = clock + 1]
        /\ clock' = clock + 1
        /\ UNCHANGED <<admissionClosed, client, expiredUpTo>>
    BY DEF FinishTurn, IInv, Minted
  <1>3. /\ exec' \in [Keys -> Execution]
        /\ exec'[k].state = "done"
        /\ \A l \in Keys : exec'[l].req = exec[l].req
        /\ \A l \in Keys : l # k => exec'[l] = exec[l]
    <2>1. /\ exec \in [Keys -> Execution] /\ exec[k] \in Execution
          /\ clock + 1 \in Nat
      BY DEF IInv, TypeOK
    <2>2. /\ [exec[k] EXCEPT !.state = "done", !.logical = known,
                             !.fin = clock + 1] \in Execution
      BY <2>1 DEF Execution
    <2>3. exec' = [exec EXCEPT ![k] = [exec[k] EXCEPT !.state = "done",
                                  !.logical = known, !.fin = clock + 1]]
      BY <2>1, <1>2
    <2> QED
      BY <2>1, <2>2, <2>3 DEF Execution
  <1>4. /\ active' = [active EXCEPT ![ch] = IF @ = k THEN NoKey ELSE @]
        /\ byKey' \subseteq byKey
        /\ \A l \in byKey : l # k /\ exec'[l].state # "done" => l \in byKey'
        /\ aliases' \subseteq aliases \cup {k}
    <2>1. Retire(k, exec')
      BY <1>2 DEF FinishTurn
    <2>2. active' = [active EXCEPT ![ch] = IF @ = k THEN NoKey ELSE @]
      BY <2>1, <1>3 DEF Retire
    <2>3. CASE exec'[k].req.kind \in CollectableKinds
      BY <2>1, <2>2, <2>3 DEF Retire, Newest
    <2>4. CASE exec'[k].req.kind \notin CollectableKinds
      <3>1. byKey' = byKey \ {k}
        BY <2>1, <2>4 DEF Retire
      <3>2. aliases' \subseteq aliases \cup {k}
        BY <2>1, <2>4 DEF Retire, Newest
      <3> QED
        BY <2>2, <3>1, <3>2
    <2> QED
      BY <2>3, <2>4
  <1>5. /\ Leaves(k, ch)
        /\ active[ch] = k /\ k \in byKey
    <2>1. Live(k)
      BY <1>2 DEF Live
    <2> QED
      BY <2>1, <1>2 DEF IInv, LockDiscipline, SingleFlight, Leaves
  <1> QED
    BY <1>2, <1>3, <1>4, <1>5

LEMMA FinishTurnKeeps ==
    ASSUME IInv, NEW k \in Keys, NEW known \in BOOLEAN, FinishTurn(k, known)
    PROVE  IInv'
  <1>1. PICK ch \in Channels : ch = exec[k].req.channel
    BY DEF FinishTurn, IInv, Minted, Request
  <1>2. /\ exec[k].state = "running" /\ exec[k].req \in Request
        /\ clock' = clock + 1
        /\ UNCHANGED <<admissionClosed, client, expiredUpTo>>
    BY <1>1, TurnEnds
  <1>3. /\ exec' \in [Keys -> Execution]
        /\ exec'[k].state = "done"
        /\ \A l \in Keys : exec'[l].req = exec[l].req
        /\ \A l \in Keys : l # k => exec'[l] = exec[l]
    BY <1>1, TurnEnds
  <1>4. /\ active' = [active EXCEPT ![ch] = IF @ = k THEN NoKey ELSE @]
        /\ byKey' \subseteq byKey
        /\ \A l \in byKey : l # k /\ exec'[l].state # "done" => l \in byKey'
        /\ aliases' \subseteq aliases \cup {k}
    BY <1>1, TurnEnds
  <1>5. Leaves(k, ch) /\ active[ch] = k
    BY <1>1, TurnEnds
  <1>6. /\ lockQueue' \in [Channels -> Seq(Keys \cup Clients)]
        /\ \A dh \in Channels : \A i \in DOMAIN lockQueue'[dh] :
             lockQueue'[dh][i] # k
        /\ \A dh \in Channels : dh # ch => lockQueue'[dh] = lockQueue[dh]
    BY <1>5, HolderLeaves DEF IInv
  <1>7. ASSUME NEW ah \in Channels, NEW dh \in Channels,
               NEW i \in DOMAIN lockQueue'[ah], NEW j \in DOMAIN lockQueue'[dh]
        PROVE  \E m \in DOMAIN lockQueue[ah], n \in DOMAIN lockQueue[dh] :
                 /\ lockQueue'[ah][i] = lockQueue[ah][m]
                 /\ lockQueue'[dh][j] = lockQueue[dh][n]
                 /\ ah = dh => (m = n => i = j) /\ (n < m => j < i)
    BY <1>5, LeftInOrder DEF IInv
  <1>8. TypeOK'
    <2>1. active' \in [Channels -> Keys \cup {NoKey}]
      BY <1>4 DEF IInv, TypeOK
    <2>2. clock' \in Nat /\ expiredUpTo' \in Nat /\ expiredUpTo' <= clock'
      BY <1>2 DEF IInv, TypeOK
    <2>3. byKey' \subseteq Keys /\ aliases' \subseteq Keys
      BY <1>4 DEF IInv, TypeOK
    <2> QED
      BY <2>1, <2>2, <2>3, <1>2, <1>3, <1>6 DEF IInv, TypeOK
  <1>9. Minted'
    <2>1. \A l \in Keys : exec'[l].state # "unminted" <=> exec[l].state # "unminted"
      BY <1>2, <1>3
    <2>2. \A dh \in Channels : active'[dh] # NoKey => active'[dh] = active[dh]
      BY <1>4 DEF IInv, TypeOK
    <2>3. \A dh \in Channels : active'[dh] # NoKey =>
            /\ exec'[active'[dh]].state # "unminted"
            /\ exec'[active'[dh]].req.channel = dh
      <3> SUFFICES ASSUME NEW dh \in Channels, active'[dh] # NoKey
                   PROVE  /\ exec'[active[dh]].state # "unminted"
                          /\ exec'[active[dh]].req.channel = dh
        BY <2>2
      <3>1. active[dh] \in Keys /\ active[dh] # NoKey
        BY <2>2 DEF IInv, TypeOK
      <3>2. exec[active[dh]].state # "unminted" /\ exec[active[dh]].req.channel = dh
        BY <3>1 DEF IInv, Minted
      <3> QED
        BY <2>1, <3>1, <3>2, <1>3
    <2>4. \A l \in byKey' \cup aliases' : exec'[l].state # "unminted"
      BY <2>1, <1>2, <1>3, <1>4 DEF IInv, TypeOK, Minted
    <2>5. \A c \in Clients : client'[c].pc = "waiting" =>
            /\ client'[c].key \in Keys
            /\ exec'[client'[c].key].state # "unminted"
            /\ exec'[client'[c].key].req = client'[c].req
      BY <2>1, <1>2, <1>3 DEF IInv, Minted
    <2>6. /\ \A l \in Keys : exec'[l].state # "unminted" => exec'[l].req \in Request
          /\ \A c \in Clients : client'[c].pc # "waiting" =>
                client'[c].key = NoKey /\ client'[c].req = NoRequest
      BY <2>1, <1>2, <1>3 DEF IInv, Minted
    <2> QED
      BY <2>3, <2>4, <2>5, <2>6 DEF Minted
  <1>10. SingleFlight'
    <2> SUFFICES ASSUME NEW l \in Keys, exec'[l].state \in {"queued", "running"}
                 PROVE  active'[exec'[l].req.channel] = l /\ l \in byKey'
      BY DEF SingleFlight, Live
    <2>1. l # k /\ exec'[l] = exec[l]
      BY <1>3
    <2>2. /\ exec[l].state \in {"queued", "running"}
          /\ exec[l].req.channel \in Channels
      BY <2>1 DEF IInv, Minted, Request
    <2>3. active[exec[l].req.channel] = l /\ l \in byKey
      BY <2>2 DEF IInv, SingleFlight, Live
    <2>4. exec[l].req.channel # ch
      BY <2>1, <2>3, <1>5
    <2> QED
      BY <2>1, <2>2, <2>3, <2>4, <1>4 DEF IInv, TypeOK
  <1>11. QueueMembers'
    <2> SUFFICES ASSUME NEW dh \in Channels, NEW i \in DOMAIN lockQueue'[dh]
                 PROVE \/ /\ lockQueue'[dh][i] \in Keys
                          /\ exec'[lockQueue'[dh][i]].state \in {"queued", "running"}
                          /\ exec'[lockQueue'[dh][i]].req.channel = dh
                       \/ /\ lockQueue'[dh][i] \in Clients
                          /\ client[lockQueue'[dh][i]].pc
                                \in {"rotating", "cancelling"}
      BY <1>2 DEF QueueMembers, Live
    <2>1. PICK m \in DOMAIN lockQueue[dh] : lockQueue'[dh][i] = lockQueue[dh][m]
      BY <1>7
    <2>2. lockQueue[dh][m] # k
      BY <2>1, <1>6
    <2> QED
      BY <2>1, <2>2, <1>3 DEF IInv, QueueMembers, Live
  <1>12. QueuedOnce'
    BY <1>7 DEF IInv, QueuedOnce
  <1>13. LockDiscipline'
    <2>1. ASSUME NEW dh \in Channels, NEW l \in Keys,
                 exec'[l].state = "running", exec'[l].req.channel = dh
          PROVE  Holds(l, dh)'
      <3>1. l # k /\ exec[l].state = "running" /\ exec[l].req.channel = dh
        BY <2>1, <1>3
      <3>2. Holds(l, dh) /\ active[dh] = l
        BY <3>1 DEF IInv, LockDiscipline, SingleFlight, Live
      <3>3. dh # ch
        BY <3>1, <3>2, <1>5
      <3> QED
        BY <3>2, <3>3, <1>6 DEF Holds
    <2>2. ASSUME NEW dh \in Channels,
                 NEW i \in DOMAIN lockQueue'[dh], NEW j \in DOMAIN lockQueue'[dh],
                 lockQueue'[dh][i] \in Keys, lockQueue'[dh][j] \in Clients,
                 client[lockQueue'[dh][j]].pc = "rotating"
          PROVE  j < i
      <3>1. PICK m \in DOMAIN lockQueue[dh], n \in DOMAIN lockQueue[dh] :
               /\ lockQueue'[dh][i] = lockQueue[dh][m]
               /\ lockQueue'[dh][j] = lockQueue[dh][n]
               /\ n < m => j < i
        BY <1>7
      <3> QED
        BY <2>2, <3>1 DEF IInv, LockDiscipline
    <2> QED
      BY <2>1, <2>2, <1>2 DEF LockDiscipline
  <1> QED
    BY <1>8, <1>9, <1>10, <1>11, <1>12, <1>13 DEF IInv

LEMMA StepKeeps == IInv /\ [Next]_vars => IInv'
  <1> SUFFICES ASSUME IInv, [Next]_vars PROVE IInv'
    OBVIOUS
  <1>1. CASE UNCHANGED vars
    BY <1>1, StutterKeeps
  <1>2. ASSUME NEW c \in Clients, Submit(c)
        PROVE  IInv'
    BY <1>2, JoinKeeps, AcceptKeeps, LaunchFailsKeeps DEF Submit
  <1>3. ASSUME NEW c \in Clients, WaitStep(c)
        PROVE  IInv'
    BY <1>3, WaitStepKeeps
  <1>4. ASSUME NEW c \in Clients, NEW ch \in Channels,
               Rotate(c, ch) \/ Cancel(c, ch) \/ LeaveLock(c, ch)
        PROVE  IInv'
    BY <1>4, RotateKeeps, CancelKeeps, LeaveLockKeeps
  <1>5. ASSUME NEW k \in Keys, TaskStep(k)
        PROVE  IInv'
    BY <1>5, StartTaskKeeps, GrantLockKeeps, FinishTurnKeeps DEF TaskStep
  <1>6. CASE CloseAdmission \/ Elapse \/ (\E k \in Keys : ForgetAlias(k))
    BY <1>6, BackgroundKeeps
  <1> QED
    BY <1>1, <1>2, <1>3, <1>4, <1>5, <1>6 DEF Next

LEMMA Invariance == Spec => []IInv
  BY InitEstablishes, StepKeeps, PTL DEF Spec

-----------------------------------------------------------------------------
(* The registry, the locks and the requests keep their types.              *)
THEOREM TypeCorrect == Spec => []TypeOK
  <1>1. IInv => TypeOK
    BY DEF IInv
  <1> QED
    BY <1>1, Invariance, PTL

(* A channel never has two live turns, for any number of channels, turns   *)
(* and requests: the registry and its pointer agree on the only one.       *)
THEOREM AtMostOneLiveTurn == Spec => []SingleFlight
  <1>1. IInv => SingleFlight
    BY DEF IInv
  <1> QED
    BY <1>1, Invariance, PTL

(* A turn runs only with the runtime lock in its hands, and a rotation     *)
(* never waits behind a turn it was admitted before.                       *)
THEOREM RunsUnderTheLock == Spec => []LockDiscipline
  <1>1. IInv => LockDiscipline
    BY DEF IInv
  <1> QED
    BY <1>1, Invariance, PTL

(* A request is answered from the execution of its own submission.         *)
THEOREM AnswersAreOnesOwn == Spec => []WaitsForItsOwn
  <1>1. IInv => WaitsForItsOwn
    BY DEF IInv, Minted, WaitsForItsOwn
  <1> QED
    BY <1>1, Invariance, PTL

-----------------------------------------------------------------------------
(* The refinement: what the service sees of each step of the engine. *)
LEMMA SameService ==
    ASSUME \A ch \in Channels : Serving(ch)' = Serving(ch),
           \A c \in Clients : Awaiting(c)' = Awaiting(c),
           UNCHANGED admissionClosed
    PROVE  UNCHANGED Service!serviceVars
  BY DEF Service!serviceVars

LEMMA InitRefines == Init => Service!Init
  BY NamesAssumption DEF Init, Service!Init, Serving, HasActive, ActiveExecution,
     Terminal, Awaiting, IdleClient

LEMMA SubmitRefines ==
    ASSUME IInv, NEW c \in Clients, Submit(c)
    PROVE  [Service!Next]_(Service!serviceVars)
  <1>1. PICK r \in Request : \/ Join(c, r)
                             \/ \E k \in Keys : Accept(c, r, k)
                             \/ LaunchFails(c, r)
    BY DEF Submit
  <1>2. r.channel \in Channels
    BY DEF Request
  <1>3. CASE Join(c, r)
    <2>1. /\ Serving(r.channel) = r
          /\ Awaiting(c) = NoRequest
          /\ ~admissionClosed
      BY <1>2, <1>3, BusyChannel DEF IInv, Join, Serving, Awaiting, Idle
    <2>2. \A ch \in Channels : Serving(ch)' = Serving(ch)
      BY <1>3 DEF Join, registryVars, Serving, HasActive, ActiveExecution, Terminal
    <2>3. /\ Awaiting(c)' = r
          /\ \A d \in Clients : d # c => Awaiting(d)' = Awaiting(d)
      BY <1>3 DEF Join, WaitsFor, Awaiting, IInv, TypeOK
    <2>4. admissionClosed' = admissionClosed
      BY <1>3 DEF Join, registryVars
    <2>5. Service!Rejoin(c, r)
      BY <1>2, <2>1, <2>2, <2>3, <2>4 DEF Service!Rejoin
    <2> QED
      BY <2>5 DEF Service!Next
  <1>4. ASSUME NEW k \in Keys, Accept(c, r, k)
        PROVE  Service!Start(c, r)
    <2>1. TypeOK /\ TypeOK'
      BY <1>4, AcceptKeeps DEF IInv
    <2>2. /\ Serving(r.channel) = NoRequest
          /\ Awaiting(c) = NoRequest
          /\ ~admissionClosed
      BY <1>4 DEF Accept, Serving, Awaiting, Idle
    <2>3. /\ exec' = [exec EXCEPT ![k] = [state |-> "queued", req |-> r,
                                          logical |-> FALSE, fin |-> 0]]
          /\ byKey' = byKey \cup {k}
          /\ active' = [active EXCEPT ![r.channel] = k]
          /\ exec[k].state = "unminted"
      BY <1>4 DEF Accept
    <2>4. Serving(r.channel)' = r
      <3>1. /\ active'[r.channel] = k /\ k \in byKey' /\ k # NoKey
            /\ exec'[k].state = "queued" /\ exec'[k].req = r
        BY <1>2, <2>1, <2>3, NamesAssumption DEF TypeOK
      <3>2. ActiveExecution(r.channel)' = k
        BY <3>1 DEF ActiveExecution, Terminal
      <3> QED
        BY <3>1, <3>2 DEF Serving, HasActive
    <2>5. \A ch \in Channels : ch # r.channel => Serving(ch)' = Serving(ch)
      <3> SUFFICES ASSUME NEW ch \in Channels, ch # r.channel
                   PROVE  Serving(ch)' = Serving(ch)
        OBVIOUS
      <3>1. active'[ch] = active[ch] /\ active[ch] # k
        BY <2>1, <2>3, NamesAssumption DEF IInv, TypeOK, Minted
      <3>2. active'[ch] \in byKey' <=> active[ch] \in byKey
        BY <3>1, <2>3
      <3>3. active[ch] \in byKey => exec'[active[ch]] = exec[active[ch]]
        BY <3>1, <2>1, <2>3 DEF TypeOK
      <3> QED
        BY <3>1, <3>2, <3>3, NamesAssumption
           DEF Serving, HasActive, ActiveExecution, Terminal, TypeOK, IInv
    <2>6. /\ Awaiting(c)' = r
          /\ \A d \in Clients : d # c => Awaiting(d)' = Awaiting(d)
      BY <1>4 DEF Accept, WaitsFor, Awaiting, IInv, TypeOK
    <2>7. admissionClosed' = admissionClosed
      BY <1>4 DEF Accept
    <2> QED
      BY <1>2, <2>2, <2>4, <2>5, <2>6, <2>7 DEF Service!Start
  <1>5. CASE LaunchFails(c, r)
    <2>1. /\ active' = [active EXCEPT ![r.channel] = NoKey]
          /\ ~HasActive(r.channel)
          /\ UNCHANGED <<exec, byKey, admissionClosed, client>>
      BY <1>5 DEF LaunchFails
    <2>2. NoKey \notin byKey
      BY NamesAssumption DEF IInv, TypeOK
    <2>3. \A ch \in Channels : Serving(ch)' = Serving(ch)
      BY <1>2, <2>1, <2>2, NamesAssumption
         DEF Serving, HasActive, ActiveExecution, Terminal, IInv, TypeOK
    <2>4. \A d \in Clients : Awaiting(d)' = Awaiting(d)
      BY <2>1 DEF Awaiting
    <2> QED
      BY <2>1, <2>3, <2>4, SameService
  <1>6. CASE \E k \in Keys : Accept(c, r, k)
    BY <1>6, <1>4 DEF Service!Next
  <1> QED
    BY <1>1, <1>3, <1>5, <1>6

LEMMA WaitStepRefines ==
    ASSUME IInv, NEW c \in Clients, WaitStep(c)
    PROVE  Service!StopWaiting(c)
  <1>1. /\ client' = [client EXCEPT ![c] = IdleClient]
        /\ client[c].pc = "waiting"
        /\ UNCHANGED <<exec, byKey, active, admissionClosed>>
    BY DEF WaitStep, AnswerDone, Defer, Answered, registryVars
  <1>2. Awaiting(c) # NoRequest
    BY <1>1, NoRequestAssumption DEF Awaiting, IInv, Minted
  <1>3. /\ Awaiting(c)' = NoRequest
        /\ \A d \in Clients : d # c => Awaiting(d)' = Awaiting(d)
    BY <1>1 DEF Awaiting, IdleClient, IInv, TypeOK
  <1>4. \A ch \in Channels : Serving(ch)' = Serving(ch)
    BY <1>1 DEF Serving, HasActive, ActiveExecution, Terminal
  <1> QED
    BY <1>1, <1>2, <1>3, <1>4 DEF Service!StopWaiting

(* Time, aliases, the lock's queue and the start of a task are invisible.  *)
LEMMA InvisibleSteps ==
    ASSUME IInv,
           UNCHANGED <<byKey, active, admissionClosed>>,
           \A k \in Keys : /\ exec'[k].req = exec[k].req
                           /\ exec'[k].state = "done" <=> exec[k].state = "done",
           \A c \in Clients : Awaiting(c)' = Awaiting(c)
    PROVE  UNCHANGED Service!serviceVars
  <1>1. \A ch \in Channels : Serving(ch)' = Serving(ch)
    BY NamesAssumption DEF IInv, TypeOK, Serving, HasActive, ActiveExecution,
       Terminal
  <1> QED
    BY <1>1, SameService

LEMMA TaskStepRefines ==
    ASSUME IInv, NEW k \in Keys, TaskStep(k)
    PROVE  [Service!Next]_(Service!serviceVars)
  <1>1. CASE StartTask(k) \/ GrantLock(k)
    <2>1. /\ UNCHANGED <<byKey, active, admissionClosed, client>>
          /\ exec[k].state = "queued"
          /\ exec' = exec \/ exec' = [exec EXCEPT ![k].state = "running"]
      BY <1>1 DEF StartTask, GrantLock, registryVars
    <2>2. \A l \in Keys : /\ exec'[l].req = exec[l].req
                          /\ exec'[l].state = "done" <=> exec[l].state = "done"
      <3>1. CASE exec' = exec
        BY <3>1
      <3>2. CASE exec' = [exec EXCEPT ![k].state = "running"]
        BY <3>2, <2>1 DEF IInv, TypeOK, Execution
      <3> QED
        BY <2>1, <3>1, <3>2
    <2>3. \A c \in Clients : Awaiting(c)' = Awaiting(c)
      BY <2>1 DEF Awaiting
    <2> QED
      BY <2>1, <2>2, <2>3, InvisibleSteps
  <1>2. ASSUME NEW known \in BOOLEAN, FinishTurn(k, known)
        PROVE  [Service!Next]_(Service!serviceVars)
    <2>1. PICK ch \in Channels : ch = exec[k].req.channel
      BY <1>2 DEF FinishTurn, IInv, Minted, Request
    <2>2. /\ exec[k].state = "running" /\ exec[k].req \in Request
          /\ exec'[k].state = "done"
          /\ \A l \in Keys : exec'[l].req = exec[l].req
          /\ \A l \in Keys : l # k => exec'[l] = exec[l]
          /\ active' = [active EXCEPT ![ch] = IF @ = k THEN NoKey ELSE @]
          /\ byKey' \subseteq byKey
          /\ \A l \in byKey : l # k /\ exec'[l].state # "done" => l \in byKey'
          /\ active[ch] = k /\ k \in byKey
          /\ UNCHANGED <<admissionClosed, client>>
      BY <1>2, <2>1, TurnEnds
    <2>3. Serving(ch) # NoRequest
      BY <2>2, NoRequestAssumption, NamesAssumption
         DEF Serving, HasActive, ActiveExecution, Terminal, IInv, TypeOK
    <2>4. Serving(ch)' = NoRequest
      <3>1. active'[ch] = NoKey /\ NoKey \notin byKey'
        BY <2>2, NamesAssumption DEF IInv, TypeOK
      <3> QED
        BY <3>1 DEF Serving, HasActive, ActiveExecution
    <2>5. ASSUME NEW dh \in Channels, dh # ch
          PROVE  Serving(dh)' = Serving(dh)
      <3>1. active'[dh] = active[dh] /\ NoKey \notin byKey /\ byKey \subseteq Keys
        BY <2>2, <2>5, NamesAssumption DEF IInv, TypeOK
      <3>2. active[dh] # k
        BY <2>1, <2>5, NamesAssumption DEF IInv, Minted
      <3>3. CASE active[dh] \in byKey
        <4>1. exec'[active[dh]] = exec[active[dh]]
          BY <3>1, <3>2, <3>3, <2>2
        <4>2. exec[active[dh]].state # "done" => active[dh] \in byKey'
          BY <3>2, <3>3, <2>2, <4>1
        <4> QED
          BY <3>1, <3>3, <4>1, <4>2
             DEF Serving, HasActive, ActiveExecution, Terminal
      <3>4. CASE active[dh] \notin byKey
        <4>1. active[dh] \notin byKey'
          BY <3>4, <2>2
        <4> QED
          BY <3>1, <3>4, <4>1 DEF Serving, HasActive, ActiveExecution
      <3> QED
        BY <3>3, <3>4
    <2>6. Service!Finish(ch)
      BY <2>2, <2>3, <2>4, <2>5 DEF Service!Finish, Awaiting
    <2> QED
      BY <2>6 DEF Service!Next
  <1> QED
    BY <1>1, <1>2 DEF TaskStep

LEMMA LockStepRefines ==
    ASSUME IInv, NEW c \in Clients, NEW ch \in Channels,
           Rotate(c, ch) \/ Cancel(c, ch) \/ LeaveLock(c, ch)
    PROVE  UNCHANGED Service!serviceVars
  <1>1. /\ UNCHANGED <<exec, byKey, active, admissionClosed>>
        /\ \A d \in Clients : d # c => client'[d] = client[d]
        /\ client[c].pc # "waiting" /\ client'[c].pc # "waiting"
    <2>1. CASE Rotate(c, ch)
      BY <2>1 DEF Rotate, Enqueue, Idle, registryVars, IInv, TypeOK
    <2>2. CASE Cancel(c, ch)
      BY <2>2 DEF Cancel, Enqueue, Idle, registryVars, IInv, TypeOK
    <2>3. CASE LeaveLock(c, ch)
      BY <2>3 DEF LeaveLock, Answered, IdleClient, registryVars, IInv, TypeOK
    <2> QED
      BY <2>1, <2>2, <2>3
  <1>2. \A d \in Clients : Awaiting(d)' = Awaiting(d)
    BY <1>1 DEF Awaiting
  <1> QED
    BY <1>1, <1>2, InvisibleSteps

LEMMA BackgroundRefines ==
    ASSUME IInv, CloseAdmission \/ Elapse \/ (\E k \in Keys : ForgetAlias(k))
    PROVE  [Service!Next]_(Service!serviceVars)
  <1>1. CASE CloseAdmission
    <2>1. \A ch \in Channels : Serving(ch)' = Serving(ch)
      BY <1>1 DEF CloseAdmission, Serving, HasActive, ActiveExecution, Terminal
    <2>2. \A c \in Clients : Awaiting(c)' = Awaiting(c)
      BY <1>1 DEF CloseAdmission, Awaiting
    <2>3. Service!Close
      BY <1>1, <2>1, <2>2 DEF CloseAdmission, Service!Close
    <2> QED
      BY <2>3 DEF Service!Next
  <1>2. CASE Elapse \/ (\E k \in Keys : ForgetAlias(k))
    <2>1. UNCHANGED <<exec, byKey, active, admissionClosed, client>>
      BY <1>2 DEF Elapse, ForgetAlias, registryVars
    <2>2. \A c \in Clients : Awaiting(c)' = Awaiting(c)
      BY <2>1 DEF Awaiting
    <2> QED
      BY <2>1, <2>2, InvisibleSteps
  <1> QED
    BY <1>1, <1>2

LEMMA StepRefines == IInv /\ [Next]_vars => [Service!Next]_(Service!serviceVars)
  <1> SUFFICES ASSUME IInv, [Next]_vars
               PROVE  [Service!Next]_(Service!serviceVars)
    OBVIOUS
  <1>1. CASE UNCHANGED vars
    <2>1. \A ch \in Channels : Serving(ch)' = Serving(ch)
      BY <1>1 DEF vars, Serving, HasActive, ActiveExecution, Terminal
    <2>2. \A c \in Clients : Awaiting(c)' = Awaiting(c)
      BY <1>1 DEF vars, Awaiting
    <2> QED
      BY <1>1, <2>1, <2>2, SameService DEF vars
  <1>2. ASSUME NEW c \in Clients, Submit(c) \/ WaitStep(c)
        PROVE  [Service!Next]_(Service!serviceVars)
    BY <1>2, SubmitRefines, WaitStepRefines DEF Service!Next
  <1>3. ASSUME NEW c \in Clients, NEW ch \in Channels,
               Rotate(c, ch) \/ Cancel(c, ch) \/ LeaveLock(c, ch)
        PROVE  [Service!Next]_(Service!serviceVars)
    BY <1>3, LockStepRefines
  <1>4. ASSUME NEW k \in Keys, TaskStep(k)
        PROVE  [Service!Next]_(Service!serviceVars)
    BY <1>4, TaskStepRefines
  <1>5. CASE CloseAdmission \/ Elapse \/ (\E k \in Keys : ForgetAlias(k))
    BY <1>5, BackgroundRefines
  <1> QED
    BY <1>1, <1>2, <1>3, <1>4, <1>5 DEF Next

(* The engine implements the service: its tasks, locks, keys and records   *)
(* are invisible in what a channel serves and in what a client waits for.  *)
THEOREM EngineImplementsService == Spec => ImplementsService
  <1>1. Spec => []IInv
    BY Invariance
  <1> QED
    BY <1>1, InitRefines, StepRefines, PTL DEF Spec, ImplementsService, Service!Spec

-----------------------------------------------------------------------------
(* What the registry keeps of its finished turns.                          *)

(* The newest n of a set are n at most: the number of newer ones tells     *)
(* them apart.                                                             *)
LEMMA NewestFew ==
    ASSUME NEW S, IsFiniteSet(S), NEW fin, \A x \in S : fin[x] \in Nat,
           \A x, y \in S : fin[x] = fin[y] => x = y, NEW n \in Nat
    PROVE  /\ Newest(S, n, fin) \subseteq S /\ IsFiniteSet(Newest(S, n, fin))
           /\ Cardinality(Newest(S, n, fin)) <= n
  <1> DEFINE above(x) == {y \in S : fin[y] > fin[x]}
             T == Newest(S, n, fin)
             g == [x \in T |-> Cardinality(above(x))]
  <1>1. T \subseteq S /\ \A x \in T : Cardinality(above(x)) < n
    BY DEF Newest
  <1>2. \A x \in S : IsFiniteSet(above(x)) /\ Cardinality(above(x)) \in Nat
    BY FS_Subset, FS_CardinalityType
  <1>3. ASSUME NEW x \in S, NEW z \in S, fin[x] > fin[z]
        PROVE  Cardinality(above(x)) < Cardinality(above(z))
    <2>1. above(x) \subseteq above(z) /\ above(x) # above(z)
      BY <1>3
    <2> HIDE DEF above
    <2>2. Cardinality(above(x)) <= Cardinality(above(z))
          /\ (Cardinality(above(z)) = Cardinality(above(x)) => above(z) = above(x))
      BY <1>2, <2>1, FS_Subset
    <2> QED
      BY <1>2, <2>1, <2>2
  <1> HIDE DEF above
  <1>4. IsFiniteSet(0..(n-1)) /\ Cardinality(0..(n-1)) <= n
    BY FS_Interval
  <1>5. \A x \in T : g[x] \in 0..(n-1)
    BY <1>1, <1>2
  <1>6. \A x, z \in T : g[x] = g[z] => x = z
    <2> SUFFICES ASSUME NEW x \in T, NEW z \in T, x # z PROVE g[x] # g[z]
      OBVIOUS
    <2>1. fin[x] > fin[z] \/ fin[z] > fin[x]
      BY <1>1
    <2> QED
      BY <1>1, <1>2, <1>3, <2>1
  <1> HIDE DEF T
  <1>7. g \in Injection(T, 0..(n-1))
    BY <1>5, <1>6 DEF Injection, IsInjective
  <1> HIDE DEF g
  <1>8. IsFiniteSet(T) /\ Cardinality(T) <= Cardinality(0..(n-1))
    BY <1>4, <1>7, FS_Injection
  <1>9. Cardinality(T) \in Nat /\ Cardinality(0..(n-1)) \in Nat
    BY <1>4, <1>8, FS_CardinalityType
  <1> QED
    BY <1>1, <1>4, <1>8, <1>9 DEF T

(* Executions end one after the other.                                     *)
Stamps ==
    /\ \A k \in Keys : Terminal(k) => exec[k].fin > 0 /\ exec[k].fin <= clock
    /\ \A k \in Keys : ~Terminal(k) => exec[k].fin = 0
    /\ \A k, l \in Keys : Terminal(k) /\ Terminal(l) /\ exec[k].fin = exec[l].fin => k = l

(* An alias is of a conversation turn that has a stored turn behind it.    *)
AliasesFit == \A k \in aliases : exec[k].req.kind = "chat" /\ exec[k].logical

(* Who is not resolved though its window has not lapsed was overtaken by   *)
(* as many as are kept.                                                    *)
Startups == {x \in Keys : exec[x].req # NoRequest /\ exec[x].req.kind = "initialize_startup"}
Stored == {x \in Keys : exec[x].req # NoRequest /\ exec[x].req.kind = "chat" /\ exec[x].logical}
After(k, S) == {x \in S : exec[x].fin > exec[k].fin}
Overtaken ==
    \A k \in Keys : Terminal(k) /\ exec[k].fin > expiredUpTo =>
        /\ exec[k].req.kind = "initialize_startup" /\ k \notin byKey
              => Cardinality(After(k, Startups)) >= MaxRetained
        /\ exec[k].req.kind = "chat" /\ exec[k].logical /\ k \notin aliases
              => Cardinality(After(k, Stored)) >= MaxAliases

RInv == Stamps /\ RetentionBounded /\ AliasesFit /\ Overtaken

LEMMA InitRetention == ASSUME Init PROVE RInv
  <1>1. \A k \in Keys : ~Terminal(k) /\ exec[k].fin = 0
    BY DEF Init, Terminal
  <1>2. byKey = {} /\ aliases = {} /\ {k \in byKey : Terminal(k)} = {}
    BY DEF Init
  <1>3. Cardinality({}) = 0
    BY FS_EmptySet
  <1>4. RetentionBounded
    BY <1>2, <1>3, CapsAssumption DEF RetentionBounded
  <1> QED
    BY <1>1, <1>2, <1>4 DEF RInv, Stamps, AliasesFit, Overtaken

(* A record is never rewritten once its turn ended, so whoever was         *)
(* overtaken stays so.                                                     *)
LEMMA AfterGrows ==
    ASSUME TypeOK, Stamps, NEW k \in Keys, Terminal(k),
           \A x \in Keys : Terminal(x) => exec'[x] = exec[x]
    PROVE  /\ Cardinality(After(k, Startups)) \in Nat /\ Cardinality(After(k, Startups)') \in Nat
           /\ Cardinality(After(k, Startups)) <= Cardinality(After(k, Startups)')
           /\ Cardinality(After(k, Stored)) \in Nat /\ Cardinality(After(k, Stored)') \in Nat
           /\ Cardinality(After(k, Stored)) <= Cardinality(After(k, Stored)')
  <1>1. \A x \in Keys : exec[x].fin > exec[k].fin => Terminal(x)
    <2>1. \A x \in Keys : exec[x].fin \in Nat
      BY DEF TypeOK, Execution
    <2> QED
      BY <2>1 DEF Stamps
  <1>2. /\ After(k, Startups) \subseteq After(k, Startups)'
        /\ After(k, Stored) \subseteq After(k, Stored)'
    BY <1>1 DEF After, Startups, Stored
  <1>3. After(k, Startups)' \subseteq Keys /\ After(k, Stored)' \subseteq Keys
    BY DEF After, Startups, Stored
  <1> HIDE DEF After
  <1> QED
    BY <1>2, <1>3, KeysFinite, FS_Subset, FS_CardinalityType

(* Steps that end no turn.                                                 *)
LEMMA QuietRetention ==
    ASSUME TypeOK, Minted, RInv, exec' \in [Keys -> Execution],
           \A x \in Keys : Terminal(x) => exec'[x] = exec[x],
           \A x \in Keys : ~Terminal(x) => exec'[x].state # "done" /\ exec'[x].fin = 0,
           clock' = clock, expiredUpTo' \in Nat, expiredUpTo' >= expiredUpTo,
           byKey \subseteq byKey', \A x \in byKey' \ byKey : x \in Keys /\ ~Terminal(x),
           aliases' \subseteq aliases, \A x \in aliases \ aliases' : exec[x].fin <= expiredUpTo
    PROVE  RInv'
  <1>0. /\ \A x \in Keys : (Terminal(x))' <=> Terminal(x)
        /\ byKey \subseteq Keys /\ aliases \subseteq Keys /\ expiredUpTo \in Nat
        /\ \A x \in Keys : exec[x].fin \in Nat
    BY DEF Terminal, TypeOK, Execution
  <1>1. Stamps'
    BY <1>0 DEF RInv, Stamps
  <1>2. RetentionBounded'
    <2>1. {k \in byKey' : exec'[k].state = "done"} = {k \in byKey : exec[k].state = "done"}
      BY <1>0 DEF Terminal
    <2>2. Cardinality(aliases') <= Cardinality(aliases)
          /\ Cardinality(aliases') \in Nat /\ Cardinality(aliases) \in Nat
      BY <1>0, KeysFinite, FS_Subset, FS_CardinalityType
    <2>3. Cardinality(aliases') <= MaxAliases
      BY <2>2, CapsAssumption DEF RInv, RetentionBounded
    <2>4. \A k \in aliases' : exec'[k].state = "done" /\ k \notin byKey'
      BY <1>0 DEF RInv, RetentionBounded, Terminal
    <2>5. \A k \in byKey' : exec'[k].state = "done" => exec'[k].req.kind = "initialize_startup"
      BY <1>0 DEF RInv, RetentionBounded, Terminal
    <2>6. Cardinality({k \in byKey' : exec'[k].state = "done"}) <= MaxRetained
      BY <2>1 DEF RInv, RetentionBounded, Terminal
    <2> QED
      BY <2>3, <2>4, <2>5, <2>6 DEF RetentionBounded, Terminal
  <1>3. AliasesFit'
    BY <1>0 DEF RInv, RetentionBounded, AliasesFit
  <1>4. Overtaken'
    <2> SUFFICES ASSUME NEW k \in Keys, (Terminal(k))', exec'[k].fin > expiredUpTo'
                 PROVE  /\ exec'[k].req.kind = "initialize_startup" /\ k \notin byKey'
                              => Cardinality(After(k, Startups)') >= MaxRetained
                        /\ exec'[k].req.kind = "chat" /\ exec'[k].logical /\ k \notin aliases'
                              => Cardinality(After(k, Stored)') >= MaxAliases
      BY DEF Overtaken
    <2>1. Terminal(k) /\ exec'[k] = exec[k] /\ exec[k].fin > expiredUpTo
      BY <1>0
    <2>2. k \notin byKey' => k \notin byKey
      OBVIOUS
    <2>3. k \notin aliases' => k \notin aliases
      BY <1>0, <2>1
    <2> QED
      BY <2>1, <2>2, <2>3, AfterGrows, CapsAssumption DEF RInv, Overtaken
  <1> QED
    BY <1>1, <1>2, <1>3, <1>4 DEF RInv

(* A turn ends and its registry entry is retired.                          *)
LEMMA FinishRetention ==
    ASSUME IInv, RInv, NEW k \in Keys, NEW known \in BOOLEAN, FinishTurn(k, known)
    PROVE  RInv' /\ \A x \in byKey : x \notin byKey' => exec'[x].state = "done"
  <1>0. /\ TypeOK /\ Minted /\ byKey \subseteq Keys /\ aliases \subseteq Keys
        /\ clock \in Nat /\ expiredUpTo \in Nat /\ expiredUpTo <= clock
        /\ \A x \in Keys : exec[x].fin \in Nat
    BY DEF IInv, TypeOK, Execution
  <1>1. PICK ch \in Channels : ch = exec[k].req.channel
    BY DEF FinishTurn, IInv, Minted, Request
  <1>2. /\ exec[k].state = "running" /\ exec[k].req \in Request
        /\ clock' = clock + 1 /\ expiredUpTo' = expiredUpTo
        /\ exec' \in [Keys -> Execution]
        /\ exec'[k].state = "done"
        /\ \A x \in Keys : exec'[x].req = exec[x].req
        /\ \A x \in Keys : x # k => exec'[x] = exec[x]
        /\ k \in byKey
    BY <1>1, TurnEnds
  <1>3. /\ exec'[k].fin = clock + 1 /\ exec'[k].logical = known /\ Retire(k, exec')
        /\ ~Terminal(k) /\ k \notin aliases
    BY <1>2 DEF FinishTurn, IInv, TypeOK, Execution, Terminal, RInv, RetentionBounded
  <1>4. /\ \A x \in Keys : Terminal(x) => exec'[x] = exec[x]
        /\ \A x \in Keys : exec'[x].state = "done" <=> Terminal(x) \/ x = k
        /\ \A x \in Keys : exec'[x].fin \in Nat /\ exec'[x].fin <= clock + 1
        /\ \A x \in Keys : x # k => exec'[x].fin < clock + 1
    BY <1>0, <1>2, <1>3 DEF Terminal, RInv, Stamps
  <1>5. Stamps'
    BY <1>0, <1>2, <1>3, <1>4 DEF RInv, Stamps, Terminal
  <1>6. exec'[k].req.kind \in Kinds /\ exec'[k].req = exec[k].req
    BY <1>2 DEF Request
  <1>7. \A x \in byKey : exec'[x].state = "done" /\ x # k => exec'[x].req.kind = "initialize_startup"
    BY <1>0, <1>2, <1>4 DEF RInv, RetentionBounded, Terminal
  <1> DEFINE fin == [x \in Keys |-> exec'[x].fin]
             fresh == {x \in Keys : exec'[x].fin > expiredUpTo}
             live == {x \in byKey : exec'[x].state # "done"}
             S == (byKey \ live) \cap fresh
             C == (aliases \cup {k}) \cap fresh
  <1>8. /\ \A T \in SUBSET Keys : IsFiniteSet(T) /\ Cardinality(T) \in Nat
        /\ \A T, U \in SUBSET Keys : T \subseteq U => Cardinality(T) <= Cardinality(U)
    BY KeysFinite, FS_Subset, FS_CardinalityType
  <1>9. /\ S \in SUBSET Keys /\ C \in SUBSET Keys
        /\ \A x \in S \cup C : fin[x] \in Nat /\ exec'[x].state = "done"
        /\ \A x, y \in S \cup C : fin[x] = fin[y] => x = y
    BY <1>0, <1>4, <1>5 DEF RInv, RetentionBounded, Terminal, Stamps
  <1>10. MaxRetained \in Nat /\ MaxRetained > 0 /\ MaxAliases \in Nat /\ MaxAliases > 0
    BY CapsAssumption
  <1>11. \A T \in SUBSET Keys : {y \in T : fin[y] > fin[k]} = {}
    BY <1>3, <1>4
  <1>12. Cardinality({}) = 0
    BY FS_EmptySet
  <1>13. \A l \in Keys : l # k /\ exec'[l].state = "done" =>
            /\ Terminal(l) /\ exec'[l] = exec[l]
            /\ Cardinality(After(l, Startups)) <= Cardinality(After(l, Startups)')
            /\ Cardinality(After(l, Stored)) <= Cardinality(After(l, Stored)')
            /\ Cardinality(After(l, Startups)) \in Nat /\ Cardinality(After(l, Startups)') \in Nat
            /\ Cardinality(After(l, Stored)) \in Nat /\ Cardinality(After(l, Stored)') \in Nat
    BY <1>0, <1>4, AfterGrows DEF RInv
  <1>14. \A x \in Keys : exec'[x].state = "done" => exec'[x].req # NoRequest
    BY <1>0, <1>2, <1>4, NoRequestAssumption DEF Minted, Terminal
  <1> SUFFICES /\ RetentionBounded' /\ AliasesFit' /\ Overtaken'
               /\ \A x \in byKey : x \notin byKey' => exec'[x].state = "done"
    BY <1>5 DEF RInv
  <1>15. CASE exec'[k].req.kind = "initialize_startup"
    <2> DEFINE N == Newest(S, MaxRetained, fin)
    <2>1. byKey' = live \cup N /\ aliases' = aliases
      BY <1>3, <1>15 DEF Retire, CollectableKinds
    <2>2. N \subseteq S /\ Cardinality(N) <= MaxRetained
      BY <1>8, <1>9, <1>10, NewestFew
    <2>3. {x \in byKey' : exec'[x].state = "done"} = N
      BY <1>9, <2>1, <2>2
    <2>4. k \in S /\ k \in N
      <3>1. k \in S
        BY <1>0, <1>2, <1>3
      <3> QED
        BY <1>9, <1>10, <1>11, <1>12, <3>1 DEF Newest
    <2>5. RetentionBounded'
      <3>1. \A x \in N : exec'[x].req.kind = "initialize_startup"
        BY <1>7, <1>9, <1>15, <2>2
      <3>2. Cardinality(aliases') <= MaxAliases
        BY <2>1 DEF RInv, RetentionBounded
      <3>3. \A x \in aliases' : exec'[x].state = "done" /\ x \notin byKey'
        BY <1>0, <1>4, <2>1, <2>2 DEF RInv, RetentionBounded
      <3> HIDE DEF N
      <3> QED
        BY <2>2, <2>3, <3>1, <3>2, <3>3 DEF RetentionBounded, Terminal
    <2>6. AliasesFit'
      BY <1>0, <1>4, <2>1 DEF RInv, RetentionBounded, AliasesFit
    <2>7. Overtaken'
      <3> SUFFICES ASSUME NEW l \in Keys, exec'[l].state = "done", exec'[l].fin > expiredUpTo
                   PROVE  /\ exec'[l].req.kind = "initialize_startup" /\ l \notin byKey'
                                => Cardinality(After(l, Startups)') >= MaxRetained
                          /\ exec'[l].req.kind = "chat" /\ exec'[l].logical /\ l \notin aliases'
                                => Cardinality(After(l, Stored)') >= MaxAliases
        BY <1>2 DEF Overtaken, Terminal
      <3>1. CASE l = k
        BY <1>15, <2>1, <2>4, <3>1
      <3>2. CASE l # k
        <4>1. /\ Terminal(l) /\ exec'[l] = exec[l]
              /\ exec[l].req.kind = "initialize_startup" /\ l \notin byKey
                    => Cardinality(After(l, Startups)) >= MaxRetained
              /\ exec[l].req.kind = "chat" /\ exec[l].logical /\ l \notin aliases
                    => Cardinality(After(l, Stored)) >= MaxAliases
          BY <1>13, <3>2 DEF RInv, Overtaken
        <4>2. ASSUME l \in byKey, l \notin byKey'
              PROVE  Cardinality(After(l, Startups)') >= MaxRetained
          <5> DEFINE A == {y \in S : fin[y] > fin[l]}
          <5>1. l \in S /\ l \notin N
            BY <2>1, <4>2
          <5>2. ~(Cardinality(A) < MaxRetained)
            BY <5>1 DEF Newest
          <5>3. A \subseteq After(l, Startups)' /\ After(l, Startups)' \in SUBSET Keys
            BY <1>7, <1>9, <1>14, <1>15 DEF After, Startups
          <5>4. Cardinality(A) <= Cardinality(After(l, Startups)') /\ Cardinality(A) \in Nat
                /\ Cardinality(After(l, Startups)') \in Nat
            <6> HIDE DEF A
            <6> QED
              BY <1>8, <5>3
          <5> HIDE DEF A
          <5> QED
            BY <1>10, <5>2, <5>4
        <4> QED
          BY <1>10, <1>13, <2>1, <3>2, <4>1, <4>2
      <3> QED
        BY <3>1, <3>2
    <2> QED
      BY <2>1, <2>5, <2>6, <2>7
  <1>16. CASE exec'[k].req.kind = "chat"
    <2> DEFINE N == Newest(C, MaxAliases, fin)
    <2>1. byKey' = byKey \ {k} /\ aliases' = IF known THEN N ELSE aliases
      BY <1>3, <1>16 DEF Retire, CollectableKinds
    <2>2. N \subseteq C /\ Cardinality(N) <= MaxAliases
      BY <1>8, <1>9, <1>10, NewestFew
    <2>3. {x \in byKey' : exec'[x].state = "done"} = {x \in byKey : Terminal(x)}
      BY <1>0, <1>3, <1>4, <2>1
    <2>4. k \in C /\ k \in N
      <3>1. k \in C
        BY <1>0, <1>3
      <3> QED
        BY <1>9, <1>10, <1>11, <1>12, <3>1 DEF Newest
    <2>5. aliases' \subseteq aliases \cup {k} /\ (k \in aliases' => known)
      BY <1>3, <2>1, <2>2
    <2>6. RetentionBounded'
      <3>1. \A x \in byKey' : exec'[x].state = "done" => exec'[x].req.kind = "initialize_startup"
        BY <1>7, <2>1
      <3>2. Cardinality(aliases') <= MaxAliases
        BY <2>1, <2>2 DEF RInv, RetentionBounded
      <3>3. \A x \in aliases' : exec'[x].state = "done" /\ x \notin byKey'
        BY <1>0, <1>4, <2>1, <2>5 DEF RInv, RetentionBounded
      <3> QED
        BY <2>3, <3>1, <3>2, <3>3 DEF RInv, RetentionBounded, Terminal
    <2>7. AliasesFit'
      BY <1>0, <1>3, <1>4, <1>16, <2>5 DEF RInv, RetentionBounded, AliasesFit
    <2>8. Overtaken'
      <3> SUFFICES ASSUME NEW l \in Keys, exec'[l].state = "done", exec'[l].fin > expiredUpTo
                   PROVE  /\ exec'[l].req.kind = "initialize_startup" /\ l \notin byKey'
                                => Cardinality(After(l, Startups)') >= MaxRetained
                          /\ exec'[l].req.kind = "chat" /\ exec'[l].logical /\ l \notin aliases'
                                => Cardinality(After(l, Stored)') >= MaxAliases
        BY <1>2 DEF Overtaken, Terminal
      <3>1. CASE l = k
        BY <1>3, <1>16, <2>1, <2>4, <3>1
      <3>2. CASE l # k
        <4>1. /\ Terminal(l) /\ exec'[l] = exec[l]
              /\ exec[l].req.kind = "initialize_startup" /\ l \notin byKey
                    => Cardinality(After(l, Startups)) >= MaxRetained
              /\ exec[l].req.kind = "chat" /\ exec[l].logical /\ l \notin aliases
                    => Cardinality(After(l, Stored)) >= MaxAliases
          BY <1>13, <3>2 DEF RInv, Overtaken
        <4>2. ASSUME l \in aliases, l \notin aliases'
              PROVE  Cardinality(After(l, Stored)') >= MaxAliases
          <5> DEFINE A == {y \in C : fin[y] > fin[l]}
          <5>1. l \in C /\ l \notin N /\ known
            BY <2>1, <4>2
          <5>2. ~(Cardinality(A) < MaxAliases)
            BY <5>1 DEF Newest
          <5>3. A \subseteq After(l, Stored)' /\ After(l, Stored)' \in SUBSET Keys
            <6>1. \A x \in C : exec'[x].req.kind = "chat" /\ exec'[x].logical
              BY <1>0, <1>3, <1>4, <1>16, <5>1 DEF RInv, RetentionBounded, AliasesFit
            <6> QED
              BY <1>9, <1>14, <6>1 DEF After, Stored
          <5>4. Cardinality(A) <= Cardinality(After(l, Stored)') /\ Cardinality(A) \in Nat
                /\ Cardinality(After(l, Stored)') \in Nat
            <6> HIDE DEF A
            <6> QED
              BY <1>8, <5>3
          <5> HIDE DEF A
          <5> QED
            BY <1>10, <5>2, <5>4
        <4> QED
          BY <1>10, <1>13, <2>1, <3>2, <4>1, <4>2
      <3> QED
        BY <3>1, <3>2
    <2> QED
      BY <1>2, <2>1, <2>6, <2>7, <2>8
  <1> QED
    BY <1>6, <1>15, <1>16 DEF Kinds

LEMMA RetentionStep ==
    ASSUME IInv, RInv, [Next]_vars
    PROVE  /\ RInv'
           /\ \A x \in byKey : x \notin byKey' => exec'[x].state = "done"
           /\ expiredUpTo' = expiredUpTo \/ UNCHANGED <<exec, registryVars>>
  <1>0. /\ TypeOK /\ Minted
        /\ exec \in [Keys -> Execution] /\ byKey \subseteq Keys
        /\ clock \in Nat /\ expiredUpTo \in Nat
        /\ \A x \in Keys : ~Terminal(x) => exec[x].state # "done" /\ exec[x].fin = 0
    BY DEF IInv, TypeOK, RInv, Stamps, Terminal
  <1>1. CASE UNCHANGED <<exec, byKey, aliases, clock, expiredUpTo>>
    BY <1>0, <1>1, QuietRetention
  <1>2. ASSUME NEW c \in Clients, NEW r \in Request, NEW k \in Keys, Accept(c, r, k)
        PROVE  RInv' /\ byKey \subseteq byKey' /\ expiredUpTo' = expiredUpTo
    <2>1. /\ exec' = [exec EXCEPT ![k] = [state |-> "queued", req |-> r, logical |-> FALSE, fin |-> 0]]
          /\ exec[k].state = "unminted" /\ byKey' = byKey \cup {k}
          /\ UNCHANGED <<aliases, clock, expiredUpTo>>
      BY <1>2 DEF Accept
    <2>2. [state |-> "queued", req |-> r, logical |-> FALSE, fin |-> 0] \in Execution
      BY DEF Execution
    <2>3. /\ exec' \in [Keys -> Execution] /\ ~Terminal(k)
          /\ \A x \in Keys : x # k => exec'[x] = exec[x]
          /\ exec'[k].state = "queued" /\ exec'[k].fin = 0
      BY <1>0, <2>1, <2>2 DEF Terminal
    <2> QED
      BY <1>0, <2>1, <2>3, QuietRetention
  <1>3. ASSUME NEW k \in Keys, StartTask(k) \/ GrantLock(k)
        PROVE  RInv' /\ byKey \subseteq byKey' /\ expiredUpTo' = expiredUpTo
    <2>1. /\ exec' = exec \/ exec' = [exec EXCEPT ![k].state = "running"]
          /\ exec[k].state = "queued"
          /\ UNCHANGED <<byKey, aliases, clock, expiredUpTo>>
      BY <1>3 DEF StartTask, GrantLock, registryVars
    <2>2. exec[k] \in Execution /\ ~Terminal(k)
      BY <1>0, <2>1 DEF Terminal
    <2>3. /\ exec' \in [Keys -> Execution]
          /\ \A x \in Keys : x # k => exec'[x] = exec[x]
          /\ exec'[k].state # "done" /\ exec'[k].fin = exec[k].fin
      BY <1>0, <2>1, <2>2 DEF Execution
    <2> QED
      BY <1>0, <2>1, <2>2, <2>3, QuietRetention
  <1>4. ASSUME NEW k \in Keys, NEW known \in BOOLEAN, FinishTurn(k, known)
        PROVE  /\ RInv' /\ expiredUpTo' = expiredUpTo
               /\ \A x \in byKey : x \notin byKey' => exec'[x].state = "done"
    BY <1>4, FinishRetention DEF FinishTurn
  <1>5. CASE Elapse
    BY <1>0, <1>5, QuietRetention DEF Elapse, registryVars
  <1>6. ASSUME NEW k \in Keys, ForgetAlias(k)
        PROVE  RInv' /\ byKey \subseteq byKey' /\ expiredUpTo' = expiredUpTo
    BY <1>0, <1>6, QuietRetention DEF ForgetAlias
  <1>7. ASSUME NEW c \in Clients, NEW r \in Request, Join(c, r) \/ LaunchFails(c, r)
        PROVE  UNCHANGED <<exec, byKey, aliases, clock, expiredUpTo>>
    BY <1>7 DEF Join, LaunchFails, registryVars
  <1>8. ASSUME NEW c \in Clients, NEW ch \in Channels,
               WaitStep(c) \/ Rotate(c, ch) \/ Cancel(c, ch) \/ LeaveLock(c, ch)
        PROVE  UNCHANGED <<exec, byKey, aliases, clock, expiredUpTo>>
    BY <1>8 DEF WaitStep, AnswerDone, Defer, Rotate, Cancel, LeaveLock, registryVars
  <1>9. CASE CloseAdmission \/ UNCHANGED vars
    BY <1>1, <1>9 DEF CloseAdmission, vars, registryVars
  <1>10. ASSUME NEW c \in Clients, WaitStep(c)
         PROVE  UNCHANGED <<exec, byKey, aliases, clock, expiredUpTo>>
    BY <1>10 DEF WaitStep, AnswerDone, Defer, registryVars
  <1>11. Elapse => UNCHANGED <<exec, registryVars>>
    BY DEF Elapse
  <1>12. UNCHANGED <<exec, registryVars>> => byKey' = byKey
    BY DEF registryVars
  <1> QED
    BY <1>1, <1>2, <1>3, <1>4, <1>5, <1>6, <1>7, <1>8, <1>9, <1>10, <1>11, <1>12
       DEF Next, Submit, TaskStep

LEMMA RetentionInvariance == Spec => [](IInv /\ RInv)
  <1>1. Init => IInv /\ RInv
    BY InitEstablishes, InitRetention
  <1>2. IInv /\ RInv /\ [Next]_vars => (IInv /\ RInv)'
    BY StepKeeps, RetentionStep
  <1> QED
    BY <1>1, <1>2, PTL DEF Spec

LEMMA HandlesStep ==
    ASSUME IInv, RInv, [Next]_vars, NEW k \in Keys
    PROVE  /\ k \in byKey /\ k \notin byKey' => exec'[k].state = "done"
           /\ (exec'[k].state = "done" /\ exec'[k].fin > expiredUpTo) =>
              /\ (exec'[k].req.kind = "initialize_startup" /\ k \notin byKey') =>
                    Cardinality(After(k, Startups)') >= MaxRetained
              /\ (exec'[k].req.kind = "chat" /\ exec'[k].logical /\ k \notin aliases') =>
                    Cardinality(After(k, Stored)') >= MaxAliases
  <1>1. /\ RInv' /\ (k \in byKey /\ k \notin byKey' => exec'[k].state = "done")
        /\ expiredUpTo' = expiredUpTo \/ UNCHANGED <<exec, registryVars>>
    BY RetentionStep
  <1>2. CASE expiredUpTo' = expiredUpTo
    BY <1>1, <1>2 DEF RInv, Overtaken, Terminal
  <1>3. CASE UNCHANGED <<exec, registryVars>>
    <2>1. /\ After(k, Startups)' = After(k, Startups) /\ After(k, Stored)' = After(k, Stored)
          /\ exec' = exec /\ byKey' = byKey /\ aliases' = aliases
      BY <1>3 DEF After, Startups, Stored, registryVars
    <2> QED
      BY <1>1, <2>1 DEF RInv, Overtaken, Terminal
  <1> QED
    BY <1>1, <1>2, <1>3

(* What the registry keeps of finished turns is bounded, whatever the caps *)
(* and however many turns end; and a handle that was given out outlasts    *)
(* its window unless as many younger ones as are kept overtook it.         *)
THEOREM HandlesAreKept == Spec => Retention
  <1>1. IInv /\ RInv /\ [Next]_vars => [RetentionBounded']_vars
    BY RetentionStep DEF RInv
  <1>2. ASSUME IInv, RInv, [Next]_vars
        PROVE  \A k \in Keys :
          /\ k \in byKey /\ k \notin byKey' => exec'[k].state = "done"
          /\ (exec'[k].state = "done" /\ exec'[k].fin > expiredUpTo) =>
             /\ (exec'[k].req.kind = "initialize_startup" /\ k \notin byKey') =>
                Cardinality(YoungerThan(k, {x \in Keys : exec'[x].req # NoRequest /\
                     exec'[x].req.kind = "initialize_startup"})) >= MaxRetained
             /\ (exec'[k].req.kind = "chat" /\ exec'[k].logical /\ k \notin aliases') =>
                Cardinality(YoungerThan(k, {x \in Keys : exec'[x].req # NoRequest /\
                     exec'[x].req.kind = "chat" /\ exec'[x].logical})) >= MaxAliases
    BY <1>2, HandlesStep DEF After, Startups, Stored, YoungerThan
  <1>3. IInv /\ RInv /\ [Next]_vars =>
          [\A k \in Keys :
          /\ k \in byKey /\ k \notin byKey' => exec'[k].state = "done"
          /\ (exec'[k].state = "done" /\ exec'[k].fin > expiredUpTo) =>
             /\ (exec'[k].req.kind = "initialize_startup" /\ k \notin byKey') =>
                Cardinality(YoungerThan(k, {x \in Keys : exec'[x].req # NoRequest /\
                     exec'[x].req.kind = "initialize_startup"})) >= MaxRetained
             /\ (exec'[k].req.kind = "chat" /\ exec'[k].logical /\ k \notin aliases') =>
                Cardinality(YoungerThan(k, {x \in Keys : exec'[x].req # NoRequest /\
                     exec'[x].req.kind = "chat" /\ exec'[x].logical})) >= MaxAliases]_vars
    BY <1>2
  <1> QED
    BY <1>1, <1>3, RetentionInvariance, PTL DEF Spec, Retention, HandlesOutlastTheWindow

---------------------------------------------------------------------------
(* The owner of a channel is the one turn whose work or retirement is under  *)
(* way, and only a stream is finished.                                       *)
OneOwner ==
    /\ current # 0 => task[current] \in {"work", "retire"} /\ thread # "none"
    /\ current = 0 => thread = "none"
    /\ \A t \in Turns : task[t] \in {"work", "retire"} => current = t
    /\ \A t \in Turns : kind[t] = "none" <=> task[t] = "none"
    /\ \A t \in Turns : task[t] = "finish" => kind[t] = "stream"
    /\ current # 0 /\ task[current] = "retire" => thread \in {"returned", "raised"}

(* What is delivered is of a stream, and what is put on the queue is of a    *)
(* turn that began.                                                          *)
OnlyStreams ==
    /\ \A t \in Turns : kind[t] # "stream" => frames[t] = <<>> /\ ~closed[t] /\ ~ended[t]
    /\ \A t \in Turns : kind[t] = "none" => made[t] = 0 /\ traces[t] = <<>>
    /\ \A i \in DOMAIN queue : queue[i] # Sentinel => kind[queue[i]] # "none"

(* The flag of a channel says whether its one ending is out; it is not before *)
(* the work is over, and is or will be once the work is over.                 *)
OneEnding ==
    \A t \in Turns :
        /\ ended[t] <=> HasEnd(frames[t])
        /\ EndsOf(frames[t]) \subseteq {Len(frames[t])}
        /\ \A i \in DOMAIN frames[t] : frames[t][i].type = "error" => failed[t]
        /\ task[t] = "work" => ~ended[t]
        /\ task[t] \in {"retire", "finish"} /\ kind[t] = "stream" => ended[t] \/ failed[t]
        /\ closed[t] => ended[t] /\ task[t] = "done"
        /\ reader[t] = "done" => closed[t]

Shown(t) == {i \in DOMAIN frames[t] : frames[t][i].of = t}
Waiting(t) == {i \in DOMAIN queue : queue[i] = t}

(* Every event of a stream is on its channel or still on the queue, and on   *)
(* its channel when the output is.                                           *)
NoneMissing ==
    /\ \A t \in Turns : kind[t] = "stream" /\ task[t] = "work" =>
          Cardinality(Shown(t)) + Cardinality(Waiting(t)) = made[t]
    /\ OutputFollowsItsTraces

(* Before any work raised the queue holds events of the owner, and behind    *)
(* them its sentinel; it is empty when a turn retires.                       *)
OwnQueue ==
    past = {} =>
        /\ thread # "raised"
        /\ \A t \in Turns : Own(t)
        /\ current = 0 => queue = <<>>
        /\ current # 0 /\ task[current] = "retire" => queue = <<>>
        /\ current # 0 => \A i \in DOMAIN queue :
              queue[i] = current \/ (queue[i] = Sentinel /\ i = Len(queue) /\ thread # "runs")
        /\ current # 0 /\ task[current] = "work" /\ kind[current] = "plain"
              /\ thread \in {"ends", "returned"} =>
                 queue # <<>> /\ queue[Len(queue)] = Sentinel

StreamInv ==
    /\ StreamTypes
    /\ OneOwner
    /\ OnlyStreams
    /\ OneEnding
    /\ NoneMissing
    /\ OwnQueue

(* Whatever holds of 0 and of the next number of a number it holds of, holds *)
(* of every number: nothing outside of it could be the least.                *)
LEMMA NumbersByInduction ==
    ASSUME NEW S, 0 \in S, \A n \in Nat : n \in S => n + 1 \in S
    PROVE  Nat \subseteq S
  <1> DEFINE T == Nat \ S
  <1>1. SUFFICES ASSUME T # {} PROVE FALSE
    OBVIOUS
  <1>2. T \subseteq Nat
    OBVIOUS
  <1>3. PICK x \in T : \A y \in T : <<y, x>> \notin OpToRel(<, Nat)
    BY <1>1, <1>2, WFMin, NatLessThanWellFounded
  <1>4. \A y \in T : ~(y < x)
    BY <1>3 DEF OpToRel
  <1>5. x \in Nat /\ x # 0
    BY <1>3
  <1>6. x - 1 \in Nat /\ x - 1 < x
    BY <1>5
  <1>7. x - 1 \in S
    BY <1>4, <1>6
  <1>8. (x - 1) + 1 \in S
    BY <1>6, <1>7
  <1>9. x \in S
    BY <1>5, <1>8
  <1> QED
    BY <1>9

(* What the trace queue delivers is defined along the queue. *)
LEMMA TracedIsDefined ==
    ASSUME NEW T, NEW s \in Seq(T)
    PROVE  /\ Traced(s)[0] = <<>>
           /\ \A n \in 1..Len(s) :
                 Traced(s)[n] = IF s[n] = Sentinel THEN Traced(s)[n - 1]
                                ELSE Append(Traced(s)[n - 1], [type |-> "trace", of |-> s[n]])
  <1> DEFINE G(g, n) == IF n = 0 THEN <<>>
                        ELSE IF s[n] = Sentinel THEN g[n - 1]
                             ELSE Append(g[n - 1], [type |-> "trace", of |-> s[n]])
             Defines(n, g) == g = [i \in 0..n |-> G(g, i)]
             S == {n \in Nat : \E g : Defines(n, g)}
  <1>1. 0 \in S
    <2> DEFINE g == [i \in 0..0 |-> <<>>]
    <2>1. g = [i \in 0..0 |-> G(g, i)]
      OBVIOUS
    <2> QED
      BY <2>1
  <1>2. ASSUME NEW n \in Nat, n \in S PROVE n + 1 \in S
    <2>1. PICK g : Defines(n, g)
      BY <1>2
    <2> DEFINE h == [i \in 0..(n + 1) |-> G(g, i)]
    <2>2. ASSUME NEW i \in 0..(n + 1), i # 0 PROVE h[i - 1] = g[i - 1]
      <3>1. i - 1 \in 0..n /\ i - 1 \in 0..(n + 1)
        BY <2>2
      <3>2. g[i - 1] = G(g, i - 1)
        BY <2>1, <3>1
      <3> HIDE DEF G
      <3> QED
        BY <3>1, <3>2
    <2>3. \A i \in 0..(n + 1) : G(g, i) = G(h, i)
      BY <2>2
    <2>4. h = [i \in 0..(n + 1) |-> G(h, i)]
      <3> HIDE DEF G
      <3> QED
        BY <2>3
    <2> HIDE DEF h, G
    <2>5. Defines(n + 1, h)
      BY <2>4
    <2>6. n + 1 \in Nat
      OBVIOUS
    <2> HIDE DEF Defines
    <2> QED
      BY <2>5, <2>6
  <1> HIDE DEF S
  <1>3. Nat \subseteq S
    BY <1>1, <1>2, NumbersByInduction
  <1>4. Len(s) \in Nat
    OBVIOUS
  <1>5. \E g : Defines(Len(s), g)
    BY <1>3, <1>4 DEF S
  <1>6. Defines(Len(s), CHOOSE g : Defines(Len(s), g))
    BY <1>5
  <1>7. Traced(s) = CHOOSE g : Defines(Len(s), g)
    BY DEF Traced
  <1>8. Defines(Len(s), Traced(s))
    BY <1>6, <1>7
  <1> DEFINE g == Traced(s)
  <1> HIDE DEF g
  <1>9. g = [i \in 0..Len(s) |-> G(g, i)]
    BY <1>8 DEF g
  <1>10. \A i \in 0..Len(s) : g[i] = G(g, i)
    BY <1>9, Zenon
  <1>11. g[0] = <<>>
    <2>1. 0 \in 0..Len(s)
      BY <1>4
    <2>2. g[0] = G(g, 0)
      BY <1>10, <2>1
    <2> QED
      BY <2>2, Zenon
  <1>12. ASSUME NEW n \in 1..Len(s)
         PROVE  g[n] = IF s[n] = Sentinel THEN g[n - 1]
                       ELSE Append(g[n - 1], [type |-> "trace", of |-> s[n]])
    <2>1. n \in 0..Len(s) /\ n # 0
      BY <1>4
    <2>2. g[n] = G(g, n)
      BY <1>10, <2>1
    <2> QED
      BY <2>1, <2>2, Zenon
  <1> QED
    BY <1>11, <1>12 DEF g

(* How many elements of a sequence are of a kind. *)
Occurrences(s, P) == Cardinality({i \in DOMAIN s : s[i] \in P})

(* Counting in a sequence: one element more, and two sequences in a row. *)
LEMMA CountOfAppended ==
    ASSUME NEW T, NEW s \in Seq(T), NEW x \in T, NEW P, P \subseteq T
    PROVE  Occurrences(Append(s, x), P) = Occurrences(s, P) + (IF x \in P THEN 1 ELSE 0)
  <1> DEFINE A == {i \in DOMAIN s : s[i] \in P}
             B == {i \in DOMAIN Append(s, x) : Append(s, x)[i] \in P}
  <1>1. IsFiniteSet(A) /\ Cardinality(A) \in Nat
    <2>1. IsFiniteSet(1..Len(s))
      BY FS_Interval
    <2>2. A \subseteq 1..Len(s)
      OBVIOUS
    <2> QED
      BY <2>1, <2>2, FS_Subset, FS_CardinalityType
  <1>2. B = IF x \in P THEN A \cup {Len(s) + 1} ELSE A
    OBVIOUS
  <1>3. Len(s) + 1 \notin A
    OBVIOUS
  <1> HIDE DEF A, B
  <1>4. Cardinality(A \cup {Len(s) + 1}) = Cardinality(A) + 1
    BY <1>1, <1>3, FS_AddElement
  <1>5. Cardinality(B) = Cardinality(A) + (IF x \in P THEN 1 ELSE 0)
    BY <1>1, <1>2, <1>4
  <1> QED
    BY <1>5 DEF A, B, Occurrences

LEMMA CountOfJoined ==
    ASSUME NEW T, NEW r \in Seq(T), NEW s \in Seq(T), NEW P
    PROVE  Occurrences(r \o s, P) = Occurrences(r, P) + Occurrences(s, P)
  <1> DEFINE A == {i \in DOMAIN r : r[i] \in P}
             B == {i \in DOMAIN s : s[i] \in P}
             C == {Len(r) + i : i \in B}
             D == {i \in DOMAIN (r \o s) : (r \o s)[i] \in P}
             f == [i \in B |-> Len(r) + i]
  <1>1. IsFiniteSet(A) /\ IsFiniteSet(B)
    <2>1. IsFiniteSet(1..Len(r)) /\ IsFiniteSet(1..Len(s))
      BY FS_Interval
    <2>2. A \subseteq 1..Len(r) /\ B \subseteq 1..Len(s)
      OBVIOUS
    <2> QED
      BY <2>1, <2>2, FS_Subset
  <1>2. D = A \cup C /\ A \cap C = {}
    <2>1. \A i \in 1..Len(r) : i \in D <=> i \in A
      OBVIOUS
    <2>2. \A i \in 1..Len(s) : Len(r) + i \in D <=> i \in B
      OBVIOUS
    <2>3. \A i \in D : i \in 1..Len(r) \/ (i - Len(r) \in 1..Len(s) /\ i = Len(r) + (i - Len(r)))
      OBVIOUS
    <2>4. \A i \in C : i \in Nat /\ i > Len(r)
      OBVIOUS
    <2>5. A \subseteq 1..Len(r) /\ B \subseteq 1..Len(s)
      OBVIOUS
    <2>6. Len(r) \in Nat /\ \A i \in 1..Len(r) : i <= Len(r)
      OBVIOUS
    <2> HIDE DEF A, B, D
    <2>7. D \subseteq A \cup C
      BY <2>1, <2>2, <2>3
    <2>8. A \subseteq D /\ C \subseteq D
      BY <2>1, <2>2, <2>5
    <2>9. A \cap C = {}
      BY <2>4, <2>5, <2>6
    <2> QED
      BY <2>7, <2>8, <2>9
  <1>3. f \in Bijection(B, C)
    <2>1. \A i, j \in B : f[i] = f[j] => i = j
      OBVIOUS
    <2>2. f \in [B -> C] /\ \A c \in C : \E i \in B : f[i] = c
      OBVIOUS
    <2> HIDE DEF A, B, C, D, f
    <2> QED
      BY <2>1, <2>2 DEF Bijection, Injection, Surjection, IsInjective
  <1> HIDE DEF A, B, C, D, f
  <1>4. IsFiniteSet(C) /\ Cardinality(C) = Cardinality(B)
    BY <1>1, <1>3, FS_Bijection DEF ExistsBijection
  <1>5. Cardinality(A \cap C) = 0
    BY <1>2, FS_EmptySet
  <1>6. Cardinality(A \cup C) = Cardinality(A) + Cardinality(C) - Cardinality(A \cap C)
    BY <1>1, <1>4, FS_Union
  <1>7. Cardinality(A) \in Nat /\ Cardinality(C) \in Nat
    BY <1>1, <1>4, FS_CardinalityType
  <1>8. Cardinality(D) = Cardinality(A) + Cardinality(B)
    BY <1>2, <1>4, <1>5, <1>6, <1>7
  <1> QED
    BY <1>8 DEF A, B, D, Occurrences

(* Of what is queued the events go on, in as many frames for each turn as it *)
(* has events there, and nothing else does.                                  *)
LEMMA TracesOfAQueue ==
    ASSUME NEW s \in Seq(Turns \cup {Sentinel})
    PROVE  /\ TraceFrames(s) \in Seq(Frames)
           /\ \A i \in DOMAIN TraceFrames(s) :
                 /\ TraceFrames(s)[i].type = "trace"
                 /\ \E j \in DOMAIN s : s[j] # Sentinel /\ TraceFrames(s)[i].of = s[j]
           /\ \A t \in Turns :
                 Cardinality({i \in DOMAIN TraceFrames(s) : TraceFrames(s)[i].of = t})
                   = Cardinality({j \in DOMAIN s : s[j] = t})
  <1> DEFINE T == [type : {"trace"}, of : Turns]
             g == Traced(s)
             InFrames(n, t) == {i \in DOMAIN g[n] : g[n][i] \in {f \in T : f.of = t}}
             QueuedOf(n, t) == {j \in 1..n : s[j] = t}
             Right(n) ==
                /\ g[n] \in Seq(T)
                /\ \A i \in DOMAIN g[n] : \E j \in 1..n : s[j] # Sentinel /\ g[n][i].of = s[j]
                /\ \A t \in Turns : Cardinality(InFrames(n, t)) = Cardinality(QueuedOf(n, t))
             S == {n \in Nat : n <= Len(s) => Right(n)}
  <1>1. /\ g[0] = <<>>
        /\ \A n \in 1..Len(s) : g[n] = IF s[n] = Sentinel THEN g[n - 1]
                                       ELSE Append(g[n - 1], [type |-> "trace", of |-> s[n]])
    BY TracedIsDefined
  <1> HIDE DEF g
  <1>2. 0 \in S
    <2>1. g[0] \in Seq(T) /\ DOMAIN g[0] = {}
      BY <1>1
    <2>2. \A t \in Turns : InFrames(0, t) = {} /\ QueuedOf(0, t) = {}
      BY <2>1
    <2> QED
      BY <2>1, <2>2
  <1>3. ASSUME NEW n \in Nat, n \in S PROVE n + 1 \in S
    <2>1. SUFFICES ASSUME n + 1 <= Len(s) PROVE Right(n + 1)
      OBVIOUS
    <2>2. Right(n)
      BY <1>3, <2>1
    <2>3. s[n + 1] \in Turns \cup {Sentinel} /\ n + 1 \in 1..Len(s)
      BY <2>1
    <2>4. g[n + 1] = IF s[n + 1] = Sentinel THEN g[n]
                     ELSE Append(g[n], [type |-> "trace", of |-> s[n + 1]])
      BY <1>1, <2>3
    <2>5. ASSUME NEW t \in Turns
          PROVE  Cardinality(QueuedOf(n + 1, t))
                   = Cardinality(QueuedOf(n, t)) + (IF s[n + 1] = t THEN 1 ELSE 0)
      <3>1. QueuedOf(n + 1, t) = IF s[n + 1] = t THEN QueuedOf(n, t) \cup {n + 1} ELSE QueuedOf(n, t)
        OBVIOUS
      <3>2. n + 1 \notin QueuedOf(n, t)
        OBVIOUS
      <3>3. IsFiniteSet(QueuedOf(n, t))
        <4>1. IsFiniteSet(1..n) /\ QueuedOf(n, t) \subseteq 1..n
          BY FS_Interval
        <4> QED
          BY <4>1, FS_Subset
      <3> HIDE DEF QueuedOf
      <3>4. /\ Cardinality(QueuedOf(n, t)) \in Nat
            /\ Cardinality(QueuedOf(n, t) \cup {n + 1}) = Cardinality(QueuedOf(n, t)) + 1
        BY <3>2, <3>3, FS_AddElement, FS_CardinalityType
      <3> QED
        BY <3>1, <3>4
    <2>6. CASE s[n + 1] = Sentinel
      <3>1. g[n + 1] = g[n] /\ \A t \in Turns : s[n + 1] # t
        BY <2>4, <2>6, StreamAssumption DEF Turns
      <3>2. \A t \in Turns : Cardinality(QueuedOf(n + 1, t)) = Cardinality(QueuedOf(n, t))
        <4> TAKE t \in Turns
        <4>1. IsFiniteSet(QueuedOf(n, t))
          <5>1. IsFiniteSet(1..n) /\ QueuedOf(n, t) \subseteq 1..n
            BY FS_Interval
          <5> QED
            BY <5>1, FS_Subset
        <4>2. Cardinality(QueuedOf(n, t)) \in Nat
          BY <4>1, FS_CardinalityType
        <4> HIDE DEF QueuedOf
        <4> QED
          BY <2>5, <3>1, <4>2
      <3>3. \A t \in Turns : InFrames(n + 1, t) = InFrames(n, t)
        BY <3>1
      <3> QED
        BY <2>2, <3>1, <3>2, <3>3
    <2>7. CASE s[n + 1] # Sentinel
      <3> DEFINE x == [type |-> "trace", of |-> s[n + 1]]
      <3>1. g[n + 1] = Append(g[n], x) /\ x \in T /\ s[n + 1] \in Turns
        BY <2>3, <2>4, <2>7
      <3>2. g[n + 1] \in Seq(T)
        BY <2>2, <3>1
      <3>3. ASSUME NEW i \in DOMAIN g[n + 1]
            PROVE  \E j \in 1..(n + 1) : s[j] # Sentinel /\ g[n + 1][i].of = s[j]
        <4>1. CASE i \in DOMAIN g[n]
          <5>1. PICK j \in 1..n : s[j] # Sentinel /\ g[n][i].of = s[j]
            BY <2>2, <4>1
          <5>2. g[n + 1][i] = g[n][i]
            BY <2>2, <3>1, <4>1
          <5> QED
            BY <5>1, <5>2
        <4>2. CASE i \notin DOMAIN g[n]
          <5>1. g[n + 1][i] = x
            BY <2>2, <3>1, <4>2
          <5> QED
            BY <2>7, <5>1
        <4> QED
          BY <4>1, <4>2
      <3>4. ASSUME NEW t \in Turns
            PROVE  Cardinality(InFrames(n + 1, t)) = Cardinality(QueuedOf(n + 1, t))
        <4> DEFINE P == {f \in T : f.of = t}
                   u == g[n]
        <4>1. P \subseteq T /\ (x \in P <=> s[n + 1] = t) /\ u \in Seq(T)
          BY <2>2, <3>1
        <4>2. /\ Cardinality(InFrames(n, t)) = Occurrences(u, P)
              /\ Cardinality(InFrames(n + 1, t)) = Occurrences(Append(u, x), P)
          BY <3>1 DEF Occurrences
        <4> HIDE DEF P, u, x, T, InFrames, QueuedOf
        <4>3. Occurrences(Append(u, x), P) = Occurrences(u, P) + (IF x \in P THEN 1 ELSE 0)
          BY <3>1, <4>1, CountOfAppended
        <4>4. Cardinality(InFrames(n, t)) = Cardinality(QueuedOf(n, t))
          BY <2>2
        <4> QED
          BY <2>5, <4>1, <4>2, <4>3, <4>4
      <3> HIDE DEF T, InFrames, QueuedOf
      <3> QED
        BY <3>2, <3>3, <3>4
    <2> QED
      BY <2>6, <2>7
  <1> HIDE DEF S
  <1>4. Len(s) \in Nat /\ Len(s) \in S
    BY <1>2, <1>3, NumbersByInduction
  <1>5. Right(Len(s))
    BY <1>4 DEF S
  <1>6. TraceFrames(s) = g[Len(s)]
    BY DEF TraceFrames, g
  <1> DEFINE f == g[Len(s)]
  <1>7. f \in Seq(T)
    BY <1>5
  <1>8. T \subseteq Frames
    BY DEF Frames, Turns
  <1>9. f \in Seq(Frames) /\ \A i \in DOMAIN f : f[i] \in T /\ f[i].type = "trace"
    <2> HIDE DEF f
    <2>1. \A i \in DOMAIN f : f[i] \in T
      <3> HIDE DEF T
      <3> QED
        BY <1>7
    <2>2. f \in Seq(Frames)
      <3> HIDE DEF T
      <3> QED
        BY <1>7, <1>8
    <2> QED
      BY <2>1, <2>2
  <1>10. \A i \in DOMAIN f : \E j \in DOMAIN s : s[j] # Sentinel /\ f[i].of = s[j]
    BY <1>5
  <1>11. ASSUME NEW t \in Turns
         PROVE  Cardinality({i \in DOMAIN f : f[i].of = t}) = Cardinality({j \in DOMAIN s : s[j] = t})
    <2>1. InFrames(Len(s), t) = {i \in DOMAIN f : f[i].of = t}
      BY <1>9
    <2>2. QueuedOf(Len(s), t) = {j \in DOMAIN s : s[j] = t}
      OBVIOUS
    <2>3. Cardinality(InFrames(Len(s), t)) = Cardinality(QueuedOf(Len(s), t))
      BY <1>5
    <2> HIDE DEF f, InFrames, QueuedOf
    <2> QED
      BY <2>1, <2>2, <2>3
  <1> HIDE DEF f
  <1> QED
    BY <1>6, <1>9, <1>10, <1>11 DEF f

(* What an emission does to the channel of its turn: nothing once it is      *)
(* frozen, and otherwise the frames are appended and their ending counts.    *)
LEMMA EmitAppends ==
    ASSUME StreamTypes, OneEnding, NEW t \in Turns, NEW kinds \in Seq(Frames),
           EndsOf(kinds) \subseteq {Len(kinds)}, Emit(t, kinds)
    PROVE  /\ frames' \in [Turns -> Seq(Frames)] /\ ended' \in [Turns -> BOOLEAN]
           /\ \A u \in Turns \ {t} : frames'[u] = frames[u] /\ ended'[u] = ended[u]
           /\ closed[t] \/ ended[t] => frames'[t] = frames[t] /\ ended'[t] = ended[t]
           /\ ~closed[t] /\ ~ended[t] =>
                 frames'[t] = frames[t] \o kinds /\ ended'[t] = HasEnd(kinds)
           /\ ended'[t] <=> HasEnd(frames'[t])
           /\ EndsOf(frames'[t]) \subseteq {Len(frames'[t])}
           /\ Len(frames[t]) <= Len(frames'[t])
  <1> DEFINE F == frames[t]
  <1>1. F \in Seq(Frames) /\ ended[t] \in BOOLEAN /\ closed[t] \in BOOLEAN
    BY DEF StreamTypes
  <1>2. /\ frames' = [frames EXCEPT ![t] = IF closed[t] \/ ended[t] THEN @ ELSE @ \o kinds]
        /\ ended' = [ended EXCEPT ![t] = @ \/ (~(closed[t] \/ ended[t]) /\ HasEnd(kinds))]
    BY DEF Emit
  <1>3. HasEnd(kinds) \in BOOLEAN
    BY DEF HasEnd
  <1>4. frames \in [Turns -> Seq(Frames)] /\ ended \in [Turns -> BOOLEAN]
    BY DEF StreamTypes
  <1>5. F \o kinds \in Seq(Frames)
    BY <1>1
  <1>6. frames' \in [Turns -> Seq(Frames)]
        /\ \A u \in Turns \ {t} : frames'[u] = frames[u]
    BY <1>1, <1>2, <1>4, <1>5
  <1>7. ended' \in [Turns -> BOOLEAN] /\ \A u \in Turns \ {t} : ended'[u] = ended[u]
    BY <1>1, <1>2, <1>3, <1>4
  <1>8. CASE closed[t] \/ ended[t]
    <2>1. frames'[t] = F
      BY <1>2, <1>4, <1>8
    <2>2. ended'[t] = ended[t]
      BY <1>1, <1>2, <1>3, <1>4, <1>8
    <2>3. (ended[t] <=> HasEnd(F)) /\ EndsOf(F) \subseteq {Len(F)} /\ Len(F) \in Nat
      BY <1>1 DEF OneEnding
    <2> QED
      BY <1>6, <1>7, <1>8, <2>1, <2>2, <2>3
  <1>9. CASE ~closed[t] /\ ~ended[t]
    <2>1. frames'[t] = F \o kinds
      BY <1>2, <1>4, <1>9
    <2>2. ended'[t] = HasEnd(kinds)
      BY <1>1, <1>2, <1>3, <1>4, <1>9
    <2>3. EndsOf(F) = {}
      BY <1>9 DEF OneEnding, HasEnd
    <2>4. EndsOf(F \o kinds) = {Len(F) + i : i \in EndsOf(kinds)}
      <3>1. \A i \in DOMAIN F : (F \o kinds)[i] = F[i] /\ i \in DOMAIN (F \o kinds)
        BY <1>1
      <3>2. \A i \in DOMAIN kinds :
                (F \o kinds)[Len(F) + i] = kinds[i] /\ Len(F) + i \in DOMAIN (F \o kinds)
        BY <1>1
      <3>3. \A i \in DOMAIN (F \o kinds) :
                i \in DOMAIN F \/ (i - Len(F) \in DOMAIN kinds /\ i = Len(F) + (i - Len(F)))
        BY <1>1
      <3> QED
        BY <2>3, <3>1, <3>2, <3>3 DEF EndsOf
    <2>5. Len(F \o kinds) = Len(F) + Len(kinds) /\ Len(F) \in Nat /\ Len(kinds) \in Nat
      BY <1>1
    <2>6. EndsOf(F \o kinds) \subseteq {Len(F \o kinds)} /\ (HasEnd(F \o kinds) <=> HasEnd(kinds))
      BY <2>4, <2>5 DEF HasEnd
    <2> QED
      BY <1>6, <1>7, <1>9, <2>1, <2>2, <2>5, <2>6
  <1> QED
    BY <1>8, <1>9

FramesOf(t) == {f \in Frames : f.of = t}

(* The frames an owner delivers: the events of the queue, then at most one   *)
(* frame of its own, the ending only behind the events and only once.        *)
LEMMA FramesOfTheQueue ==
    ASSUME queue \in Seq(Turns \cup {Sentinel}),
           NEW type \in {"timeout", "output", "error"}, NEW own \in {<<>>, <<Frame(type)>>}
    PROVE  LET k == TraceFrames(queue) \o own
           IN /\ k \in Seq(Frames) /\ EndsOf(k) \subseteq {Len(k)}
              /\ HasEnd(k) <=> own # <<>> /\ type \in Ends
              /\ \A i \in DOMAIN k : k[i].type \in {"trace", type}
              /\ \A i \in DOMAIN k :
                    k[i].of = 0 \/ \E j \in DOMAIN queue : queue[j] # Sentinel /\ k[i].of = queue[j]
              /\ \A t \in Turns : Occurrences(k, FramesOf(t)) = Cardinality(Waiting(t))
  <1> DEFINE f == TraceFrames(queue)
             k == f \o own
  <1>1. /\ f \in Seq(Frames)
        /\ \A i \in DOMAIN f :
              /\ f[i].type = "trace"
              /\ \E j \in DOMAIN queue : queue[j] # Sentinel /\ f[i].of = queue[j]
        /\ \A t \in Turns : Cardinality({i \in DOMAIN f : f[i].of = t}) = Cardinality(Waiting(t))
    BY TracesOfAQueue DEF Waiting
  <1> HIDE DEF f
  <1>2. Frame(type) \in Frames /\ Frame(type).type = type /\ Frame(type).of = 0
    BY StreamAssumption DEF Frame, Frames
  <1>3. own \in Seq(Frames) /\ Len(own) \in {0, 1} /\ (own # <<>> <=> Len(own) = 1)
        /\ \A i \in DOMAIN own : i = 1 /\ own[i] = Frame(type)
    <2> DEFINE x == Frame(type)
    <2>1. x \in Frames /\ (own = <<>> \/ own = <<x>>)
      BY <1>2
    <2> HIDE DEF x
    <2>2. CASE own = <<>>
      BY <2>2
    <2>3. CASE own = <<x>>
      BY <2>1, <2>3 DEF x
    <2> QED
      BY <2>1, <2>2, <2>3
  <1>4. k \in Seq(Frames) /\ Len(k) = Len(f) + Len(own) /\ Len(f) \in Nat
    BY <1>1, <1>3
  <1>5. \A i \in DOMAIN k : \/ i \in DOMAIN f /\ k[i] = f[i]
                            \/ own # <<>> /\ i = Len(k) /\ k[i] = Frame(type)
    <2> TAKE i \in DOMAIN k
    <2>1. i \in DOMAIN f => k[i] = f[i]
      BY <1>1, <1>3
    <2>2. i \notin DOMAIN f => i - Len(f) \in DOMAIN own /\ k[i] = own[i - Len(f)]
      BY <1>1, <1>3
    <2>3. i \in Nat /\ i <= Len(k) /\ DOMAIN own = 1..Len(own)
      BY <1>3, <1>4
    <2> HIDE DEF k
    <2>4. CASE i \in DOMAIN f
      BY <2>1, <2>4
    <2>5. CASE i \notin DOMAIN f
      <3>1. i - Len(f) = 1 /\ own[i - Len(f)] = Frame(type)
        BY <1>3, <2>2, <2>5
      <3>2. own # <<>> /\ Len(own) = 1
        BY <1>3, <2>2, <2>3, <2>5
      <3> QED
        BY <1>4, <2>2, <2>3, <2>5, <3>1, <3>2
    <2> QED
      BY <2>4, <2>5
  <1>6. own # <<>> => Len(k) \in DOMAIN k /\ k[Len(k)] = Frame(type)
    BY <1>1, <1>3, <1>4
  <1> HIDE DEF k
  <1>7. EndsOf(k) \subseteq {Len(k)} /\ (HasEnd(k) <=> own # <<>> /\ type \in Ends)
    BY <1>1, <1>2, <1>5, <1>6 DEF EndsOf, HasEnd, Ends
  <1>8. \A i \in DOMAIN k : k[i].type \in {"trace", type}
    BY <1>1, <1>2, <1>5
  <1>9. \A i \in DOMAIN k :
            k[i].of = 0 \/ \E j \in DOMAIN queue : queue[j] # Sentinel /\ k[i].of = queue[j]
    BY <1>1, <1>2, <1>5
  <1>10. ASSUME NEW t \in Turns PROVE Occurrences(k, FramesOf(t)) = Cardinality(Waiting(t))
    <2>1. Occurrences(k, FramesOf(t)) = Occurrences(f, FramesOf(t)) + Occurrences(own, FramesOf(t))
      BY <1>1, <1>3, CountOfJoined DEF k
    <2>2. {i \in DOMAIN f : f[i] \in FramesOf(t)} = {i \in DOMAIN f : f[i].of = t}
      BY <1>1 DEF FramesOf
    <2>3. Occurrences(f, FramesOf(t)) = Cardinality(Waiting(t))
      BY <1>1, <2>2 DEF Occurrences
    <2>4. {i \in DOMAIN own : own[i] \in FramesOf(t)} = {}
      BY <1>2, <1>3, StreamAssumption DEF FramesOf, Turns
    <2>5. Occurrences(own, FramesOf(t)) = 0
      BY <2>4, FS_EmptySet DEF Occurrences
    <2>6. Cardinality(Waiting(t)) \in Nat
      <3>1. IsFiniteSet(1..Len(queue)) /\ Waiting(t) \subseteq 1..Len(queue)
        BY FS_Interval DEF Waiting
      <3> QED
        BY <3>1, FS_Subset, FS_CardinalityType
    <2> QED
      BY <2>1, <2>3, <2>5, <2>6
  <1> QED
    BY <1>4, <1>7, <1>8, <1>9, <1>10 DEF k, f

(* Every delivery is an emission of such frames.                             *)
LEMMA DeliveriesAreSound ==
    ASSUME StreamTypes, NEW t \in Turns, Pump(t) \/ Delivers(t) \/ Finishes(t)
    PROVE  \E k \in Seq(Frames) :
             /\ Emit(t, k) /\ EndsOf(k) \subseteq {Len(k)}
             /\ \A i \in DOMAIN k :
                   /\ k[i].type = "error" => failed[t]
                   /\ k[i].type = "output" => Delivers(t)
                   /\ \/ k[i].of = 0
                      \/ /\ ~Finishes(t)
                         /\ \E j \in DOMAIN queue : queue[j] # Sentinel /\ k[i].of = queue[j]
             /\ ~Finishes(t) => Occurrences(k, FramesOf(t)) = Cardinality(Waiting(t))
             /\ Pump(t) => ~HasEnd(k)
             /\ Delivers(t) => HasEnd(k) \/ failed'[t]
             /\ Finishes(t) /\ failed[t] => HasEnd(k)
  <1>1. queue \in Seq(Turns \cup {Sentinel}) /\ failed \in [Turns -> BOOLEAN]
    BY DEF StreamTypes
  <1> DEFINE F == TraceFrames(queue)
  <1>2. F \in Seq(Frames) /\ F \o <<>> = F
    BY <1>1, TracesOfAQueue
  <1>3. CASE Pump(t)
    <2>1. PICK own \in {<<>>, <<Frame("timeout")>>} : Emit(t, F \o own)
      BY <1>3 DEF Pump
    <2>2. ~Delivers(t) /\ ~Finishes(t)
      BY <1>3 DEF Pump, Delivers, Finishes, Owns
    <2> HIDE DEF F
    <2>3. /\ F \o own \in Seq(Frames) /\ EndsOf(F \o own) \subseteq {Len(F \o own)}
          /\ HasEnd(F \o own) <=> own # <<>> /\ "timeout" \in Ends
          /\ \A i \in DOMAIN (F \o own) :
                /\ (F \o own)[i].type \in {"trace", "timeout"}
                /\ \/ (F \o own)[i].of = 0
                   \/ \E j \in DOMAIN queue : queue[j] # Sentinel /\ (F \o own)[i].of = queue[j]
          /\ \A u \in Turns : Occurrences(F \o own, FramesOf(u)) = Cardinality(Waiting(u))
      BY <1>1, FramesOfTheQueue DEF F
    <2>4. ~HasEnd(F \o own)
      BY <2>3 DEF Ends
    <2> DEFINE k == F \o own
    <2> HIDE DEF k
    <2> QED
      BY <1>3, <2>1, <2>2, <2>3, <2>4 DEF k
  <1>4. CASE Delivers(t)
    <2>1. PICK own \in {<<>>, <<Frame("output")>>} :
              Emit(t, F \o own) /\ (own = <<>> => failed'[t])
      <3>1. CASE Emit(t, F \o <<Frame("output")>>)
        BY <3>1
      <3>2. CASE failed' = [failed EXCEPT ![t] = TRUE] /\ Emit(t, F)
        BY <1>1, <1>2, <3>2
      <3> QED
        BY <1>4, <3>1, <3>2 DEF Delivers
    <2>2. ~Pump(t) /\ ~Finishes(t)
      BY <1>4 DEF Pump, Delivers, Finishes, Owns
    <2> HIDE DEF F
    <2>3. /\ F \o own \in Seq(Frames) /\ EndsOf(F \o own) \subseteq {Len(F \o own)}
          /\ HasEnd(F \o own) <=> own # <<>> /\ "output" \in Ends
          /\ \A i \in DOMAIN (F \o own) :
                /\ (F \o own)[i].type \in {"trace", "output"}
                /\ \/ (F \o own)[i].of = 0
                   \/ \E j \in DOMAIN queue : queue[j] # Sentinel /\ (F \o own)[i].of = queue[j]
          /\ \A u \in Turns : Occurrences(F \o own, FramesOf(u)) = Cardinality(Waiting(u))
      BY <1>1, FramesOfTheQueue DEF F
    <2>4. HasEnd(F \o own) \/ failed'[t]
      BY <2>1, <2>3 DEF Ends
    <2> DEFINE k == F \o own
    <2> HIDE DEF k
    <2> QED
      BY <1>4, <2>1, <2>2, <2>3, <2>4 DEF k
  <1>5. CASE Finishes(t)
    <2> DEFINE k == IF failed[t] THEN <<Frame("error")>> ELSE <<>>
    <2>1. Emit(t, k)
      BY <1>5 DEF Finishes
    <2>2. ~Pump(t) /\ ~Delivers(t)
      BY <1>5 DEF Pump, Delivers, Finishes, Owns
    <2>3. Frame("error") \in Frames /\ Frame("error").type = "error" /\ Frame("error").of = 0
      BY StreamAssumption DEF Frame, Frames
    <2>4. /\ k \in Seq(Frames)
          /\ \A i \in DOMAIN k : failed[t] /\ i = 1 /\ Len(k) = 1 /\ k[i] = Frame("error")
          /\ failed[t] => 1 \in DOMAIN k
      BY <2>3
    <2> HIDE DEF k
    <2>5. EndsOf(k) \subseteq {Len(k)}
      BY <2>4 DEF EndsOf
    <2>6. failed[t] => HasEnd(k)
      BY <2>3, <2>4 DEF HasEnd, EndsOf, Ends
    <2> QED
      BY <1>5, <2>1, <2>2, <2>3, <2>4, <2>5, <2>6
  <1> QED
    BY <1>3, <1>4, <1>5

LEMMA StreamInitially == StreamInit => StreamInv
  <1> SUFFICES ASSUME StreamInit PROVE StreamInv
    OBVIOUS
  <1>1. StreamTypes
    <2>1. /\ frames \in [Turns -> Seq(Frames)] /\ traces \in [Turns -> Seq(Turns)]
          /\ queue \in Seq(Turns \cup {Sentinel})
      BY DEF StreamInit
    <2>2. read \in [Turns -> Nat] /\ \A t \in Turns : read[t] <= Len(frames[t])
      BY DEF StreamInit
    <2>3. /\ kind \in [Turns -> {"none", "stream", "plain"}] /\ current \in 0..MaxTurns
          /\ made \in [Turns -> 0..MaxEvents]
      BY StreamAssumption DEF StreamInit
    <2>4. /\ task \in [Turns -> {"none", "work", "retire", "finish", "done"}]
          /\ failed \in [Turns -> BOOLEAN] /\ late \in BOOLEAN
          /\ ended \in [Turns -> BOOLEAN] /\ closed \in [Turns -> BOOLEAN]
          /\ reader \in [Turns -> {"reading", "done", "gone"}]
          /\ thread = "none" /\ past = {}
      BY DEF StreamInit
    <2> QED
      BY <2>1, <2>2, <2>3, <2>4 DEF StreamTypes
  <1>2. OneOwner
    BY DEF StreamInit, OneOwner
  <1>3. OnlyStreams
    BY DEF StreamInit, OnlyStreams
  <1>4. OneEnding
    BY DEF StreamInit, OneEnding, HasEnd, EndsOf
  <1>5. NoneMissing
    BY DEF StreamInit, NoneMissing, OutputFollowsItsTraces
  <1>6. OwnQueue
    BY DEF StreamInit, OwnQueue, Own
  <1> QED
    BY <1>1, <1>2, <1>3, <1>4, <1>5, <1>6 DEF StreamInv

(* A step is one of these. *)
StreamSteps ==
    \/ Puts \/ PutsSentinel \/ Returns \/ Raises
    \/ \E t \in Turns :
        \/ \E k \in {"stream", "plain"} : Begin(t, k)
        \/ Pump(t) \/ Delivers(t) \/ Finishes(t)
        \/ WorkFailed(t) \/ Collects(t) \/ Clears(t) \/ TrimFails(t) \/ Reads(t) \/ GoesAway(t)
    \/ UNCHANGED streamVars

LEMMA StepsOfTheStream == [StreamNext]_streamVars => StreamSteps
  BY Zenon DEF StreamNext, Worker, Owner, StreamSteps

(* What the deliveries leave alone, and what they append.                    *)
LEMMA DeliveriesAppend ==
    ASSUME StreamTypes, OneOwner, OneEnding, NEW t \in Turns, Pump(t) \/ Delivers(t) \/ Finishes(t)
    PROVE  /\ frames' \in [Turns -> Seq(Frames)] /\ ended' \in [Turns -> BOOLEAN]
           /\ \A u \in Turns \ {t} : frames'[u] = frames[u] /\ ended'[u] = ended[u]
           /\ \A u \in Turns : Len(frames[u]) <= Len(frames'[u])
           /\ ended'[t] <=> HasEnd(frames'[t])
           /\ EndsOf(frames'[t]) \subseteq {Len(frames'[t])}
           /\ ~closed[t]
           /\ ended[t] => frames'[t] = frames[t] /\ ended'[t]
           /\ \A i \in DOMAIN frames'[t] :
                 \/ i \in DOMAIN frames[t] /\ frames'[t][i] = frames[t][i]
                 \/ /\ frames'[t][i].type = "error" => failed[t]
                    /\ frames'[t][i].type = "output" => Delivers(t)
                    /\ \/ frames'[t][i].of = 0
                       \/ /\ ~Finishes(t)
                          /\ \E j \in DOMAIN queue :
                                queue[j] # Sentinel /\ frames'[t][i].of = queue[j]
           /\ ~Finishes(t) =>
                 /\ ~ended[t]
                 /\ Cardinality(Shown(t)') = Cardinality(Shown(t)) + Cardinality(Waiting(t))
           /\ Pump(t) => ~ended'[t]
           /\ Delivers(t) => ended'[t] \/ failed'[t]
           /\ Finishes(t) => (failed[t] => ended'[t])
  <1> DEFINE F == frames[t]
             G == frames'[t]
  <1>1. PICK k \in Seq(Frames) :
             /\ Emit(t, k) /\ EndsOf(k) \subseteq {Len(k)}
             /\ \A i \in DOMAIN k :
                   /\ k[i].type = "error" => failed[t]
                   /\ k[i].type = "output" => Delivers(t)
                   /\ \/ k[i].of = 0
                      \/ /\ ~Finishes(t)
                         /\ \E j \in DOMAIN queue : queue[j] # Sentinel /\ k[i].of = queue[j]
             /\ ~Finishes(t) => Occurrences(k, FramesOf(t)) = Cardinality(Waiting(t))
             /\ Pump(t) => ~HasEnd(k)
             /\ Delivers(t) => HasEnd(k) \/ failed'[t]
             /\ Finishes(t) /\ failed[t] => HasEnd(k)
    BY DeliveriesAreSound
  <1>2. /\ frames' \in [Turns -> Seq(Frames)] /\ ended' \in [Turns -> BOOLEAN]
        /\ \A u \in Turns \ {t} : frames'[u] = frames[u] /\ ended'[u] = ended[u]
        /\ closed[t] \/ ended[t] => G = F /\ ended'[t] = ended[t]
        /\ ~closed[t] /\ ~ended[t] => G = F \o k /\ ended'[t] = HasEnd(k)
        /\ ended'[t] <=> HasEnd(G)
        /\ EndsOf(G) \subseteq {Len(G)}
        /\ Len(F) <= Len(G)
    BY <1>1, EmitAppends
  <1>3. F \in Seq(Frames) /\ G \in Seq(Frames) /\ ended[t] \in BOOLEAN /\ closed[t] \in BOOLEAN
    BY <1>2 DEF StreamTypes
  <1>4. ~closed[t] /\ (~Finishes(t) => ~ended[t])
    BY DEF OneEnding, Pump, Delivers, Finishes, Owns
  <1>5. ended[t] => G = F /\ ended'[t]
    BY <1>2
  <1>6. \A u \in Turns : Len(frames[u]) <= Len(frames'[u])
    <2>1. \A u \in Turns : Len(frames[u]) \in Nat
      BY DEF StreamTypes
    <2> QED
      BY <1>2, <2>1
  <1>7. ASSUME NEW i \in DOMAIN G
        PROVE  \/ i \in DOMAIN F /\ G[i] = F[i]
               \/ /\ G[i].type = "error" => failed[t]
                  /\ G[i].type = "output" => Delivers(t)
                  /\ \/ G[i].of = 0
                     \/ /\ ~Finishes(t)
                        /\ \E j \in DOMAIN queue : queue[j] # Sentinel /\ G[i].of = queue[j]
    <2>1. CASE ended[t]
      BY <1>5, <1>7, <2>1
    <2>2. CASE ~ended[t]
      <3>1. G = F \o k
        BY <1>2, <1>4, <2>2
      <3>2. i \in DOMAIN F => G[i] = F[i]
        BY <1>3, <3>1
      <3>3. i \notin DOMAIN F => i - Len(F) \in DOMAIN k /\ G[i] = k[i - Len(F)]
        BY <1>3, <1>7, <3>1
      <3> HIDE DEF F, G
      <3> QED
        BY <1>1, <3>2, <3>3
    <2> QED
      BY <1>3, <2>1, <2>2
  <1>8. ASSUME ~Finishes(t)
        PROVE  Cardinality(Shown(t)') = Cardinality(Shown(t)) + Cardinality(Waiting(t))
    <2>1. G = F \o k
      BY <1>2, <1>4, <1>8
    <2>2. Occurrences(F \o k, FramesOf(t)) = Occurrences(F, FramesOf(t)) + Occurrences(k, FramesOf(t))
      BY <1>3, CountOfJoined
    <2>3. Shown(t) = {i \in DOMAIN F : F[i] \in FramesOf(t)}
      BY <1>3 DEF Shown, FramesOf
    <2>4. Shown(t)' = {i \in DOMAIN G : G[i] \in FramesOf(t)}
      BY <1>3 DEF Shown, FramesOf
    <2>5. Cardinality(Shown(t)) = Occurrences(F, FramesOf(t))
          /\ Cardinality(Shown(t)') = Occurrences(G, FramesOf(t))
      BY <2>3, <2>4 DEF Occurrences
    <2> QED
      BY <1>1, <1>8, <2>1, <2>2, <2>5
  <1>9. Pump(t) => ~ended'[t]
    <2>1. Pump(t) => ~Finishes(t)
      BY DEF Pump, Finishes, Owns
    <2> QED
      BY <1>1, <1>2, <1>4, <2>1
  <1>10. Delivers(t) => ended'[t] \/ failed'[t]
    <2>1. Delivers(t) => ~Finishes(t)
      BY DEF Delivers, Finishes, Owns
    <2> QED
      BY <1>1, <1>2, <1>4, <2>1
  <1>11. Finishes(t) => (failed[t] => ended'[t])
    BY <1>1, <1>2, <1>3, <1>4
  <1> QED
    BY <1>2, <1>4, <1>5, <1>6, <1>7, <1>8, <1>9, <1>10, <1>11

(* The variables keep their types. *)
LEMMA TypesFollow == StreamInv /\ [StreamNext]_streamVars => StreamTypes'
  <1> SUFFICES ASSUME StreamInv, StreamSteps PROVE StreamTypes'
    BY StepsOfTheStream
  <1> USE DEF delivery, clients
  <1>1. StreamTypes /\ OneOwner /\ OneEnding
    BY DEF StreamInv
  <1>2. current # 0 => current \in Turns
    BY <1>1, StreamAssumption DEF StreamTypes, Turns
  <1>3. CASE Puts
    <2>1. current \in Turns
      BY <1>1, <1>2, <1>3 DEF Puts, OneOwner
    <2>2. queue' \in Seq(Turns \cup {Sentinel})
      BY <1>1, <1>3, <2>1 DEF Puts, StreamTypes
    <2>3. made' \in [Turns -> 0..MaxEvents]
      BY <1>1, <1>3, <2>1, StreamAssumption DEF Puts, StreamTypes
    <2> QED
      BY <1>1, <1>3, <2>2, <2>3 DEF Puts, StreamTypes
  <1>4. CASE PutsSentinel
    <2>1. queue' \in Seq(Turns \cup {Sentinel})
      BY <1>1, <1>4 DEF PutsSentinel, StreamTypes
    <2> QED
      BY <1>1, <1>4, <2>1 DEF PutsSentinel, StreamTypes
  <1>5. CASE Returns
    BY <1>1, <1>5 DEF Returns, StreamTypes
  <1>6. CASE Raises
    BY <1>1, <1>6 DEF Raises, StreamTypes
  <1>7. CASE UNCHANGED streamVars
    BY <1>1, <1>7 DEF streamVars, StreamTypes
  <1>8. ASSUME NEW t \in Turns, NEW k \in {"stream", "plain"}, Begin(t, k) PROVE StreamTypes'
    <2>1. kind' \in [Turns -> {"none", "stream", "plain"}] /\ current' \in 0..MaxTurns
      BY <1>1, <1>8 DEF Begin, StreamTypes, Turns
    <2>2. task' \in [Turns -> {"none", "work", "retire", "finish", "done"}]
      BY <1>1, <1>8 DEF Begin, StreamTypes
    <2> QED
      BY <1>1, <1>8, <2>1, <2>2 DEF Begin, StreamTypes
  <1>9. ASSUME NEW t \in Turns, Pump(t) \/ Delivers(t) \/ Finishes(t) PROVE StreamTypes'
    <2>1. /\ frames' \in [Turns -> Seq(Frames)] /\ ended' \in [Turns -> BOOLEAN]
          /\ \A u \in Turns : Len(frames[u]) <= Len(frames'[u])
      BY <1>1, <1>9, DeliveriesAppend
    <2>2. \A u \in Turns : read[u] <= Len(frames'[u])
      <3>1. \A u \in Turns : /\ read[u] \in Nat /\ Len(frames[u]) \in Nat /\ Len(frames'[u]) \in Nat
                             /\ read[u] <= Len(frames[u])
        BY <1>1, <2>1 DEF StreamTypes
      <3> QED
        BY <2>1, <3>1
    <2>3. queue' \in Seq(Turns \cup {Sentinel}) /\ closed' \in [Turns -> BOOLEAN]
      <3>1. queue' = queue \/ queue' = <<>>
        BY <1>9 DEF Pump, Delivers, Finishes
      <3>2. closed' = closed \/ closed' = [closed EXCEPT ![t] = TRUE]
        BY <1>9 DEF Pump, Delivers, Finishes
      <3>3. closed \in [Turns -> BOOLEAN] /\ queue \in Seq(Turns \cup {Sentinel})
        BY <1>1 DEF StreamTypes
      <3>4. closed' \in [Turns -> BOOLEAN]
        BY <3>2, <3>3
      <3>5. <<>> \in Seq(Turns \cup {Sentinel})
        OBVIOUS
      <3> QED
        BY <3>1, <3>3, <3>4, <3>5
    <2>4. failed' \in [Turns -> BOOLEAN] /\ late' \in BOOLEAN
      <3>1. failed \in [Turns -> BOOLEAN] /\ late \in BOOLEAN
        BY <1>1 DEF StreamTypes
      <3>2. failed' = failed \/ failed' = [failed EXCEPT ![t] = TRUE]
        BY <1>9 DEF Pump, Delivers, Finishes
      <3>3. late' = late \/ \E passed \in BOOLEAN : late' = (late \/ passed)
        BY <1>9 DEF Pump, Delivers, Finishes
      <3> QED
        BY <3>1, <3>2, <3>3
    <2>5. task' \in [Turns -> {"none", "work", "retire", "finish", "done"}]
      <3>1. task \in [Turns -> {"none", "work", "retire", "finish", "done"}]
        BY <1>1 DEF StreamTypes
      <3>2. task' = task \/ \E at \in {"retire", "done"} : task' = [task EXCEPT ![t] = at]
        BY <1>9 DEF Pump, Delivers, Finishes
      <3> QED
        BY <3>1, <3>2
    <2>6. UNCHANGED <<kind, current, thread, made, clients, traces, past>>
      BY <1>9 DEF Pump, Delivers, Finishes
    <2> QED
      BY <1>1, <2>1, <2>2, <2>3, <2>4, <2>5, <2>6 DEF StreamTypes
  <1>10. ASSUME NEW t \in Turns, WorkFailed(t) \/ Clears(t) \/ TrimFails(t) PROVE StreamTypes'
    <2>1. /\ task' \in [Turns -> {"none", "work", "retire", "finish", "done"}]
          /\ failed' \in [Turns -> BOOLEAN] /\ current' \in 0..MaxTurns
          /\ thread' \in {"none", "runs", "ends", "returned", "raised"}
      <3>1. CASE WorkFailed(t)
        BY <1>1, <3>1 DEF WorkFailed, StreamTypes
      <3>2. CASE Clears(t)
        BY <1>1, <3>2, StreamAssumption DEF Clears, StreamTypes
      <3>3. CASE TrimFails(t)
        BY <1>1, <3>3 DEF TrimFails, StreamTypes
      <3> QED
        BY <1>10, <3>1, <3>2, <3>3
    <2>2. UNCHANGED <<kind, made, queue, late, delivery, clients, traces, past>>
      BY <1>10 DEF WorkFailed, Clears, TrimFails
    <2> QED
      BY <1>1, <2>1, <2>2 DEF StreamTypes
  <1>11. ASSUME NEW t \in Turns, Collects(t) PROVE StreamTypes'
    <2>1. PICK n \in 0..Len(queue) :
            /\ UpTo(queue, n)
            /\ traces' = [traces EXCEPT ![t] = SubSeq(queue, 1, n)]
            /\ queue' = SubSeq(queue, n + 2, Len(queue))
      BY <1>11 DEF Collects
    <2>2. queue \in Seq(Turns \cup {Sentinel})
      BY <1>1 DEF StreamTypes
    <2>3. queue' \in Seq(Turns \cup {Sentinel})
      BY <2>1, <2>2
    <2>4. SubSeq(queue, 1, n) \in Seq(Turns)
      <3>1. \A i \in 1..n : queue[i] \in Turns
        BY <2>1, <2>2 DEF UpTo
      <3> QED
        BY <2>1, <2>2, <3>1
    <2>5. traces' \in [Turns -> Seq(Turns)]
      BY <1>1, <2>1, <2>4 DEF StreamTypes
    <2> QED
      BY <1>1, <1>11, <2>3, <2>5 DEF Collects, StreamTypes
  <1>12. ASSUME NEW t \in Turns, Reads(t) PROVE StreamTypes'
    <2>1. read' \in [Turns -> Nat] /\ \A u \in Turns : read'[u] <= Len(frames[u])
      <3>1. \A u \in Turns : Len(frames[u]) \in Nat
        BY <1>1 DEF StreamTypes
      <3>2. read \in [Turns -> Nat] /\ \A u \in Turns : read[u] <= Len(frames[u])
        BY <1>1 DEF StreamTypes
      <3>3. \/ read[t] < Len(frames[t]) /\ read' = [read EXCEPT ![t] = @ + 1]
            \/ read' = read
        BY <1>12 DEF Reads
      <3> QED
        BY <3>1, <3>2, <3>3
    <2>2. reader' \in [Turns -> {"reading", "done", "gone"}]
      BY <1>1, <1>12 DEF Reads, StreamTypes
    <2>3. UNCHANGED <<kind, current, thread, made, queue, task, failed, late, delivery, traces, past>>
      BY <1>12 DEF Reads
    <2> QED
      BY <1>1, <2>1, <2>2, <2>3 DEF StreamTypes
  <1>13. ASSUME NEW t \in Turns, GoesAway(t) PROVE StreamTypes'
    BY <1>1, <1>13 DEF GoesAway, StreamTypes
  <1> QED
    BY <1>3, <1>4, <1>5, <1>6, <1>7, <1>8, <1>9, <1>10, <1>11, <1>12, <1>13 DEF StreamSteps

LEMMA OwnerFollows == StreamInv /\ [StreamNext]_streamVars => OneOwner'
  <1> SUFFICES ASSUME StreamInv, StreamSteps PROVE OneOwner'
    BY StepsOfTheStream
  <1> USE DEF delivery, clients, StreamTypes, OneOwner
  <1>1. StreamTypes /\ OneOwner
    BY DEF StreamInv
  <1>2. 0 \notin Turns
    BY StreamAssumption DEF Turns
  <1>3. CASE Puts \/ PutsSentinel \/ Returns \/ Raises \/ UNCHANGED streamVars
    BY <1>1, <1>2, <1>3 DEF Puts, PutsSentinel, Returns, Raises, streamVars
  <1>4. ASSUME NEW t \in Turns, NEW k \in {"stream", "plain"}, Begin(t, k) PROVE OneOwner'
    BY <1>1, <1>2, <1>4 DEF Begin
  <1>5. ASSUME NEW t \in Turns, Pump(t) \/ TrimFails(t) \/ Reads(t) \/ GoesAway(t)
        PROVE  OneOwner'
    BY <1>1, <1>2, <1>5 DEF Pump, TrimFails, Reads, GoesAway
  <1>6. ASSUME NEW t \in Turns, Delivers(t) \/ WorkFailed(t) \/ Collects(t) PROVE OneOwner'
    BY <1>1, <1>2, <1>6 DEF Delivers, WorkFailed, Collects, Owns
  <1>7. ASSUME NEW t \in Turns, Clears(t) PROVE OneOwner'
    BY <1>1, <1>2, <1>7 DEF Clears
  <1>8. ASSUME NEW t \in Turns, Finishes(t) PROVE OneOwner'
    BY <1>1, <1>2, <1>8 DEF Finishes
  <1> QED
    BY <1>3, <1>4, <1>5, <1>6, <1>7, <1>8 DEF StreamSteps

LEMMA OnlyStreamsFollow == StreamInv /\ [StreamNext]_streamVars => OnlyStreams'
  <1> SUFFICES ASSUME StreamInv, StreamSteps PROVE OnlyStreams'
    BY StepsOfTheStream
  <1> USE DEF delivery, clients, OnlyStreams
  <1>1. StreamTypes /\ OneOwner /\ OnlyStreams /\ OneEnding
    BY DEF StreamInv
  <1>2. /\ 0 \notin Turns /\ Sentinel \notin Turns
        /\ queue \in Seq(Turns \cup {Sentinel})
        /\ current # 0 => current \in Turns
    BY <1>1, StreamAssumption DEF StreamTypes, Turns
  <1>3. CASE Puts
    <2>1. current \in Turns /\ kind[current] # "none" /\ kind' = kind
      BY <1>1, <1>2, <1>3 DEF Puts, OneOwner
    <2>2. \A i \in DOMAIN queue' : queue'[i] # Sentinel => kind'[queue'[i]] # "none"
      BY <1>1, <1>2, <1>3, <2>1 DEF Puts
    <2>3. \A t \in Turns : kind[t] = "none" => made'[t] = 0
      BY <1>1, <1>3, <2>1 DEF Puts, StreamTypes
    <2> QED
      BY <1>1, <1>3, <2>1, <2>2, <2>3 DEF Puts
  <1>4. CASE PutsSentinel
    <2>1. \A i \in DOMAIN queue' : queue'[i] # Sentinel => kind'[queue'[i]] # "none"
      BY <1>1, <1>2, <1>4 DEF PutsSentinel
    <2> QED
      BY <1>1, <1>4, <2>1 DEF PutsSentinel
  <1>5. CASE Returns \/ Raises \/ UNCHANGED streamVars
    BY <1>1, <1>5 DEF Returns, Raises, streamVars
  <1>6. ASSUME NEW t \in Turns, NEW k \in {"stream", "plain"}, Begin(t, k) PROVE OnlyStreams'
    BY <1>1, <1>2, <1>6 DEF Begin, StreamTypes
  <1>7. ASSUME NEW t \in Turns, Pump(t) \/ Delivers(t) \/ Finishes(t) PROVE OnlyStreams'
    <2>1. kind[t] = "stream"
      BY <1>1, <1>7 DEF Pump, Delivers, Finishes, Owns, OneOwner
    <2>2. \A u \in Turns \ {t} : frames'[u] = frames[u] /\ ended'[u] = ended[u]
      BY <1>1, <1>7, DeliveriesAppend
    <2>3. /\ \A u \in Turns \ {t} : closed'[u] = closed[u]
          /\ queue' = <<>> \/ queue' = queue
          /\ UNCHANGED <<kind, made, traces>>
      BY <1>1, <1>7 DEF Pump, Delivers, Finishes, StreamTypes
    <2> QED
      BY <1>1, <2>1, <2>2, <2>3
  <1>8. ASSUME NEW t \in Turns, Collects(t) PROVE OnlyStreams'
    <2>1. PICK n \in 0..Len(queue) :
            /\ traces' = [traces EXCEPT ![t] = SubSeq(queue, 1, n)]
            /\ queue' = SubSeq(queue, n + 2, Len(queue))
      BY <1>8 DEF Collects
    <2>2. kind[t] = "plain"
      BY <1>8 DEF Collects, Owns
    <2>3. \A i \in DOMAIN queue' : i + n + 1 \in DOMAIN queue /\ queue'[i] = queue[i + n + 1]
      BY <1>2, <2>1
    <2>4. \A u \in Turns \ {t} : traces'[u] = traces[u]
      BY <1>1, <2>1 DEF StreamTypes
    <2> QED
      BY <1>1, <1>8, <2>2, <2>3, <2>4 DEF Collects
  <1>9. ASSUME NEW t \in Turns,
               WorkFailed(t) \/ Clears(t) \/ TrimFails(t) \/ Reads(t) \/ GoesAway(t)
        PROVE  OnlyStreams'
    BY <1>1, <1>9 DEF WorkFailed, Clears, TrimFails, Reads, GoesAway
  <1> QED
    BY <1>3, <1>4, <1>5, <1>6, <1>7, <1>8, <1>9 DEF StreamSteps

LEMMA OneEndingFollows == StreamInv /\ [StreamNext]_streamVars => OneEnding'
  <1> SUFFICES ASSUME StreamInv, StreamSteps PROVE OneEnding'
    BY StepsOfTheStream
  <1> USE DEF delivery, clients
  <1>1. StreamTypes /\ OneOwner /\ OnlyStreams /\ OneEnding
    BY DEF StreamInv
  <1> DEFINE Ending(u) ==
                /\ ended[u] <=> HasEnd(frames[u])
                /\ EndsOf(frames[u]) \subseteq {Len(frames[u])}
                /\ \A i \in DOMAIN frames[u] : frames[u][i].type = "error" => failed[u]
                /\ task[u] = "work" => ~ended[u]
                /\ task[u] \in {"retire", "finish"} /\ kind[u] = "stream" => ended[u] \/ failed[u]
                /\ closed[u] => ended[u] /\ task[u] = "done"
                /\ reader[u] = "done" => closed[u]
  <1>2. \A u \in Turns : Ending(u)
    BY <1>1 DEF OneEnding
  <1>3. SUFFICES ASSUME NEW u \in Turns PROVE Ending(u)'
    BY DEF OneEnding
  <1>4. Ending(u)
    BY <1>2
  <1>5. CASE \/ Puts \/ PutsSentinel \/ Returns \/ Raises \/ UNCHANGED streamVars
    <2>1. UNCHANGED <<kind, task, failed, frames, ended, closed, reader>>
      BY <1>5 DEF Puts, PutsSentinel, Returns, Raises, streamVars
    <2> QED
      BY <1>4, <2>1
  <1>6. ASSUME NEW t \in Turns, NEW k \in {"stream", "plain"}, Begin(t, k) PROVE Ending(u)'
    <2>1. UNCHANGED <<failed, frames, ended, closed, reader>>
      BY <1>6 DEF Begin
    <2>2. CASE u = t
      <3>1. ~ended[u] /\ ~closed[u]
        BY <1>1, <1>6, <2>2 DEF Begin, OnlyStreams
      <3>2. task'[u] = "work"
        BY <1>1, <1>6, <2>2 DEF Begin, StreamTypes
      <3> QED
        BY <1>4, <2>1, <3>1, <3>2
    <2>3. CASE u # t
      <3>1. kind'[u] = kind[u] /\ task'[u] = task[u]
        BY <1>1, <1>6, <2>3 DEF Begin, StreamTypes
      <3> QED
        BY <1>4, <2>1, <3>1
    <2> QED
      BY <2>2, <2>3
  <1>7. ASSUME NEW t \in Turns, Pump(t) \/ Delivers(t) \/ Finishes(t) PROVE Ending(u)'
    <2>1. CASE u # t
      <3>1. frames'[u] = frames[u] /\ ended'[u] = ended[u]
        BY <1>1, <1>7, <2>1, DeliveriesAppend
      <3>2. /\ failed'[u] = failed[u] /\ task'[u] = task[u] /\ closed'[u] = closed[u]
            /\ UNCHANGED <<kind, reader>>
        BY <1>1, <1>7, <2>1 DEF Pump, Delivers, Finishes, StreamTypes
      <3> QED
        BY <1>4, <3>1, <3>2
    <2>2. CASE u = t
      <3> DEFINE G == frames'[t]
      <3>1. /\ ended'[t] \in BOOLEAN /\ (ended'[t] <=> HasEnd(G)) /\ EndsOf(G) \subseteq {Len(G)}
            /\ ~closed[t]
            /\ ended[t] => G = frames[t] /\ ended'[t]
            /\ \A i \in DOMAIN G :
                  \/ i \in DOMAIN frames[t] /\ G[i] = frames[t][i]
                  \/ G[i].type = "error" => failed[t]
            /\ Pump(t) => ~ended'[t]
            /\ Delivers(t) => ended'[t] \/ failed'[t]
            /\ Finishes(t) => (failed[t] => ended'[t])
        BY <1>1, <1>7, DeliveriesAppend
      <3>2. failed[t] => failed'[t]
        BY <1>1, <1>7 DEF Pump, Delivers, Finishes, StreamTypes
      <3>3. \A i \in DOMAIN G : G[i].type = "error" => failed'[t]
        BY <1>4, <2>2, <3>1, <3>2
      <3>4. UNCHANGED <<kind, reader>> /\ reader[t] # "done"
        BY <1>4, <1>7, <2>2, <3>1 DEF Pump, Delivers, Finishes
      <3> HIDE DEF G
      <3>5. CASE Pump(t)
        <4>1. task'[t] = "work" /\ closed'[t] = closed[t]
          BY <3>5 DEF Pump, Owns
        <4> QED
          BY <2>2, <3>1, <3>3, <3>4, <3>5, <4>1 DEF G
      <3>6. CASE Delivers(t)
        <4>1. task'[t] = "retire" /\ closed'[t] = closed[t]
          BY <1>1, <3>6 DEF Delivers, StreamTypes
        <4> QED
          BY <2>2, <3>1, <3>3, <3>4, <3>6, <4>1 DEF G
      <3>7. CASE Finishes(t)
        <4>1. task'[t] = "done" /\ closed'[t] = TRUE
          BY <1>1, <3>7 DEF Finishes, StreamTypes
        <4>2. ended'[t]
          BY <1>1, <1>4, <2>2, <3>1, <3>7 DEF Finishes, OneOwner
        <4> QED
          BY <2>2, <3>1, <3>3, <3>4, <4>1, <4>2 DEF G
      <3> QED
        BY <1>7, <3>5, <3>6, <3>7
    <2> QED
      BY <2>1, <2>2
  <1>8. ASSUME NEW t \in Turns, WorkFailed(t) \/ TrimFails(t) PROVE Ending(u)'
    <2>1. UNCHANGED <<kind, frames, ended, closed, reader>>
      BY <1>8 DEF WorkFailed, TrimFails
    <2>2. CASE u # t
      <3>1. failed'[u] = failed[u] /\ task'[u] = task[u]
        BY <1>1, <1>8, <2>2 DEF WorkFailed, TrimFails, StreamTypes
      <3> QED
        BY <1>4, <2>1, <3>1
    <2>3. CASE u = t
      <3>1. failed'[u] /\ task'[u] = "retire" /\ task[u] # "done"
        BY <1>1, <1>8, <2>3 DEF WorkFailed, TrimFails, StreamTypes
      <3> QED
        BY <1>4, <2>1, <3>1
    <2> QED
      BY <2>2, <2>3
  <1>9. ASSUME NEW t \in Turns, Collects(t) \/ Clears(t) PROVE Ending(u)'
    <2>1. UNCHANGED <<kind, failed, frames, ended, closed, reader>>
      BY <1>9 DEF Collects, Clears
    <2>2. CASE u # t
      <3>1. task'[u] = task[u]
        BY <1>1, <1>9, <2>2 DEF Collects, Clears, StreamTypes
      <3> QED
        BY <1>4, <2>1, <3>1
    <2>3. CASE u = t /\ Collects(t)
      <3>1. kind[u] = "plain" /\ task'[u] = "retire" /\ ~closed[u]
        BY <1>1, <2>3 DEF Collects, Owns, StreamTypes, OnlyStreams
      <3> QED
        BY <1>4, <2>1, <3>1
    <2>4. CASE u = t /\ Clears(t)
      <3>1. task[u] = "retire" /\ ~closed[u]
        BY <1>4, <2>4 DEF Clears
      <3>2. task'[u] = (IF kind[u] = "stream" THEN "finish" ELSE "done")
        BY <1>1, <2>4 DEF Clears, StreamTypes
      <3> QED
        BY <1>4, <2>1, <3>1, <3>2
    <2> QED
      BY <1>9, <2>2, <2>3, <2>4
  <1>10. ASSUME NEW t \in Turns, Reads(t) \/ GoesAway(t) PROVE Ending(u)'
    <2>1. UNCHANGED <<kind, task, failed, frames, ended, closed>>
      BY <1>10 DEF Reads, GoesAway
    <2>2. reader'[u] = "done" => reader[u] = "done" \/ closed[u]
      BY <1>1, <1>10 DEF Reads, GoesAway, StreamTypes
    <2> QED
      BY <1>4, <2>1, <2>2
  <1> QED
    BY <1>5, <1>6, <1>7, <1>8, <1>9, <1>10 DEF StreamSteps

(* So a delivery that puts the output on a channel has put all events there. *)
LEMMA NoneMissingFollows == StreamInv /\ [StreamNext]_streamVars => NoneMissing'
  <1> SUFFICES ASSUME StreamInv, StreamSteps PROVE NoneMissing'
    BY StepsOfTheStream
  <1> USE DEF delivery, clients
  <1>1. StreamTypes /\ OneOwner /\ OnlyStreams /\ OneEnding /\ NoneMissing
    BY DEF StreamInv
  <1> DEFINE Complete(u) ==
                /\ kind[u] = "stream" /\ task[u] = "work" =>
                      Cardinality(Shown(u)) + Cardinality(Waiting(u)) = made[u]
                /\ (\E i \in DOMAIN frames[u] : frames[u][i] = Frame("output")) =>
                      Cardinality(Shown(u)) = made[u]
  <1>2. \A u \in Turns : Complete(u)
    BY <1>1 DEF NoneMissing, OutputFollowsItsTraces, Shown
  <1>3. SUFFICES ASSUME NEW u \in Turns PROVE Complete(u)'
    BY DEF NoneMissing, OutputFollowsItsTraces, Shown
  <1>4. Complete(u)
    BY <1>2
  <1>5. /\ 0 \notin Turns /\ Sentinel \notin Turns
        /\ queue \in Seq(Turns \cup {Sentinel})
        /\ current # 0 => current \in Turns
    BY <1>1, StreamAssumption DEF StreamTypes, Turns
  <1>6. Cardinality(Shown(u)) \in Nat /\ Cardinality(Waiting(u)) \in Nat
    <2>1. Len(frames[u]) \in Nat /\ Shown(u) \subseteq 1..Len(frames[u])
      BY <1>1 DEF Shown, StreamTypes
    <2>2. Len(queue) \in Nat /\ Waiting(u) \subseteq 1..Len(queue)
      BY <1>5 DEF Waiting
    <2>3. IsFiniteSet(1..Len(frames[u])) /\ IsFiniteSet(1..Len(queue))
      BY <2>1, <2>2, FS_Interval
    <2> HIDE DEF Shown, Waiting
    <2> QED
      BY <2>1, <2>2, <2>3, FS_Subset, FS_CardinalityType
  <1>7. ended[u] = FALSE => \A i \in DOMAIN frames[u] : frames[u][i] # Frame("output")
    BY <1>1 DEF OneEnding, HasEnd, EndsOf, Ends, Frame
  <1>8. CASE Puts \/ PutsSentinel
    <2>1. current \in Turns /\ UNCHANGED <<kind, task, frames>>
          /\ made' = [made EXCEPT ![current] = IF Puts THEN @ + 1 ELSE @]
          /\ queue' = Append(queue, IF Puts THEN current ELSE Sentinel)
      <3>1. thread = "runs"
        BY <1>8 DEF Puts, PutsSentinel
      <3>2. current \in Turns
        BY <1>1, <1>5, <3>1 DEF OneOwner
      <3>3. CASE Puts
        BY <3>2, <3>3 DEF Puts
      <3>4. CASE PutsSentinel /\ ~Puts
        BY <1>1, <3>2, <3>4 DEF PutsSentinel, StreamTypes
      <3> QED
        BY <1>8, <3>3, <3>4
    <2>2. made[u] \in Nat /\ Shown(u)' = Shown(u)
      BY <1>1, <2>1, StreamAssumption DEF StreamTypes, Shown
    <2>3. Cardinality(Waiting(u)') = Cardinality(Waiting(u)) + (IF Puts /\ u = current THEN 1 ELSE 0)
      <3> DEFINE x == IF Puts THEN current ELSE Sentinel
      <3>1. x \in Turns \cup {Sentinel} /\ {u} \subseteq Turns \cup {Sentinel}
            /\ (x \in {u} <=> Puts /\ u = current)
        BY <1>5, <2>1
      <3>2. queue' = Append(queue, x)
        BY <2>1
      <3> HIDE DEF x
      <3>3. Occurrences(queue', {u}) = Occurrences(queue, {u}) + (IF x \in {u} THEN 1 ELSE 0)
        BY <1>5, <3>1, <3>2, CountOfAppended
      <3>4. Waiting(u) = {i \in DOMAIN queue : queue[i] \in {u}}
            /\ Waiting(u)' = {i \in DOMAIN queue' : queue'[i] \in {u}}
        BY DEF Waiting
      <3> QED
        BY <3>1, <3>3, <3>4 DEF Occurrences
    <2>4. made'[u] = made[u] + (IF Puts /\ u = current THEN 1 ELSE 0)
      BY <1>1, <2>1, <2>2 DEF StreamTypes
    <2>5. u = current => ~ended[u]
      <3>1. thread = "runs"
        BY <1>8 DEF Puts, PutsSentinel
      <3> QED
        BY <1>1, <1>5, <2>1, <3>1 DEF OneOwner, OneEnding
    <2>6. ended[u] \in BOOLEAN
      BY <1>1 DEF StreamTypes
    <2> HIDE DEF Shown, Waiting
    <2> QED
      BY <1>4, <1>6, <1>7, <2>1, <2>2, <2>3, <2>4, <2>5, <2>6
  <1>9. CASE Returns \/ Raises \/ UNCHANGED streamVars
    <2>1. UNCHANGED <<kind, task, frames, queue, made>>
      BY <1>9 DEF Returns, Raises, streamVars
    <2> QED
      BY <1>4, <2>1 DEF Shown, Waiting
  <1>10. ASSUME NEW t \in Turns, NEW k \in {"stream", "plain"}, Begin(t, k) PROVE Complete(u)'
    <2>1. UNCHANGED <<frames, queue, made>>
      BY <1>10 DEF Begin
    <2>2. CASE u = t
      <3>1. kind[u] = "none" /\ frames[u] = <<>> /\ made[u] = 0
        BY <1>1, <1>10, <2>2 DEF Begin, OnlyStreams
      <3>2. Shown(u)' = {} /\ Waiting(u)' = {}
        BY <1>1, <1>5, <2>1, <3>1 DEF Shown, Waiting, OnlyStreams
      <3> QED
        BY <2>1, <3>1, <3>2, FS_EmptySet
    <2>3. CASE u # t
      <3>1. kind'[u] = kind[u] /\ task'[u] = task[u]
        BY <1>1, <1>10, <2>3 DEF Begin, StreamTypes
      <3> QED
        BY <1>4, <2>1, <3>1 DEF Shown, Waiting
    <2> QED
      BY <2>2, <2>3
  <1>11. ASSUME NEW t \in Turns, Pump(t) \/ Delivers(t) \/ Finishes(t) PROVE Complete(u)'
    <2>1. UNCHANGED <<kind, made>>
      BY <1>11 DEF Pump, Delivers, Finishes
    <2>2. CASE u # t
      <3>1. frames'[u] = frames[u] /\ task'[u] = task[u]
        BY <1>1, <1>11, <2>2, DeliveriesAppend DEF Pump, Delivers, Finishes, StreamTypes
      <3>2. task[u] # "work" \/ Finishes(t)
        BY <1>1, <1>5, <1>11, <2>2 DEF OneOwner, Pump, Delivers, Owns
      <3>3. Finishes(t) => queue' = queue
        BY DEF Finishes
      <3>4. Shown(u)' = Shown(u) /\ (queue' = queue => Waiting(u)' = Waiting(u))
        BY <3>1 DEF Shown, Waiting
      <3> HIDE DEF Shown, Waiting
      <3> QED
        BY <1>4, <2>1, <3>1, <3>2, <3>3, <3>4
    <2>3. CASE u = t
      <3> DEFINE G == frames'[t]
      <3>1. /\ ended[t] => G = frames[t]
            /\ \A i \in DOMAIN G :
                  \/ i \in DOMAIN frames[t] /\ G[i] = frames[t][i]
                  \/ G[i].type = "output" => Delivers(t)
            /\ ~Finishes(t) =>
                  /\ ~ended[t]
                  /\ Cardinality(Shown(t)') = Cardinality(Shown(t)) + Cardinality(Waiting(t))
        BY <1>1, <1>11, DeliveriesAppend
      <3>2. Frame("output").type = "output" /\ ended[t] \in BOOLEAN
        BY <1>1 DEF Frame, StreamTypes
      <3>3. CASE Pump(t) \/ Delivers(t)
        <4>1. ~Finishes(t) /\ kind[t] = "stream" /\ task[t] = "work" /\ queue' = <<>>
          BY <3>3 DEF Pump, Delivers, Finishes, Owns
        <4>2. Waiting(t)' = {}
          BY <4>1 DEF Waiting
        <4>3. Cardinality(Shown(t)') = made[t] /\ Cardinality(Waiting(t)') = 0
          BY <1>4, <2>3, <3>1, <4>1, <4>2, FS_EmptySet
        <4>4. made[t] \in Nat
          BY <1>1, StreamAssumption DEF StreamTypes
        <4> HIDE DEF Shown, Waiting
        <4> QED
          BY <2>1, <2>3, <4>3, <4>4
      <3>4. CASE Finishes(t)
        <4>1. task'[t] = "done" /\ ~Delivers(t)
          BY <1>1, <3>4 DEF Finishes, Delivers, Owns, StreamTypes
        <4>2. CASE ended[t]
          <5>1. Shown(t)' = Shown(t)
            BY <3>1, <4>2 DEF Shown
          <5> QED
            BY <1>4, <2>1, <2>3, <3>1, <4>1, <4>2, <5>1
        <4>3. CASE ~ended[t]
          <5>1. \A i \in DOMAIN G : G[i] # Frame("output")
            BY <1>7, <2>3, <3>1, <3>2, <4>1, <4>3
          <5> QED
            BY <2>3, <4>1, <5>1
        <4> QED
          BY <3>2, <4>2, <4>3
      <3> QED
        BY <1>11, <3>3, <3>4
    <2> QED
      BY <2>2, <2>3
  <1>12. ASSUME NEW t \in Turns, WorkFailed(t) \/ TrimFails(t) \/ Clears(t) \/ Reads(t) \/ GoesAway(t)
         PROVE  Complete(u)'
    <2>1. UNCHANGED <<kind, frames, queue, made>>
      BY <1>12 DEF WorkFailed, TrimFails, Clears, Reads, GoesAway
    <2>2. task'[u] = "work" => task[u] = "work"
      BY <1>1, <1>12 DEF WorkFailed, TrimFails, Clears, Reads, GoesAway, StreamTypes
    <2>3. Shown(u)' = Shown(u) /\ Waiting(u)' = Waiting(u)
      BY <2>1 DEF Shown, Waiting
    <2> QED
      BY <1>4, <2>1, <2>2, <2>3
  <1>13. ASSUME NEW t \in Turns, Collects(t) PROVE Complete(u)'
    <2>1. UNCHANGED <<kind, frames, made>>
      BY <1>13 DEF Collects
    <2>2. ~(kind'[u] = "stream" /\ task'[u] = "work")
      BY <1>1, <1>5, <1>13 DEF Collects, Owns, OneOwner, StreamTypes
    <2>3. Shown(u)' = Shown(u)
      BY <2>1 DEF Shown
    <2> QED
      BY <1>4, <2>1, <2>2, <2>3
  <1> QED
    BY <1>8, <1>9, <1>10, <1>11, <1>12, <1>13 DEF StreamSteps

LEMMA OwnQueueFollows == StreamInv /\ [StreamNext]_streamVars => OwnQueue'
  <1> SUFFICES ASSUME StreamInv, StreamSteps, past' = {} PROVE OwnQueue'
    BY StepsOfTheStream DEF OwnQueue
  <1> USE DEF delivery, clients
  <1>1. StreamTypes /\ OneOwner /\ OnlyStreams /\ OneEnding /\ OwnQueue
    BY DEF StreamInv
  <1>2. /\ 0 \notin Turns /\ Sentinel \notin Turns
        /\ queue \in Seq(Turns \cup {Sentinel})
        /\ current # 0 => current \in Turns
    BY <1>1, StreamAssumption DEF StreamTypes, Turns
  <1>3. past = {} /\ ~Raises
    <2>1. Raises => past' # {}
      BY DEF Raises
    <2>2. past' = past \/ Raises
      BY DEF StreamSteps, Puts, PutsSentinel, Returns, Begin, Pump, Delivers, Finishes, WorkFailed,
             Collects, Clears, TrimFails, Reads, GoesAway, streamVars
    <2> QED
      BY <2>1, <2>2
  <1> DEFINE Ordered == current # 0 => \A i \in DOMAIN queue :
                 queue[i] = current \/ (queue[i] = Sentinel /\ i = Len(queue) /\ thread # "runs")
             Sealed == current # 0 /\ task[current] = "work" /\ kind[current] = "plain"
                         /\ thread \in {"ends", "returned"} =>
                            queue # <<>> /\ queue[Len(queue)] = Sentinel
  <1>4. /\ thread # "raised"
        /\ \A t \in Turns : Own(t)
        /\ current = 0 => queue = <<>>
        /\ current # 0 /\ task[current] = "retire" => queue = <<>>
        /\ Ordered
        /\ Sealed
    BY <1>1, <1>3 DEF OwnQueue
  <1>5. CASE Puts
    <2>1. current \in Turns /\ current' = current /\ queue' = Append(queue, current)
          /\ task[current] = "work" /\ thread = "runs"
          /\ UNCHANGED <<kind, task, thread, frames, traces>>
      BY <1>1, <1>2, <1>5 DEF Puts, OneOwner
    <2>2. Ordered'
      BY <1>2, <1>4, <2>1
    <2>3. Sealed' /\ \A t \in Turns : Own(t)'
      BY <1>4, <2>1 DEF Own
    <2> QED
      BY <1>2, <1>3, <1>4, <2>1, <2>2, <2>3 DEF OwnQueue
  <1>6. CASE PutsSentinel
    <2>1. current \in Turns /\ current' = current /\ queue' = Append(queue, Sentinel)
          /\ task[current] = "work" /\ thread = "runs" /\ thread' = "ends"
          /\ UNCHANGED <<kind, task, frames, traces>>
      BY <1>1, <1>2, <1>6 DEF PutsSentinel, OneOwner
    <2>2. Ordered'
      BY <1>2, <1>4, <2>1
    <2>3. Sealed' /\ \A t \in Turns : Own(t)'
      BY <1>2, <1>4, <2>1 DEF Own
    <2> QED
      BY <1>2, <1>3, <1>4, <2>1, <2>2, <2>3 DEF OwnQueue
  <1>7. CASE Returns \/ UNCHANGED streamVars
    <2>1. /\ UNCHANGED <<kind, current, task, queue, frames, traces>>
          /\ thread' = thread \/ (thread = "ends" /\ thread' = "returned")
      BY <1>7 DEF Returns, streamVars
    <2>2. \A t \in Turns : Own(t)'
      BY <1>4, <2>1 DEF Own
    <2> QED
      BY <1>4, <2>1, <2>2 DEF OwnQueue
  <1>8. ASSUME NEW t \in Turns, NEW k \in {"stream", "plain"}, Begin(t, k) PROVE OwnQueue'
    <2>1. /\ queue = <<>> /\ queue' = queue /\ current' = t /\ thread' = "runs"
          /\ task'[t] = "work" /\ UNCHANGED <<frames, traces>>
      BY <1>1, <1>4, <1>8 DEF Begin, StreamTypes
    <2>2. \A u \in Turns : Own(u)'
      BY <1>4, <2>1 DEF Own
    <2>3. DOMAIN queue' = {}
      BY <2>1
    <2> QED
      BY <1>2, <2>1, <2>2, <2>3 DEF OwnQueue
  <1>9. ASSUME NEW t \in Turns, Pump(t) \/ Delivers(t) \/ Finishes(t) PROVE OwnQueue'
    <2>1. /\ frames' \in [Turns -> Seq(Frames)]
          /\ \A u \in Turns \ {t} : frames'[u] = frames[u]
          /\ \A i \in DOMAIN frames'[t] :
                \/ i \in DOMAIN frames[t] /\ frames'[t][i] = frames[t][i]
                \/ frames'[t][i].of = 0
                \/ /\ ~Finishes(t)
                   /\ \E j \in DOMAIN queue : queue[j] # Sentinel /\ frames'[t][i].of = queue[j]
      BY <1>1, <1>9, DeliveriesAppend
    <2>2. UNCHANGED <<current, thread, kind, traces>>
      BY <1>9 DEF Pump, Delivers, Finishes
    <2>3. ~Finishes(t) => current = t
      BY <1>9 DEF Pump, Delivers, Owns
    <2>4. \A u \in Turns : Own(u)'
      <3> TAKE u \in Turns
      <3>1. CASE u # t
        BY <1>4, <2>1, <2>2, <3>1 DEF Own
      <3>2. CASE u = t
        <4>1. \A i \in DOMAIN frames'[t] : frames'[t][i].of \in {0, t}
          BY <1>2, <1>4, <2>1, <2>3 DEF Own
        <4> QED
          BY <1>4, <2>2, <3>2, <4>1 DEF Own
      <3> QED
        BY <3>1, <3>2
    <2>5. CASE Finishes(t)
      <3>1. queue' = queue /\ (current # 0 => current # t)
        BY <1>1, <2>5 DEF Finishes, OneOwner
      <3>2. current # 0 => task'[current] = task[current]
        BY <1>1, <1>2, <2>5, <3>1 DEF Finishes, StreamTypes
      <3> QED
        BY <1>4, <2>2, <2>4, <3>1, <3>2 DEF OwnQueue
    <2>6. CASE ~Finishes(t)
      <3>1. queue' = <<>> /\ kind[t] = "stream" /\ current = t /\ t # 0
        BY <1>2, <1>9, <2>6 DEF Pump, Delivers, Owns
      <3>2. DOMAIN queue' = {}
        BY <3>1
      <3> QED
        BY <1>4, <2>2, <2>4, <3>1, <3>2 DEF OwnQueue
    <2> QED
      BY <2>5, <2>6
  <1>10. ASSUME NEW t \in Turns, Collects(t) PROVE OwnQueue'
    <2>1. PICK n \in 0..Len(queue) :
            /\ UpTo(queue, n)
            /\ traces' = [traces EXCEPT ![t] = SubSeq(queue, 1, n)]
            /\ queue' = SubSeq(queue, n + 2, Len(queue))
      BY <1>10 DEF Collects
    <2>2. /\ current = t /\ kind[t] = "plain" /\ task[t] = "work" /\ thread = "returned" /\ t # 0
          /\ UNCHANGED <<current, kind, thread, frames>> /\ task'[t] = "retire"
      BY <1>1, <1>2, <1>10 DEF Collects, Owns, StreamTypes
    <2>3. queue # <<>> /\ queue[Len(queue)] = Sentinel /\ Len(queue) \in Nat \ {0}
          /\ \A i \in DOMAIN queue : queue[i] = t \/ i = Len(queue)
      BY <1>2, <1>4, <2>2
    <2>4. n = Len(queue) - 1
      <3>1. n # Len(queue)
        <4>1. n = Len(queue) => queue[n] # Sentinel
          BY <2>1, <2>3 DEF UpTo
        <4> QED
          BY <2>3, <4>1
      <3>2. n + 1 \in DOMAIN queue /\ queue[n + 1] = Sentinel
        BY <1>2, <2>1, <3>1 DEF UpTo
      <3>3. n + 1 = Len(queue)
        BY <1>2, <2>2, <2>3, <3>2
      <3> QED
        BY <2>1, <2>3, <3>3
    <2>5. queue' = <<>>
      BY <1>2, <2>1, <2>3, <2>4
    <2>6. \A i \in DOMAIN SubSeq(queue, 1, n) : SubSeq(queue, 1, n)[i] = t
      BY <1>2, <2>1, <2>3, <2>4
    <2>7. \A u \in Turns : traces'[u] = IF u = t THEN SubSeq(queue, 1, n) ELSE traces[u]
      BY <1>1, <2>1 DEF StreamTypes
    <2>8. \A u \in Turns : Own(u)'
      BY <1>4, <2>2, <2>6, <2>7 DEF Own
    <2>9. DOMAIN queue' = {}
      BY <2>5
    <2> QED
      BY <2>2, <2>5, <2>8, <2>9 DEF OwnQueue
  <1>11. ASSUME NEW t \in Turns, WorkFailed(t) \/ Clears(t) PROVE OwnQueue'
    <2>1. Clears(t) /\ current = t /\ t # 0 /\ task[t] = "retire"
      BY <1>2, <1>4, <1>11 DEF WorkFailed, Clears
    <2>2. queue' = <<>> /\ current' = 0 /\ thread' = "none" /\ UNCHANGED <<frames, traces>>
      BY <1>4, <2>1 DEF Clears
    <2>3. \A u \in Turns : Own(u)'
      BY <1>4, <2>2 DEF Own
    <2> QED
      BY <2>2, <2>3 DEF OwnQueue
  <1>12. ASSUME NEW t \in Turns, TrimFails(t) \/ Reads(t) \/ GoesAway(t) PROVE OwnQueue'
    <2>1. UNCHANGED <<kind, current, thread, task, queue, frames, traces>>
      BY <1>12 DEF TrimFails, Reads, GoesAway
    <2>2. \A u \in Turns : Own(u)'
      BY <1>4, <2>1 DEF Own
    <2> QED
      BY <1>4, <2>1, <2>2 DEF OwnQueue
  <1> QED
    BY <1>3, <1>5, <1>6, <1>7, <1>8, <1>9, <1>10, <1>11, <1>12 DEF StreamSteps

LEMMA StreamInvariant == StreamSpec => []StreamInv
  <1>1. StreamInv /\ [StreamNext]_streamVars => StreamInv'
    BY TypesFollow, OwnerFollows, OnlyStreamsFollow, OneEndingFollows, NoneMissingFollows,
       OwnQueueFollows DEF StreamInv
  <1> QED
    BY StreamInitially, <1>1, PTL DEF StreamSpec

(* The variables of the stream keep their types, for any number of turns and *)
(* events.                                                                   *)
THEOREM StreamTypesHold == StreamSpec => []StreamTypes
  <1>1. StreamInv => StreamTypes
    BY DEF StreamInv
  <1> QED
    BY <1>1, StreamInvariant, PTL

(* A body that is read to its end has one ending, as its last frame, and the *)
(* output in it comes behind every event of its turn; before any work raised *)
(* a body shows no event of another turn (TurnStreamChannel, finish_stream,  *)
(* run_process_message_with_trace_stream, collect_trace_events).             *)
THEOREM BodiesStayWhole == StreamSpec => []BodiesAreWhole
  <1>1. StreamInv => BodiesAreWhole
    <2> SUFFICES ASSUME StreamInv PROVE BodiesAreWhole
      OBVIOUS
    <2>1. StreamTypes /\ OneEnding /\ NoneMissing /\ OwnQueue
      BY DEF StreamInv
    <2>2. EveryBodyHasOneEnd
      <3> SUFFICES ASSUME NEW t \in Turns, reader[t] = "done"
                   PROVE  /\ EndsOf(frames[t]) = {Len(frames[t])}
                          /\ frames[t][Len(frames[t])].type = "error" => failed[t]
        BY DEF EveryBodyHasOneEnd
      <3>1. EndsOf(frames[t]) # {} /\ EndsOf(frames[t]) \subseteq {Len(frames[t])}
        BY <2>1 DEF OneEnding, HasEnd
      <3>2. Len(frames[t]) \in DOMAIN frames[t]
        BY <3>1 DEF EndsOf
      <3> QED
        BY <2>1, <3>1, <3>2 DEF OneEnding
    <2>3. OutputFollowsItsTraces
      BY <2>1 DEF NoneMissing
    <2>4. CalmTracesAreOwn
      BY <2>1 DEF OwnQueue, CalmTracesAreOwn
    <2> QED
      BY <2>2, <2>3, <2>4 DEF BodiesAreWhole
  <1> QED
    BY <1>1, StreamInvariant, PTL
===========================================================================
