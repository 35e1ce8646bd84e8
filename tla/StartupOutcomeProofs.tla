------------------------ MODULE StartupOutcomeProofs ------------------------
(***************************************************************************)
(* Proofs about StartupOutcome for any number of clients and executions.   *)
(* Executions are numbered in the order they begin, so that the one at     *)
(* work is the latest; an outcome is in memory and on disk before anybody  *)
(* is told of it.                                                          *)
(***************************************************************************)
EXTENDS StartupOutcome, FiniteSetTheorems, TLAPS

Executions == [kind : {"none", "startup", "chat"},
               step : {"none", "runs", "ran", "committed", "done", "forgotten"},
               outcome : States]
Answers == [of : 0..MaxTurns, is : States \cup {"tokens", "running", "error"}]

Flawless == past \cap {"pinned", "unwritten"} = {}

(* Executions used are the first ones, the active one is the last of them,  *)
(* and every request under way has an execution left for it.                *)
Numbered ==
    \E n \in 0..MaxTurns :
        /\ Used = 1..n
        /\ n + Cardinality(InFlight) <= MaxTurns
        /\ lives <= n
        /\ active # 0 => active = n

(* Only the active execution is at work; what a startup came to is known    *)
(* once it ran.                                                             *)
Stages ==
    \A e \in Turns :
        /\ turns[e].step \in {"runs", "ran", "committed"} => e = active
        /\ turns[e].step \in {"ran", "committed", "done"} =>
              turns[e].kind = "startup" /\ turns[e].outcome # "not_attempted"
        /\ turns[e].kind = "startup" => turns[e].step # "none"

(* What a startup came to, once it is committed or the record is gone.      *)
Final(e) == e \in Startups /\ turns[e].step \in {"committed", "done", "forgotten"}

Waiting == \A c \in Clients : step[c] = "wait" => waits[c] \in Turns

(* What memory, disk and clients hold are outcomes of startups that ended.  *)
MemoryIsTrue == startup # "not_attempted" => \E e \in Turns : Final(e) /\ turns[e].outcome = startup
DiskIsTrue == disk # "not_attempted" => \E e \in Turns : Final(e) /\ turns[e].outcome = disk
ToldIsTrue ==
    \A c \in Clients : told[c].is \in States =>
        told[c].of \in Startups /\ turns[told[c].of].step \in {"done", "forgotten"}

(* A flawless history: memory is as the disk, and the disk as new as any    *)
(* outcome that is done or was told.                                        *)
AsNewAs(n, outcome) ==
    disk = outcome \/ \E e \in Turns : e > n /\ Final(e) /\ turns[e].outcome = disk
DiskIsNew ==
    Flawless =>
        /\ live => startup = disk
        /\ \A e \in Turns : turns[e].step \in {"committed", "done"} => AsNewAs(e, turns[e].outcome)
        /\ \A c \in Clients : told[c].is \in States => AsNewAs(told[c].of, told[c].is)

(* Without overlap a request in flight has a session to itself that has     *)
(* begun no startup.                                                        *)
Alone ==
    "overlap" \notin past =>
        /\ \A c, d \in InFlight : c = d
        /\ InFlight # {} => lives = 0
        /\ lives <= 1

Fits == ~live => lives = 0 /\ startup = "not_attempted"

IInv ==
    /\ TypeOK /\ Numbered /\ Stages /\ Waiting /\ Fits
    /\ MemoryIsTrue /\ DiskIsTrue /\ ToldIsTrue /\ DiskIsNew /\ Alone

-----------------------------------------------------------------------------
LEMMA InFlightFinite == IsFiniteSet(InFlight) /\ Cardinality(InFlight) \in Nat
  <1>1. InFlight \in SUBSET Clients
    BY DEF InFlight
  <1>2. IsFiniteSet(InFlight)
    BY <1>1, FS_Subset, StartupAssumption
  <1> QED
    BY <1>2, FS_CardinalityType

(* The next execution is the one after those begun, if there is one. *)
LEMMA NextIsFresh ==
    ASSUME NEW n \in Nat, Used = 1..n, n < MaxTurns
    PROVE  Fresh = n + 1 /\ Fresh \in Turns
  <1> USE StartupAssumption
  <1> DEFINE P(e) == e \in Turns /\ e \notin Used /\ \A o \in 1..(e - 1) : o \in Used
  <1>1. P(n + 1)
    BY DEF Turns
  <1>2. \A e : P(e) => e = n + 1
    <2> SUFFICES ASSUME NEW e, P(e) PROVE e = n + 1
      OBVIOUS
    <2>1. e \in Nat /\ e >= 1 /\ e > n
      BY DEF Turns
    <2>2. CASE e > n + 1
      <3>1. n + 1 \in 1..(e - 1)
        BY <2>1, <2>2
      <3> QED
        BY <3>1
    <2> QED
      BY <2>1, <2>2
  <1>3. Fresh = CHOOSE e : P(e)
    BY DEF Fresh
  <1> HIDE DEF P
  <1>4. P(CHOOSE e : P(e))
    BY <1>1
  <1>5. P(Fresh) /\ Fresh = n + 1
    BY <1>2, <1>3, <1>4
  <1> QED
    BY <1>5 DEF P

(* What Room promises, and a request under way keeps. *)
LEMMA RoomIsLeft ==
    ASSUME TypeOK, Numbered, Room \/ InFlight # {}
    PROVE  \E n \in 0..MaxTurns :
              /\ n < MaxTurns /\ Used = 1..n /\ Fresh = n + 1 /\ Fresh \in Turns
              /\ active # 0 => active = n
              /\ Room => n + Cardinality(InFlight) < MaxTurns
              /\ n + Cardinality(InFlight) <= MaxTurns /\ lives <= n
  <1> USE StartupAssumption
  <1>1. PICK n \in 0..MaxTurns :
            /\ Used = 1..n /\ n + Cardinality(InFlight) <= MaxTurns
            /\ lives <= n /\ (active # 0 => active = n)
    BY DEF Numbered
  <1>2. Cardinality(Used) = n
    BY <1>1, FS_Interval, n - 1 + 1 = n
  <1>3. Cardinality(InFlight) \in Nat /\ (InFlight # {} => Cardinality(InFlight) > 0)
    BY InFlightFinite, FS_EmptySet
  <1>4. n < MaxTurns /\ (Room => n + Cardinality(InFlight) < MaxTurns)
    BY <1>1, <1>2, <1>3 DEF Room
  <1>5. Fresh = n + 1 /\ Fresh \in Turns
    BY <1>1, <1>4, NextIsFresh
  <1> QED
    BY <1>1, <1>4, <1>5

(* The execution at work is the latest one. *)
LEMMA Latest ==
    ASSUME TypeOK, Numbered
    PROVE  \A e \in Turns : active # 0 /\ turns[e].step # "none" /\ e # active => e < active
  <1> USE StartupAssumption
  <1>1. PICK n \in 0..MaxTurns : Used = 1..n /\ (active # 0 => active = n)
    BY DEF Numbered
  <1>2. \A e \in Turns : turns[e].step # "none" => e \in 1..n
    BY <1>1 DEF Used
  <1> QED
    BY <1>1, <1>2

-----------------------------------------------------------------------------
(* The steps of a request. *)
RequestStep(c) == AskLive(c) \/ AskCold(c) \/ Create(c) \/ Submit(c) \/ Return(c)
TurnStep(e) ==
    \/ \E o \in States \ {"not_attempted"} : Work(e, o)
    \/ Commit(e) \/ Done(e) \/ Forget(e) \/ EndChat(e)

LEMMA NextSteps ==
    [Next]_vars <=> \/ \E c \in Clients : RequestStep(c)
                    \/ \E e \in Turns : TurnStep(e)
                    \/ Chat \/ Retire \/ Crash \/ UNCHANGED vars
  BY DEF Next, RequestStep, TurnStep

LEMMA InitHolds == Init => IInv
  <1> SUFFICES ASSUME Init PROVE IInv
    OBVIOUS
  <1> USE StartupAssumption
  <1>1. \A e \in Turns : turns[e] = NoTurn
    BY DEF Init
  <1>2. Used = {} /\ InFlight = {} /\ Startups = {}
    BY <1>1 DEF Init, Used, InFlight, Startups, NoTurn
  <1>3. TypeOK
    <2>1. live \in BOOLEAN /\ pinned \in BOOLEAN
      BY Zenon DEF Init
    <2>2. NoTurn \in Executions
      BY DEF NoTurn, States, Executions
    <2>3. turns \in [Turns -> Executions]
      BY <2>2 DEF Init
    <2>4. Nothing \in Answers
      BY DEF Nothing, Answers
    <2> QED
      BY <2>1, <2>3, <2>4 DEF Init, TypeOK, States, Executions, Answers
  <1>4. Numbered
    <2>1. 1..0 = {} /\ Cardinality({}) = 0
      BY FS_EmptySet
    <2> QED
      BY <1>2, <2>1 DEF Init, Numbered
  <1>5. Stages /\ Waiting /\ Fits /\ Alone
    BY <1>1, <1>2 DEF Init, Stages, Waiting, Fits, Alone, NoTurn
  <1>6. MemoryIsTrue /\ DiskIsTrue
    BY DEF Init, MemoryIsTrue, DiskIsTrue
  <1>7. ToldIsTrue /\ DiskIsNew
    BY <1>1 DEF Init, ToldIsTrue, DiskIsNew, Nothing, States, NoTurn
  <1> QED
    BY <1>3, <1>4, <1>5, <1>6, <1>7 DEF IInv

-----------------------------------------------------------------------------
LEMMA SubmitCases ==
    ASSUME NEW c \in Clients, Submit(c)
    PROVE  /\ c \in InFlight /\ UNCHANGED <<disk, past>>
           /\ ~live =>
                 Tell(c, [of |-> 0, is |-> "error"]) /\ UNCHANGED <<session, turns, active, lives>>
           /\ live /\ active = 0 =>
                 /\ turns' = [turns EXCEPT ![Fresh] =
                                 [kind |-> "startup", step |-> "runs", outcome |-> "not_attempted"]]
                 /\ active' = Fresh /\ lives' = lives + 1
                 /\ step' = [step EXCEPT ![c] = "wait"] /\ waits' = [waits EXCEPT ![c] = Fresh]
                 /\ UNCHANGED <<session, told>>
           /\ live /\ active # 0 /\ turns[active].kind = "startup" =>
                 /\ step' = [step EXCEPT ![c] = "wait"] /\ waits' = [waits EXCEPT ![c] = active]
                 /\ UNCHANGED <<session, turns, active, told, lives>>
           /\ live /\ active # 0 /\ turns[active].kind # "startup" =>
                 /\ turns[active].kind = "chat" /\ Tell(c, Answer(active)) /\ key' = active
                 /\ UNCHANGED <<live, startup, born, pinned, turns, active, lives>>
  <1>1. c \in InFlight
    BY DEF Submit, InFlight
  <1>2. "startup" # "chat"
    OBVIOUS
  <1> QED
    BY <1>1, <1>2, Zenon DEF Submit

LEMMA TypeStep == TypeOK /\ Numbered /\ Waiting /\ Numbered' /\ [Next]_vars => TypeOK'
  <1> SUFFICES ASSUME TypeOK, Numbered, Waiting, Numbered', [Next]_vars PROVE TypeOK'
    OBVIOUS
  <1> USE StartupAssumption
  <1>a. \A e \in 1..MaxTurns : Answer(e) \in Answers
    BY DEF Answer, Answers, TypeOK, Turns, States
  <1>b. Nothing \in Answers
    BY DEF Nothing, Answers
  <1>c. \A x \in Answers, c \in Clients :
           Tell(c, x) =>
              /\ told' \in [Clients -> Answers]
              /\ step' \in [Clients -> {"idle", "cold", "submit", "wait"}]
              /\ waits' \in [Clients -> 0..MaxTurns]
    BY DEF Tell, TypeOK, Answers
  <1>d. InFlight # {} \/ Room => Fresh \in Turns /\ Fresh # 0 /\ lives + 1 \in 0..MaxTurns
    BY RoomIsLeft DEF TypeOK, Turns
  <1>f. turns \in [Turns -> Executions] /\ told \in [Clients -> Answers]
    BY DEF TypeOK, Executions, Answers
  <1>e. TRUE \in BOOLEAN /\ FALSE \in BOOLEAN
    BY Zenon
  <1>1. ASSUME NEW c \in Clients, RequestStep(c) PROVE TypeOK'
    <2>1. CASE AskLive(c)
      <3>1. PICK x \in Answers : Tell(c, x)
        BY <2>1, <1>a, <1>b DEF AskLive, TypeOK
      <3>2. told' \in [Clients -> Answers]
            /\ step' \in [Clients -> {"idle", "cold", "submit", "wait"}]
            /\ waits' \in [Clients -> 0..MaxTurns]
        BY <3>1, <1>c
      <3>3. UNCHANGED <<session, disk, turns, active, lives, past>>
        BY <2>1 DEF AskLive
      <3> QED
        BY <3>2, <3>3 DEF TypeOK, Answers, session
    <2>2. CASE AskCold(c)
      BY <2>2 DEF AskCold, TypeOK, session
    <2>3. CASE Create(c)
      BY <2>3, <1>e DEF Create, Rehydrated, TypeOK, session
    <2>4. CASE Submit(c)
      <3>0. c \in InFlight
        BY <2>4 DEF Submit, InFlight
      <3>1. CASE ~live
        <4>1. [of |-> 0, is |-> "error"] \in Answers
          BY DEF Answers
        <4>2. told' \in [Clients -> Answers]
              /\ step' \in [Clients -> {"idle", "cold", "submit", "wait"}]
              /\ waits' \in [Clients -> 0..MaxTurns]
          BY <2>4, <3>1, <4>1, <1>c DEF Submit
        <4> QED
          BY <2>4, <3>1, <4>2 DEF Submit, TypeOK, Answers, session
      <3>2. CASE live /\ active = 0
        <4>1. [kind |-> "startup", step |-> "runs", outcome |-> "not_attempted"]
                 \in Executions
          BY DEF States, Executions
        <4>2. turns' = [turns EXCEPT ![Fresh] = [kind |-> "startup", step |-> "runs", outcome |-> "not_attempted"]]
          BY <2>4, <3>2 DEF Submit
        <4>3. turns' \in [Turns -> Executions]
              /\ turns'[Fresh].step = "runs"
          BY <4>1, <4>2, <1>d, <3>0, <1>f
        <4>4. /\ active' = Fresh /\ lives' = lives + 1
              /\ step' = [step EXCEPT ![c] = "wait"] /\ waits' = [waits EXCEPT ![c] = Fresh]
              /\ UNCHANGED <<session, told, disk, past>>
          BY <2>4, <3>2 DEF Submit
        <4> HIDE DEF Fresh
        <4> QED
          BY <3>2, <4>3, <4>4, <1>d, <3>0 DEF TypeOK, Executions, session, Turns
      <3>3. CASE live /\ active # 0 /\ turns[active].kind = "startup"
        <4>1. /\ step' = [step EXCEPT ![c] = "wait"] /\ waits' = [waits EXCEPT ![c] = active]
              /\ UNCHANGED <<session, turns, active, told, lives, disk, past>>
          BY <2>4, <3>3, SubmitCases
        <4> QED
          BY <4>1 DEF TypeOK, session
      <3>4. CASE live /\ active # 0 /\ turns[active].kind = "chat"
        <4>0. Tell(c, Answer(active)) /\ key' = active
              /\ UNCHANGED <<live, startup, born, pinned, turns, active, lives, disk, past>>
          BY <2>4, <3>4, SubmitCases
        <4>1. active \in 1..MaxTurns
          BY <3>4 DEF TypeOK
        <4>2. told' \in [Clients -> Answers]
              /\ step' \in [Clients -> {"idle", "cold", "submit", "wait"}]
              /\ waits' \in [Clients -> 0..MaxTurns]
          BY <4>0, <4>1, <1>a, <1>c
        <4> QED
          BY <4>0, <4>1, <4>2 DEF TypeOK, Answers
      <3> QED
        BY <2>4, <3>1, <3>2, <3>3, <3>4 DEF Submit
    <2>5. CASE Return(c)
      <3>1. waits[c] \in 0..MaxTurns /\ Answer(waits[c]) \in Answers
        BY <2>5, <1>a DEF Return, TypeOK, Waiting, Turns
      <3>2. told' \in [Clients -> Answers]
            /\ step' \in [Clients -> {"idle", "cold", "submit", "wait"}]
            /\ waits' \in [Clients -> 0..MaxTurns]
        BY <2>5, <3>1, <1>c DEF Return
      <3> QED
        BY <2>5, <3>1, <3>2 DEF Return, TypeOK, Answers
    <2> QED
      BY <1>1, <2>1, <2>2, <2>3, <2>4, <2>5 DEF RequestStep
  <1>2. ASSUME NEW e \in Turns, TurnStep(e) PROVE TypeOK'
    <2>1. ASSUME NEW o \in States, Work(e, o) PROVE TypeOK'
      <3>1. turns' = [turns EXCEPT ![e].step = "ran", ![e].outcome = o]
            /\ UNCHANGED <<live, startup, key, born, disk, active, clients, lives, past>>
            /\ pinned' \in BOOLEAN /\ active = e
        BY <2>1 DEF Work
      <3>2. turns' \in [Turns -> Executions] /\ turns'[e].step = "ran"
        BY <3>1, <2>1, <1>f DEF Executions
      <3> QED
        BY <3>1, <3>2, <1>e DEF TypeOK, Executions, clients
    <2>2. CASE Commit(e)
      <3>1. turns' = [turns EXCEPT ![e].step = "committed"] /\ turns[e].outcome \in States
        BY <2>2, <1>f DEF Commit, Executions
      <3>2. startup' \in States /\ disk' \in States /\ past' \subseteq {"pinned", "unwritten", "overlap"}
        BY <2>2, <3>1 DEF Commit, TypeOK
      <3>3. UNCHANGED <<live, key, born, pinned, active, clients, lives>>
        BY <2>2 DEF Commit
      <3> QED
        BY <3>1, <3>2, <3>3 DEF TypeOK, clients
    <2>3. CASE Done(e)
      BY <2>3 DEF Done, TypeOK, session, clients
    <2>4. CASE Forget(e)
      BY <2>4 DEF Forget, TypeOK, session, clients
    <2>5. CASE EndChat(e)
      BY <2>5, <1>e DEF EndChat, TypeOK, clients
    <2> QED
      BY <1>2, <2>1, <2>2, <2>3, <2>4, <2>5 DEF TurnStep
  <1>3. CASE Chat
    <2>1. [kind |-> "chat", step |-> "runs", outcome |-> "not_attempted"] \in Executions
      BY DEF Executions, States
    <2>2. turns' = [turns EXCEPT ![Fresh] = [kind |-> "chat", step |-> "runs", outcome |-> "not_attempted"]]
          /\ active' = Fresh /\ Fresh \in Turns
      BY <1>3, <1>d DEF Chat
    <2>3. turns' \in [Turns -> Executions] /\ turns'[Fresh].step = "runs" /\ active' \in 0..MaxTurns
      BY <2>1, <2>2, <1>f DEF Turns
    <2>4. /\ live' = TRUE /\ startup' \in States /\ born' \in States /\ key' \in 0..MaxTurns
          /\ pinned' \in BOOLEAN /\ lives' \in 0..MaxTurns
          /\ UNCHANGED <<disk, clients, past>>
      <3>1. CASE live /\ UNCHANGED <<session, lives>>
        BY <1>3, <3>1 DEF Chat, TypeOK, session
      <3>2. CASE ~live /\ Rehydrated
        BY <1>3, <3>2, <1>e DEF Chat, Rehydrated, TypeOK
      <3> QED
        BY <1>3, <3>1, <3>2 DEF Chat
    <2> HIDE DEF Fresh
    <2> QED
      BY <2>2, <2>3, <2>4, <1>e DEF TypeOK, clients, Executions
  <1>4. CASE Retire
    BY <1>4, <1>e DEF Retire, Gone, TypeOK, clients, States
  <1>5. CASE Crash
    <2>1. turns' \in [Turns -> Executions]
      BY <1>5, <1>f DEF Crash, Executions
    <2>2. step' \in [Clients -> {"idle", "cold", "submit", "wait"}] /\ waits' \in [Clients -> 0..MaxTurns]
      BY <1>5 DEF Crash
    <2>3. /\ live' = FALSE /\ pinned' = FALSE /\ startup' = "not_attempted" /\ born' = "not_attempted"
          /\ key' = 0 /\ lives' = 0 /\ active' = 0 /\ UNCHANGED <<disk, told, past>>
      BY <1>5 DEF Crash, Gone
    <2>4. live' \in BOOLEAN /\ pinned' \in BOOLEAN
      BY <2>3, <1>e, Zenon
    <2>5. startup' \in States /\ born' \in States
      BY <2>3 DEF States
    <2> QED
      BY <2>1, <2>2, <2>3, <2>4, <2>5 DEF TypeOK, Executions
  <1>6. CASE UNCHANGED vars
    BY <1>6 DEF vars, session, clients, TypeOK
  <1> QED
    BY <1>1, <1>2, <1>3, <1>4, <1>5, <1>6, NextSteps

-----------------------------------------------------------------------------
(* A request leaves the count of those under way as it is, or takes one of   *)
(* them, or adds one where there is room.                                    *)
LEMMA NumberedStep == TypeOK /\ Numbered /\ Stages /\ [Next]_vars => Numbered'
  <1> SUFFICES ASSUME TypeOK, Numbered, Stages, [Next]_vars PROVE Numbered'
    OBVIOUS
  <1> USE StartupAssumption
  <1>f. turns \in [Turns -> Executions] /\ step \in [Clients -> {"idle", "cold", "submit", "wait"}]
    BY DEF TypeOK, Executions
  <1>n. PICK n \in 0..MaxTurns :
            /\ Used = 1..n /\ n + Cardinality(InFlight) <= MaxTurns
            /\ lives <= n /\ (active # 0 => active = n)
    BY DEF Numbered
  <1>c. Cardinality(InFlight) \in Nat
    BY InFlightFinite
  <1>r. \A c \in Clients :
            /\ c \in InFlight => Cardinality(InFlight \ {c}) = Cardinality(InFlight) - 1
            /\ c \notin InFlight => Cardinality(InFlight \cup {c}) = Cardinality(InFlight) + 1
    BY InFlightFinite, FS_RemoveElement, FS_AddElement
  <1>s. ASSUME Used' = Used, Cardinality(InFlight') \in Nat, lives' \in {lives, 0},
               Cardinality(InFlight') + n <= MaxTurns, active' \in {active, 0}
        PROVE  Numbered'
    BY <1>s, <1>n DEF Numbered
  <1>b. ASSUME NEW x \in Executions, x.step = "runs", turns' = [turns EXCEPT ![Fresh] = x],
               active' = Fresh, n < MaxTurns, Cardinality(InFlight') \in Nat,
               Cardinality(InFlight') + n < MaxTurns, lives' \in {lives, lives + 1, 0}
        PROVE  Numbered'
    <2>1. Fresh = n + 1 /\ Fresh \in Turns
      BY <1>b, <1>n, NextIsFresh
    <2>2. Used' = Used \cup {n + 1}
      BY <1>b, <1>f, <2>1 DEF Used, Executions
    <2>3. Used' = 1..(n + 1) /\ n + 1 \in 0..MaxTurns
      BY <2>2, <1>n, <1>b
    <2> QED
      BY <1>b, <1>n, <2>1, <2>3 DEF Numbered, TypeOK
  <1>1. ASSUME NEW c \in Clients, RequestStep(c) PROVE Numbered'
    <2>t. ASSUME NEW x, Tell(c, x) PROVE InFlight' = InFlight \ {c}
      BY <2>t, <1>f DEF Tell, InFlight
    <2>w. ASSUME step' = [step EXCEPT ![c] = "wait"] PROVE InFlight' = InFlight \ {c}
      BY <2>w, <1>f DEF InFlight
    <2>1. CASE AskLive(c)
      <3>1. InFlight' = InFlight
        BY <2>1, <2>t, <1>f DEF AskLive, InFlight
      <3>2. Used' = Used /\ lives' = lives /\ active' = active
        BY <2>1 DEF AskLive, Used
      <3> QED
        BY <3>1, <3>2, <1>s, <1>n, <1>c
    <2>2. CASE AskCold(c)
      <3>1. InFlight' = InFlight \cup {c} /\ c \notin InFlight
        BY <2>2, <1>f DEF AskCold, InFlight
      <3>2. Cardinality(Used) = n
        BY <1>n, FS_Interval
      <3>3. Cardinality(InFlight') + n <= MaxTurns
        BY <2>2, <3>1, <3>2, <1>r, <1>c DEF AskCold, Room
      <3>4. Used' = Used /\ lives' = lives /\ active' = active
        BY <2>2 DEF AskCold, Used
      <3> QED
        BY <3>1, <3>3, <3>4, <1>s, <1>r, <1>c
    <2>3. CASE Create(c)
      <3>1. InFlight' = InFlight
        BY <2>3, <1>f DEF Create, InFlight
      <3>2. Used' = Used /\ lives' \in {lives, 0} /\ active' = active
        BY <2>3 DEF Create, Rehydrated, Used
      <3> QED
        BY <3>1, <3>2, <1>s, <1>n, <1>c
    <2>4. CASE Submit(c)
      <3>1. c \in InFlight /\ InFlight' = InFlight \ {c}
        BY <2>4, <2>t, <2>w, SubmitCases DEF TypeOK
      <3>2. Cardinality(InFlight') = Cardinality(InFlight) - 1 /\ Cardinality(InFlight) > 0
        BY <3>1, <1>r, <1>c, InFlightFinite, FS_EmptySet
      <3>3. CASE live /\ active = 0
        <4>1. [kind |-> "startup", step |-> "runs", outcome |-> "not_attempted"] \in Executions
          BY DEF Executions, States
        <4>2. Cardinality(InFlight') \in Nat /\ Cardinality(InFlight') + n < MaxTurns /\ n < MaxTurns
          BY <3>2, <1>c, <1>n
        <4> QED
          BY <2>4, <3>3, <4>1, <4>2, <1>b, <1>c, <1>n, SubmitCases
      <3>4. CASE ~(live /\ active = 0)
        <4>1. UNCHANGED <<turns, active, lives>>
          BY <2>4, <3>4, SubmitCases
        <4>2. Used' = Used
          BY <4>1 DEF Used
        <4> QED
          BY <4>1, <4>2, <3>2, <1>s, <1>n, <1>c
      <3> QED
        BY <3>3, <3>4
    <2>5. CASE Return(c)
      <3>1. InFlight' = InFlight
        BY <2>5, <2>t, <1>f DEF Return, InFlight
      <3>2. Used' = Used /\ lives' = lives /\ active' = active
        BY <2>5 DEF Return, Used
      <3> QED
        BY <3>1, <3>2, <1>s, <1>n, <1>c
    <2> QED
      BY <1>1, <2>1, <2>2, <2>3, <2>4, <2>5 DEF RequestStep
  <1>2. ASSUME NEW e \in Turns, TurnStep(e) PROVE Numbered'
    <2>1. InFlight' = InFlight /\ lives' = lives /\ active' \in {active, 0}
      BY <1>2 DEF TurnStep, Work, Commit, Done, Forget, EndChat, InFlight, clients
    <2>2. Used' = Used
      <3>1. \A f \in Turns : turns'[f].step # "none" <=> turns[f].step # "none"
        BY <1>2, <1>f DEF TurnStep, Work, Commit, Done, Forget, EndChat, Executions
      <3> QED
        BY <3>1 DEF Used
    <2> QED
      BY <2>1, <2>2, <1>s, <1>n, <1>c
  <1>3. CASE Chat
    <2>1. InFlight' = InFlight /\ lives' \in {lives, 0}
      BY <1>3 DEF Chat, InFlight, clients, Rehydrated
    <2>2. Cardinality(Used) = n
      BY <1>n, FS_Interval
    <2>3. n + Cardinality(InFlight) < MaxTurns
      BY <1>3, <2>2, <1>c DEF Chat, Room
    <2>4. [kind |-> "chat", step |-> "runs", outcome |-> "not_attempted"] \in Executions
      BY DEF Executions, States
    <2>5. turns' = [turns EXCEPT ![Fresh] = [kind |-> "chat", step |-> "runs", outcome |-> "not_attempted"]]
          /\ active' = Fresh
      BY <1>3 DEF Chat
    <2>6. Cardinality(InFlight') \in Nat /\ Cardinality(InFlight') + n < MaxTurns /\ n < MaxTurns
      BY <2>1, <2>3, <1>c
    <2> QED
      BY <2>1, <2>3, <2>4, <2>5, <2>6, <1>b, <1>c
  <1>4. CASE Retire
    <2>1. InFlight' = InFlight /\ Used' = Used /\ lives' = 0 /\ active' = active
      BY <1>4 DEF Retire, Gone, clients, InFlight, Used
    <2> QED
      BY <2>1, <1>s, <1>n, <1>c
  <1>5. CASE Crash
    <2>1. InFlight' = {}
      BY <1>5 DEF Crash, InFlight
    <2>2. \A f \in Turns : turns'[f].step # "none" <=> turns[f].step # "none"
      BY <1>5, <1>f DEF Crash, Executions
    <2>3. Used' = Used
      BY <2>2 DEF Used
    <2>4. lives' = 0 /\ active' = 0
      BY <1>5 DEF Crash, Gone
    <2> QED
      BY <2>1, <2>3, <2>4, <1>s, <1>n, <1>c, FS_EmptySet
  <1>6. CASE UNCHANGED vars
    <2>1. InFlight' = InFlight /\ Used' = Used /\ lives' = lives /\ active' = active
      BY <1>6 DEF vars, clients, InFlight, Used
    <2> QED
      BY <2>1, <1>s, <1>n, <1>c
  <1> QED
    BY <1>1, <1>2, <1>3, <1>4, <1>5, <1>6, NextSteps

(* What a step does to an execution. *)
LEMMA Fates ==
    ASSUME TypeOK, Numbered, Stages, [Next]_vars
    PROVE  /\ Stages'
           /\ \A f \in Turns :
                 /\ turns[f].step # "none" => turns'[f].kind = turns[f].kind
                 /\ Final(f) => Final(f)' /\ turns'[f].outcome = turns[f].outcome
                 /\ turns[f].step \in {"done", "forgotten"} => turns'[f].step \in {"done", "forgotten"}
  <1> USE StartupAssumption
  <1>f. turns \in [Turns -> Executions]
    BY DEF TypeOK, Executions
  <1> DEFINE Fate(f) ==
          /\ turns[f].step # "none" => turns'[f].kind = turns[f].kind
          /\ turns[f].step \in {"committed", "done", "forgotten"} =>
                turns'[f].step \in {"committed", "done", "forgotten"}
                /\ turns'[f].outcome = turns[f].outcome
          /\ turns[f].step \in {"done", "forgotten"} => turns'[f].step \in {"done", "forgotten"}
  <1>s. SUFFICES Stages' /\ \A f \in Turns : Fate(f)
    BY DEF Final, Startups
  <1>u. ASSUME turns' = turns, active' = active PROVE Stages' /\ \A f \in Turns : Fate(f)
    BY <1>u DEF Stages
  <1>b. ASSUME NEW x \in Executions, x.step = "runs", x.kind # "none",
               turns' = [turns EXCEPT ![Fresh] = x],
               active = 0, active' = Fresh, Room \/ InFlight # {}
        PROVE  Stages' /\ \A f \in Turns : Fate(f)
    <2>1. PICK n \in 0..MaxTurns : Used = 1..n /\ Fresh = n + 1 /\ Fresh \in Turns
      BY <1>b, RoomIsLeft
    <2>2. turns[Fresh].step = "none"
      BY <2>1 DEF Used
    <2> HIDE DEF Fresh
    <2> QED
      BY <1>b, <1>f, <2>1, <2>2 DEF Stages, Executions, Turns
  <1>1. ASSUME NEW c \in Clients, RequestStep(c) PROVE Stages' /\ \A f \in Turns : Fate(f)
    <2>1. CASE Submit(c)
      <3>1. CASE live /\ active = 0
        <4>1. [kind |-> "startup", step |-> "runs", outcome |-> "not_attempted"] \in Executions
          BY DEF Executions, States
        <4> QED
          BY <2>1, <3>1, <4>1, <1>b, SubmitCases
      <3>2. CASE ~(live /\ active = 0)
        BY <2>1, <3>2, <1>u, SubmitCases
      <3> QED
        BY <3>1, <3>2
    <2>2. CASE AskLive(c) \/ AskCold(c) \/ Create(c) \/ Return(c)
      BY <2>2, <1>u DEF AskLive, AskCold, Create, Return
    <2> QED
      BY <1>1, <2>1, <2>2 DEF RequestStep
  <1>2. ASSUME NEW e \in Turns, TurnStep(e) PROVE Stages' /\ \A f \in Turns : Fate(f)
    <2>1. ASSUME NEW o \in States \ {"not_attempted"}, Work(e, o) PROVE Stages' /\ \A f \in Turns : Fate(f)
      BY <2>1, <1>f DEF Work, Stages, Executions
    <2>2. CASE Commit(e)
      BY <2>2, <1>f DEF Commit, Stages, Executions
    <2>3. CASE Done(e)
      BY <2>3, <1>f DEF Done, Stages, Executions
    <2>4. CASE Forget(e)
      BY <2>4, <1>f DEF Forget, Stages, Executions
    <2>5. CASE EndChat(e)
      BY <2>5, <1>f DEF EndChat, Stages, Executions
    <2> QED
      BY <1>2, <2>1, <2>2, <2>3, <2>4, <2>5 DEF TurnStep
  <1>3. CASE Chat
    <2>1. [kind |-> "chat", step |-> "runs", outcome |-> "not_attempted"] \in Executions
      BY DEF Executions, States
    <2>2. /\ turns' = [turns EXCEPT ![Fresh] = [kind |-> "chat", step |-> "runs", outcome |-> "not_attempted"]]
          /\ active = 0 /\ active' = Fresh /\ Room
      BY <1>3 DEF Chat
    <2> QED
      BY <2>1, <2>2, <1>b
  <1>4. CASE Retire
    BY <1>4, <1>u DEF Retire
  <1>5. CASE Crash
    BY <1>5, <1>f DEF Crash, Stages, Executions
  <1>6. CASE UNCHANGED vars
    BY <1>6, <1>u DEF vars
  <1> QED
    BY <1>1, <1>2, <1>3, <1>4, <1>5, <1>6, NextSteps

LEMMA CommitsWhileLive ==
    ASSUME TypeOK, Stages, NEW e \in Turns, Commit(e)
    PROVE  active = e /\ live
  BY StartupAssumption DEF Commit, Stages, TypeOK, Turns

(* A request waits for an execution; without overlap it has a session that   *)
(* has begun no startup to itself until it submits.                          *)
LEMMA RequestsStep ==
    TypeOK /\ Numbered /\ Stages /\ Waiting /\ Fits /\ Alone /\ [Next]_vars
        => Waiting' /\ Fits' /\ Alone'
  <1> SUFFICES ASSUME TypeOK, Numbered, Stages, Waiting, Fits, Alone, [Next]_vars
               PROVE  Waiting' /\ Fits' /\ Alone'
    OBVIOUS
  <1> USE StartupAssumption
  <1>f. step \in [Clients -> {"idle", "cold", "submit", "wait"}] /\ waits \in [Clients -> 0..MaxTurns]
        /\ lives \in 0..MaxTurns /\ active \in 0..MaxTurns
    BY DEF TypeOK
  <1>1. ASSUME NEW c \in Clients, RequestStep(c) PROVE Waiting' /\ Fits' /\ Alone'
    <2>t. ASSUME NEW x, Tell(c, x) PROVE Waiting' /\ InFlight' = InFlight \ {c}
      BY <2>t, <1>f DEF Tell, InFlight, Waiting
    <2>w. ASSUME NEW e \in Turns, step' = [step EXCEPT ![c] = "wait"], waits' = [waits EXCEPT ![c] = e]
          PROVE  Waiting' /\ InFlight' = InFlight \ {c}
      BY <2>w, <1>f DEF InFlight, Waiting
    <2>1. CASE AskLive(c)
      <3>1. Waiting' /\ InFlight' = InFlight \ {c}
        BY <2>1, <2>t DEF AskLive
      <3> QED
        BY <2>1, <3>1 DEF AskLive, session, Fits, Alone
    <2>2. CASE AskCold(c)
      <3>1. InFlight' = InFlight \cup {c} /\ lives = 0
        BY <2>2, <1>f DEF AskCold, InFlight, Fits
      <3>2. "overlap" \notin past' => InFlight = {}
        BY <2>2 DEF AskCold
      <3> QED
        BY <2>2, <3>1, <3>2, <1>f DEF AskCold, session, Waiting, Fits, Alone
    <2>3. CASE Create(c)
      <3>1. InFlight' = InFlight
        BY <2>3, <1>f DEF Create, InFlight
      <3> QED
        BY <2>3, <3>1, <1>f DEF Create, Rehydrated, session, Waiting, Fits, Alone
    <2>4. CASE Submit(c)
      <3>0. c \in InFlight /\ past' = past
        BY <2>4, SubmitCases
      <3>1. CASE live /\ active = 0
        <4>1. Fresh \in Turns
          BY <3>0, RoomIsLeft
        <4>2. Waiting' /\ InFlight' = InFlight \ {c}
          BY <2>4, <3>1, <4>1, <2>w, SubmitCases
        <4>3. lives' = lives + 1 /\ live' = live /\ startup' = startup
          BY <2>4, <3>1, SubmitCases DEF session
        <4> QED
          BY <3>0, <3>1, <4>2, <4>3 DEF Fits, Alone
      <3>2. CASE ~(live /\ active = 0)
        <4>1. active # 0 => active \in Turns
          BY <1>f DEF Turns
        <4>2. Waiting' /\ InFlight' = InFlight \ {c}
          BY <2>4, <3>2, <4>1, <2>t, <2>w, SubmitCases DEF TypeOK
        <4>3. lives' = lives /\ live' = live /\ startup' = startup
          BY <2>4, <3>2, SubmitCases DEF session
        <4> QED
          BY <3>0, <4>2, <4>3 DEF Fits, Alone
      <3> QED
        BY <3>1, <3>2
    <2>5. CASE Return(c)
      <3>1. Waiting' /\ InFlight' = InFlight \ {c}
        BY <2>5, <2>t DEF Return
      <3> QED
        BY <2>5, <3>1 DEF Return, Fits, Alone
    <2> QED
      BY <1>1, <2>1, <2>2, <2>3, <2>4, <2>5 DEF RequestStep
  <1>2. ASSUME NEW e \in Turns, TurnStep(e) PROVE Waiting' /\ Fits' /\ Alone'
    <2>1. ASSUME NEW o \in States \ {"not_attempted"}, Work(e, o) PROVE Waiting' /\ Fits' /\ Alone'
      BY <2>1 DEF Work, Waiting, Fits, Alone, InFlight, clients
    <2>2. CASE Commit(e)
      <3>1. live
        BY <2>2, CommitsWhileLive DEF TypeOK
      <3> QED
        BY <2>2, <3>1 DEF Commit, Waiting, Fits, Alone, InFlight, clients
    <2>3. CASE Done(e)
      BY <2>3 DEF Done, Waiting, Fits, Alone, InFlight, clients, session
    <2>4. CASE Forget(e)
      BY <2>4 DEF Forget, Waiting, Fits, Alone, InFlight, clients, session
    <2>5. CASE EndChat(e)
      BY <2>5 DEF EndChat, Waiting, Fits, Alone, InFlight, clients
    <2> QED
      BY <1>2, <2>1, <2>2, <2>3, <2>4, <2>5 DEF TurnStep
  <1>3. CASE Chat
    BY <1>3, <1>f DEF Chat, Rehydrated, Waiting, Fits, Alone, InFlight, clients, session
  <1>4. CASE Retire
    BY <1>4, <1>f DEF Retire, Gone, Waiting, Fits, Alone, InFlight, clients
  <1>5. CASE Crash
    BY <1>5 DEF Crash, Gone, Waiting, Fits, Alone, InFlight
  <1>6. CASE UNCHANGED vars
    BY <1>6 DEF vars, Waiting, Fits, Alone, InFlight, clients, session
  <1> QED
    BY <1>1, <1>2, <1>3, <1>4, <1>5, <1>6, NextSteps

-----------------------------------------------------------------------------
(* Memory and disk hold outcomes of startups that ended: the disk is written *)
(* from the outcome or from memory, memory from the outcome or the disk.     *)
LEMMA HeldStep ==
    TypeOK /\ Numbered /\ Stages /\ MemoryIsTrue /\ DiskIsTrue /\ [Next]_vars
        => MemoryIsTrue' /\ DiskIsTrue'
  <1> SUFFICES ASSUME TypeOK, Numbered, Stages, MemoryIsTrue, DiskIsTrue, [Next]_vars
               PROVE  MemoryIsTrue' /\ DiskIsTrue'
    OBVIOUS
  <1> DEFINE Had(s) == s # "not_attempted" => \E e \in Turns : Final(e) /\ turns[e].outcome = s
             HasNow(s) == s # "not_attempted" => \E e \in Turns : Final(e)' /\ turns'[e].outcome = s
  <1>1. \A s : Had(s) => HasNow(s)
    BY Fates
  <1>2. Had(startup) /\ Had(disk) /\ Had("not_attempted")
    BY DEF MemoryIsTrue, DiskIsTrue
  <1>3. HasNow(startup) /\ HasNow(disk) /\ HasNow("not_attempted")
    BY <1>1, <1>2
  <1>4. ASSUME NEW e \in Turns, Commit(e) PROVE HasNow(turns[e].outcome)
    BY <1>4 DEF Commit, Final, Startups, TypeOK
  <1>5. \/ startup' \in {startup, disk, "not_attempted"}
        \/ \E e \in Turns : Commit(e) /\ startup' = turns[e].outcome
    <2>1. ASSUME NEW c \in Clients, RequestStep(c) PROVE startup' \in {startup, disk}
      <3>1. CASE AskLive(c) \/ AskCold(c) \/ Create(c) \/ Return(c)
        BY <3>1 DEF AskLive, AskCold, Create, Return, Rehydrated, session
      <3>2. CASE Submit(c)
        BY <3>2 DEF Submit, session
      <3> QED
        BY <2>1, <3>1, <3>2 DEF RequestStep
    <2>2. ASSUME NEW e \in Turns, TurnStep(e) PROVE startup' = startup \/ (Commit(e) /\ startup' = turns[e].outcome)
      BY <2>2 DEF TurnStep, Work, Commit, Done, Forget, EndChat, session
    <2>3. CASE Chat \/ Retire \/ Crash \/ UNCHANGED vars
      BY <2>3 DEF Chat, Retire, Crash, Rehydrated, Gone, vars, session
    <2> QED
      BY <2>1, <2>2, <2>3, NextSteps
  <1>6. \/ disk' \in {disk, startup}
        \/ \E e \in Turns : Commit(e) /\ disk' = turns[e].outcome
    <2>1. ASSUME NEW c \in Clients, RequestStep(c) PROVE disk' = disk
      BY <2>1 DEF RequestStep, AskLive, AskCold, Create, Return, Submit
    <2>2. ASSUME NEW e \in Turns, TurnStep(e) PROVE disk' = disk \/ (Commit(e) /\ disk' = turns[e].outcome)
      BY <2>2 DEF TurnStep, Work, Commit, Done, Forget, EndChat
    <2>3. CASE Chat \/ Retire \/ Crash \/ UNCHANGED vars
      BY <2>3 DEF Chat, Retire, Crash, vars
    <2> QED
      BY <2>1, <2>2, <2>3, NextSteps
  <1>7. HasNow(startup')
    BY <1>3, <1>4, <1>5
  <1>8. HasNow(disk')
    BY <1>3, <1>4, <1>6
  <1> QED
    BY <1>7, <1>8 DEF MemoryIsTrue, DiskIsTrue

(* What a client is told comes from an execution that ended, or the process  *)
(* that told it is gone.                                                     *)
LEMMA ToldStep ==
    ASSUME TypeOK, Numbered, Stages, Waiting, ToldIsTrue, [Next]_vars
    PROVE  /\ ToldIsTrue'
           /\ \A c \in Clients : told'[c].is \in States =>
                 \/ told'[c] = told[c]
                 \/ /\ told'[c].of \in Turns /\ turns[told'[c].of].step = "done"
                    /\ told'[c].is = turns[told'[c].of].outcome
  <1> USE StartupAssumption
  <1>f. told \in [Clients -> Answers]
    BY DEF TypeOK, Answers
  <1>a. \A e \in Turns : Answer(e).of = e /\ (Answer(e).is \in States => turns[e].step = "done" /\ Answer(e).is = turns[e].outcome)
    BY DEF Answer, States
  <1>b. Nothing.is \notin States
    BY DEF Nothing, States
  <1>c. "error" \notin States
    BY DEF States
  <1> DEFINE New(x) == x.is \in States => x.of \in Turns /\ turns[x.of].step = "done"
                                          /\ x.is = turns[x.of].outcome
  <1>n. \A e \in Turns : New(Answer(e))
    BY <1>a
  <1>1. \/ told' = told
        \/ \E c \in Clients : \E x : New(x) /\ told' = [told EXCEPT ![c] = x]
    <2>1. ASSUME NEW c \in Clients, RequestStep(c)
          PROVE  told' = told \/ \E x : New(x) /\ told' = [told EXCEPT ![c] = x]
      <3>1. CASE AskLive(c)
        <4>1. \A e \in 0..MaxTurns : e # 0 => e \in Turns
          BY DEF Turns
        <4>2. PICK x : Tell(c, x) /\ New(x)
          BY <3>1, <4>1, <1>n, <1>b DEF AskLive, TypeOK
        <4> QED
          BY <4>2 DEF Tell
      <3>2. CASE AskCold(c) \/ Create(c)
        BY <3>2 DEF AskCold, Create
      <3>3. CASE Return(c)
        <4>1. waits[c] \in Turns /\ Tell(c, Answer(waits[c]))
          BY <3>3 DEF Return, Waiting
        <4> QED
          BY <4>1, <1>n DEF Tell
      <3>4. CASE Submit(c)
        <4>1. active # 0 => active \in Turns
          BY DEF TypeOK, Turns
        <4>2. told' = told \/ Tell(c, [of |-> 0, is |-> "error"]) \/ (active \in Turns /\ Tell(c, Answer(active)))
          BY <3>4, <4>1, SubmitCases DEF TypeOK
        <4>3. New([of |-> 0, is |-> "error"])
          BY <1>c
        <4> QED
          BY <4>2, <4>3, <1>n DEF Tell
      <3> QED
        BY <2>1, <3>1, <3>2, <3>3, <3>4 DEF RequestStep
    <2>2. ASSUME NEW e \in Turns, TurnStep(e) PROVE told' = told
      BY <2>2 DEF TurnStep, Work, Commit, Done, Forget, EndChat, clients
    <2>3. CASE Chat \/ Retire \/ Crash \/ UNCHANGED vars
      BY <2>3 DEF Chat, Retire, Crash, vars, clients
    <2> QED
      BY <2>1, <2>2, <2>3, NextSteps
  <1>2. \A c \in Clients : told'[c] = told[c] \/ New(told'[c])
    BY <1>1, <1>f
  <1>3. \A e \in Startups : turns[e].step \in {"done", "forgotten"} =>
            e \in Startups' /\ turns'[e].step \in {"done", "forgotten"}
    BY Fates DEF Startups
  <1>4. \A e \in Turns : turns[e].step = "done" => e \in Startups
    BY DEF Stages, Startups
  <1> HIDE DEF New
  <1>5. ToldIsTrue'
    <2> SUFFICES ASSUME NEW c \in Clients, told'[c].is \in States
                 PROVE  told'[c].of \in Startups' /\ turns'[told'[c].of].step \in {"done", "forgotten"}
      BY DEF ToldIsTrue, States
    <2>1. CASE told'[c] = told[c]
      BY <2>1, <1>3 DEF ToldIsTrue
    <2>2. CASE New(told'[c])
      BY <2>2, <1>3, <1>4 DEF New
    <2> QED
      BY <2>1, <2>2, <1>2
  <1> QED
    BY <1>2, <1>5 DEF New

(* An outcome is on disk, or a later one, from its commit on. *)
LEMMA DiskStep ==
    TypeOK /\ Numbered /\ Stages /\ Waiting /\ Fits /\ ToldIsTrue /\ DiskIsNew /\ [Next]_vars => DiskIsNew'
  <1> DEFINE Newer(n, s) == disk' = s \/ \E e \in Turns : e > n /\ Final(e)' /\ turns'[e].outcome = disk'
             Goal == /\ live' => startup' = disk'
                     /\ \A e \in Turns : turns'[e].step \in {"committed", "done"} =>
                            Newer(e, turns'[e].outcome)
                     /\ \A c \in Clients : told'[c].is \in States => Newer(told'[c].of, told'[c].is)
  <1> SUFFICES ASSUME TypeOK, Numbered, Stages, Waiting, Fits, ToldIsTrue, DiskIsNew, [Next]_vars,
                      Flawless'
               PROVE  Goal
    BY DEF DiskIsNew, States, AsNewAs, Turns
  <1> USE StartupAssumption
  <1>f. turns \in [Turns -> Executions] /\ told \in [Clients -> Answers]
    BY DEF TypeOK, Executions, Answers
  <1>p. Flawless
    <2>1. past \subseteq past'
      <3>1. ASSUME NEW c \in Clients, RequestStep(c) PROVE past \subseteq past'
        BY <3>1 DEF RequestStep, AskLive, AskCold, Create, Return, Submit
      <3>2. ASSUME NEW e \in Turns, TurnStep(e) PROVE past \subseteq past'
        BY <3>2 DEF TurnStep, Work, Commit, Done, Forget, EndChat
      <3>3. CASE Chat \/ Retire \/ Crash \/ UNCHANGED vars
        BY <3>3 DEF Chat, Retire, Crash, vars
      <3> QED
        BY <3>1, <3>2, <3>3, NextSteps
    <2> QED
      BY <2>1 DEF Flawless
  <1>o. /\ live => startup = disk
        /\ \A e \in Turns : turns[e].step \in {"committed", "done"} => AsNewAs(e, turns[e].outcome)
        /\ \A c \in Clients : told[c].is \in States => AsNewAs(told[c].of, told[c].is)
    BY <1>p DEF DiskIsNew
  <1>s. ASSUME disk' = disk PROVE \A n, s : AsNewAs(n, s) => Newer(n, s)
    BY <1>s, Fates DEF AsNewAs
  <1>t. \A c \in Clients : told'[c].is \in States =>
                 \/ told'[c] = told[c]
                 \/ /\ told'[c].of \in Turns /\ turns[told'[c].of].step = "done"
                    /\ told'[c].is = turns[told'[c].of].outcome
    BY ToldStep
  (* A step that commits nothing and leaves the disk. *)
  <1>q. ASSUME disk' = disk, live' => startup' = disk',
               \A e \in Turns : turns'[e].step \in {"committed", "done"} =>
                  turns[e].step \in {"committed", "done"} /\ turns'[e].outcome = turns[e].outcome
        PROVE  /\ live' => startup' = disk'
               /\ \A e \in Turns : turns'[e].step \in {"committed", "done"} =>
                            Newer(e, turns'[e].outcome)
               /\ \A c \in Clients : told'[c].is \in States => Newer(told'[c].of, told'[c].is)
    <2>1. \A e \in Turns : turns'[e].step \in {"committed", "done"} => Newer(e, turns'[e].outcome)
      BY <1>q, <1>o, <1>s
    <2>2. \A c \in Clients : told'[c].is \in States => AsNewAs(told'[c].of, told'[c].is)
      BY <1>o, <1>t
    <2>3. \A c \in Clients : told'[c].is \in States => Newer(told'[c].of, told'[c].is)
      BY <1>q, <1>s, <2>2
    <2> QED
      BY <1>q, <2>1, <2>3
  <1>b. ASSUME NEW x \in Executions, x.step = "runs", turns' = [turns EXCEPT ![Fresh] = x]
        PROVE  \A e \in Turns : turns'[e].step \in {"committed", "done"} =>
                  turns[e].step \in {"committed", "done"} /\ turns'[e].outcome = turns[e].outcome
    <2> HIDE DEF Fresh
    <2> QED
      BY <1>b, <1>f DEF Executions
  <1> HIDE DEF Newer
  <1>1. ASSUME NEW c \in Clients, RequestStep(c) PROVE Goal
    <2>1. CASE AskLive(c) \/ AskCold(c) \/ Create(c) \/ Return(c)
      <3>1. disk' = disk /\ turns' = turns /\ (live' => startup' = disk')
        BY <2>1, <1>o DEF AskLive, AskCold, Create, Return, Rehydrated, session
      <3> QED
        BY <3>1, <1>q
    <2>2. CASE Submit(c)
      <3>1. disk' = disk /\ live' = live /\ startup' = startup
        BY <2>2, SubmitCases DEF session, TypeOK
      <3>2. CASE live /\ active = 0
        <4>1. [kind |-> "startup", step |-> "runs", outcome |-> "not_attempted"] \in Executions
          BY DEF Executions, States
        <4>2. \A e \in Turns : turns'[e].step \in {"committed", "done"} =>
                 turns[e].step \in {"committed", "done"} /\ turns'[e].outcome = turns[e].outcome
          BY <2>2, <3>2, <4>1, <1>b, SubmitCases
        <4> QED
          BY <3>1, <4>2, <1>o, <1>q
      <3>3. CASE ~(live /\ active = 0)
        <4>1. turns' = turns
          BY <2>2, <3>3, SubmitCases
        <4> QED
          BY <3>1, <4>1, <1>o, <1>q
      <3> QED
        BY <3>2, <3>3
    <2> QED
      BY <1>1, <2>1, <2>2 DEF RequestStep
  <1>2. ASSUME NEW e \in Turns, TurnStep(e) PROVE Goal
    <2>1. ASSUME NEW o \in States \ {"not_attempted"}, Work(e, o) PROVE Goal
      <3>1. disk' = disk /\ live' = live /\ startup' = startup
        BY <2>1 DEF Work
      <3>2. \A f \in Turns : turns'[f].step \in {"committed", "done"} =>
                 turns[f].step \in {"committed", "done"} /\ turns'[f].outcome = turns[f].outcome
        BY <2>1, <1>f DEF Work, Executions
      <3> QED
        BY <3>1, <3>2, <1>o, <1>q
    <2>2. CASE Commit(e)
      <3>1. active = e /\ live
        BY <2>2, CommitsWhileLive
      <3>2. disk' = turns[e].outcome /\ startup' = turns[e].outcome
        BY <2>2 DEF Commit, Flawless
      <3>3. turns' = [turns EXCEPT ![e].step = "committed"] /\ told' = told
            /\ turns[e].kind = "startup" /\ turns[e].step = "ran"
        BY <2>2 DEF Commit, clients
      <3>4. Final(e)' /\ turns'[e].outcome = disk'
        BY <3>2, <3>3, <1>f DEF Final, Startups, Executions
      <3>5. \A n, s : n < e => Newer(n, s)
        BY <3>4 DEF Newer, Turns
      <3>6. \A f \in Turns : f # e /\ turns[f].step # "none" => f < e
        BY <3>1, Latest DEF Turns
      <3>7. \A f \in Turns : turns'[f].step \in {"committed", "done"} => Newer(f, turns'[f].outcome)
        <4> SUFFICES ASSUME NEW f \in Turns, turns'[f].step \in {"committed", "done"}
                     PROVE  Newer(f, turns'[f].outcome)
          OBVIOUS
        <4>1. CASE f = e
          BY <4>1, <3>4 DEF Newer
        <4>2. CASE f # e
          BY <4>2, <3>3, <3>5, <3>6, <1>f DEF Executions
        <4> QED
          BY <4>1, <4>2
      <3>8. \A c \in Clients : told'[c].is \in States => Newer(told'[c].of, told'[c].is)
        <4> SUFFICES ASSUME NEW c \in Clients, told[c].is \in States
                     PROVE  Newer(told[c].of, told[c].is)
          BY <3>3
        <4>1. told[c].of \in Turns /\ turns[told[c].of].step \in {"done", "forgotten"}
          BY DEF ToldIsTrue, Startups
        <4>2. told[c].of < e
          BY <4>1, <3>3, <3>6
        <4> QED
          BY <4>2, <3>5
      <3> QED
        BY <3>2, <3>7, <3>8
    <2>3. CASE Done(e) \/ Forget(e) \/ EndChat(e)
      <3>1. disk' = disk /\ live' = live /\ startup' = startup
        BY <2>3 DEF Done, Forget, EndChat, session
      <3>2. \A f \in Turns : turns'[f].step \in {"committed", "done"} =>
                 turns[f].step \in {"committed", "done"} /\ turns'[f].outcome = turns[f].outcome
        BY <2>3, <1>f DEF Done, Forget, EndChat, Executions
      <3> QED
        BY <3>1, <3>2, <1>o, <1>q
    <2> QED
      BY <1>2, <2>1, <2>2, <2>3 DEF TurnStep
  <1>3. CASE Chat
    <2>1. [kind |-> "chat", step |-> "runs", outcome |-> "not_attempted"] \in Executions
      BY DEF Executions, States
    <2>2. turns' = [turns EXCEPT ![Fresh] = [kind |-> "chat", step |-> "runs", outcome |-> "not_attempted"]]
      BY <1>3 DEF Chat
    <2>3. disk' = disk /\ (live' => startup' = disk')
      BY <1>3, <1>o DEF Chat, Rehydrated, session
    <2> QED
      BY <2>1, <2>2, <2>3, <1>b, <1>q
  <1>4. CASE Retire
    BY <1>4, <1>o, <1>q DEF Retire, Gone
  <1>5. CASE Crash
    <2>1. \A f \in Turns : turns'[f].step \notin {"committed", "done"}
      BY <1>5, <1>f DEF Crash, Executions
    <2>2. disk' = disk /\ live' = FALSE
      BY <1>5 DEF Crash, Gone
    <2> QED
      BY <2>1, <2>2, <1>q
  <1>6. CASE UNCHANGED vars
    BY <1>6, <1>o, <1>q DEF vars, session
  <1> QED
    BY <1>1, <1>2, <1>3, <1>4, <1>5, <1>6, NextSteps

-----------------------------------------------------------------------------
LEMMA Inductive == Spec => []IInv
  <1>1. IInv /\ [Next]_vars => IInv'
    BY NumberedStep, TypeStep, Fates, RequestsStep, HeldStep, ToldStep, DiskStep DEF IInv
  <1> QED
    BY InitHolds, <1>1, PTL DEF Spec

(* The variables of the startup have their types: only a live session has an *)
(* execution, and no channel begins more of them than the bound.             *)
THEOREM TypeCorrect == Spec => []TypeOK
  <1>1. IInv => TypeOK
    BY DEF IInv
  <1> QED
    BY <1>1, Inductive, PTL

(* For any number of clients, requests, crashes and retirements: what the    *)
(* startup came to is on disk before anybody is told and never a state no    *)
(* startup reached (_commit_startup_outcome, startup_projection), and a live *)
(* session begins its startup once unless cold requests overlapped           *)
(* (initialize).                                                             *)
THEOREM StartupIsDurable == Spec => []StartupStands
  <1> SUFFICES IInv => StartupStands
    BY Inductive, PTL
  <1> SUFFICES ASSUME IInv PROVE StartupStands
    OBVIOUS
  <1>1. OutcomeIsDurable
    BY DEF IInv, OutcomeIsDurable, DiskIsNew, Flawless, AsNewAs, Final
  <1>2. DurableIsTrue
    BY DEF IInv, DurableIsTrue, DiskIsTrue, Final
  <1>3. OncePerSession
    BY DEF IInv, OncePerSession, Alone
  <1> QED
    BY <1>1, <1>2, <1>3 DEF StartupStands, OutcomesAgree
=============================================================================
