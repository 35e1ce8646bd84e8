------------------------ MODULE ConversationProofs ------------------------
(***************************************************************************)
(* Proofs about ConversationLabels and CommandDialogue, for any number of  *)
(* tasks, conversations and turns, any hierarchy of contexts that ends and *)
(* any answers of models and users.  First the labels: a channel has one   *)
(* owner of its runtime, a session one label at work, and what is being    *)
(* generated covers at least what the title there was generated from.      *)
(* Then the dialogue: every walk up the hierarchy ends at an owner or at   *)
(* the root, and what is stored was collected for the command at hand.     *)
(***************************************************************************)
EXTENDS ConversationLabels, CommandDialogue, FiniteSetTheorems, WellFoundedInduction, TLAPS

Task == [kind : {"none", "turn", "hook", "activate", "rotate"},
         step : {"idle", "run", "trigger", "queue", "generate"},
         session : 0..MaxSessions, conversation : 0..MaxConversations,
         covers : 0..MaxTurns, appended : {0, 1}]
Titles == {Blank} \cup {Redacted[title] : title \in Candidates}
Label == [topic : Titles, of : 0..MaxConversations, covers : 0..MaxTurns, altered : BOOLEAN]

Typed ==
    /\ session \in Sessions /\ active \in [Sessions -> Conversations] /\ minted \in Conversations
    /\ saved \in 0..minted /\ \A s \in Sessions : active[s] <= minted
    /\ turns \in [Conversations -> 0..MaxTurns] /\ label \in [Conversations -> Label]
    /\ task \in [Tasks -> Task] /\ queue \in [Sessions -> Seq(Tasks)]
    /\ past \subseteq {"retired"}

(* Where a task is says what it is for. *)
WellFormed(x) ==
    /\ x \in Task
    /\ x.step = "idle" => x = Idle
    /\ x.step = "run" => x.kind = "turn"
    /\ x.step = "trigger" => x.kind = "hook"
    /\ x.step \in {"queue", "generate"} => x.kind \in {"hook", "activate", "rotate"}
    /\ x.session <= session /\ x.conversation <= minted
    /\ x.step # "idle" => x.session # 0
    /\ x.step \in {"queue", "generate"} => x.conversation # 0
    /\ x.step = "generate" \/ x.kind = "rotate" => turns[x.conversation] > 0
Kinds == \A a \in Tasks : WellFormed(task[a])

(* runtime.lock has one owner, in the live session; a turn that runs has    *)
(* room in its conversation, and a rotation one to go on to.                *)
OneOwner ==
    /\ \A a, b \in Tasks : OwnsRuntime(a) /\ OwnsRuntime(b) => a = b
    /\ \A a \in Tasks : OwnsRuntime(a) => task[a].session = session
    /\ \A a \in Tasks : task[a].step = "run" => turns[active[session]] < MaxTurns
    /\ \A a \in Tasks : task[a].kind = "rotate" => minted < MaxConversations

(* label_lock has one owner; its waiters are in line, each once. *)
OneLabels ==
    \A s \in Sessions : \A a, b \in At(s, "generate") : a = b
InLine ==
    \A s \in Sessions :
        /\ \A i \in 1..Len(queue[s]) : queue[s][i] \in At(s, "queue")
        /\ \A a \in At(s, "queue") : \E i \in 1..Len(queue[s]) : queue[s][i] = a
        /\ \A i, j \in 1..Len(queue[s]) : queue[s][i] = queue[s][j] => i = j

(* Only minted conversations have turns; a title comes from some of them.   *)
Recorded ==
    \A k \in Conversations :
        /\ turns[k] > 0 => k <= minted
        /\ label[k].topic = Blank <=> label[k].covers = 0
        /\ label[k].covers <= turns[k]

(* As long as no session was retired under a label, every task is one of    *)
(* the live session, and what generates covers what the title there covers. *)
Together == past = {} => \A a \in Tasks : task[a].step # "idle" => task[a].session = session
Covering ==
    \A a \in Tasks : task[a].step = "generate" =>
        /\ task[a].covers \in 1..turns[task[a].conversation]
        /\ past = {} => label[task[a].conversation].covers <= task[a].covers

IInv == /\ Typed /\ Kinds /\ OneOwner /\ OneLabels /\ InLine /\ Recorded /\ Together /\ Covering
        /\ TitlesTell

-----------------------------------------------------------------------------
(* Titles with different numbers are different, and none is blank. *)
LEMMA NumberedTitles ==
    ASSUME NEW topic \in Topics
    PROVE  /\ topic # Blank
           /\ \A i \in 1..MaxConversations : Append(topic, i) # Blank
           /\ \A i, j \in 1..MaxConversations : Append(topic, i) = Append(topic, j) => i = j
  <1> DEFINE S == {topic[i] : i \in DOMAIN topic}
  <1>1. topic \in Seq(S) /\ topic # Blank
    BY LabelsAssumption DEF Blank
  <1> HIDE DEF S
  <1>2. topic \in Seq(S \cup Nat)
    BY <1>1
  <1>3. ASSUME NEW i \in 1..MaxConversations
        PROVE  Len(Append(topic, i)) = Len(topic) + 1 /\ Append(topic, i)[Len(topic) + 1] = i
    BY <1>2, <1>3
  <1>4. Len(topic) \in Nat /\ Len(Blank) = 0
    BY <1>2 DEF Blank
  <1> QED
    BY <1>1, <1>3, <1>4

(* The least of some numbers: the smallest of the intervals up to them. *)
LEMMA LeastOfSome ==
    ASSUME NEW n \in Nat, NEW S \in SUBSET (1..n), S # {}
    PROVE  \E i \in S : \A j \in S : i <= j
  <1> DEFINE T == {1..i : i \in S}
             R == StrictSubsetOrdering(1..n)
  <1>1. T \subseteq SUBSET (1..n) /\ T # {}
    <2>1. \A i \in S : 1..i \in SUBSET (1..n)
      OBVIOUS
    <2>2. PICK i \in S : TRUE
      OBVIOUS
    <2>3. 1..i \in T
      OBVIOUS
    <2> QED
      BY <2>1, <2>3
  <1>2. IsFiniteSet(1..n)
    BY FS_Interval
  <1>3. IsWellFoundedOn(R, SUBSET (1..n))
    BY <1>2, FS_StrictSubsetOrderingWellFounded, FS_FiniteSubsetsOfFinite
  <1> HIDE DEF R, T
  <1>4. PICK x \in T : \A y \in T : <<y, x>> \notin R
    BY <1>1, <1>3, WFMin
  <1>5. PICK i \in S : x = 1..i
    BY <1>4 DEF T
  <1>6. ASSUME NEW j \in S, j < i PROVE FALSE
    <2>1. 1..j \in T /\ 1..j \subseteq 1..i /\ 1..j # 1..i /\ 1..i \subseteq 1..n
      <3>1. i \in 1..i /\ i \notin 1..j
        BY <1>6
      <3> QED
        BY <1>6, <3>1 DEF T
    <2>2. <<1..j, 1..i>> \in R
      BY <2>1 DEF R, StrictSubsetOrdering
    <2> QED
      BY <1>4, <1>5, <2>1, <2>2
  <1> QED
    BY <1>6

(* There are fewer other titles than numbers: a number is left, and the      *)
(* title that is made is not one of the others.                              *)
LEMMA UniqueIsUnique ==
    ASSUME NEW topic \in Topics, NEW k \in Conversations
    PROVE  /\ Unique(topic, k) \notin Others(k)
           /\ Unique(topic, k) \in Candidates
  <1> DEFINE free == {i \in 1..MaxConversations : Append(topic, i) \notin Others(k)}
             R == Conversations \ {k}
  <1>1. IsFiniteSet(R) /\ Cardinality(R) = MaxConversations - 1
    <2>1. IsFiniteSet(Conversations) /\ Cardinality(Conversations) = MaxConversations
      BY FS_Interval, LabelsAssumption DEF Conversations
    <2> QED
      BY <2>1, FS_RemoveElement
  <1>2. IsFiniteSet(1..MaxConversations) /\ Cardinality(1..MaxConversations) = MaxConversations
    BY FS_Interval, LabelsAssumption
  <1>3. free # {}
    <2> SUFFICES ASSUME \A i \in 1..MaxConversations : Append(topic, i) \in Others(k) PROVE FALSE
      OBVIOUS
    <2> DEFINE f == [i \in 1..MaxConversations |-> CHOOSE c \in R : label[c].topic = Append(topic, i)]
    <2>1. \A i \in 1..MaxConversations : f[i] \in R /\ label[f[i]].topic = Append(topic, i)
      BY DEF Others
    <2>2. f \in [1..MaxConversations -> R]
      BY <2>1
    <2> HIDE DEF f
    <2>3. PICK i, j \in 1..MaxConversations : i # j /\ f[i] = f[j]
      BY <1>1, <1>2, <2>2, FS_PigeonHole, LabelsAssumption
    <2> QED
      BY <2>1, <2>3, NumberedTitles
  <1>4. \E i \in free : \A j \in free : i <= j
    BY <1>3, LeastOfSome, LabelsAssumption
  <1>5. PICK i \in free : Numbered(topic, k) = Append(topic, i)
    BY <1>4 DEF Numbered
  <1> QED
    BY <1>5 DEF Unique, Candidates

(* What is written of it: it is not blank, and like no other unless redacted. *)
LEMMA TitledIsSound ==
    ASSUME NEW topic \in Topics, NEW k \in Conversations, NEW of \in 0..MaxConversations,
           NEW covers \in 0..MaxTurns
    PROVE  LET written == Titled(Unique(topic, k), of, covers)
           IN /\ written \in Label /\ written.topic # Blank
              /\ written.of = of /\ written.covers = covers
              /\ ~written.altered => written.topic \notin Others(k)
  <1>1. Unique(topic, k) \in Candidates /\ Unique(topic, k) \notin Others(k)
    BY UniqueIsUnique
  <1>2. Redacted[Unique(topic, k)] # Blank /\ Redacted[Unique(topic, k)] \in Titles
    BY <1>1, LabelsAssumption DEF Blank, Titles
  <1> QED
    BY <1>1, <1>2 DEF Titled, Label

-----------------------------------------------------------------------------
(* What task a goes over to: its place in the line and at the lock, and the  *)
(* runtime it owns.                                                          *)
QueueMoves(a, x) ==
    \/ x.step # "queue" /\ task[a].step # "queue" /\ queue' = queue
    \/ x.step = "queue" /\ task[a].step # "queue" /\ queue' = [queue EXCEPT ![x.session] = Append(@, a)]
    \/ /\ x.step # "queue" /\ task[a].step = "queue" /\ Head(queue[task[a].session]) = a
       /\ queue' = [queue EXCEPT ![task[a].session] = Tail(@)]

Takes(a, x) ==
    /\ task' = [task EXCEPT ![a] = x] /\ WellFormed(x) /\ QueueMoves(a, x)
    /\ x.step = "generate" => LabelFree(x.session) /\ x.covers = turns[x.conversation]
    /\ x.step # "idle" => x.session = task[a].session \/ x.session = session
    /\ x.step # "idle" /\ x.kind # "hook" =>
          x.session = session /\ (RuntimeFree \/ OwnsRuntime(a))
    /\ x.step = "run" => turns[active[session]] < MaxTurns
    /\ x.kind = "rotate" => minted < MaxConversations
    /\ task[a].step = "idle" /\ x.step # "idle" => x.session = session

LEMMA IdleIsTyped == Idle \in Task /\ Idle.step = "idle" /\ Idle.kind = "none" /\ Idle.conversation = 0
  BY LabelsAssumption DEF Idle, Task

(* Tasks that begin. *)
LEMMA IdleBegins ==
    /\ \A kind \in {"rotate", "activate"} :
          \E how \in Task : how = [Idle EXCEPT !.kind = kind] /\ how.kind = kind
    /\ \A s \in 0..MaxSessions : \E x \in Task :
          /\ x = [Idle EXCEPT !.kind = "turn", !.step = "run", !.session = s]
          /\ x.step = "run" /\ x.kind = "turn" /\ x.session = s /\ x.conversation = 0
  <1>1. PICK idle \in Task : idle = Idle /\ idle.conversation = 0
    BY IdleIsTyped
  <1>2. ASSUME NEW kind \in {"rotate", "activate"}
        PROVE  \E how \in Task : how = [Idle EXCEPT !.kind = kind] /\ how.kind = kind
    <2>1. [idle EXCEPT !.kind = kind] \in Task /\ [idle EXCEPT !.kind = kind].kind = kind
      BY DEF Task
    <2> QED
      BY <1>1, <2>1, Zenon
  <1>3. ASSUME NEW s \in 0..MaxSessions
        PROVE  \E x \in Task :
                  /\ x = [Idle EXCEPT !.kind = "turn", !.step = "run", !.session = s]
                  /\ x.step = "run" /\ x.kind = "turn" /\ x.session = s /\ x.conversation = 0
    <2> DEFINE y == [idle EXCEPT !.kind = "turn", !.step = "run", !.session = s]
    <2>1. y \in Task /\ y.step = "run" /\ y.kind = "turn" /\ y.session = s /\ y.conversation = 0
      BY <1>1 DEF Task
    <2> QED
      BY <1>1, <2>1, Zenon
  <1> QED
    BY <1>2, <1>3

LEMMA IdleIsFine == ASSUME Typed PROVE WellFormed(Idle)
  BY LabelsAssumption DEF Idle, Task, WellFormed, Typed, Sessions, Conversations

LEMMA TriggeredTakes ==
    ASSUME Typed, NEW a \in Tasks, NEW s \in Sessions, NEW k \in Conversations,
           NEW how \in Task, task[a].step \in {"idle", "trigger"}, how.kind \in {"hook", "activate"},
           k <= minted, s <= session,
           s = task[a].session \/ s = session, task[a].step = "idle" => s = session,
           how.kind # "hook" => s = session /\ RuntimeFree,
           Triggered(a, s, k, how)
    PROVE  \E x \in Task : Takes(a, x)
  <1> USE LabelsAssumption
  <1>t. turns[k] \in 0..MaxTurns /\ k # 0 /\ s # 0 /\ k \in 0..MaxConversations /\ s \in 0..MaxSessions
    BY SMTT(30) DEF Typed, Conversations, Sessions
  <1>1. CASE task' = [task EXCEPT ![a] = Idle] /\ UNCHANGED queue
    BY <1>1, IdleIsFine, IdleIsTyped DEF Takes, QueueMoves
  <1>2. CASE Queues(a, s, k, how)
    <2> DEFINE x == [how EXCEPT !.step = "queue", !.session = s, !.conversation = k]
    <2>1. x \in Task /\ x.step = "queue" /\ x.session = s /\ x.conversation = k /\ x.kind = how.kind
      BY <1>t DEF Task
    <2>2. task' = [task EXCEPT ![a] = x] /\ queue' = [queue EXCEPT ![s] = Append(@, a)]
      BY <1>2 DEF Queues
    <2> HIDE DEF x
    <2>3. WellFormed(x)
      BY <2>1, <1>t DEF WellFormed
    <2>4. Takes(a, x)
      BY <2>1, <2>2, <2>3 DEF Takes, QueueMoves
    <2> QED
      BY <2>1, <2>4
  <1>3. CASE LabelFree(s) /\ Due(k, how.appended) /\ UNCHANGED queue
             /\ task' = [task EXCEPT ![a] = Generating(a, s, k, how)]
    <2> DEFINE x == Generating(a, s, k, how)
    <2>1. x \in Task /\ x.step = "generate" /\ x.session = s /\ x.conversation = k
          /\ x.kind = how.kind /\ x.covers = turns[k]
      BY <1>t DEF Task, Generating
    <2>2. task' = [task EXCEPT ![a] = x] /\ queue' = queue /\ turns[k] > 0
      BY <1>3 DEF Due
    <2> HIDE DEF x
    <2>3. WellFormed(x)
      BY <2>1, <2>2, <1>t DEF WellFormed
    <2>4. Takes(a, x)
      BY <1>3, <2>1, <2>2, <2>3 DEF Takes, QueueMoves
    <2> QED
      BY <2>1, <2>4
  <1> QED
    BY <1>1, <1>2, <1>3 DEF Triggered

(* What a task's step leaves of the rest. *)
Begins(a) == BeginTurn(a) \/ Rotate(a) \/ \E k \in Conversations : Activate(a, k)

LEMMA TaskTakes ==
    ASSUME IInv, NEW a \in Tasks, Begins(a) \/ Goes(a)
    PROVE  \E x \in Task : Takes(a, x) \/ (EndTurn(a) /\ task' = [task EXCEPT ![a] = x] /\ queue' = queue
                                           /\ x = [task[a] EXCEPT !.kind = "hook", !.step = "trigger", !.appended = 1])
  <1> USE LabelsAssumption
  <1>t. Typed /\ WellFormed(task[a]) /\ task[a] \in Task /\ session \in Sessions
        /\ (OwnsRuntime(a) => task[a].session = session)
    BY DEF IInv, Kinds, Typed, OneOwner
  <1>s. session \in 1..MaxSessions /\ minted \in 1..MaxConversations
        /\ \A s \in Sessions : active[s] \in Conversations /\ active[s] <= minted
    BY <1>t DEF Typed, Sessions, Conversations
  <1>i. ASSUME task' = [task EXCEPT ![a] = Idle], queue' = queue, task[a].step # "queue"
        PROVE  Takes(a, Idle)
    BY <1>i, <1>t, IdleIsFine, IdleIsTyped DEF Takes, QueueMoves
  <1>l. PICK s \in Sessions : s = session /\ s \in 0..MaxSessions /\ s # 0 /\ s <= session
    BY <1>s, <1>t
  <1>1. CASE BeginTurn(a)
    <2>1. PICK x \in Task :
             /\ x = [Idle EXCEPT !.kind = "turn", !.step = "run", !.session = s]
             /\ x.step = "run" /\ x.kind = "turn" /\ x.session = s /\ x.conversation = 0
      BY <1>s, <1>l, IdleBegins
    <2>2. task' = [task EXCEPT ![a] = x] /\ queue' = queue /\ RuntimeFree /\ task[a] = Idle
          /\ turns[active[session]] < MaxTurns
      BY <1>1, <2>1, <1>l, Zenon DEF BeginTurn
    <2>3. WellFormed(x)
      BY <2>1, <1>s, <1>l DEF WellFormed
    <2>4. Takes(a, x)
      BY <2>1, <2>2, <2>3, <1>l, IdleIsTyped DEF Takes, QueueMoves
    <2> QED
      BY <2>1, <2>4
  <1>2. CASE EndTurn(a)
    <2>1. CASE task' = [task EXCEPT ![a] = Idle] /\ queue' = queue
      BY <2>1, <1>2, <1>i, IdleIsTyped DEF EndTurn
    <2>2. CASE task' = [task EXCEPT ![a] = [@ EXCEPT !.kind = "hook", !.step = "trigger", !.appended = 1]]
               /\ queue' = queue
      <3>1. [task[a] EXCEPT !.kind = "hook", !.step = "trigger", !.appended = 1] \in Task
        BY <1>t DEF Task
      <3>2. task' = [task EXCEPT ![a] = [task[a] EXCEPT !.kind = "hook", !.step = "trigger", !.appended = 1]]
        BY <2>2, <1>t DEF Typed
      <3> QED
        BY <1>2, <2>2, <3>1, <3>2
    <2> QED
      BY <1>2, <2>1, <2>2 DEF EndTurn
  <1>3. CASE Hook(a)
    <2>1. task[a].session \in Sessions /\ task[a].step = "trigger" /\ task[a].kind = "hook"
          /\ task[a].session <= session
      BY <1>3, <1>t DEF Hook, WellFormed, Task, Sessions
    <2>2. Triggered(a, task[a].session, active[task[a].session], task[a])
      BY <1>3 DEF Hook
    <2> QED
      BY <2>1, <2>2, <1>t, <1>s, TriggeredTakes
  <1>4. ASSUME NEW k \in Conversations, Activate(a, k) PROVE \E x \in Task : Takes(a, x)
    <2>1. PICK how \in Task : how = [Idle EXCEPT !.kind = "activate"] /\ how.kind = "activate"
      BY IdleBegins
    <2>3. Triggered(a, s, k, how) /\ RuntimeFree /\ task[a] = Idle /\ turns[k] > 0
      BY <1>4, <1>l, <2>1, Zenon DEF Activate
    <2>2. k <= minted /\ RuntimeFree /\ task[a].step = "idle" /\ Triggered(a, s, k, how)
      BY <2>3, IdleIsTyped DEF IInv, Recorded
    <2> QED
      BY <2>1, <2>2, <1>t, <1>s, <1>l, TriggeredTakes
  <1>5. CASE Rotate(a)
    <2>h. PICK how \in Task : how = [Idle EXCEPT !.kind = "rotate"] /\ how.kind = "rotate"
      BY IdleBegins
    <2>i. how.kind = "rotate"
      BY <2>h
    <2>k. PICK k \in Conversations : k = active[session] /\ k <= minted
      BY <1>s, <1>l, <1>t
    <2>1. RuntimeFree /\ task[a] = Idle /\ turns[k] > 0 /\ minted < MaxConversations
          /\ k \in 1..MaxConversations /\ turns[k] \in 0..MaxTurns
      BY <1>5, <2>k, <1>t, <1>s, <1>l DEF Rotate, Typed, Conversations
    <2>j. k \in 0..MaxConversations /\ turns[k] \in 0..MaxTurns /\ s \in 0..MaxSessions
      BY <2>1, <1>l
    <2>2. CASE LabelFree(s) /\ task' = [task EXCEPT ![a] = Generating(a, s, k, how)] /\ UNCHANGED queue
      <3> DEFINE x == Generating(a, s, k, how)
      <3>1. x \in Task /\ x.step = "generate" /\ x.session = s /\ x.conversation = k
            /\ x.kind = "rotate" /\ x.covers = turns[k]
        BY <2>i, <2>j DEF Task, Generating
      <3> HIDE DEF x
      <3>2. WellFormed(x)
        BY <2>k, <2>1, <3>1, <1>s, <1>l DEF WellFormed
      <3>3. task' = [task EXCEPT ![a] = x]
        BY <2>2 DEF x
      <3>4. Takes(a, x)
        BY <2>1, <2>2, <3>1, <3>2, <3>3, <1>l, IdleIsTyped DEF Takes, QueueMoves
      <3> QED
        BY <3>1, <3>4
    <2>3. CASE Queues(a, s, k, how)
      <3> DEFINE x == [how EXCEPT !.step = "queue", !.session = s, !.conversation = k]
      <3>1. x \in Task /\ x.step = "queue" /\ x.session = s /\ x.conversation = k /\ x.kind = "rotate"
        BY <2>i, <2>j DEF Task
      <3>2. task' = [task EXCEPT ![a] = x] /\ queue' = [queue EXCEPT ![s] = Append(@, a)]
        BY <2>3 DEF Queues
      <3> HIDE DEF x
      <3>3. WellFormed(x)
        BY <2>k, <2>1, <3>1, <1>s, <1>l DEF WellFormed
      <3>4. Takes(a, x)
        BY <2>1, <3>1, <3>2, <3>3, <1>l, IdleIsTyped DEF Takes, QueueMoves
      <3> QED
        BY <3>1, <3>4
    <2> QED
      BY <1>5, <1>l, <2>h, <2>k, <2>2, <2>3 DEF Rotate
  <1>6. CASE TakeLock(a)
    <2> DEFINE m == task[a].session
               k == task[a].conversation
    <2>a. /\ task[a].step = "queue" /\ LabelFree(m) /\ Head(queue[m]) = a
          /\ queue' = [queue EXCEPT ![m] = Tail(@)]
      BY <1>6 DEF TakeLock
    <2>b. m # 0 /\ k # 0 /\ k \in 0..MaxConversations
      BY <2>a, <1>t DEF WellFormed, Task
    <2>c. k \in Conversations /\ turns[k] \in 0..MaxTurns
      BY <2>b, <1>t DEF Typed, Conversations
    <2>1. /\ task[a].step = "queue" /\ LabelFree(m) /\ Head(queue[m]) = a
          /\ queue' = [queue EXCEPT ![m] = Tail(@)]
          /\ k \in Conversations /\ turns[k] \in 0..MaxTurns /\ m # 0
      BY <2>a, <2>b, <2>c
    <2>2. CASE task' = [task EXCEPT ![a] = Idle]
      BY <2>1, <2>2, <1>t, IdleIsFine, IdleIsTyped DEF Takes, QueueMoves
    <2>3. CASE task' = [task EXCEPT ![a] = Generating(a, m, k, task[a])] /\ turns[k] > 0
      <3> DEFINE x == Generating(a, m, k, task[a])
      <3>1. x \in Task /\ x.step = "generate" /\ x.session = m /\ x.conversation = k
            /\ x.kind = task[a].kind /\ x.covers = turns[k]
        BY <2>1, <1>t DEF Task, Generating
      <3>2. x.kind # "hook" => OwnsRuntime(a) /\ m = session
        BY <2>1, <3>1, <1>t DEF OwnsRuntime
      <3>3. x.kind = "rotate" => minted < MaxConversations
        BY <3>1 DEF IInv, OneOwner
      <3> HIDE DEF x
      <3>4. WellFormed(x)
        BY <2>1, <2>3, <3>1, <1>t DEF WellFormed
      <3>5. task' = [task EXCEPT ![a] = x]
        BY <2>3 DEF x
      <3> QED
        BY <2>1, <3>1, <3>2, <3>3, <3>4, <3>5 DEF Takes, QueueMoves
    <2>4. task[a].kind = "rotate" => turns[k] > 0
      BY <1>t DEF WellFormed
    <2> QED
      BY <1>6, <1>t, <2>1, <2>2, <2>3, <2>4 DEF TakeLock, Due, Typed
  <1>7. CASE NotNamed(a) \/ \E topic \in Topics \cup {Blank} : Named(a, topic)
    BY <1>7, <1>i, IdleIsTyped DEF NotNamed, Named, Returns
  <1> QED
    BY <1>1, <1>2, <1>3, <1>4, <1>5, <1>6, <1>7 DEF Begins, Goes

(* What a step of a task leaves of the rest: only the owner of the runtime,  *)
(* or who finds it free, changes the conversations.                          *)
LEMMA Frames ==
    ASSUME IInv, NEW a \in Tasks, Begins(a) \/ Goes(a)
    PROVE  /\ UNCHANGED <<session, saved, past>>
           /\ \/ UNCHANGED <<turns, active, minted>>
              \/ EndTurn(a) /\ OwnsRuntime(a) /\ UNCHANGED <<active, minted>>
                 /\ turns' = [turns EXCEPT ![active[session]] = @ + 1]
                 /\ turns[active[session]] < MaxTurns
              \/ RuntimeFree /\ UNCHANGED <<turns, minted>>
                 /\ \E k \in Conversations : active' = [active EXCEPT ![session] = k] /\ turns[k] > 0
                                             /\ Activate(a, k)
              \/ /\ OwnsRuntime(a) /\ UNCHANGED turns /\ task' = [task EXCEPT ![a] = Idle]
                 /\ minted' = minted + 1 /\ minted < MaxConversations
                 /\ active' = [active EXCEPT ![session] = minted + 1]
           /\ \/ UNCHANGED label
              \/ \E topic \in Topics \cup {Blank} : Named(a, topic)
  <1>1. CASE BeginTurn(a) \/ Rotate(a) \/ Hook(a) \/ TakeLock(a) \/ NotNamed(a)
    BY <1>1 DEF BeginTurn, Rotate, Hook, TakeLock, NotNamed
  <1>2. CASE EndTurn(a)
    <2>1. OwnsRuntime(a) /\ turns[active[session]] < MaxTurns
      BY <1>2 DEF EndTurn, OwnsRuntime, IInv, Kinds, WellFormed, OneOwner
    <2> QED
      BY <1>2, <2>1 DEF EndTurn
  <1>3. ASSUME NEW k \in Conversations, Activate(a, k) PROVE
           /\ RuntimeFree /\ UNCHANGED <<turns, minted, session, saved, past, label>>
           /\ active' = [active EXCEPT ![session] = k] /\ turns[k] > 0
    BY <1>3 DEF Activate
  <1>4. ASSUME NEW topic \in Topics \cup {Blank}, Named(a, topic)
        PROVE  /\ UNCHANGED <<session, saved, past, turns>>
               /\ \/ UNCHANGED <<active, minted>>
                  \/ /\ OwnsRuntime(a) /\ task' = [task EXCEPT ![a] = Idle]
                     /\ minted' = minted + 1 /\ minted < MaxConversations
                     /\ active' = [active EXCEPT ![session] = minted + 1]
    BY <1>4 DEF Named, Returns, OwnsRuntime, IInv, OneOwner
  <1> QED
    BY <1>1, <1>2, <1>3, <1>4, Zenon DEF Begins, Goes

(* Nothing shrinks: what is well-formed stays so. *)
Grows ==
    /\ session' \in Sessions /\ session <= session'
    /\ minted' \in Conversations /\ minted <= minted'
    /\ turns' \in [Conversations -> 0..MaxTurns] /\ \A k \in Conversations : turns[k] <= turns'[k]

LEMMA StaysWellFormed ==
    ASSUME Typed, Grows, NEW x, WellFormed(x)
    PROVE  WellFormed(x)'
  <1>1. /\ x \in Task /\ session \in Nat /\ session' \in Nat /\ minted \in Nat /\ minted' \in Nat
        /\ session <= session' /\ minted <= minted'
        /\ x.session \in Nat /\ x.conversation \in Nat
    BY LabelsAssumption DEF WellFormed, Typed, Grows, Sessions, Conversations, Task
  <1>2. x.session <= session' /\ x.conversation <= minted'
    BY <1>1 DEF WellFormed
  <1>3. \A k \in Conversations : turns[k] > 0 => turns'[k] > 0
    BY LabelsAssumption DEF Typed, Grows
  <1>4. turns[x.conversation] > 0 /\ x.conversation # 0 => turns'[x.conversation] > 0
    <2>1. x.conversation # 0 => x.conversation \in Conversations
      BY <1>1 DEF Task, Conversations
    <2> QED
      BY <1>3, <2>1
  <1>5. x.kind = "rotate" => x.conversation # 0
    BY <1>1, IdleIsTyped DEF WellFormed, Task
  <1> QED
    BY <1>1, <1>2, <1>4, <1>5 DEF WellFormed

LEMMA TypedStep ==
    ASSUME IInv, [Next]_vars
    PROVE  Typed' /\ Grows
  <1> USE LabelsAssumption
  <1>t. Typed
    BY DEF IInv
  <1>n. /\ session \in Sessions /\ session \in Nat /\ minted \in Conversations /\ minted \in Nat
        /\ turns \in [Conversations -> 0..MaxTurns] /\ \A k \in Conversations : turns[k] \in Nat
        /\ active[session] \in Conversations
    BY <1>t DEF Typed, Sessions, Conversations
  <1>g. ASSUME UNCHANGED <<session, turns, minted>> PROVE Grows
    BY <1>g, <1>n DEF Grows
  <1>1. ASSUME NEW a \in Tasks, Begins(a) \/ Goes(a) PROVE Typed' /\ Grows
    <2>1. session' = session /\ saved' = saved /\ past' = past
      BY <1>1, Frames
    <2>2. /\ Grows /\ active' \in [Sessions -> Conversations]
          /\ \A s \in Sessions : active'[s] <= minted'
      <3>1. CASE UNCHANGED <<turns, active, minted>>
        BY <3>1, <2>1, <1>g, <1>t DEF Typed
      <3>2. CASE /\ turns' = [turns EXCEPT ![active[session]] = @ + 1]
                 /\ turns[active[session]] < MaxTurns /\ UNCHANGED <<active, minted>>
        <4> DEFINE k == active[session]
        <4>0. k \in Conversations
          BY <1>n
        <4> HIDE DEF k
        <4>a. turns[k] \in 0..MaxTurns
          BY <4>0, <1>n
        <4>b. turns[k] < MaxTurns
          BY <3>2 DEF k
        <4>1. turns[k] + 1 \in 0..MaxTurns
          BY <4>a, <4>b
        <4>2. turns' = [turns EXCEPT ![k] = turns[k] + 1]
          BY <3>2, <4>0, <1>n DEF k
        <4>3. turns' \in [Conversations -> 0..MaxTurns]
          BY <4>0, <4>1, <4>2, <1>n
        <4>4. \A c \in Conversations : turns[c] <= turns'[c]
          BY <4>0, <4>2, <1>n
        <4>5. Grows
          BY <4>3, <4>4, <3>2, <2>1, <1>n DEF Grows
        <4> QED
          BY <4>5, <3>2, <1>t DEF Typed
      <3>3. ASSUME NEW k \in Conversations, active' = [active EXCEPT ![session] = k], turns[k] > 0,
                   UNCHANGED <<turns, minted>>
            PROVE  /\ Grows /\ active' \in [Sessions -> Conversations]
                   /\ \A s \in Sessions : active'[s] <= minted'
        <4>1. k <= minted
          BY <3>3 DEF IInv, Recorded
        <4> QED
          BY <3>3, <4>1, <2>1, <1>g, <1>t DEF Typed
      <3>4. CASE /\ UNCHANGED turns /\ minted' = minted + 1 /\ minted < MaxConversations
                 /\ active' = [active EXCEPT ![session] = minted + 1]
        <4>1. minted + 1 \in Conversations
          BY <3>4, <1>t DEF Typed, Conversations
        <4>2. \A s \in Sessions : active'[s] <= minted + 1
          BY <3>4, <1>t DEF Typed, Conversations
        <4>3. active' \in [Sessions -> Conversations]
          BY <3>4, <4>1, <1>t DEF Typed
        <4>4. Grows
          BY <3>4, <4>1, <2>1, <1>n DEF Grows
        <4> QED
          BY <3>4, <4>2, <4>3, <4>4
      <3> QED
        BY <1>1, <3>1, <3>2, <3>3, <3>4, Frames
    <2>3. PICK x \in Task : task' = [task EXCEPT ![a] = x] /\ (queue' = queue \/ QueueMoves(a, x))
      BY <1>1, TaskTakes DEF Takes
    <2>4. task' \in [Tasks -> Task]
      BY <2>3, <1>t DEF Typed
    <2>5. queue' \in [Sessions -> Seq(Tasks)]
      <3>1. \A q \in Seq(Tasks) : Append(q, a) \in Seq(Tasks) /\ (q # <<>> => Tail(q) \in Seq(Tasks))
        OBVIOUS
      <3>2. ASSUME task[a].step = "queue" PROVE task[a].session \in Sessions /\ queue[task[a].session] # <<>>
        <4>1. task[a].session \in Sessions /\ a \in At(task[a].session, "queue")
          BY <3>2 DEF IInv, Kinds, WellFormed, Task, Sessions, At
        <4>2. PICK i \in 1..Len(queue[task[a].session]) : queue[task[a].session][i] = a
          BY <4>1 DEF IInv, InLine
        <4> QED
          BY <4>1, <4>2
      <3>3. queue \in [Sessions -> Seq(Tasks)]
        BY <1>t DEF Typed
      <3>4. CASE queue' = queue
        BY <3>3, <3>4
      <3>5. CASE queue' = [queue EXCEPT ![x.session] = Append(@, a)]
        BY <3>1, <3>3, <3>5
      <3>6. CASE task[a].step = "queue" /\ queue' = [queue EXCEPT ![task[a].session] = Tail(@)]
        BY <3>1, <3>2, <3>3, <3>6
      <3> QED
        BY <2>3, <3>4, <3>5, <3>6 DEF QueueMoves
    <2>6. label' \in [Conversations -> Label]
      <3>1. CASE label' = label
        BY <3>1, <1>t DEF Typed
      <3>2. ASSUME NEW topic \in Topics \cup {Blank}, Named(a, topic)
            PROVE  label' \in [Conversations -> Label]
        <4> DEFINE k == task[a].conversation
        <4>1. task[a] \in Task /\ task[a].step = "generate" /\ k \in Conversations
              /\ task[a].covers \in 0..MaxTurns /\ k \in 0..MaxConversations
          BY <3>2 DEF Named, Returns, IInv, Kinds, WellFormed, Task, Conversations
        <4>2. CASE topic = Blank
          BY <3>2, <4>1, <4>2, <1>t DEF Named, Write, Typed
        <4>3. CASE topic \in Topics
          <5>1. Titled(Unique(topic, k), k, task[a].covers) \in Label
            BY <4>1, <4>3, TitledIsSound
          <5>2. topic # Blank
            BY <4>3 DEF Blank
          <5> QED
            BY <3>2, <4>1, <5>1, <5>2, <1>t DEF Named, Write, Typed
        <4> QED
          BY <4>2, <4>3
      <3> QED
        BY <1>1, <3>1, <3>2, Frames
    <2>7. saved' \in 0..minted' /\ past' \subseteq {"retired"}
      <3>1. saved \in 0..minted /\ past \subseteq {"retired"}
        BY <1>t DEF Typed
      <3>2. minted' \in Nat /\ minted <= minted'
        BY <2>2 DEF Grows, Conversations
      <3> QED
        BY <3>1, <3>2, <2>1, <1>n
    <2> QED
      BY <2>2, <2>4, <2>5, <2>6, <2>7 DEF Typed, Grows
  <1>2. CASE Retire
    <2>1. session + 1 \in Sessions /\ session < session + 1
      BY <1>2, <1>t DEF Retire, Typed, Sessions
    <2>2. Grows
      BY <1>2, <2>1, <1>n DEF Retire, Grows
    <2>3. active' \in [Sessions -> Conversations] /\ \A s \in Sessions : active'[s] <= minted'
      BY <1>2, <2>1, <1>t DEF Retire, Typed
    <2>4. saved' \in 0..minted' /\ past' \subseteq {"retired"}
      BY <1>2, <1>t DEF Retire, Typed, Conversations
    <2> QED
      BY <1>2, <2>2, <2>3, <2>4, <1>t DEF Retire, Typed, Grows
  <1>3. CASE Crash
    <2>1. session + 1 \in Sessions /\ session < session + 1
      BY <1>3, <1>t DEF Crash, Typed, Sessions
    <2>2. Restored \in Conversations /\ Restored <= minted
      BY <1>t DEF Restored, Typed, Conversations
    <2>3. active' \in [Sessions -> Conversations] /\ \A s \in Sessions : active'[s] <= minted'
      BY <1>3, <2>1, <2>2, <1>t DEF Crash, Typed
    <2>4. Grows
      BY <1>3, <2>1, <1>n DEF Crash, Grows
    <2>5. task' \in [Tasks -> Task] /\ queue' \in [Sessions -> Seq(Tasks)]
      BY <1>3, IdleIsTyped DEF Crash
    <2> QED
      BY <1>3, <2>3, <2>4, <2>5, <1>t DEF Crash, Typed, Grows
  <1>4. CASE UNCHANGED vars
    BY <1>4, <1>g, <1>t DEF vars, Typed
  <1> QED
    BY <1>1, <1>2, <1>3, <1>4 DEF Next, Begins

-----------------------------------------------------------------------------
(* A step of a task, as the invariants see it: a takes x, or its turn ends    *)
(* with a hook to come.                                                       *)
LEMMA KindsStep ==
    ASSUME IInv, [Next]_vars
    PROVE  Kinds'
  <1>t. Typed /\ Grows /\ Kinds
    BY TypedStep DEF IInv
  <1>k. ASSUME NEW x, WellFormed(x) PROVE WellFormed(x)'
    BY <1>k, <1>t, StaysWellFormed
  <1>i. WellFormed(Idle)
    BY <1>t, IdleIsFine
  <1>1. ASSUME NEW a \in Tasks, Begins(a) \/ Goes(a) PROVE Kinds'
    <2>1. PICK x : WellFormed(x) /\ task' = [task EXCEPT ![a] = x]
      <3>1. PICK x \in Task : Takes(a, x) \/ (EndTurn(a) /\ task' = [task EXCEPT ![a] = x] /\ queue' = queue
                     /\ x = [task[a] EXCEPT !.kind = "hook", !.step = "trigger", !.appended = 1])
        BY <1>1, TaskTakes
      <3>2. CASE Takes(a, x)
        BY <3>2 DEF Takes
      <3>3. CASE EndTurn(a) /\ task' = [task EXCEPT ![a] = x] /\ queue' = queue
                     /\ x = [task[a] EXCEPT !.kind = "hook", !.step = "trigger", !.appended = 1]
        <4>1. WellFormed(task[a]) /\ task[a].step = "run" /\ task[a] \in Task
          BY <3>3, <1>t DEF EndTurn, Kinds, WellFormed
        <4>2. x.step = "trigger" /\ x.kind = "hook" /\ x.session = task[a].session
              /\ x.conversation = task[a].conversation
          BY <3>3, <4>1 DEF Task
        <4>3. WellFormed(x)
          BY <4>1, <4>2 DEF WellFormed
        <4> QED
          BY <3>3, <4>3
      <3> QED
        BY <3>1, <3>2, <3>3
    <2>2. \A b \in Tasks : WellFormed(task'[b])
      BY <2>1, <1>t DEF Kinds, Typed
    <2>3. ASSUME NEW b \in Tasks PROVE WellFormed(task[b])'
      <3>1. PICK y : y = task'[b]
        OBVIOUS
      <3>2. WellFormed(y)
        BY <2>2, <3>1
      <3>3. WellFormed(y)'
        BY <3>2, <1>k
      <3> QED
        BY <3>1, <3>3 DEF WellFormed
    <2> QED
      BY <2>3 DEF Kinds
  <1>2. CASE Crash
    <2>1. WellFormed(Idle)'
      BY <1>i, <1>k
    <2> QED
      BY <1>2, <2>1 DEF Crash, Kinds, WellFormed
  <1>3. CASE Retire \/ UNCHANGED vars
    <2>1. task' = task
      BY <1>3 DEF Retire, vars
    <2>3. ASSUME NEW b \in Tasks PROVE WellFormed(task[b])'
      <3>1. PICK y : y = task[b]
        OBVIOUS
      <3>2. WellFormed(y)'
        BY <3>1, <1>k, <1>t DEF Kinds
      <3> QED
        BY <2>1, <3>1, <3>2 DEF WellFormed
    <2> QED
      BY <2>3 DEF Kinds
  <1> QED
    BY <1>1, <1>2, <1>3 DEF Next, Begins

LEMMA EndsDoNotRun ==
    ASSUME task \in [Tasks -> Task], NEW a \in Tasks,
           EndTurn(a) \/ \E k \in Conversations : Activate(a, k)
    PROVE  task'[a].step # "run"
  <1>1. CASE EndTurn(a)
    <2>1. CASE task' = [task EXCEPT ![a] = Idle]
      BY <2>1, IdleIsTyped
    <2>2. CASE task' = [task EXCEPT ![a] = [@ EXCEPT !.kind = "hook", !.step = "trigger", !.appended = 1]]
      <3>1. task[a] \in Task /\ task'[a] = [task[a] EXCEPT !.kind = "hook", !.step = "trigger", !.appended = 1]
        BY <2>2
      <3> QED
        BY <3>1 DEF Task
    <2> QED
      BY <1>1, <2>1, <2>2 DEF EndTurn
  <1>2. ASSUME NEW k \in Conversations, Activate(a, k) PROVE task'[a].step # "run"
    <2>1. PICK how \in Task : how = [Idle EXCEPT !.kind = "activate"] /\ how.kind = "activate"
      BY IdleBegins
    <2>2. PICK s : s = session
      OBVIOUS
    <2>3. Triggered(a, s, k, how)
      BY <1>2, <2>1, <2>2, Zenon DEF Activate
    <2>4. \/ task'[a] = Idle
          \/ task'[a] = [how EXCEPT !.step = "queue", !.session = s, !.conversation = k]
          \/ task'[a] = [how EXCEPT !.step = "generate", !.session = s, !.conversation = k, !.covers = turns[k]]
      BY <2>3 DEF Triggered, Queues, Generating
    <2> QED
      BY <2>4, IdleIsTyped DEF Task
  <1> QED
    BY <1>1, <1>2

LEMMA OneOwnerStep ==
    ASSUME IInv, [Next]_vars
    PROVE  OneOwner'
  <1>t. Typed /\ Grows /\ Kinds /\ OneOwner /\ task \in [Tasks -> Task]
    BY TypedStep DEF IInv, Typed
  <1>i. \A b \in Tasks : task[b].kind = "rotate" => OwnsRuntime(b)
    BY <1>t, IdleIsTyped DEF Kinds, WellFormed, OwnsRuntime
  <1>1. ASSUME NEW a \in Tasks, Begins(a) \/ Goes(a) PROVE OneOwner'
    <2>f. session' = session
      BY <1>1, Frames
    <2>1. PICK x \in Task :
             /\ task' = [task EXCEPT ![a] = x]
             /\ x.step # "idle" /\ x.kind # "hook" => x.session = session /\ (RuntimeFree \/ OwnsRuntime(a))
             /\ x.kind = "rotate" => minted < MaxConversations /\ x.step # "idle"
             /\ x.step = "run" => turns[active[session]] < MaxTurns
      <3>1. PICK x \in Task : Takes(a, x) \/ (EndTurn(a) /\ task' = [task EXCEPT ![a] = x] /\ queue' = queue
                     /\ x = [task[a] EXCEPT !.kind = "hook", !.step = "trigger", !.appended = 1])
        BY <1>1, TaskTakes
      <3>2. CASE Takes(a, x)
        BY <3>2, IdleIsTyped DEF Takes, WellFormed
      <3>3. CASE task' = [task EXCEPT ![a] = x]
                     /\ x = [task[a] EXCEPT !.kind = "hook", !.step = "trigger", !.appended = 1]
        <4>1. x.step = "trigger" /\ x.kind = "hook"
          BY <3>3, <1>t DEF Task
        <4> QED
          BY <3>3, <4>1
      <3> QED
        BY <3>1, <3>2, <3>3
    <2>2. \A b \in Tasks : b # a => (OwnsRuntime(b)' <=> OwnsRuntime(b)) /\ task'[b] = task[b]
      BY <2>1, <1>t DEF OwnsRuntime
    <2>3. task'[a] = x /\ (OwnsRuntime(a)' <=> x.step # "idle" /\ x.kind # "hook")
      BY <2>1, <1>t DEF OwnsRuntime
    <2>4. \A b, c \in Tasks : OwnsRuntime(b)' /\ OwnsRuntime(c)' => b = c
      BY <2>1, <2>2, <2>3, <1>t DEF OneOwner, RuntimeFree
    <2>5. \A b \in Tasks : OwnsRuntime(b)' => task'[b].session = session'
      BY <2>1, <2>2, <2>3, <2>f, <1>t DEF OneOwner
    <2>6. ASSUME NEW b \in Tasks, task'[b].kind = "rotate" PROVE minted' < MaxConversations
      <3>1. CASE minted' = minted
        BY <2>1, <2>2, <2>3, <2>6, <3>1, <1>t DEF OneOwner
      <3>2. CASE OwnsRuntime(a) /\ task' = [task EXCEPT ![a] = Idle]
        <4>1. b # a
          BY <3>2, <2>6, <1>t, IdleIsTyped
        <4>2. OwnsRuntime(b)
          BY <4>1, <2>2, <2>6, <1>i
        <4> QED
          BY <3>2, <4>1, <4>2, <1>t DEF OneOwner
      <3> QED
        BY <1>1, <3>1, <3>2, Frames
    <2>7. ASSUME NEW b \in Tasks, task'[b].step = "run" PROVE turns'[active'[session']] < MaxTurns
      <3>1. CASE UNCHANGED <<turns, active, minted>>
        BY <2>1, <2>2, <2>3, <2>7, <3>1, <2>f, <1>t DEF OneOwner
      <3>2. CASE b # a
        <4>1. OwnsRuntime(b) /\ b # a
          <5>1. task[b].step = "run" /\ task[b].kind = "turn"
            BY <2>2, <2>7, <3>2, <1>t DEF Kinds, WellFormed
          <5> QED
            BY <5>1, <3>2 DEF OwnsRuntime
        <4>2. ~RuntimeFree /\ ~OwnsRuntime(a)
          BY <4>1, <1>t DEF RuntimeFree, OneOwner
        <4> QED
          BY <1>1, <3>1, <4>2, Frames
      <3>3. CASE b = a
        <4>1. task'[a].step = "run"
          BY <2>7, <3>3
        <4>2. ~EndTurn(a) /\ task' # [task EXCEPT ![a] = Idle] /\ \A k \in Conversations : ~Activate(a, k)
          BY <4>1, <1>t, IdleIsTyped, EndsDoNotRun
        <4> QED
          BY <1>1, <3>1, <4>2, Frames
      <3> QED
        BY <3>2, <3>3
    <2> QED
      BY <2>4, <2>5, <2>6, <2>7 DEF OneOwner
  <1>2. CASE Retire
    <2>1. \A b \in Tasks : ~OwnsRuntime(b)' /\ task'[b] = task[b] /\ ~OwnsRuntime(b)
      BY <1>2 DEF Retire, RuntimeFree, OwnsRuntime
    <2>2. \A b \in Tasks : task[b].kind # "rotate" /\ task[b].step # "run"
      BY <2>1, <1>i, <1>t DEF OwnsRuntime, Kinds, WellFormed
    <2> QED
      BY <2>1, <2>2 DEF OneOwner
  <1>3. CASE Crash
    BY <1>3, IdleIsTyped DEF Crash, OneOwner, OwnsRuntime
  <1>4. CASE UNCHANGED vars
    BY <1>4, <1>t DEF vars, OneOwner, OwnsRuntime
  <1> QED
    BY <1>1, <1>2, <1>3, <1>4 DEF Next, Begins

(* Who comes to hold label_lock found it free, and a waiter is in line from  *)
(* when it queues until it is first.                                         *)
LEMMA LabelLockStep ==
    ASSUME IInv, [Next]_vars
    PROVE  OneLabels' /\ InLine'
  <1>t. Typed /\ Kinds /\ OneLabels /\ InLine /\ task \in [Tasks -> Task] /\ queue \in [Sessions -> Seq(Tasks)]
    BY DEF IInv, Typed
  <1>1. ASSUME NEW a \in Tasks, Begins(a) \/ Goes(a) PROVE OneLabels' /\ InLine'
    <2>1. PICK x \in Task : /\ task' = [task EXCEPT ![a] = x] /\ QueueMoves(a, x)
                            /\ x.step = "generate" => LabelFree(x.session)
                            /\ x.step # "idle" => x.session \in Sessions
      <3>1. PICK x \in Task : Takes(a, x) \/ (EndTurn(a) /\ task' = [task EXCEPT ![a] = x] /\ queue' = queue
                     /\ x = [task[a] EXCEPT !.kind = "hook", !.step = "trigger", !.appended = 1])
        BY <1>1, TaskTakes
      <3>2. CASE Takes(a, x)
        <4>1. x.step # "idle" => x.session \in Sessions
          BY <3>2 DEF Takes, WellFormed, Task, Sessions
        <4> QED
          BY <3>2, <4>1 DEF Takes
      <3>3. CASE EndTurn(a) /\ task' = [task EXCEPT ![a] = x] /\ queue' = queue
                     /\ x = [task[a] EXCEPT !.kind = "hook", !.step = "trigger", !.appended = 1]
        <4>1. x.step = "trigger" /\ task[a].step = "run" /\ x.session = task[a].session
          BY <3>3, <1>t DEF Task, EndTurn
        <4>2. x.session \in Sessions
          BY <4>1, <1>t DEF Kinds, WellFormed, Task, Sessions
        <4> QED
          BY <3>3, <4>1, <4>2 DEF QueueMoves
      <3> QED
        BY <3>1, <3>2, <3>3
    <2>2. \A b \in Tasks : task'[b] = IF b = a THEN x ELSE task[b]
      BY <2>1, <1>t
    <2>3. OneLabels'
      <3> SUFFICES ASSUME NEW s \in Sessions, NEW b \in At(s, "generate")', NEW c \in At(s, "generate")'
                   PROVE  b = c
        BY DEF OneLabels
      <3>1. b \in Tasks /\ c \in Tasks /\ task'[b].step = "generate" /\ task'[b].session = s
            /\ task'[c].step = "generate" /\ task'[c].session = s
        BY DEF At
      <3>2. CASE a \in {b, c} /\ b # c
        <4>1. x.step = "generate" /\ x.session = s
          BY <2>2, <3>1, <3>2
        <4>2. At(s, "generate") = {}
          BY <2>1, <4>1 DEF LabelFree
        <4> QED
          BY <2>2, <3>1, <3>2, <4>2 DEF At
      <3>3. CASE a \notin {b, c}
        BY <2>2, <3>1, <3>3, <1>t DEF OneLabels, At
      <3> QED
        BY <3>2, <3>3
    <2>4. InLine'
      <3> SUFFICES ASSUME NEW s \in Sessions
                   PROVE  /\ \A i \in 1..Len(queue'[s]) : queue'[s][i] \in At(s, "queue")'
                          /\ \A b \in At(s, "queue")' : \E i \in 1..Len(queue'[s]) : queue'[s][i] = b
                          /\ \A i, j \in 1..Len(queue'[s]) : queue'[s][i] = queue'[s][j] => i = j
        BY DEF InLine
      <3> DEFINE q == queue[s]
      <3>0. /\ q \in Seq(Tasks)
            /\ \A i \in 1..Len(q) : q[i] \in At(s, "queue")
            /\ \A b \in At(s, "queue") : \E i \in 1..Len(q) : q[i] = b
            /\ \A i, j \in 1..Len(q) : q[i] = q[j] => i = j
        BY <1>t DEF InLine
      <3>a. a \in At(s, "queue") <=> task[a].step = "queue" /\ task[a].session = s
        BY DEF At
      <3>1. CASE x.step # "queue" /\ task[a].step # "queue" /\ queue' = queue
        <4>1. At(s, "queue")' = At(s, "queue")
          BY <2>2, <3>1 DEF At
        <4> QED
          BY <3>0, <3>1, <4>1
      <3>2. CASE x.step = "queue" /\ task[a].step # "queue" /\ queue' = [queue EXCEPT ![x.session] = Append(@, a)]
        <4>1. CASE s = x.session
          <5>1. At(s, "queue")' = At(s, "queue") \cup {a} /\ a \notin At(s, "queue")
            BY <2>2, <3>2, <4>1 DEF At
          <5>2. queue'[s] = Append(q, a)
            BY <3>2, <4>1, <1>t
          <5> HIDE DEF q
          <5>3. /\ Len(queue'[s]) = Len(q) + 1 /\ queue'[s][Len(q) + 1] = a /\ Len(q) \in Nat
                /\ \A i \in 1..Len(q) : queue'[s][i] = q[i]
            BY <3>0, <5>2
          <5>4. \A i \in 1..Len(queue'[s]) : i \in 1..Len(q) \/ i = Len(q) + 1
            BY <5>3
          <5>5. \A i \in 1..Len(queue'[s]) : queue'[s][i] \in At(s, "queue")'
            BY <3>0, <5>1, <5>3, <5>4
          <5>6. \A b \in At(s, "queue")' : \E i \in 1..Len(queue'[s]) : queue'[s][i] = b
            BY <3>0, <5>1, <5>3
          <5>7. \A i, j \in 1..Len(queue'[s]) : queue'[s][i] = queue'[s][j] => i = j
            BY <3>0, <5>1, <5>3, <5>4
          <5> QED
            BY <5>5, <5>6, <5>7
        <4>2. CASE s # x.session
          <5>1. At(s, "queue")' = At(s, "queue")
            BY <2>2, <3>2, <4>2 DEF At
          <5>2. queue'[s] = q
            BY <3>2, <4>2, <1>t
          <5> HIDE DEF q
          <5> QED
            BY <3>0, <5>1, <5>2
        <4> QED
          BY <4>1, <4>2
      <3>3. CASE /\ x.step # "queue" /\ task[a].step = "queue" /\ Head(queue[task[a].session]) = a
                 /\ queue' = [queue EXCEPT ![task[a].session] = Tail(@)]
        <4>1. CASE s = task[a].session
          <5>1. At(s, "queue")' = At(s, "queue") \ {a} /\ a \in At(s, "queue")
            BY <2>2, <3>3, <4>1 DEF At
          <5>2. queue'[s] = Tail(q) /\ Head(q) = a
            BY <3>3, <4>1, <1>t
          <5> HIDE DEF q
          <5>3. q # <<>>
            BY <3>0, <5>1
          <5>4. /\ Len(queue'[s]) = Len(q) - 1 /\ q[1] = a /\ Len(q) \in Nat \ {0}
                /\ \A i \in 1..Len(q) - 1 : queue'[s][i] = q[i + 1]
            BY <3>0, <5>2, <5>3
          <5>5. \A i \in 1..Len(queue'[s]) : queue'[s][i] \in At(s, "queue")'
            <6> SUFFICES ASSUME NEW i \in 1..Len(queue'[s]) PROVE queue'[s][i] \in At(s, "queue")'
              OBVIOUS
            <6>1. i + 1 \in 1..Len(q) /\ i + 1 # 1 /\ 1 \in 1..Len(q) /\ queue'[s][i] = q[i + 1]
              BY <5>4
            <6>2. q[i + 1] # a /\ q[i + 1] \in At(s, "queue")
              BY <3>0, <5>4, <6>1
            <6> QED
              BY <5>1, <6>1, <6>2
          <5>6. \A b \in At(s, "queue")' : \E i \in 1..Len(queue'[s]) : queue'[s][i] = b
            <6> SUFFICES ASSUME NEW b \in At(s, "queue"), b # a
                         PROVE  \E i \in 1..Len(queue'[s]) : queue'[s][i] = b
              BY <5>1
            <6>1. PICK j \in 1..Len(q) : q[j] = b
              BY <3>0
            <6>2. j # 1 /\ j - 1 \in 1..Len(q) - 1 /\ (j - 1) + 1 = j
              BY <6>1, <5>4
            <6> QED
              BY <6>1, <6>2, <5>4
          <5>7. \A i, j \in 1..Len(queue'[s]) : queue'[s][i] = queue'[s][j] => i = j
            <6> SUFFICES ASSUME NEW i \in 1..Len(queue'[s]), NEW j \in 1..Len(queue'[s]),
                                queue'[s][i] = queue'[s][j]
                         PROVE  i = j
              OBVIOUS
            <6>1. i + 1 \in 1..Len(q) /\ j + 1 \in 1..Len(q) /\ q[i + 1] = q[j + 1]
              BY <5>4
            <6>2. i + 1 = j + 1
              BY <3>0, <6>1
            <6> QED
              BY <6>2
          <5> QED
            BY <5>5, <5>6, <5>7
        <4>2. CASE s # task[a].session
          <5>1. At(s, "queue")' = At(s, "queue")
            BY <2>2, <3>3, <4>2 DEF At
          <5>2. queue'[s] = q
            BY <3>3, <4>2, <1>t
          <5> HIDE DEF q
          <5> QED
            BY <3>0, <5>1, <5>2
        <4> QED
          BY <4>1, <4>2
      <3> QED
        BY <2>1, <3>1, <3>2, <3>3 DEF QueueMoves
    <2> QED
      BY <2>3, <2>4
  <1>2. CASE Crash
    <2>1. \A s \in Sessions : At(s, "queue")' = {} /\ At(s, "generate")' = {} /\ queue'[s] = <<>>
      BY <1>2, IdleIsTyped DEF Crash, At
    <2> QED
      BY <2>1 DEF OneLabels, InLine
  <1>3. CASE Retire \/ UNCHANGED vars
    <2>1. task' = task /\ queue' = queue
      BY <1>3 DEF Retire, vars
    <2> QED
      BY <2>1, <1>t DEF OneLabels, InLine, At
  <1> QED
    BY <1>1, <1>2, <1>3 DEF Next, Begins

-----------------------------------------------------------------------------
(* A title is written by who generates, for the conversation it captured.    *)
LEMMA NamedWrites ==
    ASSUME IInv, NEW a \in Tasks, NEW topic \in Topics \cup {Blank}, Named(a, topic)
    PROVE  LET k == task[a].conversation
           IN  /\ task[a].step = "generate" /\ k \in Conversations /\ task[a].covers \in 1..turns[k]
               /\ turns' = turns /\ task' = [task EXCEPT ![a] = Idle] /\ past' = past
               /\ \A c \in Conversations \ {k} : label'[c] = label[c]
               /\ topic = Blank => label' = label
               /\ topic # Blank =>
                     /\ label'[k] \in Label /\ label'[k].topic # Blank
                     /\ ~label'[k].altered => label'[k].topic \notin Others(k)
                     /\ label'[k].of = k /\ label'[k].covers = task[a].covers
               /\ past = {} => label[k].covers <= task[a].covers
  <1> DEFINE k == task[a].conversation
  <1>1. /\ task[a].step = "generate" /\ turns' = turns /\ task' = [task EXCEPT ![a] = Idle]
        /\ Write(a, topic) /\ past' = past
    BY DEF Named, Returns
  <1>2. k \in Conversations
    BY <1>1 DEF IInv, Kinds, WellFormed, Task, Conversations
  <1>3. task[a].covers \in 1..turns[k] /\ (past = {} => label[k].covers <= task[a].covers)
    BY <1>1 DEF IInv, Covering
  <1>4. label \in [Conversations -> Label]
    BY DEF IInv, Typed
  <1>5. topic # Blank => topic \in Topics
    OBVIOUS
  <1>6. k \in 0..MaxConversations /\ task[a].covers \in 0..MaxTurns
    <2>1. turns[k] \in 0..MaxTurns /\ task[a].covers \in Nat /\ task[a].covers <= turns[k]
      BY <1>2, <1>3 DEF IInv, Typed
    <2> QED
      BY <1>2, <2>1, LabelsAssumption DEF Conversations
  <1> DEFINE written == Titled(Unique(topic, k), k, task[a].covers)
  <1>7. topic # Blank => /\ written \in Label /\ written.topic # Blank
                         /\ written.of = k /\ written.covers = task[a].covers
                         /\ ~written.altered => written.topic \notin Others(k)
    BY <1>2, <1>5, <1>6, TitledIsSound
  <1>8. label' = [label EXCEPT ![k] = IF topic = Blank THEN label[k] ELSE written]
    BY <1>1 DEF Write
  <1> HIDE DEF written
  <1> QED
    BY <1>1, <1>2, <1>3, <1>4, <1>7, <1>8

LEMMA TitlesStep ==
    ASSUME IInv, [Next]_vars
    PROVE  Recorded' /\ TitlesTell'
  <1> USE LabelsAssumption
  <1>t. Typed /\ Grows /\ Recorded /\ TitlesTell
    BY TypedStep DEF IInv
  <1>n. /\ minted \in Nat /\ minted' \in Nat /\ minted <= minted'
        /\ \A k \in Conversations : turns[k] \in Nat /\ turns'[k] \in Nat /\ turns[k] <= turns'[k]
                                    /\ label[k].covers \in Nat /\ k \in Nat
    <2>1. /\ minted \in Conversations /\ minted' \in Conversations /\ minted <= minted'
          /\ turns \in [Conversations -> 0..MaxTurns] /\ turns' \in [Conversations -> 0..MaxTurns]
          /\ \A k \in Conversations : turns[k] <= turns'[k]
      BY <1>t DEF Typed, Grows
    <2>2. \A k \in Conversations : label[k].covers \in 0..MaxTurns
      BY <1>t DEF Typed, Label
    <2>3. Conversations \subseteq Nat /\ 0..MaxTurns \subseteq Nat
      BY DEF Conversations
    <2> QED
      BY <2>1, <2>2, <2>3
  <1>r. ASSUME label' = label, \A k \in Conversations : turns'[k] > 0 => k <= minted' PROVE Recorded' /\ TitlesTell'
    <2>1. Recorded'
      BY <1>r, <1>n, <1>t DEF Recorded
    <2>2. TitlesTell'
      BY <1>r, <1>t DEF TitlesTell, NamedAfterItself, TitlesAreUnique
    <2> QED
      BY <2>1, <2>2
  <1>1. ASSUME NEW a \in Tasks, Begins(a) \/ Goes(a) PROVE Recorded' /\ TitlesTell'
    <2>1. \A k \in Conversations : turns'[k] > 0 => k <= minted'
      <3>1. CASE turns' = turns
        BY <3>1, <1>n, <1>t DEF Recorded
      <3>2. CASE turns' = [turns EXCEPT ![active[session]] = @ + 1] /\ minted' = minted
        BY <3>2, <1>n, <1>t DEF Recorded, Typed
      <3> QED
        BY <1>1, <3>1, <3>2, Frames
    <2>2. ASSUME NEW topic \in Topics \cup {Blank}, Named(a, topic), topic # Blank PROVE Recorded' /\ TitlesTell'
      <3> DEFINE k == task[a].conversation
      <3>1. /\ k \in Conversations /\ task[a].covers \in 1..turns[k]
            /\ turns' = turns /\ \A c \in Conversations \ {k} : label'[c] = label[c]
            /\ label'[k].topic # Blank
            /\ ~label'[k].altered => label'[k].topic \notin Others(k)
            /\ label'[k].of = k /\ label'[k].covers = task[a].covers
        BY <2>2, NamedWrites
      <3> HIDE DEF k
      <3>2. Recorded'
        <4> SUFFICES ASSUME NEW c \in Conversations
                     PROVE  /\ turns'[c] > 0 => c <= minted'
                            /\ label'[c].topic = Blank <=> label'[c].covers = 0
                            /\ label'[c].covers <= turns'[c]
          BY DEF Recorded, Blank
        <4>1. CASE c = k
          <5>1. label'[c].topic # Blank /\ label'[c].covers \in 1..turns[c] /\ turns' = turns
            BY <3>1, <4>1
          <5>2. label'[c].covers # 0 /\ label'[c].covers <= turns[c]
            BY <5>1
          <5> QED
            BY <2>1, <5>1, <5>2
        <4>2. CASE c # k
          BY <2>1, <3>1, <4>2, <1>t DEF Recorded
        <4> QED
          BY <4>1, <4>2
      <3>3. NamedAfterItself'
        BY <3>1, <1>t DEF TitlesTell, NamedAfterItself, Blank
      <3>4. TitlesAreUnique'
        <4> SUFFICES ASSUME NEW i \in Conversations, NEW j \in Conversations, i # j, label'[j].topic # Blank,
                            label'[j].topic = label'[i].topic, ~label'[i].altered, ~label'[j].altered
                     PROVE  FALSE
          BY DEF TitlesAreUnique, Blank
        <4>1. CASE i = k
          BY <3>1, <4>1 DEF Others
        <4>2. CASE j = k
          BY <3>1, <4>2 DEF Others
        <4>3. CASE k \notin {i, j}
          BY <3>1, <4>3, <1>t DEF TitlesTell, TitlesAreUnique
        <4> QED
          BY <4>1, <4>2, <4>3
      <3> QED
        BY <3>2, <3>3, <3>4 DEF TitlesTell
    <2>3. ASSUME NEW topic \in Topics \cup {Blank}, Named(a, topic), topic = Blank PROVE Recorded' /\ TitlesTell'
      BY <2>1, <2>3, <1>r, NamedWrites
    <2>4. CASE label' = label
      BY <2>1, <2>4, <1>r
    <2> QED
      BY <1>1, <2>2, <2>3, <2>4, Frames
  <1>2. CASE Retire \/ Crash \/ UNCHANGED vars
    <2>1. label' = label /\ turns' = turns
      BY <1>2 DEF Retire, Crash, vars
    <2>2. \A k \in Conversations : turns'[k] > 0 => k <= minted'
      BY <2>1, <1>n, <1>t DEF Recorded
    <2> QED
      BY <2>1, <2>2, <1>r
  <1> QED
    BY <1>1, <1>2 DEF Next, Begins

LEMMA CoveringStep ==
    ASSUME IInv, [Next]_vars
    PROVE  Together' /\ Covering'
  <1> USE LabelsAssumption
  <1>t. Typed /\ Grows /\ Kinds /\ Together /\ Covering /\ OneLabels /\ Recorded /\ task \in [Tasks -> Task]
    BY TypedStep DEF IInv, Typed
  <1>n. \A k \in Conversations : turns[k] \in Nat /\ turns'[k] \in Nat /\ turns[k] <= turns'[k]
                                 /\ label[k].covers \in Nat /\ label[k].covers <= turns[k]
    BY <1>t DEF Typed, Grows, Label, Recorded
  <1>g. \A b \in Tasks : task[b].step = "generate" =>
            task[b].conversation \in Conversations /\ task[b].covers \in Nat /\ task[b].session \in Sessions
    BY <1>t DEF Kinds, WellFormed, Task, Conversations, Sessions
  <1>1. ASSUME NEW a \in Tasks, Begins(a) \/ Goes(a) PROVE Together' /\ Covering'
    <2>f. past' = past /\ session' = session
      BY <1>1, Frames
    <2>1. PICK x \in Task : /\ task' = [task EXCEPT ![a] = x]
                            /\ past = {} /\ x.step # "idle" => x.session = session
                            /\ x.step = "generate" => /\ x.conversation \in Conversations
                                                      /\ x.covers = turns[x.conversation] /\ x.covers > 0
      <3>1. PICK x \in Task : Takes(a, x) \/ (EndTurn(a) /\ task' = [task EXCEPT ![a] = x] /\ queue' = queue
                     /\ x = [task[a] EXCEPT !.kind = "hook", !.step = "trigger", !.appended = 1])
        BY <1>1, TaskTakes
      <3>2. CASE Takes(a, x)
        <4>1. x.step = "generate" => x.conversation \in Conversations /\ turns[x.conversation] > 0
          BY <3>2 DEF Takes, WellFormed, Task, Conversations
        <4>2. past = {} /\ x.step # "idle" => x.session = session
          BY <3>2, <1>t DEF Takes, Together
        <4> QED
          BY <3>2, <4>1, <4>2 DEF Takes
      <3>3. CASE EndTurn(a) /\ task' = [task EXCEPT ![a] = x] /\ queue' = queue
                     /\ x = [task[a] EXCEPT !.kind = "hook", !.step = "trigger", !.appended = 1]
        <4>1. x.step = "trigger" /\ task[a].step = "run" /\ x.session = task[a].session
          BY <3>3, <1>t DEF Task, EndTurn
        <4> QED
          BY <3>3, <4>1, <1>t DEF Together
      <3> QED
        BY <3>1, <3>2, <3>3
    <2>2. \A b \in Tasks : task'[b] = IF b = a THEN x ELSE task[b]
      BY <2>1, <1>t
    <2>3. Together'
      BY <2>1, <2>2, <2>f, <1>t DEF Together
    <2>4. Covering'
      <3> SUFFICES ASSUME NEW b \in Tasks, task'[b].step = "generate"
                   PROVE  /\ task'[b].covers \in 1..turns'[task'[b].conversation]
                          /\ past' = {} => label'[task'[b].conversation].covers <= task'[b].covers
        BY DEF Covering
      <3> DEFINE k == task'[b].conversation
      <3>0. k \in Conversations /\ task'[b].covers \in 1..turns[k]
            /\ (past = {} => label[k].covers <= task'[b].covers)
        <4>1. CASE b = a
          BY <2>1, <2>2, <4>1, <1>n
        <4>2. CASE b # a
          <5>1. task'[b] = task[b] /\ task[b].step = "generate"
            BY <2>2, <4>2
          <5> QED
            BY <5>1, <1>g, <1>t DEF Covering
        <4> QED
          BY <4>1, <4>2
      <3>1. task'[b].covers \in 1..turns'[k]
        <4> HIDE DEF k
        <4> QED
          BY <3>0, <1>n
      <3>2. CASE label' = label
        BY <3>0, <3>1, <3>2, <2>f
      <3>3. ASSUME NEW topic \in Topics \cup {Blank}, Named(a, topic), past = {}
            PROVE  label'[k].covers <= task'[b].covers
        <4>1. b # a
          <5>1. task' = [task EXCEPT ![a] = Idle]
            BY <3>3, NamedWrites
          <5>2. task'[a] = Idle
            BY <5>1, <1>t DEF Typed
          <5> QED
            BY <5>2, <2>2, IdleIsTyped
        <4>2. task'[b] = task[b] /\ task[b].step = "generate" /\ task[a].step = "generate"
          BY <3>3, <4>1, <2>2, NamedWrites
        <4>3. task[b].session = session /\ task[a].session = session
          BY <3>3, <4>2, <1>t DEF Together
        <4>4. a = b
          BY <4>2, <4>3, <1>t DEF OneLabels, At, Typed
        <4> QED
          BY <4>1, <4>4
      <3> QED
        BY <1>1, <3>1, <3>2, <3>3, <2>f, Frames
    <2> QED
      BY <2>3, <2>4
  <1>2. CASE Crash
    BY <1>2, IdleIsTyped DEF Crash, Together, Covering
  <1>3. CASE Retire
    <2>1. past' = {} => \A b \in Tasks : task[b] = Idle
      BY <1>3 DEF Retire
    <2>2. Together'
      BY <1>3, <2>1, IdleIsTyped DEF Retire, Together
    <2>3. Covering'
      BY <1>3, <1>t DEF Retire, Covering
    <2> QED
      BY <2>2, <2>3
  <1>4. CASE UNCHANGED vars
    BY <1>4, <1>t DEF vars, Together, Covering
  <1> QED
    BY <1>1, <1>2, <1>3, <1>4 DEF Next, Begins

-----------------------------------------------------------------------------
LEMMA InitHolds == Init => IInv
  <1> SUFFICES ASSUME Init PROVE IInv
    OBVIOUS
  <1> USE LabelsAssumption
  <1>1. session = 1 /\ minted = 1 /\ saved = 0 /\ past = {} /\ 1 \in Sessions /\ 1 \in Conversations
    BY DEF Init, Sessions, Conversations
  <1>2. \A k \in Conversations : turns[k] = 0 /\ label[k] = NoLabel
    BY DEF Init
  <1>3. \A a \in Tasks : task[a] = Idle /\ task[a].step = "idle" /\ task[a].kind = "none"
    BY IdleIsTyped DEF Init
  <1>4. \A s \in Sessions : queue[s] = <<>> /\ At(s, "queue") = {} /\ At(s, "generate") = {}
    BY <1>3 DEF Init, At
  <1>5. Typed
    <2>1. NoLabel \in Label
      BY DEF NoLabel, Label, Titles
    <2>2. /\ label \in [Conversations -> Label] /\ turns \in [Conversations -> 0..MaxTurns]
          /\ active \in [Sessions -> Conversations] /\ \A s \in Sessions : active[s] = 1
      BY <1>1, <2>1 DEF Init
    <2>3. task \in [Tasks -> Task] /\ queue \in [Sessions -> Seq(Tasks)]
      BY IdleIsTyped DEF Init
    <2> QED
      BY <1>1, <2>2, <2>3 DEF Typed
  <1>6. Kinds
    BY <1>3, <1>5, IdleIsFine DEF Kinds
  <1>7. OneOwner /\ Together /\ Covering
    BY <1>3 DEF OneOwner, OwnsRuntime, Together, Covering
  <1>8. OneLabels /\ InLine
    BY <1>4 DEF OneLabels, InLine
  <1>9. Recorded /\ TitlesTell
    BY <1>2 DEF NoLabel, Recorded, TitlesTell, NamedAfterItself, TitlesAreUnique
  <1> QED
    BY <1>5, <1>6, <1>7, <1>8, <1>9 DEF IInv

LEMMA InvStep == IInv /\ [Next]_vars => IInv'
  BY TypedStep, KindsStep, OneOwnerStep, LabelLockStep, TitlesStep, CoveringStep DEF IInv

LEMMA Inductive == Spec => []IInv
  BY InitHolds, InvStep, PTL DEF Spec

(* The variables have their types, and the line at a label lock holds each   *)
(* of its waiters once.                                                      *)
THEOREM TypeCorrect == Spec => []TypeOK
  <1> SUFFICES ASSUME IInv PROVE TypeOK
    BY Inductive, PTL
  <1> USE LabelsAssumption
  <1>1. ASSUME NEW s \in Sessions PROVE queue[s] \in Seq(Tasks) /\ Cardinality(At(s, "queue")) = Len(queue[s])
    <2> DEFINE q == queue[s]
    <2>1. /\ q \in Seq(Tasks) /\ Len(q) \in Nat
          /\ \A i \in 1..Len(q) : q[i] \in At(s, "queue")
          /\ \A b \in At(s, "queue") : \E i \in 1..Len(q) : q[i] = b
          /\ \A i, j \in 1..Len(q) : q[i] = q[j] => i = j
      BY DEF IInv, Typed, InLine
    <2>2. q \in Bijection(1..Len(q), At(s, "queue"))
      <3> HIDE DEF q
      <3>1. DOMAIN q = 1..Len(q) /\ q = [i \in DOMAIN q |-> q[i]]
        BY <2>1
      <3>2. q \in [1..Len(q) -> At(s, "queue")]
        BY <2>1, <3>1
      <3> QED
        BY <2>1, <3>2 DEF Bijection, Injection, Surjection, IsInjective
    <2>3. ExistsBijection(1..Len(q), At(s, "queue"))
      BY <2>2 DEF ExistsBijection
    <2> QED
      BY <2>1, <2>3, FS_CountingElements
  <1>2. \A k \in Conversations :
            /\ label[k].of \in 0..MaxConversations /\ label[k].altered \in BOOLEAN
            /\ label[k].topic = Blank <=> label[k].covers \notin 1..turns[k]
    BY DEF IInv, Typed, Label, Recorded
  <1>3. \A a \in Tasks :
            /\ task[a].kind \in {"none", "turn", "hook", "activate", "rotate"}
            /\ task[a].step \in {"idle", "run", "trigger", "queue", "generate"}
            /\ task[a].session \in 0..session /\ task[a].conversation \in 0..minted
            /\ task[a].covers \in 0..MaxTurns /\ task[a].appended \in {0, 1}
    <2> SUFFICES ASSUME NEW a \in Tasks
                 PROVE  /\ task[a].kind \in {"none", "turn", "hook", "activate", "rotate"}
                        /\ task[a].step \in {"idle", "run", "trigger", "queue", "generate"}
                        /\ task[a].session \in 0..session /\ task[a].conversation \in 0..minted
                        /\ task[a].covers \in 0..MaxTurns /\ task[a].appended \in {0, 1}
      OBVIOUS
    <2>1. PICK x \in Task : x = task[a]
      BY DEF IInv, Kinds, WellFormed
    <2>2. PICK n \in Nat, m \in Nat : n = session /\ m = minted
      BY DEF IInv, Typed, Sessions, Conversations
    <2>3. x.session <= n /\ x.conversation <= m
      BY <2>1, <2>2 DEF IInv, Kinds, WellFormed
    <2>4. /\ x.kind \in {"none", "turn", "hook", "activate", "rotate"}
          /\ x.step \in {"idle", "run", "trigger", "queue", "generate"}
          /\ x.session \in 0..n /\ x.conversation \in 0..m
          /\ x.covers \in 0..MaxTurns /\ x.appended \in {0, 1}
      BY <2>1, <2>3 DEF Task
    <2> QED
      BY <2>1, <2>2, <2>4
  <1>4. /\ session \in Sessions /\ active \in [Sessions -> Conversations] /\ minted \in Conversations
        /\ saved \in 0..minted /\ turns \in [Conversations -> 0..MaxTurns] /\ past \subseteq {"retired"}
    BY DEF IInv, Typed
  <1> QED
    BY <1>1, <1>2, <1>3, <1>4 DEF TypeOK

(* For any number of tasks, conversations and sessions a title is the name   *)
(* of the conversation it was generated from, and of no other of the channel *)
(* unless the redaction altered one of the two                               *)
(* (ensure_topic_and_summary, apply_label_txn, _unique_topic_in_txn).        *)
THEOREM TitlesAreTheirOwn == Spec => []TitlesTell
  <1>1. IInv => TitlesTell
    BY DEF IInv
  <1> QED
    BY <1>1, Inductive, PTL

(* No title is lost to a blank answer or replaced by one from fewer turns    *)
(* unless a session was retired under a label: one task at a time labels for *)
(* a session, from what it captured when it began (label_lock).              *)
THEOREM LabelsMature == Spec => LabelsNeverGoBack
  <1>1. ASSUME IInv, [Next]_vars PROVE KeepsItsTitles
    <2> SUFFICES ASSUME past' = {}, NEW k \in Conversations, label[k].topic # Blank
                 PROVE  label'[k].topic # Blank /\ label'[k].covers >= label[k].covers
      BY DEF KeepsItsTitles
    <2>0. label[k].covers \in Nat
      BY <1>1 DEF IInv, Typed, Label
    <2>1. CASE label' = label
      BY <2>0, <2>1
    <2>2. ASSUME NEW a \in Tasks, NEW topic \in Topics \cup {Blank}, Named(a, topic)
          PROVE  label'[k].topic # Blank /\ label'[k].covers >= label[k].covers
      <3>1. past = {}
        BY <2>2, <1>1, NamedWrites
      <3>2. CASE topic = Blank
        BY <2>0, <2>2, <3>2, <1>1, NamedWrites
      <3>3. CASE topic # Blank /\ k # task[a].conversation
        BY <2>0, <2>2, <3>3, <1>1, NamedWrites
      <3>4. CASE topic # Blank /\ k = task[a].conversation
        <4>1. task[a].covers \in 1..turns[k] /\ label'[k].covers = task[a].covers
              /\ label[k].covers <= task[a].covers /\ label'[k].topic # Blank
          BY <2>2, <3>1, <3>4, <1>1, NamedWrites
        <4> QED
          BY <2>0, <4>1
      <3> QED
        BY <3>2, <3>3, <3>4
    <2>3. CASE Retire \/ Crash \/ UNCHANGED vars
      BY <2>1, <2>3 DEF Retire, Crash, vars
    <2>4. ASSUME NEW a \in Tasks, Begins(a) \/ Goes(a)
          PROVE  label'[k].topic # Blank /\ label'[k].covers >= label[k].covers
      BY <1>1, <2>1, <2>2, <2>4, Frames
    <2> QED
      BY <1>1, <2>3, <2>4 DEF Next, Begins
  <1> QED
    BY <1>1, Inductive, PTL DEF Spec, LabelsNeverGoBack

----------------------------------------------------------------------------
(* CommandDialogue.                                                           *)

(* Induction on the natural numbers, over a set: a least number outside of it *)
(* has a predecessor inside.                                                  *)
LEMMA NumbersByInduction ==
    ASSUME NEW S, 0 \in S, \A n \in Nat : n \in S => n + 1 \in S
    PROVE  Nat \subseteq S
  <1> DEFINE T == Nat \ S
  <1>1. SUFFICES ASSUME T # {} PROVE FALSE
    OBVIOUS
  <1>2. T \subseteq Nat
    OBVIOUS
  <1>3. PICK x \in T : \A y \in T : <<y, x>> \notin OpToRel(<, Nat)
    BY <1>1, <1>2, WFMin, NatLessThanWellFounded
  <1>4. \A y \in T : ~(y < x)
    BY <1>3 DEF OpToRel
  <1>5. x \in Nat /\ x # 0
    BY <1>3
  <1>6. x - 1 \in Nat /\ x - 1 < x
    BY <1>5
  <1>7. x - 1 \in S
    BY <1>4, <1>6
  <1>8. (x - 1) + 1 \in S
    BY <1>6, <1>7
  <1>9. x \in S
    BY <1>5, <1>8
  <1> QED
    BY <1>9

(* The walks up are what their definition says, since every one ends. *)
LEMMA ChainIsDefined ==
    Chain = [c \in Contexts |-> IF c = Root THEN <<c>> ELSE <<c>> \o Chain[Parent[c]]]
  <1>1. PICK depth \in [Contexts -> 0..Cardinality(Contexts)] :
            \A c \in Contexts \ {Root} : depth[Parent[c]] < depth[c]
    BY HierarchyEnds
  <1>2. Cardinality(Contexts) \in Nat
    BY FS_CardinalityType, DialogueAssumption
  <1>3. \A c \in Contexts : Parent[c] \in Contexts /\ depth[c] \in Nat
                            /\ depth[c] <= Cardinality(Contexts)
    BY <1>1, <1>2, DialogueAssumption
  <1> DEFINE Low(n) == {c \in Contexts : depth[c] <= n}
             Walks(n, g) == g = [c \in Low(n) |-> IF c = Root THEN <<c>> ELSE <<c>> \o g[Parent[c]]]
             S == {n \in Nat : \E g : Walks(n, g)}
  <1>4. 0 \in S
    <2> DEFINE g == [c \in Low(0) |-> <<c>>]
    <2>1. \A c \in Low(0) : c = Root
      BY <1>1, <1>3
    <2>2. g = [c \in Low(0) |-> IF c = Root THEN <<c>> ELSE <<c>> \o g[Parent[c]]]
      BY <2>1
    <2> QED
      BY <2>2
  <1>5. ASSUME NEW n \in Nat, n \in S PROVE n + 1 \in S
    <2>1. PICK g : Walks(n, g)
      BY <1>5
    <2> DEFINE h == [c \in Low(n + 1) |-> IF c = Root THEN <<c>> ELSE <<c>> \o g[Parent[c]]]
    <2>2. ASSUME NEW c \in Low(n + 1), c # Root PROVE h[Parent[c]] = g[Parent[c]]
      <3>1. Parent[c] \in Low(n) /\ Parent[c] \in Low(n + 1)
        BY <1>1, <1>3, <2>2
      <3>2. h[Parent[c]] = IF Parent[c] = Root THEN <<Parent[c]>> ELSE <<Parent[c]>> \o g[Parent[Parent[c]]]
        BY <3>1
      <3>3. g[Parent[c]] = IF Parent[c] = Root THEN <<Parent[c]>> ELSE <<Parent[c]>> \o g[Parent[Parent[c]]]
        BY <2>1, <3>1
      <3> QED
        BY <3>2, <3>3
    <2>3. h = [c \in Low(n + 1) |-> IF c = Root THEN <<c>> ELSE <<c>> \o h[Parent[c]]]
      BY <2>2
    <2>4. Walks(n + 1, h)
      BY <2>3
    <2> HIDE DEF h, Walks
    <2> QED
      BY <2>4
  <1> HIDE DEF S
  <1>6. Nat \subseteq S
    BY <1>4, <1>5, NumbersByInduction
  <1>7. PICK g : Walks(Cardinality(Contexts), g)
    BY <1>2, <1>6 DEF S
  <1>8. Low(Cardinality(Contexts)) = Contexts
    BY <1>3
  <1>9. g = [c \in Contexts |-> IF c = Root THEN <<c>> ELSE <<c>> \o g[Parent[c]]]
    BY <1>7, <1>8
  <1> QED
    BY <1>9, Zenon DEF Chain

(* A walk visits contexts, the first of them the one it starts from. *)
LEMMA ChainsAreWalks ==
    ASSUME NEW c \in Contexts
    PROVE  Chain[c] \in Seq(Contexts) /\ Len(Chain[c]) > 0 /\ Chain[c][1] = c
  <1>1. PICK depth \in [Contexts -> 0..Cardinality(Contexts)] :
            \A k \in Contexts \ {Root} : depth[Parent[k]] < depth[k]
    BY HierarchyEnds
  <1>2. Cardinality(Contexts) \in Nat
    BY FS_CardinalityType, DialogueAssumption
  <1>3. \A k \in Contexts : Parent[k] \in Contexts /\ depth[k] \in Nat
    BY <1>1, <1>2, DialogueAssumption
  <1>4. \A k \in Contexts : Chain[k] = IF k = Root THEN <<k>> ELSE <<k>> \o Chain[Parent[k]]
    BY ChainIsDefined
  <1> DEFINE S == {n \in Nat : \A k \in Contexts : depth[k] <= n => Chain[k] \in Seq(Contexts)}
  <1>5. 0 \in S
    <2>1. ASSUME NEW k \in Contexts, depth[k] <= 0 PROVE Chain[k] \in Seq(Contexts)
      <3>1. k = Root
        BY <1>1, <1>3, <2>1
      <3>2. Chain[k] = <<k>>
        BY <1>4, <3>1, Zenon
      <3> QED
        BY <3>2
    <2> QED
      BY <2>1
  <1>6. ASSUME NEW n \in Nat, n \in S PROVE n + 1 \in S
    <2>1. ASSUME NEW k \in Contexts, depth[k] <= n + 1 PROVE Chain[k] \in Seq(Contexts)
      <3>1. CASE k = Root
        <4>1. Chain[k] = <<k>>
          BY <1>4, <3>1, Zenon
        <4> QED
          BY <4>1
      <3>2. CASE k # Root
        <4>1. Parent[k] \in Contexts /\ depth[Parent[k]] <= n
          BY <1>1, <1>3, <2>1, <3>2
        <4>2. Chain[Parent[k]] \in Seq(Contexts)
          BY <1>6, <4>1
        <4>3. Chain[k] = <<k>> \o Chain[Parent[k]]
          BY <1>4, <3>2, Zenon
        <4> QED
          BY <4>2, <4>3
      <3> QED
        BY <3>1, <3>2
    <2> QED
      BY <2>1
  <1>7. Nat \subseteq S
    <2> HIDE DEF S
    <2> QED
      BY <1>5, <1>6, NumbersByInduction
  <1>8. \A k \in Contexts : Chain[k] \in Seq(Contexts)
    BY <1>3, <1>7
  <1>9. CASE c = Root
    <2>1. Chain[c] = <<c>>
      BY <1>4, <1>9, Zenon
    <2> QED
      BY <2>1
  <1>10. CASE c # Root
    <2>1. Chain[Parent[c]] \in Seq(Contexts)
      BY <1>3, <1>8
    <2>2. Chain[c] = <<c>> \o Chain[Parent[c]]
      BY <1>4, <1>10, Zenon
    <2> QED
      BY <2>1, <2>2
  <1> QED
    BY <1>9, <1>10

(* A walk that meets an owner ends at the nearest one. *)
LEMMA OwnersAreFound ==
    ASSUME NEW c \in Contexts, NEW m, ~Foreign(c, m)
    PROVE  NearestOwner(c, m) \in Contexts /\ m \in Owned[NearestOwner(c, m)]
  <1> DEFINE steps == {i \in DOMAIN Chain[c] : m \in Owned[Chain[c][i]]}
  <1>1. Chain[c] \in Seq(Contexts)
    BY ChainsAreWalks
  <1>2. steps \in SUBSET (1..Len(Chain[c])) /\ steps # {} /\ Len(Chain[c]) \in Nat
    BY <1>1 DEF Foreign
  <1>3. \E i \in steps : \A j \in steps : i <= j
    BY <1>2, LeastOfSome
  <1>4. (CHOOSE i \in steps : \A j \in steps : i <= j) \in steps
    BY <1>3
  <1> DEFINE n == CHOOSE i \in steps : \A j \in steps : i <= j
  <1>5. n \in 1..Len(Chain[c]) /\ m \in Owned[Chain[c][n]]
    BY <1>2, <1>4
  <1>6. NearestOwner(c, m) = Chain[c][n]
    BY DEF NearestOwner
  <1> HIDE DEF n
  <1> QED
    BY <1>1, <1>5, <1>6

----------------------------------------------------------------------------
Stages == {"detect", "ambiguous", "misunderstood", "extract"}
CommandOrNone == Commands \cup {None}
Dialogues == [stage : Stages, kept : BOOLEAN, name : CommandOrNone, stored : CommandOrNone,
              here : Contexts, resp : Contexts \cup {None}]
Offers == SUBSET (Commands \cup {"go_up"})
Outcomes == {"handled", "asks", "raises", "runs"}
AllReadings == [d : Dialogues, out : Outcomes, cmd : CommandOrNone, of : CommandOrNone,
                options : Offers, learns : SUBSET Commands]

(* What is stored while the user did not object is of the command that is     *)
(* being collected, and what is being collected is a command.                 *)
Collects(d) == d.stage = "extract" => d.name \in Commands
StoredForOne(d) == d.stored # None => d.stage = "extract" /\ d.stored = d.name
Placed(d) == d.stage = "extract" => d.name \in Owned[d.resp]
OnSite == ~moved /\ scope = "workflow"

(* What a reading of the dialogue leaves, told by its outcome.                *)
Runs(r) ==
    IF r.out = "runs"
    THEN /\ r.cmd \in Commands /\ r.d.stage = "detect" /\ r.d.stored = None
         /\ ~objected => r.of = r.cmd
         /\ OnSite => r.cmd \in Owned[r.d.resp]
    ELSE r.cmd = None /\ r.of = None

Stores(r) ==
    /\ Collects(r.d)
    /\ ~objected => StoredForOne(r.d) \/ (dialogue.stage = "extract" /\ r.d.stage = "misunderstood")
    /\ OnSite => Placed(r.d)

Offered(r) ==
    r.d.stage = "ambiguous" =>
        \/ dialogue.stage = "ambiguous" /\ r.options = {}
        \/ r.options # {} /\ r.options \subseteq Owned[r.d.here] \cup {"go_up"}

Opens(r) ==
    /\ r.out = "handled" => r.d.stage \in {"detect", "misunderstood"}
    /\ r.out = "asks" /\ dialogue.stage # "misunderstood" => r.d.stage \in {"ambiguous", "extract"}

Fits(r) == r \in AllReadings /\ Runs(r) /\ Stores(r) /\ Offered(r) /\ Opens(r)

(* The names of commands are no core commands. *)
LEMMA Apart ==
    ASSUME NEW m \in Commands
    PROVE  m \notin Core /\ m # "abort" /\ m # "you_misunderstood" /\ m # None /\ m # "words"
           /\ m # "what_can_i_do" /\ m # "go_up"
  BY NamesAreApart DEF Reserved, Core

(* Completing the parameters of a command. *)
LEMMA ExtractedFits ==
    ASSUME NEW d \in Dialogues, NEW c \in Commands, d.stage = "extract", d.name = c,
           ~objected => d.stored \in {None, c}, OnSite => c \in Owned[d.resp],
           NEW r \in Extracted(d, c)
    PROVE  Fits(r) /\ r.options = {} /\ r.d.stage # "ambiguous"
  <1> DEFINE of == IF d.stored = None THEN c ELSE d.stored
  <1>1. of \in Commands /\ (~objected => of = c)
    BY DEF Dialogues, CommandOrNone
  <1>2. c # None
    BY Apart
  <1>3. CASE r = [Reading(Ended(d), "runs") EXCEPT !.cmd = c, !.of = of]
    <2>1. r = [d |-> Ended(d), out |-> "runs", cmd |-> c, of |-> of, options |-> {}, learns |-> {}]
      BY <1>3 DEF Reading
    <2>2. Ended(d) \in Dialogues /\ Ended(d).stage = "detect" /\ Ended(d).stored = None
          /\ Ended(d).resp = d.resp
      BY DEF Ended, Dialogues, CommandOrNone, Stages
    <2> QED
      BY <1>1, <2>1, <2>2
      DEF Fits, Runs, Stores, Offered, Opens, AllReadings, Outcomes, Offers, CommandOrNone, Collects,
          StoredForOne, Placed
  <1>4. ASSUME NEW e \in Dialogues, e.stage = "extract", e.name = c, e.resp = d.resp,
               ~objected => e.stored \in {None, c}, NEW out \in {"asks", "raises"},
               r = Reading(e, out)
        PROVE  Fits(r) /\ r.options = {} /\ r.d.stage # "ambiguous"
    <2>1. r = [d |-> e, out |-> out, cmd |-> None, of |-> None, options |-> {}, learns |-> {}]
      BY <1>4 DEF Reading
    <2> QED
      BY <1>4, <2>1
      DEF Fits, Runs, Stores, Offered, Opens, AllReadings, Outcomes, Offers, CommandOrNone, Collects,
          StoredForOne, Placed
  <1>5. CASE r = Reading([d EXCEPT !.stored = of], "asks")
    <2> DEFINE e == [d EXCEPT !.stored = of]
    <2>1. e \in Dialogues /\ e.stage = "extract" /\ e.name = c /\ e.resp = d.resp /\ e.stored = of
      BY <1>1 DEF Dialogues, CommandOrNone
    <2> HIDE DEF e, of
    <2> QED
      BY <1>1, <1>4, <1>5, <2>1 DEF e
  <1>6. CASE r = Reading(d, "raises")
    BY <1>4, <1>6
  <1>7. CASE r \in {Reading(e, "asks") : e \in {d} \cap {[d EXCEPT !.stored = None]}}
    <2>1. r = Reading(d, "asks")
      BY <1>7
    <2> QED
      BY <1>4, <2>1
  <1> QED
    BY <1>3, <1>5, <1>6, <1>7 DEF Extracted

(* A command is routed to the context on which it will run. *)
LEMMA RoutedFits ==
    ASSUME NEW d \in Dialogues, NEW on \in Contexts, NEW c \in Commands,
           ~objected => d.stored = None, OnSite => c \in Owned[on], NEW r \in Routed(d, on, c)
    PROVE  Fits(r) /\ r.options = {} /\ r.d.stage # "ambiguous"
  <1> DEFINE e == [d EXCEPT !.stage = "extract", !.name = c, !.resp = on]
  <1>2. e \in Dialogues /\ e.stage = "extract" /\ e.name = c /\ e.resp = on /\ e.stored = d.stored
    BY DEF Dialogues, Stages, CommandOrNone
  <1>3. r \in Extracted(e, c)
    BY DEF Routed
  <1> HIDE DEF e
  <1> QED
    BY <1>2, <1>3, ExtractedFits

(* What holds of the dialogue before it reads a message. *)
Ready ==
    /\ dialogue \in Dialogues /\ suggested \in Offers
    /\ Collects(dialogue)
    /\ ~objected => StoredForOne(dialogue)
    /\ OnSite => Placed(dialogue)
    /\ OnSite /\ dialogue.stage = "ambiguous" => suggested \subseteq Owned[dialogue.here] \cup {"go_up"}

(* A reading that runs nothing fits when what it leaves does. *)
LEMMA PlainFits ==
    ASSUME NEW e \in Dialogues, NEW out \in {"handled", "asks", "raises"}, NEW o \in Offers,
           Collects(e),
           ~objected => StoredForOne(e) \/ (dialogue.stage = "extract" /\ e.stage = "misunderstood"),
           OnSite => Placed(e),
           e.stage = "ambiguous" => \/ dialogue.stage = "ambiguous" /\ o = {}
                                    \/ o # {} /\ o \subseteq Owned[e.here] \cup {"go_up"},
           out = "handled" => e.stage \in {"detect", "misunderstood"},
           out = "asks" /\ dialogue.stage # "misunderstood" => e.stage \in {"ambiguous", "extract"}
    PROVE  /\ Fits([Reading(e, out) EXCEPT !.options = o])
           /\ o = {} => Fits(Reading(e, out))
  <1>1. [Reading(e, out) EXCEPT !.options = o] =
            [d |-> e, out |-> out, cmd |-> None, of |-> None, options |-> o, learns |-> {}]
    BY DEF Reading
  <1>2. o = {} => Reading(e, out) =
            [d |-> e, out |-> out, cmd |-> None, of |-> None, options |-> o, learns |-> {}]
    BY DEF Reading
  <1> DEFINE r == [d |-> e, out |-> out, cmd |-> None, of |-> None, options |-> o, learns |-> {}]
  <1>3. Fits(r)
    BY DEF Fits, Runs, Stores, Offered, Opens, AllReadings, Outcomes, CommandOrNone
  <1> QED
    BY <1>1, <1>2, <1>3

(* A reading that leaves nothing of a command fits. *)
LEMMA AtRestFits ==
    ASSUME NEW e \in Dialogues, NEW out \in {"handled", "raises"}, NEW o \in Offers,
           e.stage \in {"detect", "misunderstood"}, ~objected => e.stored = None
    PROVE  /\ Fits([Reading(e, out) EXCEPT !.options = o])
           /\ o = {} => Fits(Reading(e, out))
  <1>1. Collects(e) /\ (~objected => StoredForOne(e)) /\ Placed(e)
    BY DEF Collects, StoredForOne, Placed
  <1> QED
    BY <1>1, PlainFits

LEMMA EndedIsAtRest ==
    ASSUME NEW d \in Dialogues
    PROVE  Ended(d) \in Dialogues /\ Ended(d).stage = "detect" /\ Ended(d).stored = None
           /\ Ended(d).here = d.here /\ Ended(d).resp = d.resp
  BY DEF Ended, Dialogues, Stages, CommandOrNone

LEMMA WentIsADialogue ==
    ASSUME NEW d \in Dialogues, NEW k
    PROVE  Went(d, k) \in Dialogues /\ Went(d, k).stage = d.stage
           /\ Went(d, k).stored = d.stored /\ Went(d, k).name = d.name /\ Went(d, k).resp = d.resp
  BY DialogueAssumption DEF Went, Dialogues

LEMMA NoOffer == {} \in Offers
  BY DEF Offers

LEMMA HintedFits ==
    ASSUME Ready, NEW r \in Hinted(dialogue)
    PROVE  Fits(r)
  <1> DEFINE e == [Ended(dialogue) EXCEPT !.resp = Root]
  <1>1. e \in Dialogues /\ e.stage = "detect" /\ e.stored = None
    BY DialogueAssumption, EndedIsAtRest DEF Ready, Dialogues
  <1>2. r = Reading(e, "handled")
    BY DEF Hinted
  <1> HIDE DEF e
  <1> QED
    BY <1>1, <1>2, AtRestFits, NoOffer

LEMMA AbortedFits ==
    ASSUME Ready, NEW r \in Aborted(dialogue)
    PROVE  Fits(r)
  <1>1. r = Reading(Ended(dialogue), "handled")
    BY DEF Aborted
  <1> QED
    BY <1>1, EndedIsAtRest, AtRestFits, NoOffer DEF Ready

LEMMA ObjectedFits ==
    ASSUME Ready, NEW r \in Objected(dialogue)
    PROVE  Fits(r)
  <1> DEFINE e == [dialogue EXCEPT !.stage = "misunderstood", !.kept = TRUE]
  <1>1. e \in Dialogues /\ e.stage = "misunderstood" /\ e.stored = dialogue.stored
    BY DEF Ready, Dialogues, Stages
  <1>2. ~objected => StoredForOne(e) \/ dialogue.stage = "extract"
    BY <1>1 DEF Ready, StoredForOne
  <1>3. Collects(e) /\ Placed(e)
    BY <1>1 DEF Collects, Placed
  <1>4. r = Reading(e, "raises")
    BY DEF Objected
  <1> HIDE DEF e
  <1> QED
    BY <1>1, <1>2, <1>3, <1>4, PlainFits, NoOffer

LEMMA DirectedFits ==
    ASSUME Ready, dialogue.stage = "detect", NEW k, NEW r \in Directed(dialogue, k)
    PROVE  Fits(r)
  <1>1. ~objected => dialogue.stored = None
    BY DEF Ready, StoredForOne
  <1>2. CASE k = "you_misunderstood"
    <2> DEFINE e == [dialogue EXCEPT !.stage = "misunderstood", !.kept = TRUE]
    <2>1. e \in Dialogues /\ e.stage = "misunderstood" /\ e.stored = dialogue.stored
      BY DEF Ready, Dialogues, Stages
    <2>2. r = Reading(e, "handled")
      BY <1>2 DEF Directed
    <2> HIDE DEF e
    <2> QED
      BY <1>1, <2>1, <2>2, AtRestFits, NoOffer
  <1>3. CASE k # "you_misunderstood"
    <2>1. r = Reading(Went(Ended(dialogue), k), "handled")
      BY <1>3 DEF Directed
    <2>2. Ended(dialogue) \in Dialogues /\ Ended(dialogue).stage = "detect" /\ Ended(dialogue).stored = None
      BY EndedIsAtRest DEF Ready
    <2>3. /\ Went(Ended(dialogue), k) \in Dialogues
          /\ Went(Ended(dialogue), k).stage = "detect" /\ Went(Ended(dialogue), k).stored = None
      BY <2>2, WentIsADialogue
    <2> QED
      BY <2>1, <2>3, AtRestFits, NoOffer
  <1> QED
    BY <1>2, <1>3

(* The options a walk drops on its way are commands of the contexts it visits. *)
LEMMA DroppedAreOffers ==
    ASSUME NEW c \in Contexts, NEW n \in 0..Len(Chain[c]), NEW o \in Dropped(c, n)
    PROVE  o \in Offers
  <1>1. Chain[c] \in Seq(Contexts) /\ Len(Chain[c]) \in Nat
    BY ChainsAreWalks
  <1>2. CASE o = {}
    BY <1>2, NoOffer
  <1>3. ASSUME NEW i \in 2..n, o \in Options(Chain[c][i]) PROVE o \in Offers
    <2>1. Chain[c][i] \in Contexts
      BY <1>1
    <2> QED
      BY <1>3, <2>1, DialogueAssumption DEF Options, Offers
  <1> QED
    BY <1>2, <1>3 DEF Dropped

(* The options beside a reading that leaves no question of ambiguity are free. *)
LEMMA OptionsAreFree ==
    ASSUME NEW r, Fits(r), r.d.stage # "ambiguous", NEW o \in Offers
    PROVE  Fits([r EXCEPT !.options = o])
  BY DEF Fits, Runs, Stores, Offered, Opens, AllReadings

LEMMA GuessedFits ==
    ASSUME Ready, dialogue.stage = "detect", NEW w \in Guessed(dialogue)
    PROVE  Fits(w)
  <1> DEFINE c == dialogue.here
             kept == Kept(dialogue)
  <1>1. /\ c \in Contexts /\ kept \in Dialogues /\ kept.stage = "detect" /\ kept.here = c
        /\ kept.stored = dialogue.stored
        /\ dialogue \in Dialogues
        /\ ~objected => dialogue.stored = None
    BY DEF Ready, Dialogues, StoredForOne, Kept
  <1>2. /\ Chain[c] \in Seq(Contexts) /\ Len(Chain[c]) \in Nat
        /\ DOMAIN Chain[c] = 1..Len(Chain[c])
        /\ \A i \in DOMAIN Chain[c] : Chain[c][i] \in Contexts
    BY <1>1, ChainsAreWalks
  <1>3. ASSUME NEW i \in DOMAIN Chain[c], w \in Known(dialogue, i) PROVE Fits(w)
    <2> DEFINE Routes == UNION {Routed(kept, Chain[c][i], k) : k \in Owned[Chain[c][i]]}
    <2>1. PICK r \in Routes, o \in Dropped(c, i - 1) : w = [r EXCEPT !.options = o]
      BY <1>3 DEF Known
    <2>2. PICK k \in Owned[Chain[c][i]] : r \in Routed(kept, Chain[c][i], k)
      BY <2>1
    <2> HIDE DEF c, kept
    <2>3. Chain[c][i] \in Contexts /\ k \in Commands
      BY <1>2, DialogueAssumption
    <2>4. Fits(r) /\ r.d.stage # "ambiguous"
      BY <1>1, <2>2, <2>3, RoutedFits
    <2>5. i - 1 \in 0..Len(Chain[c])
      BY <1>2
    <2>6. o \in Offers
      BY <1>1, <2>5, DroppedAreOffers
    <2> QED
      BY <2>1, <2>4, <2>6, OptionsAreFree
  <1>4. ASSUME NEW k, w \in Directed(dialogue, k) PROVE Fits(w)
    BY <1>4, DirectedFits
  <1>5. ASSUME w \in Ambiguous(dialogue) PROVE Fits(w)
    <2> DEFINE e == [kept EXCEPT !.stage = "ambiguous"]
    <2>1. PICK o \in Options(c) : w = [Reading(e, "asks") EXCEPT !.options = o]
      BY <1>5 DEF Ambiguous
    <2> HIDE DEF c, kept
    <2>2. e \in Dialogues /\ e.stage = "ambiguous" /\ e.stored = dialogue.stored /\ e.here = c
      BY <1>1 DEF Dialogues, Stages
    <2>3. o # {} /\ o \subseteq Owned[c] \cup {"go_up"} /\ o \in Offers
      BY <1>1, DialogueAssumption DEF Options, Offers
    <2>4. Collects(e) /\ (~objected => StoredForOne(e)) /\ Placed(e)
      BY <1>1, <2>2 DEF Collects, StoredForOne, Placed
    <2> HIDE DEF e
    <2> QED
      BY <2>1, <2>2, <2>3, <2>4, PlainFits
  <1>6. ASSUME w \in Unknown(dialogue) PROVE Fits(w)
    <2> DEFINE e == [kept EXCEPT !.stage = "misunderstood", !.resp = Root]
    <2>1. PICK o \in Dropped(c, Len(Chain[c])) : w = [Reading(e, "handled") EXCEPT !.options = o]
      BY <1>6 DEF Unknown
    <2> HIDE DEF c, kept
    <2>2. e \in Dialogues /\ e.stage = "misunderstood" /\ e.stored = dialogue.stored
      BY <1>1, DialogueAssumption DEF Dialogues, Stages
    <2>3. o \in Offers
      BY <1>1, <1>2, DroppedAreOffers
    <2> HIDE DEF e
    <2> QED
      BY <1>1, <2>1, <2>2, <2>3, AtRestFits
  <1>7. ASSUME w \in Mislabelled(dialogue) PROVE Fits(w)
    <2> DEFINE e(i) == IF i = 1 THEN dialogue ELSE [kept EXCEPT !.resp = Chain[c][i]]
    <2>1. PICK i \in DOMAIN Chain[c] : w = Reading(e(i), "raises")
      BY <1>7 DEF Mislabelled
    <2> HIDE DEF c, kept
    <2>2. e(i) \in Dialogues /\ e(i).stage = "detect" /\ e(i).stored = dialogue.stored
      BY <1>1, <1>2 DEF Dialogues
    <2> HIDE DEF e
    <2> QED
      BY <1>1, <2>1, <2>2, AtRestFits, NoOffer
  <1>8. ASSUME w \in UNION {Known(dialogue, i) : i \in DOMAIN Chain[c]} PROVE Fits(w)
    BY <1>3, <1>8
  <1>9. ASSUME w \in UNION {Directed(dialogue, k) : k \in Core \cup {"you_misunderstood"}}
        PROVE  Fits(w)
    BY <1>4, <1>9
  <1> QED
    BY <1>5, <1>6, <1>7, <1>8, <1>9 DEF Guessed

LEMMA DetectedFits ==
    ASSUME Ready, dialogue.stage = "detect", NEW m \in Messages, NEW r \in Detected(dialogue, m)
    PROVE  Fits(r)
  <1>1. CASE m \in Commands /\ Foreign(dialogue.here, m)
    <2>1. r \in Hinted(dialogue)
      BY <1>1, Apart DEF Detected
    <2> QED
      BY <2>1, HintedFits
  <1>2. CASE m \in Commands /\ ~Foreign(dialogue.here, m)
    <2> DEFINE kept == Kept(dialogue)
               on == NearestOwner(dialogue.here, m)
    <2>1. /\ dialogue.here \in Contexts /\ kept \in Dialogues /\ kept.stored = dialogue.stored
          /\ ~objected => kept.stored = None
      BY DEF Ready, Dialogues, StoredForOne, Kept
    <2>2. on \in Contexts /\ m \in Owned[on]
      BY <1>2, <2>1, OwnersAreFound
    <2>3. r \in Routed(kept, on, m)
      BY <1>2, Apart DEF Detected
    <2> HIDE DEF kept, on
    <2> QED
      BY <1>2, <2>1, <2>2, <2>3, RoutedFits
  <1>3. CASE m \in Core \cup {"you_misunderstood"}
    <2>1. m \notin Commands
      BY <1>3, Apart
    <2>2. r \in Directed(dialogue, m)
      BY <1>3, <2>1 DEF Detected
    <2> QED
      BY <2>2, DirectedFits
  <1>4. CASE m \notin Commands /\ m \notin Core \cup {"you_misunderstood"}
    <2>1. r \in Guessed(dialogue)
      BY <1>4 DEF Detected
    <2> QED
      BY <2>1, GuessedFits
  <1> QED
    BY <1>1, <1>2, <1>3, <1>4

(* A clarification is answered with a command, a core command or neither. *)
LEMMA ChosenFits ==
    ASSUME Ready, dialogue.stage \in {"ambiguous", "misunderstood"}, NEW on \in Contexts,
           NEW k \in Commands \cup Reserved \cup {None}, OnSite /\ k \in Commands => k \in Owned[on],
           NEW r \in Chosen(dialogue, on, k)
    PROVE  Fits(r)
  <1>1. /\ dialogue \in Dialogues /\ Collects(dialogue) /\ Placed(dialogue)
        /\ ~objected => StoredForOne(dialogue) /\ dialogue.stored = None
    BY DEF Ready, Collects, Placed, StoredForOne
  <1>2. CASE k = "abort"
    <2>1. r \in Aborted(dialogue)
      BY <1>2 DEF Chosen, None
    <2> QED
      BY <2>1, AbortedFits
  <1>3. CASE k = "you_misunderstood"
    <2>1. r \in Objected(dialogue)
      BY <1>3 DEF Chosen, None
    <2> QED
      BY <2>1, ObjectedFits
  <1>4. CASE k \in {None, "what_can_i_do"}
    <2>1. r = Reading(dialogue, "asks")
      BY <1>4 DEF Chosen, None
    <2> QED
      BY <1>1, <2>1, PlainFits, NoOffer
  <1>5. CASE k = "go_up"
    <2> DEFINE e == IF dialogue.kept THEN Went(dialogue, k) ELSE dialogue
    <2>1. r = Reading(e, "raises")
      BY <1>5 DEF Chosen, None
    <2>2. e \in Dialogues /\ e.stage = dialogue.stage /\ e.stored = dialogue.stored
          /\ e.name = dialogue.name /\ e.resp = dialogue.resp
      BY <1>1, WentIsADialogue
    <2>3. Collects(e) /\ Placed(e) /\ (~objected => StoredForOne(e))
      BY <1>1, <2>2 DEF Collects, Placed, StoredForOne
    <2> HIDE DEF e
    <2> QED
      BY <2>1, <2>2, <2>3, PlainFits, NoOffer
  <1>6. CASE k \in Commands
    <2>1. k \notin {"abort", "you_misunderstood", None, "what_can_i_do", "go_up"}
      BY <1>6, Apart
    <2>2. CASE dialogue.kept
      <3>1. PICK q \in Routed(dialogue, on, k) : r = [q EXCEPT !.learns = {k}]
        BY <2>1, <2>2 DEF Chosen
      <3>2. Fits(q)
        BY <1>1, <1>6, <3>1, RoutedFits
      <3> QED
        BY <1>6, <3>1, <3>2 DEF Fits, Runs, Stores, Offered, Opens, AllReadings
    <2>3. CASE ~dialogue.kept
      <3>1. r = Reading(dialogue, "raises")
        BY <2>1, <2>3 DEF Chosen
      <3> QED
        BY <1>1, <3>1, PlainFits, NoOffer
    <2> QED
      BY <2>2, <2>3
  <1> QED
    BY <1>2, <1>3, <1>4, <1>5, <1>6 DEF Reserved, Core

LEMMA MatchesAreKeys ==
    ASSUME NEW m, NEW keys, NEW k \in Matches(m, keys)
    PROVE  k \in keys \cup {None}
  BY DEF Matches

LEMMA ClarifiedFits ==
    ASSUME Ready, dialogue.stage = "ambiguous", NEW m, NEW r \in Clarified(dialogue, m)
    PROVE  Fits(r)
  <1>1. PICK k \in Matches(m, suggested \cup {"abort", "you_misunderstood", "what_can_i_do"}) :
            r \in Chosen(dialogue, dialogue.here, k)
    BY DEF Clarified
  <1>2. k \in suggested \cup {"abort", "you_misunderstood", "what_can_i_do", None}
    BY MatchesAreKeys
  <1>3. k \in Commands \cup Reserved \cup {None}
    BY <1>2 DEF Ready, Offers, Reserved, Core
  <1>4. OnSite /\ k \in Commands => k \in Owned[dialogue.here]
    BY <1>2, Apart DEF Ready
  <1>5. dialogue.here \in Contexts
    BY DEF Ready, Dialogues
  <1> QED
    BY <1>1, <1>3, <1>4, <1>5, ChosenFits

LEMMA CorrectedFits ==
    ASSUME Ready, dialogue.stage = "misunderstood", NEW m, NEW r \in Corrected(dialogue, m)
    PROVE  Fits(r)
  <1>1. dialogue.here \in Contexts
    BY DEF Ready, Dialogues
  <1>2. CASE m \in Commands /\ Foreign(dialogue.here, m)
    <2>1. r \in Hinted(dialogue)
      BY <1>2 DEF Corrected
    <2> QED
      BY <2>1, HintedFits
  <1>3. CASE m \in Commands /\ ~Foreign(dialogue.here, m)
    <2>1. r \in Chosen(dialogue, NearestOwner(dialogue.here, m), m)
      BY <1>3 DEF Corrected
    <2>2. NearestOwner(dialogue.here, m) \in Contexts /\ m \in Owned[NearestOwner(dialogue.here, m)]
      BY <1>1, <1>3, OwnersAreFound
    <2> QED
      BY <1>3, <2>1, <2>2, ChosenFits
  <1>4. CASE m \notin Commands
    <2>1. PICK k \in Matches(m, Owned[dialogue.here] \cup Core \cup {"abort"}) :
              r \in Chosen(dialogue, dialogue.here, k)
      BY <1>4 DEF Corrected
    <2>2. k \in Owned[dialogue.here] \cup Core \cup {"abort", None}
      BY MatchesAreKeys
    <2>3. Owned[dialogue.here] \subseteq Commands
      BY <1>1, DialogueAssumption
    <2>4. k \in Commands \cup Reserved \cup {None}
      BY <2>2, <2>3 DEF Reserved
    <2>5. k \in Commands => k \in Owned[dialogue.here]
      BY <2>2, Apart
    <2> QED
      BY <1>1, <2>1, <2>4, <2>5, ChosenFits
  <1> QED
    BY <1>2, <1>3, <1>4

LEMMA AnsweredFits ==
    ASSUME Ready, dialogue.stage = "extract", NEW m, NEW r \in Answered(dialogue, m)
    PROVE  Fits(r)
  <1> DEFINE e == IF m = dialogue.name THEN [dialogue EXCEPT !.stored = None, !.kept = TRUE]
                  ELSE dialogue
  <1>1. dialogue.name \in Commands
    BY DEF Ready, Collects
  <1>2. e \in Dialogues /\ e.stage = "extract" /\ e.name = dialogue.name /\ e.resp = dialogue.resp
        /\ (~objected => e.stored \in {None, dialogue.name})
    BY DEF Ready, Dialogues, CommandOrNone, StoredForOne
  <1>3. OnSite => dialogue.name \in Owned[e.resp]
    BY <1>2 DEF Ready, Placed
  <1>4. r \in Aborted(dialogue) \/ r \in Objected(dialogue) \/ r \in Extracted(e, dialogue.name)
    BY DEF Answered
  <1> HIDE DEF e
  <1>5. ASSUME r \in Extracted(e, dialogue.name) PROVE Fits(r)
    BY <1>1, <1>2, <1>3, <1>5, ExtractedFits
  <1> QED
    BY <1>4, <1>5, AbortedFits, ObjectedFits

(* Whatever a message is read as, the reading fits. *)
LEMMA ReadingsFit ==
    ASSUME Ready, NEW m \in Messages, NEW r \in Readings(m)
    PROVE  Fits(r)
  <1>1. dialogue.stage \in Stages
    BY DEF Ready, Dialogues
  <1>2. CASE dialogue.stage = "detect"
    <2>1. r \in Detected(dialogue, m)
      BY <1>2 DEF Readings
    <2> QED
      BY <1>2, <2>1, DetectedFits
  <1>3. CASE dialogue.stage = "ambiguous"
    <2>1. r \in Clarified(dialogue, m)
      BY <1>3 DEF Readings
    <2> QED
      BY <1>3, <2>1, ClarifiedFits
  <1>4. CASE dialogue.stage = "misunderstood"
    <2>1. r \in Corrected(dialogue, m)
      BY <1>4 DEF Readings
    <2> QED
      BY <1>4, <2>1, CorrectedFits
  <1>5. CASE dialogue.stage = "extract"
    <2>1. r \in Answered(dialogue, m)
      BY <1>5 DEF Readings
    <2> QED
      BY <1>5, <2>1, AnsweredFits
  <1> QED
    BY <1>1, <1>2, <1>3, <1>4, <1>5 DEF Stages

----------------------------------------------------------------------------
(* The inductive invariant: the variables have their types, the dialogue is   *)
(* ready for a message, a command runs only when its dialogue has ended, and  *)
(* while the agent works undisturbed there is no mark and nothing is asked.   *)
Marks == {assistant, calm, objected, moved} \subseteq BOOLEAN

DialogueTypes ==
    /\ scope \in {"shared", "workflow"} /\ dialogue \in Dialogues
    /\ suggested \in Offers /\ learned \subseteq Commands /\ Marks
    /\ agent \in {"idle", "asking"} \cup Working
    /\ running \in [cmd : CommandOrNone, of : CommandOrNone]

EndsBeforeItRuns == running # NoRun => dialogue.stage = "detect"

AgentIsAlone ==
    calm /\ agent \in Working => ~assistant /\ dialogue.stage \in {"detect", "misunderstood"}

DialogueInv == DialogueTypes /\ Ready /\ EndsBeforeItRuns /\ AgentIsAlone /\ ModesDoNotLeak

(* What the session's file would bring back is ready for a message too: its   *)
(* parameters are of one command, and what its question is about has not      *)
(* moved, unless it says so.                                                  *)
Blobs == [stage : Stages, kept : BOOLEAN, name : CommandOrNone, stored : CommandOrNone,
          asking : BOOLEAN, objected : BOOLEAN, moved : BOOLEAN]

FileInv ==
    /\ blob \in Blobs /\ Collects(blob)
    /\ ~blob.objected => StoredForOne(blob)
    /\ ~blob.moved /\ scope = "workflow" =>
          /\ blob.stage = "extract" => blob.name \in Owned[dialogue.resp]
          /\ blob.stage = "ambiguous" => suggested \subseteq Owned[dialogue.here] \cup {"go_up"}

LEMMA DialogueInitHolds == DialogueInit => DialogueInv
  <1> SUFFICES ASSUME DialogueInit PROVE DialogueInv
    OBVIOUS
  <1>1. DialogueTypes
    BY DialogueAssumption
    DEF DialogueInit, DialogueTypes, Dialogues, Stages, CommandOrNone, Offers, Marks, NoRun
  <1>2. Ready
    BY <1>1 DEF DialogueInit, DialogueTypes, Ready, Collects, StoredForOne, Placed
  <1> QED
    BY <1>1, <1>2
    DEF DialogueInit, DialogueInv, EndsBeforeItRuns, AgentIsAlone, ModesDoNotLeak, Working, Busy

(* What follows a reading when the dialogue is left at d: as it was read, or  *)
(* ended because a call of the agent has returned.                            *)
LEMMA FollowedDialogue ==
    ASSUME DialogueInv, NEW m \in Messages, NEW r \in Readings(m), NEW d, Follow(r, d),
           d = r.d \/ (d = Ended(r.d) /\ r.out \in {"handled", "asks"})
    PROVE  /\ Ready' /\ scope' = scope /\ dialogue' = d /\ d.stage \in Stages
           /\ learned' \subseteq Commands
           /\ {calm', objected', moved'} \subseteq BOOLEAN /\ (calm' => calm /\ r.out # "raises")
           /\ running' \in [cmd : CommandOrNone, of : CommandOrNone]
           /\ IF r.out = "runs" THEN running' # NoRun /\ d.stage = "detect" ELSE running' = NoRun
           /\ Starts /\ ~objected => running'.of = running'.cmd
           /\ Starts /\ OnSite => running'.cmd \in Owned[dialogue'.resp]
           /\ Opens(r)
  <1>1. Fits(r)
    BY ReadingsFit DEF DialogueInv
  <1>2. r \in AllReadings /\ Runs(r) /\ Stores(r) /\ Offered(r) /\ Opens(r)
    BY <1>1 DEF Fits
  <1>3. r.d \in Dialogues
    BY <1>2 DEF AllReadings
  <1>4. /\ dialogue' = d
        /\ suggested' = IF r.options = {} THEN suggested ELSE r.options
        /\ learned' = learned \cup r.learns
        /\ running' = [cmd |-> r.cmd, of |-> r.of]
        /\ calm' = (calm /\ r.out # "raises")
        /\ objected' = (/\ d.stored # None
                        /\ objected \/ (dialogue.stage = "extract" /\ d.stage = "misunderstood"))
        /\ moved' = (/\ d.stage # "detect"
                     /\ moved \/ (d.stage = "ambiguous" /\ d.here # dialogue.here))
        /\ scope' = scope
    BY DEF Follow
  <1>5. {calm', objected', moved'} \subseteq BOOLEAN /\ (calm' => calm /\ r.out # "raises")
        /\ learned' \subseteq Commands /\ running' \in [cmd : CommandOrNone, of : CommandOrNone]
    BY <1>2, <1>4 DEF DialogueInv, DialogueTypes, AllReadings
  <1>6. d \in Dialogues /\ (d # r.d => d.stage = "detect" /\ d.stored = None)
    BY <1>3, EndedIsAtRest
  <1>7. d.stage \in Stages
    BY <1>6 DEF Dialogues
  <1>8. IF r.out = "runs" THEN running' # NoRun /\ d.stage = "detect" ELSE running' = NoRun
    <2>1. CASE r.out = "runs"
      <3>1. r.cmd # None
        BY <1>2, <2>1, Apart DEF Runs
      <3>2. running'.cmd # NoRun.cmd
        BY <1>4, <3>1 DEF NoRun
      <3> QED
        BY <1>2, <2>1, <3>2 DEF Runs
    <2>2. CASE r.out # "runs"
      BY <1>2, <1>4, <2>2 DEF Runs, NoRun
    <2> QED
      BY <2>1, <2>2
  <1>9. /\ Starts /\ ~objected => running'.of = running'.cmd
        /\ Starts /\ OnSite => running'.cmd \in Owned[dialogue'.resp]
    <2>1. Starts => r.out = "runs" /\ d = r.d
      BY <1>8 DEF Starts
    <2> QED
      BY <1>2, <1>4, <2>1 DEF Runs
  <1>10. Ready'
    <2>1. suggested' \in Offers
      BY <1>2, <1>4 DEF DialogueInv, DialogueTypes, AllReadings
    <2>2. Collects(d)
      BY <1>2, <1>6 DEF Stores, Collects
    <2>3. ~objected' => StoredForOne(d)
      BY <1>2, <1>4, <1>6 DEF Stores, StoredForOne
    <2>4. OnSite' => (d.stage = "detect" \/ OnSite)
      BY <1>4 DEF OnSite
    <2>5. OnSite' => Placed(d)
      BY <1>2, <1>6, <2>4 DEF Stores, Placed
    <2>6. OnSite' /\ d.stage = "ambiguous" => suggested' \subseteq Owned[d.here] \cup {"go_up"}
      <3>1. SUFFICES ASSUME OnSite', d.stage = "ambiguous"
                     PROVE  suggested' \subseteq Owned[d.here] \cup {"go_up"}
        OBVIOUS
      <3>2. d = r.d /\ OnSite /\ d.here = dialogue.here
        BY <1>4, <1>6, <3>1 DEF OnSite
      <3>3. CASE dialogue.stage = "ambiguous" /\ r.options = {}
        BY <1>4, <3>2, <3>3 DEF DialogueInv, Ready
      <3>4. CASE r.options # {} /\ r.options \subseteq Owned[r.d.here] \cup {"go_up"}
        BY <1>4, <3>2, <3>4
      <3> QED
        BY <1>2, <3>1, <3>2, <3>3, <3>4 DEF Offered
    <2> QED
      BY <1>4, <1>6, <2>1, <2>2, <2>3, <2>5, <2>6 DEF Ready, Collects, StoredForOne, Placed, OnSite
  <1> QED
    BY <1>2, <1>4, <1>5, <1>7, <1>8, <1>9, <1>10

LEMMA AssistKeeps ==
    ASSUME DialogueInv, NEW door, NEW m \in Messages, Assist(door, m)
    PROVE  DialogueInv'
  <1>1. PICK r \in Readings(m) : Follow(r, r.d) /\ assistant' = KeepsMark(r)
    BY DEF Assist
  <1>2. /\ Ready' /\ scope' = scope /\ dialogue' = r.d /\ r.d.stage \in Stages
        /\ learned' \subseteq Commands
        /\ {calm', objected', moved'} \subseteq BOOLEAN /\ (calm' => calm /\ r.out # "raises")
        /\ running' \in [cmd : CommandOrNone, of : CommandOrNone]
        /\ IF r.out = "runs" THEN running' # NoRun /\ r.d.stage = "detect" ELSE running' = NoRun
        /\ Opens(r)
    BY <1>1, FollowedDialogue
  <1>3. r.out \in Outcomes
    BY ReadingsFit DEF DialogueInv, Fits, AllReadings
  <1>4. ~Busy /\ Marked(door) /\ agent' = agent /\ agent \notin Working
    BY DEF Assist, Busy
  <1>5. assistant' = (r.out # "handled")
    BY <1>1 DEF KeepsMark
  <1>6. DialogueTypes'
    BY <1>2, <1>4, <1>5 DEF DialogueInv, DialogueTypes, Ready, Marks
  <1>7. calm => dialogue.stage # "misunderstood"
    BY <1>4 DEF DialogueInv, ModesDoNotLeak, Marked, Slashed
  <1>8. calm' /\ ~Busy' => (assistant' <=> dialogue'.stage \in {"ambiguous", "extract"})
    <2>1. SUFFICES ASSUME calm', ~Busy'
                   PROVE  assistant' <=> dialogue'.stage \in {"ambiguous", "extract"}
      OBVIOUS
    <2>2. r.out \in {"handled", "asks"} /\ dialogue.stage # "misunderstood"
      BY <1>2, <1>3, <1>7, <2>1 DEF Busy, Outcomes
    <2> QED
      BY <1>2, <1>5, <2>2 DEF Opens
  <1> QED
    BY <1>2, <1>4, <1>6, <1>8
    DEF DialogueInv, EndsBeforeItRuns, AgentIsAlone, ModesDoNotLeak, Working

LEMMA CallKeeps ==
    ASSUME DialogueInv, NEW m \in Messages, Call(m)
    PROVE  DialogueInv'
  <1>1. PICK r \in Readings(m) :
            /\ Follow(r, IF r.out \in {"handled", "asks"} /\ r.d.stage # "detect"
                         THEN Ended(r.d) ELSE r.d)
            /\ agent' = IF r.out = "raises" THEN "shaken"
                        ELSE IF r.out \in {"handled", "asks"} THEN "calling" ELSE agent
            /\ assistant' = (assistant /\ r.out \notin {"handled", "asks"})
    BY DEF Call
  <1> DEFINE d == IF r.out \in {"handled", "asks"} /\ r.d.stage # "detect" THEN Ended(r.d) ELSE r.d
  <1>2. d = r.d \/ (d = Ended(r.d) /\ r.out \in {"handled", "asks"})
    OBVIOUS
  <1>3. r \in AllReadings
    BY ReadingsFit DEF DialogueInv, Fits
  <1>4. r.out \in {"handled", "asks"} => d.stage = "detect"
    BY <1>3, EndedIsAtRest DEF AllReadings
  <1> HIDE DEF d
  <1>5. Follow(r, d)
    BY <1>1 DEF d
  <1>6. /\ Ready' /\ scope' = scope /\ dialogue' = d /\ d.stage \in Stages
        /\ learned' \subseteq Commands
        /\ {calm', objected', moved'} \subseteq BOOLEAN /\ (calm' => calm /\ r.out # "raises")
        /\ running' \in [cmd : CommandOrNone, of : CommandOrNone]
        /\ IF r.out = "runs" THEN running' # NoRun /\ d.stage = "detect" ELSE running' = NoRun
    BY <1>2, <1>5, FollowedDialogue
  <1>7. agent \in Working /\ running = NoRun /\ agent' \in Working
    BY <1>1 DEF Call, Working
  <1>8. DialogueTypes'
    BY <1>1, <1>6, <1>7 DEF DialogueInv, DialogueTypes, Ready, Marks
  <1>9. EndsBeforeItRuns'
    BY <1>6 DEF EndsBeforeItRuns
  <1>10. AgentIsAlone'
    BY <1>1, <1>3, <1>4, <1>6, <1>7 DEF DialogueInv, AgentIsAlone, AllReadings, Outcomes
  <1>11. ModesDoNotLeak'
    <2>1. Busy'
      BY <1>7 DEF Busy
    <2>2. agent' = "calling" => d.stage = "detect"
      <3>1. SUFFICES ASSUME agent' = "calling" PROVE d.stage = "detect"
        OBVIOUS
      <3>2. r.out \in {"handled", "asks", "runs"}
        BY <1>1, <1>3, <3>1 DEF AllReadings, Outcomes
      <3> QED
        BY <1>4, <1>6, <3>2
    <2> QED
      BY <1>6, <2>1, <2>2 DEF ModesDoNotLeak
  <1> QED
    BY <1>6, <1>8, <1>9, <1>10, <1>11 DEF DialogueInv

(* A step that leaves what was read as it is, but for the context the user is *)
(* in and the one a command is answered from.                                 *)
LEMMA SameQuestion ==
    ASSUME DialogueInv, dialogue' \in Dialogues, suggested' = suggested, scope' = scope,
           objected' = objected, OnSite' => OnSite,
           dialogue'.stage = dialogue.stage, dialogue'.stored = dialogue.stored,
           dialogue'.name = dialogue.name,
           OnSite' /\ dialogue.stage = "ambiguous" => dialogue'.here = dialogue.here,
           OnSite' /\ dialogue.stage = "extract" => dialogue'.resp = dialogue.resp
    PROVE  Ready'
  <1>1. Ready
    BY DEF DialogueInv
  <1>2. Collects(dialogue')
    BY <1>1 DEF Ready, Collects
  <1>3. ~objected' => StoredForOne(dialogue')
    BY <1>1 DEF Ready, StoredForOne
  <1>4. OnSite' => Placed(dialogue')
    BY <1>1 DEF Ready, Placed
  <1> QED
    BY <1>1, <1>2, <1>3, <1>4 DEF Ready, Collects, StoredForOne, Placed, OnSite

(* Moving is all that the code of the application does to the dialogue. *)
LEMMA MovedDialogue ==
    ASSUME DialogueInv, NEW there \in Contexts
    PROVE  LET e == [dialogue EXCEPT !.here = there] IN
           /\ e \in Dialogues /\ e.stage = dialogue.stage /\ e.stored = dialogue.stored
           /\ e.name = dialogue.name /\ e.resp = dialogue.resp
  BY DEF DialogueInv, DialogueTypes, Dialogues

LEMMA FinishKeeps ==
    ASSUME DialogueInv, NEW there \in Contexts, Finish(there)
    PROVE  DialogueInv'
  <1>1. /\ running # NoRun /\ running' = NoRun /\ dialogue' = [dialogue EXCEPT !.here = there]
        /\ assistant' = FALSE /\ agent' = IF agent \in Working THEN "calling" ELSE agent
        /\ scope' = scope /\ suggested' = suggested /\ learned' = learned /\ calm' = calm
        /\ objected' = objected /\ moved' = moved
    BY DEF Finish
  <1>2. dialogue.stage = "detect"
    BY <1>1 DEF DialogueInv, EndsBeforeItRuns
  <1>3. /\ dialogue' \in Dialogues /\ dialogue'.stage = "detect" /\ dialogue'.stored = dialogue.stored
        /\ dialogue'.name = dialogue.name /\ dialogue'.resp = dialogue.resp
    BY <1>1, <1>2, MovedDialogue
  <1>4. Ready'
    BY <1>1, <1>2, <1>3, SameQuestion DEF OnSite
  <1>5. DialogueTypes'
    BY <1>1, <1>3 DEF DialogueInv, DialogueTypes, Marks, Working, NoRun, CommandOrNone
  <1> QED
    BY <1>1, <1>3, <1>4, <1>5 DEF DialogueInv, EndsBeforeItRuns, AgentIsAlone, ModesDoNotLeak

LEMMA FailKeeps ==
    ASSUME DialogueInv, NEW there \in Contexts, Fail(there)
    PROVE  DialogueInv'
  <1>1. /\ running # NoRun /\ running' = NoRun /\ dialogue' = [dialogue EXCEPT !.here = there]
        /\ agent' = IF agent \in Working THEN "shaken" ELSE agent
        /\ calm' = FALSE
        /\ scope' = scope /\ suggested' = suggested /\ learned' = learned
        /\ assistant' = assistant /\ objected' = objected /\ moved' = moved
    BY DEF Fail
  <1>2. dialogue.stage = "detect"
    BY <1>1 DEF DialogueInv, EndsBeforeItRuns
  <1>3. /\ dialogue' \in Dialogues /\ dialogue'.stage = "detect" /\ dialogue'.stored = dialogue.stored
        /\ dialogue'.name = dialogue.name /\ dialogue'.resp = dialogue.resp
    BY <1>1, <1>2, MovedDialogue
  <1>4. Ready'
    BY <1>1, <1>2, <1>3, SameQuestion DEF OnSite
  <1>5. DialogueTypes'
    BY <1>1, <1>3 DEF DialogueInv, DialogueTypes, Marks, Working, NoRun, CommandOrNone
  <1> QED
    BY <1>1, <1>3, <1>4, <1>5 DEF DialogueInv, EndsBeforeItRuns, AgentIsAlone, ModesDoNotLeak

LEMMA ActKeeps ==
    ASSUME DialogueInv, NEW there \in Contexts, Act(there)
    PROVE  DialogueInv'
  <1>1. /\ ~Busy /\ dialogue' = [dialogue EXCEPT !.resp = dialogue.here, !.here = there]
        /\ moved' = (moved \/ dialogue.stage \in {"ambiguous", "extract"})
        /\ scope' = scope /\ suggested' = suggested /\ learned' = learned
        /\ assistant' = assistant /\ agent' = agent /\ running' = running
        /\ calm' = calm /\ objected' = objected
    BY DEF Act
  <1>2. /\ dialogue' \in Dialogues /\ dialogue'.stage = dialogue.stage
        /\ dialogue'.stored = dialogue.stored /\ dialogue'.name = dialogue.name
    BY <1>1 DEF DialogueInv, DialogueTypes, Dialogues
  <1>3. OnSite' => OnSite /\ dialogue.stage \notin {"ambiguous", "extract"}
    BY <1>1 DEF OnSite
  <1>4. Ready'
    BY <1>1, <1>2, <1>3, SameQuestion
  <1>5. DialogueTypes'
    BY <1>1, <1>2 DEF DialogueInv, DialogueTypes, Marks
  <1> QED
    BY <1>1, <1>2, <1>4, <1>5
    DEF DialogueInv, EndsBeforeItRuns, AgentIsAlone, ModesDoNotLeak, Busy

LEMMA RebuildKeeps ==
    ASSUME DialogueInv, FileInv, Rebuild
    PROVE  DialogueInv'
  <1>1. /\ ~Busy /\ assistant' = FALSE /\ calm' = FALSE
        /\ dialogue' = [dialogue EXCEPT !.stage = blob.stage, !.kept = blob.kept,
                                        !.name = blob.name, !.stored = blob.stored]
        /\ agent' = (IF blob.asking THEN "asking" ELSE "idle")
        /\ objected' = blob.objected /\ moved' = blob.moved
        /\ scope' = scope /\ suggested' = suggested /\ learned' = learned
        /\ running' = running
    BY DEF Rebuild
  <1>2. blob \in Blobs
    BY DEF FileInv
  <1>3. /\ dialogue' \in Dialogues /\ dialogue'.here = dialogue.here
        /\ dialogue'.resp = dialogue.resp /\ dialogue'.stage = blob.stage
        /\ dialogue'.name = blob.name /\ dialogue'.stored = blob.stored
    BY <1>1, <1>2 DEF DialogueInv, DialogueTypes, Dialogues, Blobs
  <1>4. /\ Collects(dialogue') /\ (~objected' => StoredForOne(dialogue'))
        /\ OnSite' => Placed(dialogue')
        /\ OnSite' /\ dialogue'.stage = "ambiguous" =>
              suggested' \subseteq Owned[dialogue'.here] \cup {"go_up"}
    BY <1>1, <1>3 DEF FileInv, Collects, StoredForOne, Placed, OnSite
  <1>5. suggested' \in Offers
    BY <1>1 DEF DialogueInv, DialogueTypes
  <1>6. Ready'
    BY <1>3, <1>4, <1>5 DEF Ready, Collects, StoredForOne, Placed, OnSite
  <1>7. running = NoRun /\ agent' \in {"idle", "asking"}
    BY <1>1 DEF Busy
  <1>8. DialogueTypes'
    BY <1>1, <1>2, <1>3, <1>7 DEF DialogueInv, DialogueTypes, Marks, Blobs
  <1> QED
    BY <1>1, <1>6, <1>7, <1>8
    DEF DialogueInv, EndsBeforeItRuns, AgentIsAlone, ModesDoNotLeak

(* Another session changes the options only in a cache that is shared. *)
LEMMA ElsewhereKeeps ==
    ASSUME DialogueInv, NEW c \in Contexts, Elsewhere(c)
    PROVE  DialogueInv'
  <1>1. /\ scope = "shared" /\ scope' = scope /\ dialogue' = dialogue /\ assistant' = assistant
        /\ agent' = agent /\ running' = running /\ calm' = calm /\ objected' = objected
        /\ moved' = moved
    BY DEF Elsewhere, SharedCache
  <1>2. Owned[c] \subseteq Commands
    BY DialogueAssumption
  <1>3. suggested' \in Offers /\ learned' \subseteq Commands
    BY <1>2 DEF Elsewhere, Options, Offers, DialogueInv, DialogueTypes
  <1>4. ~OnSite'
    BY <1>1 DEF OnSite
  <1>5. Ready'
    BY <1>1, <1>3, <1>4 DEF DialogueInv, Ready, Collects, StoredForOne, Placed
  <1>6. DialogueTypes'
    BY <1>1, <1>3 DEF DialogueInv, DialogueTypes, Marks
  <1> QED
    BY <1>1, <1>5, <1>6
    DEF DialogueInv, EndsBeforeItRuns, AgentIsAlone, ModesDoNotLeak, Busy

LEMMA PlanKeeps ==
    ASSUME DialogueInv, NEW door, Plan(door)
    PROVE  DialogueInv'
  <1>1. /\ ~Busy /\ ~Marked(door) /\ agent' = "handed"
        /\ scope' = scope /\ dialogue' = dialogue /\ suggested' = suggested /\ learned' = learned
        /\ assistant' = assistant /\ running' = running /\ calm' = calm /\ objected' = objected
        /\ moved' = moved
    BY DEF Plan
  <1>2. ~assistant /\ dialogue.stage \in Stages
    BY <1>1 DEF Marked, DialogueInv, DialogueTypes, Dialogues
  <1>3. calm => dialogue.stage \in {"detect", "misunderstood"}
    BY <1>1, <1>2 DEF DialogueInv, ModesDoNotLeak, Stages
  <1>4. Ready'
    BY <1>1 DEF DialogueInv, Ready, Collects, StoredForOne, Placed, OnSite
  <1>5. DialogueTypes'
    BY <1>1 DEF DialogueInv, DialogueTypes, Marks, Working
  <1>6. Busy' /\ agent' # "calling"
    BY <1>1 DEF Busy, Working
  <1> QED
    BY <1>1, <1>2, <1>3, <1>4, <1>5, <1>6
    DEF DialogueInv, EndsBeforeItRuns, AgentIsAlone, ModesDoNotLeak

LEMMA YieldKeeps ==
    ASSUME DialogueInv, NEW to \in {"asking", "idle"}, Yield(to)
    PROVE  DialogueInv'
  <1>1. /\ agent \in Working /\ running = NoRun /\ agent' = to
        /\ scope' = scope /\ dialogue' = dialogue /\ suggested' = suggested /\ learned' = learned
        /\ assistant' = assistant /\ running' = running /\ calm' = calm /\ objected' = objected
        /\ moved' = moved
    BY DEF Yield
  <1>2. calm => ~assistant /\ dialogue.stage \in {"detect", "misunderstood"}
    BY <1>1 DEF DialogueInv, AgentIsAlone
  <1>3. Ready'
    BY <1>1 DEF DialogueInv, Ready, Collects, StoredForOne, Placed, OnSite
  <1>4. DialogueTypes'
    BY <1>1 DEF DialogueInv, DialogueTypes, Marks
  <1>5. agent' \notin Working /\ agent' # "calling"
    BY <1>1 DEF Working
  <1> QED
    BY <1>1, <1>2, <1>3, <1>4, <1>5
    DEF DialogueInv, EndsBeforeItRuns, AgentIsAlone, ModesDoNotLeak

LEMMA BreakKeeps ==
    ASSUME DialogueInv, Break
    PROVE  DialogueInv'
  <1>1. /\ running = NoRun /\ agent' = (IF blob.asking THEN "asking" ELSE "idle") /\ calm' = FALSE
        /\ scope' = scope /\ dialogue' = dialogue /\ suggested' = suggested /\ learned' = learned
        /\ assistant' = assistant /\ running' = running /\ objected' = objected
        /\ moved' = moved
    BY DEF Break
  <1>2. Ready'
    BY <1>1 DEF DialogueInv, Ready, Collects, StoredForOne, Placed, OnSite
  <1>3. agent' \in {"idle", "asking"}
    BY <1>1
  <1>4. DialogueTypes'
    BY <1>1, <1>3 DEF DialogueInv, DialogueTypes, Marks
  <1> QED
    BY <1>1, <1>2, <1>3, <1>4
    DEF DialogueInv, EndsBeforeItRuns, AgentIsAlone, ModesDoNotLeak

LEMMA StutterKeepsDialogue ==
    ASSUME DialogueInv, UNCHANGED dialogueVars
    PROVE  DialogueInv'
  <1>1. /\ scope' = scope /\ dialogue' = dialogue /\ suggested' = suggested /\ learned' = learned
        /\ assistant' = assistant /\ agent' = agent /\ running' = running /\ calm' = calm
        /\ objected' = objected /\ moved' = moved
    BY DEF dialogueVars
  <1>2. Ready'
    BY <1>1 DEF DialogueInv, Ready, Collects, StoredForOne, Placed, OnSite
  <1>3. DialogueTypes'
    BY <1>1 DEF DialogueInv, DialogueTypes, Marks
  <1> QED
    BY <1>1, <1>2, <1>3
    DEF DialogueInv, EndsBeforeItRuns, AgentIsAlone, ModesDoNotLeak, Busy

LEMMA DialogueStep == DialogueInv /\ FileInv /\ [DialogueNext]_dialogueVars => DialogueInv'
  <1> SUFFICES ASSUME DialogueInv, FileInv, [DialogueNext]_dialogueVars PROVE DialogueInv'
    OBVIOUS
  <1>1. CASE UNCHANGED dialogueVars
    BY <1>1, StutterKeepsDialogue
  <1>2. ASSUME NEW door \in {"assistant", "agent"}, Plan(door) PROVE DialogueInv'
    BY <1>2, PlanKeeps
  <1>3. ASSUME NEW door \in {"assistant", "agent"}, NEW m \in Messages, Assist(door, m)
        PROVE  DialogueInv'
    BY <1>3, AssistKeeps
  <1>4. ASSUME NEW m \in Messages, Call(m) PROVE DialogueInv'
    BY <1>4, CallKeeps
  <1>5. ASSUME NEW c \in Contexts, Finish(c) \/ Fail(c) \/ Act(c) \/ Elsewhere(c)
        PROVE  DialogueInv'
    BY <1>5, FinishKeeps, FailKeeps, ActKeeps, ElsewhereKeeps
  <1>6. ASSUME NEW to \in {"asking", "idle"}, Yield(to) PROVE DialogueInv'
    BY <1>6, YieldKeeps
  <1>7. CASE Rebuild
    BY <1>7, RebuildKeeps
  <1>8. CASE Break
    BY <1>8, BreakKeeps
  <1> QED
    BY <1>1, <1>2, <1>3, <1>4, <1>5, <1>6, <1>7, <1>8 DEF DialogueNext

(* The file of a turn that returned is as ready as the dialogue it left.      *)
LEMMA PersistKeeps ==
    ASSUME DialogueInv', NEW a, Persist(a)
    PROVE  FileInv'
  <1>1. PICK d : d = dialogue'
    OBVIOUS
  <1>2. /\ d \in Dialogues /\ Collects(d) /\ objected' \in BOOLEAN /\ moved' \in BOOLEAN
        /\ ~objected' => StoredForOne(d)
        /\ OnSite' => Placed(d)
        /\ OnSite' /\ d.stage = "ambiguous" => suggested' \subseteq Owned[d.here] \cup {"go_up"}
    BY <1>1 DEF DialogueInv, DialogueTypes, Marks, Ready, Collects, StoredForOne, Placed, OnSite
  <1>3. CASE a = "asking" \/ InProgress(d)
    <2>1. blob' = [stage |-> d.stage, kept |-> InProgress(d) /\ d.kept,
                   name |-> IF InProgress(d) THEN d.name ELSE None,
                   stored |-> IF d.stored = None THEN None ELSE d.name,
                   asking |-> a = "asking", objected |-> objected', moved |-> moved']
      BY <1>1, <1>3 DEF Persist
    <2>2. PICK b : b = blob'
      OBVIOUS
    <2>3. /\ b.stage = d.stage /\ b.objected = objected' /\ b.moved = moved'
          /\ d.stage = "extract" => b.name = d.name
          /\ b.stored = IF d.stored = None THEN None ELSE d.name
      BY <2>1, <2>2 DEF InProgress
    <2>4. b \in Blobs
      BY <1>2, <2>1, <2>2 DEF Blobs, Dialogues, CommandOrNone, InProgress
    <2>5. Collects(b) /\ (~b.objected => StoredForOne(b))
      BY <1>2, <2>3 DEF Collects, StoredForOne
    <2>6. ~b.moved /\ scope' = "workflow" =>
              /\ b.stage = "extract" => b.name \in Owned[d.resp]
              /\ b.stage = "ambiguous" => suggested' \subseteq Owned[d.here] \cup {"go_up"}
      BY <1>2, <2>3 DEF Placed, OnSite
    <2> QED
      BY <1>1, <2>2, <2>4, <2>5, <2>6 DEF FileInv, Collects, StoredForOne
  <1>4. CASE ~(a = "asking" \/ InProgress(d))
    <2>1. blob' = NoBlob
      BY <1>1, <1>4 DEF Persist
    <2> QED
      BY <2>1 DEF FileInv, NoBlob, Blobs, Stages, CommandOrNone, Collects, StoredForOne
  <1> QED
    BY <1>3, <1>4

LEMMA RemainKeeps ==
    ASSUME FileInv, Remain, scope' = scope
    PROVE  FileInv'
  <1> DEFINE leaves == \/ blob.stage = "extract" /\ dialogue'.resp # dialogue.resp
                       \/ blob.stage = "ambiguous" /\ dialogue'.here # dialogue.here
                       \/ blob.stage = "ambiguous" /\ suggested' # suggested
  <1>1. blob' = [blob EXCEPT !.moved = @ \/ leaves]
    BY DEF Remain
  <1>2. leaves \in BOOLEAN
    OBVIOUS
  <1>3. blob \in Blobs
    BY DEF FileInv
  <1>4. ~leaves => /\ blob.stage = "extract" => dialogue'.resp = dialogue.resp
                   /\ blob.stage = "ambiguous" =>
                          dialogue'.here = dialogue.here /\ suggested' = suggested
    OBVIOUS
  <1> HIDE DEF leaves
  <1>5. /\ blob' \in Blobs /\ blob'.stage = blob.stage /\ blob'.name = blob.name
        /\ blob'.stored = blob.stored /\ blob'.objected = blob.objected
        /\ blob'.moved = (blob.moved \/ leaves)
    BY <1>1, <1>2, <1>3 DEF Blobs
  <1>6. Collects(blob') /\ (~blob'.objected => StoredForOne(blob'))
    BY <1>5 DEF FileInv, Collects, StoredForOne
  <1>7. ~blob'.moved /\ scope' = "workflow" =>
            /\ blob'.stage = "extract" => blob'.name \in Owned[dialogue'.resp]
            /\ blob'.stage = "ambiguous" => suggested' \subseteq Owned[dialogue'.here] \cup {"go_up"}
    BY <1>4, <1>5 DEF FileInv
  <1> QED
    BY <1>5, <1>6, <1>7 DEF FileInv, Collects, StoredForOne

LEMMA FileStays ==
    ASSUME FileInv, scope' = scope, blob' = blob, dialogue'.here = dialogue.here,
           dialogue'.resp = dialogue.resp, scope = "workflow" => suggested' = suggested
    PROVE  FileInv'
  BY DEF FileInv, Collects, StoredForOne

LEMMA FileStep ==
    DialogueInv /\ DialogueInv' /\ FileInv /\ [DialogueNext]_dialogueVars => FileInv'
  <1> SUFFICES ASSUME DialogueInv, DialogueInv', FileInv, [DialogueNext]_dialogueVars
               PROVE  FileInv'
    OBVIOUS
  <1>1. CASE UNCHANGED dialogueVars
    BY <1>1, FileStays DEF dialogueVars
  <1>2. ASSUME NEW door \in {"assistant", "agent"}, Plan(door) PROVE FileInv'
    BY <1>2, FileStays DEF Plan
  <1>3. ASSUME NEW door \in {"assistant", "agent"}, NEW m \in Messages, Assist(door, m)
        PROVE  FileInv'
    <2>1. PICK r \in Readings(m) :
              /\ Follow(r, r.d)
              /\ IF r.out \in {"handled", "asks"} THEN Persist(agent) ELSE Remain
      BY <1>3 DEF Assist
    <2>2. scope' = scope
      BY <2>1 DEF Follow
    <2> QED
      BY <2>1, <2>2, PersistKeeps, RemainKeeps
  <1>4. ASSUME NEW m \in Messages, Call(m) PROVE FileInv'
    <2>1. Remain /\ scope' = scope
      BY <1>4 DEF Call, Follow
    <2> QED
      BY <2>1, RemainKeeps
  <1>5. ASSUME NEW c \in Contexts, Finish(c) \/ Fail(c) \/ Act(c)
        PROVE  FileInv'
    <2>1. scope' = scope /\ (Remain \/ Persist(agent))
      BY <1>5 DEF Finish, Fail, Act
    <2> QED
      BY <2>1, PersistKeeps, RemainKeeps
  <1>6. ASSUME NEW c \in Contexts, Elsewhere(c) PROVE FileInv'
    <2>1. scope' = scope /\ blob' = blob /\ dialogue' = dialogue /\ scope = "shared"
      BY <1>6 DEF Elsewhere, SharedCache
    <2> QED
      BY <2>1, FileStays
  <1>7. ASSUME NEW to \in {"asking", "idle"}, Yield(to) PROVE FileInv'
    <2>1. Persist(to)
      BY <1>7 DEF Yield
    <2> QED
      BY <2>1, PersistKeeps
  <1>8. CASE Break
    BY <1>8, FileStays DEF Break
  <1>9. CASE Rebuild
    <2>1. /\ dialogue' = [dialogue EXCEPT !.stage = blob.stage, !.kept = blob.kept,
                                          !.name = blob.name, !.stored = blob.stored]
          /\ scope' = scope /\ blob' = blob /\ suggested' = suggested
      BY <1>9 DEF Rebuild
    <2>2. dialogue'.here = dialogue.here /\ dialogue'.resp = dialogue.resp
      BY <2>1 DEF DialogueInv, DialogueTypes, Dialogues
    <2> QED
      BY <2>1, <2>2, FileStays
  <1> QED
    BY <1>1, <1>2, <1>3, <1>4, <1>5, <1>6, <1>7, <1>8, <1>9 DEF DialogueNext

LEMMA DialogueHolds == DialogueSpec => [](DialogueInv /\ FileInv)
  <1>1. DialogueInit => FileInv
    BY DEF DialogueInit, FileInv, NoBlob, Blobs, Stages, CommandOrNone, Collects, StoredForOne
  <1> QED
    BY <1>1, DialogueInitHolds, DialogueStep, FileStep, PTL DEF DialogueSpec

(* A command starts only in what follows a message, on its own parameters and *)
(* on the object of a context that owns it.                                   *)
LEMMA StartsAreSound ==
    ASSUME DialogueInv, [DialogueNext]_dialogueVars
    PROVE  /\ Starts /\ ~objected => running'.of = running'.cmd
           /\ Starts /\ ~moved /\ scope = "workflow" => running'.cmd \in Owned[dialogue'.resp]
  <1>1. SUFFICES ASSUME Starts
                 PROVE  /\ ~objected => running'.of = running'.cmd
                        /\ OnSite => running'.cmd \in Owned[dialogue'.resp]
    BY DEF OnSite
  <1>2. \/ \E door \in {"assistant", "agent"}, m \in Messages : Assist(door, m)
        \/ \E m \in Messages : Call(m)
    BY <1>1 DEF Starts, DialogueNext, dialogueVars, Plan, Finish, Fail, Act, Elsewhere, Yield, Break, Rebuild
  <1>3. ASSUME NEW door, NEW m \in Messages, Assist(door, m)
        PROVE  /\ ~objected => running'.of = running'.cmd
               /\ OnSite => running'.cmd \in Owned[dialogue'.resp]
    <2>1. PICK r \in Readings(m) : Follow(r, r.d)
      BY <1>3 DEF Assist
    <2> QED
      BY <1>1, <2>1, FollowedDialogue
  <1>4. ASSUME NEW m \in Messages, Call(m)
        PROVE  /\ ~objected => running'.of = running'.cmd
               /\ OnSite => running'.cmd \in Owned[dialogue'.resp]
    <2>1. PICK r \in Readings(m) :
              Follow(r, IF r.out \in {"handled", "asks"} /\ r.d.stage # "detect"
                        THEN Ended(r.d) ELSE r.d)
      BY <1>4 DEF Call
    <2>2. PICK d : Follow(r, d) /\ (d = r.d \/ (d = Ended(r.d) /\ r.out \in {"handled", "asks"}))
      BY <2>1
    <2> QED
      BY <1>1, <2>2, FollowedDialogue
  <1> QED
    BY <1>2, <1>3, <1>4

(* The modes of a session do not leak into one another: nothing that a door   *)
(* or the agent leaves open is taken for the other's.                         *)
THEOREM SessionsKeepTheirModes == DialogueSpec => []ModesDoNotLeak
  <1>1. DialogueInv => ModesDoNotLeak
    BY DEF DialogueInv
  <1> QED
    BY <1>1, DialogueHolds, PTL

(* The dialogue, what it keeps between messages and in its file, and the      *)
(* agent have their types.                                                    *)
THEOREM DialogueTypesHold == DialogueSpec => [](DialogueTypes /\ blob \in Blobs)
  <1>1. DialogueInv /\ FileInv => DialogueTypes /\ blob \in Blobs
    BY DEF DialogueInv, FileInv
  <1> QED
    BY <1>1, DialogueHolds, PTL

(* A command runs as it was understood: on the parameters collected for it    *)
(* and on the object of a context that owns it.                               *)
THEOREM CommandsRunAsUnderstood == DialogueSpec => RunsAsUnderstood
  <1> DEFINE Sound == /\ Starts /\ ~objected => running'.of = running'.cmd
                      /\ Starts /\ ~moved /\ scope = "workflow" =>
                             running'.cmd \in Owned[dialogue'.resp]
  <1>1. DialogueInv /\ [DialogueNext]_dialogueVars => Sound
    BY StartsAreSound
  <1>2. Sound => [Starts /\ ~objected => running'.of = running'.cmd]_dialogueVars
    OBVIOUS
  <1>3. Sound => [Starts /\ ~moved /\ scope = "workflow" =>
                      running'.cmd \in Owned[dialogue'.resp]]_dialogueVars
    OBVIOUS
  <1> HIDE DEF Sound
  <1> QED
    BY <1>1, <1>2, <1>3, DialogueHolds, PTL
    DEF DialogueSpec, RunsAsUnderstood, RunsOnItsOwnParameters, RunsWhereItIsOwned
=============================================================================
