-------------------------- MODULE ConversationLabels --------------------------
(* The titles of a channel's conversations.  An LLM names a conversation from *)
(* its recorded turns while the event loop goes on: after a turn (the hook of *)
(* the turn task, which nothing pins), when a conversation is activated, and  *)
(* when the user rotates to a new one.  A session may be retired while its    *)
(* hook generates, and its successor has a label_lock of its own.             *)
EXTENDS Naturals, FiniteSets, Sequences

CONSTANTS
    Tasks,      \* tasks of the event loop: turns, rotations and activations
    Topics,     \* what the LLM may answer: a sequence, its base and its suffixes
    Redacted,   \* Redacted[title]: the title without the credentials in it
    Growth,     \* CONVERSATION_LABEL_GROWTH_FACTOR
    MaxConversations, MaxTurns, \* bounds: conversations, and turns of each
    MaxSessions                 \* bound on the sessions of the channel

(* What may be written as a title: a topic, or a topic with a number.         *)
Candidates == Topics \cup {Append(topic, i) : topic \in Topics, i \in 1..MaxConversations}

ASSUME LabelsAssumption ==
    /\ IsFiniteSet(Tasks) /\ Growth \in Nat \ {0, 1}
    /\ MaxConversations \in Nat \ {0} /\ MaxTurns \in Nat /\ MaxSessions \in Nat \ {0}
    /\ <<>> \notin Topics
    /\ \A topic \in Topics : topic \in Seq({topic[i] : i \in DOMAIN topic})
    /\ \A title \in Candidates : Redacted[title] # <<>>

VARIABLES
    session,   \* number of the live session of the channel
    active,    \* active_conversation_id of each session
    saved,     \* active_conversation_id in the checkpoint, 0 without one
    minted,    \* conversation_counters
    turns,     \* usable turns recorded in each conversation
    label,     \* topic of each conversation, what it was generated from, and whether the redaction
               \* altered it
    task,      \* what each task is at
    queue,     \* the waiters of each session's label_lock
    past       \* history: "retired" with a label being generated

vars == <<session, active, saved, minted, turns, label, task, queue, past>>

Conversations == 1..MaxConversations
Sessions == 1..MaxSessions
Blank == <<>>
NoLabel == [topic |-> Blank, of |-> 0, covers |-> 0, altered |-> FALSE]

Idle == [kind |-> "none", step |-> "idle", session |-> 0, conversation |-> 0, covers |-> 0, appended |-> 0]

(* runtime.lock belongs to a turn that runs, and to a rotation or an          *)
(* activation until it is answered; label_lock to a generation.               *)
OwnsRuntime(a) == task[a].step # "idle" /\ task[a].kind # "hook"
RuntimeFree == \A a \in Tasks : ~OwnsRuntime(a)
At(s, step) == {a \in Tasks : task[a].step = step /\ task[a].session = s}
LabelFree(s) == At(s, "generate") = {}

(* How many powers of Growth are at most n.                                   *)
MilestonesReached(n) == Cardinality({e \in 0..n : Growth ^ e <= n})

Due(k, appended) ==
    /\ turns[k] > 0
    /\ \/ label[k].topic = Blank
       \/ appended > 0 /\ MilestonesReached(turns[k]) > MilestonesReached(turns[k] - appended)

Others(k) == {label[c].topic : c \in Conversations \ {k}} \ {Blank}

Numbered(topic, k) ==
    LET free == {i \in 1..MaxConversations : Append(topic, i) \notin Others(k)}
    IN Append(topic, CHOOSE i \in free : \A j \in free : i <= j)

(* The topic, or the topic with the first number that is not taken.           *)
Unique(topic, k) == IF topic \in Others(k) THEN Numbered(topic, k) ELSE topic

----------------------------------------------------------------------------
BeginTurn(a) ==
    /\ task[a] = Idle /\ RuntimeFree /\ turns[active[session]] < MaxTurns
    /\ task' = [task EXCEPT ![a] = [Idle EXCEPT !.kind = "turn", !.step = "run", !.session = session]]
    /\ UNCHANGED <<session, active, saved, minted, turns, label, queue, past>>

(* A turn recorded durably counts as appended; one that suspended or failed   *)
(* labels nothing.  The hook follows the retirement of the turn and a trim.   *)
EndTurn(a) ==
    /\ task[a].step = "run"
    /\ \/ /\ turns' = [turns EXCEPT ![active[session]] = @ + 1]
          /\ task' = [task EXCEPT ![a] = [@ EXCEPT !.kind = "hook", !.step = "trigger", !.appended = 1]]
       \/ /\ task' = [task EXCEPT ![a] = Idle]
          /\ UNCHANGED turns
    /\ UNCHANGED <<session, active, saved, minted, label, queue, past>>

Generating(a, s, k, how) ==
    [how EXCEPT !.step = "generate", !.session = s, !.conversation = k, !.covers = turns[k]]
Queues(a, s, k, how) ==
    /\ task' = [task EXCEPT ![a] = [how EXCEPT !.step = "queue", !.session = s, !.conversation = k]]
    /\ queue' = [queue EXCEPT ![s] = Append(@, a)]

(* Deviation: a trigger does not look at the lock.                            *)
TriggeredUnlocked(a, s, k, how) ==
    /\ task' = [task EXCEPT ![a] = IF Due(k, how.appended) THEN Generating(a, s, k, how) ELSE Idle]
    /\ UNCHANGED queue

(* A trigger that finds the lock held declines; one that finds only waiters   *)
(* waits behind them; a label that is not due is not generated.               *)
Triggered(a, s, k, how) ==
    \/ /\ ~LabelFree(s) \/ (queue[s] = <<>> /\ ~Due(k, how.appended))
       /\ task' = [task EXCEPT ![a] = Idle] /\ UNCHANGED queue
    \/ LabelFree(s) /\ queue[s] # <<>> /\ Queues(a, s, k, how)
    \/ /\ LabelFree(s) /\ queue[s] = <<>> /\ Due(k, how.appended)
       /\ task' = [task EXCEPT ![a] = Generating(a, s, k, how)] /\ UNCHANGED queue

(* The conversation is the one active when the hook comes to run, in the      *)
(* session whose turn it was.                                                 *)
Hook(a) ==
    /\ task[a].step = "trigger"
    /\ Triggered(a, task[a].session, active[task[a].session], task[a])
    /\ UNCHANGED <<session, active, saved, minted, turns, label, past>>

Activate(a, k) ==
    /\ task[a] = Idle /\ RuntimeFree /\ turns[k] > 0
    /\ active' = [active EXCEPT ![session] = k]
    /\ Triggered(a, session, k, [Idle EXCEPT !.kind = "activate"])
    /\ UNCHANGED <<session, saved, minted, turns, label, past>>

(* A rotation always labels, and waits for the lock.                          *)
Rotate(a) ==
    /\ task[a] = Idle /\ RuntimeFree /\ turns[active[session]] > 0 /\ minted < MaxConversations
    /\ LET k == active[session]
           how == [Idle EXCEPT !.kind = "rotate"]
       IN \/ /\ LabelFree(session) /\ queue[session] = <<>>
             /\ task' = [task EXCEPT ![a] = Generating(a, session, k, how)] /\ UNCHANGED queue
          \/ ~(LabelFree(session) /\ queue[session] = <<>>) /\ Queues(a, session, k, how)
    /\ UNCHANGED <<session, active, saved, minted, turns, label, past>>

(* The lock goes to the first waiter, which looks again at what is due.       *)
TakeLock(a) ==
    LET s == task[a].session k == task[a].conversation
    IN /\ task[a].step = "queue" /\ LabelFree(s) /\ Head(queue[s]) = a
       /\ queue' = [queue EXCEPT ![s] = Tail(@)]
       /\ task' = [task EXCEPT ![a] = IF task[a].kind = "rotate" \/ Due(k, task[a].appended)
                                      THEN Generating(a, s, k, @) ELSE Idle]
       /\ UNCHANGED <<session, active, saved, minted, turns, label, past>>

(* What a title made from a topic becomes in the table.                       *)
Titled(title, k, covers) ==
    [topic |-> Redacted[title], of |-> k, covers |-> covers, altered |-> Redacted[title] # title]

(* Deviation: the title goes to the conversation that is active by then.      *)
WriteToActive(a, topic) ==
    LET k == active[session]
    IN label' = [label EXCEPT ![k] = IF topic = Blank THEN @
           ELSE Titled(Unique(topic, k), task[a].conversation, task[a].covers)]

(* record_conversation_label: a blank topic leaves the title that is there;   *)
(* any other is made unique, and redacted after that.                         *)
Write(a, topic) ==
    LET k == task[a].conversation
    IN label' = [label EXCEPT ![k] = IF topic = Blank THEN @
           ELSE Titled(Unique(topic, k), k, task[a].covers)]

(* Deviation: what a hook generated waits for the runtime.                    *)
ReturnsUnderTheLock(a) == task[a].step = "generate" /\ (task[a].kind = "hook" => RuntimeFree)

(* The LLM call is over.                                                      *)
Returns(a) == task[a].step = "generate"

(* What it returned is written as the label; a rotation then goes on to a new *)
(* conversation, with a blank topic as well.                                  *)
Named(a, topic) ==
    /\ Returns(a)
    /\ Write(a, topic)
    /\ task' = [task EXCEPT ![a] = Idle]
    /\ IF task[a].kind = "rotate"
       THEN minted' = minted + 1 /\ active' = [active EXCEPT ![session] = minted + 1]
       ELSE UNCHANGED <<minted, active>>
    /\ UNCHANGED <<session, saved, turns, queue, past>>

(* It raises: a rotation is refused, every other trigger is over.             *)
NotNamed(a) ==
    /\ Returns(a)
    /\ task' = [task EXCEPT ![a] = Idle]
    /\ UNCHANGED <<session, active, saved, minted, turns, label, queue, past>>

(* A session that is not in use is retired and comes back in its conversation.*)
Retire ==
    /\ RuntimeFree /\ session < MaxSessions
    /\ session' = session + 1
    /\ active' = [active EXCEPT ![session + 1] = active[session]]
    /\ saved' = active[session]
    /\ past' = past \cup (IF \E a \in Tasks : task[a] # Idle THEN {"retired"} ELSE {})
    /\ UNCHANGED <<minted, turns, label, task, queue>>

(* Without a checkpoint the newest conversation is restored, or the one before*)
(* it when the newest is still empty and that one is not.                     *)
Restored ==
    IF saved # 0 THEN saved
    ELSE IF turns[minted] = 0 /\ minted > 1 /\ turns[minted - 1] > 0 THEN minted - 1 ELSE minted

Crash ==
    /\ session < MaxSessions
    /\ session' = session + 1
    /\ active' = [active EXCEPT ![session + 1] = Restored]
    /\ task' = [a \in Tasks |-> Idle] /\ queue' = [s \in Sessions |-> <<>>]
    /\ UNCHANGED <<saved, minted, turns, label, past>>

Init ==
    /\ session = 1 /\ active = [s \in Sessions |-> 1] /\ saved = 0 /\ minted = 1
    /\ turns = [k \in Conversations |-> 0]
    /\ label = [k \in Conversations |-> NoLabel]
    /\ task = [a \in Tasks |-> Idle] /\ queue = [s \in Sessions |-> <<>>]
    /\ past = {}

(* The steps of a task that has begun.                                        *)
Goes(a) ==
    \/ EndTurn(a) \/ Hook(a) \/ TakeLock(a) \/ NotNamed(a)
    \/ \E topic \in Topics \cup {Blank} : Named(a, topic)

Next ==
    \/ \E a \in Tasks :
        BeginTurn(a) \/ Rotate(a) \/ (\E k \in Conversations : Activate(a, k)) \/ Goes(a)
    \/ Retire \/ Crash

Spec == Init /\ [][Next]_vars

(* A task that can go on does: the LLM call is bounded by its client.         *)
FairSpec == Spec /\ \A a \in Tasks : WF_vars(Goes(a))

----------------------------------------------------------------------------
(* The variables have their types, and a title comes from recorded turns.     *)
TypeOK ==
    /\ session \in Sessions /\ active \in [Sessions -> Conversations] /\ minted \in Conversations
    /\ saved \in 0..minted
    /\ turns \in [Conversations -> 0..MaxTurns]
    /\ \A k \in Conversations :
        /\ label[k].of \in 0..MaxConversations /\ label[k].altered \in BOOLEAN
        /\ label[k].topic = Blank <=> label[k].covers \notin 1..turns[k]
    /\ \A a \in Tasks :
        /\ task[a].kind \in {"none", "turn", "hook", "activate", "rotate"}
        /\ task[a].step \in {"idle", "run", "trigger", "queue", "generate"}
        /\ task[a].session \in 0..session /\ task[a].conversation \in 0..minted
        /\ task[a].covers \in 0..MaxTurns /\ task[a].appended \in {0, 1}
    /\ \A s \in Sessions : queue[s] \in Seq(Tasks) /\ Cardinality(At(s, "queue")) = Len(queue[s])
    /\ past \subseteq {"retired"}

(* A conversation bears a name generated from its own turns, whatever was     *)
(* rotated, activated or retired during the LLM call (ensure_topic_and_summary*)
(* captures the conversation before it generates).                            *)
NamedAfterItself == \A k \in Conversations : label[k].topic # Blank => label[k].of = k

(* Two conversations of a channel never have the same title, whichever was    *)
(* written first, as long as the redaction altered neither: a title is made   *)
(* unique where it is written, after the LLM call, but redacted only after    *)
(* that, so that an altered one may be like another (apply_label_txn,         *)
(* _unique_topic_in_txn).                                                     *)
TitlesAreUnique ==
    \A j, k \in Conversations :
        j # k /\ label[j].topic # Blank /\ label[j].topic = label[k].topic =>
            label[j].altered \/ label[k].altered

(* Of all titles, those that the redaction altered among them, it is not true.*)
AllTitlesAreUnique ==
    \A j, k \in Conversations : j # k /\ label[j].topic # Blank => label[j].topic # label[k].topic

(* So a title tells which conversation of the channel it is.                  *)
TitlesTell == NamedAfterItself /\ TitlesAreUnique

KeepsItsTitles ==
    past' = {} => \A k \in Conversations :
        label[k].topic # Blank => label'[k].topic # Blank /\ label'[k].covers >= label[k].covers

(* A title is never lost to a blank answer, nor replaced by one from fewer    *)
(* turns, as long as no session was retired under a label (label_lock).       *)
LabelsNeverGoBack == [][KeepsItsTitles]_vars

(* A rotation, an activation and a hook come to their end: a label never      *)
(* waits for the runtime, whose owner may be waiting for the label.           *)
EveryTaskEnds == \A a \in Tasks : (task[a] # Idle ~> task[a] = Idle)
===============================================================================
