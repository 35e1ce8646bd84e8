------------------------- MODULE LogicalTurnProofs -------------------------
(***************************************************************************)
(* Proofs about LogicalTurn for any set of requests and conversations.     *)
(* Whatever raises or crashes, a suspended turn is resumed as itself, a    *)
(* cancelled one is not, and an execution never reports another's key, as  *)
(* long as no direct action is sent to a suspended channel.  If nothing    *)
(* raises or crashes either, a suspended turn can always be resumed and    *)
(* every answer is recorded.                                               *)
(***************************************************************************)
EXTENDS LogicalTurn, TLAPS

Polite == "act" \notin past
Settled == Calm /\ "switch" \notin past

(* What an attempt has found and done so far. *)
Underway ==
    /\ attempt.at # "idle" => attempt.req \in used /\ attempt.req \notin cancelled
    /\ attempt.at = "started" =>
          /\ attempt.pre = ctx.turn
          /\ IF Suspended THEN attempt.req \notin Actions ELSE attempt.logical = NoTurn
    /\ attempt.at = "working" =>
          /\ attempt.req \in ctx.outputs
          /\ ~Suspended => ctx.turn = attempt.req

(* Only a request that was submitted names a turn. *)
Submitted ==
    /\ ctx.asked \in used \cup {NoTurn}
    /\ snapshot.asked \in used \cup {NoTurn}
    /\ cancelled \subseteq used

IInv ==
    /\ TypeOK
    /\ Underway
    /\ Submitted
    /\ AnswersGoToTheAsker
    /\ ReportsItsOwnKey
    /\ CancelledStaysCancelled

(* Without a crash the blob is about the suspension of the live context,   *)
(* from the end of one attempt to the end of the next.                     *)
Synced == attempt.at # "returned" => snapshot.asked = ctx.asked

(* Without an error a trajectory is missing only while it runs.            *)
Resumable ==
    /\ snapshot.asked # NoTurn => snapshot.react = snapshot.asked
    /\ Suspended => \/ ctx.react = ctx.asked
                    \/ attempt.at = "working" /\ attempt.req \in Messages

(* The turn an attempt will answer has no final record yet. *)
Unanswered ==
    /\ \A r \in Requests : record[r].status # "none" => r \in used
    /\ attempt.at = "started" => record[attempt.req].status = "none"
    /\ attempt.at = "working" /\ ~Suspended => record[attempt.req].status = "none"
    /\ Suspended => record[ctx.asked].status \notin Terminal

CInv ==
    /\ IInv
    /\ Synced
    /\ Resumable
    /\ Unanswered
    /\ AnswerIsRecorded

-----------------------------------------------------------------------------
LEMMA UpsertTypes ==
    ASSUME TypeOK, attempt.req \in Requests, NEW k, NEW status \in Terminal \cup {"awaiting"},
           Upsert(k, status)
    PROVE  record' \in [Requests -> Record]
  <1>1. [status |-> status, answer |-> attempt.req, conv |-> conv] \in Record
    BY DEF TypeOK, Terminal, Record
  <1> QED
    BY <1>1 DEF TypeOK, Upsert

(* A returning attempt is typed and reports the turn of the context. *)
LEMMA ReturnsTypes ==
    ASSUME TypeOK, attempt.at = "working", NEW status \in Terminal \cup {"awaiting"},
           Returns(status)
    PROVE  /\ attempt' \in Attempt
           /\ attempt'.at = "returned"
           /\ attempt'.req = attempt.req
           /\ attempt'.logical = ctx.turn
           /\ attempt'.status = status
           /\ record' \in [Requests -> Record]
           /\ UNCHANGED <<snapshot, conv, used, home, cancelled>>
  <1>1. attempt \in Attempt
    BY DEF TypeOK, NoAttempt
  <1>2. attempt.req \in Requests
    BY <1>1 DEF Attempt
  <1>3. record' \in [Requests -> Record]
    BY <1>2, UpsertTypes DEF Returns
  <1> QED
    BY <1>1, <1>3 DEF Returns, Attempt, TypeOK, Context, Terminal

LEMMA BlankTypes == Blank \in Context
  <1>1. FALSE \in BOOLEAN
    BY Zenon
  <1> QED
    BY <1>1 DEF Blank, Context

(* A context read back from a blob. *)
LEMMA RestoredTypes ==
    ASSUME TypeOK
    PROVE  /\ Restored \in Context
           /\ Restored.turn = snapshot.turn
           /\ Restored.outputs = snapshot.outputs
           /\ Restored.asked = snapshot.asked
           /\ snapshot.asked # NoTurn => Restored.react = snapshot.react
  BY DEF TypeOK, Context, Restored

(* What has happened is not forgotten. *)
LEMMA PastGrows == [Next]_vars => past \subseteq past'
  BY DEF Next, Work, vars, Start, BeginTurn, Resume, ResumeConflict, Raise, Suspend,
     Answer, Execute, Returns, Persist, Poll, CancelPending, Switch, Retire, Crash

LEMMA PastTypes == past \subseteq Events /\ [Next]_vars => past' \subseteq Events
  BY DEF Events, Next, Work, vars, Start, BeginTurn, Resume, ResumeConflict, Raise, Suspend,
     Answer, Execute, Returns, Persist, Poll, CancelPending, Switch, Retire, Crash

LEMMA TypeStep == TypeOK /\ [Next]_vars => TypeOK'
  <1> SUFFICES ASSUME TypeOK, [Next]_vars PROVE TypeOK'
    OBVIOUS
  <1>p. past' \subseteq Events
    BY PastTypes DEF TypeOK
  <1> USE <1>p
  <1>a. attempt.at # "idle" => attempt \in Attempt /\ attempt.req \in Requests
    BY DEF TypeOK, Attempt, NoAttempt
  <1>b. \A x \in BOOLEAN : [ctx EXCEPT !.open = x] \in Context
    BY DEF TypeOK, Context
  <1>1. ASSUME NEW r \in Requests, Start(r) PROVE TypeOK'
    <2>1. attempt' \in Attempt
      BY <1>1 DEF TypeOK, Start, Attempt, Context
    <2> QED
      BY <1>1, <2>1 DEF TypeOK, Start
  <1>2. CASE BeginTurn
    <2>1. ctx' \in Context /\ attempt' \in Attempt
      BY <1>2, <1>a DEF TypeOK, BeginTurn, Context, Attempt
    <2> QED
      BY <1>2, <1>a, <2>1 DEF TypeOK, BeginTurn
  <1>3. CASE Resume
    <2>1. ctx' \in Context /\ attempt' \in Attempt
      BY <1>3, <1>a DEF TypeOK, Resume, Context, Attempt
    <2> QED
      BY <1>3, <2>1 DEF TypeOK, Resume
  <1>4. CASE ResumeConflict
    <2>1. record' \in [Requests -> Record]
      BY <1>4, <1>a, UpsertTypes DEF ResumeConflict, Terminal
    <2> QED
      BY <1>4, <2>1 DEF TypeOK, ResumeConflict
  <1>5. CASE Raise
    <2>1. record' \in [Requests -> Record]
      BY <1>5, <1>a, UpsertTypes DEF Raise, Terminal, TypeOK
    <2>2. ctx' \in Context
      BY <1>5, <1>a DEF TypeOK, Raise, Context
    <2> QED
      BY <1>5, <2>1, <2>2 DEF TypeOK, Raise
  <1>6. CASE Suspend
    <2>1. ctx' \in Context
      BY <1>6, <1>a DEF TypeOK, Suspend, Context
    <2>2. attempt.at = "working" /\ Returns("awaiting")
      BY <1>6 DEF Suspend
    <2> QED
      BY <2>1, <2>2, ReturnsTypes DEF TypeOK
  <1>7. CASE Answer
    <2>1. ctx' \in Context
      BY <1>7, <1>a DEF TypeOK, Answer, Context
    <2>2. PICK status \in Terminal : attempt.at = "working" /\ Returns(status)
      BY <1>7 DEF Answer, Terminal
    <2> QED
      BY <2>1, <2>2, ReturnsTypes DEF TypeOK
  <1>8. CASE Execute
    <2>1. ctx' \in Context
      BY <1>8, <1>b DEF Execute
    <2>2. PICK status \in Terminal \cup {"awaiting"} : attempt.at = "working" /\ Returns(status)
      BY <1>8 DEF Execute, Terminal
    <2> QED
      BY <2>1, <2>2, ReturnsTypes DEF TypeOK
  <1>9. CASE Persist
    BY <1>9, BlankTypes DEF TypeOK, Persist
  <1>10. CASE Poll
    <2>1. attempt' \in Attempt
      BY <1>10, <1>a DEF TypeOK, Poll, Idle, Attempt, Context
    <2> QED
      BY <1>10, <2>1 DEF TypeOK, Poll
  <1>11. CASE CancelPending
    <2>1. ctx' \in Context
      BY <1>11 DEF TypeOK, CancelPending, Context
    <2>2. Suspended => ctx.asked \in Requests
      BY DEF TypeOK, Context, Suspended
    <2> QED
      BY <1>11, <2>1, <2>2, BlankTypes DEF TypeOK, CancelPending
  <1>12. ASSUME NEW c \in Conversations, Switch(c) PROVE TypeOK'
    BY <1>12 DEF TypeOK, Switch
  <1>13. CASE Retire
    BY <1>13, RestoredTypes DEF TypeOK, Retire
  <1>14. CASE Crash
    BY <1>14, RestoredTypes DEF TypeOK, Crash
  <1>15. CASE UNCHANGED vars
    BY <1>15 DEF TypeOK, vars
  <1> QED
    BY <1>1, <1>2, <1>3, <1>4, <1>5, <1>6, <1>7, <1>8, <1>9, <1>10, <1>11,
       <1>12, <1>13, <1>14, <1>15 DEF Next, Work

LEMMA InitTypes == Init => TypeOK
  <1> SUFFICES ASSUME Init PROVE TypeOK
    OBVIOUS
  <1>1. NoRecord \in Record
    BY DEF NoRecord, Record
  <1> QED
    BY <1>1, BlankTypes DEF Init, TypeOK

(* Every behaviour is well typed (_turn_key, _turn_outputs, the suspension *)
(* fields, the row of each turn and the execution of the attempt).         *)
THEOREM TypeCorrect == Spec => []TypeOK
  BY InitTypes, TypeStep, PTL DEF Spec

-----------------------------------------------------------------------------
LEMMA AttemptFacts ==
    ASSUME TypeOK
    PROVE  /\ attempt.at \in {"idle", "started", "working", "returned"}
           /\ attempt.at # "idle" => attempt \in Attempt /\ attempt.req \in Requests
           /\ attempt.at = "idle" => attempt = NoAttempt /\ attempt.logical = NoTurn
           /\ NoTurn \notin Requests
           /\ NoAttempt.at = "idle" /\ NoAttempt.logical = NoTurn
  BY RequestsAssumption DEF TypeOK, Attempt, NoAttempt

LEMMA InitTurns == Init => IInv
  <1> SUFFICES ASSUME Init PROVE IInv
    OBVIOUS
  <1>1. TypeOK
    BY InitTypes
  <1>2. ctx.asked = NoTurn /\ snapshot.asked = NoTurn
    BY DEF Init, Blank
  <1>3. attempt.at = "idle" /\ attempt.logical = NoTurn
    BY DEF Init, NoAttempt
  <1> QED
    BY <1>1, <1>2, <1>3 DEF Init, IInv, Underway, Submitted, AnswersGoToTheAsker, Owned,
       ReportsItsOwnKey, CancelledStaysCancelled

(* An attempt that ends leaves only the context to speak of. *)
LEMMA EndOfAttempt ==
    ASSUME IInv, TypeOK', attempt' = NoAttempt, UNCHANGED <<used, cancelled>>,
           ctx'.turn = ctx.turn, ctx'.outputs = ctx.outputs, ctx'.asked = ctx.asked,
           snapshot' = snapshot \/ snapshot' = ctx \/ snapshot' = Blank
    PROVE  IInv'
  <1>1. snapshot'.asked \in {NoTurn, snapshot.asked, ctx.asked}
    BY DEF Blank
  <1>2. attempt'.at = "idle" /\ attempt'.logical = NoTurn
    BY DEF NoAttempt
  <1>3. Submitted' /\ CancelledStaysCancelled' /\ AnswersGoToTheAsker'
    BY DEF IInv, Submitted, CancelledStaysCancelled, AnswersGoToTheAsker, Owned, Blank
  <1> QED
    BY <1>2, <1>3 DEF IInv, Underway, ReportsItsOwnKey

(* What a return leaves of the turn: the context it was handed, about the  *)
(* same turn, suspended on it or on nothing.                               *)
LEMMA ReturnKeepsTurn ==
    ASSUME IInv, TypeOK', attempt.at = "working",
           NEW status \in Terminal \cup {"awaiting"}, Returns(status),
           ctx'.turn = ctx.turn, ctx'.outputs = ctx.outputs,
           \/ ctx'.asked \in {NoTurn, ctx.asked}
           \/ ~Suspended /\ ctx'.asked = attempt.req
    PROVE  IInv'
  <1>1. /\ attempt'.at = "returned"
        /\ attempt'.req = attempt.req
        /\ attempt'.logical = ctx.turn
        /\ UNCHANGED <<snapshot, used, cancelled>>
    BY ReturnsTypes DEF IInv
  <1>2. attempt.req \in used /\ attempt.req \notin cancelled
    BY DEF IInv, Underway
  <1>3. Underway' /\ ReportsItsOwnKey'
    BY <1>1, <1>2 DEF Underway, ReportsItsOwnKey
  <1>4. Submitted' /\ CancelledStaysCancelled'
    BY <1>1, <1>2 DEF IInv, Submitted, CancelledStaysCancelled
  <1>5. AnswersGoToTheAsker'
    BY <1>1 DEF IInv, AnswersGoToTheAsker, Owned, Underway, Suspended
  <1> QED
    BY <1>3, <1>4, <1>5 DEF IInv

LEMMA TurnStep == Polite' /\ IInv /\ [Next]_vars => IInv'
  <1> SUFFICES ASSUME Polite', IInv, [Next]_vars PROVE IInv'
    OBVIOUS
  <1>t. TypeOK /\ TypeOK'
    BY TypeStep DEF IInv
  <1> USE AttemptFacts
  <1>1. ASSUME NEW r \in Requests, Start(r) PROVE IInv'
    <2>1. /\ attempt'.at = "started"
          /\ attempt'.req = r
          /\ attempt'.pre = ctx.turn
          /\ attempt'.logical = IF Suspended THEN ctx.turn ELSE NoTurn
          /\ UNCHANGED <<ctx, snapshot, cancelled>>
          /\ used' = used \cup {r}
          /\ r \notin used
      BY <1>1 DEF Start
    <2>2. Underway'
      BY <1>1, <2>1 DEF Start, IInv, Underway, Submitted, Suspended, Polite
    <2>3. Submitted' /\ CancelledStaysCancelled' /\ AnswersGoToTheAsker'
      BY <2>1 DEF IInv, Submitted, CancelledStaysCancelled, AnswersGoToTheAsker
    <2> QED
      BY <1>t, <2>1, <2>2, <2>3 DEF IInv, ReportsItsOwnKey
  <1>2. CASE BeginTurn
    <2>1. /\ attempt.at = "started"
          /\ attempt'.at = "working"
          /\ attempt'.req = attempt.req
          /\ attempt'.logical = attempt.logical
          /\ UNCHANGED <<snapshot, used, cancelled>>
      BY <1>2, <1>t DEF BeginTurn, Attempt
    <2>2. /\ ctx'.turn = attempt.req
          /\ ctx'.outputs = {attempt.req}
          /\ ctx'.asked = ctx.asked
      BY <1>2, <1>t DEF BeginTurn, TypeOK, Context
    <2>3. ~Suspended
      BY <1>2, <2>1 DEF BeginTurn, Continues, IInv, Underway
    <2>4. attempt.logical = NoTurn
      BY <2>1, <2>3 DEF IInv, Underway
    <2>5. Underway' /\ ReportsItsOwnKey'
      BY <2>1, <2>2, <2>4 DEF IInv, Underway, ReportsItsOwnKey
    <2>6. Submitted' /\ CancelledStaysCancelled' /\ AnswersGoToTheAsker'
      BY <2>1, <2>2, <2>3 DEF IInv, Submitted, CancelledStaysCancelled,
         AnswersGoToTheAsker, Owned, Suspended
    <2> QED
      BY <1>t, <2>5, <2>6 DEF IInv
  <1>3. CASE Resume
    <2>1. /\ attempt.at = "started"
          /\ attempt'.at = "working"
          /\ attempt'.req = attempt.req
          /\ attempt'.logical = attempt.logical
          /\ UNCHANGED <<snapshot, used, cancelled>>
      BY <1>3, <1>t DEF Resume, Attempt
    <2>2. /\ ctx'.turn = ctx.turn
          /\ ctx'.outputs = ctx.outputs \cup {attempt.req}
          /\ ctx'.asked = ctx.asked
      BY <1>3, <1>t DEF Resume, TypeOK, Context
    <2>3. Suspended
      BY <1>3 DEF Resume, Continues
    <2>4. Underway' /\ ReportsItsOwnKey'
      BY <2>1, <2>2, <2>3 DEF IInv, Underway, ReportsItsOwnKey, Suspended
    <2>5. Submitted' /\ CancelledStaysCancelled' /\ AnswersGoToTheAsker'
      BY <2>1, <2>2 DEF IInv, Submitted, CancelledStaysCancelled, AnswersGoToTheAsker, Owned
    <2> QED
      BY <1>t, <2>4, <2>5 DEF IInv
  <1>4. CASE ResumeConflict \/ Raise
    <2>1. attempt' = NoAttempt /\ UNCHANGED <<snapshot, used, cancelled>>
      BY <1>4 DEF ResumeConflict, Raise
    <2>2. /\ ctx'.turn = ctx.turn /\ ctx'.outputs = ctx.outputs /\ ctx'.asked = ctx.asked
      BY <1>4, <1>t DEF ResumeConflict, Raise, TypeOK, Context
    <2> QED
      BY <1>t, <2>1, <2>2, EndOfAttempt
  <1>5. CASE Suspend
    <2>1. /\ ctx'.turn = ctx.turn
          /\ ctx'.outputs = ctx.outputs
          /\ ctx'.asked = IF Suspended THEN ctx.asked ELSE attempt.req
      BY <1>5, <1>t DEF Suspend, TypeOK, Context
    <2> QED
      BY <1>5, <1>t, <2>1, ReturnKeepsTurn DEF Suspend
  <1>6. CASE Answer
    <2>1. /\ ctx'.turn = ctx.turn
          /\ ctx'.outputs = ctx.outputs
          /\ ctx'.asked = NoTurn
      BY <1>6, <1>t DEF Answer, TypeOK, Context
    <2>2. PICK status \in Terminal : Returns(status)
      BY <1>6 DEF Answer, Terminal
    <2> QED
      BY <1>6, <1>t, <2>1, <2>2, ReturnKeepsTurn DEF Answer
  <1>7. CASE Execute
    <2>1. /\ ctx'.turn = ctx.turn
          /\ ctx'.outputs = ctx.outputs
          /\ ctx'.asked = ctx.asked
      BY <1>7, <1>t DEF Execute, TypeOK, Context
    <2>2. PICK status \in Terminal \cup {"awaiting"} : Returns(status)
      BY <1>7 DEF Execute, Terminal
    <2> QED
      BY <1>7, <1>t, <2>1, <2>2, ReturnKeepsTurn DEF Execute
  <1>8. CASE Persist
    BY <1>8, <1>t, EndOfAttempt DEF Persist
  <1>9. CASE Poll
    <2>1. /\ attempt'.at = attempt.at
          /\ attempt'.req = attempt.req
          /\ attempt'.pre = attempt.pre
          /\ attempt'.logical = ctx.turn
          /\ UNCHANGED <<ctx, snapshot, used, cancelled>>
      BY <1>9, <1>t DEF Poll, Idle, Attempt
    <2>2. Underway' /\ ReportsItsOwnKey'
      BY <1>9, <2>1 DEF Poll, IInv, Underway, ReportsItsOwnKey, Suspended
    <2>3. Submitted' /\ CancelledStaysCancelled' /\ AnswersGoToTheAsker'
      BY <2>1 DEF IInv, Submitted, CancelledStaysCancelled, AnswersGoToTheAsker
    <2> QED
      BY <1>t, <2>2, <2>3 DEF IInv
  <1>10. CASE CancelPending
    <2>1. /\ attempt.at = "idle"
          /\ attempt' = attempt
          /\ used' = used
          /\ ctx'.asked = NoTurn
          /\ snapshot'.asked = NoTurn
      BY <1>10, <1>t DEF CancelPending, Idle, TypeOK, Context, Blank
    <2>2. cancelled' \subseteq used
      BY <1>10, <2>1 DEF CancelPending, IInv, Submitted, Suspended
    <2>3. Underway' /\ ReportsItsOwnKey'
      BY <1>t, <2>1 DEF Underway, ReportsItsOwnKey
    <2>4. Submitted' /\ CancelledStaysCancelled' /\ AnswersGoToTheAsker'
      BY <2>1, <2>2 DEF Submitted, CancelledStaysCancelled, AnswersGoToTheAsker, Owned
    <2> QED
      BY <1>t, <2>3, <2>4 DEF IInv
  <1>11. ASSUME NEW c \in Conversations, Switch(c) PROVE IInv'
    BY <1>11, <1>t DEF Switch, IInv, Underway, Submitted, AnswersGoToTheAsker, ReportsItsOwnKey,
       CancelledStaysCancelled, Suspended
  <1>12. CASE Retire \/ Crash
    <2>1. /\ attempt'.at = "idle"
          /\ attempt'.logical = NoTurn
          /\ ctx' = Restored
          /\ UNCHANGED <<snapshot, used, cancelled>>
      BY <1>12, <1>t DEF Retire, Crash, Idle, NoAttempt
    <2>2. /\ ctx'.turn = snapshot.turn
          /\ ctx'.outputs = snapshot.outputs
          /\ ctx'.asked = snapshot.asked
      BY <1>t, <2>1, RestoredTypes
    <2>3. Submitted' /\ CancelledStaysCancelled' /\ AnswersGoToTheAsker'
      BY <2>1, <2>2 DEF IInv, Submitted, CancelledStaysCancelled, AnswersGoToTheAsker, Owned
    <2> QED
      BY <1>t, <2>1, <2>3 DEF IInv, Underway, ReportsItsOwnKey
  <1>13. CASE UNCHANGED vars
    BY <1>13, <1>t DEF vars, IInv, Underway, Submitted, AnswersGoToTheAsker, ReportsItsOwnKey,
       CancelledStaysCancelled, Suspended
  <1> QED
    BY <1>1, <1>2, <1>3, <1>4, <1>5, <1>6, <1>7, <1>8, <1>9, <1>10, <1>11, <1>12,
       <1>13 DEF Next, Work

-----------------------------------------------------------------------------
(* Where nothing raises and nothing crashes. *)

LEMMA InitCalm == Init => CInv
  <1> SUFFICES ASSUME Init PROVE CInv
    OBVIOUS
  <1>1. IInv
    BY InitTurns
  <1>2. ctx.asked = NoTurn /\ snapshot.asked = NoTurn /\ attempt.at = "idle"
    BY DEF Init, Blank, NoAttempt
  <1>3. \A r \in Requests : record[r].status = "none"
    BY DEF Init, NoRecord
  <1> QED
    BY <1>1, <1>2, <1>3 DEF CInv, Synced, Resumable, Unanswered, AnswerIsRecorded, Suspended

(* The row an attempt writes as it returns: its turn's, which was open. *)
LEMMA ReturnRecords ==
    ASSUME CInv, attempt.at = "working", NEW status \in Terminal \cup {"awaiting"},
           Returns(status)
    PROVE  /\ ctx.turn \in used /\ ctx.turn \in Requests
           /\ record'[ctx.turn].status = status
           /\ record'[ctx.turn].answer = attempt.req
           /\ record'[ctx.turn].conv = conv
           /\ \A r \in Requests : r # ctx.turn => record'[r] = record[r]
  <1>1. ctx.turn \in used /\ ctx.turn \in Requests /\ record[ctx.turn].status \notin Terminal
    <2>1. CASE Suspended
      BY <2>1 DEF CInv, IInv, Submitted, AnswersGoToTheAsker, Owned, Unanswered, Suspended, TypeOK
    <2>2. CASE ~Suspended
      BY <2>2, AttemptFacts DEF CInv, IInv, Underway, Unanswered, Terminal
    <2> QED
      BY <2>1, <2>2
  <1>2. record' = [record EXCEPT ![ctx.turn] = [status |-> status, answer |-> attempt.req,
                                                conv |-> conv]]
    BY <1>1 DEF Returns, Upsert
  <1> QED
    BY <1>1, <1>2 DEF CInv, IInv, TypeOK

(* A return either leaves its turn suspended with the trajectory it needs, *)
(* or closes it.                                                           *)
LEMMA CalmReturn ==
    ASSUME CInv, IInv', attempt.at = "working", NEW status \in Terminal \cup {"awaiting"},
           Returns(status),
           ctx'.turn = ctx.turn,
           ctx'.asked # NoTurn => status = "awaiting" /\ ctx'.react = ctx'.asked
    PROVE  CInv'
  <1>1. /\ attempt'.at = "returned"
        /\ attempt'.req = attempt.req
        /\ attempt'.status = status
        /\ UNCHANGED <<snapshot, used>>
    BY ReturnsTypes DEF CInv, IInv
  <1>2. Synced'
    BY <1>1 DEF Synced
  <1>3. Resumable'
    BY <1>1 DEF CInv, Resumable, Suspended
  <1>4. Unanswered'
    <2>1. ctx'.asked # NoTurn => ctx'.asked = ctx.turn
      BY DEF IInv, AnswersGoToTheAsker, Owned
    <2>2. ctx'.asked # NoTurn => record'[ctx'.asked].status \notin Terminal
      BY <2>1, ReturnRecords DEF Terminal
    <2> QED
      BY <1>1, <2>2, ReturnRecords DEF CInv, Unanswered, Suspended
  <1>5. AnswerIsRecorded'
    BY <1>1, ReturnRecords DEF AnswerIsRecorded
  <1> QED
    BY <1>2, <1>3, <1>4, <1>5 DEF CInv

LEMMA CalmStep == Calm' /\ CInv /\ [Next]_vars => CInv'
  <1> SUFFICES ASSUME Calm', CInv, [Next]_vars PROVE CInv'
    OBVIOUS
  <1>t. /\ IInv /\ IInv'
        /\ TypeOK
    BY TurnStep DEF Calm, Polite, CInv, IInv
  <1> USE AttemptFacts
  <1>1. ASSUME NEW r \in Requests, Start(r) PROVE CInv'
    <2>1. /\ attempt.at = "idle"
          /\ attempt'.at = "started"
          /\ attempt'.req = r
          /\ r \notin used
          /\ used' = used \cup {r}
          /\ UNCHANGED <<ctx, snapshot, record>>
      BY <1>1 DEF Start, Idle
    <2> QED
      BY <1>t, <2>1 DEF CInv, Synced, Resumable, Unanswered, AnswerIsRecorded, Suspended
  <1>2. CASE BeginTurn
    <2>1. /\ attempt.at = "started"
          /\ attempt'.at = "working"
          /\ attempt'.req = attempt.req
          /\ UNCHANGED <<snapshot, used, record>>
      BY <1>2, <1>t DEF BeginTurn, Attempt
    <2>2. ctx'.asked = ctx.asked /\ ctx'.react = ctx.react
      BY <1>2, <1>t DEF BeginTurn, TypeOK, Context
    <2>3. ~Suspended
      BY <1>2, <1>t, <2>1 DEF BeginTurn, Continues, IInv, Underway
    <2> QED
      BY <1>t, <2>1, <2>2, <2>3
         DEF CInv, Synced, Resumable, Unanswered, AnswerIsRecorded, Suspended
  <1>3. CASE Resume
    <2>1. /\ attempt.at = "started"
          /\ attempt'.at = "working"
          /\ attempt'.req = attempt.req
          /\ UNCHANGED <<snapshot, used, record>>
      BY <1>3, <1>t DEF Resume, Attempt
    <2>2. /\ ctx'.asked = ctx.asked
          /\ ctx'.react = IF attempt.req \in Messages THEN NoTurn ELSE ctx.react
      BY <1>3, <1>t DEF Resume, TypeOK, Context
    <2>3. Suspended
      BY <1>3 DEF Resume, Continues
    <2> QED
      BY <1>t, <2>1, <2>2, <2>3
         DEF CInv, Synced, Resumable, Unanswered, AnswerIsRecorded, Suspended
  <1>4. ~ResumeConflict /\ ~Raise /\ ~Crash
    BY DEF ResumeConflict, CInv, Resumable, Suspended, Calm, Raise, Crash
  <1>5. CASE Suspend
    <2>1. /\ ctx'.turn = ctx.turn
          /\ ctx'.react = ctx.turn
      BY <1>5, <1>t DEF Suspend, TypeOK, Context
    <2>2. ctx'.asked # NoTurn => ctx'.asked = ctx'.turn
      BY <1>t DEF IInv, AnswersGoToTheAsker, Owned
    <2> QED
      BY <1>5, <1>t, <2>1, <2>2, CalmReturn DEF Suspend
  <1>6. CASE Answer
    <2>1. ctx'.turn = ctx.turn /\ ctx'.asked = NoTurn
      BY <1>6, <1>t DEF Answer, TypeOK, Context
    <2>2. PICK status \in Terminal : Returns(status)
      BY <1>6 DEF Answer, Terminal
    <2> QED
      BY <1>6, <1>t, <2>1, <2>2, CalmReturn DEF Answer
  <1>7. CASE Execute
    <2>1. ctx'.turn = ctx.turn /\ ctx'.asked = ctx.asked /\ ctx'.react = ctx.react
      BY <1>7, <1>t DEF Execute, TypeOK, Context
    <2>2. CASE Suspended
      BY <1>7, <1>t, <2>1, <2>2, CalmReturn DEF Execute, CInv, Resumable, Suspended
    <2>3. CASE ~Suspended
      <3>1. Returns("completed") /\ "completed" \in Terminal
        BY <1>7, <2>3 DEF Execute, Terminal
      <3> QED
        BY <1>7, <1>t, <2>1, <2>3, <3>1, CalmReturn DEF Execute, Suspended
    <2> QED
      BY <2>2, <2>3
  <1>8. CASE Persist
    <2>1. /\ attempt.at = "returned"
          /\ attempt'.at = "idle"
          /\ UNCHANGED <<ctx, used, record>>
      BY <1>8 DEF Persist, NoAttempt
    <2>2. snapshot' = ctx \/ (snapshot'.asked = NoTurn /\ ~Suspended)
      BY <1>8 DEF Persist, Blank
    <2> QED
      BY <1>t, <2>1, <2>2
         DEF CInv, Synced, Resumable, Unanswered, AnswerIsRecorded, Suspended
  <1>9. CASE Poll
    <2>1. /\ attempt'.at = attempt.at
          /\ attempt'.req = attempt.req
          /\ attempt'.status = attempt.status
          /\ UNCHANGED <<ctx, snapshot, used, record>>
      BY <1>9, <1>t DEF Poll, Idle, Attempt
    <2> QED
      BY <1>t, <2>1 DEF CInv, Synced, Resumable, Unanswered, AnswerIsRecorded, Suspended
  <1>10. CASE CancelPending
    <2>1. /\ attempt.at = "idle"
          /\ UNCHANGED <<attempt, used, record>>
          /\ ctx'.asked = NoTurn
          /\ snapshot'.asked = NoTurn
      BY <1>10, <1>t DEF CancelPending, Idle, TypeOK, Context, Blank
    <2> QED
      BY <1>t, <2>1 DEF CInv, Synced, Resumable, Unanswered, AnswerIsRecorded, Suspended
  <1>11. ASSUME NEW c \in Conversations, Switch(c) PROVE CInv'
    BY <1>11, <1>t DEF Switch, CInv, Synced, Resumable, Unanswered, AnswerIsRecorded,
       Suspended
  <1>12. CASE Retire
    <2>1. attempt.at = "idle" /\ UNCHANGED <<attempt, snapshot, used, record>>
      BY <1>12 DEF Retire, Idle
    <2>2. ctx'.asked = snapshot.asked /\ (snapshot.asked # NoTurn => ctx'.react = snapshot.react)
      BY <1>12, <1>t, RestoredTypes DEF Retire
    <2>3. snapshot.asked = ctx.asked
      BY <2>1 DEF CInv, Synced
    <2> QED
      BY <1>t, <2>1, <2>2, <2>3
         DEF CInv, Synced, Resumable, Unanswered, AnswerIsRecorded, Suspended
  <1>13. CASE UNCHANGED vars
    BY <1>13, <1>t DEF vars, CInv, Synced, Resumable, Unanswered, AnswerIsRecorded, Suspended
  <1> QED
    BY <1>1, <1>2, <1>3, <1>4, <1>5, <1>6, <1>7, <1>8, <1>9, <1>10, <1>11, <1>12,
       <1>13 DEF Next, Work

(* The record of a suspended turn, and of one that is about to be written, *)
(* is where the context is: a channel is not switched in between.          *)
AtHome ==
    /\ attempt.at = "working" => home[ctx.turn] = conv
    /\ Suspended => home[ctx.asked] = conv
    /\ RecordsAreHome

LEMMA HomeStep ==
    Settled' /\ CInv /\ AtHome /\ [Next]_vars => AtHome'
  <1> SUFFICES ASSUME Settled', Calm', CInv, AtHome, [Next]_vars PROVE AtHome'
    BY DEF Settled
  <1>t. /\ IInv /\ IInv'
        /\ TypeOK
    BY TurnStep DEF Calm, Polite, CInv, IInv
  <1> USE AttemptFacts
  <1>1. ASSUME NEW r \in Requests, Start(r) PROVE AtHome'
    <2>1. /\ attempt'.at = "started"
          /\ UNCHANGED <<ctx, record, conv, home>>
      BY <1>1 DEF Start
    <2> QED
      BY <2>1 DEF AtHome, RecordsAreHome, Suspended
  <1>2. CASE BeginTurn
    <2>1. /\ attempt.at = "started" /\ attempt.req \in Requests
          /\ UNCHANGED <<record, conv>>
          /\ home' = [home EXCEPT ![attempt.req] = conv]
      BY <1>2, <1>t DEF BeginTurn
    <2>2. ctx'.turn = attempt.req /\ ctx'.asked = ctx.asked
      BY <1>2, <1>t DEF BeginTurn, TypeOK, Context
    <2>3. ~Suspended
      BY <1>2, <1>t, <2>1 DEF BeginTurn, Continues, IInv, Underway
    <2>4. record[attempt.req].status = "none"
      BY <2>1 DEF CInv, Unanswered
    <2> QED
      BY <1>t, <2>1, <2>2, <2>3, <2>4 DEF AtHome, RecordsAreHome, Suspended, TypeOK
  <1>3. CASE Resume
    <2>1. Suspended /\ UNCHANGED <<record, conv, home>>
      BY <1>3 DEF Resume, Continues
    <2>2. ctx'.turn = ctx.turn /\ ctx'.asked = ctx.asked
      BY <1>3, <1>t DEF Resume, TypeOK, Context
    <2>3. ctx.turn = ctx.asked
      BY <1>t, <2>1 DEF IInv, AnswersGoToTheAsker, Owned, Suspended
    <2> QED
      BY <2>1, <2>2, <2>3 DEF AtHome, RecordsAreHome, Suspended
  <1>4. ~ResumeConflict /\ ~Raise /\ ~Crash
    BY DEF ResumeConflict, CInv, Resumable, Suspended, Calm, Raise, Crash
  <1>5. ASSUME attempt.at = "working", NEW status \in Terminal \cup {"awaiting"},
               Returns(status), ctx'.turn = ctx.turn
        PROVE  AtHome'
    <2>1. attempt'.at = "returned" /\ UNCHANGED <<conv, home>>
      BY <1>5, <1>t, ReturnsTypes
    <2>2. ctx'.asked # NoTurn => ctx'.asked = ctx.turn
      BY <1>5, <1>t DEF IInv, AnswersGoToTheAsker, Owned
    <2> QED
      BY <1>5, <2>1, <2>2, ReturnRecords DEF AtHome, RecordsAreHome, Suspended
  <1>6. CASE Suspend
    <2>1. ctx'.turn = ctx.turn
      BY <1>6, <1>t DEF Suspend, TypeOK, Context
    <2> QED
      BY <1>5, <1>6, <2>1 DEF Suspend
  <1>7. CASE Answer
    <2>1. ctx'.turn = ctx.turn
      BY <1>7, <1>t DEF Answer, TypeOK, Context
    <2> QED
      BY <1>5, <1>7, <2>1 DEF Answer, Terminal
  <1>8. CASE Execute
    <2>1. ctx'.turn = ctx.turn
      BY <1>8, <1>t DEF Execute, TypeOK, Context
    <2> QED
      BY <1>5, <1>8, <2>1 DEF Execute, Terminal
  <1>9. CASE Persist
    BY <1>9 DEF Persist, NoAttempt, AtHome, RecordsAreHome, Suspended
  <1>10. CASE Poll
    <2>1. attempt'.at = attempt.at /\ UNCHANGED <<ctx, record, conv, home>>
      BY <1>10, <1>t DEF Poll, Idle, Attempt
    <2> QED
      BY <2>1 DEF AtHome, RecordsAreHome, Suspended
  <1>11. CASE CancelPending
    <2>1. /\ attempt'.at = "idle"
          /\ UNCHANGED <<record, conv, home>>
          /\ ctx'.asked = NoTurn
      BY <1>11, <1>t DEF CancelPending, Idle, TypeOK, Context
    <2> QED
      BY <2>1 DEF AtHome, RecordsAreHome, Suspended
  <1>12. ASSUME NEW c \in Conversations, Switch(c) PROVE AtHome'
    BY <1>12 DEF Settled, Switch, Idle, AtHome, RecordsAreHome, Suspended
  <1>13. CASE Retire
    <2>1. attempt.at = "idle" /\ UNCHANGED <<attempt, record, conv, home>>
      BY <1>13 DEF Retire, Idle
    <2>2. ctx'.asked = ctx.asked
      BY <1>13, <1>t, <2>1, RestoredTypes DEF Retire, CInv, Synced
    <2> QED
      BY <2>1, <2>2 DEF AtHome, RecordsAreHome, Suspended
  <1>14. CASE UNCHANGED vars
    BY <1>14 DEF vars, AtHome, RecordsAreHome, Suspended
  <1> QED
    BY <1>1, <1>2, <1>3, <1>4, <1>6, <1>7, <1>8, <1>9, <1>10, <1>11, <1>12, <1>13,
       <1>14 DEF Next, Work

-----------------------------------------------------------------------------
(* A suspension that was cancelled is not there again, in whatever order   *)
(* attempts, crashes and retirements come (cancel_pending).                *)
Attempted ==
    attempt.at # "idle" => attempt.req \in used /\ attempt.req \notin cancelled

BInv ==
    /\ TypeOK
    /\ Attempted
    /\ Submitted
    /\ CancelledStaysCancelled

LEMMA InitCancelled == Init => BInv
  BY InitTurns DEF IInv, BInv, Underway, Attempted

LEMMA CancelledStep == BInv /\ [Next]_vars => BInv'
  <1> SUFFICES ASSUME BInv, [Next]_vars PROVE BInv'
    OBVIOUS
  <1>t. TypeOK /\ TypeOK'
    BY TypeStep DEF BInv
  <1> USE AttemptFacts
  <1>1. ASSUME NEW r \in Requests, Start(r) PROVE BInv'
    <2>1. /\ attempt'.req = r
          /\ r \notin used
          /\ used' = used \cup {r}
          /\ UNCHANGED <<ctx, snapshot, cancelled>>
      BY <1>1 DEF Start
    <2> QED
      BY <1>t, <2>1 DEF BInv, Attempted, Submitted, CancelledStaysCancelled
  <1>2. CASE BeginTurn \/ Resume
    <2>1. /\ attempt.at # "idle"
          /\ attempt'.req = attempt.req
          /\ ctx'.asked = ctx.asked
          /\ UNCHANGED <<snapshot, used, cancelled>>
      BY <1>2, <1>t DEF BeginTurn, Resume, TypeOK, Context, Attempt
    <2> QED
      BY <1>t, <2>1 DEF BInv, Attempted, Submitted, CancelledStaysCancelled
  <1>3. CASE ResumeConflict \/ Raise
    <2>1. attempt' = NoAttempt /\ UNCHANGED <<snapshot, used, cancelled>>
      BY <1>3 DEF ResumeConflict, Raise
    <2>2. ctx'.asked = ctx.asked
      BY <1>3, <1>t DEF ResumeConflict, Raise, TypeOK, Context
    <2> QED
      BY <1>t, <2>1, <2>2 DEF BInv, Attempted, Submitted, CancelledStaysCancelled
  <1>4. CASE Suspend \/ Answer \/ Execute
    <2>1. PICK status \in Terminal \cup {"awaiting"} :
             attempt.at = "working" /\ Returns(status)
      BY <1>4 DEF Suspend, Answer, Execute, Terminal
    <2>2. /\ attempt'.req = attempt.req
          /\ UNCHANGED <<snapshot, used, cancelled>>
      BY <1>t, <2>1, ReturnsTypes
    <2>3. ctx'.asked \in {NoTurn, ctx.asked, attempt.req}
      BY <1>4, <1>t DEF Suspend, Answer, Execute, TypeOK, Context
    <2> QED
      BY <1>t, <2>1, <2>2, <2>3 DEF BInv, Attempted, Submitted, CancelledStaysCancelled
  <1>5. CASE Persist
    <2>1. /\ attempt' = NoAttempt
          /\ snapshot'.asked \in {ctx.asked, NoTurn}
          /\ UNCHANGED <<ctx, used, cancelled>>
      BY <1>5 DEF Persist, Blank
    <2> QED
      BY <1>t, <2>1 DEF BInv, Attempted, Submitted, CancelledStaysCancelled
  <1>6. CASE Poll
    <2>1. /\ attempt.at # "idle"
          /\ attempt'.req = attempt.req
          /\ UNCHANGED <<ctx, snapshot, used, cancelled>>
      BY <1>6, <1>t DEF Poll, Idle, Attempt
    <2> QED
      BY <1>t, <2>1 DEF BInv, Attempted, Submitted, CancelledStaysCancelled
  <1>7. CASE CancelPending
    <2>1. /\ attempt.at = "idle"
          /\ attempt' = attempt
          /\ used' = used
          /\ ctx'.asked = NoTurn
          /\ snapshot'.asked = NoTurn
      BY <1>7, <1>t DEF CancelPending, Idle, TypeOK, Context, Blank
    <2>2. cancelled' \subseteq used
      BY <1>7 DEF CancelPending, BInv, Submitted, Suspended
    <2> QED
      BY <1>t, <2>1, <2>2 DEF BInv, Attempted, Submitted, CancelledStaysCancelled
  <1>8. ASSUME NEW c \in Conversations, Switch(c) PROVE BInv'
    BY <1>8, <1>t DEF Switch, BInv, Attempted, Submitted, CancelledStaysCancelled
  <1>9. CASE Retire \/ Crash
    <2>1. /\ attempt'.at = "idle"
          /\ ctx' = Restored
          /\ UNCHANGED <<snapshot, used, cancelled>>
      BY <1>9, <1>t DEF Retire, Crash, Idle, NoAttempt
    <2>2. ctx'.asked = snapshot.asked
      BY <1>t, <2>1, RestoredTypes
    <2> QED
      BY <1>t, <2>1, <2>2 DEF BInv, Attempted, Submitted, CancelledStaysCancelled
  <1>10. CASE UNCHANGED vars
    BY <1>10, <1>t DEF vars, BInv, Attempted, Submitted, CancelledStaysCancelled
  <1> QED
    BY <1>1, <1>2, <1>3, <1>4, <1>5, <1>6, <1>7, <1>8, <1>9, <1>10 DEF Next, Work

(* A cancelled suspension is gone from memory and from disk, whatever      *)
(* crashes and is rebuilt later (cancel_pending).                          *)
THEOREM CancellationLasts == Spec => []CancelledStaysCancelled
  <1>1. BInv => CancelledStaysCancelled
    BY DEF BInv
  <1> QED
    BY <1>1, InitCancelled, CancelledStep, PTL DEF Spec

(* What holds as long as no direct action is sent to a suspended channel,  *)
(* as long as nothing raises or crashes either, and as long as the channel *)
(* is not switched while suspended.                                        *)
QInv ==
    /\ Polite => IInv
    /\ Calm => CInv
    /\ Settled => AtHome

LEMMA InitQuiet == Init => QInv
  <1> SUFFICES ASSUME Init PROVE QInv
    OBVIOUS
  <1>1. RecordsAreHome
    BY DEF Init, RecordsAreHome, NoRecord
  <1>2. ~Suspended /\ attempt.at = "idle"
    BY DEF Init, Suspended, Blank, NoAttempt
  <1> QED
    BY <1>1, <1>2, InitTurns, InitCalm DEF QInv, AtHome

LEMMA QuietStep == QInv /\ [Next]_vars => QInv'
  <1> SUFFICES ASSUME QInv, [Next]_vars PROVE QInv'
    OBVIOUS
  <1>1. /\ Polite' => Polite
        /\ Calm' => Calm
        /\ Settled' => Settled /\ Calm
    BY PastGrows DEF Polite, Calm, Settled
  <1> QED
    BY <1>1, TurnStep, CalmStep, HomeStep DEF QInv

(* Errors, crashes and eviction notwithstanding, the turn that an answer   *)
(* continues is the one that asked, with its accumulator                   *)
(* (serialize_state, _apply_turn_accumulator, _begin_turn).                *)
THEOREM ResumeIsFaithful == Spec => []ResumesItsOwnTurn
  <1>1. QInv => ResumesItsOwnTurn
    BY DEF QInv, Polite, IInv, ResumesItsOwnTurn
  <1> QED
    BY <1>1, InitQuiet, QuietStep, PTL DEF Spec

(* A poll that reads the key across threads never reports another turn's   *)
(* (resolve_logical_turn_key, the pre_turn_key snapshot).                  *)
THEOREM PollsNeverGuess == Spec => []NeverGuesses
  <1>1. QInv => NeverGuesses
    BY DEF QInv, Polite, IInv, NeverGuesses
  <1> QED
    BY <1>1, InitQuiet, QuietStep, PTL DEF Spec

(* Eviction and rehydration never strand a suspended turn: when nothing    *)
(* raises or crashes its trajectory is there (_resume_agent_message).      *)
THEOREM SuspensionsAreResumable == Spec => []SuspendedCanBeResumed
  <1>1. CInv => CanBeResumed
    BY DEF CInv, Resumable, CanBeResumed, Idle
  <1>2. QInv => SuspendedCanBeResumed
    BY <1>1 DEF QInv, SuspendedCanBeResumed
  <1> QED
    BY <1>2, InitQuiet, QuietStep, PTL DEF Spec

(* When nothing raises or crashes, a final answer is on record by the time *)
(* the work has returned (_run_turn, upsert_turn_row).                     *)
THEOREM RecordsAreComplete == Spec => []AnswersAreRecorded
  <1>1. QInv => AnswersAreRecorded
    BY DEF QInv, CInv, AnswersAreRecorded
  <1> QED
    BY <1>1, InitQuiet, QuietStep, PTL DEF Spec

(* On a channel that is not switched while suspended, a record lies in the *)
(* conversation its turn began in (new_conversation under the lock).       *)
THEOREM RecordsStayHome == Spec => []RecordedWhereItBegan
  <1>1. QInv => RecordedWhereItBegan
    BY DEF QInv, AtHome, Settled, RecordedWhereItBegan
  <1> QED
    BY <1>1, InitQuiet, QuietStep, PTL DEF Spec

(* The three together: a turn to which nothing happened is whole when the  *)
(* session is idle, live or rebuilt (_resume_agent_message, _run_turn).    *)
THEOREM TurnsAreWhole == Spec => []CalmTurnsAreWhole
  <1>1. SuspendedCanBeResumed /\ AnswersAreRecorded /\ RecordedWhereItBegan => CalmTurnsAreWhole
    BY DEF CalmTurnsAreWhole
  <1> QED
    BY <1>1, SuspensionsAreResumable, RecordsAreComplete, RecordsStayHome, PTL
=============================================================================
