---------------------------- MODULE LogicalTurn ----------------------------
(***************************************************************************)
(* The logical turn of one channel, from the request that begins it over   *)
(* any number of suspensions on ask_user to its one record                 *)
(* (src/fastworkflow/workflow_execution_context.py, _run_turn in           *)
(* run_fastapi_mcp/turns.py, the turns table of observability/store.py).   *)
(*                                                                         *)
(* A request is either a message to the agent, a slash command or a direct *)
(* action.  A turn is named by the request that begins it: _begin_turn     *)
(* mints its key then.  One execution attempt at a time runs on a channel  *)
(* (TurnRegistry); it runs on a worker thread, so a poll, on the event     *)
(* loop, sees it half done.  The session may be retired between attempts   *)
(* (SessionCache); what it rested on is then read back from the snapshot.  *)
(***************************************************************************)
CONSTANTS
    Messages, Slashes, Actions,  \* the requests
    Conversations,
    NoTurn,
    NoConversation

Requests == Messages \cup Slashes \cup Actions

ASSUME RequestsAssumption ==
    /\ NoTurn \notin Requests
    /\ Messages \cap (Slashes \cup Actions) = {}
    /\ Slashes \cap Actions = {}
ASSUME ConversationsAssumption == NoConversation \notin Conversations /\ Conversations # {}

VARIABLES
    ctx,        \* the turn state of the live context
    snapshot,   \* the pending-state blob: a context, blank if there is none
    record,     \* the row of each turn in the turns table
    conv,       \* the conversation the context is bound to
    attempt,    \* the execution attempt in progress
    used,       \* the requests submitted so far
    home,       \* history: the conversation each turn began in
    cancelled,  \* history: the turns whose suspension was cancelled
    past        \* history: what has happened besides the ordinary

vars == <<ctx, snapshot, record, conv, attempt, used, home, cancelled, past>>

Context == [turn    : Requests \cup {NoTurn},   \* _turn_key
            outputs : SUBSET Requests,          \* whose work _turn_outputs holds
            asked   : Requests \cup {NoTurn},   \* _suspended_user_message, if awaiting_user
            react   : Requests \cup {NoTurn},   \* the turn of the suspended trajectory
            open    : BOOLEAN]                  \* a command in parameter extraction

Blank == [turn |-> NoTurn, outputs |-> {}, asked |-> NoTurn, react |-> NoTurn,
          open |-> FALSE]

Record == [status : {"none", "awaiting", "completed", "failed"},
           answer : Requests \cup {NoTurn},     \* the attempt that wrote it
           conv   : Conversations \cup {NoConversation}]
NoRecord == [status |-> "none", answer |-> NoTurn, conv |-> NoConversation]
Terminal == {"completed", "failed"}

(* Work that raised or a process that died; a direct action, and a switch   *)
(* of conversation, while the channel was suspended.                       *)
Events == {"fault", "act", "switch"}

NoAttempt == [at |-> "idle", req |-> NoTurn, pre |-> NoTurn, logical |-> NoTurn,
              status |-> "none"]
Attempt == [at      : {"started", "working", "returned"},
            req     : Requests,
            pre     : Requests \cup {NoTurn},   \* pre_turn_key
            logical : Requests \cup {NoTurn},   \* logical_turn_key
            status  : {"none", "awaiting", "completed", "failed"}]

TypeOK ==
    /\ ctx \in Context
    /\ snapshot \in Context
    /\ record \in [Requests -> Record]
    /\ conv \in Conversations
    /\ attempt \in Attempt \cup {NoAttempt}
    /\ used \subseteq Requests
    /\ home \in [Requests -> Conversations \cup {NoConversation}]
    /\ cancelled \subseteq Requests
    /\ past \subseteq Events

Init ==
    /\ ctx = Blank
    /\ snapshot = Blank
    /\ record = [r \in Requests |-> NoRecord]
    /\ conv \in Conversations
    /\ attempt = NoAttempt
    /\ used = {}
    /\ home = [r \in Requests |-> NoConversation]
    /\ cancelled = {}
    /\ past = {}

-----------------------------------------------------------------------------
Idle == attempt.at = "idle"
Suspended == ctx.asked # NoTurn

(* A message or a slash command during suspension continues the turn. *)
Continues(r) == r \notin Actions /\ Suspended

(* upsert_turn_row: a terminal row is never written again. *)
Upsert(k, status) ==
    record' = IF record[k].status \in Terminal THEN record
              ELSE [record EXCEPT ![k] = [status |-> status, answer |-> attempt.req,
                                          conv |-> conv]]

(* The attempt has the runtime lock.  A resume continues the turn that is  *)
(* there, so its key is known.                                             *)
Start(r) ==
    /\ Idle
    /\ r \notin used
    /\ past' = IF Suspended /\ r \in Actions THEN past \cup {"act"} ELSE past
    /\ attempt' = [at |-> "started", req |-> r, pre |-> ctx.turn,
                   logical |-> IF Suspended THEN ctx.turn ELSE NoTurn,
                   status |-> "none"]
    /\ used' = used \cup {r}
    /\ UNCHANGED <<ctx, snapshot, record, conv, home, cancelled>>

(* _begin_turn, and the work begins. *)
BeginTurn ==
    LET r == attempt.req IN
    /\ attempt.at = "started"
    /\ ~Continues(r)
    /\ ctx' = [ctx EXCEPT !.turn = r, !.outputs = {r}]
    /\ home' = [home EXCEPT ![r] = conv]
    /\ attempt' = [attempt EXCEPT !.at = "working"]
    /\ UNCHANGED <<snapshot, record, conv, used, cancelled, past>>

(* Deviation: a message during suspension begins a turn of its own. *)
ResumeAnew ==
    LET r == attempt.req IN
    /\ attempt.at = "started"
    /\ Continues(r)
    /\ r \in Messages => ctx.react # NoTurn
    /\ ctx' = [ctx EXCEPT !.turn = r, !.outputs = {r},
                          !.react = IF r \in Messages THEN NoTurn ELSE @]
    /\ attempt' = [attempt EXCEPT !.at = "working"]
    /\ UNCHANGED <<snapshot, record, conv, used, home, cancelled, past>>

(* The turn goes on.  A message is the answer and takes up the suspended   *)
(* trajectory, which is consumed at once; a slash command lets it be.      *)
Resume ==
    LET r == attempt.req IN
    /\ attempt.at = "started"
    /\ Continues(r)
    /\ r \in Messages => ctx.react # NoTurn
    /\ ctx' = [ctx EXCEPT !.outputs = @ \cup {r},
                          !.react = IF r \in Messages THEN NoTurn ELSE @]
    /\ attempt' = [attempt EXCEPT !.at = "working"]
    /\ UNCHANGED <<snapshot, record, conv, used, home, cancelled, past>>

(* NoSuspendedAgentStateError: there is no trajectory to take up (409). *)
ResumeConflict ==
    /\ attempt.at = "started"
    /\ attempt.req \in Messages
    /\ Suspended
    /\ ctx.react = NoTurn
    /\ Upsert(ctx.turn, "failed")
    /\ attempt' = NoAttempt
    /\ UNCHANGED <<ctx, snapshot, conv, used, home, cancelled, past>>

(* The work raised: a message or a slash command leaves a failed record, a *)
(* direct action none.  Nothing is persisted and the context stays as the  *)
(* work left it, a command it ended or opened included.                    *)
Raise ==
    /\ attempt.at = "working"
    /\ past' = past \cup {"fault"}
    /\ IF attempt.req \in Actions THEN UNCHANGED record ELSE Upsert(ctx.turn, "failed")
    /\ attempt' = NoAttempt
    /\ \E open \in BOOLEAN : ctx' = [ctx EXCEPT !.open = open]
    /\ UNCHANGED <<snapshot, conv, used, home, cancelled>>

Returns(status) ==
    /\ attempt' = [attempt EXCEPT !.at = "returned", !.logical = ctx.turn,
                                  !.status = status]
    /\ Upsert(ctx.turn, status)
    /\ UNCHANGED <<snapshot, conv, used, home, cancelled, past>>

(* The agent asks the user. *)
Suspend ==
    /\ attempt.at = "working"
    /\ attempt.req \in Messages
    /\ \E open \in BOOLEAN :
          ctx' = [ctx EXCEPT !.asked = IF Suspended THEN @ ELSE attempt.req,
                             !.react = ctx.turn, !.open = open]
    /\ Returns("awaiting")

(* The agent is done or out of iterations, or a command of the message or  *)
(* slash command cancelled itself: _reset_agent_suspension either way.     *)
Answer ==
    /\ attempt.at = "working"
    /\ attempt.req \notin Actions
    /\ \E open \in BOOLEAN :
          ctx' = [ctx EXCEPT !.asked = NoTurn, !.react = NoTurn, !.open = open]
    /\ \/ Returns("completed")
       \/ attempt.req \in Messages /\ Returns("failed")

(* A slash command or an action ran; a suspension stays as it is. *)
Execute ==
    /\ attempt.at = "working"
    /\ attempt.req \notin Messages
    /\ \E open \in BOOLEAN : ctx' = [ctx EXCEPT !.open = open]
    /\ Returns(IF Suspended THEN "awaiting" ELSE "completed")

(* Deviation: what a finished turn had left on disk stays there. *)
PersistOnly ==
    /\ attempt.at = "returned"
    /\ snapshot' = IF Suspended \/ ctx.open THEN ctx ELSE snapshot
    /\ attempt' = NoAttempt
    /\ UNCHANGED <<ctx, record, conv, used, home, cancelled, past>>

(* _persist_after_turn, and the execution is done. *)
Persist ==
    /\ attempt.at = "returned"
    /\ snapshot' = IF Suspended \/ ctx.open THEN ctx ELSE Blank
    /\ attempt' = NoAttempt
    /\ UNCHANGED <<ctx, record, conv, used, home, cancelled, past>>

(* Deviation: whatever key the context has is the attempt's. *)
PollEagerly ==
    /\ ~Idle
    /\ attempt.logical = NoTurn
    /\ ctx.turn # NoTurn
    /\ attempt' = [attempt EXCEPT !.logical = ctx.turn]
    /\ UNCHANGED <<ctx, snapshot, record, conv, used, home, cancelled, past>>

(* resolve_logical_turn_key, by a poll of the running execution. *)
Poll ==
    /\ ~Idle
    /\ attempt.logical = NoTurn
    /\ ctx.turn \notin {NoTurn, attempt.pre}
    /\ attempt' = [attempt EXCEPT !.logical = ctx.turn]
    /\ UNCHANGED <<ctx, snapshot, record, conv, used, home, cancelled, past>>

-----------------------------------------------------------------------------
(* Between attempts. *)

(* Deviation: the blob of a cancelled suspension is left on disk. *)
CancelInMemory ==
    /\ Idle
    /\ Suspended
    /\ ctx' = [ctx EXCEPT !.asked = NoTurn, !.react = NoTurn]
    /\ cancelled' = cancelled \cup {ctx.asked}
    /\ UNCHANGED <<snapshot, record, conv, attempt, used, home, past>>

(* /cancel_pending drops the blob, suspended or not; no record is written. *)
CancelPending ==
    /\ Idle
    /\ ctx' = [ctx EXCEPT !.asked = NoTurn,
                          !.react = IF Suspended THEN NoTurn ELSE @]
    /\ cancelled' = IF Suspended THEN cancelled \cup {ctx.asked} ELSE cancelled
    /\ snapshot' = Blank
    /\ UNCHANGED <<record, conv, attempt, used, home, past>>

(* /new_conversation and /activate_conversation rebind the context. *)
Switch(c) ==
    /\ Idle
    /\ c # conv
    /\ conv' = c
    /\ past' = IF Suspended THEN past \cup {"switch"} ELSE past
    /\ UNCHANGED <<ctx, snapshot, record, attempt, used, home, cancelled>>

(* apply_serialized_state, on a new context: a trajectory is restored only *)
(* into a suspended one.                                                   *)
Restored == [snapshot EXCEPT !.react = IF snapshot.asked # NoTurn THEN @ ELSE NoTurn]

(* The session is retired and rebuilt from its blob: one that rests on     *)
(* anything is retired only if there is a blob.                            *)
Retire ==
    /\ Idle
    /\ Suspended \/ ctx.open => snapshot # Blank
    /\ ctx' = Restored
    /\ UNCHANGED <<snapshot, record, conv, attempt, used, home, cancelled, past>>

(* The process dies, and the next one binds the conversation it finds. *)
Crash ==
    /\ ctx' = Restored
    /\ past' = past \cup {"fault"}
    /\ attempt' = NoAttempt
    /\ \E c \in Conversations : conv' = c
    /\ UNCHANGED <<snapshot, record, used, home, cancelled>>

-----------------------------------------------------------------------------
Work == BeginTurn \/ Resume \/ ResumeConflict \/ Raise \/ Suspend \/ Answer \/ Execute

Next ==
    \/ \E r \in Requests : Start(r)
    \/ Work
    \/ Persist
    \/ Poll
    \/ CancelPending
    \/ \E c \in Conversations : Switch(c)
    \/ Retire
    \/ Crash

Spec == Init /\ [][Next]_vars

-----------------------------------------------------------------------------
(* Correctness. *)

(* "One logical turn = one key = one record, across any number of          *)
(* suspensions" (docs/turn_result_design_final.md:256): the turn an answer *)
(* will continue, here or in the process that reads the blob, is the one   *)
(* that asked, with everything it did before it asked.                     *)
Owned(c) == c.asked # NoTurn => c.turn = c.asked /\ c.asked \in c.outputs
AnswersGoToTheAsker == Owned(ctx) /\ Owned(snapshot)
ResumesItsOwnTurn == "act" \notin past => AnswersGoToTheAsker

(* "Never guesses" (turns.py:1065): the logical key an execution reports   *)
(* is that of the turn it is running.                                      *)
ReportsItsOwnKey == attempt.logical # NoTurn => attempt.logical = ctx.turn
NeverGuesses == "act" \notin past => ReportsItsOwnKey

(* A suspension that was cancelled does not come back, from the live       *)
(* session or from disk (__main__.py:2069-2086).                           *)
CancelledStaysCancelled ==
    \A c \in {ctx, snapshot} : c.asked # NoTurn => c.asked \notin cancelled

(* A turn that waits for its user can be resumed: the trajectory it needs  *)
(* is there.  Otherwise every message to the channel is a 409              *)
(* (workflow_execution_context.py:2820-2829).                              *)
Calm == past \cap {"fault", "act"} = {}
CanBeResumed == Idle /\ Suspended => ctx.react = ctx.asked
SuspendedCanBeResumed == Calm => CanBeResumed

(* "it is already durable and a poller can never see `done' with unsaved   *)
(* state" (turns.py:706-709): when the work has returned a final answer,   *)
(* the record holds that answer.                                           *)
AnswerIsRecorded ==
    attempt.at = "returned" /\ attempt.status \in Terminal =>
        /\ record[ctx.turn].status = attempt.status
        /\ record[ctx.turn].answer = attempt.req
AnswersAreRecorded == Calm => AnswerIsRecorded

(* "/new_conversation, /activate_conversation auto-cancel a suspended turn *)
(* (recorded under its original conversation)"                             *)
(* (docs/turn_result_design_final.md:269): a turn's record lies in the     *)
(* conversation the turn began in.                                         *)
RecordsAreHome ==
    \A k \in Requests : record[k].status # "none" => record[k].conv = home[k]
RecordedWhereItBegan == Calm /\ "switch" \notin past => RecordsAreHome

(* So without errors, crashes and direct actions a turn is whole: it can go *)
(* on, its answer is on record, and the record is where the turn began.    *)
CalmTurnsAreWhole == SuspendedCanBeResumed /\ AnswersAreRecorded /\ RecordedWhereItBegan
=============================================================================
