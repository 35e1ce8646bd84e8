------------------------------ MODULE SubtaskRun ------------------------------
(* The work of one agent turn (workflow_execution_context.py, utils/react.py, *)
(* observation_offloading): the request is split into sub-tasks, which run    *)
(* one after another; a run that reaches the step cap is handed off to a      *)
(* fresh executor; a sub-task that is a skill call runs the skill's phases,   *)
(* some of them once per item.  Every command's output is archived under the  *)
(* number of its step, and may then be replaced by a label.  A run may ask    *)
(* the user: the turn is suspended, and goes on in this process or in one     *)
(* that read its blob (LogicalTurn has the turn around it; a turn that dies   *)
(* without a blob is gone).  What planner, agent and skills answer is open.   *)
EXTENDS Integers, Sequences, SequencesExt, FiniteSetsExt

CONSTANTS
    Requests,       \* what a request may come to: its sub-tasks, the skill calls they may be
                    \* (sequences of phases), how often the agent asks (a bound), its faults
    Cap,            \* max_iters, the steps of one executor run
    MaxHandoffs,    \* MAX_HANDOFFS, continuations of one sub-task
    MaxItems,       \* bound on the items of a fan-out phase
    Recent,         \* RECENT_OBSERVATIONS_PROTECTED
    MaxRestarts     \* bound of a behaviour

Phase == [over : {"one", "each", "until"}, bare : BOOLEAN, optional : BOOLEAN]

ASSUME SubtaskAssumption ==
    /\ \A r \in Requests :
          /\ r.subtasks \in Nat \ {0} /\ r.calls \subseteq Seq(Phase) \ {<<>>}
          /\ r.questions \in Nat /\ r.faults \subseteq {"crash", "redeploy"}
    /\ Cap \in Nat \ {0} /\ MaxHandoffs \in Nat /\ MaxItems \in Nat /\ Recent \in Nat
    /\ MaxRestarts \in Nat

VARIABLES
    at,       \* "idle", "plan", "call", "run", "suspended" or "done"
    ctx,      \* the turn's fields that its blob keeps
    mem,      \* the ones it does not keep
    agent,    \* the executor
    blob,     \* what the process that takes the turn over finds
    archive,  \* the output archived under each step number
    work,     \* history of the sub-task and of the run at work
    past      \* history of the turn: outputs told apart, questions, faults

vars == <<at, ctx, mem, agent, blob, archive, work, past>>

None == "none"
Unset == -1
Empty == [i \in {} |-> None]
NoStash == [trajectory |-> Empty, idx |-> Unset]
NoCall == [phases |-> <<>>, index |-> 1, items |-> Unset, item |-> 0, first |-> 0,
           until |-> FALSE, answers |-> <<>>, last |-> <<>>, outputs |-> {}, notes |-> <<>>,
           start |-> [answers |-> 0, last |-> <<>>, notes |-> 0]]
NoRequest == [subtasks |-> 0, calls |-> {}, questions |-> 0, faults |-> {}]
NoTurn == [origins |-> <<>>, index |-> 1, answers |-> <<>>, exhausted |-> FALSE, next |-> 0,
           call |-> NoCall]
Forgotten == [floors |-> Empty, live |-> FALSE, changed |-> FALSE, floor |-> Unset, final |-> TRUE]
NewAgent == [trajectory |-> Empty, idx |-> 0, iteration |-> 0, disabled |-> None,
             stash |-> NoStash]
NoWork == [origin |-> 0, first |-> 0, said |-> {}, start |-> 0, output |-> 0,
           ran |-> {}, dropped |-> {}]
NoBlob == [ctx |-> NoTurn, agent |-> NewAgent, work |-> NoWork]

Call == ctx.call
InCall == Call.phases # <<>>
Here == Call.phases[Call.index]
Origin == ctx.origins[ctx.index]
LastSubtask == ctx.index >= Len(ctx.origins)
Calm == past.faults = {}

(* Deviation: the steps of a run are counted.                                 *)
AfterByCount(trajectory) ==
    IF DOMAIN trajectory = {} THEN ctx.next ELSE Cardinality(DOMAIN trajectory)

(* The step number after a run's trajectory, if it left one.                  *)
After(trajectory) ==
    IF DOMAIN trajectory = {} THEN ctx.next ELSE Max(DOMAIN trajectory) + 1

----------------------------------------------------------------------------
(* _run_agent: a new turn starts from nothing but the executor it inherits.   *)
Begin(request) ==
    /\ at = "idle" /\ at' = "plan"
    /\ ctx' = [NoTurn EXCEPT !.origins = [i \in 1..request.subtasks |-> i]]
    /\ mem' = [mem EXCEPT !.floors = Empty, !.live = FALSE]
    /\ agent' = [agent EXCEPT !.disabled = None]
    /\ past' = [past EXCEPT !.request = request]
    /\ UNCHANGED <<blob, archive, work>>

(* The head of the loop over the sub-tasks.  A continuation keeps what the    *)
(* user's replies left of the tools, and the first step its evidence counts   *)
(* from.                                                                      *)
Continuation == ctx.index > 1 /\ ctx.origins[ctx.index - 1] = Origin

Floors ==
    [o \in DOMAIN mem.floors \cup {Origin} |->
        IF o \in DOMAIN mem.floors THEN mem.floors[o] ELSE ctx.next]

(* Deviation: every run gets all its tools.                                   *)
EnabledAnew == [agent EXCEPT !.disabled = None]

Enabled == IF Continuation THEN agent ELSE [agent EXCEPT !.disabled = None]

(* forward: a fresh trajectory, numbered from where the last one ended.       *)
Forwarded(a) ==
    [a EXCEPT !.trajectory = Empty, !.idx = ctx.next, !.iteration = 0, !.stash = NoStash]

Worked ==
    IF work.origin = Origin THEN work
    ELSE [NoWork EXCEPT !.origin = Origin, !.first = ctx.next]
Started(w) == [w EXCEPT !.start = ctx.next, !.output = past.outputs + 1]
NewOutputs == past' = [past EXCEPT !.outputs = @ + 1]

TakeText ==
    /\ at = "plan" /\ ctx.index \in DOMAIN ctx.origins /\ at' = "run"
    /\ agent' = Forwarded(Enabled)
    /\ LET f == Floors
       IN mem' = [mem EXCEPT !.floors = f, !.floor = f[Origin], !.final = LastSubtask]
    /\ work' = Started(Worked) /\ NewOutputs
    /\ UNCHANGED <<ctx, blob, archive>>

(* Only a sub-task's own text is planned as a call, never a continuation's.   *)
TakeCall(phases) ==
    /\ at = "plan" /\ ctx.index \in DOMAIN ctx.origins /\ ~Continuation /\ at' = "call"
    /\ agent' = Enabled
    /\ mem' = [mem EXCEPT !.floors = Floors, !.live = TRUE]
    /\ ctx' = [ctx EXCEPT !.call = [NoCall EXCEPT !.phases = phases, !.first = ctx.next]]
    /\ work' = Worked
    /\ UNCHANGED <<blob, archive, past>>

(* Deviation: a continuation is queued behind the other sub-tasks.            *)
HandedOffLast(c) ==
    LET k == c.index - 1
        runs == {i \in DOMAIN c.origins : c.origins[i] = c.origins[k]}
    IN IF Cardinality(runs) > MaxHandoffs THEN [c EXCEPT !.exhausted = TRUE]
       ELSE [c EXCEPT !.origins = Append(@, @[k])]

(* A capped run is handed off, and its continuation is the next entry.        *)
HandedOff(c) ==
    LET k == c.index - 1
        runs == {i \in DOMAIN c.origins : c.origins[i] = c.origins[k]}
    IN IF Cardinality(runs) > MaxHandoffs THEN [c EXCEPT !.exhausted = TRUE]
       ELSE [c EXCEPT !.origins = InsertAt(@, c.index, @[k])]

(* _record_subtask_answer, and on to the next entry.                          *)
Answered(capped) ==
    LET told == [ctx EXCEPT !.answers = Append(@, [of |-> work.origin, capped |-> capped]),
                            !.next = After(agent'.trajectory), !.call = NoCall,
                            !.index = @ + 1]
    IN IF capped THEN HandedOff(told) ELSE told

(* The turn is over when its list is.                                         *)
Finish ==
    /\ at = "plan" /\ ctx.index > Len(ctx.origins) /\ at' = "done"
    /\ ctx' = NoTurn /\ mem' = [mem EXCEPT !.floors = Empty, !.live = FALSE]
    /\ agent' = [agent EXCEPT !.disabled = None, !.stash = NoStash]
    /\ blob' = NoBlob
    /\ UNCHANGED <<archive, work, past>>

----------------------------------------------------------------------------
(* The phases of a call (_run_skill_phases).                                  *)
Fans(c) == c.phases[c.index].over # "one"
Starting == ~Fans(Call) \/ Call.items = Unset
AtPhase == at = "call" /\ Call.index \in DOMAIN Call.phases

(* What an optional phase that fails gives back.                              *)
Entered(c) == [c EXCEPT !.start = [answers |-> Len(c.answers), last |-> c.last,
                                   notes |-> Len(c.notes)]]
Passed(c) == [c EXCEPT !.items = Unset, !.item = 0, !.until = FALSE, !.index = @ + 1]

(* Deviation: only the last answer of the phase goes.                         *)
DroppedOne(c) ==
    [Passed(c) EXCEPT !.answers = SubSeq(@, 1, IF Len(@) > c.start.answers THEN Len(@) - 1 ELSE Len(@)),
                      !.last = c.start.last,
                      !.notes = SubSeq(@, 1, c.start.notes), !.outputs = @ \ {c.index}]

Dropped(c) ==
    [Passed(c) EXCEPT !.answers = SubSeq(@, 1, c.start.answers), !.last = c.start.last,
                      !.notes = SubSeq(@, 1, c.start.notes), !.outputs = @ \ {c.index}]

(* _phase_failure of the phase of c: an optional one counts as not run, the   *)
(* others end the call.                                                       *)
Failed(c, next) ==
    /\ work' = [work EXCEPT !.dropped = @ \cup {c.index}]
    /\ IF c.phases[c.index].optional
       THEN ctx' = [ctx EXCEPT !.call = Dropped(c), !.next = next]
            /\ at' = "call" /\ UNCHANGED mem
       ELSE ctx' = Answered(FALSE) /\ at' = "plan" /\ mem' = [mem EXCEPT !.live = FALSE]

(* Its condition does not hold.                                               *)
Skip ==
    /\ AtPhase /\ Starting
    /\ ctx' = [ctx EXCEPT !.call = [Entered(Call) EXCEPT !.index = @ + 1]]
    /\ UNCHANGED <<at, mem, agent, blob, archive, work, past>>

(* The items of a fan-out, and a note if there were more.                     *)
FanOut(n, cut) ==
    /\ AtPhase /\ Fans(Call) /\ Call.items = Unset
    /\ ctx' = [ctx EXCEPT !.call =
           [Entered(Call) EXCEPT !.last = <<>>, !.items = n, !.item = 0, !.until = FALSE,
               !.outputs = @ \cup {Call.index},
               !.notes = IF cut /\ Here.over = "each" THEN Append(@, Call.index) ELSE @]]
    /\ UNCHANGED <<at, mem, agent, blob, archive, work, past>>

(* No item is left, or the stop condition is met, which may need a note.      *)
FannedOut(noted) ==
    /\ AtPhase /\ Fans(Call) /\ Call.items # Unset
    /\ Call.item >= Call.items \/ Call.until
    /\ ctx' = [ctx EXCEPT !.call = Passed([Call EXCEPT !.notes =
                   IF noted /\ Here.over = "until" THEN Append(@, Call.index) ELSE @])]
    /\ UNCHANGED <<at, mem, agent, blob, archive, work, past>>

Runs == AtPhase /\ (Fans(Call) => Call.items # Unset /\ Call.item < Call.items /\ ~Call.until)
Chosen == IF Fans(Call) THEN [Call EXCEPT !.first = ctx.next]
          ELSE [Entered(Call) EXCEPT !.last = <<>>, !.first = ctx.next]

(* Its condition, its items or its steps cannot be decided.                   *)
FailEarly ==
    /\ AtPhase /\ (Starting \/ Runs) /\ UNCHANGED agent
    /\ Failed(IF Starting THEN Entered(Call) ELSE Call, ctx.next)
    /\ UNCHANGED <<blob, archive, past>>

(* The finish check of a phase's run; the last run of the turn is "final".    *)
LastOfCall == Call.index = Len(Call.phases) /\ (Fans(Call) => Call.item = Call.items - 1)
Checked(first) ==
    [mem EXCEPT !.floor = first, !.final = LastOfCall /\ LastSubtask, !.live = TRUE]

RunPhase ==
    /\ Runs /\ ~Here.bare /\ at' = "run"
    /\ ctx' = [ctx EXCEPT !.call = Chosen]
    /\ agent' = Forwarded(agent) /\ mem' = Checked(ctx.next)
    /\ work' = Started(work) /\ NewOutputs
    /\ UNCHANGED <<blob, archive>>

(* The answer of the phase's run is there; then its facts, or it fails.       *)
PhaseEnds(c, next) ==
    LET answer == [phase |-> c.index, item |-> c.item]
        told == [c EXCEPT !.answers = Append(@, answer), !.last = Append(@, answer)]
        filled == [told EXCEPT !.outputs = @ \cup {c.index}]
        counted == [work EXCEPT !.ran = @ \cup {answer}]
    IN \/ /\ IF Fans(c)
             THEN \E until \in {FALSE, c.phases[c.index].over = "until"} :
                     ctx' = [ctx EXCEPT !.next = next,
                             !.call = [filled EXCEPT !.item = @ + 1, !.until = until]]
             ELSE ctx' = [ctx EXCEPT !.next = next, !.call = Passed(filled)]
          /\ at' = "call" /\ work' = counted /\ UNCHANGED mem
       \/ Failed(told, next)

(* A phase whose steps name no command is answered without an executor.       *)
AnswerOnly ==
    /\ Runs /\ Here.bare /\ UNCHANGED agent
    /\ PhaseEnds(Chosen, ctx.next)
    /\ UNCHANGED <<blob, archive, past>>

CallDone ==
    /\ at = "call" /\ Call.index > Len(Call.phases) /\ at' = "plan" /\ UNCHANGED agent
    /\ ctx' = Answered(FALSE) /\ mem' = [mem EXCEPT !.live = FALSE]
    /\ UNCHANGED <<blob, archive, work, past>>

----------------------------------------------------------------------------
(* The executor (fastWorkflowReAct).                                          *)
Running == at = "run"
Answering(capped) ==
    IF InCall THEN PhaseEnds(Call, After(agent'.trajectory))
    ELSE /\ ctx' = Answered(capped) /\ at' = "plan" /\ UNCHANGED <<mem, work>>

(* persist: the first output of a step number stays, another is refused.      *)
Archived(i, stored) ==
    IF stored /\ i \notin DOMAIN archive
    THEN [j \in DOMAIN archive \cup {i} |-> IF j = i THEN work.output ELSE archive[j]]
    ELSE archive

Executes(trajectory) == {i \in DOMAIN trajectory : trajectory[i].output # 0}

(* Deviation: an output needs no row to become a label.                       *)
OffloadableAnyway(trajectory) ==
    {i \in Executes(trajectory) :
        /\ ~trajectory[i].label
        /\ Cardinality({j \in Executes(trajectory) : j > i}) >= Recent}

(* compact_trajectory: outputs beyond the recent ones may become labels, if   *)
(* the archive has something under their number.                              *)
Offloadable(trajectory) ==
    {i \in Executes(trajectory) :
        /\ i \in DOMAIN archive' /\ ~trajectory[i].label
        /\ Cardinality({j \in Executes(trajectory) : j > i}) >= Recent}

Labelled(trajectory, labels) ==
    [i \in DOMAIN trajectory |-> [trajectory[i] EXCEPT !.label = @ \/ i \in labels]]

With(entry) ==
    [i \in DOMAIN agent.trajectory \cup {agent.idx} |->
        IF i = agent.idx THEN entry ELSE agent.trajectory[i]]

(* A command; at the cap the run ends without an answer of its own.           *)
Command(stored) ==
    /\ Running /\ agent.disabled # "abort"
    /\ archive' = Archived(agent.idx, stored)
    /\ LET done == With([output |-> work.output, label |-> FALSE])
       IN \E labels \in SUBSET Offloadable(done) :
             agent' = [agent EXCEPT !.trajectory = Labelled(done, labels), !.idx = @ + 1,
                                    !.iteration = @ + 1]
    /\ IF agent'.iteration >= Cap THEN Answering(TRUE)
       ELSE UNCHANGED <<at, ctx, mem, work>>
    /\ UNCHANGED <<blob, past>>

(* The agent finishes, and its answer is written.                             *)
Concludes ==
    /\ Running
    /\ agent' = [agent EXCEPT !.trajectory = With([output |-> 0, label |-> FALSE])]
    /\ Answering(FALSE)
    /\ UNCHANGED <<blob, archive, past>>

(* ask_user: the run is stashed, and the turn's blob written.                 *)
Ask ==
    /\ Running /\ agent.disabled = None /\ past.asked < past.request.questions
    /\ at' = "suspended"
    /\ agent' = [agent EXCEPT !.stash = [trajectory |-> With([output |-> 0, label |-> FALSE]),
                                         idx |-> agent.idx]]
    /\ blob' = [ctx |-> ctx, agent |-> [agent' EXCEPT !.trajectory = Empty, !.idx = 0,
                                                      !.iteration = 0], work |-> work]
    /\ past' = [past EXCEPT !.asked = @ + 1]
    /\ UNCHANGED <<ctx, mem, archive, work>>

(* The reply may stop the asking, or all but finishing; it takes tools away   *)
(* from what an earlier one left, and gives none back (_apply_reply_intent).  *)
Told(reply) ==
    [agent EXCEPT !.disabled = IF reply = "abort" \/ @ = None THEN reply ELSE @]
Heard(reply) == work' = [work EXCEPT !.said = @ \cup ({reply} \ {None})]

(* The new plan that the reply asks for cannot be made: the reply has been    *)
(* taken, and the run stays suspended, in memory only, for another one.       *)
ReplanFails(reply) ==
    /\ at = "suspended" /\ agent' = Told(reply) /\ Heard(reply)
    /\ UNCHANGED <<at, ctx, mem, blob, archive, past>>

Resumable == InCall /\ ~mem.live => ~mem.changed

(* It may come for a run that was suspended in this process or in another;    *)
(* the finish check of a phase is made again, any other is as it was.         *)
Resume(reply) ==
    /\ at = "suspended" /\ Resumable /\ at' = "run"
    /\ agent' = [Told(reply) EXCEPT !.trajectory = agent.stash.trajectory,
                                    !.idx = agent.stash.idx + 1, !.iteration = 0,
                                    !.stash = NoStash]
    /\ mem' = IF InCall THEN Checked(Call.first) ELSE mem
    /\ Heard(reply)
    /\ UNCHANGED <<ctx, blob, archive, past>>

(* The skill plans other phases than when its call began: the call fails.     *)
ResumeFails(reply) ==
    /\ at = "suspended" /\ ~Resumable /\ at' = "plan"
    /\ agent' = Told(reply) /\ ctx' = Answered(FALSE) /\ Heard(reply)
    /\ UNCHANGED <<mem, blob, archive, past>>

(* Another process takes over the suspended turn, as its blob has it: after   *)
(* an orderly stop, or a crash that undoes what was done since; it may have   *)
(* other skills.  The archive stays.                                          *)
Takes(faults) ==
    /\ blob # NoBlob /\ past.restarts < MaxRestarts /\ at' = "suspended"
    /\ ctx' = blob.ctx /\ agent' = blob.agent
    /\ \E redeployed \in SUBSET ({"redeploy"} \cap past.request.faults) :
          /\ mem' = [Forgotten EXCEPT !.changed = redeployed # {}]
          /\ past' = [past EXCEPT !.restarts = @ + 1, !.outputs = @ + 1,
                                  !.faults = @ \cup faults \cup redeployed]
    /\ work' = [blob.work EXCEPT !.output = past.outputs + 1]
    /\ UNCHANGED <<blob, archive>>

Restart == at = "suspended" /\ Takes({})
Crash == at \in {"plan", "call", "run"} /\ "crash" \in past.request.faults /\ Takes({"crash"})

----------------------------------------------------------------------------
Init ==
    /\ at = "idle" /\ ctx = NoTurn /\ mem = Forgotten /\ blob = NoBlob
    /\ \E trajectory \in {Empty, [i \in {0} |-> [output |-> 0, label |-> FALSE]]} :
          agent = [NewAgent EXCEPT !.trajectory = trajectory]
    /\ archive = Empty /\ work = NoWork
    /\ past = [request |-> NoRequest, outputs |-> 0, asked |-> 0, restarts |-> 0,
               faults |-> {}]

Phases == \/ Skip \/ FailEarly \/ RunPhase \/ AnswerOnly \/ CallDone
          \/ \E n \in 0..MaxItems, cut \in BOOLEAN : FanOut(n, cut)
          \/ \E noted \in BOOLEAN : FannedOut(noted)

Replies == {None, "stop", "abort"}

Next ==
    \/ \E request \in Requests : Begin(request)
    \/ TakeText \/ (\E phases \in past.request.calls : TakeCall(phases)) \/ Phases
    \/ (\E stored \in BOOLEAN : Command(stored)) \/ Concludes \/ Ask
    \/ \E reply \in Replies : ReplanFails(reply) \/ Resume(reply) \/ ResumeFails(reply)
    \/ Finish \/ Restart \/ Crash

Spec == Init /\ [][Next]_vars

----------------------------------------------------------------------------
TypeOK ==
    /\ at \in {"idle", "plan", "call", "run", "suspended", "done"}
    /\ Range(ctx.origins) \subseteq 1..past.request.subtasks /\ ctx.next \in Nat
    /\ ctx.index \in 1..Len(ctx.origins) + 1
    /\ agent.disabled \in Replies
    /\ at = "suspended" => agent.stash # NoStash
    /\ \A i \in DOMAIN archive : i \in Nat /\ archive[i] \in 1..past.outputs

(* The step numbers of a turn are used once, over sub-tasks, phases,          *)
(* hand-offs, questions and restarts: what is archived from a run's first     *)
(* step on is its own, and nothing stands where it goes on.  So the facts of  *)
(* a phase are the phase's; and in one process the finish check of a sub-task *)
(* counts all of its runs, and the policy reads the turn's last answer only.  *)
EvidenceIsOnesOwn ==
    Running =>
        /\ Calm => \A i \in DOMAIN archive :
              i < agent.idx /\ (i >= work.start => i \in DOMAIN agent.trajectory)
        /\ past.restarts = 0 =>
              /\ mem.floor = IF InCall THEN work.start ELSE work.first
              /\ mem.final <=> LastSubtask /\ (InCall => LastOfCall)

(* What compact_trajectory says of every output: it becomes a label only if   *)
(* the store holds it.                                                        *)
LabelledIsHeld ==
    Running =>
        \A i \in Executes(agent.trajectory) :
            agent.trajectory[i].label =>
                i \in DOMAIN archive /\ archive[i] = agent.trajectory[i].output

(* A label stands for the output that was there: looking it up, or writing    *)
(* the answer, finds that output and not another run's.                       *)
LabelsKeepTheirText == Calm => LabelledIsHeld

(* The turn's answer pairs every sub-task with its own answers, in order; a   *)
(* run that was cut short is continued at once, or the turn is told as cut    *)
(* short, after no more continuations than it may have.                       *)
AnswersPairUp ==
    /\ \A i \in DOMAIN ctx.answers : ctx.answers[i].of = ctx.origins[i]
    /\ at = "plan" /\ ctx.index > Len(ctx.origins) =>
        /\ Len(ctx.answers) = Len(ctx.origins)
        /\ \A i \in 1..Len(ctx.origins) - 1 :
              \/ ctx.origins[i + 1] = ctx.origins[i] /\ ctx.answers[i].capped
              \/ /\ ctx.origins[i + 1] = ctx.origins[i] + 1
                 /\ ctx.answers[i].capped => ctx.exhausted
        /\ Last(ctx.answers).capped => ctx.exhausted
        /\ \A o \in Range(ctx.origins) :
              Cardinality({i \in DOMAIN ctx.origins : ctx.origins[i] = o}) <= MaxHandoffs + 1

(* A reply that stops the asking, or everything, holds for the sub-task it    *)
(* was given in, through its hand-offs and phases, and for no other; also one *)
(* whose new plan failed holds beside the reply that was given after it, and  *)
(* the stronger of the two stands.  (A process that took the turn over knows  *)
(* the replies that it got itself: one is only asked before any has stopped   *)
(* the asking.)                                                               *)
Strongest(said) ==
    IF "abort" \in said THEN "abort" ELSE IF "stop" \in said THEN "stop" ELSE None
RepliesStand == Running => agent.disabled = Strongest(work.said)

(* What a comment says of a continuation: its evidence counts the runs of its *)
(* sub-task before it.                                                        *)
ContinuationsCountAll ==
    Running /\ Continuation /\ mem.floor # Unset => mem.floor = work.first

(* The answers of a call are those of its phases that did not fail, in the    *)
(* order of phases and items; a failed one leaves no facts and no note, and   *)
(* what the call is answered from, if that is not all of its answers, is what *)
(* one phase that did not fail has answered.                                  *)
FailedPhasesLeaveNothing ==
    InCall =>
        /\ Range(Call.answers) = {r \in work.ran : r.phase \notin work.dropped}
        /\ \A i, j \in DOMAIN Call.answers : i < j =>
              \/ Call.answers[i].phase < Call.answers[j].phase
              \/ /\ Call.answers[i].phase = Call.answers[j].phase
                 /\ Call.answers[i].item < Call.answers[j].item
        /\ (Call.outputs \cup Range(Call.notes)) \cap work.dropped = {}
        /\ \E p \in DOMAIN Call.phases :
              \A i \in DOMAIN Call.last : Call.last[i].phase = p /\ p \notin work.dropped
============================================================================
