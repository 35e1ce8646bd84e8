# fastworkflow in TLA+

fastworkflow turns Python applications into command workflows that an LLM agent
or a person drives. Most of its logic that is hard to test sits in the FastAPI/MCP
server (`src/fastworkflow/run_fastapi_mcp/`), in the execution context a turn
runs in (`workflow_execution_context.py`), in the dialogue that turns messages into commands
(`_workflows/command_metadata_extraction/`), in the runs an agent splits a turn into
(`utils/react.py`, `skill_phases.py`, `observation_offloading/`), in the stores a session survives
a restart with (`checkpoint_store.py`, `session_state_store.py`), in the observability
database that keeps turns and experiments (`observability/store.py`, driven by
`experiment/runner.py`), and in the publication of trained artifacts (`train/`). This
directory holds TLA+ models of that logic, TLC configurations that check them on small
instances, and theorems about them that TLAPS checks for every instance.
`PROJECT.json` maps every definition to the lines it models and lists runs, mutants,
hazards and theorems.

## 1. Inventory

A *channel* is a tenant: one user's session with one workflow. A request of a
channel goes through the first eight parts below in this order, and in the execution context through the
sub-tasks of its agent and the command dialogue.

| Part | Where | State | Operations | What is hard, and what makes it correct |
|---|---|---|---|---|
| Endpoints | `run_fastapi_mcp/__main__.py` | – | `/initialize`, `/invoke_agent`, `/invoke_agent_stream`, `/invoke_assistant`, `/perform_action`, `/turns/{key}`, `/cancel_pending`, `/new_conversation`, `/activate_conversation`; lifespan: reaper, drain, shutdown | requests of one channel interleave at every await; whoever mutates a context holds its lock and no turn is switched from under |
| Turn registry and turn tasks | `run_fastapi_mcp/turns.py` | executions by key, active pointer per channel, retired aliases, admission flag; `runtime.lock` per channel | `start_or_get_active`, `clear_active`, `_run_turn`, `run_owned_turn`, `submit_turn`, polls | one live execution per channel; a retry rejoins its own; a timeout never cancels; every turn ends; bounded retention |
| Live-session cache | `run_fastapi_mcp/utils.py`, `checkpoint.py` | LRU map of live contexts, leases, creation locks, admission flag | `leased_session`, `ensure_user_runtime_exists`, `create_session`, sweep, `trim_live_sessions`, `checkpoint_for_shutdown`, `commit_startup_state` | a session in use is not retired; retirement and rehydration lose nothing; an orderly stop loses nothing at rest |
| Pending-state store | `session_state_store.py` | one blob per suspended channel | `save`, `load`, `clear`, `exists`, `reap` | the blob is the suspension of the session it stands for; crash while writing; reaper beside the loop |
| Checkpoint store | `checkpoint_store.py` | per channel: `COMMIT`, numbered generations, a floor | `publish`, `load`, `quarantine`, `delete`, `reset`, `reap` | a crash at any file operation; damaged files; numbers that must not repeat |
| Execution context | `workflow_execution_context.py` | turn key, accumulator, suspension, agent trajectory, conversation | `process_turn`, `process_action_turn`, resume, `cancel_pending`, `serialize_state`, `apply_serialized_state` | one logical turn = one key = one record over suspensions, failures and rebuilds |
| Stream delivery | `turns.py` 857-992, `utils.py` 1270-1320 | the channel's trace queue, a frame queue per streaming turn | `emit_nowait`, `close`, `frames`, `collect_trace_events`, `finish_stream` | events cross from a thread; one terminal frame, nothing after it, a sentinel always |
| Startup of a channel | `__main__.py` 1363-1510, `turns.py` 1013-1044 | startup state, live and in the checkpoint | `/initialize`, `_commit_startup_outcome` | durable before it is told; a startup runs once per session |
| Conversation labels | `utils.py` 2146-2330 | topic of each conversation, `label_lock` | `ensure_topic_and_summary`, the label hook, rotation, activation | an LLM call in the middle; the right conversation, unique titles, no deadlock with `runtime.lock` |
| Turns table, record sink | `observability/store.py` 6980-7760 | a row per logical turn; queue, ring, breaker, writer thread | `emit_turn_record`, the writer's loop, `quiesced`, `flush`, `close` | a terminal row is final; nothing is lost uncounted while the database fails |
| Experiments | `observability/store.py` 3540-6770, `experiment/runner.py`, `evidence_run.py` | experiment, attempts, claims, segments, seal, release | register, claim, record, finish, restart, seal, release, prune, forget | several processes in any order; a fence by epochs; a score is earned on complete evidence |
| Training and publication | `train/` | versions, reader entries, `current.json`, lock | `train_workflow`, `publish_version`, `retain_current_and_previous`, `migrate_legacy_to_version` | a crash between swaps, overlapping runs, selective retraining |
| Command dialogue | `_workflows/command_metadata_extraction/`, `command_executor.py`, `workflow_agent.py` 452-745 | stage of the NLU pipeline, command and parameters kept between messages, two command contexts, the assistant's mark, suggestions and learned labels in a cache file | a message through either door, the agent's tool call, abort, objection, direct action, rebuild | what one message leaves is read by the next, whoever sends it; a command runs on its own parameters and where it is owned |
| Sub-tasks and skill phases | `workflow_execution_context.py` 1848-2858, `utils/react.py`, `skill_phases.py`, `observation_offloading/` | list of sub-tasks with origins and answers, the phase run, next step number, the executor's trajectory, archived outputs | the loop over sub-tasks, hand-off at the step cap, phases and fan-outs, `ask_user` and resume, offloading | one sequence of step numbers over hand-offs, phases, suspensions and restarts; answers that pair up; an optional phase that fails leaves nothing |
| CLI, views, build tools, what skills and planner say | the rest | – | – | sequential within one attempt, driven by an LLM or an application; not modelled (see `PROJECT.json`) |

How they interact. The endpoint obtains the session under a *lease* of the
cache, submits the turn to the registry and waits a bounded time on its
`done_event`. A task of its own takes the channel's `runtime.lock`, runs the work
on an executor thread, writes the pending blob, sets the execution DONE and
retires it in the registry, all of which the cache's busy predicate observes. The
sweep of the cache publishes a checkpoint before it drops a session; the next
request rebuilds the session from checkpoint and blob. A reaper thread
removes checkpoints and blobs of channels nobody holds. The turn record is
written by the worker thread when the work returns, before the blob; behind
it stand the queue and the writer thread of the sink. The label hook runs after the
turn has left the registry. Experiments label the records of a context that is
bound to an attempt, and the store decides in the writing transaction whether the
binding is still the current one. Training is another process and meets the server only
in the reader entries it swaps. Sessions of one workflow share the file of suggestions and learned
labels unless `FW_UTTERANCE_CACHE_SCOPE=workflow`.

The event loop serialises everything but the executor threads (the work, the
reaper) and the writer thread; the unit of interleaving is the code between two awaits,
one transaction, or one file operation. The process may stop at any point; the
checkpoint store and the publication of artifacts are designed to be killed between two
of their steps, the experiment harness to be resumed.

## 2. Modules

| Module | Models | Its state, in the code's terms |
|---|---|---|
| `TurnService` | what the turn engine promises, abstractly | the request each channel serves, what each client waits for, open |
| `TurnRegistry` | registry, turn tasks, `runtime.lock`, waiting requests, conversation endpoints | `exec` = the TurnExecutions, `byKey` = `_by_key`, `active` = `_active_by_channel`, `aliases` = `_retired_aliases`, `lockQueue` = holder and waiters of `runtime.lock`, `client` = what each request does, `clock`/`expiredUpTo` = the order of completions and how far the retention window has moved past them |
| `CheckpointRegister` | what a checkpoint is to the server, abstractly | the record a restore would read; the last one promised |
| `CheckpointStore` | the files of one channel at crash granularity | `floor`, `commit`, `gens` = files; `op` = the operation in its process's memory; `acked`, `refused` = history |
| `SessionCache` | cache, leases, retirement, both durable stores, reaper, drain and shutdown | `cached`/`older` = `_sessions` in LRU order, `live` = content of a live context, `leases` = `_leases`, `turn` = the registry's pointer with the lock, `ckpt`, `blob` = what the stores hold, `reaper` = a retention pass, `adrift` = history: sessions whose last turn raised behind its suspension |
| `LogicalTurn` | a turn over suspensions, attempts, failures, rebuilds and conversation switches | `ctx` = the turn fields of the context, `snapshot` = the blob, `record` = the row of each turn, `attempt` = the TurnExecution, `home`, `cancelled`, `past` = history |
| `TurnStream` | how events and the ending of a turn reach its client | `queue` = `command_trace_queue`, `frames`/`ended`/`closed` = a `TurnStreamChannel`, `traces` = `execn.traces`, `reader` = the client |
| `StartupOutcome` | the startup command of a channel | `startup`/`key` = the runtime's fields, `disk` = the checkpoint's, `told` = what each client heard |
| `ConversationLabels` | the titles of a channel's conversations | `active`, `saved`, `minted` = conversation ids, `label` = topics as stored, `queue` = waiters of `label_lock` |
| `RecordSink` | the sink of turn records, its writer thread and its callers | `rows`, `queue`, `ring` = `_pending`, `breaker`, `request`/`parked` = the quiesce flags, `named`/`dropped` = health counters, `stale`, `turned` = turns whose claim was superseded, and those turned away for it |
| `ExperimentStore` | one experiment: row, attempts, claims, evidence, seal, release; harness or external driver | `exp`, `row`, `claim`, `segs`, `release` = tables, `turns` = stored records with their labels, `bound`/`pending` = contexts and records in flight, `archive` = the sealed file |
| `ArtifactVersions` | training runs and the versions they publish | `store` = version directories with manifest and signature, `entry` = reader entries, `link`, `pointer` = `current.json`, `lock`, `strays` = temporary symlinks; of a trainer `loaded` = the command modules it has imported |
| `CommandDialogue` | how a session's messages become commands | `dialogue` = the context of the pipeline's workflow (`NLU_Pipeline_Stage`, `command`, `command_name`, `stored_parameters`) with the application's current and response-generation contexts, `suggested`/`learned` = the cache file, `assistant` = `is_assistant_mode_command`, `agent` and `running` = where the turn's work is, `blob` = the state file, `calm`, `objected`, `moved` = history |
| `SubtaskRun` | the runs of one agent turn: sub-tasks, hand-offs, skill phases, questions, the archive | `ctx` = the fields the blob keeps (`_subtasks`/`_origins`, `_subtask_index`, `_subtask_answers`, `_subtask_exhausted`, `_next_step`, `_phase_run`), `mem` = those it does not (`_evidence_floors`, `_phase_live`, the finish reviewer's floor, `policy_final_run`), `agent` = the ReAct executor with its stash, `blob` = what another process would read, `archive` = rows by step number, `work`, `past` = history |
| `MC…` | the instances TLC checks | the worlds, small functions, and symmetry |
| `…Proofs` | theorems about a component | |

The modules abstract one another where they meet. `TurnRegistry` knows nothing of what a turn does.
`SessionCache` keeps of the registry one pointer per channel (single flight is proved in `TurnRegistry`) and
of the checkpoint store one record per channel (which `CheckpointStore` is shown to implement). `LogicalTurn`
keeps of the cache one action, the retirement of a session that is not in use and whose suspension is on disk
(checked in `SessionCache`), and of the sink that a record is written (`RecordSink`). `TurnStream`,
`StartupOutcome` and `ConversationLabels` keep of the registry that the turns of a channel follow one another,
and so does `CommandDialogue`, which keeps of the cache that a session is rebuilt between turns. `SubtaskRun`
is the inside of one turn of `LogicalTurn`: it keeps of it that a suspended turn is resumed where its blob was
written, and of the dialogue that a command returns an output. `ExperimentStore` keeps of the sink that a
record waits and is then written, refused or dropped.

Several modules have a variable `world` (`setting` in `ArtifactVersions`), chosen at the start and constant after, which
says what may happen in a behaviour: one run then covers several environments whose
product would be too large. A variable `past` remembers what has happened, so that
a property can say under which history it holds.

Each definition named after a deviation ("Deviation: …") stands beside the one
it differs from and is used by nothing: it is
the mutated form that shows the properties to be about the code (section 4).

### TurnRegistry

A step is the code between two awaits that can really suspend: a submission
(`Join`, `Accept`, `LaunchFails`), the start of the task up to the lock (`StartTask`,
`GrantLock`), its end from the return of the work to `done_event.set()`
(`FinishTurn`, which includes the release of the lock and `clear_active` with its two
sweeps), the end of a wait (`AnswerDone`, `Defer`), the conversation endpoints
(`Rotate`, `Cancel`, `LeaveLock`), the lapse of the retention window
(`Elapse`) and a poll that drops an expired alias (`ForgetAlias`). A request is
its own idempotency key. Refusals (409, 503) change nothing and are no step.

### CheckpointStore

A step is one rename, one unlink, or a bulk of writes that no reader looks at.
`Crash` can follow each. `Damage` garbles a COMMIT or a part between operations.
The disk may refuse the rename `_quarantine` makes (`SetAside`), which `refused`
remembers.
One writer per channel is assumed, as the store requires of its callers; the
number of generations and of damages is bounded by constants.

### SessionCache

A request's steps end at each await. `Create` is the whole cold creation: it runs
under the creation lock and the initialization lease, and what it reads of the
stores is read at its end, with `create_session` and its sweep. `EndTurn` writes
the blob as `_persist_after_turn` does if the work returned (`Returned`); work that raised skips it, and
may have ended the open command the blob still holds (`Raised`). A startup turn also commits the checkpoint as
`commit_startup_state` does. A world chooses the clients, the values and suspensions,
and the faults: a state that cannot be encoded, work that raises behind its command, a checkpoint write that
fails, a stop of the process, torn blobs, a reaper that runs beside the loop. Without "reap" a retention pass
is one atomic step.

### LogicalTurn

An attempt has the lock when it starts. A message that arrives on a suspended channel resumes the turn, a
slash command continues it but leaves the suspension, a direct action begins a turn of its own. Work may
raise, with its command ended or still open, the process may crash, and a suspended channel may be used in the
two ways the design documents exclude and the endpoints do not; `past` remembers which of these happened.

### TurnStream

The worker thread puts an event per step of the work and, when the work returns, the
`None` that ends the events of the turn. On the loop, `Pump` moves events into frames of a
streaming turn; `Delivers`, `Collects`, `Raises`, the retirement and `Finishes` are the steps of
the turn's task. Work that raises puts no `None`. A client may stop reading at any point.

### StartupOutcome

`/initialize` on a live session answers at once from the runtime; on a cold one it suspends
for the creation (`AskCold`, `Create`) and then submits the startup turn (`Submit`, joining the
execution another one submitted). `Work`, `Commit` and `Done` are the end of the work, the
durable write of its outcome and the retirement from the registry, in that order.
The session may be retired when no turn is active, and the process may crash anywhere.

### ConversationLabels

A turn, a rotation and an activation own `runtime.lock`; a hook does not. `Hook` decides
whether a title is due, waits for the session's `label_lock` if it must, and generates
outside of any lock of the runtime. `Named` writes in one transaction what the LLM answered,
made unique among the titles at that moment and then redacted (`Titled`); a label remembers whether that
altered it. A session retired during a generation gets a
successor with a `label_lock` of its own.

### RecordSink

Threads: the emission of each turn (`Emission`), the writer, archivers that hold the writer still, the
evidence run, and whoever closes the sink. The emission tries the direct write, and on failure opens the
breaker, keeps a terminal record in the ring and queues it. The writer takes a batch, applies it in one
transaction, and retries the ring when the queue is idle. A failure is "busy" (SQLITE_BUSY, retried item by
item) or "broken" (anything else, the whole batch is lost). Another server may take over the attempt a turn
was labelled with (`Supersede`); the store then turns the turn's records away, counts them and reports them as
written (`TurnsAway`). Failures and takeovers are bounded by the world.

### ExperimentStore

Every action is one BEGIN IMMEDIATE transaction or one step of a process. Records carry the
labels of the context that emitted them (attempt, epoch, server, conversation); `Write` is
the transaction that accepts or refuses one by the claim that is current then. The
external driver calls the store in any order; the harness follows its own program with a
crash and a resume. Sealing and releasing are handlers of three and four transactions. Time is abstracted: a
lease may be found expired whenever it is looked at.

### ArtifactVersions

A trainer imports the command modules, once, and goes through migration, the reading of the current version,
the plan, training (a context has a first artifact and then the last) and carrying forward, signature and
manifest, the lock, publication entry by entry, link, removal of stale entries, pointer, and retention version
by version. It may raise before it has the lock, or be killed anywhere; a kill between the two calls of
`_atomic_replace_symlink` leaves a temporary symlink. Retention removes a version artifact by artifact, also
from under another run's build. A model is the record of the editions of the commands it was trained on, the
context's own and those of its ancestors: the ones its run had loaded, whereas the signature is of the files
on disk at the plan and of the seeds that were loaded (`Prints`).

### CommandDialogue

A step is one pass of a message through the pipeline (`Assist` for the assistant's, `Call` for a tool call of
the agent, with the abort that follows a call that leaves a question open), the return of a command's response
generator (`Finish`, `Fail`: it may navigate first), the agent taking a message or giving up its turn (`Plan`,
`Yield`), a direct action, an end of the agent's turn by an error (`Break`), or a rebuild. What a turn that
returned leaves open is in the file a rebuild reads (`Persist`); a turn that raised leaves the file of the one
before it (`Remain`). `Readings(m)` is the set of what a message can come to in the stage the session is in;
what fuzzy matching, the embedding cache, the classifier and the extraction answer is a choice among what each
can return. A message is its first token: a command's name, a core command, or anything else ("words"). Each
context has one object. Other sessions are the step `Elsewhere`, which replaces the suggestions or adds a
learned label when the cache file is shared.

### SubtaskRun

A step is one round of the executor (`Command`, `Ask`, `Concludes`), the start of a run (`TakeText`,
`TakeCall`, `RunPhase`), the end of a phase or of a call, a decision about a phase (`Skip`, `FanOut`,
`FannedOut`, `FailEarly`), the resumption of a suspended run, a reply whose new plan raises and leaves the run suspended
(`ReplanFails`), or a stop of the process after which another one
reads the blob (`Restart` while suspended, `Crash` in the middle of a run; a turn that dies
without a blob is gone, and is not looked at any further). What ends a run also records its answer and
decides on a hand-off, as `_run_subtasks_from` does before it looks at the next entry. Every round
counts as a step; rounds of the tools that only read and replies that do not parse are not told apart from a
command whose output was not stored (`Command(FALSE)`). Phases a skill adds before or after its own are
ordinary phases. A request says which calls its sub-tasks may be, how often the agent asks, and which faults it
meets; the items of a fan-out, conditions, texts and facts are open.

## 3. Runs

All runs are exhaustive on their instance. Safety runs use the symmetry of
interchangeable identities; runs with a liveness property do not. States are distinct states.

| Run | Instance | States | Shows |
|---|---|---|---|
| `registry` | 1 channel, 3 executions, 2 clients, caps of 1 | 274 000 | single flight, lock discipline, retention; refinement of `TurnService` with its fairness; every request, also one that waits for the lock, is answered |
| `checkpoint_files` | 2 lifetimes × 2 contents, 4 generations, 2 damages, refused quarantines | 354 000 | atomic commit, fresh numbers, refinement of `CheckpointRegister`, an unreadable COMMIT written over only if it could not be set aside |
| `cache` | 2 channels, cache of 1; worlds: 2 clients with failing writes, 1 client with open commands, stops and torn blobs with opaque states, the concurrent reaper, turns that raise behind an open command | 1 912 000 | in use means cached; retirement and rebuilding are invisible; an orderly restart keeps what rests; retired only with its own snapshot |
| `turns` | 3 messages, a slash command, an action, 2 conversations; errors, crashes, switches | 4 369 000 | faithful resumption, polls, cancellation; calm turns are whole |
| `stream` | 2 turns of a channel, an event each, streaming or not | 187 000 | one ending per body, own events before it, every body ends |
| `startup` | 2 clients, 3 executions; retirement, crash, pinned contexts, failing writes | 1 120 000 | durable before told; once per session |
| `labels` | 3 tasks, 2 conversations of 2 turns, 2 sessions, an LLM that repeats itself, answers blank or shows a credential | 184 000 | titles tell of their conversation, differ unless the redaction altered one, and do not go back; no deadlock of the two locks |
| `sink` | 2 turns (one suspends), queue of 2, ring of 1, 1 retry; worlds: an evidence run with a failure, two archivers, two failures in a row; a failure may be a lost claim | 526 000 | an acknowledged terminal record is final or was turned away; nothing lost uncounted; still under a snapshot; certified evidence is there; records settle, a close ends |
| `experiments` | 2 attempts (one changes hands once), 2 servers, 1 restart; worlds: harness or external driver, each with sealing, pruning, forgetting, releasing, forcing or clearing | 1 527 000 | scores are earned on complete evidence, a loss costs the score, verdicts stand, an epoch is one binding |
| `versions` | 2 contexts (one above the other), 2 trainers, up to 3 versions, 1 edit; settings: overlapping runs, with and without edits, an unversioned layout, edits, crashes, a damaged manifest | 2 546 000 | readers keep their models, the recovery point stands, a selective plan keeps nothing stale |
| `dialogue` | 3 contexts in a chain, a command in the first and the last, messages of every kind, both doors, both scopes of the cache file | 774 000 | a command runs on its own parameters and where it is owned; the assistant's mode lasts as long as a question is open |
| `subtasks` | 4 requests: two sub-tasks with hand-offs; calls with fan-outs and optional phases; two sub-tasks that are calls; a crash and another version of the skill. Cap of 2 steps, 1 hand-off, 2 items, 1 question, 1 restart | 607 000 | step numbers are used once; a label finds the output it stands for; answers pair up with sub-tasks; a reply that stops the asking holds for its sub-task and no other; failed phases leave nothing |

Why these bounds are enough to be interesting. Two channels let the cache retire one in favour of the other,
two clients race on one. Channels meet in the turn registry only in the admission flag and the retention caps,
so its run has one, and its safety is proved for any number. Three executions let a second retained record
overflow a cap of one while a third is live. Four generations allow publish, crash with an uncommitted
generation, reset, and publish again. Three messages are a turn, an answer that suspends again or raises, and
an answer after a rebuild. Two turns of a stream let one find what the other left behind. A queue of two fills
with a record and a flush, a ring of one overflows with the second terminal record, and one retry reaches the
limit in two failures. Two epochs of an attempt make one binding old while another is current. Three versions
are a current one, its predecessor and the one under construction. One edit makes a file differ from the
module a run has loaded; that of the upper context leaves the seeds as they were, which a signature does not
see, and that of the lower one changes them. Three contexts in a chain are one a walk starts in, one it passes
and the root; two commands let an ambiguity have options of two contexts, and parameters of one command meet
the name of another. Two topics of which one is the other with a credential let the redaction make two titles
the same. A cap of two steps lets a run be cut short with one output old enough to become a label; one
hand-off makes a second one refused; two items let a fan-out fail after an answer; one question suspends a run
of each kind, its reply may fail once before it is taken, and one restart rebuilds the run.

Fairness is assumed only where the code provides it. The event loop runs every ready task and the thread pool
every job; the work, the labelling and the flush are bounded by timeouts; a request gives up at its deadline;
the writer thread goes on as long as it is not parked, and a breaker's cooldown passes. Nothing forces a
client to submit, a model to answer well, an archiver to let go (`EveryRecordSettles` assumes it does,
`CloseEnds` does not; both are in `SinkComesToRest`), time to pass in the registry, or the server to stop.
`CHECK_DEADLOCK` is off where the system may stop: bounded turns, failures or versions are then used up.

Properties with several parts (`Retention`, `SessionsInHand`, `RetirementLosesNothing`, `CalmTurnsAreWhole`,
`BodiesAreWhole`, `StartupStands`, `TitlesTell`, `ArchivesAreWhole`, `ScoresAreEarned`, `VerdictsStand`,
`BindingsAreFenced`, `RunsAsUnderstood`, `SinkComesToRest`) are conjunctions of named ones beside them. The modules
define more than the runs check: the type invariants, `WaitsForItsOwn` and `ImplementsService` (proved), and
`BreakerCloses` and `FlushAnswered` of `RecordSink`, which hold on the instance of `sink` and double
its time. Each can be checked by naming it in the `.cfg`.

### Disagreements

These were met while modelling: places where the code does otherwise than a document, a docstring or a comment
says. None is part of a run. Where a property states the promise it is named, and putting it into
the run's `.cfg` shows the violation; the rest follow from the actions.

Turns and sessions:

- `publish` replaces an unreadable COMMIT if the quarantine rename was refused
  (checkpoint_store.py:1824-1825), although it sets it aside first for invariant 31
  (1438-1441): `EvidenceNeverOverwritten` of `CheckpointStore`.
- `_quarantine` renames the channel directory away with its `GENERATION_FLOOR`
  (checkpoint_store.py:1797-1832), so after reset, publish, quarantine the numbers start
  again, although reset's docstring (1005-1007) wants them to grow for ever (`DirectoryGone`).
- The fast path of `publish` (checkpoint_store.py:802) compares a digest with COMMIT and looks only
  for the presence of the parts, not at their bytes.
- A suspension that cannot be encoded is not written (turns.py:540), the blob of the previous
  one stays on disk, and passes for the snapshot checkpoint.py:141-143 asks for:
  `RetiredWithItsSnapshot` with the worlds `Encoding`.
- A command is ended before its response generator runs (wildcard.py:213, workflow.py:355). If that raises,
  `_persist_after_turn` is skipped (turns.py:713): the session has no open command, the blob still holds one, the
  session may be retired because a blob exists (checkpoint.py:136-143), and the next request finds the finished command
  open again with its parameters (`Raised`, hence `adrift` in `RetirementLosesNothing` and `RestartKeepsWhatRests`). The
  next turn that returns, or `/cancel_pending`, ends it.
- A retention pass computes what it protects once, at its start, on an executor thread
  (utils.py:1610-1648), so a channel that goes live during it loses its records,
  although utils.py:1628-1631 wants them spared (`ReapStart`, `ReapRemove`).
- A crash while a pending blob is written leaves half of it
  (session_state_store.py:377), and every later cold creation of the channel raises
  (`Create` requires `blob[ch] # Torn`), although utils.py:1433-1434 wants any worker to
  rehydrate.
- An ordinary turn ends without bringing the cache back to target (turns.py:723); only
  streaming turns trim (`trims`), although the memory-bounds design (1597-1598)
  asks for it after every execution.
- A direct action on a suspended channel takes over the suspended turn
  (workflow_execution_context.py:1737 against 573-574 and
  docs/turn_result_design_final.md:257-259): `AnswersGoToTheAsker`. A conversation
  switch takes a suspended turn along (269 of the same document): `RecordsAreHome`.
- A resume that raises writes a failed record and leaves the blob (workflow_execution_context.py:1413);
  after a retirement the turn is resumed from it and completes, but the failed record
  stands, because a terminal row is final. `AnswersAreRecorded` is therefore claimed,
  and proved, only where no work raises. A crash between the final record and the clearing of the blob
  (turns.py:714) likewise resumes a turn whose record stands, and runs its commands again.

Command dialogue (the conditions of the properties are there because of the first six):

- The text that asks for missing parameters offers "you misunderstood" (parameter_extraction.py:367-369).
  Entering it moves to the misunderstanding stage, leaves `stored_parameters`, and raises KeyError on
  `artifacts["command_name"]` (command_executor.py:299); a command chosen next is completed from the
  parameters of the one objected to (`Objected`, hence `objected` in `RunsOnItsOwnParameters`). The objection
  raises in the same way while an ambiguity is open.
- A direct action sets the response-generation context (command_executor.py:387), so that a command whose
  parameters are then completed runs on an object of a context that need not own it, and one that
  navigates during an ambiguity has the options looked up elsewhere (`Act`, hence `moved`).
- Suggestions live in a file that all sessions of a workflow share by default
  (intent_detection.py:834-857): an answer to this session's question is matched against another's
  options (`Elsewhere`).
- `/invoke_assistant` says its query is processed "without agent mode" (`__main__.py:1944-1945`). It goes to the agent
  in the misunderstanding stage an out-of-scope message leaves (the handled reply deletes the mark,
  command_executor.py:291-295, and no new one is set outside intent detection,
  workflow_execution_context.py:1768-1777) and in the middle of a question after a rebuild, which does not carry
  the mark. An abort in the agent's next call ends that stage.
- A command or an extraction that raises leaves the mark, and the next `/invoke_agent` message is executed
  without the agent (`Fail`, hence `calm`).
- After a turn that raised, a rebuild brings back the question of the last turn that returned, also when the session
  has moved to other contexts since or another session has replaced the options (`Remain`, hence `moved` in `blob`):
  the command then runs on an object of a context that need not own it.
- A learned label is shared by all contexts (cache_matching.py); where the context does not own it,
  intent_detection.py:940 raises KeyError (the last set in `Guessed`).
- A rebuild while the agent awaits its user keeps the stage of an ambiguity or a misunderstanding and not
  `context["command"]` (`InProgress`), so the selection raises KeyError at intent_detection.py:816 (`Chosen`).
  Without an awaiting agent or an open command nothing is written (turns.py:532), and the rebuilt session starts
  with a new message.
- A core command chosen as a clarification (`go_up`) is carried out before its caller raises (`Chosen`).

Stream and startup:

- After work that raised, the events of that turn are still on the queue and show up as the next turn's
  traces, although the contract of a frame (turns.py:877-879) names the execution that produced it:
  `TracesAreOwn`. `collect_trace_events` stops at the first `None`, so that from then on the
  answers of ordinary turns stay shifted by what was left.
- `/initialize` on a rehydrated session submits the startup again (`__main__.py:1448` creates it
  without a look at the durable state), although docs/fastworkflow_fastapi_spec.md:46 says "Cold rehydrate
  does not re-run startup when startup already completed durably": `RehydrationDoesNotRerun`.
- Two cold `/initialize` at once can run the startup twice, one after the other, although
  utils.py:652-653 serialises them for that reason; hence `overlap` in `OncePerSession`.
- When the channel is busy, `/initialize` records the key of an ordinary turn as
  `startup_turn_key`; the startup does not run in that session.
- A startup that suspended and is answered by an ordinary turn stays "suspended" for ever.

Labels: turns recorded while a title is generated count towards no milestone; a rotation goes on after a blank
answer and leaves the conversation without a title; the generation of a retired session can replace the label
its successor wrote (`past` in `LabelsNeverGoBack`); a title is made unique before it is redacted
(store.py:1966-1982), so that two titles that differ in a credential are stored as the same, although
`_unique_topic_in_txn` is there to prevent it (`altered` in `TitlesAreUnique`; `AllTitlesAreUnique` shows the
violation); the hook names the conversation that is active when it runs, which a rotation may have changed
since the turn; `locked()` can be false while a waiter is about to be woken, so that a trigger queues where it
meant to skip.

Record sink:

- "A refusal means a terminal row is already there: the turn IS durable" (store.py:7059-7060). `upsert_turn_row` also
  refuses a record whose experiment claim is stale, without a look at the table (2175-2178), so that a terminal
  record is acknowledged and no row holds it. The store counts it under `stale_claim_records` and invalidates the experiment
  (3884-3917), but the sink counts a write refused by a terminal row (7052): hence `turned` in `AckedIsFinal` and in
  `NothingLostInSilence`.
- A batch that fails with anything but SQLITE_BUSY is lost whole and uncounted; its flushes are
  answered, and an evidence run reports itself valid, although evidence_run.py:390-397
  takes the answer of `flush` for the signal: `ValidLostNothing` with `Worlds <- BothFail`.
- An awaiting record in the queue can be written after a newer one that went the direct way, which
  the docstring at store.py:6986-6991 excludes; a terminal one cannot be overtaken (`AckedIsFinal`).
- The direct write tries again when the cooldown has passed, without the probe the comment at
  store.py:7494-7497 asks for.
- A ring entry cleared in a transaction that is then rolled back is not put back, although
  store.py:7601-7605 says so (`BatchFails`).
- `quiesced` of a closed sink does not wait for its final drain, and direct writes are not held by
  it; an emission that races the close is lost uncounted (`trusted` leaves it out).

Experiments:

- A server that holds the current claim may write to an experiment that is already closed: the fence
  compares epochs and not the status (store.py:3851), although docs/single_live_db_design.md:320 and
  runner.py:738-739 rely on it: `LateWritesAreRefused`.
- A record written between the sealing snapshot and the deletion of the live rows is deleted with
  them, although the archive does not carry it (docs/single_live_db_design.md:406):
  `SealedEvidenceIsCarried`. A forced "invalid" after the sealing is lost when the live row is.
- A release is read, closed and written in three transactions (handler_sealed.py:273); its second one can
  invalidate an experiment that was completed in between.
- `clear_conversations` leaves claims, releases and archives behind, and an experiment that is
  created again under the same name counts the orphans.
- A crash between the end of the last attempt and its grade leaves the experiment waiting for an
  evaluation; records queued at a crash are lost unreported; restarts and grades are not fenced by a claim.

Sub-tasks and phases:

- The finish check of a continuation "counts the runs of its sub-task before it"
  (workflow_execution_context.py:1998-2000). The floors it needs are not in the blob (1013-1021), and the loop sets a
  missing one to the continuation's own first step (2659), so after a restart the earlier runs do not
  count: `ContinuationsCountAll` with `Requests <- OneText`.
- "An observation is offloadable only if the store holds it" (compact.py:200-201); what is asked is whether it
  holds anything under the step's number (290). After a crash the blob is resumed under numbers already
  archived, the archive refuses the new output (archive.py:359-361), and its label stands for the old one, which
  the answer is then written from: `LabelledIsHeld` with `Requests <- OneCrash` and `Cap = 3`.
- `policy_final_run` is not in the blob and defaults to true (react.py), so that a resumed sub-task which is
  not the last one is checked by the finish policy meant for the last run (`Forgotten`). Likewise a resumed run
  outside of a call has no finish reviewer after a restart, and whether the reviewer has already objected once
  is lost in any resumption.
- A suspended call whose skill changed before the restart ends with the executor's trajectory empty, so that
  `_next_step` stays behind the steps already archived (2722-2728) and the next run uses their numbers again.
- A reply's restriction is applied to the executor and is not in the blob, and a reply whose new plan raises leaves the
  blob of the question (workflow_agent.py:785-790): a process that then takes the turn over asks again
  without the restriction, and only later replies count there (`Heard` starts from what the process itself was told).
- A phase that is answered without an executor looks for executed tools in the trajectory of the phase
  before it (1918-1923), so that a reply which does not parse is not tried again.

Artifacts:

- Retention "must not run against a version another process is publishing or carrying forward from"
  (artifact_versioning.py:1546-1548). A run takes `publication_lock` only to publish
  (train/__main__.py:537), so the retention of a run that publishes first removes the directory another one is
  building. That one goes on, signs and publishes a version without the contexts it had trained before, or
  raises when it carries forward from a removed source: `WorkIsSpared` with the settings `Overlapping`. The artifacts
  of one context are written minutes apart, each of them making the directory if it lacks
  (model_pipeline_training.py:2025-2202, 985-1019), so a removal in between also leaves a context with some of its
  artifacts, which is signed and published: `PublishedIsWhole` with the same settings.
- Command modules are imported when a run begins and cached (train/__main__.py:332-339, utils/python_utils.py:106), and the
  plan hashes the command files as they are on disk by then (selective_training.py:391); only the seed utterances come from
  what was imported (361-366). An edit in between is signed by a run that trained without it, and the next selective run
  keeps that model, which the docstring of `CommandFingerprint` calls "precisely the
  silent-staleness failure" (160): `AllThatIsKeptIsFresh` with the settings `EditedMeanwhile`. `WhatIsKeptIsFresh`
  claims the seeds always, and the commands as long as no run has signed such an edit (`"edited"` in `past`).
- A process killed between `os.symlink` and `os.replace` of `_atomic_replace_symlink` leaves a temporary
  symlink. If it leads to a version that was not published, every later run publishes and then
  raises in `prune_versions`, because `_routed_version_ids` counts the leftover as a reader, and nothing
  removes it, although artifact_versioning.py:189-190 promises that older and incomplete versions are
  removed after publication: `LeftoversGo` with the settings `KilledOnly`.
- A run with nothing to train publishes the version it resolved before it took the lock: beside another run it
  rolls that one's publication back and prunes it (`Resolve`, `Plan`, `Publish`).
- `migrate_legacy_to_version` publishes without the lock, although the docstring of `publish_version`
  (1348-1350) says every path of the trainer holds it: `ReadersKeepTheirModels` with the settings
  `Migrating` shows an entry that leads nowhere. A crash in a migration leaves the moved contexts in a
  version no entry leads to, which a later retention removes, although "a migration cannot
  lose" them (1618-1619).
- A damaged manifest of the version a selective run would carry from makes each such run refuse to
  publish until one retrains everything.

## 4. Mutants

Every property of a passing run is violated when one mapped definition is
replaced by its deviation, a bug that could plausibly be made there: the
busy signal taken from the lock instead of the pointer, the busy check of a
rotation dropped, COMMIT replaced before its generation is in place, a lease
released for everybody, a poll that trusts whatever key it sees, a title written to whichever
conversation is active by then, a flush answered before the commit, a claim compared without its epoch, a
signature computed at the end of a training run instead of its plan, and so on.

## 5. Theorems

TLAPS proves the following for all values of the constants that satisfy the
modules' assumptions (any number of channels, requests, generations, …).

`TurnEngineProofs`, of the registry: `TypeCorrect`, `AtMostOneLiveTurn`, `RunsUnderTheLock`,
`AnswersAreOnesOwn`, `EngineImplementsService` and `HandlesAreKept`. The inductive invariant adds to the
properties themselves what the keys, pointers and queue entries refer to (`Minted`,
`QueueMembers`) and that nobody queues twice (`QueuedOnce`), without which the release
of a lock could not be seen to pass it on to exactly one. The refinement theorem shows
each action to be the step of `TurnService` it should be or a stutter. `HandlesAreKept` rests on a
second invariant: executions end at different times (`Stamps`), and whoever the registry no longer resolves
within its window has as many younger ones of its kind as are kept (`Overtaken`). That the newest n of a
set are n at most (`NewestFew`) needs no induction: the number of newer ones is an injection
into the numbers below n.

Of `TurnStream` it proves `StreamTypesHold` and `BodiesStayWhole`, which covers the four parts of
`BodiesAreWhole`. One turn owns the channel and its thread (`OneOwner`); the flag of a stream says whether its one
ending is out, and an ending is the last frame (`OneEnding`); every event a stream made is on its channel or on the
queue, and the two are counted against what was made (`NoneMissing`), which is why the output can stand only
behind the last of them. That a body shows no other turn's events needs more: until some work raises, the queue
holds only the owner's events and at most one sentinel behind them, and it is empty when a turn retires (`OwnQueue`).
After a raise it does not hold, and events of one turn can reach the next body (section 3).

`DurabilityProofs`, of the checkpoint files: `TypeCorrect`, `CommitIsAtomic`, `NumbersAreFresh`,
`FilesImplementRegister` and `EvidenceIsKept`. The invariant says what each phase
of a publication has put on disk (`Progress`, `OperationFits`) and that a COMMIT's
number stays on disk. `EvidenceIsKept` adds that a publication never has an
unreadable COMMIT in front of it that it could have set aside (`ClearedTheWay`).

Of `RecordSink` it proves `SinkTypesHold`, `AcknowledgedIsDurable`, `LossesAreCounted` and
`ArchivesStayWhole`, every safety property of the run. What is on its way was emitted (`Emitted`), and the
writer holds a batch, entries of the ring or nothing (`AtWork`). A terminal record the degraded path took is
stored, counted, or rides in the queue or the batch (`Tracked`); a flush drains behind the records it covers
(`Covered`), which makes its answer mean something; and one archiver at a time has the writer parked
(`Parking`): one whose flush was answered finds the writer out of the pause of the archiver before it. A
record the store turned away with a stale claim counts as counted: the theorems name that exception, since the
sink acknowledges such a record. The batch is applied record by record; what a fold of upserts and a filtered
sequence hold is proved by induction on their length.

`LogicalTurnProofs`: `TypeCorrect`; `ResumeIsFaithful`, `PollsNeverGuess` and
`CancellationLasts` for every history in which no action runs on a suspended
channel, errors and crashes included; `SuspensionsAreResumable`,
`RecordsAreComplete` without errors and crashes (`Calm`); `RecordsStayHome` if
moreover no suspended channel is switched; and `TurnsAreWhole`, their conjunction as the run
checks it. The first invariant relates the key of
the attempt, the key it started from and the turn the context is in
(`Underway`, `Submitted`); the second adds that the snapshot and the context agree on
the suspension between attempts (`Synced`) and that an unanswered turn has no
terminal record (`Unanswered`).

`ServingProofs`, of the cache: `TypeCorrect`, `HandedOverIsThere`, `RetiringIsInvisible` and
`RestingSurvivesShutdown`. The invariant says that the leases of a channel count the requests
that hold its session (`LeasesCount`, by cardinalities), and that a cached session has its own suspension
on disk or none (`SnapshotsAgree`), unless its last turn raised behind its suspension (`adrift`), which the last two
properties except. The last two theorems assume `Encodes`, as the worlds of the run do: after a turn
whose state cannot be encoded the blob of an older suspension stays (section 3), and `Worlds <- Encoding` shows
`RetirementLosesNothing` violated. `RestingSurvivesShutdown` assumes `Writes` as well, since a
shutdown whose checkpoint write fails has nothing to keep the session with. `Clients` is
finite (`ClientsAssumption`): a server has finitely many requests.

Of `ArtifactVersions` it proves `VersionTypesHold`, `KeptModelsAreFresh`, `RecoveryPointKept` and
`ReadersAreServed`, every property of the run, for any hierarchy that is transitively closed, any settings and
bounds. A version that is being made is its trainer's alone: nothing leads to it and nobody else names it
(`Apart`). Then each model has the seeds its version's signature, or the plan of the run that builds it,
tells; as long as no run signs an edit it has not loaded, none is older than that signature or plan
(`UpToDate`). So what a plan finds unchanged was trained on the seeds of today and, until then, on today's
commands, also with overlapping runs. For the other two theorems one trainer acts at a time until two runs
overlap (`Alone`). Entries lead to directories of their context, a publication routes only to what its version
has, and retention takes no version an entry leads to (`Readers`); without overlap what is routed to has all
its artifacts. What the pointer, the link and the version before lead to is whole (`Foundation`), and each
trainer's place in its program says what it may still do to it (`Course`: what it migrates, what it prepares,
what it delivers). That retention spares the version before rests on a readable manifest: its `previous` is
the trainer's `prev` or was merged away, and a version without a manifest names none (`Noted`).
`ReadersAreServed` assumes `MigratesAlone`, that no run that may overlap another finds unversioned models: a
migration publishes without the lock, and the settings `Migrating` show the property violated (section 3). The
settings of the run satisfy it.

`StartupOutcomeProofs`: `TypeCorrect` and `StartupIsDurable`. Executions are numbered in the order they
begin, so that the one at work is the last (`Numbered`, `Stages`); what memory, disk and clients hold
are outcomes of startups that ended (`MemoryIsTrue`, `DiskIsTrue`, `ToldIsTrue`); in a history without
failed writes the disk is as new as anything told (`DiskIsNew`); and without overlap a
request in flight is alone with a session that has begun no startup (`Alone`).

`ConversationProofs`, of the labels: `TypeCorrect`, `TitlesAreTheirOwn` and `LabelsMature`. The
invariant has one owner of the runtime and one generation per session (`OneOwner`, `OneLabels`), a line in which
each waiter of the label lock stands once (`InLine`), and that what is generated covers at least what the title
there was generated from, for as long as no session was retired under a label (`Covering`, `Together`). That numbered
titles differ from each other rests on topics being sequences (`LabelsAssumption`). Of the redaction it is assumed
only that it leaves no title empty; about titles it altered uniqueness is not claimed (section 3).

Of `CommandDialogue` it proves `DialogueTypesHold`, `SessionsKeepTheirModes` and `CommandsRunAsUnderstood`,
for any hierarchy of contexts in which every walk up ends (`HierarchyEnds`, by induction on the length of the
walk) and any commands that are no core commands (`NamesAreApart`). What a message may leave is one statement
per outcome (`Fits`: what runs, what is stored, what is offered, what stays open), proved for each stage of
the pipeline. From it follow that a dialogue is always ready for its next message (`Ready`: what is being
collected is a command of the context it was found in, and what is stored was collected for it), that a
command runs only when its dialogue has ended (`EndsBeforeItRuns`), and that while the agent works undisturbed
there is no mark and nothing is asked (`AgentIsAlone`). What the state file holds is as ready as the dialogue
was when it was written, and knows whether its question has moved away since (`FileInv`), so that a rebuild
keeps all of this. An objection in the middle of a command, an error and a rebuild break these; the theorems
are about histories without the one that matters to each, as the properties say.

`SubtaskRunProofs`: `TypeCorrect`, `RepliesHold`, `AnswersArePaired`, `DroppedPhasesAreGone`,
`LabelsStandForOutputs` and `EvidenceStaysItsOwn`, that is every property of the run. The turn lives in the
context and, over a suspension, in the blob, from which another process goes on. What holds of the turn at
each place in the loop (`Live`) is therefore stated of a context, an executor and the work done, and again of
the blob's (`Stored`); with the types (`Typed`) these are inductive, faults or not (`Core`). `RepliesHold` is
the part of it that ties the executor's withheld tools to the replies given in the sub-task at work, those
whose new plan failed included. In it `Entries` ties the list of sub-tasks to the answers given, and
`CallFits` a call to the phases that ran and were dropped: the marks it took when it entered the phase cut off
exactly what the phase added (`GivesBack`). On top of it stands `Kept`, which without faults bounds the
archive by the next step number and has each label match what is archived, and `Counted`, which holds in one
process and says that the evidence floor of the sub-task at work is the first step of its first run. The parts
are proved one after the other, each from the ones before it. A lemma per operation on calls and turns says
what it changes and keeps; one on sequences (`Inserted`, `Joined`) says where the elements go.

`ExperimentStoreProofs`: `TypeCorrect`, `VerdictsAreFinal`, `BindingsStayFenced`, `ScoresStayEarned` and
`ArchivesSayComplete`, that is every property of the run, in every world at once (the run takes five of them).
The invariant has four independent parts. An experiment that waits for its grades is covered already, and when
it closes its grades are passes (`Graded`, `Covered`), so that no later call can take a verdict back. No
binding is ahead of its attempt's claim, an erased experiment has none (`Fenced`), and a claim's new epoch is
above whatever is held. What is being sealed is complete or void by now, and so says the copy (`Attached`).
And a harness run that may still be complete (`MayCount`: not closed otherwise, no segment lost, nothing
cleared) has nothing under way outside of its run, one conversation per attempt and a drop only while the run
that met it goes on (`Harnessed`); every other run has lost its claim to a score for good (`CountedBefore`).
What a step may do to the experiment, to a row and to the history is said once (`ExpMoves`, `RowMoves`,
`PastMoves`).

Every invariant and action property of the runs but the liveness ones is a theorem. Only model-checked:
`EveryRequestAnswered`, `EveryBodyEnds`, `EveryTaskEnds`, `SinkComesToRest` and `ImplementsServiceFairly`,
which rest on ENABLED and fairness and are out of the prover's reach; and what no run checks but the modules
define (section 3).

The induction theorems of the library take an operator as a parameter, which the installed provers cannot
instantiate. Where a proof needs an induction (the length of a walk up the contexts, of a queue, of a batch)
it takes the set of the numbers for which the claim holds and the least number outside of it
(`NumbersByInduction`, from the well-foundedness of the naturals).

## 6. What is not modelled

- What a turn computes: what planner, agent, skills, classification and retrieval answer is decided
  by an LLM or by the application; so is what a model learns in training. Their effects
  are nondeterministic choices (a new value, a suspension, an error, a title).
- In `CommandDialogue`: commands without parameters, delegation to child workflows, the policy guard, how
  text is matched, parsed and validated, contexts with several objects, a response generator that asks the user, a crash that rebuilds a session in
  the contexts of an older checkpoint.
- In `SubtaskRun`: the texts and facts of phases, the finish reviewer's and the policy's verdicts, the context
  budget that asks for labels, the search over archived outputs, distillation after the turn.
- In `ExperimentStore`: selection pointers, the benchmark pin, undeclared creation, scores and
  comparisons, process preparation; the plan is fixed to the declared attempts.
- In `ArtifactVersions`: the hard-link layout, rollback by hand, merging of held-out reports and
  provenance, the removal of stale artifacts, the caches of LLM data.
- In `RecordSink`: trace spans and their retention, feedback, the recycling of a sink, the merging of
  health rows.
- Experiment claims inside a turn, which can make it fail before it begins; the credential of a
  request, installed for the length of its turn.
- The Redis backends, schema migration, time stamps and sizes. Age is the order of
  completions; capacity is "some of the records that are not protected".
- Two server processes on one channel. The design excludes them; a restart is
  modelled, a second writer is not.
- Failures of an `unlink` in the middle of a reset.

## 7. Plan

Done: `TurnRegistry`, `CheckpointStore`, `SessionCache`, `LogicalTurn`, `ExperimentStore`, `RecordSink`,
`TurnStream`, `StartupOutcome`, `ConversationLabels`, `ArtifactVersions`, `CommandDialogue`, `SubtaskRun`, in
the order of how much depends on them. Next, in order:

1. Pure functions against reference definitions: `reconcile_launch_context` (the
   three-way merge) and the retention partitions `_partition_by_age` and
   `_partition_by_capacity`.
2. A composition of `TurnRegistry` and `SessionCache` in which the leases, the
   registry pointer and the lock are the same variables, to check the drain end to end.
