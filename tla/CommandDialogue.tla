--------------------------- MODULE CommandDialogue ---------------------------
(* The dialogue that turns a session's messages into commands: the stages of  *)
(* the NLU pipeline, the walk up the contexts, what it asks back and keeps    *)
(* from one message to the next, and the two ways a message reaches it:       *)
(* directly, as an assistant's command, or in a tool call of the agent.  What *)
(* matchers, models and commands answer is left open.  A message is what it   *)
(* begins with: the name of a command, a core command, or other words.  Other *)
(* sessions are heard of only through the cache file they may share.          *)
EXTENDS Naturals, Sequences, FiniteSets

CONSTANTS
    Contexts, \* the application's command contexts, one object of each
    Root,     \* the root context
    Parent,   \* the hierarchy, bottom-up; the root is its own parent
    Commands, \* the application's commands that take parameters
    Owned     \* the commands of each context

ASSUME DialogueAssumption ==
    /\ Root \in Contexts /\ Parent \in [Contexts -> Contexts] /\ Parent[Root] = Root
    /\ Owned \in [Contexts -> SUBSET Commands]
    /\ IsFiniteSet(Contexts)

(* A cycle in the hierarchy is refused when it is loaded: every walk up ends.  *)
ASSUME HierarchyEnds ==
    \E depth \in [Contexts -> 0..Cardinality(Contexts)] :
        \A c \in Contexts \ {Root} : depth[Parent[c]] < depth[c]

VARIABLES
    scope,     \* FW_UTTERANCE_CACHE_SCOPE: the cache file is "shared" or a "workflow"'s
    dialogue,  \* the pipeline's context and the command contexts
    suggested, \* suggested_commands in the session's cache file
    learned,   \* the labels its utterance cache holds
    assistant, \* is_assistant_mode_command is set
    agent,     \* "idle", "asking" the user, or at work: "handed" a message, "calling"
               \* after a call that returned, "shaken" after one that raised
    running,   \* the command whose response generator runs
    blob,      \* the session's state file, and the histories of its moment
    calm,      \* history: nothing raised here and the session was never rebuilt
    objected,  \* history: the user objected while parameters were being collected
    moved      \* history: something navigated before an open question was answered

dialogueVars == <<scope, dialogue, suggested, learned, assistant, agent, running, blob, calm, objected,
                  moved>>

None == "none"
NoRun == [cmd |-> None, of |-> None]
NoBlob ==
    [stage |-> "detect", kept |-> FALSE, name |-> None, stored |-> None, asking |-> FALSE,
     objected |-> FALSE, moved |-> FALSE]
Core == {"what_can_i_do", "go_up"}  \* go_up stands for the ones that always succeed
Reserved == Core \cup {"abort", "you_misunderstood"}
Messages == Commands \cup Reserved \cup {"words"}

(* No command of an application has the name of a core command.                *)
ASSUME NamesAreApart == Commands \cap (Reserved \cup {None, "words"}) = {}

(* The contexts a walk from c visits.                                         *)
Chain[c \in Contexts] == IF c = Root THEN <<c>> ELSE <<c>> \o Chain[Parent[c]]
Foreign(c, m) == \A i \in DOMAIN Chain[c] : m \notin Owned[Chain[c][i]]
NearestOwner(c, m) ==
    LET steps == {i \in DOMAIN Chain[c] : m \in Owned[Chain[c][i]]}
    IN Chain[c][CHOOSE i \in steps : \A j \in steps : i <= j]

(* What a message comes to: it is "handled", the pipeline "asks", an          *)
(* exception "raises", or a command "runs" on parameters collected for "of".  *)
Reading(d, out) == [d |-> d, out |-> out, cmd |-> None, of |-> None, options |-> {}, learns |-> {}]

(* The end of command processing; the name of the command stays behind.       *)
Ended(d) == [d EXCEPT !.stage = "detect", !.kept = FALSE, !.stored = None]

Went(d, k) == IF k = "go_up" THEN [d EXCEPT !.here = Parent[@]] ELSE d

----------------------------------------------------------------------------
(* Parameters already stored are completed from the text, whichever command   *)
(* they are of; a lone value that binds to nothing is refused unstored.       *)
Extracted(d, c) ==
    LET of == IF d.stored = None THEN c ELSE d.stored
    IN {[Reading(Ended(d), "runs") EXCEPT !.cmd = c, !.of = of],
        Reading([d EXCEPT !.stored = of], "asks"), Reading(d, "raises")}
       \cup {Reading(e, "asks") : e \in {d} \cap {[d EXCEPT !.stored = None]}}

(* Deviation: the walk does not say where it found the owner.                 *)
RoutedHere(d, on, c) ==
    Extracted([d EXCEPT !.stage = "extract", !.name = c, !.resp = d.here], c)

(* The command is known, and so is the object it will run on.                 *)
Routed(d, on, c) == Extracted([d EXCEPT !.stage = "extract", !.name = c, !.resp = on], c)

(* A command of the application that no context on the chain owns: the hint   *)
(* ends the dialogue.                                                         *)
Hinted(d) == {Reading([Ended(d) EXCEPT !.resp = Root], "handled")}

(* The options of an ambiguity; those of an ancestor are stored and dropped.  *)
Options(c) == (SUBSET (Owned[c] \cup {"go_up"})) \ {{}}
Dropped(c, n) == {{}} \cup (UNION {Options(Chain[c][i]) : i \in 2..n})

(* Intent detection of a core command.                                        *)
Directed(d, k) ==
    IF k = "you_misunderstood"
    THEN {Reading([d EXCEPT !.stage = "misunderstood", !.kept = TRUE], "handled")}
    ELSE {Reading(Went(Ended(d), k), "handled")}

(* Intent detection of words: fuzzy match, learned label or classifier in     *)
(* each context until one of them knows a command: the i-th of the walk does, *)
(* or the first finds several, or none does.  A learned label that the        *)
(* context does not own raises.                                               *)
Kept(d) == [d EXCEPT !.kept = TRUE]

Known(d, i) ==
    {[r EXCEPT !.options = o] :
        r \in UNION {Routed(Kept(d), Chain[d.here][i], k) : k \in Owned[Chain[d.here][i]]},
        o \in Dropped(d.here, i - 1)}
Ambiguous(d) ==
    {[Reading([Kept(d) EXCEPT !.stage = "ambiguous"], "asks") EXCEPT !.options = o] :
        o \in Options(d.here)}
Unknown(d) ==
    {[Reading([Kept(d) EXCEPT !.stage = "misunderstood", !.resp = Root], "handled")
        EXCEPT !.options = o] : o \in Dropped(d.here, Len(Chain[d.here]))}
Mislabelled(d) ==
    {Reading(IF i = 1 THEN d ELSE [Kept(d) EXCEPT !.resp = Chain[d.here][i]], "raises") :
        i \in {j \in DOMAIN Chain[d.here] : ~(learned \subseteq Owned[Chain[d.here][j]])}}

Guessed(d) ==
    (UNION {Known(d, i) : i \in DOMAIN Chain[d.here]}) \cup Ambiguous(d) \cup Unknown(d)
    \cup (UNION {Directed(d, k) : k \in Core \cup {"you_misunderstood"}}) \cup Mislabelled(d)

Detected(d, m) ==
    CASE m \in Commands /\ Foreign(d.here, m) -> Hinted(d)
      [] m \in Commands /\ ~Foreign(d.here, m) ->
             Routed(Kept(d), NearestOwner(d.here, m), m)
      [] m \in Core \cup {"you_misunderstood"} -> Directed(d, m)
      [] OTHER -> Guessed(d)

----------------------------------------------------------------------------
(* The later stages match a fixed set of keys, words perhaps fuzzily.         *)
Matches(m, keys) ==
    IF m \in keys THEN {m} ELSE {None} \cup (IF m = "words" THEN keys ELSE {})

Aborted(d) == {Reading(Ended(d), "handled")}
(* The stage and the text are set; then the caller looks for a command name   *)
(* among the artifacts of the answer, and raises.                             *)
Objected(d) == {Reading([d EXCEPT !.stage = "misunderstood", !.kept = TRUE], "raises")}

(* A clarification is answered with key k.  A command name is learned for the *)
(* text that was kept, and raises without one; a core command is carried out  *)
(* before its caller raises.                                                  *)
Chosen(d, on, k) ==
    CASE k = "abort" -> Aborted(d)
      [] k = "you_misunderstood" -> Objected(d)
      [] k \in {None, "what_can_i_do"} -> {Reading(d, "asks")}
      [] k = "go_up" -> {Reading(IF d.kept THEN Went(d, k) ELSE d, "raises")}
      [] OTHER -> IF d.kept
                  THEN {[r EXCEPT !.learns = {k}] : r \in Routed(d, on, k)}
                  ELSE {Reading(d, "raises")}

Clarified(d, m) ==
    UNION {Chosen(d, d.here, k) :
               k \in Matches(m, suggested \cup {"abort", "you_misunderstood", "what_can_i_do"})}

Corrected(d, m) ==
    IF m \in Commands
    THEN IF Foreign(d.here, m) THEN Hinted(d) ELSE Chosen(d, NearestOwner(d.here, m), m)
    ELSE UNION {Chosen(d, d.here, k) : k \in Matches(m, Owned[d.here] \cup Core \cup {"abort"})}

(* The command's own name begins it anew; anything else answers the question. *)
Answered(d, m) ==
    UNION {CASE k = "abort" -> Aborted(d)
             [] k = "you_misunderstood" -> Objected(d)
             [] OTHER -> Extracted(IF m = d.name THEN [d EXCEPT !.stored = None, !.kept = TRUE]
                                   ELSE d, d.name) :
               k \in Matches(m, {"abort", "you_misunderstood"})}

Readings(m) ==
    LET d == dialogue
    IN CASE d.stage = "detect" -> Detected(d, m)
         [] d.stage = "ambiguous" -> Clarified(d, m)
         [] d.stage = "misunderstood" -> Corrected(d, m)
         [] d.stage = "extract" -> Answered(d, m)

----------------------------------------------------------------------------
Working == {"handed", "calling", "shaken"}
Busy == agent \in Working \/ running # NoRun

(* The state that follows a reading, with the dialogue left at d.             *)
Follow(r, d) ==
    /\ dialogue' = d
    /\ suggested' = IF r.options = {} THEN suggested ELSE r.options
    /\ learned' = learned \cup r.learns
    /\ running' = [cmd |-> r.cmd, of |-> r.of]
    /\ calm' = (calm /\ r.out # "raises")
    /\ objected' = (/\ d.stored # None
                    /\ objected \/ (dialogue.stage = "extract" /\ d.stage = "misunderstood"))
    /\ moved' = (/\ d.stage # "detect"
                 /\ moved \/ (d.stage = "ambiguous" /\ d.here # dialogue.here))
    /\ UNCHANGED scope

(* A message comes through one of two doors, /invoke_assistant, which puts a  *)
(* slash before it, or /invoke_agent.  The slash marks the session while no   *)
(* question is open.                                                          *)
Slashed(door) == door = "assistant" /\ ~assistant
Marked(door) == assistant \/ (Slashed(door) /\ dialogue.stage = "detect")

(* What serialize_state takes for a command in progress.                      *)
InProgress(d) == d.stage = "extract" \/ d.stored # None

(* A turn that returns leaves a file if the agent asks or a command is in     *)
(* progress, and otherwise none.  In the file the parameters are those of the *)
(* command named; name and text are there with a command in progress only.    *)
(* Any other step leaves the file as it is, though what its open question is  *)
(* about may move away from it.                                               *)
Persist(a) ==
    LET d == dialogue'
        open == InProgress(d)
    IN blob' = IF a = "asking" \/ open
               THEN [stage |-> d.stage, kept |-> open /\ d.kept,
                     name |-> IF open THEN d.name ELSE None,
                     stored |-> IF d.stored = None THEN None ELSE d.name,
                     asking |-> a = "asking", objected |-> objected', moved |-> moved']
               ELSE NoBlob

Remain ==
    LET leaves == \/ blob.stage = "extract" /\ dialogue'.resp # dialogue.resp
                  \/ blob.stage = "ambiguous" /\ dialogue'.here # dialogue.here
                  \/ blob.stage = "ambiguous" /\ suggested' # suggested
    IN blob' = [blob EXCEPT !.moved = @ \/ leaves]

(* Unmarked, the agent takes it, as a new request or as the answer it asked   *)
(* the user for.                                                              *)
Plan(door) ==
    /\ ~Busy /\ ~Marked(door)
    /\ agent' = "handed"
    /\ UNCHANGED <<scope, dialogue, suggested, learned, assistant, running, blob, calm, objected, moved>>

(* Deviation: the mark outlives whatever is handled.                          *)
AlwaysKept(r) == TRUE

(* What is handled ends the assistant's mode; the end of a command does too.  *)
KeepsMark(r) == r.out # "handled"

Assist(door, m) ==
    /\ ~Busy /\ Marked(door)
    /\ \E r \in Readings(m) :
           /\ Follow(r, r.d) /\ assistant' = KeepsMark(r)
           /\ IF r.out \in {"handled", "asks"} THEN Persist(agent) ELSE Remain
    /\ UNCHANGED agent

(* The agent's tool refuses a name that the current context does not own.     *)
(* Whatever a call that returns leaves open is aborted before the next one.   *)
Call(m) ==
    /\ agent \in Working /\ running = NoRun
    /\ m \in Commands => m \in Owned[dialogue.here]
    /\ \E r \in Readings(m) :
           LET returned == r.out \in {"handled", "asks"}
           IN /\ Follow(r, IF returned /\ r.d.stage # "detect" THEN Ended(r.d) ELSE r.d)
              /\ agent' = IF r.out = "raises" THEN "shaken" ELSE IF returned THEN "calling" ELSE agent
              /\ assistant' = (assistant /\ ~returned)
    /\ Remain

(* The response generator returns; it may have moved to another context.      *)
Finish(there) ==
    /\ running # NoRun
    /\ running' = NoRun /\ dialogue' = [dialogue EXCEPT !.here = there]
    /\ assistant' = FALSE
    /\ agent' = IF agent \in Working THEN "calling" ELSE agent
    /\ UNCHANGED <<scope, suggested, learned, calm, objected, moved>>
    /\ IF agent \in Working THEN Remain ELSE Persist(agent)

(* The response generator raises; if no agent takes that, the turn does, and  *)
(* the file stays as it was before the command was ended.                     *)
Fail(there) ==
    /\ running # NoRun
    /\ running' = NoRun /\ dialogue' = [dialogue EXCEPT !.here = there]
    /\ agent' = IF agent \in Working THEN "shaken" ELSE agent
    /\ calm' = FALSE
    /\ UNCHANGED <<scope, suggested, learned, assistant, objected, moved>>
    /\ Remain

(* The agent gives up its turn: it asks the user or answers.                  *)
Yield(to) ==
    /\ agent \in Working /\ running = NoRun
    /\ agent' = to
    /\ UNCHANGED <<scope, dialogue, suggested, learned, assistant, running, calm, objected, moved>>
    /\ Persist(to)

(* Its turn raises: it goes on waiting if it did, and the file stays.         *)
Break ==
    /\ agent \in Working /\ running = NoRun
    /\ agent' = IF blob.asking THEN "asking" ELSE "idle"
    /\ calm' = FALSE
    /\ UNCHANGED <<scope, dialogue, suggested, learned, assistant, running, blob, objected, moved>>

(* A direct action on the application, on the current context's object; it    *)
(* may raise.                                                                 *)
Act(there) ==
    /\ ~Busy
    /\ dialogue' = [dialogue EXCEPT !.resp = dialogue.here, !.here = there]
    /\ moved' = (moved \/ dialogue.stage \in {"ambiguous", "extract"})
    /\ UNCHANGED <<scope, suggested, learned, assistant, agent, running, calm, objected>>
    /\ Persist(agent) \/ Remain

(* The session is retired, unless what it waits for is in no file, and        *)
(* rebuilt: the dialogue is the file's, the contexts are those it was retired *)
(* with, and the assistant's mark never comes back.                           *)
Rebuild ==
    /\ ~Busy /\ (agent = "asking" \/ InProgress(dialogue) => blob # NoBlob)
    /\ dialogue' = [dialogue EXCEPT !.stage = blob.stage, !.kept = blob.kept,
                                    !.name = blob.name, !.stored = blob.stored]
    /\ agent' = IF blob.asking THEN "asking" ELSE "idle"
    /\ objected' = blob.objected /\ moved' = blob.moved
    /\ assistant' = FALSE /\ calm' = FALSE
    /\ UNCHANGED <<scope, suggested, learned, running, blob>>

SharedCache == scope = "shared"

(* Another session stores its options, or a label it learned.                 *)
Elsewhere(c) ==
    /\ SharedCache
    /\ \/ \E o \in Options(c) : suggested' = o /\ UNCHANGED learned
       \/ \E k \in Owned[c] : learned' = learned \cup {k} /\ UNCHANGED suggested
    /\ UNCHANGED <<scope, dialogue, assistant, agent, running, blob, calm, objected, moved>>

----------------------------------------------------------------------------
DialogueInit ==
    /\ scope \in {"shared", "workflow"}
    /\ dialogue = [stage |-> "detect", kept |-> FALSE, name |-> None, stored |-> None,
                   here |-> Root, resp |-> None]
    /\ blob = NoBlob
    /\ suggested = {} /\ learned = {} /\ assistant = FALSE /\ agent = "idle"
    /\ running = NoRun /\ calm = TRUE /\ objected = FALSE /\ moved = FALSE

DialogueNext ==
    \/ \E door \in {"assistant", "agent"} :
           Plan(door) \/ \E m \in Messages : Assist(door, m)
    \/ \E m \in Messages : Call(m)
    \/ \E c \in Contexts : Finish(c) \/ Fail(c) \/ Act(c) \/ Elsewhere(c)
    \/ \E to \in {"asking", "idle"} : Yield(to)
    \/ Break \/ Rebuild

DialogueSpec == DialogueInit /\ [][DialogueNext]_dialogueVars

----------------------------------------------------------------------------
Starts == running = NoRun /\ running' # NoRun

(* A command runs on parameters that were collected for it: nothing is left   *)
(* of a command that ended, was aborted, was given up by the agent, or was    *)
(* rebuilt.  Except after an objection in the middle of the collecting.       *)
RunsOnItsOwnParameters ==
    [][Starts /\ ~objected => running'.of = running'.cmd]_dialogueVars

(* A command runs on an object of a context that owns it, wherever the walk   *)
(* found it and however many questions were asked, unless a direct action     *)
(* came in between or the options chosen from may be another session's.       *)
RunsWhereItIsOwned ==
    [][Starts /\ ~moved /\ scope = "workflow" => running'.cmd \in Owned[dialogue'.resp]]_dialogueVars

(* So a command runs as it was understood.                                    *)
RunsAsUnderstood == RunsOnItsOwnParameters /\ RunsWhereItIsOwned

(* As long as nothing raised, a question is open to the assistant's user      *)
(* exactly while the session is marked, so that answers do not go to the      *)
(* agent and requests do; and nothing an agent's call left open is there to   *)
(* swallow its next one.                                                      *)
ModesDoNotLeak ==
    /\ calm /\ ~Busy => (assistant <=> dialogue.stage \in {"ambiguous", "extract"})
    /\ agent = "calling" => dialogue.stage = "detect"
=============================================================================
