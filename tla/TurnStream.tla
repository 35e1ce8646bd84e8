------------------------------ MODULE TurnStream ------------------------------
(* How the progress of a turn reaches its client.  The worker thread of a turn*)
(* puts trace events on the one trace queue of its channel                    *)
(* (WorkflowExecutionContext); the event loop takes them off, into the frames *)
(* of a streaming turn (run_process_message_with_trace_stream and             *)
(* TurnStreamChannel) or into the answer of any other turn                    *)
(* (collect_trace_events).  The turns of a channel follow one another; the    *)
(* body of a streaming turn is read by a client that may go away.             *)
EXTENDS Naturals, FiniteSets, Sequences

CONSTANTS
    MaxTurns,   \* bound on the turns of the channel
    MaxEvents,  \* bound on the trace events of a turn
    Sentinel    \* the None that ends the events of a turn

ASSUME StreamAssumption ==
    /\ MaxTurns \in Nat /\ MaxEvents \in Nat
    /\ Sentinel \notin 1..MaxTurns

VARIABLES
    kind,      \* of each turn, "none" before it begins
    current,    \* the turn that owns the channel, 0 without one
    thread,    \* where its worker thread is
    made,      \* trace events each turn has put
    queue,     \* command_trace_queue: an event is the number of its turn
    task,      \* where the task that owns each turn is
    failed,    \* execn.error of each turn is set
    late,      \* the delivery deadline of the streaming turn was reported
    frames,    \* frames put on the channel of each streaming turn
    ended,     \* _terminated of each channel
    closed,    \* _closed of each channel
    read,      \* frames the client of each turn has read
    reader,    \* the client of each turn: "reading", "done" or "gone"
    traces,    \* execn.traces of each turn that does not stream
    past       \* history: "raised" once the work of a turn has raised

delivery == <<frames, ended, closed>>
clients  == <<read, reader>>
streamVars == <<kind, current, thread, made, queue, task, failed, late, delivery, clients, traces, past>>

Turns == 1..MaxTurns
Ends == {"output", "error"}
EndsOf(kinds) == {i \in DOMAIN kinds : kinds[i].type \in Ends}
HasEnd(kinds) == EndsOf(kinds) # {}

(* Deviation: a second ending is let through.                                 *)
EmitAll(t, kinds) ==
    /\ frames' = [frames EXCEPT ![t] = IF closed[t] THEN @ ELSE @ \o kinds]
    /\ ended' = [ended EXCEPT ![t] = @ \/ HasEnd(kinds)]

(* emit_nowait of each frame in turn: nothing follows the end of a stream.    *)
Emit(t, kinds) ==
    LET frozen == closed[t] \/ ended[t]
    IN /\ frames' = [frames EXCEPT ![t] = IF frozen THEN @ ELSE @ \o kinds]
       /\ ended' = [ended EXCEPT ![t] = @ \/ (~frozen /\ HasEnd(kinds))]

Frame(type) == [type |-> type, of |-> 0]

(* The frames of the first n items of the trace queue, for every n.           *)
Traced(items) ==
    LET upTo[n \in 0..Len(items)] ==
            IF n = 0 THEN <<>>
            ELSE IF items[n] = Sentinel THEN upTo[n - 1]
                 ELSE Append(upTo[n - 1], [type |-> "trace", of |-> items[n]])
    IN upTo
TraceFrames(items) == Traced(items)[Len(items)]

----------------------------------------------------------------------------
(* A turn is admitted when the one before it has left the registry.           *)
Begin(t, k) ==
    /\ current = 0 /\ kind[t] = "none" /\ \A o \in 1..(t - 1) : kind[o] # "none"
    /\ kind' = [kind EXCEPT ![t] = k]
    /\ current' = t /\ thread' = "runs" /\ late' = FALSE
    /\ task' = [task EXCEPT ![t] = "work"]
    /\ UNCHANGED <<made, queue, failed, delivery, clients, traces, past>>

Puts ==
    /\ thread = "runs" /\ made[current] < MaxEvents
    /\ made' = [made EXCEPT ![current] = @ + 1]
    /\ queue' = Append(queue, current)
    /\ UNCHANGED <<kind, current, thread, task, failed, late, delivery, clients, traces, past>>

(* The sentinel is put where a message or an action ends, and the work can    *)
(* still raise after that (recording the turn), or before it.                 *)
PutsSentinel ==
    /\ thread = "runs" /\ thread' = "ends"
    /\ queue' = Append(queue, Sentinel)
    /\ UNCHANGED <<kind, current, made, task, failed, late, delivery, clients, traces, past>>

Returns ==
    /\ thread = "ends" /\ thread' = "returned"
    /\ UNCHANGED <<kind, current, made, queue, task, failed, late, delivery, clients, traces, past>>

Raises ==
    /\ thread \in {"runs", "ends"} /\ thread' = "raised"
    /\ past' = past \cup {"raised"}
    /\ UNCHANGED <<kind, current, made, queue, task, failed, late, delivery, clients, traces>>

Owns(t, k) == current = t /\ kind[t] = k /\ task[t] = "work"

(* While the work runs: deliver what is queued, and once report a deadline    *)
(* that has passed.                                                           *)
Pump(t) ==
    /\ Owns(t, "stream") /\ thread \in {"runs", "ends"}
    /\ \E passed \in BOOLEAN :
        /\ passed => ~late
        /\ passed \/ queue # <<>>
        /\ late' = (late \/ passed)
        /\ Emit(t, TraceFrames(queue) \o (IF passed THEN <<Frame("timeout")>> ELSE <<>>))
    /\ queue' = <<>>
    /\ UNCHANGED <<kind, current, thread, made, task, failed, closed, clients, traces, past>>

(* The work returned: the last events, the pending state is written, which    *)
(* may fail, and the output goes out.                                         *)
Delivers(t) ==
    /\ Owns(t, "stream") /\ thread = "returned"
    /\ \/ Emit(t, TraceFrames(queue) \o <<Frame("output")>>) /\ UNCHANGED failed
       \/ failed' = [failed EXCEPT ![t] = TRUE] /\ Emit(t, TraceFrames(queue))
    /\ queue' = <<>>
    /\ task' = [task EXCEPT ![t] = "retire"]
    /\ UNCHANGED <<kind, current, thread, made, late, closed, clients, traces, past>>

(* The trim of the conversation window, after the output, fails.              *)
TrimFails(t) ==
    /\ current = t /\ task[t] = "retire" /\ thread = "returned" /\ ~failed[t]
    /\ failed' = [failed EXCEPT ![t] = TRUE]
    /\ UNCHANGED <<kind, current, thread, made, queue, task, late, delivery, clients, traces, past>>

WorkFailed(t) ==
    /\ current = t /\ task[t] = "work" /\ thread = "raised"
    /\ failed' = [failed EXCEPT ![t] = TRUE]
    /\ task' = [task EXCEPT ![t] = "retire"]
    /\ UNCHANGED <<kind, current, thread, made, queue, late, delivery, clients, traces, past>>

(* The first sentinel follows n items, or there is none and n is all of them. *)
UpTo(items, n) ==
    /\ \A i \in 1..n : items[i] # Sentinel
    /\ n < Len(items) => items[n + 1] = Sentinel

(* A turn that does not stream takes the events up to the first sentinel.     *)
Collects(t) ==
    /\ Owns(t, "plain") /\ thread = "returned"
    /\ \E n \in 0..Len(queue) :
        /\ UpTo(queue, n)
        /\ traces' = [traces EXCEPT ![t] = SubSeq(queue, 1, n)]
        /\ queue' = SubSeq(queue, n + 2, Len(queue))
    /\ task' = [task EXCEPT ![t] = "retire"]
    /\ UNCHANGED <<kind, current, thread, made, failed, late, delivery, clients, past>>

(* The registry lets the channel go before the stream is finished.            *)
Clears(t) ==
    /\ current = t /\ task[t] = "retire"
    /\ current' = 0 /\ thread' = "none"
    /\ task' = [task EXCEPT ![t] = IF kind[t] = "stream" THEN "finish" ELSE "done"]
    /\ UNCHANGED <<kind, made, queue, failed, late, delivery, clients, traces, past>>

(* Deviation: the body of a turn that failed after its output is left open.   *)
FinishesUnlessEnded(t) ==
    /\ task[t] = "finish" /\ task' = [task EXCEPT ![t] = "done"]
    /\ Emit(t, IF failed[t] THEN <<Frame("error")>> ELSE <<>>)
    /\ closed' = [closed EXCEPT ![t] = ~(failed[t] /\ ended[t])]
    /\ UNCHANGED <<kind, current, thread, made, queue, failed, late, clients, traces, past>>

(* finish_stream: an error goes out unless an output did; then the body ends. *)
Finishes(t) ==
    /\ task[t] = "finish" /\ task' = [task EXCEPT ![t] = "done"]
    /\ Emit(t, IF failed[t] THEN <<Frame("error")>> ELSE <<>>)
    /\ closed' = [closed EXCEPT ![t] = TRUE]
    /\ UNCHANGED <<kind, current, thread, made, queue, failed, late, clients, traces, past>>

----------------------------------------------------------------------------
(* The client reads what is there, reaches the end, or goes away.             *)
Reads(t) ==
    /\ kind[t] = "stream" /\ reader[t] = "reading"
    /\ \/ read[t] < Len(frames[t]) /\ read' = [read EXCEPT ![t] = @ + 1] /\ UNCHANGED reader
       \/ read[t] = Len(frames[t]) /\ closed[t]
          /\ reader' = [reader EXCEPT ![t] = "done"] /\ UNCHANGED read
    /\ UNCHANGED <<kind, current, thread, made, queue, task, failed, late, delivery, traces, past>>

GoesAway(t) ==
    /\ kind[t] = "stream" /\ reader[t] = "reading"
    /\ reader' = [reader EXCEPT ![t] = "gone"]
    /\ UNCHANGED <<kind, current, thread, made, queue, task, failed, late, delivery, read, traces, past>>

StreamInit ==
    /\ kind = [t \in Turns |-> "none"] /\ current = 0 /\ thread = "none"
    /\ made = [t \in Turns |-> 0] /\ queue = <<>>
    /\ task = [t \in Turns |-> "none"] /\ failed = [t \in Turns |-> FALSE] /\ late = FALSE
    /\ frames = [t \in Turns |-> <<>>]
    /\ ended = [t \in Turns |-> FALSE] /\ closed = [t \in Turns |-> FALSE]
    /\ read = [t \in Turns |-> 0] /\ reader = [t \in Turns |-> "reading"]
    /\ traces = [t \in Turns |-> <<>>]
    /\ past = {}

Worker == PutsSentinel \/ Returns
Owner(t) == Delivers(t) \/ WorkFailed(t) \/ Collects(t) \/ Clears(t) \/ Finishes(t)

StreamNext ==
    \/ Puts \/ Worker \/ Raises
    \/ \E t \in Turns :
        \/ \E k \in {"stream", "plain"} : Begin(t, k)
        \/ Pump(t) \/ Owner(t) \/ TrimFails(t) \/ Reads(t) \/ GoesAway(t)

StreamSpec == StreamInit /\ [][StreamNext]_streamVars

(* The event loop and the thread pool run what is ready, and a client that    *)
(* has not gone away reads on.                                                *)
FairStreamSpec ==
    /\ StreamSpec /\ WF_streamVars(Worker)
    /\ \A t \in Turns : WF_streamVars(Owner(t)) /\ WF_streamVars(Reads(t))

----------------------------------------------------------------------------
Frames == [type : {"trace", "timeout", "output", "error"}, of : 0..MaxTurns]

(* The variables have their types.                                            *)
StreamTypes ==
    /\ kind \in [Turns -> {"none", "stream", "plain"}] /\ current \in 0..MaxTurns
    /\ thread \in {"none", "runs", "ends", "returned", "raised"}
    /\ made \in [Turns -> 0..MaxEvents] /\ queue \in Seq(Turns \cup {Sentinel})
    /\ task \in [Turns -> {"none", "work", "retire", "finish", "done"}]
    /\ failed \in [Turns -> BOOLEAN] /\ late \in BOOLEAN
    /\ frames \in [Turns -> Seq(Frames)] /\ traces \in [Turns -> Seq(Turns)]
    /\ ended \in [Turns -> BOOLEAN] /\ closed \in [Turns -> BOOLEAN]
    /\ read \in [Turns -> Nat] /\ \A t \in Turns : read[t] <= Len(frames[t])
    /\ reader \in [Turns -> {"reading", "done", "gone"}]
    /\ past \subseteq {"raised"}

(* A client that read a body to its end has read exactly one ending, the last *)
(* frame, and it is the output precisely when the turn produced one: a failure*)
(* after the output is no second ending, and one before it is not silent      *)
(* (TurnStreamChannel, finish_stream).                                        *)
EveryBodyHasOneEnd ==
    \A t \in Turns : reader[t] = "done" =>
        /\ EndsOf(frames[t]) = {Len(frames[t])}
        /\ frames[t][Len(frames[t])].type = "error" => failed[t]

(* A streaming turn that produced its output has delivered every event of its *)
(* own, in front of the output (run_process_message_with_trace_stream).       *)
OutputFollowsItsTraces ==
    \A t \in Turns : (\E i \in DOMAIN frames[t] : frames[t][i] = Frame("output")) =>
        Cardinality({i \in DOMAIN frames[t] : frames[t][i].of = t}) = made[t]

Own(t) ==
    /\ \A i \in DOMAIN frames[t] : frames[t][i].of \in {0, t}
    /\ \A i \in DOMAIN traces[t] : traces[t][i] = t

(* As long as no work has raised, what a turn shows is its own.               *)
CalmTracesAreOwn == past = {} => \A t \in Turns : Own(t)

(* So a body that is read to its end has one ending, and shows before it the  *)
(* events of its turn, and of no other as long as no work has raised.         *)
BodiesAreWhole == EveryBodyHasOneEnd /\ OutputFollowsItsTraces /\ CalmTracesAreOwn

(* What the contract of the stream says of every frame: it names the execution*)
(* that produced it (TurnStreamChannel, ORDER AND DEDUPLICATION CONTRACT).    *)
TracesAreOwn == \A t \in Turns : Own(t)

(* A body that is read comes to its end, whatever becomes of the turn.        *)
EveryBodyEnds ==
    \A t \in Turns : (kind[t] = "stream" ~> reader[t] \in {"done", "gone"})
===============================================================================
