---------------------------- MODULE MCRecordSink ----------------------------
(* A turn that suspends once and one that does not; the queue holds two items *)
(* and the ring one.  An evidence run meets one failure of the database, two  *)
(* follow each other without one, and two archivers compete for the sink.     *)
EXTENDS RecordSink, TLC
CONSTANTS t1, t2

FinalOf == (t1 :> 2) @@ (t2 :> 1)
World(who, faults) == [who |-> who, faults |-> faults]
Calls == {World({Run}, 1), World(Archivers, 0), World({}, 2)}
BothFail == {World({Run}, 2)}
=============================================================================
