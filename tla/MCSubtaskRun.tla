----------------------------- MODULE MCSubtaskRun -----------------------------
(* A request of two sub-tasks whose runs may be cut short, and requests that  *)
(* are, or end in, a call with a fan-out and with optional phases.            *)
EXTENDS SubtaskRun

P(over, bare, optional) == [over |-> over, bare |-> bare, optional |-> optional]
R(subtasks, calls, questions, faults) ==
    [subtasks |-> subtasks, calls |-> calls, questions |-> questions, faults |-> faults]

Mixed == <<P("one", FALSE, TRUE), P("each", TRUE, TRUE), P("one", FALSE, FALSE)>>
Fanned == <<P("until", FALSE, TRUE), P("one", TRUE, FALSE)>>
Small == <<P("one", FALSE, TRUE), P("one", TRUE, FALSE)>>

MCRequests ==
    {R(2, {}, 1, {}), R(1, {Mixed, Fanned}, 1, {}), R(2, {Small}, 1, {}),
     R(1, {Small}, 1, {"crash", "redeploy"})}
OneText == {R(1, {}, 1, {})}
OneCrash == {R(1, {}, 1, {"crash"})}
==============================================================================
