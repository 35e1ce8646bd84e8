---------------------------- MODULE MCSessionCache ----------------------------
(* SessionCache on small instances.  Two clients meet checkpoint writes that  *)
(* fail; one client meets open commands, turns that raise, the end of the     *)
(* server, and the retention thread.                                          *)
EXTENDS SessionCache, TLC
CONSTANTS c1, c2, v0, v1, z, s1, s2, o1

World(failing, who, left, asks) ==
    [faults |-> failing, clients |-> who, values |-> left, suspensions |-> asks]
Alone(failing, left, asks) == {World(failing, {c}, left, asks) : c \in {c1, c2}}
Service ==
    {World({"publish"}, {c1, c2}, {v1}, {s1})}
        \cup Alone({"publish"}, {v1}, {s1, o1})
        \cup Alone({"stop", "tear"}, {v1, z}, {s1})
        \cup Alone({"reap blob"}, {v1}, {s1})
        \cup Alone({"raise", "stop"}, {v1}, {o1})
Encoding == Alone({"encoding"}, {v0, v1}, {s1, s2})

Symmetry == Permutations(Channels) \cup Permutations({c1, c2})
===============================================================================
