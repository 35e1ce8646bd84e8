--------------------------- MODULE MCExperimentStore ---------------------------
(* Two declared attempts; the first can change hands once, the second cannot. *)
(* A harness run can be resumed once with a segment of its own.               *)
EXTENDS ExperimentStore, TLC
CONSTANTS a1, a2

Epochs == (a1 :> 2) @@ (a2 :> 1)
SegsOf == ("harness" :> 2) @@ ("external" :> 1)
World(driver, around) == [driver |-> driver, around |-> around]
Drivers == {World("harness", {"seal", "prune", "forget"}),
            World("harness", {"clear"}),
            World("harness", {"release", "force"}),
            World("external", {"seal", "prune"}),
            World("external", {"forget"})}
Symmetry == Permutations(Servers)
================================================================================
