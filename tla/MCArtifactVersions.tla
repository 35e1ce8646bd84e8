------------------------- MODULE MCArtifactVersions -------------------------
EXTENDS ArtifactVersions, TLC

CONSTANTS base, leaf, t1, t2

(* The commands of base feed the wildcard class of leaf.                      *)
Above == [c \in {base, leaf} |-> IF c = leaf THEN {base} ELSE {}]

(* The edit of base's commands leaves their seed utterances as they were.     *)
SeedsOf == [c \in {base, leaf} |-> [e \in 0..1 |-> IF c = leaf THEN e ELSE 0]]

World(together, old, faults, edits, versions) ==
    [together |-> together, legacy |-> old, faults |-> faults, edits |-> edits,
     versions |-> versions]
Publications ==
    {World(TRUE, {}, {}, {base}, 2), World(TRUE, {}, {}, {}, 3),
     World(FALSE, {base, leaf}, {"crash"}, {base}, 3), World(FALSE, {}, {}, {base, leaf}, 3),
     World(FALSE, {}, {"crash"}, {base}, 3), World(FALSE, {}, {"crash", "damage"}, {}, 3)}
EditedMeanwhile == {World(FALSE, {}, {}, {base}, 3)}
KilledOnly == {World(FALSE, {}, {"crash"}, {}, 3)}
Overlapping == {World(TRUE, {}, {}, {base}, 3)}
Migrating == {World(TRUE, {base,leaf}, {}, {}, 3)}

Symmetry == Permutations(Trainers)
===============================================================================
