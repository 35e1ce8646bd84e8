CONSTANTS
    a1 = a1
    a2 = a2
    Attempts = {a1, a2}
    Servers = {s1, s2}
    Harness = Harness
    MaxEpoch <- Epochs
    MaxRestarts = 1
    MaxSegs <- SegsOf
    Needs = {1}
    Worlds <- Drivers
SPECIFICATION Spec
SYMMETRY Symmetry
CHECK_DEADLOCK FALSE
INVARIANTS ScoresAreEarned ArchiveSaysComplete
PROPERTIES VerdictsStand BindingsAreFenced
