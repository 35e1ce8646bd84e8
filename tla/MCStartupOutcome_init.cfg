CONSTANTS
    Clients = {c1, c2}
    MaxTurns = 3
SPECIFICATION Spec
SYMMETRY Symmetry
CHECK_DEADLOCK FALSE
INVARIANTS StartupStands
