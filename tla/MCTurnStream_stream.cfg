CONSTANTS
    MaxTurns = 2
    MaxEvents = 1
    Sentinel = Sentinel
SPECIFICATION FairStreamSpec
CHECK_DEADLOCK FALSE
INVARIANTS BodiesAreWhole
PROPERTIES EveryBodyEnds
