CONSTANTS
    t1 = t1
    t2 = t2
    Turns = {t1, t2}
    Final <- FinalOf
    Archivers = {s1, s2}
    Run = Run
    QueueMax = 2
    RingMax = 1
    RetryMax = 1
    Worlds <- Calls
SPECIFICATION FairSinkSpec
CHECK_DEADLOCK FALSE
INVARIANTS AckedIsFinal NothingLostInSilence ArchivesAreWhole
PROPERTIES SinkComesToRest
