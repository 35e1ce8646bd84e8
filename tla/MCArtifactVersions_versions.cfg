CONSTANTS
    base = base
    leaf = leaf
    t1 = t1
    t2 = t2
    Contexts = {base, leaf}
    Ancestors <- Above
    Trainers = {t1, t2}
    Nobody = Nobody
    MaxVersions = 3
    MaxEdits = 1
    Seeds <- SeedsOf
    Settings <- Publications
SPECIFICATION VersionsSpec
SYMMETRY Symmetry
CHECK_DEADLOCK FALSE
INVARIANTS RecoveryPointStands
PROPERTIES ReadersKeepTheirModels WhatIsKeptIsFresh
