CONSTANTS
    Channels = {ch1}
    Keys = {k1, k2, k3}
    Clients = {c1, c2}
    Args = {a1}
    NoKey = NoKey
    NoRequest = NoRequest
    MaxRetained = 1
    MaxAliases = 1
SPECIFICATION FairSpec
INVARIANTS SingleFlight LockDiscipline
PROPERTIES Retention ImplementsServiceFairly EveryRequestAnswered
