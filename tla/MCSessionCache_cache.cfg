CONSTANTS
    c1 = c1
    c2 = c2
    v0 = v0
    v1 = v1
    z = z
    s1 = s1
    s2 = s2
    o1 = o1
    Channels = {a, b}
    Clients = {c1, c2}
    Values = {v0, v1}
    Fresh = v0
    Opaque = {z}
    Asks = {s1, s2}
    Opens = {o1}
    NoSuspension = NoSuspension
    Torn = Torn
    NoRecord = NoRecord
    NoChannel = NoChannel
    MaxLive = 1
    Worlds <- Service
SPECIFICATION Spec
SYMMETRY Symmetry
PROPERTIES SessionsInHand RetirementLosesNothing RestartKeepsWhatRests
