CONSTANTS
    Incarnations = {i1, i2}
    Contents = {v1, v2}
    Nothing = Nothing
    MaxGeneration = 4
    MaxFaults = 2
SPECIFICATION Spec
SYMMETRY Symmetry
INVARIANTS CommittedIsWhole FreshNumber
PROPERTIES ImplementsRegister EvidencePreserved
