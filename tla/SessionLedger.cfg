SPECIFICATION Spec
CONSTANTS
    Keys = {k1, k2}
    Metas = {m1, m2}
    Stamps = {s1}
    None = None
    Corrupt = Corrupt
    TornWrites = TRUE
    ReadFaults = FALSE
    MaxRuns = 3
SYMMETRY Symmetry
CHECK_DEADLOCK FALSE
INVARIANTS
    OneRecordPerObject
    SingleTarget
    NoRescan
    AggregateMatchesLedger
    LossBounded
PROPERTIES
    LossIsConfined
    KeepsContract
