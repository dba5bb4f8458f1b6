SPECIFICATION Spec
CONSTANTS
    Keys = {k1, k2}
    Metas = {m1}
    Stamps = {s1}
    None = None
    Corrupt = Corrupt
    TornWrites = FALSE
    ReadFaults = FALSE
    MaxRuns = 2
    WarnObjects = 0
CHECK_DEADLOCK FALSE
INVARIANT
    CompleteMeansScanned
