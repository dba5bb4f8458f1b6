SPECIFICATION Spec
CONSTANTS
    Keys = {k1, k2}
    Metas = {m1, m2}
    Stamps = {s1}
    None = None
    Corrupt = Corrupt
    TornWrites = TRUE
    ReadFaults = FALSE
    MaxRuns = 3
CHECK_DEADLOCK FALSE
INVARIANT
    AcceptedSurvives
