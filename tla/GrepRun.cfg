SPECIFICATION Spec
CONSTANTS
    Keys = {k1, k2}
    Metas = {m1}
    Stamps = {s1}
    None = None
    Corrupt = Corrupt
    TornWrites = TRUE
    ReadFaults = FALSE
    MaxRuns = 2
    WarnObjects = 2
CHECK_DEADLOCK FALSE
INVARIANTS
    ScanIsAuthorized
    LargeScanIsAgreed
    CompleteIsOnRecord
PROPERTIES
    EstimateIsFree
    Ends
