SPECIFICATION Spec
CONSTANTS
    Buckets = {b1}
    NoBucket = NoBucket
    Configs <- AllConfigs
    MaxChanges = 2
CHECK_DEADLOCK FALSE
INVARIANTS
    DarkIsFlagged
    NoBlindPenalty
    UnknownIsFlagged
    ExposedIsSelected
