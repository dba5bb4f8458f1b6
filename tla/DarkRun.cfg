SPECIFICATION Spec
CONSTANTS
    b1 = b1
    b2 = b2
    NoBucket = NoBucket
    Buckets <- TwoBuckets
    Names = {1, 2, 3}
    Large <- OneLarge
    Sample = 2
    MaxRuns = 2
CHECK_DEADLOCK FALSE
INVARIANTS
    CompleteCoversSample
    SampleIsStable
    NoRescan
PROPERTIES
    Ends
