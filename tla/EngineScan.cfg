SPECIFICATION Spec
CONSTANTS
    MaxFiles = 3
    MaxHits = 3
    MaxLine = 6
    Inputs <- SomeInputs
CHECK_DEADLOCK FALSE
INVARIANTS
    LoadIsComplete
    ValidIsReported
    FindingsSound
    LinesAreExact
PROPERTIES
    Terminates
