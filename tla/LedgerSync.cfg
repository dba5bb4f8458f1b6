SPECIFICATION Spec
CONSTANTS
    SyncEvery = 2
    SyncFaults = FALSE
    MaxWrites = 6
CHECK_DEADLOCK FALSE
INVARIANTS
    LossPerRun
    ClosedSurvives
