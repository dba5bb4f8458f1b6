SPECIFICATION Spec
CONSTANTS
    MaxLen = 4
    MaxTokens = 2
    PeekBytes = 2
    Inputs <- AllInputs
CHECK_DEADLOCK FALSE
INVARIANTS
    OffsetsExact
    MergeIsExact
    DocumentIsRead
    RunsStayApart
