SPECIFICATION WindowsSpec
CONSTANTS
    MaxTokens = 6
    Texts <- ShortTexts
    MaxLengths = {3, 4, 5}
    OverlapSizes = {0, 1, 2, 4}
CHECK_DEADLOCK FALSE
INVARIANTS
    EntityIsFound
    OffsetsAbsolute
    WindowsAdvance
