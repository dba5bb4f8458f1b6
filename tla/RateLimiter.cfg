SPECIFICATION LimiterSpec
CONSTANTS
    w1 = w1
    w2 = w2
    Callers = {w1, w2}
    BurstFlag = 2
    Price = 2
    Scanners = 3
    Horizon = 5
CHECK_DEADLOCK FALSE
INVARIANTS
    CallsBounded
    WaitBounded
