SPECIFICATION Spec
CONSTANTS
    N = 3
    Workers = {w1, w2}
    NoWorker = NoWorker
    UseNER = TRUE
INVARIANTS
    Accounted
    CounterExact
    NilMeansDrained
PROPERTIES
    KeepsContract
