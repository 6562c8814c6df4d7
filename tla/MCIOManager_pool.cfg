CONSTANTS
    Workers = {w1, w2}
    Caller = main0
    UseCaller = FALSE
    Items = {i1, i2}
    NoItem = NoItem
    Delays = {0, 1}
    MaxTime = 2
    MAX_TIMEOUT = 3
SPECIFICATION Spec
SYMMETRY WorkerItemSymmetry
INVARIANTS TimerCovered StopDrains
