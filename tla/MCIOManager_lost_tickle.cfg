CONSTANTS
    Workers = {w1}
    Caller = main0
    UseCaller = FALSE
    Items = {i1}
    NoItem = NoItem
    Delays = {1}
    MaxTime = 2
    MAX_TIMEOUT = 3
SPECIFICATION Spec
INVARIANTS WakeOnTask
