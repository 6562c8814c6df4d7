CONSTANTS
    Workers = {w1}
    Caller = main0
    UseCaller = FALSE
    Items = {i1, i2}
    NoItem = NoItem
    Delays = {1}
    MaxTime = 3
    MAX_TIMEOUT = 1
    CallerDelays = {0, 1}
    CallerTimeout = 3
SPECIFICATION LiveSpec
INVARIANTS StopCompleteAlone
PROPERTIES StopReturns ItemsGetDone
