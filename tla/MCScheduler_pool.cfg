CONSTANTS
    Workers = {w1, w2}
    Caller = main0
    UseCaller = TRUE
    Jobs = {j1, j2}
    Callbacks = {j1}
    AnyThread = AnyThread
    Unpinned = FALSE
    MaxYields = 1
SPECIFICATION FairSpec
INVARIANTS NoFault StopDrains ExitIsFinal OneThreadPerFiber
PROPERTIES StopReturns ImplementsTaskPool
