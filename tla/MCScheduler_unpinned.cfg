CONSTANTS
    Workers = {w1, w2}
    Caller = main0
    UseCaller = TRUE
    Jobs = {j1, j2}
    Callbacks = {j1}
    AnyThread = AnyThread
    Unpinned = TRUE
    MaxYields = 1
SPECIFICATION Spec
SYMMETRY WorkerJobSymmetry
INVARIANT ResumeReady
