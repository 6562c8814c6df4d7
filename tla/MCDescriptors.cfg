CONSTANTS
    \* FdEvents
    Fibers = {f1, f2}
    Pollers = {p1, p2}
    GrowFibers = {f3, f4, f5}
    GrowPollers = {p3}
    Fds = {2, 3}
    Events = {"READ"}
    InitSize = 2
    MaxGen = 2
    Cancelling = TRUE
    Closing = TRUE
    AddWhileClosing = FALSE
    \* FdManager
    Hooked = {"t1", "t2"}
    Main = "main"
    FdNumbers = {1, 2}
    InitFds = 2
    MaxOpens = 3
    MainCloses = FALSE
    \* TimerManager
    Timers = {1, 2}
    IdleThreads = {"p1"}
    Ms = {1, 2}
    LastMs = 3
SPECIFICATION MCSpec
SYMMETRY MCSymmetry
INVARIANTS
    NoFault
    RecordsMatch
    
    FreshContext
    FlagsRight
    SleepCovers
    RecurringStaysArmed
