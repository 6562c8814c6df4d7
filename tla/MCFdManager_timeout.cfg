CONSTANTS
    Hooked = {"t1"}
    Main = "main"
    FdNumbers = {1}
    InitFds = 2
    MaxOpens = 1
    MainCloses = FALSE
SPECIFICATION FdSpec
INVARIANTS TimeoutRecorded
CHECK_DEADLOCK FALSE
