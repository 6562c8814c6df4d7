CONSTANTS
    Fibers = {f1, f2}
    Pollers = {p1, p2}
    Fds = {1}
    Events = {"READ", "WRITE"}
    InitSize = 2
    MaxGen = 1
    Cancelling = FALSE
    Closing = FALSE
    AddWhileClosing = FALSE
SPECIFICATION Spec
SYMMETRY FiberPollerSymmetry
INVARIANTS TriggerRegistered
