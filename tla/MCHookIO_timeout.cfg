CONSTANTS
    Threads = {t1}
    Timers = {1}
    Setups <- ConnectOnly
    NoTimeout = 99
    MaxCalls = 1
    MaxLosses = 0
    MaxTime = 2
SPECIFICATION FairSpec
PROPERTIES TimeoutReturns
