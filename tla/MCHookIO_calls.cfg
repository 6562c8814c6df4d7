CONSTANTS
    Threads = {t1, t2}
    Timers = {1, 2}
    Setups <- AllSetups
    NoTimeout = 99
    MaxCalls = 2
    MaxLosses = 1
    MaxTime = 2
SPECIFICATION MCSpec
  
PROPERTIES WaitEndsAlone
