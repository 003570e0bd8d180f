SPECIFICATION Spec
CONSTANTS
    Timeout = {1, 2}
    MayMistype = TRUE
    KeyPoolTarget = 1
    MaxUnlocks = 2
    MaxNow = 4
INVARIANTS
    TypeOK
    TimerHasThread
PROPERTIES
    TimerLocks
    CallReturns
CHECK_DEADLOCK FALSE
