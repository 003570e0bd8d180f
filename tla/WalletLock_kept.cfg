SPECIFICATION Spec
CONSTANTS
    Timeout = {1, 2}
    MayMistype = FALSE
    KeyPoolTarget = 1
    MaxUnlocks = 2
    MaxNow = 4
PROPERTY KeyForgotten
CHECK_DEADLOCK FALSE
