SPECIFICATION Spec
CONSTANTS
    Tx <- MCTx
    Op <- OpOf
    Alias <- AliasOf
    Prev <- PrevOf
    NoTx = NoTx
    NoEntry = NoEntry
    scaleMonitor = 3
    MIN_SET_DEPTH = 1
    XscanHeight = 2
    Registered <- MCRegistered
    MaxHeight = 5
    MaxBlockTx = 2
    MaxForks = 1
    MaxRestarts = 1
INVARIANTS
    IndexIsTitle
    PendingPooled
    MinedKeepsHolder
CHECK_DEADLOCK FALSE
