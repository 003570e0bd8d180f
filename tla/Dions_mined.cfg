SPECIFICATION Spec
CONSTANTS
    Tx <- MCTx
    Op <- OpOf
    Alias <- AliasOf
    Prev <- PrevOf
    NoTx = NoTx
    NoEntry = NoEntry
    scaleMonitor = 2
    MIN_SET_DEPTH = 1
    XscanHeight = 2
    Registered <- MCRegistered
    MaxHeight = 5
    MaxBlockTx = 2
    MaxForks = 0
    MaxRestarts = 0
INVARIANTS
    MinedBlockConnects
CHECK_DEADLOCK FALSE
