SPECIFICATION Spec
CONSTANTS
    NoBlock = NoBlock
    NotIndexed = NotIndexed
    Tx <- MCTx
    Vin <- MCVin
    NOut <- MCNOut
    CoinStake = {}
    ZeroValue <- MCZeroValue
    Unfit = {}
    Block <- MCBlock
    Genesis = "G"
    Pprev <- MCPprev
    Ancestors <- MCAncestors
    Height <- MCHeight
    Trust <- MCTrust
    Vtx <- MCVtx
    BadBlock = {}
    CoinbaseMaturity = 1
    LastCheckpoint = 0
    Checkpoint = {"A2"}
    MaxCrashes = 1
INVARIANT BestInValidWay
CHECK_DEADLOCK FALSE
