SPECIFICATION WalletSpec
CONSTANTS
    NoBlock = NoBlock
    NotIndexed = NotIndexed
    Tx <- MCTx
    Vin <- MCVin
    NOut <- MCNOut
    CoinStake = {"s1", "s2"}
    ZeroValue <- MCZeroValue
    Unfit = {}
    Block <- MCBlock
    Genesis = "G"
    Pprev <- Tree
    Ancestors <- MCAncestors
    Height <- MCHeight
    Trust <- MCTrust
    Vtx <- MCVtx
    BadBlock = {"C3"}
    CoinbaseMaturity = 1
    LastCheckpoint = 0
    Checkpoint = {"B2"}
    MaxCrashes = 1
    Mine <- MCMine
    Dion = {"x", "p"}
    Shaded = {"y"}
    Projects = {"p"}
    Signed = {"a", "b", "d"}
    Relayed = {"a", "c"}
    Repairing = TRUE
    MaturityMargin = 1
INVARIANTS
    WalletTypeOK
    ConfirmedSpendsMarked
    ConfirmedRecorded
    FlagsExplained
    RefusedByPoolOnly
