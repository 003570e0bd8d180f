SPECIFICATION Spec
CONSTANTS
    NotIndexed = NotIndexed
    AnyBlock = AnyBlock
    Tx <- MCTx
    Vin <- MCVin
    NOut <- MCNOut
    CoinStake = {}
    ZeroValue = {}
    Unfit = {}
    Large = {"x"}
    MaxOrphans = 2
INVARIANTS
    TypeOK
    OrphanIndexExact
    OrphansBounded
    NoOrphanLeftBehind
    HandlerSettles
PROPERTIES
    HandlerReturns
CHECK_DEADLOCK FALSE
