SPECIFICATION Spec
CONSTANTS
    NoBlock = NoBlock
    NoStake = "none"
    Genesis = "G"
    Block <- ResetBlock
    Pprev <- MCPprev
    Ancestors <- MCAncestors
    Height <- MCHeight
    Trust <- MCTrust
    Connects = {"G", "P", "A1", "B1", "B2", "B3", "C3", "C4", "Q"}
    Hardened = {"G", "B2"}
    Strict = TRUE
    Stake <- MCStake
    Time <- MCTime
    Drift = 3
    CheckFails = {}
    AcceptFails = {}
    Doubtful = {"C3"}
    InitialDownload = {TRUE, FALSE}
    Signed = {"B1", "B3", "C4"}
    MaxRestarts = 2
INVARIANTS
    TypeOK
    OrphanPointersLive
    StakeSeenOrphanReleased
    SyncInBestChain
PROPERTIES
    SyncAdvances
CHECK_DEADLOCK FALSE
