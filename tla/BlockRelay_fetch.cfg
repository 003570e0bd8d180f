SPECIFICATION Spec
CONSTANTS
    NoBlock = NoBlock
    NoStake = "none"
    Genesis = "G"
    Block <- RelayBlock
    Pprev <- MCPprev
    Ancestors <- MCAncestors
    Height <- MCHeight
    Trust <- MCTrust
    Connects = {"G", "P", "A1", "A2", "B1", "B2", "Y"}
    Hardened = {"G"}
    Strict = TRUE
    Stake <- MCStake
    Time <- MCTime
    Drift = 3
    CheckFails = {}
    AcceptFails = {}
    Doubtful = {}
    InitialDownload = {FALSE}
    Signed = {"A2", "X"}
    MaxRestarts = 0
INVARIANTS
    ValidOrphanNotStuck
PROPERTIES
    OrphanResolved
    PendingResolved
CHECK_DEADLOCK FALSE
