SPECIFICATION Spec
CONSTANTS
    Service = {"a", "a2", "b", "c"}
    Net <- MCNet
    Source = {"p", "q"}
    News <- MCNews
    Dialled = {"a"}
    NewBucketOf <- MCNewBucketOf
    TriedBucketOf <- MCTriedBucketOf
    NewBucketCount = 2
    TriedBucketCount = 1
    NewBucketSize = 1
    TriedBucketSize = 1
    NewBucketsPerAddress = 2
    InspectOnEvict = 4
    GetAddrMaxPct = 100
    GetAddrMax = 2
    Minute = 0
    Hour = 0
    Day = 1
    HorizonDays = 1
    MinFailDays = 1
    Retries = 1
    MaxFailures = 2
    Heard = {0, 1}
    Penalty = {0}
    MaxNow = 2
    MaxId = 3
    MaxAttempts = 1
INVARIANTS
    TypeOK
    TablesConsistent
    BucketsBounded
PROPERTIES
    ReachedKept
    RestartKeepsTables
