SPECIFICATION FairSpec
CONSTANTS
    w1 = w1
    w2 = w2
    id1 = id1
    id2 = id2
    Null = Null
    MaxJobs = 2
    Works = {"encode1", "extract1"}
    Kinds = {"encode", "extract"}
    KindOf <- TwoKinds
    MaxAttempts <- OneOrTwo
    Delays = {0}
    Workers = {w1, w2}
    WorkerIds = {id1, id2}
    Reliable = {w1}
    IdOf <- OwnIds
    KindsOf <- Claims
    Skew <- FastClock
    Batch = 2
    Lease = 1
    BaseBackoff = 1
    MaxBackoff = 2
    Horizon = 1
    Clients = {"c1"}
    MaxOperations = 1
    OneOperator = TRUE
INVARIANTS
    TypeOK
    ConstraintsHold
    NoLimbo
    LiveLeaseHolds
    RunsBounded
PROPERTIES
    OnlyHolderReports
    ImplementsWorkList
    EverySettles
