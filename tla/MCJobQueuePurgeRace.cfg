SPECIFICATION Spec
CONSTANTS
    w1 = w1
    w2 = w2
    id1 = id1
    id2 = id2
    Null = Null
    MaxJobs = 1
    Works = {"encode1"}
    Kinds = {"encode", "extract"}
    KindOf <- TwoKinds
    MaxAttempts <- TwoAttempts
    Delays = {0}
    Workers = {w1, w2}
    WorkerIds = {id1, id2}
    Reliable = {w1}
    IdOf <- OwnIds
    KindsOf <- Claims
    Skew <- NoSkew
    Batch = 1
    Lease = 1
    BaseBackoff = 1
    MaxBackoff = 2
    Horizon = 1
    Clients = {"c1"}
    MaxOperations = 2
    OneOperator = FALSE
PROPERTIES
    PurgeSparesOwed
