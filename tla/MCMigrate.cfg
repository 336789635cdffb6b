SPECIFICATION FairSpec
CONSTANTS
    p1 = p1
    p2 = p2
    Procs = {p1, p2}
    Requests <- SomeRequests
    MaxCalls = 3
    MaxFaults = 1
    MaxDims = 1
    TextConfigs = {"english", "french"}
    Schemas = {"public", "ext"}
INVARIANTS
    TypeOK
    LedgerTellsTheSchema
    SnapshotStaysCurrent
    SuccessHolds
    StoreFits
PROPERTIES
    OnlyOwnHistoryGrows
    CallsReturn
CHECK_DEADLOCK FALSE
