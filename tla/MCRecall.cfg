SPECIFICATION Spec
CONSTANTS
    a1 = a1
    a2 = a2
    Appenders = {a1, a2}
    Kinds = {"hit", "near", "out"}
    ContentLen <- Bytes
    FactLens <- Statements
    Requests <- SomeRequests
    K = 60
    Scale = 238266
    BytesPerToken = 4
    DefaultLimit = 2
    DefaultDepth = 2
    DefaultFactLimit = 2
    PageLimits = {1, 2}
    MaxAppendBatch = 2
    MaxAppends = 2
    MaxSeq = 3
    MaxNow = 2
    MaxErasures = 1
SYMMETRY Clients
INVARIANTS
    TypeOK
    ReplaySkipsNothing
    AppendedIsRecalled
    AnswersFromWhatWorked
    BestFirst
    BudgetKept
CHECK_DEADLOCK FALSE
