SPECIFICATION Spec
CONSTANTS
    NumScopes = 2
    MaxSeq = 2
    KindOrder <- BothKinds
    Target = 0
    Limit = 2
    BatchSize = 2
    ScopePage = 1
    MaxEvents = 2
INVARIANTS
    TypeOK
    EnteredScopesCovered
PROPERTIES
    WalkEnds
CHECK_DEADLOCK FALSE
