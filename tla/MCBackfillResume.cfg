SPECIFICATION Spec
CONSTANTS
    NumScopes = 3
    MaxSeq = 2
    KindOrder <- OneKind
    Target = 0
    Limit = 2
    BatchSize = 2
    ScopePage = 2
    MaxEvents = 0
INVARIANTS
    WalkCovers
CHECK_DEADLOCK FALSE
