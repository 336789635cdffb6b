SPECIFICATION Spec
CONSTANTS
    r1 = r1
    r2 = r2
    MaxEpisodes = 2
    MaxJobs = 2
    Kinds = {"encode", "extract"}
    Claims = {"c1"}
    Says <- SameClaim
    Runners = {r1, r2}
    MaxAttempts = 2
    MaxBatch = 2
    MaxTroubles = 2
INVARIANTS
    TypeOK
    NothingOutlivesItsSource
    DoneMeansProjected
    AppliedOnce
    MarkedMeansRead
    WholeErasureIsWhole
SYMMETRY Symmetric
CHECK_DEADLOCK FALSE
