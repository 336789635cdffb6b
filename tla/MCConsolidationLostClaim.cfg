SPECIFICATION FairSpec
CONSTANTS
    r1 = r1
    r2 = r2
    MaxEpisodes = 2
    MaxJobs = 3
    Kinds = {"extract"}
    Claims = {"c1"}
    Says <- SameClaim
    Runners = {r1}
    MaxAttempts = 2
    MaxBatch = 1
    MaxTroubles = 1
PROPERTIES
    ClaimsAreDerived
CHECK_DEADLOCK FALSE
