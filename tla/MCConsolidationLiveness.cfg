SPECIFICATION FairSpec
CONSTANTS
    r1 = r1
    r2 = r2
    MaxEpisodes = 2
    MaxJobs = 3
    Kinds = {"extract"}
    Claims = {"c1"}
    Says <- SameClaim
    Runners = {r1}
    MaxAttempts = 1
    MaxBatch = 2
    MaxTroubles = 1
PROPERTIES
    EveryEpisodeProjected
    ForgetEnds
CHECK_DEADLOCK FALSE
