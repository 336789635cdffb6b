SPECIFICATION Spec
CONSTANTS
    r1 = r1
    r2 = r2
    live = live
    replay = replay
    paris = paris
    berlin = berlin
    hobby = hobby
    Runners = {r1}
    Extractors = {live, replay}
    Claims = {paris, berlin}
    Vocabulary = {paris, berlin}
    MaxEpisode = 2
    Occurred <- InTurn
    Batches <- OneByOne
    MaxNow = 3
    MaxEvent = 2
    Utterances = {}
    Says <- Moved
    Contradicts <- OneHome
    Faithful = TRUE
    Serial = TRUE
    KnownLimit = 2
    MaxAssertions = 2
    MaxRuns = 4
    MaxErasures = 0
INVARIANT ReplayReproduces
CHECK_DEADLOCK FALSE
