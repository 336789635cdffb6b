SPECIFICATION Spec
CONSTANTS
    r1 = r1
    r2 = r2
    live = live
    replay = replay
    paris = paris
    berlin = berlin
    hobby = hobby
    Runners = {r1, r2}
    Extractors = {live}
    Claims = {paris, berlin, hobby}
    Vocabulary = {paris, berlin}
    MaxEpisode = 2
    Occurred <- InTurn
    Batches <- EachAndBoth
    MaxNow = 2
    MaxEvent = 3
    Utterances <- SomeUtterances
    Says <- Moved
    Contradicts <- OneHome
    Faithful = FALSE
    Serial = FALSE
    KnownLimit = 1
    MaxAssertions = 2
    MaxRuns = 3
    MaxErasures = 1
SYMMETRY Workers
INVARIANTS
    TypeOK
    FactsAreMarked
    ReadClaimsStand
PROPERTIES
    HistoryOnlyCloses
    OnlyShownFactsClose
CHECK_DEADLOCK FALSE
