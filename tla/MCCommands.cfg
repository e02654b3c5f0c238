CONSTANTS
    Workers = {"w1", "w2"}
    VERBS = 2
    CAP = 4
    MAX_CALLS = 1
    REAPS_IN_TIME = TRUE
    DURATION = 3
    SAMPLE_EVERY = 1
    PROBE = 2
    FLOOR = 1
    MAX_DRIFT = 2
    MAX_GROWTH = 2
    Facets = {"a", "b", "c"}
    Primary = "a"
    Questions = {"q1", "q2", "q3"}
    facetOf <- MCFacetOf
    SETTLE_POLLS = 1
    GROUPS = 2
    TURNS = 2
    QUESTIONS = 2
    DRAIN_ATTEMPTS = 2
    LIMITS = {0, 3, 5}
    POLL_ATTEMPTS = 2
    InFlight = {"i1", "i2"}
    MAX_RETRIES = 3
    FileResults <- MCFileResults
    FILE_LINES = 3
SPECIFICATION CommandsSpec
INVARIANTS
    CommandsTypeOK
    UnderTheCap
    CleanMeansNoDefect
    EveryMintReachesItsServer
    CorrectnessMeansNothingBroke
    HealthyMeansProbed
    PassIsTheScope
    RollupAddsUp
    AskedWhereItsTurnsAre
    FallbacksAreReported
    UngradedMovesNothing
    ExitZeroIsEarned
    SelfBootedServerIsRemoved
PROPERTY
    EveryCommandExits
