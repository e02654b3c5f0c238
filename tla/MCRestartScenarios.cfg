SPECIFICATION Spec
CHECK_DEADLOCK FALSE
CONSTANTS
    Servers <- MCServers
    Scenarios <- MCScenarios
    HEALTH_POLLS = 1
    N = 3
    MAX_BATCH = 2
    CYCLES = 2
    SLACK = 1
INVARIANTS
    TypeOK
    PassMeansKept
    LossIsReal
    InFlightIsNew
    NothingLeftBehind
PROPERTY
    EveryScenarioEnds
