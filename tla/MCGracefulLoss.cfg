SPECIFICATION Spec
CHECK_DEADLOCK FALSE
CONSTANTS
    Servers <- OnlyGood
    Scenarios <- MCGraceful
    HEALTH_POLLS = 1
    N = 2
    MAX_BATCH = 2
    CYCLES = 2
    SLACK = 1
INVARIANT GracefulLossIsReal
