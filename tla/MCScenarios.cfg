CONSTANTS
    SHARDS = 2
    POLLS = 1
SPECIFICATION ScenariosSpec
INVARIANTS
    FaultsAreCaught
    HealthyServerPasses
    PassLeavesNothing
PROPERTY
    ScenarioEnds
