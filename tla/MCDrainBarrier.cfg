\* Three handoffs of one poll each fit under four stable polls; a legacy path of
\* 3 * (1 + 1) polls fits under a plateau of seven.
CONSTANTS
    EdgeWorkers = {"auto_edge", "causal_edge"}
    Memories = {m1}
    HandoffPolls = 1
    QueuePolls = 1
    GaugeSets <- MCWholeGauge
    DRAIN_STABLE_POLLS = 4
    DRAIN_MIN_WAIT = 4
    DRAIN_MAX_WAIT = 9
    PLATEAU_POLLS = 7
SPECIFICATION FairSpec
INVARIANTS
    TypeOK
    FlushedMeansSettled
    FlushedCountersAreFinal
PROPERTIES
    ImplementsContract
    EventuallyReturns
