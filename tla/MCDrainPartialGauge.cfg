\* One write-path worker publishes no gauge.
CONSTANTS
    EdgeWorkers = {"auto_edge", "causal_edge"}
    Memories = {m1}
    HandoffPolls = 1
    QueuePolls = 1
    GaugeSets <- MCPartialGauge
    DRAIN_STABLE_POLLS = 4
    DRAIN_MIN_WAIT = 4
    DRAIN_MAX_WAIT = 9
    PLATEAU_POLLS = 7
SPECIFICATION Spec
INVARIANT EveryQueueEmptyWhenFlushed
