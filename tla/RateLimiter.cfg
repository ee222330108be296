CONSTANTS
    j1 = j1
    j2 = j2
    j3 = j3
    j4 = j4
    j5 = j5
    Jobs <- MCJobs5
    BURST_LIMIT_MAX = 2
    BURST_LIMIT_WINDOW = 1
    RATE_LIMIT_MAX = 2
    RATE_LIMIT_WINDOW = 3
    MAX_BURST_REQUEUE_ATTEMPTS = 1
    BURST_REQUEUE_DELAY = 2
    REQUEUE_DELAY = 1
    MaxCrashes = 1
SPECIFICATION Spec
INVARIANTS
    LimitsAreKept
PROPERTIES
    EveryJobSettles
