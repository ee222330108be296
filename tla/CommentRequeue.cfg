CONSTANTS
    w1 = w1
    w2 = w2
    Workers <- MCWorkers
    NumComments = 1
    NumCampaigns = 1
    PublicReply <- MCFirst
    DmLimit = 1
    JOB_ATTEMPTS = 2
    MAX_TOTAL_SEND_ATTEMPTS = 3
    MAX_NEW_PER_SWEEP = 1
    MAX_BURST_REQUEUE_ATTEMPTS = 2
    MaxHourlyRequeues = 2
    Blocks = {"burst", "hourly"}
    Events = {"redis", "database", "manualReply"}
    MaxWebhooks = 1
    MaxRejects = 2
    MaxFaults = 2
SPECIFICATION Spec
SYMMETRY Symmetry
INVARIANTS
    NoOverlap
PROPERTY
    ImplementsLifecycle
