CONSTANTS
    w1 = w1
    w2 = w2
    Workers <- MCWorkers
    NumComments = 1
    NumCampaigns = 2
    PublicReply <- MCNone
    DmLimit = 1
    JOB_ATTEMPTS = 2
    MAX_TOTAL_SEND_ATTEMPTS = 3
    MAX_NEW_PER_SWEEP = 1
    MAX_BURST_REQUEUE_ATTEMPTS = 1
    MaxHourlyRequeues = 0
    Blocks = {"burst"}
    Events = {"redis", "aging", "evictCompleted"}
    MaxWebhooks = 0
    MaxRejects = 1
    MaxFaults = 1
SPECIFICATION Spec
SYMMETRY Symmetry
INVARIANTS
    TypeOK
    UsageMatchesDeliveries
