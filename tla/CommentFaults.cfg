CONSTANTS
    w1 = w1
    w2 = w2
    Workers <- MCWorkers
    NumComments = 1
    NumCampaigns = 1
    PublicReply <- MCFirst
    DmLimit = 3
    JOB_ATTEMPTS = 2
    MAX_TOTAL_SEND_ATTEMPTS = 2
    MAX_NEW_PER_SWEEP = 1
    MAX_BURST_REQUEUE_ATTEMPTS = 1
    MaxHourlyRequeues = 0
    Blocks = {"burst"}
    Events = {"crash", "timeout", "writeFails", "token", "database", "cleanup"}
    MaxWebhooks = 1
    MaxRejects = 1
    MaxFaults = 2
SPECIFICATION Spec
SYMMETRY Symmetry
INVARIANTS
    SentHasDm
    RepliedIsTrue
    NoUnchargedDm
    RepeatsAreExplained
