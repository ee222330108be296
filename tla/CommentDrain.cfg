CONSTANTS
    w1 = w1
    w2 = w2
    Workers <- MCOneWorker
    NumComments = 2
    NumCampaigns = 1
    PublicReply <- MCNone
    DmLimit = 2
    JOB_ATTEMPTS = 2
    MAX_TOTAL_SEND_ATTEMPTS = 2
    MAX_NEW_PER_SWEEP = 1
    MAX_BURST_REQUEUE_ATTEMPTS = 0
    MaxHourlyRequeues = 0
    Blocks = {}
    Events = {"database", "crash"}
    MaxWebhooks = 1
    MaxRejects = 8
    MaxFaults = 1
SPECIFICATION Spec
INVARIANTS
    FailedSendsBounded
PROPERTIES
    JobsSettle
    
    
