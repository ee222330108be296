CONSTANTS
    w1 = w1
    w2 = w2
    m1 = m1
    t1 = t1
    t2 = t2
    NumCampaigns = 2
    Gated = {1}
    AnyWord = {2}
    Messages <- MCMessages
    Matches <- MCMatches
    Taps <- MCTaps
    TapOf <- MCTapOf
    Payloads <- MCPayloads
    Workers <- MCWorkers
    DmLimit = 2
    JOB_ATTEMPTS = 2
    MAX_BURST_REQUEUE_ATTEMPTS = 1
    MaxHourlyRequeues = 0
    Blocks = {"burst"}
    Pausable = {2}
    Events = {"crash", "lostAnswer", "limiter", "throttle", "evict", "refused", "blocked", "unknownFollow"}
    MaxPayloads = 2
    MaxDeliveries = 2
    MaxFaults = 1
    LastDay = 1
SPECIFICATION Spec
SYMMETRY Symmetry
CHECK_DEADLOCK FALSE
INVARIANTS
    
    FollowersOnly
    AnswersAreAccounted
