CONSTANTS
    x1 = x1
    x2 = x2
    x3 = x3
    u1 = u1
    u2 = u2
    k1 = k1
    k2 = k2
    Letters = {"a", "b", "e", "i", "s", "y"}
    Emoji = {"*"}
    Examples <- MCExamples
    MIN_FUZZY_KEYWORD_LENGTH = 5
    Requests <- Xs
    Updates = {u1, u2}
    Words = {k1, k2}
    Says <- MCSays
    MaxAutomations = 2
    ReplyLimit = 1
    MaxDeliveries = 2
    MaxEdits = 2
    Events <- MCEvents
    Threshold = 1
    BucketTicks = 2
    KeyTicks = 3
    Attempts = 2
    LastTick = 5
    Nobody = Nobody
    People <- Xs
    MaxToken = 2
    MaxAttempts = 1
SPECIFICATION MessagesSpec
SYMMETRY Symmetry
CHECK_DEADLOCK FALSE
INVARIANTS
    RepliesAreSound
    
    KeywordsAreFound

    
