CONSTANTS
    x1 = x1
    x2 = x2
    x3 = x3
    y1 = y1
    y2 = y2
    Attempts <- MCAttempts
    Limits <- MCLimits
    LastMonth = 3
    Plans = {"starter"}
    Checkouts <- Ys
    Handlers <- Xs
    MaxSubs = 2
    MaxChanges = 2
    LastBucket = 1
SPECIFICATION PlanSpec
SYMMETRY Symmetry
INVARIANTS
    TypeOK
    QuotaIsKept
    NoLeakWithinMonth
PROPERTIES
    ClosedMonthsAreFinal
    ImplementsQuota
    BillingIsSound
CHECK_DEADLOCK FALSE
