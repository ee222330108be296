CONSTANTS
    x1 = x1
    x2 = x2
    y1 = y1
    y2 = y2
    f1 = f1
    f2 = f2
    i1 = i1
    i2 = i2
    b1 = b1
    w1 = w1
    w2 = w2
    Nowhere = Nowhere
    Workspaces <- Ys
    Instagrams = {i1, i2}
    Bots = {b1}
    AccountLimit = 1
    Accounts <- Ys
    WorkspaceOf <- Itself
    Sweeps = {1}
    DAYS_BEFORE_EXPIRY = 2
    Lifetime = 3
    MaxRows = 3
    LastDay = 5
    Readers <- Xs
    FOLLOWER_INSIGHT_MAX_DAYS = 3
    LastDate = 3
    Flows = {f1, f2}
    Visits <- Xs
    MaxSecrets = 2
    Persons <- Xs
    Spaces = {w1, w2}
    Primary = w1
    Nil = Nowhere
    MaxSignIns = 2
    MaxRuns = 2
SPECIFICATION ChannelsSpec
SYMMETRY Symmetry
CHECK_DEADLOCK FALSE
INVARIANTS
    PhoneIsOnesOwn
PROPERTIES
    ConnectionsAreSound
    RefreshIsSound
    HistoryIsSound
