CONSTANTS
    x1 = x1
    x2 = x2
    a1 = a1
    a2 = a2
    p1 = p1
    p2 = p2
    c1 = c1
    c2 = c2
    Editors <- Xs
    Sweepers = {1}
    Drafts <- MCDrafts
    MaxPosts = 3
    PageSize = 2
    MaxChanges = 2
    MaxVisits = 2
    MaxLinks = 4
    Listed = {c1, c2}
    OwnerOf <- MCOwnerOf
    MaxPresses = 2
    MaxLoads = 2
    Handlers <- Xs
    Clients = {a1, a2}
    Posts = {p1, p2}
    PostOwner <- MCPostOwner
    MaxRows = 4
    MaxAsks = 3
    WizAccounts <- Xs
    Nothing = Nothing
    MaxEdits = 4
    MaxCreates = 2
    MaxLeaves = 1
SPECIFICATION MCSpec
SYMMETRY Symmetry
CHECK_DEADLOCK FALSE
INVARIANTS
    ListIsSound
    CopiesAreSound
    DraftIsSound

    
