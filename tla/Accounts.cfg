CONSTANTS
    u0 = u0
    u1 = u1
    u2 = u2
    r1 = r1
    r2 = r2
    x1 = x1
    x2 = x2
    Users <- MCUsers
    Owner = u0
    Accounts <- MCAccounts
    Requests <- MCRequests
    MaxInvites = 2
    Handlers <- MCRequests
    MaxVerifyAttempts = 2
    MaxCodes = 2
    email = email
    ip = ip
    global = global
    verify = verify
    Keys = {email, ip, global, verify}
    Endpoints <- MCEndpoints
    LimitOf <- MCLimitOf
    Calls <- MCRequests
    plain = plain
    alias = alias
    noAddress = noAddress
    google = google
    apple = apple
    Addresses = {plain, alias}
    MailboxOf <- MCMailboxOf
    Subs = {google, apple}
    AddressOf <- MCAddressOf
    NoAddress = noAddress
    SignIns <- MCRequests
    MaxUsers = 2
    MaxWorkspaces = 2
    noPhone = noPhone
    session1 = session1
    Rows <- MCRows
    MailboxOfRow <- MCMailboxOfRow
    Phones <- MCAccounts
    NoPhone = noPhone
    FreeLimit = 2
    Sessions = {session1}
    Jobs <- MCRequests
SPECIFICATION AccountsSpec
SYMMETRY Symmetry
CHECK_DEADLOCK FALSE
INVARIANTS
    CodesAreSound
    LimiterIsSound
PROPERTIES
    MembershipIsSound
    IdentitiesAreSound
    AccountsAreSound
