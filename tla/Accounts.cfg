SPECIFICATION AccountsSpec
CONSTANTS
    u1 = u1
    u2 = u2
    e1 = e1
    NoEmail = NoEmail
    Users = {u1, u2}
    Handlers = {h1, h2}
    Roles = {"MASTER", "ADMIN"}
    InitialRows <- StartRows
    Months = {1, 2}
    Emails = {e1}
    Files <- Sheets
    MaxSequence = 3
    MaxRows = 3
    MaxRequests = 4
INVARIANTS ExchangedOnce SessionsFollowLogins MastersRemain UploadsDoNotCollide
PROPERTIES OnlyActiveRefreshes KeepsSessions
CHECK_DEADLOCK FALSE
