\* Two users and two orders, the payment of one requested; one change of the
\* user or one broken connection, at most two requests under way.
CONSTANTS
    u1 = u1
    u2 = u2
    Users = {u1, u2}
    FirstUser = u1
    Sockets = {1, 2, 3, 4, 5}
    None = None
    MaxOrders = 2
    MaxWaiting = 1
    MaxUpsets = 1
    MaxRequests = 1
    MaxCopies = 1
SPECIFICATION FairSpec
CHECK_DEADLOCK FALSE
INVARIANTS
    TypeOK
    ListIsRight
    StatusIsVerdict
    SocketsAreOwned
PROPERTY
    VerdictIsShown
