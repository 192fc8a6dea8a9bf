\* Two clients that ask once, one of them perhaps for the order of the result.
CONSTANTS
    s1 = s1
    s2 = s2
    o1 = o1
    o2 = o2
    Sessions = {s1, s2}
    Orders = {o1, o2}
    NoOrder = NoOrder
    Malformed = Malformed
    Nobody = Nobody
    Results <- MCOneResult
    MaxRequests <- MCOneRequest
SPECIFICATION FairSpec
CHECK_DEADLOCK FALSE
INVARIANTS
    AckedIsSubscribed
PROPERTIES
    ImplementsNotifications
    UpdatesArrive
