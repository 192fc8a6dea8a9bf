\* One client that asks three times, three results for two orders.
CONSTANTS
    s1 = s1
    s2 = s2
    o1 = o1
    o2 = o2
    Sessions = {s1}
    Orders = {o1, o2}
    NoOrder = NoOrder
    Malformed = Malformed
    Nobody = Nobody
    Results <- MCResultsAgain
    MaxRequests <- MCThreeRequests
SPECIFICATION Spec
CHECK_DEADLOCK FALSE
INVARIANTS
    ListsAreTrue
    AckedIsSubscribed
    NoStaleUpdates
    UpdatesInOrder
