\* Races and what follows them: a request, a deposit and an opening.  Calls
\* through dangling references may end the process.
CONSTANTS
    u1 = u1
    o1 = o1
    m1 = m1
    copy1 = copy1
    d1 = d1
    d2 = d2
    c1 = c1
    c2 = c2
    g1 = g1
    Users = {u1}
    Orders = {o1}
    Messages = {m1}
    Request <- MCRequest
    Deposits = {d1}
    Deposit <- MCDeposit
    Openings = {c1}
    Owner <- MCOwner
    Readers = {}
    Inbox = Inbox
    Outbox = Outbox
    Pay = Pay
    Nobody = Nobody
    Limit = 3
    BatchLimit = 1
    MaxFaults = 0
    MaxCrashes = 0
SPECIFICATION FairSpec
CHECK_DEADLOCK FALSE
INVARIANTS
    BooksBalance
PROPERTIES
    VerdictsAreFinal
    ResultsAreForwarded
