\* Until the first race: two copies of a request against a deposit and an
\* opening, or two of each and a reader; with a failed database call and a
\* crash.
CONSTANTS
    u1 = u1
    o1 = o1
    m1 = m1
    copy1 = copy1
    d1 = d1
    d2 = d2
    c1 = c1
    c2 = c2
    g1 = g1
    Users = {u1}
    Orders = {o1}
    Messages = {m1, copy1}
    Request <- MCRequest
    Deposits = {d1, d2}
    Deposit <- MCDeposit
    Openings = {c1, c2}
    Owner <- MCOwner
    Readers = {g1}
    Inbox = Inbox
    Outbox = Outbox
    Pay = Pay
    Nobody = Nobody
    Limit = 3
    BatchLimit = 1
    MaxFaults = 1
    MaxCrashes = 1
SPECIFICATION Spec
CONSTRAINT UntilRaced
CHECK_DEADLOCK FALSE
INVARIANTS
    ReferencesValid
    NoPaymentSucceeds
    BooksBalance
    AnswersAreTrue
PROPERTIES
    ImplementsVerdicts
    VerdictsAreFinal
    OrphanBlocksService
