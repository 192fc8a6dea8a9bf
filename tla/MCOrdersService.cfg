\* Two ordinary orders, a rejected one and a reader; one failed database call,
\* one crash.
CONSTANTS
    r1 = r1
    r2 = r2
    big = big
    g1 = g1
    Requests = {r1, r2, big}
    Malformed = {}
    Rejected = {big}
    Readers = {g1}
    Outbox = Outbox
    Nobody = Nobody
    BatchLimit = 2
    MaxFaults = 1
    MaxCrashes = 1
    MaxTime = 1
SPECIFICATION FairSpec
CHECK_DEADLOCK FALSE
INVARIANTS
    OutboxAtomicity
    ProcessedWasPublished
    AnswersAreTrue
    DuplicatesNeedFailures
PROPERTIES
    OldestPublishedFirst
    PendingIsForwarded
    OrphanBlocksService
    ImplementsPlacement
