\* A request of each kind on a pool of three threads.
CONSTANTS
    Requests <- MCRequests
    Method <- MCMethod
    Path <- MCPath
    Threads = 3
SPECIFICATION FairSpec
CHECK_DEADLOCK FALSE
INVARIANTS
    TypeOK
PROPERTIES
    ForwardedIsAnswered
