\* Three uploads, a reader or an analysis; a failure or a crash.
CONSTANTS
    u1 = u1
    u2 = u2
    u3 = u3
    r1 = r1
    a1 = a1
    Uploads = {u1, u2, u3}
    Readers = {r1}
    Analyses = {a1}
    Nobody = Nobody
    Lost = Lost
    NoMatch = NoMatch
    NoPath = NoPath
    Empty = Empty
    Garbled = Garbled
    Student <- MCStudent
    Content <- MCContent
    Name <- MCName
    MaxClock = 1
    MaxFaults = 1
SPECIFICATION Spec
CONSTRAINT OneAsks
CHECK_DEADLOCK FALSE
INVARIANTS
    FilesMatchHashes
    AcknowledgedIsServed
    NoFalseAccusation
    CopiesAreFlagged
