\* What README.md says of reports: one upload and its analysis, undisturbed.
CONSTANTS
    u1 = u1
    u2 = u2
    u3 = u3
    r1 = r1
    a1 = a1
    Uploads = {u1}
    Readers = {}
    Analyses = {a1}
    Nobody = Nobody
    Lost = Lost
    NoMatch = NoMatch
    NoPath = NoPath
    Empty = Empty
    Garbled = Garbled
    Student <- MCStudent
    Content <- MCContent
    Name <- MCName
    MaxClock = 0
    MaxFaults = 0
SPECIFICATION Spec
CHECK_DEADLOCK FALSE
PROPERTIES
    AnalysesAreReported
