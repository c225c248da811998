SPECIFICATION QuietSpec
CONSTANTS
    Candidates = {c1, c2}
    NoCandidate = NoCandidate
    Wirings <- PostgresOnly
    ScanRows = {}
    MaxTradesPerHour = 1
INVARIANT SentIsRecorded
CHECK_DEADLOCK FALSE
