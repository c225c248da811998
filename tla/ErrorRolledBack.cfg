SPECIFICATION SharedSpec
CONSTANTS
    Candidates = {c1, c2}
    NoCandidate = NoCandidate
    Wirings <- MCWirings
    ScanRows = {s1, s2}
    MaxTradesPerHour = 2
INVARIANT ErrorRolledBack
