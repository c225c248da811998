SPECIFICATION UnhurriedSpec
CONSTANTS
    Candidates = {c1, c2}
    NoCandidate = NoCandidate
    Wirings <- LiveOnly
    ScanRows = {}
    MaxTradesPerHour = 1
INVARIANT HourlyTradesBounded
CHECK_DEADLOCK FALSE
