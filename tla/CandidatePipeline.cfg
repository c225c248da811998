SPECIFICATION FairSpec
CONSTANTS
    Candidates = {c1, c2}
    NoCandidate = NoCandidate
    Wirings <- MCWirings
    ScanRows = {}
    MaxTradesPerHour = 1
INVARIANTS
    TypeOK
    DurableComplete
    ReturnedIsDurable
    FailedLeavesNoTrace
    SentAccounted
    AlertsAgree
PROPERTIES
    SendGated
    ProcessEnds
    ImplementsLedger
