SPECIFICATION FairSpec
CONSTANTS
    o1 = o1
    o2 = o2
    Opps = {o1, o2}
    NumUrls = 2
INVARIANTS
    KillSwitchStops
    SentAfterSimulation
    AnswerAccountsForSent
    HealthyEndpointAnswers
PROPERTIES
    VerdictGrounded
    ExecutionEnds
