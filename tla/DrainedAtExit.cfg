SPECIFICATION FairSpec
CONSTANTS
    Venues = {"v1", "v2"}
    Pairs = {"p1"}
    QueueSize = 1
    IterationLimits = {0, 2}
INVARIANT DrainedAtExit
CHECK_DEADLOCK FALSE
