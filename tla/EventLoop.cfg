SPECIFICATION FairSpec
CONSTANTS
    Venues = {"v1", "v2"}
    Pairs = {"p1"}
    QueueSize = 1
    IterationLimits = {0, 2}
INVARIANTS
    StopBoundsWork
PROPERTIES
    DisabledNeverQueued
    StopEnds
    ControlsTakeEffect
    ScansResume
    QueueServed
CHECK_DEADLOCK FALSE
