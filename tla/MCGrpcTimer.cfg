SPECIFICATION FairSpec
CONSTANTS
    Timers = {t1, t2}
    Deadlines = {1, 3}
    Pool = {p1, p2, p3}
    Deltas = {1}
    MaxNow = 5
    LastInit = 3
    AtmMax = 8
    Nobody = Nobody
PROPERTIES
    EveryTimerIsCalled
INVARIANTS
    CalledOnceAndInTime
    LateOnlyAfterALostWakeup
\* gRPC is shut down.
CHECK_DEADLOCK FALSE
