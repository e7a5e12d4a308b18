SPECIFICATION FairSpec
CONSTANTS
    Threads = {t1, t2, t3}
    Regs = {r1, r2}
    Nil = Nil
    Builds <- BothBuilds
INVARIANTS
    NotifiedAtMostOnce
    QuietAfterDispose
PROPERTIES
    NotCalledAfterDispose
    CallsReturn
    SnapshotNotified
\* A nil block ends the process, and observers that re-enter can deadlock.
CHECK_DEADLOCK FALSE
