SPECIFICATION FairSpec
CONSTANTS
    a1 = a1
    a2 = a2
    c1 = c1
    c2 = c2
    c3 = c3
    l1 = l1
    l2 = l2
    Apps = {a1, a2}
    Executors = {x1}
    Combiners = {l1, l2}
    Closures = {c1, c2, c3}
    Setups <- SmallSetups
    Null = Null
INVARIANTS
    OneThreadInside
    PopsInOrder
    FreedOnlyWhenUnused
    FinalListRunsBeforeUnlock
PROPERTIES
    EveryClosureRuns
\* Everything is done and every reference given back.
CHECK_DEADLOCK FALSE
