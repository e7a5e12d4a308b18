SPECIFICATION FairSpec
CONSTANTS
    Threads = {t1, t2, t3}
    Conts = {c1, c2}
    Kinds = {result, cancelled}
    Nil = Nil
INVARIANTS
    TypeOK
    ContinuationsConserved
    NoCallbackStranded
    NoLostWakeup
    OneWinner
PROPERTIES
    StableEnumeration
    RefinesPromise
    RefinesFairPromise
    WaitersReturn
