SPECIFICATION Spec
CONSTANTS
    Settings <- ThreeKeysSettings
    KNumLevels = 4
    KMaxMemCompactLevel = 2
    KL0CompactionTrigger = 2
    MaxFiles = 6
    Nil = Nil
    x1 = x1
    i1 = i1
INVARIANTS
    MustNotOverlap
\* The bounds end the history.
CHECK_DEADLOCK FALSE
