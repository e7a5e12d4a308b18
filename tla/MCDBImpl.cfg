SPECIFICATION FairSpec
CONSTANTS
    Budgets <- SmallBudgets
    Nil = Nil
    WriteBufferSize = 0
    MaxGroup = 2
    CompactionTrigger = 1
    SlowdownTrigger = 1
    StopTrigger = 2
INVARIANTS
    AcknowledgedIsReadable
    ManifestFilesExist
    SequenceNumbersUnique
PROPERTIES
    ContentsOnlyGrow
    WritesReturn
\* All calls have been made and no restart is left.
CHECK_DEADLOCK FALSE
