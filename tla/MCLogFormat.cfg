SPECIFICATION Spec
CONSTANTS
    kBlockSize = 5
    kHeaderSize = 2
    Lengths = {0, 1, 4}
    MaxRecords = 3
    MaxCrashes = 2
    MaxErrors = 1
    Reuse = {TRUE, FALSE}
INVARIANTS
    OnlyWholeRecords
    AcknowledgedIsReadBack
    CrashIsNotCorruption
\* The log has been read for the last time.
CHECK_DEADLOCK FALSE
