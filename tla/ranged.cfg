SPECIFICATION Spec
CONSTANTS
    Length = 6
    FileSize = 6
    Counts = {2}
    Ranged = {TRUE}
    ReassignSize = 3
    AutoSpeed = TRUE
    ChunkSizes = {3}
    OldSizes = {0, 7}
    Env = {"error", "kill", "cancel"}
    MaxFaults = 1
INVARIANT
    CompletedFileCorrect
    NoOverlap
    NoOrphanedRange
PROPERTY
    RecordedProgressKept
