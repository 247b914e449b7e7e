SPECIFICATION Spec
CONSTANTS
    Length = 4
    FileSize = 0
    Counts = {1}
    Ranged = {TRUE, FALSE}
    ReassignSize = 3
    AutoSpeed = TRUE
    ChunkSizes = {2}
    OldSizes = {0, 3}
    Env = {"error", "permanent", "norange", "cancel", "kill"}
    MaxFaults = 3
INVARIANT
    CompletedFileCorrect
