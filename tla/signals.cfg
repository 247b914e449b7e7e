SPECIFICATION SignalsSpec
CONSTANTS
    Length = 5
    FileSize = 5
    Counts = {1, 2}
    Ranged = {TRUE, FALSE}
    ReassignSize = 3
    AutoSpeed = FALSE
    ChunkSizes = {1, 2}
    OldSizes = {0}
    Env = {"error", "permanent", "norange", "disk", "record", "unopened", "kill"}
    MaxFaults = 2
INVARIANT
    NoByteReportedTwice
    CompletedIsTrue
PROPERTY
    PercentNeverFalls
    EndIsSignalled
