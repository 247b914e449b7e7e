SPECIFICATION FairFilesSpec
CONSTANTS
    Length = 5
    FileSize = 5
    Counts = {2}
    Ranged = {TRUE, FALSE}
    ReassignSize = 3
    AutoSpeed = FALSE
    ChunkSizes = {2}
    OldSizes = {0}
    Env = {"error", "permanent", "norange", "disk", "ftruncate", "premature", "short", "record", "locked", "cancel", "kill", "kill_opening", "kill_fallback", "kept", "kept_record", "unmoved", "changed"}
    MaxFaults = 2
INVARIANT
    TypeOK
    RecordTilesFile
    NoOrphanedRange
PROPERTY
    RunEnds
    DownloadCompletes
