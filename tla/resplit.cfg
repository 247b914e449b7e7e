SPECIFICATION FilesSpec
CONSTANTS
    Length = 6
    FileSize = 6
    Counts = {2, 3}
    Ranged = {TRUE, FALSE}
    ReassignSize = 3
    AutoSpeed = FALSE
    ChunkSizes = {2, 3}
    OldSizes = {0, 7}
    Env = {"error", "permanent", "norange", "cancel", "kill", "disk", "record", "kept"}
    MaxFaults = 2
INVARIANT
    RecordOnDisk
    RecordTilesFile
PROPERTY
    ImplementsTransfer
