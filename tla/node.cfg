SPECIFICATION Spec
CONSTANTS
    ReqIDs = {a, b}
    MaxRequests = 3
    Env = {"early", "reuse", "bad_threads", "unprepared", "disconnect", "interrupt"}
INVARIANT
    OneDownloadPerReqID
    RegisteredWhileActive
PROPERTY
    DeathHasCause
