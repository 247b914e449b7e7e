SPECIFICATION FairSpec
CONSTANTS
    ReqIDs = {a}
    MaxRequests = 2
    Env = {"reuse"}
PROPERTY
    RequestAnswered
