SPECIFICATION SystemSpec
CONSTANTS
    ReqIDs = {a, b}
    MaxRequests = 2
    Env = {"disconnect", "unprepared"}
    ClientEnv = {"timeout"}
INVARIANT
    OwnAnswers
PROPERTY
    ImplementsQuery
    QueryIsAnswered
    AcceptedIsReported
