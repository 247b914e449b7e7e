SPECIFICATION FairSpec
CONSTANTS
    MaxQueries = 3
    Env = {"timeout", "async", "close", "lost", "unserved"}
INVARIANT
    TypeOK
    AnswersAreOwnOrLate
    AnswersAreUsedOnce
    NoAnswerOnlyAfterClose
PROPERTY
    TimedQueryEnds
    DisconnectWakes
