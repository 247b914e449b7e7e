SPECIFICATION FairSpec
CONSTANTS
    MaxQueries = 2
    Env = {"timeout"}
INVARIANT
    AnswersAreOwn
