\* Ten ways to use the daemon, with two applications and an operator.
SPECIFICATION FairSpec
CONSTANTS
    VarId <- MCVarId
    Client <- MCClient
    Name <- MCName
    Scenarios <- MCScenarios
    MaxRequests = 3
    MaxSegments = 2
    MaxLives = 2
    MaxConns = 4
INVARIANT AnswersFit
PROPERTY RequestsServed
CHECK_DEADLOCK FALSE
