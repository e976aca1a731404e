\* Thirteen ways to use the daemon, with two client protocols and an operator.
SPECIFICATION FairSpec
CONSTANTS
    Protocol <- MCProtocol
    Client <- MCClient
    MaxQueueLength = 2
    HeaderSize = 1
    PayloadHeaderSize = 1
    MaxBeaconSize = 5
    Scenarios <- MCScenarios
    MaxPayloads = 2
    MaxPackets = 2
    MaxRestarts = 1
    MaxConns = 3
INVARIANTS TypeOK CleanDaemonLives RegisteredIsServed
PROPERTIES PayloadsInOrder NewestKept MutexComesBack ShutsDown
CHECK_DEADLOCK FALSE
