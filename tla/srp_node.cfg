\* A table with room for three or five neighbours, own safety data, applications that die.
SPECIFICATION FairSpec
CONSTANTS
    NodeId <- MCNodeId
    OwnNodeId = 3
    KeepaliveTimeout = 2
    ScrubbingTimeout = 1
    Scenarios <- MCScenarios
INVARIANTS TypeOK GeneratesCurrentData
PROPERTIES TableIsMap SilentNeighboursGo
CHECK_DEADLOCK FALSE
