SPECIFICATION FairSpec
CONSTANTS
    VarId = {1, 2, 3}
    NodeId = {1, 2, 3}
    Value <- NatValue
    SeqnoModulus = 8
    VarLen = 1
    DescrLen = 14
    MaxVariableLen = 32
    MaxDescriptionLen = 32
    MaxRepetitions = 2
    MaxNumSummaries = 2
    MaxPacketSize = 54
    Scenarios <- AllScenarios
    InitBeaconLen = 8
    StaleDataTimeout = 1
    MaxTime = 2
    MaxBacklog = 1
    MaxHeard = 2
INVARIANTS NeverThrows DatabasesCoherent
PROPERTIES NeverBackwards EveryoneInformed
