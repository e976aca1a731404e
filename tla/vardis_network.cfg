\* Up to three nodes, one variable, lost beacons, crashes and deletions.
SPECIFICATION FairSpec
CONSTANTS
    a = a
    b = b
    c = c
    VarId = {1, 2}
    NodeId = {a, b, c}
    MaxTime = 2
    MaxUpdates = 2
    Value <- ProducedValue
    ValueLen <- LongValues
    MaxValueLength = 8
    MaxDescrLength = 1
    MaxRepetitions = 1
    MaxSummaries = 2
    MaxRecords = 255
    HeaderSize = 2
    FixedSize <- MCFixedSize
    SeqnoModulus = 8
    InitialEntry <- MCInitial
    MaxPayloadSize = 60
    MaxEntries = 2
    Scenarios <- MCScenarios
INVARIANTS OnePayloadBuffered NothingInvented
PROPERTIES NeverBackwards EventuallyKnown NewsSpreads DeletionSpreads
CHECK_DEADLOCK FALSE
