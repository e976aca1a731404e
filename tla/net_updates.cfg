\* A medium that loses nothing, and values shorter than two summaries.
SPECIFICATION FairSpec
CONSTANTS
    a = a
    b = b
    c = c
    VarId = {1, 2}
    NodeId = {a, b, c}
    MaxTime = 2
    MaxUpdates = 2
    Value <- ProducedValue
    ValueLen <- ShortValues
    MaxValueLength = 8
    MaxDescrLength = 1
    MaxRepetitions = 1
    MaxSummaries = 2
    MaxRecords = 255
    HeaderSize = 2
    FixedSize <- MCFixedSize
    SeqnoModulus = 8
    InitialEntry <- MCInitial
    MaxPayloadSize = 60
    MaxEntries = 2
    Scenarios <- TwoVariables
PROPERTIES UpdatesArrive
CHECK_DEADLOCK FALSE
