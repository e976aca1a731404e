SPECIFICATION FairSpec
CONSTANTS
    me = me
    n1 = n1
    va = va
    VarId = {1, 2}
    NodeId = {me, n1}
    Me = me
    Value = {va}
    ValueLen <- MCValueLen
    MaxValueLength = 1
    MaxDescrLength = 1
    MaxRepetitions = 2
    MaxSummaries = 1
    MaxRecords = 2
    HeaderSize = 1
    FixedSize <- MCFixedSize
    SeqnoModulus = 4
    InitialEntry <- MCInitial
    Payloads <- ForeignAndMany
    CreateRequests <- CreateOwn
    UpdateRequests <- UpdateOwn
    DeleteRequests <- DeleteOwn
    MaxPayloadSize = 7
    LockIndividually = TRUE
    BatchSize = 50
    Threads = {"rx", "tx", "mgmt"}
    MaxTime = 0
    MaxInputs = 2
INVARIANTS PayloadWellFormed HeaderHonoured
PROPERTIES Drained
