CONSTANTS
    request = request
    log = log
    query = query
    Batches = {b1}
    Types = {request, log, query}
    Cap <- SmallCap
    Primary = request
    Report = log
    BufferLimit <- SmallLimit
    LateGrace = TRUE
    MaxSeq = 4
    MaxDropped = 2
    MaxQueue = 2
    MaxFailures = 1
SPECIFICATION FairSpec
INVARIANTS
    RecordOrder
    SamplingDecision
    RefusalsAccounted
    CapRespected
PROPERTIES
    AcceptedNotLost
    LateEntriesDelivered
