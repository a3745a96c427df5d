CONSTANTS
    request = request
    log = log
    query = query
    Batches = {b1}
    Types = {request, log, query}
    Cap <- SmallCap
    Primary = request
    Report = log
    BufferLimit <- SmallLimit
    LateGrace = TRUE
    MaxSeq = 3
    MaxDropped = 2
    MaxQueue = 1
    MaxFailures = 0
SPECIFICATION Spec
INVARIANTS
    EveryDropReported
