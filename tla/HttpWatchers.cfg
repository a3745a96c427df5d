SPECIFICATION FairSpec
CONSTANTS
    page = page
    asset = asset
    query = query
    fetch = fetch
    request = request
    Requests <- MCRequests
    Works <- MCWorks
    Calls <- MCCalls
    Primary = request
    MaxFailures = 1
    Refused <- MCRefused
    CaptureStatic = TRUE
    Origin <- MCOrigin
INVARIANTS
    CleanupLeavesNothing
PROPERTIES
    KeepsContract
    EveryRequestDecided
CHECK_DEADLOCK FALSE
