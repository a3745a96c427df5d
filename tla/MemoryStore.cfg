CONSTANTS
    Unset = "unset"
    NoFamily = "none"
    Calls <- MCCalls
    Queries <- MCQueries
    MaxEntries = 4
    PageSize = 1
SPECIFICATION MemorySpec
INVARIANTS
    IndexesAgree
    WalkComplete
CHECK_DEADLOCK FALSE
