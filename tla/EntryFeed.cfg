CONSTANTS
    all = all
    tagged = tagged
    MaxSequence = 5
    Old = {1, 2}
    OfType <- Type
    Scopes = {all, tagged}
    In <- Filters
    ListPage = 1
    ScanPage = 1
    Budgets <- Mixes
SPECIFICATION FairFeedSpec
INVARIANTS
    NothingStale
    Gapless
PROPERTIES
    CaughtUp
CHECK_DEADLOCK FALSE
