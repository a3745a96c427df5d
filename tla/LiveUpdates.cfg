CONSTANTS
    t1 = t1
    t2 = t2
    None = None
    Tabs = {t1, t2}
    HeartbeatInterval = 2
    LeaderTimeout = 5
    Budgets <- Mixes
SPECIFICATION FairLiveSpec
INVARIANTS
    NeverOutOfReach
PROPERTIES
    Converges
    AloneMissesNothing
CHECK_DEADLOCK FALSE
