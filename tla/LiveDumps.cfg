CONSTANTS
    query = query
    model = model
    dumps = dumps
    t1 = t1
    t2 = t2
    Names <- Order
    Early = model
    Kind <- Kinds
    MaxFailures = 1
    Tabs = {t1, t2}
    HeartbeatInterval = 1
    LeaseTime = 3
    Scenes <- Mixes
    MaxMoves = 2
SPECIFICATION FairSceneSpec
INVARIANTS
    TeardownLeavesNothing
    BuiltOnce
    LeaseFollowsPage
PROPERTIES
    PhasesEnd
    HeardWhileFocused
    SilentWhenLeft
CHECK_DEADLOCK FALSE
