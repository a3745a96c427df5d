CONSTANTS
    b1 = b1
    b2 = b2
    Browsers = {b1, b2}
    Wanted <- TwoApplications
    MaxSequence = 4
    MaxClients = 2
    Limit = 2
    Buffer <- SmallAndLarge
    MaxFaults = 1
    MaxDrops = 1
    MaxTicks = 1
SPECIFICATION FairSpec
INVARIANTS
    NothingInTheGap
    NothingAfterClose
PROPERTIES
    BrowserCatchesUp
CHECK_DEADLOCK FALSE
