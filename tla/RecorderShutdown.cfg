CONSTANTS
    Entries = {e1, e2}
    Hosts = {h}
    MaxGen = 3
SPECIFICATION FairSpec
INVARIANTS
    ShutdownDelivers
PROPERTIES
    ShutdownEnds
CHECK_DEADLOCK FALSE
