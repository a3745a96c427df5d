CONSTANTS
    p = p
    q = q
    Processes = {p, q}
    Keys <- TwoKeys
    Payload <- ThreeCalls
    Cap = 1
    Backlog = 2
    MaxBusy = 1
SPECIFICATION FairSpec
INVARIANTS
    CountCovers
PROPERTIES
    NeverOvercut
    HonestPort
    SaveAnswered
