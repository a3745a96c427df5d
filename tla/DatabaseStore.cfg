CONSTANTS
    Keys <- TwoKeys
    ForeignKeys <- TwoForeign
    Payload <- FourCalls
    Cap = 1
    Backlog = 2
    Attempts = 3
    MaxFaults = 3
SPECIFICATION FairSpec
INVARIANTS
    EveryLossCounted
PROPERTIES
    HidingPort
    TrimKeepsNewest
    SaveSettles
