CONSTANTS
    Flushes = {f1, f2, f3, f4}
    MaxFaults = 2
SPECIFICATION TrimSpec
INVARIANTS
    RoundAfterWrite
