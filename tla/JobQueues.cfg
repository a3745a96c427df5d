SPECIFICATION Spec
CONSTANTS
    mail = mail
    twin = twin
    report = report
    digest = digest
    import = import
    first = first
    second = second
    third = third
    fourth = fourth
    nightly = nightly
    weekly = weekly
    hourly = hourly
    JobKey <- JobKeys
    TaskRuns <- MCTaskRuns
    TaskKey <- RunKeys
    MaxActive = 2
    MaxContexts = 5
    Draws <- Always
    BullJobs <- MCBullJobs
    MaxTracked = 1
    MaxAttempts <- Attempts
    TracedJobs <- MCTracedJobs
    MaxRetries = 1
    Mixes <- MCMixes
INVARIANTS
    EndsMeetStarts
    TaskRowsOwned
    CleanupDrains
CHECK_DEADLOCK FALSE
