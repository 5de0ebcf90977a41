CONSTANTS
    a = a
    b = b
    Proc = {p1, p2}
    Content <- MCContent
    WithPlan <- MCWithPlan
    Jobs <- MCJobs
    Absent = Absent
    Untracked = Untracked
    Note = Note
    MaxAttempts = 2
    MaxJobs = 1
    NumServers = 2
    Workers = {w1, w2}
    NumItems = 2
    Capacity = 1
    Lease = 1
    MaxTime = 1
    MaxOverlaps = 1
    Nobody = Nobody
    MaxReconnects = 2
    MaxCalls = 2
    IdeaProcs = {p1, p2}
    b1 = b1
    b2 = b2
    t = t
    Keys <- MCKeys
    Method <- MCMethod
    BurstSize = 2
    Budget = 2
    TopUp = 1
    MaxFaults = 2
    FreeLock = FreeLock
    DeadLock = DeadLock
    NoKey = NoKey
    s1 = s1
    s2 = s2
    s3 = s3
    Runners = {r1, r2}
    Slots <- MCSlots
    NumGroups = 2
    GroupOf <- MCGroupOf
    Producers <- MCProducers
    MaxTurns = 1
    MaxBoundaries = 1
    NoRunner = NoRunner
SPECIFICATION ServicesSpec
INVARIANTS ServicesTypeOK OneActiveItemPerRun ConnectedToOnlyServer CampaignLocked BurstImportedOnce TurnInOrder ReplayExact
PROPERTIES JobsEnd ImplementsLeasedQueue ImplementsCampaignStore ImplementsSession LeaseHonoured ExpiredLeaseEnds StopReleasesEverything ImplementsJournal
CHECK_DEADLOCK FALSE
