CONSTANTS
    b1 = b1
    t1 = t1
    s1 = s1
    r1 = r1
    c1 = c1
    IdeaProcs = {p1}
    Keys <- MCKeys
    Method <- MCMethod
    BurstSize = 1
    Budget = 2
    TopUp = 1
    MaxFaults = 1
    FreeLock = FreeLock
    DeadLock = DeadLock
    NoKey = NoKey
SPECIFICATION IdeaSpec
INVARIANTS ToppedUpOnce
CHECK_DEADLOCK FALSE
