\* One key served by either of two targets, a seed that may be lost or lack
\* FindCoordinator.
SPECIFICATION Spec
CONSTANTS
    k1 = k1
    k2 = k2
    t1 = t1
    t2 = t2
    c1 = c1
    c2 = c2
    i1 = i1
    i2 = i2
    NoTarget = NoTarget
    Keys <- OneKey
    Targets <- TwoTargets
    Calls <- TwoCalls
    Tokens <- TwoTokens
    Timeouts = {2}
    KeyLimit = 1
    WaitLimit = 2
    InvalidationLimit = 1
    TurnBudget = 1
    SeedStates = {"Ready", "Unsupported", "Absent"}
    MaxEpoch = 3
    MaxMoment = 2
    RetryBackoff = 1
    MaxRetries = 1
SYMMETRY Symmetry
INVARIANTS
    OneDiscovery
    NoOrphanWaiter
PROPERTIES
    BarrierSound
CHECK_DEADLOCK FALSE
