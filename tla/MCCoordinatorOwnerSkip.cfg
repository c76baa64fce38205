\* Two keys and one withdrawal: the entry that a sweep passes over matters.
SPECIFICATION FairSpec
CONSTANTS
    k1 = k1
    k2 = k2
    t1 = t1
    t2 = t2
    c1 = c1
    c2 = c2
    i1 = i1
    i2 = i2
    NoTarget = NoTarget
    Keys <- TwoKeys
    Targets <- OneTarget
    Calls <- TwoCalls
    Tokens <- OneToken
    Timeouts = {2}
    KeyLimit = 2
    WaitLimit = 2
    InvalidationLimit = 1
    TurnBudget = 2
    SeedStates = {"Ready"}
    MaxEpoch = 3
    MaxMoment = 2
    RetryBackoff = 1
    MaxRetries = 1
PROPERTIES
    InvalidationSettles
CHECK_DEADLOCK FALSE
