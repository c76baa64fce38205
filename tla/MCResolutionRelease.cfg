\* The same instance in a build without debug assertions.
SPECIFICATION Spec
CONSTANTS
    Brokers = {b1}
    RefreshLanes = {r1}
    PendingCapacity = 2
    RequestCapacity = 1
    OutcomeCapacity = 1
    OutcomeBudget = 2
    MaxEffect = 6
    MaxEpoch = 3
    MaxMoment = 2
    MaxRetry = 2
    BaseDelay = 1
    MaxDelay = 2
    Grace = 1
    Endpoints = 2
    Jitters = {0}
    WakeResults = {TRUE}
    DebugAssertions = FALSE
INVARIANTS
    PermitsBalanced
CHECK_DEADLOCK FALSE
