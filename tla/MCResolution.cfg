\* Bootstrap, a route and an endpoint refresh compete for two permits and
\* channels of one slot; the worker may block for ever or die.
SPECIFICATION HostSpec
CONSTANTS
    Brokers = {b1}
    RefreshLanes = {r1}
    PendingCapacity = 2
    RequestCapacity = 1
    OutcomeCapacity = 1
    OutcomeBudget = 1
    MaxEffect = 4
    MaxEpoch = 3
    MaxMoment = 1
    MaxRetry = 2
    BaseDelay = 1
    MaxDelay = 2
    Grace = 1
    Endpoints = 2
    Jitters = {0}
    WakeResults = {TRUE, FALSE}
    DebugAssertions = TRUE
INVARIANTS
    PermitsBalanced
    HostSurvives
    OneBootstrapLookup
    SeedSucceeded
PROPERTIES
    LookupsAnswered
    ShutdownCompletes
CHECK_DEADLOCK FALSE
