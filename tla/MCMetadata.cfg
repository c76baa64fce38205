CONSTANTS
    b1 = b1
    b2 = b2
    topic = topic
    NoBroker = NoBroker
    Brokers <- MCBrokers
    Topics <- MCTopics
    Partitions = {1}
    QueryLimit = 1
    TopicLimit = 1
    MaxGeneration = 3
    c1 = c1
    c2 = c2
    Calls <- MCCalls
    NamedBrokers = {b2}
    Responses <- MCResponses
    Timeouts = {1}
    WaitLimit = 2
    InvalidationLimits = {1, 2}
    TurnBudget = 1
    SeedStates = {"Absent", "Unready", "Ready"}
    MaxStamp = 2
SYMMETRY CallSymmetry
SPECIFICATION Spec
INVARIANT FetchOwned
INVARIANT CausalFacts
INVARIANT WaitBacked
PROPERTY BarrierSound
CHECK_DEADLOCK FALSE
