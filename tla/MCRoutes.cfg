SPECIFICATION Spec
CONSTANTS
    None = None
    e1 = e1
    e2 = e2
    c1 = c1
    c2 = c2
    Brokers = {1, 2, 3, 4, 5}
    Traffic = {1, 2}
    Directories <- MCDirectories
    Calls = {c1, c2}
    ClassOf <- MCClassOf
    Targets <- MCTargets
    Rejecting = {c1}
    Expiring = {c1}
    Fragile = {1}
    FamilyCapacity = 2
    Budget = 1
    LaneTurnBudget = 1
    PermitLimit = 2
    MaxDnsEpoch = 3
    MaxLaneEpoch = 2
INVARIANTS
    NoHostFault
    NothingStranded
    ReadyMeansWork
PROPERTY
    RightAddresses
CHECK_DEADLOCK FALSE
