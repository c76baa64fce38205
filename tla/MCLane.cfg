\* Every property of the lane on four generations and short deadlines.
SPECIFICATION FairSpec
CONSTANTS
    MaxEpoch = 4
    MaxRetry = 3
    MaxMoment = 6
    BaseDelay = 2
    MaxDelay = 3
    MaxTimer = 4
    Jitters = {0, 1}
    AddressCounts = {1, 2}
    InitialSizes = {0, 2, 3}
INVARIANTS
    GenerationOwned
    FullPass
    TruthfulClose
PROPERTIES
    SoundReopen
    LaneProgresses
CHECK_DEADLOCK FALSE
