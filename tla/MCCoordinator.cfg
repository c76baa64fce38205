\* The safety of one machine: late, repeated and superseded answers, failures
\* delivered late, two targets.
SPECIFICATION Spec
CONSTANTS
    t1 = t1
    t2 = t2
    NoTarget = NoTarget
    Targets <- MCTargets
    MaxEpoch = 4
    MaxMoment = 2
    RetryBackoff = 1
    MaxRetries = 1
    MaxOp = 5
    MaxStamp = 7
SYMMETRY TargetSymmetry
INVARIANTS
    CausalRoute
PROPERTIES
    EpochsIncrease
