\* Two calls fit the queue and the contexts, not with the heavy one among them;
\* a turn takes all of the queue or leaves one call behind.
SPECIFICATION Spec
CONSTANTS
    c1 = c1
    c2 = c2
    c3 = c3
    Calls <- MCCalls
    Weight <- MCWeight
    PendingLimit = 2
    PendingBytes = 2
    ContextLimit = 2
    ContextBytes = 2
    Budgets = {1, 2}
    MaxTimeout = 1
    StampBudgets = {1, 3}
SYMMETRY Symmetry
INVARIANTS
    ContextsExact
    TruthfulReport
    
    NoLostWakeup
CHECK_DEADLOCK FALSE
