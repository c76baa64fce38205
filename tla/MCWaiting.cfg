\* The build without debug assertions, which keeps the keys of departed calls.
SPECIFICATION Spec
CONSTANTS
    c1 = c1
    c2 = c2
    c3 = c3
    c4 = c4
    Calls <- MCCalls
    Rejecting <- MCRejecting
    Bytes <- MCBytes
    Capacity = 2
    ByteLimit = 3
    MaxSequence = 3
    DebugAssertions = FALSE
    Timeouts = {0, 1, 2}
    MaxMoment = 2
INVARIANTS
    Ledger
    DeadlinesCovered
    RejectionAhead
PROPERTIES
    KeepsRoom
CHECK_DEADLOCK FALSE
