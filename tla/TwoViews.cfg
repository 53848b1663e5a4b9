SPECIFICATION TwoViewsSpec
CONSTANTS
    b1 = b1
    b2 = b2
    Nil = Nil
    null = null
    NullBatch = null
    Holder <- NoneHeld
    N = 4
    Abm = 0
    Pbm = 0
    Faulty = {3}
    Forgeable <- Voting
    Omitting = {}
    Batches = {b1, b2, null}
    T = 1
    K = 2
    AutoViewChange = FALSE
    FastTimeout = FALSE
    EarlyTimeouts = FALSE
    MaxSN = 2
    MaxView = 3
INVARIANTS ExecutionAgreement
CHECK_DEADLOCK FALSE
