SPECIFICATION LateSpec
CONSTANTS
    b1 = b1
    b2 = b2
    Nil = Nil
    null = null
    NullBatch = null
    Holder <- NoneHeld
    N = 4
    Abm = 0
    Pbm = 0
    Faulty = {3}
    Forgeable <- Forgetful
    Omitting = {}
    Batches = {b1, b2, null}
    T = 1
    K = 2
    AutoViewChange = FALSE
    FastTimeout = FALSE
    EarlyTimeouts = FALSE
    MaxSN = 3
    MaxView = 3
INVARIANTS ViewTypeOK NewViewKeepsBatches ViewEnteredByQuorum
PROPERTIES  ViewChangeCompletes
CHECK_DEADLOCK FALSE
