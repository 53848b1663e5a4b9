SPECIFICATION FairSpec
CONSTANTS
    b1 = b1
    b2 = b2
    Nil = Nil
    Holder <- PrimaryHolds
    N = 4
    Abm = 0
    Pbm = 0
    Faulty = {3}
    Forgeable <- Silent
    Omitting = {}
    Batches = {b1, b2}
    T = 3
    K = 4
    AutoViewChange = FALSE
    FastTimeout = TRUE
    MaxSN = 2
    MaxView = 2
PROPERTIES Progress ImplementsOrderedLog
CHECK_DEADLOCK FALSE
