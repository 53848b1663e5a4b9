SPECIFICATION FairSpec
CONSTANTS
    b1 = b1
    Nil = Nil
    Holder <- PrimaryHolds
    N = 4
    Abm = 0
    Pbm = 0
    Faulty = {}
    Forgeable <- Silent
    Omitting = {3}
    Batches = {b1}
    T = 2
    K = 2
    AutoViewChange = FALSE
    FastTimeout = TRUE
    MaxSN = 1
    MaxView = 1
 
PROPERTIES Progress ImplementsOrderedLog
CHECK_DEADLOCK FALSE
