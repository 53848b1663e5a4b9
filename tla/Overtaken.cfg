SPECIFICATION FairSpec
CONSTANTS
    b1 = b1
    Nil = Nil
    Holder <- PrimaryHolds
    N = 4
    Abm = 1
    Pbm = 0
    Faulty = {3}
    Forgeable <- Following
    Omitting = {}
    Batches = {b1}
    T = 1
    K = 2
    AutoViewChange = FALSE
    FastTimeout = FALSE
    MaxSN = 1
    MaxView = 1
PROPERTIES EveryReplicaExecutes
CHECK_DEADLOCK FALSE
