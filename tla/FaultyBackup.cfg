SPECIFICATION Spec
CONSTANTS
    b1 = b1
    Nil = Nil
    Holder <- PrimaryHolds
    N = 4
    Abm = 0
    Pbm = 0
    Faulty = {3}
    Forgeable <- DoubleVoting
    Omitting = {}
    Batches = {b1, "phantom"}
    T = 2
    K = 2
    AutoViewChange = FALSE
    FastTimeout = TRUE
    MaxSN = 1
    MaxView = 1
INVARIANTS QcUnique ExecutedIsCertified
CHECK_DEADLOCK FALSE
