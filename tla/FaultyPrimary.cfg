SPECIFICATION Spec
CONSTANTS
    b1 = b1
    b2 = b2
    Nil = Nil
    Holder <- PrimaryHolds
    N = 4
    Abm = 0
    Pbm = 0
    Faulty = {0}
    Forgeable <- Equivocating
    Omitting = {}
    Batches = {b1, b2}
    T = 2
    K = 2
    AutoViewChange = FALSE
    FastTimeout = FALSE
    MaxSN = 1
    MaxView = 2
SYMMETRY BatchSymmetry
INVARIANTS QcUnique ViewChangeReports
CHECK_DEADLOCK FALSE
