SPECIFICATION FairSpec
CONSTANTS
    b1 = b1
    b2 = b2
    Nil = Nil
    Holder <- PrimaryHolds
    N = 4
    Abm = 1
    Pbm = 0
    Faulty = {3}
    Forgeable <- Silent
    Omitting = {}
    Batches = {b1, b2}
    T = 1
    K = 4
    AutoViewChange = TRUE
    FastTimeout = FALSE
    MaxSN = 2
    MaxView = 2
INVARIANTS TypeOK ViewChangeReports StableCheckpointBacked NothingBeyondSwitch
PROPERTIES CheckpointsStabilise
CHECK_DEADLOCK FALSE
