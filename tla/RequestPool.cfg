SPECIFICATION ProcessSpec
CONSTANTS
    Msgs <- Distrust
    Peers = {}
    SwitchAt = 0
    Free = Free
    MaxFailures = 0
    MaxExpiry = 2
    Replica = 0
    Cluster = 4
    BatchSize = 2
    Window = 2
    MaxRequests = 4
INVARIANTS RequestsAccounted
PROPERTIES RequestsProposed LeaderFollows
CHECK_DEADLOCK FALSE
