SPECIFICATION ProcessSpec
CONSTANTS
    Msgs <- SwitchTraffic
    Peers = {p1}
    SwitchAt = 1
    Free = Free
    MaxFailures = 2
    MaxExpiry = 2
    Replica = 0
    Cluster = 4
    BatchSize = 2
    Window = 1
    MaxRequests = 0
INVARIANTS LoopTypeOK TimerFollowsView   
PROPERTIES MessagesHandled
CHECK_DEADLOCK FALSE
