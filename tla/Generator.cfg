SPECIFICATION Spec
CONSTANTS
    ClusterSizes <- SmallClusters
    Unset = Unset
INVARIANTS SlowPathSound FastBatchReproposed FastBatchUnrivalled SlowBatchReported SlowKeyFits
CHECK_DEADLOCK FALSE
