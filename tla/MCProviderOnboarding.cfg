CONSTANTS
    Workers = {w1, w2}
    Providers = {"p1", "p2", "p3"}
    Taken = {"p3"}
    Materials = {"m1"}
    SampleCounts = {1, 2}
    MaxOverlaps = 2
    Semvers <- SmallSemvers
    MetadataIds = {"x", "y"}
    MaxRecord = 4
    Baselines = {"b1"}
    SampleIds = {1, 2, 3}
    Samples <- SmallSamples
    Classes = {"normal", "edge"}
    Evidence = {"e1", "e2"}
    TicksPerDay = 2
    MinSamples = 2
    MinDays = 1
    MinPerClass = 1
    Quantum = 100
    MinSuccess = 50
    MaxDeviation = 2
    MaxLatencyRatio = 150
    MaxHistory = 6
SPECIFICATION MCSpec
INVARIANT VersionReviewSound RolloutEarned TimelineExplainsRollout DaysAddUp
SYMMETRY WorkerSymmetry
CHECK_DEADLOCK FALSE
