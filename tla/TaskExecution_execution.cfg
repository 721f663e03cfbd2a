SPECIFICATION Spec
CONSTANTS
    Benchmarks <- AllBenchmarks
    TestModePeriod = 1
    Weights = {2}
    QueueSize = 2
    DownsampleFactor = 2
    MaxDuration = 2
    BucketInterval = 2
INVARIANTS
    RunsAsConfigured
    TargetRespected
    OperationsNotLost
PROPERTIES
    TaskEnds
CHECK_DEADLOCK FALSE
