SPECIFICATION Spec
CONSTANTS
    Benchmarks <- LongTask
    TestModePeriod = 1
    Weights = {1}
    QueueSize = 2
    DownsampleFactor = 1
    MaxDuration = 1
    BucketInterval = 4
INVARIANTS
    OperationsCountedOnce
CHECK_DEADLOCK FALSE
