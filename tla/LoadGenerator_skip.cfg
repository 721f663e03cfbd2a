SPECIFICATION FairSpec
CONSTANTS
    w1 = w1
    w2 = w2
    c1 = c1
    c2 = c2
    c3 = c3
    Worker <- TwoWorkers
    Client <- TwoClients
    WorkerOf <- OnePerWorker
    NumSteps = 1
    JoinIndex <- TwoRowJoins
    Alloc <- TwoRowCompletingAlloc
    TestMode = FALSE
    QueueSize = 1
    MaxSamples = 1
    Faults = {}
    Timely = TRUE
PROPERTIES
    BenchmarkEnds
CHECK_DEADLOCK FALSE
