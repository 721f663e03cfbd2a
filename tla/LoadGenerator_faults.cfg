SPECIFICATION FairSpec
CONSTANTS
    w1 = w1
    w2 = w2
    c1 = c1
    c2 = c2
    c3 = c3
    Worker <- TwoWorkers
    Client <- ThreeClients
    WorkerOf <- TwoOnFirstWorker
    NumSteps = 1
    JoinIndex <- ParallelJoins
    Alloc <- ParallelAlloc
    TestMode = FALSE
    QueueSize = 1
    MaxSamples = 1
    Faults = {"start", "drive", "request", "postprocess", "crash"}
    Timely = TRUE
INVARIANTS
    StepAccounting
    StepProtocol
PROPERTIES
    StepsAreBarriers
    
    BenchmarkEnds
    
CHECK_DEADLOCK FALSE
