SPECIFICATION Spec
CONSTANTS
    w1 = w1
    w2 = w2
    c1 = c1
    c2 = c2
    c3 = c3
    Worker <- TwoWorkers
    Client <- ThreeClients
    WorkerOf <- TwoOnFirstWorker
    NumSteps = 2
    JoinIndex <- StepsJoins
    Alloc <- StepsAlloc
    TestMode = FALSE
    QueueSize = 1
    MaxSamples = 1
    Faults = {"request", "interrupt"}
    Timely = TRUE
INVARIANTS
    NoStaleCompletion
PROPERTIES
    NoResultsOfFailedTasks
CHECK_DEADLOCK FALSE
