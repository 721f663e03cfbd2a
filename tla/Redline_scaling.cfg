SPECIFICATION FairSpec
CONSTANTS
    w1 = w1
    w2 = w2
    c1 = c1
    c2 = c2
    Worker <- TwoWorkers
    Client <- TwoClients
    WorkerOf <- OnePerWorker
    NumSteps = 1
    ScaleStep = 2
    ScaleDownPct = 50
    ProbeInterval = 2
    QueueSize = 1
INVARIANTS
    CounterIsExact
    CeilingRespected
    OneLateRequest
    ScalingFollowsSteps
PROPERTIES
    ErrorsAreAnswered
    LoadRecovers
CHECK_DEADLOCK FALSE
