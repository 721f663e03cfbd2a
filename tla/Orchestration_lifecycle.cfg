SPECIFICATION FairSpec
CONSTANTS
    h1 = h1
    h2 = h2
    l1 = l1
    l2 = l2
    e1 = e1
    e2 = e2
    e3 = e3
    local = local
    remote = remote
    Host = {h1, h2}
    Ip = {local, remote}
    IpOf <- LocalAndRemote
    Localhost = local
    NodesOn <- OneAndTwoNodes
    Pipelines = {TRUE, FALSE}
    EngineFaults = {"provision", "dispatch", "start", "launch", "stop", "exit"}
    LoadHost = {l1}
    Executor = {e1}
    HostOf <- OneExecutor
    TaskCount <- TaskEach
    PrepFaults = {"prepare", "workload", "executor", "task", "processor"}
    MaxTasks = 1
    Faults = {"setup", "created", "stored", "task", "results", "load", "interrupt"}
INVARIANTS
    EngineUpUnderLoad
PROPERTIES
    NoResultsAfterBadNews
    EveryBenchmarkAnswered
    NothingLeftRunning
CHECK_DEADLOCK FALSE
