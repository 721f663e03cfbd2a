SPECIFICATION Spec
CONSTANTS
    h1 = h1
    h2 = h2
    l1 = l1
    l2 = l2
    e1 = e1
    e2 = e2
    e3 = e3
    local = local
    remote = remote
    Host = {h1, h2}
    Ip = {local, remote}
    IpOf <- LocalAndRemote
    Localhost = local
    NodesOn <- OneAndTwoNodes
    Pipelines = {TRUE}
    EngineFaults = {}
    LoadHost = {l1, l2}
    Executor = {e1, e2, e3}
    HostOf <- TwoAndOneExecutors
    TaskCount <- TwoProcessors
    PrepFaults = {"prepare", "workload", "executor", "task", "processor", "death"}
    MaxTasks = 1
    Faults = {}
INVARIANTS
    EachTaskOnce
    PreparedMeansAllDone
SYMMETRY ExecutorSymmetry
CHECK_DEADLOCK FALSE
