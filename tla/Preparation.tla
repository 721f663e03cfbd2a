---------------------------- MODULE Preparation ----------------------------
(***************************************************************************)
(* Workload preparation: the WorkerCoordinatorActor before StartBenchmark, *)
(* one WorkloadPreparationActor per load generating host, and its          *)
(* TaskExecutionActors, each with one thread.  The workload processors run *)
(* one after the other; the tasks of a processor are handed out to the     *)
(* executors one by one.  The orchestrator writes to_coordinator and reads *)
(* from_coordinator (module Orchestration).                                *)
(*                                                                         *)
(* A task is the pair of its processor and its index.                      *)
(***************************************************************************)
EXTENDS Integers, Sequences, FiniteSets

CONSTANTS
    LoadHost,      \* load_worker_coordinator_hosts
    Executor,      \* the task executors, each on one host
    HostOf,        \* executor -> load host
    TaskCount,     \* the number of tasks of each processor, in their order
    PrepFaults     \* which failures the environment may inject

PrepFaultKinds ==
    {"prepare", "workload", "executor", "task", "processor", "death"}

ASSUME PreparationAssumption ==
    /\ IsFiniteSet(LoadHost) /\ LoadHost # {} /\ IsFiniteSet(Executor)
    /\ HostOf \in [Executor -> LoadHost]
    /\ \A p \in LoadHost : \E e \in Executor : HostOf[e] = p
    /\ TaskCount \in Seq(Nat) /\ TaskCount # <<>>
    /\ PrepFaults \subseteq PrepFaultKinds

Task == UNION {{<<q, i>> : i \in 1..TaskCount[q]} : q \in DOMAIN TaskCount}

NoTask == <<0, 0>>

ExecutorsOf(p) == {e \in Executor : HostOf[e] = p}

VARIABLES
    to_coordinator,   \* orchestrator -> WorkerCoordinatorActor
    from_coordinator, \* WorkerCoordinatorActor -> orchestrator
    coordinator,      \* what the WorkerCoordinatorActor is doing
    prepared,         \* len(received_responses)
    p_status,         \* WorkloadPreparationActor.status
    processor,        \* the processors taken from the queue so far
    tasks,            \* len(tasks): the tasks not handed out yet
    idle,             \* len(received_responses)
    to_preparator,    \* WorkerCoordinatorActor -> WorkloadPreparationActor
    from_preparator,  \* WorkloadPreparationActor -> WorkerCoordinatorActor
    to_executor,      \* WorkloadPreparationActor -> TaskExecutionActor
    from_executor,    \* TaskExecutionActor -> WorkloadPreparationActor
    future,           \* executor_future: none, running, done or failed; or
                      \* dead, with the executor
    task,             \* the task of the future
    finished          \* history: tasks finished on a host

coordinatorVars == <<to_coordinator, from_coordinator, coordinator, prepared>>
preparatorVars == <<p_status, processor, tasks, idle>>
executorVars == <<future, task, finished>>
prepMail == <<to_preparator, from_preparator, to_executor, from_executor>>
prepVars == <<coordinatorVars, preparatorVars, executorVars, prepMail>>

PrepInit ==
    /\ to_coordinator = <<>> /\ from_coordinator = <<>>
    /\ coordinator = "none" /\ prepared = 0
    /\ p_status = [p \in LoadHost |-> "none"]
    /\ processor = [p \in LoadHost |-> 0]
    /\ tasks = [p \in LoadHost |-> 0]
    /\ idle = [p \in LoadHost |-> 0]
    /\ to_preparator = [p \in LoadHost |-> <<>>]
    /\ from_preparator = [p \in LoadHost |-> <<>>]
    /\ to_executor = [e \in Executor |-> <<>>]
    /\ from_executor = [e \in Executor |-> <<>>]
    /\ future = [e \in Executor |-> "none"]
    /\ task = [e \in Executor |-> NoTask]
    /\ finished = [p \in LoadHost |-> {}]

Msg(type, t) == [type |-> type, task |-> t]
-----------------------------------------------------------------------------
(* WorkerCoordinatorActor *)

CoordinatorTakes(m) ==
    /\ coordinator \notin {"none", "gone"}
    /\ to_coordinator # <<>> /\ Head(to_coordinator) = m
    /\ to_coordinator' = Tail(to_coordinator)

Tell(m) == from_coordinator' = Append(from_coordinator, m)

\* receiveMsg_PrepareBenchmark and prepare_workload: a preparator per host.
PrepareBenchmark ==
    /\ CoordinatorTakes("PrepareBenchmark")
    /\ coordinator' = "preparing"
    /\ p_status' = [p \in LoadHost |-> "initializing"]
    /\ to_preparator' = [p \in LoadHost |-> <<"PrepareWorkload">>]
    /\ UNCHANGED <<from_coordinator, prepared, processor, tasks, idle,
                   executorVars, from_preparator, to_executor, from_executor>>

\* It raises, for example because the REST layer is not available.
PrepareBenchmarkFails ==
    /\ "prepare" \in PrepFaults
    /\ CoordinatorTakes("PrepareBenchmark")
    /\ Tell("BenchmarkFailure")
    /\ UNCHANGED <<coordinator, prepared, preparatorVars, executorVars, prepMail>>

PreparatorAnswers(p, m) ==
    /\ coordinator \notin {"none", "gone"}
    /\ from_preparator[p] # <<>> /\ Head(from_preparator[p]) = m
    /\ from_preparator' = [from_preparator EXCEPT ![p] = Tail(@)]

\* Mutant: the first host to be prepared is taken for the last.
AllPreparedAtOnce == TRUE

\* transition_when_all_children_responded in receiveMsg_WorkloadPrepared
AllPrepared == prepared + 1 = Cardinality(LoadHost)

\* receiveMsg_WorkloadPrepared; after the last one _after_workload_prepared
\* ends the preparators and reports.
WorkloadPrepared(p) ==
    /\ PreparatorAnswers(p, "WorkloadPrepared")
    /\ IF AllPrepared
       THEN /\ prepared' = 0
            /\ coordinator' = "prepared"
            /\ to_preparator' = [q \in LoadHost |-> Append(to_preparator[q], "Exit")]
            /\ Tell("PreparationComplete")
       ELSE /\ prepared' = prepared + 1
            /\ UNCHANGED <<coordinator, to_preparator, from_coordinator>>
    /\ UNCHANGED <<to_coordinator, preparatorVars, executorVars, to_executor,
                   from_executor>>

\* receiveMsg_BenchmarkFailure from a preparator
ForwardPreparatorFailure(p) ==
    /\ PreparatorAnswers(p, "BenchmarkFailure")
    /\ Tell("BenchmarkFailure")
    /\ UNCHANGED <<to_coordinator, coordinator, prepared, preparatorVars,
                   executorVars, to_preparator, to_executor, from_executor>>

\* Mutant: a failure of the orchestrator is not returned.
ReturnNoCoordinatorFailure ==
    /\ CoordinatorTakes("BenchmarkFailure")
    /\ UNCHANGED <<from_coordinator, coordinator, prepared, preparatorVars,
                   executorVars, prepMail>>

\* receiveMsg_BenchmarkFailure for a failure the orchestrator's guard sent
ReturnCoordinatorFailure ==
    /\ CoordinatorTakes("BenchmarkFailure")
    /\ Tell("BenchmarkFailure")
    /\ UNCHANGED <<coordinator, prepared, preparatorVars, executorVars, prepMail>>

\* receiveMsg_ActorExitRequest; the preparators are children and exit, too.
\* Messages to the actor are lost.
CoordinatorExits ==
    /\ CoordinatorTakes("Exit")
    /\ coordinator' = "gone"
    /\ prepared' = 0
    /\ from_preparator' = [p \in LoadHost |-> <<>>]
    /\ to_preparator' = [p \in LoadHost |-> IF p_status[p] \in {"none", "gone"}
                                            THEN to_preparator[p]
                                            ELSE Append(to_preparator[p], "Exit")]
    /\ UNCHANGED <<from_coordinator, preparatorVars, executorVars, to_executor,
                   from_executor>>
-----------------------------------------------------------------------------
(* WorkloadPreparationActor *)

PreparatorTakes(p, m) ==
    /\ p_status[p] \notin {"none", "gone"}
    /\ to_preparator[p] # <<>> /\ Head(to_preparator[p]) = m
    /\ to_preparator' = [to_preparator EXCEPT ![p] = Tail(@)]

\* A message to original_sender; it is lost when that actor is gone.
Inform(p, m) ==
    from_preparator' = IF coordinator = "gone" THEN from_preparator
                       ELSE [from_preparator EXCEPT ![p] = Append(@, m)]

\* _seed_tasks of the next processor and StartTaskLoop for every executor
StartProcessor(p) ==
    /\ processor' = [processor EXCEPT ![p] = @ + 1]
    /\ tasks' = [tasks EXCEPT ![p] = TaskCount[processor[p] + 1]]
    /\ p_status' = [p_status EXCEPT ![p] = "running"]
    /\ to_executor' = [e \in Executor |->
          IF HostOf[e] = p THEN Append(to_executor[e], Msg("StartTaskLoop", NoTask))
                           ELSE to_executor[e]]

\* receiveMsg_PrepareWorkload
PrepareWorkload(p) ==
    /\ PreparatorTakes(p, "PrepareWorkload")
    /\ StartProcessor(p)
    /\ UNCHANGED <<coordinatorVars, idle, executorVars, from_preparator,
                   from_executor>>

\* The configuration or the workload cannot be loaded.
PrepareWorkloadFails(p) ==
    /\ "workload" \in PrepFaults
    /\ PreparatorTakes(p, "PrepareWorkload")
    /\ Inform(p, "BenchmarkFailure")
    /\ UNCHANGED <<coordinatorVars, preparatorVars, executorVars, to_executor,
                   from_executor>>

ExecutorAnswers(e, m) ==
    /\ p_status[HostOf[e]] # "gone"
    /\ from_executor[e] # <<>> /\ Head(from_executor[e]) = m
    /\ from_executor' = [from_executor EXCEPT ![e] = Tail(@)]

\* Mutant: the task handed out is read but not taken from the list.
ReadyForWorkKeepsTask(e) ==
    LET p == HostOf[e] IN
    /\ ExecutorAnswers(e, "ReadyForWork")
    /\ to_executor' = [to_executor EXCEPT ![e] =
          Append(@, Msg("DoTask", IF tasks[p] > 0 THEN <<processor[p], tasks[p]>>
                                                  ELSE NoTask))]
    /\ UNCHANGED <<coordinatorVars, tasks, p_status, processor, idle, executorVars,
                   to_preparator, from_preparator>>

\* receiveMsg_ReadyForWork: tasks.pop(), or None when there are no more.
ReadyForWork(e) ==
    LET p == HostOf[e] IN
    /\ ExecutorAnswers(e, "ReadyForWork")
    /\ IF tasks[p] > 0
       THEN /\ tasks' = [tasks EXCEPT ![p] = @ - 1]
            /\ to_executor' = [to_executor EXCEPT ![e] =
                                  Append(@, Msg("DoTask", <<processor[p], tasks[p]>>))]
       ELSE /\ to_executor' = [to_executor EXCEPT ![e] = Append(@, Msg("DoTask", NoTask))]
            /\ UNCHANGED tasks
    /\ UNCHANGED <<coordinatorVars, p_status, processor, idle, executorVars,
                   to_preparator, from_preparator>>

\* transition_when_all_children_responded in receiveMsg_WorkerIdle
AllIdle(p) == idle[p] + 1 = Cardinality(ExecutorsOf(p))

\* receiveMsg_WorkerIdle of an executor that is not the last
WorkerIdle(e) ==
    LET p == HostOf[e] IN
    /\ ExecutorAnswers(e, "WorkerIdle")
    /\ ~AllIdle(p)
    /\ idle' = [idle EXCEPT ![p] = @ + 1]
    /\ UNCHANGED <<coordinatorVars, p_status, processor, tasks, executorVars,
                   to_preparator, from_preparator, to_executor>>

\* ... and of the last one: resume starts the next processor or reports.
Resume(e) ==
    LET p == HostOf[e] IN
    /\ ExecutorAnswers(e, "WorkerIdle")
    /\ AllIdle(p)
    /\ idle' = [idle EXCEPT ![p] = 0]
    /\ IF processor[p] < Len(TaskCount)
       THEN StartProcessor(p) /\ UNCHANGED from_preparator
       ELSE /\ p_status' = [p_status EXCEPT ![p] = "complete"]
            /\ Inform(p, "WorkloadPrepared")
            /\ UNCHANGED <<processor, tasks, to_executor>>
    /\ UNCHANGED <<coordinatorVars, executorVars, to_preparator>>

\* on_prepare_workload of the next processor raises: the guard answers the
\* executor, which returns the failure.
ResumeFails(e) ==
    LET p == HostOf[e] IN
    /\ "processor" \in PrepFaults
    /\ ExecutorAnswers(e, "WorkerIdle")
    /\ AllIdle(p) /\ processor[p] < Len(TaskCount)
    /\ idle' = [idle EXCEPT ![p] = 0]
    /\ processor' = [processor EXCEPT ![p] = @ + 1]
    /\ p_status' = [p_status EXCEPT ![p] = "complete"]
    /\ to_executor' = [to_executor EXCEPT ![e] =
                          Append(@, Msg("BenchmarkFailure", NoTask))]
    /\ UNCHANGED <<coordinatorVars, tasks, executorVars, to_preparator,
                   from_preparator>>

\* receiveMsg_BenchmarkFailure
ForwardExecutorFailure(e) ==
    /\ ExecutorAnswers(e, "BenchmarkFailure")
    /\ Inform(HostOf[e], "BenchmarkFailure")
    /\ UNCHANGED <<coordinatorVars, preparatorVars, executorVars, to_preparator,
                   to_executor>>

\* receiveMsg_ActorExitRequest: the executors are told to exit, too.
PreparatorExits(p) ==
    /\ PreparatorTakes(p, "Exit")
    /\ p_status' = [p_status EXCEPT ![p] = "gone"]
    /\ tasks' = [tasks EXCEPT ![p] = 0]
    /\ idle' = [idle EXCEPT ![p] = 0]
    /\ to_executor' = [e \in Executor |-> IF HostOf[e] = p THEN <<>> ELSE to_executor[e]]
    /\ from_executor' = [e \in Executor |-> IF HostOf[e] = p THEN <<>> ELSE from_executor[e]]
    /\ future' = [e \in Executor |-> IF HostOf[e] = p THEN "none" ELSE future[e]]
    /\ task' = [e \in Executor |-> IF HostOf[e] = p THEN NoTask ELSE task[e]]
    /\ UNCHANGED <<coordinatorVars, processor, finished, from_preparator>>

\* The process of a preparator dies.  receiveMsg_ChildActorExited of the
\* WorkerCoordinatorActor only logs it; the executors go on with what they
\* were told to do.
PreparatorDies(p) ==
    /\ "death" \in PrepFaults
    /\ p_status[p] \notin {"none", "gone"}
    /\ p_status' = [p_status EXCEPT ![p] = "gone"]
    /\ tasks' = [tasks EXCEPT ![p] = 0]
    /\ idle' = [idle EXCEPT ![p] = 0]
    /\ to_preparator' = [to_preparator EXCEPT ![p] = <<>>]
    /\ UNCHANGED <<coordinatorVars, processor, executorVars, from_preparator,
                   to_executor, from_executor>>
-----------------------------------------------------------------------------
(* TaskExecutionActor and its thread *)

ExecutorTakes(e, type) ==
    /\ future[e] # "dead"
    /\ to_executor[e] # <<>> /\ Head(to_executor[e]).type = type
    /\ to_executor' = [to_executor EXCEPT ![e] = Tail(@)]

Return(e, m) == from_executor' = [from_executor EXCEPT ![e] = Append(@, m)]

\* receiveMsg_StartTaskLoop
StartTaskLoop(e) ==
    /\ ExecutorTakes(e, "StartTaskLoop")
    /\ Return(e, "ReadyForWork")
    /\ UNCHANGED <<coordinatorVars, preparatorVars, executorVars, to_preparator,
                   from_preparator>>

\* The plugins of the workload cannot be loaded.
StartTaskLoopFails(e) ==
    /\ "executor" \in PrepFaults
    /\ ExecutorTakes(e, "StartTaskLoop")
    /\ Return(e, "BenchmarkFailure")
    /\ UNCHANGED <<coordinatorVars, preparatorVars, executorVars, to_preparator,
                   from_preparator>>

\* receiveMsg_DoTask with a task: it is submitted and a timer is armed.
DoTask(e) ==
    /\ ExecutorTakes(e, "DoTask")
    /\ future[e] = "none"
    /\ Head(to_executor[e]).task # NoTask
    /\ future' = [future EXCEPT ![e] = "running"]
    /\ task' = [task EXCEPT ![e] = Head(to_executor[e]).task]
    /\ UNCHANGED <<coordinatorVars, preparatorVars, finished, to_preparator,
                   from_preparator, from_executor>>

\* receiveMsg_DoTask without one
DoNothing(e) ==
    /\ ExecutorTakes(e, "DoTask")
    /\ future[e] = "none"
    /\ Head(to_executor[e]).task = NoTask
    /\ Return(e, "WorkerIdle")
    /\ UNCHANGED <<coordinatorVars, preparatorVars, executorVars, to_preparator,
                   from_preparator>>

\* The thread ends the task, well or badly.
TaskEnds(e, outcome) ==
    /\ future[e] = "running"
    /\ outcome = "failed" => "task" \in PrepFaults
    /\ future' = [future EXCEPT ![e] = outcome]
    /\ finished' = IF outcome = "failed" THEN finished
                   ELSE [finished EXCEPT ![HostOf[e]] = @ \cup {task[e]}]
    /\ UNCHANGED <<coordinatorVars, preparatorVars, task, prepMail>>

\* receiveMsg_WakeupMessage finds the future done ...
WakeupFindsDone(e) ==
    /\ future[e] = "done"
    /\ future' = [future EXCEPT ![e] = "none"]
    /\ task' = [task EXCEPT ![e] = NoTask]
    /\ Return(e, "ReadyForWork")
    /\ UNCHANGED <<coordinatorVars, preparatorVars, finished, to_preparator,
                   from_preparator, to_executor>>

\* ... or failed: the parent is told once, the future stays and the timer is
\* not armed again.
WakeupFindsFailure(e) ==
    /\ future[e] = "failed"
    /\ future' = [future EXCEPT ![e] = "reported"]
    /\ Return(e, "BenchmarkFailure")
    /\ UNCHANGED <<coordinatorVars, preparatorVars, task, finished,
                   to_preparator, from_preparator, to_executor>>

\* receiveMsg_BenchmarkFailure, sent by the guard of the preparator
ReturnExecutorFailure(e) ==
    /\ ExecutorTakes(e, "BenchmarkFailure")
    /\ Return(e, "BenchmarkFailure")
    /\ UNCHANGED <<coordinatorVars, preparatorVars, executorVars, to_preparator,
                   from_preparator>>

\* The process of an executor dies, with the task it was working on; the
\* preparator has no handler for it.  
ExecutorDies(e) ==
    /\ "death" \in PrepFaults
    /\ p_status[HostOf[e]] \in {"running", "complete"}
    /\ future[e] # "dead"
    /\ future' = [future EXCEPT ![e] = "dead"]
    /\ task' = [task EXCEPT ![e] = NoTask]
    /\ UNCHANGED <<coordinatorVars, preparatorVars, finished, prepMail>>
=============================================================================
