--------------------------- MODULE Orchestration ---------------------------
(***************************************************************************)
(* A benchmark from start to end: execute_test (the caller), the           *)
(* BenchmarkActor with its BenchmarkCoordinator (the orchestrator), the    *)
(* engine (module Engine), workload preparation (module Preparation) and   *)
(* the load generator, of which only the reports are kept (module          *)
(* LoadGenerator has the rest).                                            *)
(***************************************************************************)
EXTENDS Engine, Preparation

CONSTANTS
    MaxTasks,       \* bound: TaskFinished messages before BenchmarkComplete
    Faults          \* failures of orchestrator, load generator and user

FaultKinds == {"setup", "created", "stored", "task", "results", "load", "interrupt"}

ASSUME OrchestrationAssumption ==
    /\ MaxTasks \in Nat
    /\ Faults \subseteq FaultKinds

VARIABLES
    caller,          \* execute_test: what the main process waits for
    outcome,         \* the answer it got
    to_orchestrator, \* caller -> BenchmarkActor
    to_caller,       \* BenchmarkActor -> caller
    orchestrator,    \* is the BenchmarkActor there?
    cancelled,       \* BenchmarkCoordinator.cancelled
    error,           \* BenchmarkCoordinator.error
    store,           \* BenchmarkCoordinator.metrics_store
    stored_tasks,    \* the tasks whose metrics are in the store
    finished_tasks,  \* load generator: TaskFinished sent
    load_failed,     \* load generator: has reported a failure
    published        \* how often results were stored and summarized

callerVars == <<caller, outcome, to_orchestrator, to_caller>>
orchestratorVars == <<orchestrator, cancelled, error, store, stored_tasks, published>>
loadVars == <<finished_tasks, load_failed>>
vars == <<callerVars, orchestratorVars, loadVars, engineVars, prepVars>>

Init ==
    /\ EngineInit /\ PrepInit
    /\ caller = "asking" /\ outcome = None
    /\ to_orchestrator = <<"Setup">> /\ to_caller = <<>>
    /\ orchestrator = "up"
    /\ cancelled = FALSE /\ error = FALSE
    /\ store = "none" /\ stored_tasks = 0 /\ published = 0
    /\ finished_tasks = 0 /\ load_failed = FALSE
-----------------------------------------------------------------------------
(* execute_test *)

\* The answer to ask(Setup); whatever it is, the actor is told to exit.
GetAnswer ==
    /\ caller = "asking"
    /\ to_caller # <<>>
    /\ outcome' = Head(to_caller)
    /\ to_caller' = <<>>
    /\ caller' = "done"
    /\ to_orchestrator' = Append(to_orchestrator, "Exit")
    /\ UNCHANGED <<orchestratorVars, loadVars, engineVars, prepVars>>

\* KeyboardInterrupt: the cancellation is announced with another ask.
Interrupt ==
    /\ "interrupt" \in Faults
    /\ caller = "asking"
    /\ caller' = "cancelling"
    /\ to_orchestrator' = Append(to_orchestrator, "BenchmarkCancelled")
    /\ UNCHANGED <<outcome, to_caller, orchestratorVars, loadVars, engineVars,
                   prepVars>>

\* Its answer, which may be one to the first ask.
GetCancelAnswer ==
    /\ caller = "cancelling"
    /\ to_caller # <<>>
    /\ outcome' = "BenchmarkCancelled"
    /\ to_caller' = <<>>
    /\ caller' = "done"
    /\ to_orchestrator' = Append(to_orchestrator, "Exit")
    /\ UNCHANGED <<orchestratorVars, loadVars, engineVars, prepVars>>
-----------------------------------------------------------------------------
(* BenchmarkActor *)

FromCaller(m) ==
    /\ orchestrator = "up"
    /\ to_orchestrator # <<>> /\ Head(to_orchestrator) = m
    /\ to_orchestrator' = Tail(to_orchestrator)

FromBuilder(m) ==
    /\ orchestrator = "up"
    /\ from_builder # <<>> /\ Head(from_builder) = m
    /\ from_builder' = Tail(from_builder)

FromCoordinator(m) ==
    /\ orchestrator = "up"
    /\ from_coordinator # <<>> /\ Head(from_coordinator) = m
    /\ from_coordinator' = Tail(from_coordinator)

\* A message to start_sender; nobody listens any more once it has an answer.
Notify(m) == to_caller' = IF caller = "done" THEN to_caller ELSE Append(to_caller, m)

\* What is left of the engine when only the orchestrator's channels change.
EngineInside == <<external, b_status, b_children, b_responses, dispatch, node,
                  mail, engines>>

\* ... and of the preparation.
PrepInside == <<coordinator, prepared, preparatorVars, executorVars, prepMail>>

\* receiveMsg_Setup
Setup ==
    /\ FromCaller("Setup")
    /\ store' = "open"
    /\ to_builder' = Append(to_builder, "StartEngine")
    /\ UNCHANGED <<caller, outcome, to_caller, orchestrator, cancelled, error,
                   stored_tasks, published, loadVars, from_builder,
                   EngineInside, prepVars>>

\* The workload or the stores cannot be opened: the guard answers the caller.
SetupFails ==
    /\ "setup" \in Faults
    /\ FromCaller("Setup")
    /\ Notify("BenchmarkFailure")
    /\ UNCHANGED <<caller, outcome, orchestratorVars, loadVars, engineVars,
                   prepVars>>

\* receiveMsg_EngineStarted
EngineStarted ==
    /\ FromBuilder("EngineStarted")
    /\ coordinator' = "init"
    /\ to_coordinator' = Append(to_coordinator, "PrepareBenchmark")
    /\ UNCHANGED <<callerVars, orchestratorVars, loadVars, to_builder,
                   EngineInside, from_coordinator, prepared, preparatorVars,
                   executorVars, prepMail>>

\* createActor raises: the guard answers the builder, which returns it.
EngineStartedFails ==
    /\ "created" \in Faults
    /\ FromBuilder("EngineStarted")
    /\ to_builder' = Append(to_builder, "BenchmarkFailure")
    /\ UNCHANGED <<callerVars, orchestratorVars, loadVars, EngineInside, prepVars>>

\* A handler of a message of the load generator raises: the guard answers
\* the load generator, which returns the failure.
RejectedBy(m) ==
    /\ FromCoordinator(m)
    /\ to_coordinator' = Append(to_coordinator, "BenchmarkFailure")

\* receiveMsg_PreparationComplete
PreparationComplete ==
    /\ FromCoordinator("PreparationComplete")
    /\ to_coordinator' = Append(to_coordinator, "StartBenchmark")
    /\ UNCHANGED <<callerVars, orchestratorVars, loadVars, engineVars, PrepInside>>

\* store_test_execution raises.
PreparationCompleteFails ==
    /\ "stored" \in Faults
    /\ RejectedBy("PreparationComplete")
    /\ UNCHANGED <<callerVars, orchestratorVars, loadVars, engineVars, PrepInside>>

\* receiveMsg_TaskFinished
TaskFinished ==
    /\ FromCoordinator("TaskFinished")
    /\ stored_tasks' = stored_tasks + 1
    /\ UNCHANGED <<callerVars, orchestrator, cancelled, error, store, published,
                   loadVars, engineVars, to_coordinator, PrepInside>>

\* bulk_add raises.
TaskFinishedFails ==
    /\ "task" \in Faults
    /\ RejectedBy("TaskFinished")
    /\ UNCHANGED <<callerVars, orchestratorVars, loadVars, engineVars, PrepInside>>

\* receiveMsg_BenchmarkCancelled
BenchmarkCancelled ==
    /\ FromCaller("BenchmarkCancelled")
    /\ cancelled' = TRUE
    /\ Notify("BenchmarkCancelled")
    /\ UNCHANGED <<caller, outcome, orchestrator, error, store, stored_tasks,
                   published, loadVars, engineVars, prepVars>>

\* Mutant: the failure is forwarded but not noted.
BenchmarkFailureUnnoted ==
    /\ \/ FromBuilder("BenchmarkFailure") /\ UNCHANGED from_coordinator
       \/ FromCoordinator("BenchmarkFailure") /\ UNCHANGED from_builder
    /\ Notify("BenchmarkFailure")
    /\ UNCHANGED <<caller, outcome, to_orchestrator, error, orchestrator, cancelled,
                   store, stored_tasks, published, loadVars, to_builder,
                   EngineInside, to_coordinator, PrepInside>>

\* receiveMsg_BenchmarkFailure
BenchmarkFailure ==
    /\ \/ FromBuilder("BenchmarkFailure") /\ UNCHANGED from_coordinator
       \/ FromCoordinator("BenchmarkFailure") /\ UNCHANGED from_builder
    /\ error' = TRUE
    /\ Notify("BenchmarkFailure")
    /\ UNCHANGED <<caller, outcome, to_orchestrator, orchestrator, cancelled,
                   store, stored_tasks, published, loadVars, to_builder,
                   EngineInside, to_coordinator, PrepInside>>

\* receiveMsg_BenchmarkComplete: results unless cancelled or failed, the load
\* generator is sent home and the engine stopped.
BenchmarkComplete ==
    /\ FromCoordinator("BenchmarkComplete")
    /\ published' = IF cancelled \/ error THEN published ELSE published + 1
    /\ store' = "closed"
    /\ to_coordinator' = Append(to_coordinator, "Exit")
    /\ to_builder' = Append(to_builder, "StopEngine")
    /\ UNCHANGED <<callerVars, orchestrator, cancelled, error, stored_tasks,
                   loadVars, from_builder, EngineInside, PrepInside>>

\* The results cannot be calculated or stored, or not be summarized.
BenchmarkCompleteFails(stored) ==
    /\ "results" \in Faults
    /\ RejectedBy("BenchmarkComplete")
    /\ stored => ~cancelled /\ ~error
    /\ published' = IF stored THEN published + 1 ELSE published
    /\ UNCHANGED <<callerVars, orchestrator, cancelled, error, store,
                   stored_tasks, loadVars, engineVars, PrepInside>>

\* receiveMsg_EngineStopped
EngineStopped ==
    /\ FromBuilder("EngineStopped")
    /\ Notify("Success")
    /\ UNCHANGED <<caller, outcome, to_orchestrator, orchestratorVars, loadVars,
                   to_builder, EngineInside, prepVars>>

\* An exit request ends the actor and then its children; messages to it are
\* lost.
OrchestratorExits ==
    /\ FromCaller("Exit")
    /\ orchestrator' = "gone"
    /\ to_builder' = Append(to_builder, "Exit")
    /\ to_coordinator' = Append(to_coordinator, "Exit")
    /\ from_builder' = <<>> /\ from_coordinator' = <<>>
    /\ UNCHANGED <<caller, outcome, to_caller, cancelled, error, store,
                   stored_tasks, published, loadVars, EngineInside, PrepInside>>
-----------------------------------------------------------------------------
(* The load generator, as module LoadGenerator describes it: it reports the *)
(* tasks that finish, a failure at any time, and completion once.           *)

LoadGeneratorUnchanged == <<callerVars, orchestratorVars, engineVars, prepared,
                            preparatorVars, executorVars, prepMail>>

\* receiveMsg_StartBenchmark
StartBenchmark ==
    /\ CoordinatorTakes("StartBenchmark")
    /\ coordinator' = "running"
    /\ UNCHANGED <<LoadGeneratorUnchanged, loadVars, from_coordinator>>

\* It raises: the guard answers the orchestrator.
StartBenchmarkFails ==
    /\ "load" \in Faults
    /\ CoordinatorTakes("StartBenchmark")
    /\ Tell("BenchmarkFailure")
    /\ UNCHANGED <<LoadGeneratorUnchanged, loadVars, coordinator>>

\* on_task_finished
FinishTask ==
    /\ coordinator = "running"
    /\ finished_tasks < MaxTasks
    /\ finished_tasks' = finished_tasks + 1
    /\ Tell("TaskFinished")
    /\ UNCHANGED <<LoadGeneratorUnchanged, load_failed, to_coordinator, coordinator>>

\* on_benchmark_complete
CompleteBenchmark ==
    /\ coordinator = "running"
    /\ finished_tasks = MaxTasks
    /\ coordinator' = "complete"
    /\ Tell("BenchmarkComplete")
    /\ UNCHANGED <<LoadGeneratorUnchanged, loadVars, to_coordinator>>

\* A worker fails or exits prematurely.
LoadFails ==
    /\ "load" \in Faults
    /\ coordinator = "running"
    /\ ~load_failed
    /\ load_failed' = TRUE
    /\ Tell("BenchmarkFailure")
    /\ UNCHANGED <<LoadGeneratorUnchanged, finished_tasks, to_coordinator, coordinator>>
-----------------------------------------------------------------------------
CallerStep == GetAnswer \/ GetCancelAnswer

OrchestratorStep ==
    \/ Setup \/ EngineStarted \/ PreparationComplete \/ TaskFinished
    \/ BenchmarkCancelled \/ BenchmarkFailure \/ BenchmarkComplete
    \/ EngineStopped \/ OrchestratorExits

OrchestratorFails ==
    \/ SetupFails \/ EngineStartedFails \/ PreparationCompleteFails
    \/ TaskFinishedFails
    \/ \E stored \in BOOLEAN : BenchmarkCompleteFails(stored)

LoadStep == StartBenchmark \/ FinishTask \/ CompleteBenchmark

LoadFailure == StartBenchmarkFails \/ LoadFails

BuilderStep ==
    \/ StartEngineExternal \/ StartEngine \/ StopEngineExternal \/ StopEngine
    \/ ForwardDispatcherFailure \/ ReturnFailure \/ BuilderExits
    \/ \E h \in Host : NodesStarted(h) \/ NodesStopped(h) \/ ForwardNodeFailure(h)

DispatcherStep ==
    Dispatch \/ DispatcherExits \/ \E ip \in Ip : ConventionUpdate(ip)

NodeStep(h) == StartNodes(h) \/ StopNodes(h) \/ NodeExits(h)

EngineFails ==
    \/ StartEngineFails
    \/ \E created \in SUBSET LocalHosts : DispatchFails(created)
    \/ \E h \in Host :
          \/ \E created \in BOOLEAN : StartNodesFails(h, created)
          \/ \E k \in 1..NodesOn[h] : LaunchFails(h, k)
          \/ \E left \in 0..processes[h] : StopNodesFails(h, left)
          \/ NodeExitFails(h)

PrepCoordinatorStep ==
    \/ PrepareBenchmark \/ ReturnCoordinatorFailure \/ CoordinatorExits
    \/ \E p \in LoadHost : WorkloadPrepared(p) \/ ForwardPreparatorFailure(p)

PreparatorStep(p) ==
    \/ PrepareWorkload(p) \/ PreparatorExits(p)
    \/ \E e \in ExecutorsOf(p) : ReadyForWork(e) \/ WorkerIdle(e) \/ Resume(e)
                                 \/ ForwardExecutorFailure(e)

ExecutorStep(e) ==
    \/ StartTaskLoop(e) \/ DoTask(e) \/ DoNothing(e)
    \/ WakeupFindsDone(e) \/ WakeupFindsFailure(e) \/ ReturnExecutorFailure(e)

TaskEndsSomehow(e) == \E o \in {"done", "failed"} : TaskEnds(e, o)

PrepFails ==
    \/ PrepareBenchmarkFails
    \/ \E p \in LoadHost : PrepareWorkloadFails(p) \/ PreparatorDies(p)
    \/ \E e \in Executor : ResumeFails(e) \/ StartTaskLoopFails(e) \/ ExecutorDies(e)

\* The variables of the other parts, for a step of the engine ...
OutsideEngine == <<callerVars, orchestratorVars, loadVars, prepVars>>

\* ... and for a step of the preparation.
OutsidePrep == <<callerVars, orchestratorVars, loadVars, engineVars>>

EngineNext ==
    /\ BuilderStep \/ DispatcherStep \/ (\E h \in Host : NodeStep(h)) \/ EngineFails
    /\ UNCHANGED OutsideEngine

PrepNext ==
    /\ \/ PrepCoordinatorStep \/ PrepFails
       \/ \E p \in LoadHost : PreparatorStep(p)
       \/ \E e \in Executor : ExecutorStep(e) \/ TaskEndsSomehow(e)
    /\ UNCHANGED OutsidePrep

Next ==
    \/ CallerStep \/ Interrupt
    \/ OrchestratorStep \/ OrchestratorFails
    \/ LoadStep \/ LoadFailure
    \/ EngineNext \/ PrepNext

Spec == Init /\ [][Next]_vars

\* Actors handle their messages, remote machines join, tasks end and the load
\* generator gets through its steps (BenchmarkEnds of module LoadGenerator).
\* Failures and interrupts need not happen.
Fairness ==
    /\ WF_vars(CallerStep)
    /\ WF_vars(OrchestratorStep)
    /\ WF_vars(LoadStep)
    /\ WF_vars(BuilderStep /\ UNCHANGED OutsideEngine)
    /\ WF_vars(DispatcherStep /\ UNCHANGED OutsideEngine)
    /\ \A h \in Host : WF_vars(NodeStep(h) /\ UNCHANGED OutsideEngine)
    /\ WF_vars(PrepCoordinatorStep /\ UNCHANGED OutsidePrep)
    /\ \A p \in LoadHost : WF_vars(PreparatorStep(p) /\ UNCHANGED OutsidePrep)
    /\ \A e \in Executor :
          /\ WF_vars(ExecutorStep(e) /\ UNCHANGED OutsidePrep)
          /\ WF_vars(TaskEndsSomehow(e) /\ UNCHANGED OutsidePrep)

FairSpec == Spec /\ Fairness
-----------------------------------------------------------------------------
(* Properties *)

Answers == {None, "Success", "BenchmarkFailure", "BenchmarkCancelled"}

\* Type correctness; the counters of answers stay below the number of actors
\* that are asked, a Builder knows at most the processes that run, and no
\* processor is taken from an empty queue (which would block for ever).
TypeOK ==
    /\ caller \in {"asking", "cancelling", "done"}
    /\ outcome \in Answers
    /\ to_caller \in Seq(Answers \ {None})
    /\ published \in 0..1 /\ stored_tasks \in 0..MaxTasks
    /\ b_status \in {None, "starting", "cluster_started", "cluster_stopping",
                     "cluster_stopped", "gone"}
    /\ Len(b_children) \in {0, Cardinality(Host)}
    /\ b_responses \in 0..Cardinality(Host) - 1
    /\ \A h \in Host : nodes[h] \in {0, NodesOn[h]} /\ processes[h] \in 0..NodesOn[h]
    /\ prepared \in 0..Cardinality(LoadHost) - 1
    /\ \A p \in LoadHost :
          /\ processor[p] \in 0..Len(TaskCount)
          /\ idle[p] \in 0..Cardinality(ExecutorsOf(p)) - 1
          /\ finished[p] \subseteq Task
    /\ \A e \in Executor :
          /\ future[e] \in {"none", "running", "done", "failed", "reported", "dead"}
          /\ task[e] \in Task \cup {NoTask}

\* The load generator exists only while every node of every host runs: no
\* preparation and no load before the last NodesStarted, no stop before the
\* load is complete, whatever fails.
EngineUpUnderLoad ==
    /\ coordinator \in {"init", "preparing", "prepared", "running"}
    /\ orchestrator = "up" /\ ~external
    => \A h \in Host : processes[h] = NodesOn[h]

\* Once the caller has bad news no results are published any more, although
\* the load generator may still report completion.
NoResultsAfterBadNews ==
    [][caller = "done" /\ outcome # "Success" => published' = published]_vars

\* Every benchmark is answered: each failure finds its way to the caller,
\* through the guards that return it to the sender of a message.
EveryBenchmarkAnswered == <>(caller = "done")

\* At the end no process is left on any host: not after a failed start on
\* another host, a failed stop, a cancellation or a failure anywhere else;
\* except where the launch itself or the stop at the exit failed.
NothingLeftRunning ==
    (caller = "done") ~> \A h \in Host : processes[h] = 0 \/ abandoned[h]

\* No task is executed twice on a host, by the same executor or two of them,
\* and none starts before all tasks of the processors before its own have
\* succeeded there (receiveMsg_ReadyForWork, resume).
EachTaskOnce ==
    \A e \in Executor : future[e] = "running" =>
       /\ task[e] \notin finished[HostOf[e]]
       /\ \A f \in ExecutorsOf(HostOf[e]) \ {e} : task[f] # task[e]
       /\ {t \in Task : t[1] < task[e][1]} \subseteq finished[HostOf[e]]

\* The benchmark starts only when all tasks have succeeded on all hosts.
PreparedMeansAllDone ==
    coordinator \in {"prepared", "running", "complete"} =>
       \A p \in LoadHost : finished[p] = Task
=============================================================================
