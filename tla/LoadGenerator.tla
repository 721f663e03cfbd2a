--------------------------- MODULE LoadGenerator ---------------------------
(***************************************************************************)
(* The load generator of OpenSearch Benchmark: one WorkerCoordinatorActor  *)
(* (the "master"), the Worker actors it creates, and the executor thread   *)
(* that each Worker runs its clients on.                                   *)
(*                                                                         *)
(* Actors are Thespian actors: a handler runs to completion, messages      *)
(* between two actors are delivered in order, timers are wakeup messages   *)
(* an actor sends to itself.  The executor thread runs concurrently with   *)
(* the handlers of its Worker and shares `complete`, `cancel`, the future  *)
(* and the sampler with them.                                              *)
(*                                                                         *)
(* The allocation matrix is a constant here; module Allocator models how   *)
(* it is built.  Samples are counted, not told apart.                      *)
(***************************************************************************)
EXTENDS Integers, Sequences, FiniteSets

CONSTANTS
    Worker,      \* the workers start_benchmark creates (each has a client)
    Client,      \* the simulated clients
    WorkerOf,    \* clients_per_worker: the worker that runs a client
    NumSteps,    \* number_of_steps: join points after the initial one
    JoinIndex,   \* the row of the matrix at which join point j stands
    Alloc,       \* allocations: client -> row -> kind of entry
    TestMode,    \* "test.mode.enabled"
    QueueSize,   \* "sample.queue.size"
    MaxSamples,  \* bound: requests that produce a sample
    Faults,      \* which failures the environment may inject
    Timely       \* timers are handled before work that takes a wakeup interval

FaultKinds == {"start", "drive", "request", "postprocess", "crash", "interrupt"}

Kinds == {"none", "normal", "completing", "eternal", "join"}

LastRow == JoinIndex[NumSteps]

Rows == 0..LastRow

ASSUME WorkerAssumption == IsFiniteSet(Worker) /\ Worker # {}

ASSUME ClientAssumption ==
    /\ WorkerOf \in [Client -> Worker]
    /\ \A w \in Worker : \E c \in Client : WorkerOf[c] = w

ASSUME JoinIndexAssumption ==
    /\ NumSteps \in Nat
    /\ JoinIndex \in [0..NumSteps -> Nat]
    /\ JoinIndex[0] = 0
    /\ \A i, j \in 0..NumSteps : i < j => JoinIndex[i] < JoinIndex[j]

ASSUME AllocAssumption ==
    /\ Alloc \in [Client -> [Rows -> Kinds]]
    /\ \A c \in Client, r \in Rows :
          (Alloc[c][r] = "join") <=> (\E j \in 0..NumSteps : JoinIndex[j] = r)

ASSUME BoundsAssumption ==
    /\ TestMode \in BOOLEAN
    /\ Timely \in BOOLEAN
    /\ QueueSize \in Nat \ {0}
    /\ MaxSamples \in Nat
    /\ Faults \subseteq FaultKinds

VARIABLES
    status,       \* master: "init", "started" or "exiting"
    current_step,
    completed,    \* master: the keys of workers_completed_current_step
    currently_completed,
    complete_current_task_sent,
    raw_samples,  \* master: samples received, not yet post-processed
    stored,       \* master: samples handed to the metrics store
    store,        \* metrics_store: "open", "closed" or "none"
    ticking,      \* master: the periodic wakeup is pending
    resets,       \* master: pending RESET_RELATIVE_TIME wakeups
    self_failures,\* master: BenchmarkFailure messages it sent to itself
    reports       \* messages sent to start_sender (the orchestrator)

VARIABLES
    alive,        \* worker: "up", "exiting" (inside pool.shutdown) or "gone"
    next,         \* worker: next_task_index
    reached,      \* history: join points the worker has announced
    start_driving,
    wakeups,      \* worker: pending wakeup messages
    busy,         \* worker: inside the wakeup handler, samples drained
    future,       \* worker: executor_future
    running,      \* clients whose coroutine has not ended
    complete,     \* worker: the `complete` event
    cancel,       \* worker: the `cancel` event
    sampler,      \* worker: samples in the sampler's queue
    accepted,     \* history: samples the samplers accepted
    inbox,        \* messages for a worker, in order
    toMaster      \* messages of a worker for the master, in order

master == <<status, current_step, completed, currently_completed,
            complete_current_task_sent, raw_samples, stored, store, ticking,
            resets, self_failures, reports>>
local == <<alive, next, reached, start_driving, wakeups, busy, future,
           running, complete, cancel, sampler, accepted>>
vars == <<master, local, inbox, toMaster>>

-----------------------------------------------------------------------------
(* Messages.  `n` is the join point of a JoinPointReached, the number of     *)
(* samples of an UpdateSamples, and (for the properties only) the step a     *)
(* CompleteCurrentTask was sent in.                                          *)

MasterMessage == {"StartWorker", "Drive", "CompleteCurrentTask",
                  "BenchmarkFailure", "ActorExitRequest"}
WorkerMessage == {"JoinPointReached", "UpdateSamples", "BenchmarkFailure",
                  "ChildActorExited"}
Message(T) == [type : T, n : Nat]
Msg(t, k) == [type |-> t, n |-> k]

SendAll(m) == inbox' = [w \in Worker |-> Append(inbox[w], m)]
Report(t) == reports' = Append(reports, t)

-----------------------------------------------------------------------------
(* The allocation matrix as a worker sees it (ClientAllocations).            *)

TasksAt(w, r) == {c \in Client : WorkerOf[c] = w /\ Alloc[c][r] # "none"}

IsJoin(r) == \E j \in 0..NumSteps : JoinIndex[j] = r

CurrentTaskIndex(w) == IF next[w] = 0 THEN 0 ELSE next[w] - 1

AtJoinpoint(w) == IsJoin(CurrentTaskIndex(w))

\* current_tasks_and_advance, repeated over the rows without a task.
NextRow(w) ==
    CHOOSE r \in Rows :
        /\ r >= next[w]
        /\ TasksAt(w, r) # {}
        /\ \A q \in next[w]..(r - 1) : TasksAt(w, q) = {}

\* clients_executing_completing_task of join point j.
CompletingClients(j) ==
    {c \in Client :
        \E r \in Rows : /\ j > 0
                        /\ JoinIndex[j - 1] < r
                        /\ r < JoinIndex[j]
                        /\ Alloc[c][r] = "completing"}

Finished == current_step = NumSteps

-----------------------------------------------------------------------------
Init ==
    /\ status = "init"
    /\ current_step = -1
    /\ completed = {}
    /\ currently_completed = 0
    /\ complete_current_task_sent = FALSE
    /\ raw_samples = 0
    /\ stored = 0
    /\ store = "open"
    /\ ticking = FALSE
    /\ resets = 0
    /\ self_failures = 0
    /\ reports = <<>>
    /\ alive = [w \in Worker |-> "up"]
    /\ next = [w \in Worker |-> 0]
    /\ reached = [w \in Worker |-> 0]
    /\ start_driving = [w \in Worker |-> FALSE]
    /\ wakeups = [w \in Worker |-> 0]
    /\ busy = [w \in Worker |-> FALSE]
    /\ future = [w \in Worker |-> "none"]
    /\ running = [w \in Worker |-> {}]
    /\ complete = [w \in Worker |-> FALSE]
    /\ cancel = [w \in Worker |-> FALSE]
    /\ sampler = [w \in Worker |-> 0]
    /\ accepted = 0
    /\ inbox = [w \in Worker |-> <<>>]
    /\ toMaster = [w \in Worker |-> <<>>]

-----------------------------------------------------------------------------
(* The master.                                                               *)

\* receiveMsg_StartBenchmark: create the workers, send each its StartWorker,
\* arm the periodic wakeup.
StartBenchmark ==
    /\ status = "init"
    /\ status' = "started"
    /\ ticking' = TRUE
    /\ SendAll(Msg("StartWorker", 0))
    /\ UNCHANGED <<current_step, completed, currently_completed,
                   complete_current_task_sent, raw_samples, stored, store,
                   resets, self_failures, reports, local, toMaster>>

\* start_benchmark raises before a worker exists (telemetry, allocation): the
\* no_retry guard answers the orchestrator and no wakeup is armed.
StartBenchmarkFails ==
    /\ status = "init"
    /\ "start" \in Faults
    /\ status' = "started"
    /\ Report("BenchmarkFailure")
    /\ UNCHANGED <<current_step, completed, currently_completed,
                   complete_current_task_sent, raw_samples, stored, store,
                   ticking, resets, self_failures, local, inbox, toMaster>>

\* The next message of w is of type t, and the master takes it.
MasterTakes(w, t) ==
    /\ status # "exiting"
    /\ toMaster[w] # <<>>
    /\ Head(toMaster[w]).type = t
    /\ toMaster' = [toMaster EXCEPT ![w] = Tail(@)]

\* Mutant: the worker that has just arrived is not counted.
MayCompleteStale(j, done) ==
    /\ CompletingClients(j) # {}
    /\ ~complete_current_task_sent
    /\ \A c \in CompletingClients(j) : WorkerOf[c] \in completed

\* may_complete_current_task: every worker of a completing client has reached
\* the join point, some other worker has not.
MayComplete(j, done) ==
    /\ CompletingClients(j) # {}
    /\ ~complete_current_task_sent
    /\ \A c \in CompletingClients(j) : WorkerOf[c] \in done

\* joinpoint_reached while other workers are still missing.
JoinPointReachedByOne(w) ==
    /\ MasterTakes(w, "JoinPointReached")
    /\ currently_completed + 1 # Cardinality(Worker)
    /\ currently_completed' = currently_completed + 1
    /\ completed' = completed \union {w}
    /\ IF MayComplete(Head(toMaster[w]).n, completed')
       THEN /\ complete_current_task_sent' = TRUE
            /\ SendAll(Msg("CompleteCurrentTask", current_step + 1))
       ELSE UNCHANGED <<complete_current_task_sent, inbox>>
    /\ UNCHANGED <<status, current_step, raw_samples, stored, store, ticking,
                   resets, self_failures, reports, local>>

\* Mutant: the step ends one worker too early.
EndStepTooEarly(w) ==
    /\ MasterTakes(w, "JoinPointReached")
    /\ currently_completed + 2 >= Cardinality(Worker)
    /\ Timely => resets = 0
    /\ currently_completed' = 0
    /\ complete_current_task_sent' = FALSE
    /\ completed' = {}
    /\ current_step' = current_step + 1
    /\ raw_samples' = 0

\* Mutant: the workers of the step that ended are not forgotten.
EndStepKeepsWorkers(w) ==
    /\ MasterTakes(w, "JoinPointReached")
    /\ currently_completed + 1 = Cardinality(Worker)
    /\ Timely => resets = 0
    /\ currently_completed' = 0
    /\ complete_current_task_sent' = FALSE
    /\ completed' = completed \union {w}
    /\ current_step' = current_step + 1
    /\ raw_samples' = 0

\* The part of joinpoint_reached that runs whenever the last worker arrives.
EndStep(w) ==
    /\ MasterTakes(w, "JoinPointReached")
    /\ currently_completed + 1 = Cardinality(Worker)
    /\ Timely => resets = 0
    /\ currently_completed' = 0
    /\ complete_current_task_sent' = FALSE
    /\ completed' = {}
    /\ current_step' = current_step + 1
    /\ raw_samples' = 0

\* move_to_next_task and on_task_finished: all workers are released.
MoveToNextTask ==
    /\ Report("TaskFinished")
    /\ resets' = IF TestMode THEN resets ELSE resets + 1
    /\ SendAll(Msg("Drive", 0))
    /\ UNCHANGED store

\* All steps are done: the store is closed and dropped, results are sent.
BenchmarkComplete ==
    /\ Report("BenchmarkComplete")
    /\ store' = "none"
    /\ UNCHANGED <<resets, inbox>>

\* Mutant: one step too many.
JoinPointReachedByAllOnceMore(w) ==
    /\ EndStep(w)
    /\ stored' = stored + raw_samples
    /\ IF current_step = NumSteps THEN BenchmarkComplete ELSE MoveToNextTask
    /\ UNCHANGED <<status, ticking, self_failures, local>>

JoinPointReachedByAll(w) ==
    /\ EndStep(w)
    /\ stored' = stored + raw_samples
    /\ IF current_step + 1 = NumSteps THEN BenchmarkComplete ELSE MoveToNextTask
    /\ UNCHANGED <<status, ticking, self_failures, local>>

\* Post-processing, telemetry or the metrics store raises after the counters
\* were reset: the no_retry guard sends the failure to the worker whose
\* message was handled, and nobody is released.
JoinPointReachedFails(w) ==
    /\ "postprocess" \in Faults
    /\ EndStep(w)
    /\ stored' \in {stored, stored + raw_samples}
    /\ inbox' = [inbox EXCEPT ![w] = Append(@, Msg("BenchmarkFailure", 0))]
    /\ UNCHANGED <<status, store, ticking, resets, self_failures, reports,
                   local>>

\* receiveMsg_UpdateSamples.
UpdateSamples(w) ==
    /\ MasterTakes(w, "UpdateSamples")
    /\ raw_samples' = raw_samples + Head(toMaster[w]).n
    /\ UNCHANGED <<status, current_step, completed, currently_completed,
                   complete_current_task_sent, stored, store, ticking, resets,
                   self_failures, reports, local, inbox>>

\* WorkerCoordinator.close.
Close == store' = IF store = "open" THEN "closed" ELSE store

\* receiveMsg_BenchmarkFailure, from a worker.
BenchmarkFailure(w) ==
    /\ MasterTakes(w, "BenchmarkFailure")
    /\ Close
    /\ Report("BenchmarkFailure")
    /\ UNCHANGED <<status, current_step, completed, currently_completed,
                   complete_current_task_sent, raw_samples, stored, ticking,
                   resets, self_failures, local, inbox>>

\* receiveMsg_BenchmarkFailure, from the master's own no_retry guard.
BenchmarkFailureFromSelf ==
    /\ status # "exiting"
    /\ self_failures > 0
    /\ self_failures' = self_failures - 1
    /\ Close
    /\ Report("BenchmarkFailure")
    /\ UNCHANGED <<status, current_step, completed, currently_completed,
                   complete_current_task_sent, raw_samples, stored, ticking,
                   resets, local, inbox, toMaster>>

\* receiveMsg_ChildActorExited for a worker while the benchmark runs.
WorkerExitedPrematurely(w) ==
    /\ MasterTakes(w, "ChildActorExited")
    /\ Report("BenchmarkFailure")
    /\ UNCHANGED <<status, current_step, completed, currently_completed,
                   complete_current_task_sent, raw_samples, stored, store,
                   ticking, resets, self_failures, local, inbox>>

\* receiveMsg_WakeupMessage without payload: post-process (on the wakeups in
\* between it does nothing that is modelled) and go on ticking until all steps
\* are done.
PeriodicWakeup ==
    /\ status # "exiting"
    /\ ticking
    /\ ticking' = ~Finished
    /\ IF Finished
       THEN UNCHANGED <<raw_samples, stored>>
       ELSE /\ raw_samples' = 0
            /\ stored' = stored + raw_samples
    /\ UNCHANGED <<status, current_step, completed, currently_completed,
                   complete_current_task_sent, store, resets, self_failures,
                   reports, local, inbox, toMaster>>

\* The periodic post-processing raises: the timer is not armed again and the
\* guard sends the failure to the master itself.
PeriodicWakeupFails ==
    /\ "postprocess" \in Faults
    /\ status # "exiting"
    /\ ticking /\ ~Finished
    /\ raw_samples > 0
    /\ raw_samples' = 0
    /\ ticking' = FALSE
    /\ self_failures' = self_failures + 1
    /\ UNCHANGED <<status, current_step, completed, currently_completed,
                   complete_current_task_sent, stored, store, resets, reports,
                   local, inbox, toMaster>>

\* receiveMsg_WakeupMessage with the reset marker: reset_relative_time on a
\* store that is gone raises.
ResetRelativeTime ==
    /\ status # "exiting"
    /\ resets > 0
    /\ resets' = resets - 1
    /\ self_failures' = IF store = "none" THEN self_failures + 1
                                          ELSE self_failures
    /\ UNCHANGED <<status, current_step, completed, currently_completed,
                   complete_current_task_sent, raw_samples, stored, store,
                   ticking, reports, local, inbox, toMaster>>

\* The orchestrator has been told how the benchmark ended.
Outcome == \E i \in DOMAIN reports : reports[i] # "TaskFinished"

\* receiveMsg_ActorExitRequest, and Thespian passing it on to the children.
\* The orchestrator asks for it once it knows the outcome, or a user interrupt
\* makes it ask at any time.
ExitRequest ==
    /\ status # "exiting"
    /\ Outcome \/ "interrupt" \in Faults
    /\ status' = "exiting"
    /\ SendAll(Msg("ActorExitRequest", 0))
    /\ UNCHANGED <<current_step, completed, currently_completed,
                   complete_current_task_sent, raw_samples, stored, store,
                   ticking, resets, self_failures, reports, local, toMaster>>

-----------------------------------------------------------------------------
(* A worker.                                                                 *)

\* The handler of the next message of w may run, and it is of type t.
WorkerTakes(w, t) ==
    /\ alive[w] = "up" /\ ~busy[w]
    /\ inbox[w] # <<>>
    /\ Head(inbox[w]).type = t
    /\ inbox' = [inbox EXCEPT ![w] = Tail(@)]

\* send_samples: what it puts into the channel to the master.
Drained(w) ==
    IF sampler[w] = 0 THEN toMaster[w]
    ELSE Append(toMaster[w], Msg("UpdateSamples", sampler[w]))

\* Mutant: the join point is announced ahead of the samples.
ReachJoinPointFirst(w, pending) ==
    /\ toMaster' = [toMaster EXCEPT ![w] =
                      LET joined == Append(@, Msg("JoinPointReached", reached[w]))
                      IN  IF sampler[w] = 0 THEN joined
                          ELSE Append(joined, Msg("UpdateSamples", sampler[w]))]
    /\ sampler' = [sampler EXCEPT ![w] = 0]
    /\ complete' = [complete EXCEPT ![w] = FALSE]
    /\ cancel' = [cancel EXCEPT ![w] = FALSE]
    /\ reached' = [reached EXCEPT ![w] = @ + 1]
    /\ future' = [future EXCEPT ![w] = "none"]
    /\ wakeups' = [wakeups EXCEPT ![w] = pending]
    /\ UNCHANGED running

\* drive, reaching a join point.
ReachJoinPoint(w, pending) ==
    /\ toMaster' = [toMaster EXCEPT ![w] =
                      Append(Drained(w), Msg("JoinPointReached", reached[w]))]
    /\ sampler' = [sampler EXCEPT ![w] = 0]
    /\ complete' = [complete EXCEPT ![w] = FALSE]
    /\ cancel' = [cancel EXCEPT ![w] = FALSE]
    /\ reached' = [reached EXCEPT ![w] = @ + 1]
    /\ future' = [future EXCEPT ![w] = "none"]
    /\ wakeups' = [wakeups EXCEPT ![w] = pending]
    /\ UNCHANGED running

\* drive, asked to complete everything up to the next join point: the row is
\* skipped, nothing is scheduled.
SkipRow(w, pending) ==
    /\ future' = [future EXCEPT ![w] = "none"]
    /\ wakeups' = [wakeups EXCEPT ![w] = pending]
    /\ UNCHANGED <<toMaster, sampler, complete, cancel, reached, running>>

\* drive, submitting the tasks of row r to the executor thread with a new
\* sampler.
SubmitRow(w, r, pending) ==
    /\ future' = [future EXCEPT ![w] = "running"]
    /\ running' = [running EXCEPT ![w] = TasksAt(w, r)]
    /\ sampler' = [sampler EXCEPT ![w] = 0]
    /\ wakeups' = [wakeups EXCEPT ![w] = pending + 1]
    /\ UNCHANGED <<toMaster, complete, cancel, reached>>

\* Worker.drive; `pending` wakeups are left when it is called.
Drive(w, pending) ==
    /\ next' = [next EXCEPT ![w] = NextRow(w) + 1]
    /\ \/ IsJoin(NextRow(w)) /\ ReachJoinPoint(w, pending)
       \/ ~IsJoin(NextRow(w)) /\ complete[w] /\ SkipRow(w, pending)
       \/ ~IsJoin(NextRow(w)) /\ ~complete[w] /\ SubmitRow(w, NextRow(w), pending)

\* receiveMsg_StartWorker.
StartWorker(w) ==
    /\ WorkerTakes(w, "StartWorker")
    /\ Drive(w, wakeups[w])
    /\ UNCHANGED <<master, alive, start_driving, busy, accepted>>

\* Configuration or plugins cannot be loaded: the guard answers the master.
StartWorkerFails(w) ==
    /\ "start" \in Faults
    /\ WorkerTakes(w, "StartWorker")
    /\ toMaster' = [toMaster EXCEPT ![w] = Append(@, Msg("BenchmarkFailure", 0))]
    /\ UNCHANGED <<master, local>>

\* receiveMsg_Drive: the start is delayed with a wakeup.
ReceiveDrive(w) ==
    /\ WorkerTakes(w, "Drive")
    /\ start_driving' = [start_driving EXCEPT ![w] = TRUE]
    /\ wakeups' = [wakeups EXCEPT ![w] = @ + 1]
    /\ UNCHANGED <<master, alive, next, reached, busy, future, running,
                   complete, cancel, sampler, accepted, toMaster>>

\* Mutant: the flag is set at a join point too.
CompleteCurrentTaskAlways(w) ==
    /\ WorkerTakes(w, "CompleteCurrentTask")
    /\ Timely => ~start_driving[w]
    /\ complete' = [complete EXCEPT ![w] = TRUE]
    /\ UNCHANGED <<master, alive, next, reached, start_driving, wakeups, busy,
                   future, running, cancel, sampler, accepted, toMaster>>

\* receiveMsg_CompleteCurrentTask; ignored at a join point.
CompleteCurrentTask(w) ==
    /\ WorkerTakes(w, "CompleteCurrentTask")
    /\ Timely => ~start_driving[w]
    /\ complete' = [complete EXCEPT ![w] = @ \/ ~AtJoinpoint(w)]
    /\ UNCHANGED <<master, alive, next, reached, start_driving, wakeups, busy,
                   future, running, cancel, sampler, accepted, toMaster>>

\* receiveMsg_BenchmarkFailure: forwarded to the master.
ForwardFailure(w) ==
    /\ WorkerTakes(w, "BenchmarkFailure")
    /\ toMaster' = [toMaster EXCEPT ![w] = Append(@, Msg("BenchmarkFailure", 0))]
    /\ UNCHANGED <<master, local>>

CanWakeUp(w) == alive[w] = "up" /\ ~busy[w] /\ wakeups[w] > 0

\* receiveMsg_WakeupMessage after a Drive.
WakeupToDrive(w) ==
    /\ CanWakeUp(w)
    /\ start_driving[w]
    /\ start_driving' = [start_driving EXCEPT ![w] = FALSE]
    /\ Drive(w, wakeups[w] - 1)
    /\ UNCHANGED <<master, alive, busy, accepted, inbox>>

\* drive raises in the wakeup handler: the guard sends the failure to the
\* worker itself.
WakeupToDriveFails(w) ==
    /\ "drive" \in Faults
    /\ CanWakeUp(w)
    /\ start_driving[w]
    /\ start_driving' = [start_driving EXCEPT ![w] = FALSE]
    /\ wakeups' = [wakeups EXCEPT ![w] = @ - 1]
    /\ inbox' = [inbox EXCEPT ![w] = Append(@, Msg("BenchmarkFailure", 0))]
    /\ UNCHANGED <<master, alive, next, reached, busy, future, running,
                   complete, cancel, sampler, accepted, toMaster>>

\* receiveMsg_WakeupMessage otherwise: first the samples are sent ...
WakeupSendsSamples(w) ==
    /\ CanWakeUp(w)
    /\ ~start_driving[w]
    /\ busy' = [busy EXCEPT ![w] = TRUE]
    /\ wakeups' = [wakeups EXCEPT ![w] = @ - 1]
    /\ toMaster' = [toMaster EXCEPT ![w] = Drained(w)]
    /\ sampler' = [sampler EXCEPT ![w] = 0]
    /\ UNCHANGED <<master, alive, next, reached, start_driving, future,
                   running, complete, cancel, accepted, inbox>>

\* Mutant: the exception of the future is not looked at.
WakeupFindsDoneUnchecked(w) ==
    /\ busy[w] /\ future[w] \in {"done", "failed"}
    /\ busy' = [busy EXCEPT ![w] = FALSE]
    /\ Drive(w, wakeups[w])
    /\ UNCHANGED <<master, alive, start_driving, accepted, inbox>>

\* ... then the future is looked at, while the executor thread goes on.  The
\* executor has ended: continue with the next row.
WakeupFindsDone(w) ==
    /\ busy[w] /\ future[w] = "done"
    /\ busy' = [busy EXCEPT ![w] = FALSE]
    /\ Drive(w, wakeups[w])
    /\ UNCHANGED <<master, alive, start_driving, accepted, inbox>>

\* The executor has raised: tell the master and stop waking up.
WakeupFindsFailure(w) ==
    /\ busy[w] /\ future[w] = "failed"
    /\ busy' = [busy EXCEPT ![w] = FALSE]
    /\ toMaster' = [toMaster EXCEPT ![w] = Append(@, Msg("BenchmarkFailure", 0))]
    /\ UNCHANGED <<master, alive, next, reached, start_driving, wakeups,
                   future, running, complete, cancel, sampler, accepted, inbox>>

\* The executor is still at work: wake up again later.
WakeupFindsRunning(w) ==
    /\ busy[w] /\ future[w] \notin {"done", "failed"}
    /\ busy' = [busy EXCEPT ![w] = FALSE]
    /\ wakeups' = [wakeups EXCEPT ![w] = @ + 1]
    /\ UNCHANGED <<master, alive, next, reached, start_driving, future,
                   running, complete, cancel, sampler, accepted, inbox, toMaster>>

\* Mutant: the executor is not cancelled.
WorkerExitRequestWaits(w) ==
    /\ WorkerTakes(w, "ActorExitRequest")
    /\ alive' = [alive EXCEPT ![w] = "exiting"]
    /\ UNCHANGED <<master, next, reached, start_driving, wakeups, busy, future,
                   running, complete, cancel, sampler, accepted, toMaster>>

\* receiveMsg_ActorExitRequest: cancel a running executor and wait for it in
\* pool.shutdown.
WorkerExitRequest(w) ==
    /\ WorkerTakes(w, "ActorExitRequest")
    /\ alive' = [alive EXCEPT ![w] = "exiting"]
    /\ cancel' = [cancel EXCEPT ![w] = @ \/ future[w] \in {"running", "failing"}]
    /\ UNCHANGED <<master, next, reached, start_driving, wakeups, busy, future,
                   running, complete, sampler, accepted, toMaster>>

\* pool.shutdown returns and the actor ends.
WorkerExits(w) ==
    /\ alive[w] = "exiting"
    /\ future[w] \notin {"running", "failing"}
    /\ alive' = [alive EXCEPT ![w] = "gone"]
    /\ toMaster' = [toMaster EXCEPT ![w] = Append(@, Msg("ChildActorExited", 0))]
    /\ UNCHANGED <<master, next, reached, start_driving, wakeups, busy, future,
                   running, complete, cancel, sampler, accepted, inbox>>

\* The worker process dies, its executor thread with it.
WorkerCrashes(w) ==
    /\ "crash" \in Faults
    /\ status = "started"
    /\ alive[w] = "up"
    /\ alive' = [alive EXCEPT ![w] = "gone"]
    /\ busy' = [busy EXCEPT ![w] = FALSE]
    /\ future' = [future EXCEPT ![w] = "none"]
    /\ running' = [running EXCEPT ![w] = {}]
    /\ toMaster' = [toMaster EXCEPT ![w] = Append(@, Msg("ChildActorExited", 0))]
    /\ UNCHANGED <<master, next, reached, start_driving, wakeups, complete,
                   cancel, sampler, accepted, inbox>>

-----------------------------------------------------------------------------
(* The executor thread of a worker: one coroutine (AsyncExecutor) per client *)
(* of the row.                                                               *)

KindOf(w, c) == Alloc[c][CurrentTaskIndex(w)]

InLoop(w, c) == c \in running[w] /\ future[w] \in {"running", "failing"}

\* A coroutine ends; the `finally` block signals completion of the parent.
Leave(w, c) ==
    /\ running' = [running EXCEPT ![w] = @ \ {c}]
    /\ complete' = [complete EXCEPT ![w] = @ \/ KindOf(w, c) = "completing"]

\* Sampler.add: a full queue drops the sample.
AddSample(w) ==
    IF sampler[w] < QueueSize
    THEN /\ sampler' = [sampler EXCEPT ![w] = @ + 1]
         /\ accepted' = accepted + 1
    ELSE UNCHANGED <<sampler, accepted>>

\* The client was asked to complete and heeds it.
AskedToComplete(w, c) == complete[w] /\ KindOf(w, c) # "completing"

\* One request of client c, after which it goes on with its schedule.
Request(w, c) ==
    /\ InLoop(w, c) /\ ~cancel[w]
    /\ ~AskedToComplete(w, c)
    /\ accepted < MaxSamples
    /\ AddSample(w)
    /\ UNCHANGED <<master, alive, next, reached, start_driving, wakeups, busy,
                   future, running, complete, cancel, inbox, toMaster>>

\* One request of client c that is its last: it was asked to complete, or its
\* runner reports completion (never the runner of an eternal task).
LastRequest(w, c) ==
    /\ InLoop(w, c) /\ ~cancel[w]
    /\ \/ AskedToComplete(w, c)
       \/ accepted < MaxSamples /\ KindOf(w, c) # "eternal"
    /\ AddSample(w)
    /\ Leave(w, c)
    /\ UNCHANGED <<master, alive, next, reached, start_driving, wakeups, busy,
                   future, cancel, inbox, toMaster>>

\* The schedule of client c is exhausted, or it finds `cancel` set.
ScheduleEnds(w, c) ==
    /\ InLoop(w, c)
    /\ cancel[w] \/ KindOf(w, c) # "eternal"
    /\ Leave(w, c)
    /\ UNCHANGED <<master, alive, next, reached, start_driving, wakeups, busy,
                   future, cancel, sampler, accepted, inbox, toMaster>>

\* A request raises: gather fails, the other coroutines are abandoned when
\* the event loop closes.
RequestFails(w, c) ==
    /\ "request" \in Faults
    /\ InLoop(w, c) /\ ~cancel[w]
    /\ future' = [future EXCEPT ![w] = "failing"]
    /\ Leave(w, c)
    /\ UNCHANGED <<master, alive, next, reached, start_driving, wakeups, busy,
                   cancel, sampler, accepted, inbox, toMaster>>

\* AsyncIoAdapter.__call__ returns or raises: the future is done.
ExecutorEnds(w) ==
    /\ \/ future[w] = "running" /\ running[w] = {}
       \/ future[w] = "failing"
    /\ future' = [future EXCEPT ![w] = IF @ = "failing" THEN "failed" ELSE "done"]
    /\ running' = [running EXCEPT ![w] = {}]
    /\ UNCHANGED <<master, alive, next, reached, start_driving, wakeups, busy,
                   complete, cancel, sampler, accepted, inbox, toMaster>>

-----------------------------------------------------------------------------
MasterStep(w) ==
    \/ JoinPointReachedByOne(w)
    \/ JoinPointReachedByAll(w)
    \/ JoinPointReachedFails(w)
    \/ UpdateSamples(w)
    \/ BenchmarkFailure(w)
    \/ WorkerExitedPrematurely(w)

MasterAlone ==
    \/ StartBenchmark
    \/ StartBenchmarkFails
    \/ BenchmarkFailureFromSelf
    \/ PeriodicWakeup
    \/ PeriodicWakeupFails
    \/ ResetRelativeTime
    \/ ExitRequest

WorkerStep(w) ==
    \/ StartWorker(w)
    \/ StartWorkerFails(w)
    \/ ReceiveDrive(w)
    \/ CompleteCurrentTask(w)
    \/ ForwardFailure(w)
    \/ WakeupToDrive(w)
    \/ WakeupToDriveFails(w)
    \/ WakeupSendsSamples(w)
    \/ WakeupFindsDone(w)
    \/ WakeupFindsFailure(w)
    \/ WakeupFindsRunning(w)
    \/ WorkerExitRequest(w)
    \/ WorkerExits(w)
    \/ WorkerCrashes(w)

ExecutorStep(w) ==
    \/ \E c \in Client : \/ Request(w, c)
                         \/ LastRequest(w, c)
                         \/ ScheduleEnds(w, c)
                         \/ RequestFails(w, c)
    \/ ExecutorEnds(w)

Next ==
    \/ MasterAlone
    \/ \E w \in Worker : MasterStep(w) \/ WorkerStep(w) \/ ExecutorStep(w)

Spec == Init /\ [][Next]_vars

(* A handler of a worker that takes a message from its inbox.                *)
InboxStep(w) ==
    \/ StartWorker(w) \/ ReceiveDrive(w) \/ CompleteCurrentTask(w)
    \/ ForwardFailure(w) \/ WorkerExitRequest(w)

WakeupStep(w) ==
    \/ WakeupToDrive(w) \/ WakeupSendsSamples(w) \/ WakeupFindsDone(w)
    \/ WakeupFindsFailure(w) \/ WakeupFindsRunning(w)

(* Thespian delivers every message and every timer to an actor that is up    *)
(* (strong fairness for the inbox because the wakeup handler holds it off    *)
(* again and again), requests time out, and schedules of tasks that are not  *)
(* eternal are finite.  The orchestrator reacts to the outcome.              *)
Fairness ==
    /\ WF_vars(StartBenchmark)
    /\ WF_vars(BenchmarkFailureFromSelf)
    /\ WF_vars(ResetRelativeTime)
    /\ WF_vars(Outcome /\ ExitRequest)
    /\ \A w \in Worker :
          /\ WF_vars(MasterStep(w))
          /\ SF_vars(InboxStep(w))
          /\ WF_vars(WakeupStep(w))
          /\ WF_vars(ExecutorEnds(w))
          /\ WF_vars(WorkerExits(w))
          /\ \A c \in Client : /\ WF_vars(LastRequest(w, c))
                               /\ WF_vars(ScheduleEnds(w, c))

FairSpec == Spec /\ Fairness

-----------------------------------------------------------------------------
MasterTypeOK ==
    /\ status \in {"init", "started", "exiting"}
    /\ current_step \in -1..NumSteps
    /\ completed \in SUBSET Worker
    /\ currently_completed \in Nat
    /\ complete_current_task_sent \in BOOLEAN
    /\ raw_samples \in Nat /\ stored \in Nat
    /\ store \in {"open", "closed", "none"}
    /\ ticking \in BOOLEAN
    /\ resets \in Nat /\ self_failures \in Nat
    /\ reports \in Seq({"TaskFinished", "BenchmarkComplete", "BenchmarkFailure"})

WorkerTypeOK ==
    /\ alive \in [Worker -> {"up", "exiting", "gone"}]
    /\ next \in [Worker -> 0..(LastRow + 1)]
    /\ reached \in [Worker -> 0..(NumSteps + 1)]
    /\ start_driving \in [Worker -> BOOLEAN]
    /\ wakeups \in [Worker -> Nat]
    /\ busy \in [Worker -> BOOLEAN]
    /\ future \in [Worker -> {"none", "running", "failing", "done", "failed"}]
    /\ running \in [Worker -> SUBSET Client]
    /\ complete \in [Worker -> BOOLEAN]
    /\ cancel \in [Worker -> BOOLEAN]
    /\ sampler \in [Worker -> Nat]
    /\ accepted \in Nat

ChannelTypeOK ==
    /\ inbox \in [Worker -> Seq(Message(MasterMessage))]
    /\ toMaster \in [Worker -> Seq(Message(WorkerMessage))]

\* Every variable has its type; in particular the master never counts more
\* steps than the schedule has, and no worker leaves the allocation matrix.
TypeOK == MasterTypeOK /\ WorkerTypeOK /\ ChannelTypeOK

\* How many join points the master has let the workers past.
Released == current_step + 1

Barrier == INSTANCE StepBarrier
    WITH Party <- Worker, Rounds <- NumSteps,
         arrived <- reached, released <- Released

\* The join points of the allocation matrix are a barrier: joinpoint_reached
\* ends a step only when every worker has announced the join point, and no
\* worker announces one before drive_at released it from the one before.
StepsAreBarriers == Barrier!BarrierSpec

\* The master counts messages (currently_completed) but decides about
\* workers: the count is the number of distinct workers at the join point,
\* all of them ahead of the released step, and the matrix is never left.
StepAccounting ==
    /\ currently_completed = Cardinality(completed)
    /\ completed # Worker
    /\ \A w \in Worker : reached[w] \in {Released, Released + 1}
    /\ \A w \in completed : reached[w] = Released + 1

\* Some message of s, at most one message of s, has a type in T.
Has(s, T) == \E i \in 1..Len(s) : s[i].type \in T
AtMostOne(s, T) ==
    \A i, j \in 1..Len(s) : s[i].type \in T /\ s[j].type \in T => i = j

Go == {"StartWorker", "Drive"}
Announcement == {"JoinPointReached"}

\* The worker was let past its last join point and has acted on it.
Working(w) == start_driving[w] \/ future[w] # "none" \/ ~AtJoinpoint(w)

\* Where worker w is in the protocol of the current step: released (a message
\* that lets it go is under way), working, or waiting (its announcement is
\* under way or counted), and never in two of these at a time.
Protocol(w) ==
    /\ AtMostOne(inbox[w], Go)
    /\ AtMostOne(toMaster[w], Announcement)
    /\ Has(inbox[w], Go) => ~Working(w)
    /\ start_driving[w] => future[w] = "none" /\ AtJoinpoint(w)
    /\ future[w] # "none" => ~AtJoinpoint(w)
    /\ Has(inbox[w], Go) \/ Working(w)
          => reached[w] = Released /\ reached[w] <= NumSteps
    /\ Has(toMaster[w], Announcement)
          => reached[w] = Released + 1 /\ w \notin completed
    /\ w \in completed => reached[w] = Released + 1
    /\ reached[w] \in {Released, Released + 1}
    /\ reached[w] > 0 => next[w] > JoinIndex[reached[w] - 1]
    /\ reached[w] <= NumSteps => next[w] <= JoinIndex[reached[w]]
    /\ status = "init" => /\ next[w] = 0 /\ reached[w] = 0
                          /\ ~Has(inbox[w], Go) /\ ~Working(w)
                          /\ w \notin completed

\* Every worker takes part in every step exactly once: a worker that runs is
\* never let go a second time, one that waits has announced exactly one join
\* point, and the row it executes lies between the last join point it reached
\* and the next one.
StepProtocol == \A w \in Worker : Protocol(w)

\* A request to complete a step early ends that step only: the flag is never
\* set while a worker is at a join point (it would skip the next step), and a
\* CompleteCurrentTask that a worker heeds was sent in the step it executes.
NoStaleCompletion ==
    \A w \in Worker :
        /\ AtJoinpoint(w) => ~complete[w]
        /\ inbox[w] # <<>> /\ Head(inbox[w]).type = "CompleteCurrentTask"
              /\ ~AtJoinpoint(w) => Head(inbox[w]).n = reached[w]

Completed == \E i \in DOMAIN reports : reports[i] = "BenchmarkComplete"

\* A benchmark with a failed task never reports results: once an executor has
\* raised, in whatever step and whatever the other workers do, no
\* BenchmarkComplete is sent.
NoResultsOfFailedTasks ==
    []((\E w \in Worker : future[w] \in {"failing", "failed"}) => []~Completed)

\* When a step ends every sample that was taken so far is in the metrics
\* store, unless post-processing has failed (and says so): UpdateSamples is
\* sent ahead of JoinPointReached, and post-processing runs before the next
\* step is released.
SamplesStoredAtStepEnd ==
    [][\A w \in Worker :
          JoinPointReachedByAll(w) /\ ~Outcome /\ self_failures = 0
              => stored' = accepted]_vars

\* Every started benchmark ends: the orchestrator gets BenchmarkComplete or
\* BenchmarkFailure, whatever fails on the way, unless a user interrupts it.
BenchmarkEnds == (status = "started") ~> (Outcome \/ status = "exiting")

\* After an exit request no worker stays behind, not even one that executes an
\* eternal task.
WorkersExit == (status = "exiting") ~> (\A w \in Worker : alive[w] = "gone")
=============================================================================
