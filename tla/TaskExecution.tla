---------------------------- MODULE TaskExecution ----------------------------
(***************************************************************************)
(* One task from its description to its metrics: the workload is loaded    *)
(* (Specification), the clients of a worker run the schedules of a task    *)
(* (Schedule) and add a sample per request to the worker's sampler; the    *)
(* worker sends the samples to the coordinator, which post-processes what  *)
(* has arrived (Throughput).                                               *)
(*                                                                         *)
(* Time is counted in ticks.  A request takes between one and MaxDuration  *)
(* of them; the event loop itself takes none.                              *)
(***************************************************************************)
EXTENDS Specification, Throughput

CONSTANTS
    Benchmarks,         \* [workload, procedure, test_mode, serverless] to load
    Weights,            \* operations of a successful request
    QueueSize,          \* buffer_size of the sampler
    DownsampleFactor,
    MaxDuration         \* bound: ticks a request takes

ASSUME ExecutionAssumption ==
    /\ QueueSize \in Nat \ {0}
    /\ DownsampleFactor \in Nat \ {0} /\ MaxDuration \in Nat \ {0}
    /\ Weights \subseteq Nat \ {0}
    /\ \A b \in Benchmarks : WellFormed(b.workload) /\ b.test_mode \in BOOLEAN

VARIABLES
    phase,       \* "loading", "rejected" or "running"
    benchmark,   \* what the user asked for
    now,
    task,
    state,       \* client -> "asleep", "ready", "waiting", "request" or "done"
    it,          \* client -> iterations of its progress control
    scheduled,   \* client -> expected_scheduled_time
    weight,      \* client -> current_weight of its scheduler
    began,       \* client -> when its request started
    type,        \* client -> sample type of the request under way
    left,        \* params the source has left
    sampler,     \* queue of the worker's sampler
    raw_samples, \* samples the coordinator has received
    stats,       \* TaskStats of the task
    made,        \* history: client -> type -> number of requests
    work,        \* history: client -> operations that count for its target
    sampled,     \* history: operations of the samples in the queue so far
    stored,      \* history: latency records
    reported     \* history: sample types throughput was stored for

loaded == <<phase, benchmark, task>>
clients == <<state, it, scheduled, weight, began, type>>
measured == <<raw_samples, stats, stored, reported>>
vars == <<loaded, now, clients, left, sampler, measured, made, work, sampled>>

Total(samples) == SumOf([i \in DOMAIN samples |-> samples[i].ops])

\* The clients of the task, all on one worker; none before it is loaded.
Client == DOMAIN state

Init ==
    /\ phase = "loading"
    /\ benchmark \in Benchmarks
    /\ now = 0
    /\ task = <<>>
    /\ state = <<>> /\ it = <<>> /\ scheduled = <<>> /\ weight = <<>>
    /\ began = <<>> /\ type = <<>> /\ made = <<>> /\ work = <<>>
    /\ left = None
    /\ sampler = <<>>
    /\ raw_samples = <<>>
    /\ stats = NoStats
    /\ sampled = 0
    /\ stored = 0
    /\ reported = {}

Rejected ==
    /\ phase' = "rejected"
    /\ UNCHANGED <<benchmark, now, task, clients, left, sampler, measured, made, work,
                   sampled>>

Unusable ==
    \/ Invalid(benchmark.workload)
    \/ benchmark.test_mode /\ TestModeInvalid(benchmark.workload)
    \/ Found(benchmark.workload, benchmark.procedure) = {}

\* The specification is wrong, or has no test procedure of this name.
Reject ==
    /\ phase = "loading"
    /\ Unusable
    /\ Rejected

\* The workload is loaded, and one of its tasks runs.
Load ==
    /\ phase = "loading"
    /\ ~Unusable
    /\ \E p \in Found(benchmark.workload, benchmark.procedure) :
          LET tasks == Processed(benchmark.workload[p], benchmark.test_mode,
                                 benchmark.serverless)
          IN  \E i \in DOMAIN tasks :
                LET t == tasks[i]
                    ofClients(value) == [c \in 0..(t.clients - 1) |-> value]
                IN  IF TargetInvalid(t) THEN Rejected
                    ELSE /\ phase' = "running"
                         /\ task' = Merged(t, [wait |-> Wait(t)])
                         /\ left' = t.op.size
                         /\ state' = ofClients("asleep")
                         /\ it' = ofClients(0)
                         /\ scheduled' = ofClients(0)
                         /\ weight' = ofClients(0)
                         /\ began' = ofClients(None)
                         /\ type' = ofClients(Warmup)
                         /\ made' = ofClients([ty \in {Warmup, Normal} |-> 0])
                         /\ work' = ofClients(0)
                         /\ UNCHANGED <<benchmark, now, sampler, measured, sampled>>

\* The client sleeps for its share of the ramp-up; its progress control and
\* its schedule have started before.
RampedUp(c) ==
    /\ state[c] = "asleep"
    /\ now >= RampUpWait(task, c)
    /\ state' = [state EXCEPT ![c] = "ready"]
    /\ UNCHANGED <<loaded, now, it, scheduled, weight, began, type, left, sampler,
                   measured, made, work, sampled>>

\* The schedule generator is asked for the next request: the control moves on
\* and looks at the clock (not so before the first request: it does not see the
\* ramp-up), and the schedule ends if the control is completed or the parameter
\* source raises StopIteration.
NextRequest(c) ==
    LET steps == IF began[c] = None THEN it[c] ELSE it[c] + 1
        elapsed == IF began[c] = None THEN 0 ELSE now
        ended == \/ ~Infinite(task) /\ ControlCompleted(task, steps, elapsed)
                 \/ left = 0
    IN  /\ state[c] = "ready"
        /\ it' = [it EXCEPT ![c] = steps]
        /\ state' = [state EXCEPT ![c] = IF ended THEN "done" ELSE "waiting"]
        /\ IF ended THEN UNCHANGED <<scheduled, type, left>>
           ELSE /\ scheduled' = [scheduled EXCEPT ![c] =
                                   NextScheduled(task, weight[c], @)]
                /\ type' = [type EXCEPT ![c] =
                              IF InWarmup(task, steps, elapsed) THEN Warmup ELSE Normal]
                /\ left' = IF left = None THEN None ELSE left - 1
        /\ UNCHANGED <<loaded, now, weight, began, sampler, measured, made, work, sampled>>

\* Throttled clients sleep until the expected time; one that is late does not.
Issue(c) ==
    /\ state[c] = "waiting"
    /\ now >= scheduled[c]
    /\ state' = [state EXCEPT ![c] = "request"]
    /\ began' = [began EXCEPT ![c] = now]
    /\ UNCHANGED <<loaded, now, it, scheduled, weight, type, left, sampler, measured,
                   made, work, sampled>>

\* Mutant: put() instead of put_nowait().
AddSampleBlocking(s) ==
    /\ Len(sampler) < QueueSize
    /\ sampler' = Append(sampler, s)
    /\ sampled' = sampled + s.ops

\* Sampler.add: a full queue drops the sample.
AddSample(s) ==
    IF Len(sampler) < QueueSize
    THEN sampler' = Append(sampler, s) /\ sampled' = sampled + s.ops
    ELSE UNCHANGED <<sampler, sampled>>

\* The request returns with `ops` operations, 0 if it failed (and the task goes
\* on); the runner may say that it is completed.
Respond(c) ==
    /\ state[c] = "request"
    /\ now > began[c]
    /\ \E ops \in Weights \union {0}, completed \in {FALSE, task.op.completes} :
          /\ AddSample([time |-> began[c], period |-> now, ops |-> ops,
                        type |-> type[c], throughput |-> task.op.throughput])
          /\ weight' = [weight EXCEPT ![c] = CurrentWeight(task, @, ops)]
          /\ state' = [state EXCEPT ![c] = IF completed THEN "done" ELSE "ready"]
          /\ work' = [work EXCEPT ![c] =
                        @ + IF ops > 0 /\ task.op.per_request THEN 1 ELSE ops]
    /\ made' = [made EXCEPT ![c][type[c]] = @ + 1]
    /\ UNCHANGED <<loaded, now, it, scheduled, began, type, left, measured>>

\* The worker's wakeup handler drains the sampler; UpdateSamples is handled.
SendSamples ==
    /\ sampler # <<>>
    /\ raw_samples' = raw_samples \o sampler
    /\ sampler' = <<>>
    /\ UNCHANGED <<loaded, now, clients, left, stats, stored, reported, made, work, sampled>>

\* post_process_samples: latencies, downsampled, then throughput.
PostProcess ==
    /\ raw_samples # <<>>
    /\ LET result == Calculate(stats, raw_samples)
       IN  /\ stats' = result.stats
           /\ reported' = reported \union result.types
    /\ stored' = stored + (Len(raw_samples) + DownsampleFactor - 1) \div DownsampleFactor
    /\ raw_samples' = <<>>
    /\ UNCHANGED <<loaded, now, clients, left, sampler, made, work, sampled>>

\* Time passes unless a client has something to do at once.
Urgent(c) ==
    \/ state[c] = "asleep" /\ now >= RampUpWait(task, c)
    \/ state[c] = "ready"
    \/ state[c] = "waiting" /\ now >= scheduled[c]
    \/ state[c] = "request" /\ now - began[c] >= MaxDuration

Tick ==
    /\ \E c \in Client : state[c] # "done"
    /\ \A c \in Client : ~Urgent(c)
    /\ now' = now + 1
    /\ UNCHANGED <<loaded, clients, left, sampler, measured, made, work, sampled>>

Run == Tick \/ \E c \in Client :
                  RampedUp(c) \/ NextRequest(c) \/ Issue(c) \/ Respond(c)

Next == Load \/ Reject \/ Run \/ SendSamples \/ PostProcess

\* The event loop of the worker goes on, whatever the actors do.
Spec == Init /\ [][Next]_vars /\ WF_vars(Load \/ Reject) /\ WF_vars(Run)

-----------------------------------------------------------------------------
\* What the workload asks for, in ticks or iterations of this key: the task's own
\* value, or else that of the parallel element around it.
Asked(key) ==
    IF task.asked.own[key] # None THEN task.asked.own[key] ELSE task.asked.parallel[key]

\* Iterations and time periods in one task: rejected only next to a warmup.
Mixed == Asked("iterations") # None /\ Asked("time_period") # None

AtMost(n, limit) == IF benchmark.test_mode /\ n > limit THEN limit ELSE n

\* A client ends after exactly the warmup and measurement iterations the workload
\* asks for (no more than there are clients in test mode), unless its source ends
\* before.  A client that runs for a time ends neither in its warmup nor early,
\* and, however late the ramp-up lets it start, it has measured something, if its
\* column is the first it runs and its target leaves it time.
RunsAsConfigured ==
    \A c \in Client : state[c] = "done" /\ left # 0 /\ ~task.op.completes /\ ~Mixed =>
        IF Asked("time_period") # None
        THEN /\ now >= AtMost(OrZero(Asked("warmup_time_period")), 0)
                        + AtMost(Asked("time_period"), TestModePeriod)
             /\ task.wait = 0 /\ task.time_period >= MaxDuration
                /\ task.first + c < task.total => made[c][Normal] > 0
        ELSE /\ made[c][Warmup] = AtMost(OrZero(Asked("warmup_iterations")), task.clients)
             /\ made[c][Normal] = IF Asked("iterations") = None THEN 1
                                  ELSE AtMost(Asked("iterations"), task.clients)

\* A client is never ahead of its target throughput: before it sends another
\* request, the time its successful ones may take at the target rate is over,
\* whatever their weights and however many requests failed in between.
TargetRespected ==
    \A c \in Client : state[c] = "request" => work[c] * task.wait <= began[c]

\* Post-processing in rounds loses nothing: the operations of all samples are
\* in the total, carried over in `unprocessed`, or still under way; and a type
\* of samples that was processed has a throughput record.
OperationsNotLost ==
    LET counted == IF stats.started
                   THEN stats.total_count + Total(stats.unprocessed) ELSE 0
    IN  /\ phase = "running" /\ ~task.op.throughput =>
              counted + Total(raw_samples) + Total(sampler) >= sampled
        /\ stats.started => stats.sample_type \in reported

\* No operation is in the total twice ("we would count all raw samples in
\* `unprocessed` twice. Hence, we'll only update `current.total_count` when we
\* have calculated a new throughput sample").
OperationsCountedOnce == stats.started => stats.total_count <= sampled

\* Every client gets to the end of its schedule, also when nobody drains the
\* sampler.
TaskEnds == <>(phase # "loading" /\ \A c \in Client : state[c] = "done")
=============================================================================
