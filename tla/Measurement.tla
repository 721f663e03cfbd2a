----------------------------- MODULE Measurement -----------------------------
(***************************************************************************)
(* From samples to results.  The load generator post-processes the samples *)
(* of its workers into its metrics store, while sampler threads of the     *)
(* telemetry devices write to the same store; after every step it hands    *)
(* its records over to the orchestrator, which computes the results at the *)
(* end.  The builder of the nodes stores their system metrics when it      *)
(* stops them.                                                             *)
(***************************************************************************)
EXTENDS Telemetry, Launcher

CONSTANTS
    Scenarios  \* [kind, commands, indexed, docker, samples, limits]: the kind of metrics store,
               \* the enabled devices, whether ccr-stats-indices is given, Docker or processes,
               \* the samples of each step's task, and how many faults of each kind happen

\* The names of the tasks of a test procedure are different
\* (_create_test_procedures), and it has a task.
ASSUME ScenarioAssumption ==
    \A s \in Scenarios :
        /\ s.kind \in {"in-memory", "opensearch"}
        /\ s.samples \in Seq(Range(s.samples)) \ {<<>>}
        /\ \A i, j \in DOMAIN s.samples : s.samples[i].task = s.samples[j].task => i = j

VARIABLES
    phase,    \* what the load generator does
    commands, \* the devices that are enabled
    samples,  \* the task of each step and its samples, [value, type, ok]
    step,     \* the current step
    taken,    \* samples of the step that were post-processed
    upto,     \* ... and those of the round
    stepOver, \* the round is the last of its step
    memento,  \* the externalized records of the last step
    mailbox,  \* TaskFinished and BenchmarkComplete, on the way to the orchestrator
    outcome,  \* of the orchestrator: None, "flushed", "error" or "published"
    results   \* what was published: <<>> or <<results>>

controlVars == <<phase, commands, samples, step, taken, upto, stepOver, memento, mailbox,
                 outcome, results>>

vars == <<storeVars, telemetryVars, launcherVars, controlVars>>

Init ==
    /\ \E s \in Scenarios :
           /\ kind = s.kind
           /\ commands = s.commands
           /\ devices = Enabled(s.commands, s.indexed)
           /\ docker = s.docker
           /\ samples = s.samples
           /\ limits = s.limits
    /\ StoreInit /\ TelemetryInit /\ LauncherInit
    /\ phase = "idle"
    /\ step = 1 /\ taken = 0 /\ upto = 0 /\ stepOver = FALSE
    /\ memento = EmptyBag /\ mailbox = <<>>
    /\ outcome = None /\ results = <<>>

\* Variables a step of the load generator's control leaves alone.
ControlUnchanged == UNCHANGED <<commands, samples, memento, mailbox, outcome, results>>

-------------------------------------------------------------------------------
(* The load generator.                                                     *)

StartBenchmark ==
    /\ phase = "idle" /\ engine = "up"
    /\ Begin("start")
    /\ phase' = "starting"
    /\ UNCHANGED <<step, taken, upto, stepOver>> /\ ControlUnchanged
    /\ UNCHANGED storeVars /\ UNCHANGED launcherVars

CallDevice ==
    /\ HookStep
    /\ UNCHANGED controlVars /\ UNCHANGED launcherVars

DeviceRaises ==
    /\ HookRaises
    /\ phase' = "failed"
    /\ UNCHANGED <<step, taken, upto, stepOver>> /\ ControlUnchanged
    /\ UNCHANGED launcherVars

DevicesCalled ==
    /\ hook # None /\ at = Done
    /\ hook' = None
    /\ phase' = IF hook = "start" THEN "measuring" ELSE "handover"
    /\ UNCHANGED <<devices, at, missing, thread, faults>>
    /\ UNCHANGED <<step, taken, upto, stepOver>> /\ ControlUnchanged
    /\ UNCHANGED storeVars /\ UNCHANGED launcherVars

\* post_process_samples, by the timer or at the end of the step; nothing to do
\* without samples.
PostProcess ==
    /\ phase = "measuring"
    /\ \E u \in taken .. Len(samples[step].values), last \in BOOLEAN :
           /\ last => u = Len(samples[step].values)
           /\ last \/ u > taken
           /\ upto' = u /\ stepOver' = last
           /\ phase' = IF u > taken THEN "processing" ELSE "step over"
    /\ UNCHANGED <<step, taken>> /\ ControlUnchanged
    /\ UNCHANGED storeVars /\ UNCHANGED telemetryVars /\ UNCHANGED launcherVars

PutRequest ==
    /\ phase = "processing" /\ taken < upto
    /\ LET t == samples[step].task
       IN  Put("load", <<"task", t>>, <<taken + 1>>, "service_time", t, samples[step].values[taken + 1])
    /\ taken' = taken + 1
    /\ UNCHANGED <<phase, step, upto, stepOver>> /\ ControlUnchanged
    /\ UNCHANGED telemetryVars /\ UNCHANGED launcherVars

FlushRequests ==
    /\ phase = "processing" /\ taken = upto
    /\ Flush("load", FALSE)
    /\ phase' = "flushing"
    /\ UNCHANGED <<step, taken, upto, stepOver>> /\ ControlUnchanged
    /\ UNCHANGED telemetryVars /\ UNCHANGED launcherVars

RequestsFlushed ==
    /\ phase = "flushing" /\ bulk = NoBulk
    /\ phase' = IF stepOver THEN "step over" ELSE "measuring"
    /\ UNCHANGED <<step, taken, upto, stepOver>> /\ ControlUnchanged
    /\ UNCHANGED storeVars /\ UNCHANGED telemetryVars /\ UNCHANGED launcherVars

\* move_to_next_task: the records go with TaskFinished.
MoveToNextTask ==
    /\ phase = "step over" /\ step < Len(samples)
    /\ \E short \in Memory :
           /\ ToExternalizable(short)
           /\ mailbox' = Append(mailbox, [docs |-> Externalized(short), last |-> FALSE])
    /\ step' = step + 1 /\ taken' = 0 /\ upto' = 0 /\ phase' = "measuring"
    /\ UNCHANGED <<commands, samples, stepOver, memento, outcome, results>>
    /\ UNCHANGED telemetryVars /\ UNCHANGED launcherVars

StopTelemetry ==
    /\ phase = "step over" /\ step = Len(samples)
    /\ Begin("stop")
    /\ phase' = "stopping"
    /\ UNCHANGED <<step, taken, upto, stepOver>> /\ ControlUnchanged
    /\ UNCHANGED storeVars /\ UNCHANGED launcherVars

TakeMemento ==
    /\ phase = "handover"
    /\ \E short \in Memory : ToExternalizable(short) /\ memento' = Externalized(short)
    /\ phase' = "closing"
    /\ UNCHANGED <<commands, samples, step, taken, upto, stepOver, mailbox, outcome, results>>
    /\ UNCHANGED telemetryVars /\ UNCHANGED launcherVars

\* metrics_store.close(), and WorkerCoordinator.close() after a failure.
FlushAtClose ==
    /\ phase \in {"closing", "failed"}
    /\ Flush("load", TRUE)
    /\ phase' = IF phase = "closing" THEN "closed" ELSE "aborting"
    /\ UNCHANGED <<step, taken, upto, stepOver>> /\ ControlUnchanged
    /\ UNCHANGED telemetryVars /\ UNCHANGED launcherVars

SendComplete ==
    /\ phase = "closed" /\ bulk = NoBulk
    /\ Close("load")
    /\ mailbox' = Append(mailbox, [docs |-> memento, last |-> TRUE])
    /\ phase' = "complete"
    /\ UNCHANGED <<commands, samples, step, taken, upto, stepOver, memento, outcome, results>>
    /\ UNCHANGED telemetryVars /\ UNCHANGED launcherVars

Abort ==
    /\ phase = "aborting" /\ bulk = NoBulk
    /\ Close("load")
    /\ phase' = "aborted"
    /\ UNCHANGED <<step, taken, upto, stepOver>> /\ ControlUnchanged
    /\ UNCHANGED telemetryVars /\ UNCHANGED launcherVars

-------------------------------------------------------------------------------
(* The metrics index, the orchestrator and the builder.                    *)

BulkAnswered ==
    /\ BulkSucceeds \/ BulkRetried
    /\ UNCHANGED controlVars /\ UNCHANGED telemetryVars /\ UNCHANGED launcherVars

\* The exception fails the handler: of the load generator, or of the builder.
BulkRaises ==
    /\ BulkFails
    /\ IF bulk.store = "node"
       THEN engine' = "stop failed" /\ phase' = phase
       ELSE engine' = engine /\ phase' = IF phase = "aborting" THEN "aborted" ELSE "failed"
    /\ UNCHANGED <<current, stage, process, found>> /\ UNCHANGED deviceVars /\ UNCHANGED otherVars
    /\ UNCHANGED <<step, taken, upto, stepOver>> /\ ControlUnchanged
    /\ UNCHANGED telemetryVars

\* bulk_add, record by record.
BulkAdd ==
    /\ mailbox # <<>> /\ Head(mailbox).docs # EmptyBag
    /\ LET r == CHOOSE r \in BagToSet(Head(mailbox).docs) : TRUE
       IN  /\ Add("orchestrator", r)
           /\ mailbox' = [mailbox EXCEPT ![1].docs = @ (-) SetToBag({r})]
    /\ UNCHANGED <<phase, commands, samples, step, taken, upto, stepOver, memento, outcome, results>>
    /\ UNCHANGED telemetryVars /\ UNCHANGED launcherVars

OnTaskFinished ==
    /\ mailbox # <<>> /\ Head(mailbox).docs = EmptyBag /\ ~Head(mailbox).last
    /\ mailbox' = Tail(mailbox)
    /\ UNCHANGED <<phase, commands, samples, step, taken, upto, stepOver, memento, outcome, results>>
    /\ UNCHANGED storeVars /\ UNCHANGED telemetryVars /\ UNCHANGED launcherVars

OnBenchmarkComplete ==
    /\ mailbox # <<>> /\ Head(mailbox).docs = EmptyBag /\ Head(mailbox).last
    /\ mailbox' = Tail(mailbox)
    /\ Flush("orchestrator", TRUE)
    /\ outcome' = "flushed"
    /\ UNCHANGED <<phase, commands, samples, step, taken, upto, stepOver, memento, results>>
    /\ UNCHANGED telemetryVars /\ UNCHANGED launcherVars

Tasks == {samples[i].task : i \in DOMAIN samples}

\* calculate_results and what is stored of it.
CalculateResults ==
    /\ outcome = "flushed"
    /\ outcome' = IF QueryRaises THEN "error" ELSE "published"
    /\ results' = IF QueryRaises THEN <<>> ELSE <<GlobalStats(Collected, Tasks)>>
    /\ Close("orchestrator")
    /\ UNCHANGED <<phase, commands, samples, step, taken, upto, stepOver, memento, mailbox>>
    /\ UNCHANGED telemetryVars /\ UNCHANGED launcherVars

\* The orchestrator stops the engine when it is done with the benchmark.
TearDown ==
    /\ phase = "aborted" \/ (phase = "complete" /\ outcome \in {"error", "published"})
    /\ StopEngine
    /\ UNCHANGED controlVars /\ UNCHANGED telemetryVars

Engine ==
    /\ LauncherStep(commands) \/ \E n \in NodeSet : Crash(n)
    /\ UNCHANGED controlVars /\ UNCHANGED telemetryVars

Telemetering ==
    /\ \E t \in DOMAIN thread : SamplerStep(t)
    /\ UNCHANGED controlVars /\ UNCHANGED launcherVars

\* The nodes are stopped, or could not be started or stopped.
Finished ==
    /\ engine \in {"stopped", "failed", "stop failed"}
    /\ UNCHANGED vars

Next ==
    \/ StartBenchmark \/ CallDevice \/ DeviceRaises \/ DevicesCalled
    \/ PostProcess \/ PutRequest \/ FlushRequests \/ RequestsFlushed
    \/ MoveToNextTask \/ StopTelemetry \/ TakeMemento \/ FlushAtClose \/ SendComplete \/ Abort
    \/ BulkAnswered \/ BulkRaises
    \/ BulkAdd \/ OnTaskFinished \/ OnBenchmarkComplete \/ CalculateResults
    \/ TearDown \/ Engine \/ Telemetering
    \/ Finished

Spec == Init /\ [][Next]_vars

-------------------------------------------------------------------------------
(* Properties.                                                             *)

\* The records of the samples.
Requests == {r \in put["load"] : r.by[1] = "task"}

\* Nothing that was measured is missing from the published results: every
\* record put into the load generator's store is among the records they are
\* computed from, unless memory was short or it was put while a bulk request
\* was under way; and it counts once, unless a bulk request was retried
\* (OsMetricsStore.flush, InMemoryMetricsStore.to_externalizable).
RecordsKept ==
    outcome = "published" =>
        /\ \A r \in put["load"] : r \in BagToSet(Collected) \cup lost \/ r.racing
        /\ retries = 0 => \A r \in BagToSet(Collected) : Collected[r] = 1
        /\ \A r \in Requests : ~r.racing

\* When the store is handed over and closed, no telemetry device writes to it
\* any more, and all its samplers have been joined (SamplerThread.finish).
QuietAtHandover ==
    phase \in {"handover", "closing", "closed", "complete"} =>
        \A t \in DOMAIN thread : thread[t].pc = Ended

\* The measured samples of a task, as the workers sent them.
NormalValues(t) ==
    UNION {{s.value : s \in {x \in Range(samples[i].values) : x.type = "normal"}} :
               i \in {j \in DOMAIN samples : samples[j].task = t}}

\* The published percentiles of a task ascend, lie between the smallest and
\* the largest measured sample, and the last is the largest; warmup samples
\* do not count; a task has an error rate above zero only if one of its
\* requests failed.
ResultsTrue ==
    outcome = "published" =>
        \A t \in Tasks :
            LET r == results[1].tasks[t]
                ps == r.service_time
                all == lost \cap Requests = {}
            IN  /\ \A i \in 1 .. (Len(ps) - 1) : ps[i][2] <= ps[i + 1][2]
                /\ \A i \in DOMAIN ps : \E lo, hi \in NormalValues(t) :
                       10000 * lo <= ps[i][2] /\ ps[i][2] <= 10000 * hi
                /\ all /\ NormalValues(t) # {} =>
                       /\ ps # <<>>
                       /\ Last(ps)[2] = 10000 * Max(NormalValues(t))
                       /\ r.error_rate[2] > 0
                /\ r.error_rate[1] > 0 <=>
                       \E q \in Requests \ lost : q.task = t /\ q.type = "normal" /\ ~q.ok

\* The system metrics of a node: bytes written are the difference between
\* start and stop for a node that was still running when it was stopped, and
\* the index was measured after the node's process had ended; a node that
\* was stopped is not left running.
SystemMetricsTrue ==
    /\ \A r \in put["node"] : r.name = "disk_io_write_bytes" /\ r.by[2] \in found =>
           diskIo[r.by[2]] = "difference"
    /\ \A n \in NodeSet : indexSize[n] = "measured" => process[n] # "up"
    /\ engine = "stopped" /\ ~docker => \A n \in NodeSet : process[n] = "gone"

=============================================================================
