------------------------------ MODULE Telemetry ------------------------------
(***************************************************************************)
(* The cluster-level telemetry devices (telemetry.py).  The load generator *)
(* calls on_benchmark_start of every enabled device before it starts the   *)
(* workers and on_benchmark_stop after the last step, in the order of      *)
(* prepare_telemetry.  Some devices start a SamplerThread per cluster; it  *)
(* records into the load generator's metrics store until it is told to     *)
(* stop, or until its recorder raises.                                     *)
(*                                                                         *)
(* A device is data: the deeds of its two hooks and of one record() of its *)
(* recorder.  A deed asks the cluster, puts a record, adds meta            *)
(* information, writes a file, or starts, stops or joins the samplers.     *)
(***************************************************************************)
EXTENDS MetricsStore

CONSTANTS
    Clusters,   \* names of the target clusters, a sequence that starts with "default"
    MaxSamples  \* bound: samples a thread takes

ASSUME TelemetryAssumption == Clusters \in Seq(STRING) \ {<<>>} /\ MaxSamples \in Nat

VARIABLES
    devices, \* the enabled devices, in order
    hook,    \* "start", "stop" or None
    at,      \* <<device, deed>>, the position in the hook
    missing, \* what the cluster was asked for without an answer
    thread,  \* the sampler threads
    faults   \* requests that failed

telemetryVars == <<devices, hook, at, missing, thread, faults>>

\* The program counter of a thread that is not in record().
NotStarted == 100

Ended == 101

-------------------------------------------------------------------------------
(* Deeds.  "raise": the error leaves the hook or ends the thread; "return":*)
(* it ends the hook or the sample; "empty": the device goes on without.    *)

Deed(do, what, arg) == [do |-> do, what |-> what, arg |-> arg]

Ask(what, onError) == Deed("ask", what, onError)

Record(name, needs) == Deed("put", name, needs)

Meta(key, needs) == Deed("meta", key, needs)

File(name, needs) == Deed("file", name, needs)

Spawn == Deed("spawn", "", {})

Raise == Deed("raise", "", {})

\* sampler.finish(), cluster by cluster, and what the device does after each.
Finish(after) ==
    FlattenSeq([i \in DOMAIN Clusters |->
        <<Deed("stop", Clusters[i], {}), Deed("join", Clusters[i], {})>> \o after])

Device(command, start, stop) ==
    [command |-> command, start |-> start, stop |-> stop,
     record |-> [c \in Range(Clusters) |-> <<>>]]

Sampling(command, start, record, after) ==
    [command |-> command, start |-> start \o <<Spawn>>, stop |-> Finish(after), record |-> record]

OnEveryCluster(deeds) == [c \in Range(Clusters) |-> deeds]

-------------------------------------------------------------------------------
(* The devices.                                                            *)

NodeStatsRecorder == OnEveryCluster(<<Ask("node", {"return"}), Record("node-stats", {"node"})>>)

NodeStats ==
    Sampling("node-stats", <<Ask("info", {"raise"}), Ask("info", {"raise"})>>, NodeStatsRecorder, <<>>)

StorePluginMetadata == <<Meta("plugins", {"nodes_info"})>>

StoreNodeAttributeMetadata == <<Meta("attribute", {"nodes_info"})>>

ExternalEnvironmentInfo ==
    Device("external-environment",
           <<Ask("nodes_stats", {"empty"}), Ask("nodes_info", {"empty"}),
             Meta("node_name", {"nodes_stats"}), Meta("os_name", {"nodes_info"})>>
           \o StorePluginMetadata \o StoreNodeAttributeMetadata, <<>>)

ClusterEnvironmentInfo ==
    Device("cluster-environment",
           <<Ask("version", {"return"}), Meta("distribution_version", {"version"}),
             Ask("nodes_info", {"raise"}), Meta("jvm_version", {"nodes_info"})>>
           \o StorePluginMetadata \o StoreNodeAttributeMetadata, <<>>)

\* The difference to the start, for the nodes that were there at the start.
JvmStatsSummary ==
    Device("jvm-stats", <<Ask("jvm at start", {"empty"})>>,
           <<Ask("jvm at end", {"empty"}),
             Record("node_young_gen_gc_time", {"jvm at start", "jvm at end"}),
             Record("node_total_young_gen_gc_time", {})>>)

IndexStats ==
    Device("index-stats", <<Ask("index at start", {"empty"})>>,
           <<Ask("index at end", {"return"}), Record("indexing_total_time", {"index at end"}),
             Record("segments_count", {"index at end"})>>)

\* No ML job, or no answer: no record.
MlBucketProcessingTime ==
    Device("ml", <<>>, <<Ask("ml", {"return"}), Record("ml_processing_time", {"ml"})>>)

SegmentStats ==
    Device("segment-stats", <<>>,
           <<Ask("segments", {"return"}), File("segment_stats.log", {"segments"})>>)

\* The records of leader and follower statistics have no name; an index that
\* is not syncing has no record.
CcrStatsRecorder ==
    [c \in Range(Clusters) |->
        IF c = "default" THEN <<Ask("leader", {"raise"}), Record("", {"leader"})>>
        ELSE <<Ask("status", {"raise", "empty"}), Record("ccr-status", {"status"}),
               Ask("follower", {"raise"}), Record("", {"follower"})>>]

\* Without ccr-stats-indices the recorder iterates over None.
CcrStats(indexed) ==
    Sampling("ccr-stats", IF indexed THEN <<>> ELSE <<Raise>>, CcrStatsRecorder, <<>>)

RecoveryStatsRecorder ==
    OnEveryCluster(<<Ask("recovery", {"raise"}), Record("recovery-stats", {"recovery"})>>)

RecoveryStats == Sampling("recovery-stats", <<>>, RecoveryStatsRecorder, <<>>)

TransformStatsRecorder ==
    OnEveryCluster(<<Ask("transform", {"raise"}), Record("transform_throughput", {"transform"})>>)

\* record_final, after each sampler.
TransformStats ==
    Sampling("transform-stats", <<>>, TransformStatsRecorder,
             <<Ask("final", {"raise"}), Record("total_transform_throughput", {"final"})>>)

\* A NotFoundError is tolerated only when it names missing snapshot indices.
SearchableSnapshotsStatsRecorder ==
    OnEveryCluster(<<Ask("snapshots", {"raise", "return"}),
                     Record("searchable-snapshots-stats", {"snapshots"})>>)

SearchableSnapshotsStats ==
    Sampling("searchable-snapshots-stats", <<>>, SearchableSnapshotsStatsRecorder, <<>>)

SegmentReplicationStatsRecorder ==
    OnEveryCluster(<<Ask("replication", {"raise"}), Record("segment-replication-stats", {"replication"})>>)

SegmentReplicationStats ==
    Sampling("segment-replication-stats", <<>>, SegmentReplicationStatsRecorder, <<>>)

ShardStatsRecorder == OnEveryCluster(<<Ask("shards", {"return"}), Record("shard-stats", {"shards"})>>)

ShardStats ==
    Sampling("shard-stats", <<Ask("info", {"raise"}), Ask("info", {"raise"})>>, ShardStatsRecorder, <<>>)

\* prepare_telemetry; the first five without a command are internal.
PrepareTelemetry(indexed) ==
    <<NodeStats, ExternalEnvironmentInfo, ClusterEnvironmentInfo, JvmStatsSummary, IndexStats,
      MlBucketProcessingTime, SegmentStats, CcrStats(indexed), RecoveryStats, TransformStats,
      SearchableSnapshotsStats, SegmentReplicationStats, ShardStats>>

Internal == {"external-environment", "cluster-environment", "jvm-stats", "index-stats", "ml"}

Enabled(commands, indexed) ==
    LET all == PrepareTelemetry(indexed)
    IN  FlattenSeq([i \in DOMAIN all |->
            IF all[i].command \in Internal \cup commands THEN <<all[i]>> ELSE <<>>])

-------------------------------------------------------------------------------
(* Hooks: Telemetry.on_benchmark_start and on_benchmark_stop.              *)

DeedsOf(h, i) == IF h = "start" THEN devices[i].start ELSE devices[i].stop

Done == <<0, 0>>

\* The first deed of the next device that has one.
NextDevice(h, i) ==
    LET later == {j \in (i + 1) .. Len(devices) : DeedsOf(h, j) # <<>>}
    IN  IF later = {} THEN Done ELSE <<Min(later), 1>>

NextDeed == IF at[2] < Len(DeedsOf(hook, at[1])) THEN <<at[1], at[2] + 1>>
                                                 ELSE NextDevice(hook, at[1])

Begin(h) ==
    /\ hook' = h
    /\ at' = NextDevice(h, 0)
    /\ UNCHANGED <<devices, missing, thread, faults>>

Doing(do) == hook # None /\ at # Done /\ DeedsOf(hook, at[1])[at[2]].do = do

Current == DeedsOf(hook, at[1])[at[2]]

Command == devices[at[1]].command

Measured(v) == [value |-> v, type |-> "normal", ok |-> TRUE]

HookAnswered ==
    /\ Doing("ask")
    /\ missing' = missing \ {Current.what}
    /\ at' = NextDeed
    /\ UNCHANGED <<devices, hook, thread, faults>>
    /\ UNCHANGED storeVars

HookUnanswered ==
    /\ Doing("ask")
    /\ Current.arg # {"raise"}
    /\ faults < limits.faults
    /\ faults' = faults + 1
    /\ missing' = missing \cup {Current.what}
    /\ at' = IF Current.arg = {"empty"} THEN NextDeed ELSE NextDevice(hook, at[1])
    /\ UNCHANGED <<devices, hook, thread>>
    /\ UNCHANGED storeVars

\* The error leaves the hook: the devices after this one are not called.
HookRaises ==
    /\ \/ Doing("raise") /\ faults' = faults
       \/ Doing("ask") /\ "raise" \in Current.arg /\ faults < limits.faults /\ faults' = faults + 1
    /\ hook' = None
    /\ UNCHANGED <<devices, at, missing, thread>>
    /\ UNCHANGED storeVars

HookPuts ==
    /\ Doing("put")
    /\ IF Current.arg \cap missing # {} THEN UNCHANGED storeVars
       ELSE Put("load", <<hook, Command>>, at, Current.what, None, Measured(1))
    /\ at' = NextDeed
    /\ UNCHANGED <<devices, hook, missing, thread, faults>>

HookDescribes ==
    /\ Doing("meta")
    /\ IF Current.arg \cap missing # {} THEN UNCHANGED storeVars ELSE AddMetaInfo("load", Current.what)
    /\ at' = NextDeed
    /\ UNCHANGED <<devices, hook, missing, thread, faults>>

HookWritesFile ==
    /\ Doing("file")
    /\ at' = NextDeed
    /\ UNCHANGED <<devices, hook, missing, thread, faults>>
    /\ UNCHANGED storeVars

HookSpawns ==
    /\ Doing("spawn")
    /\ thread' = [t \in DOMAIN thread |->
                    IF t[1] = Command THEN [thread[t] EXCEPT !.pc = 0] ELSE thread[t]]
    /\ at' = NextDeed
    /\ UNCHANGED <<devices, hook, missing, faults>>
    /\ UNCHANGED storeVars

\* SamplerThread.finish: tell the thread to stop ...
HookStops ==
    /\ Doing("stop")
    /\ thread' = [thread EXCEPT ![<<Command, Current.what>>].stop = TRUE]
    /\ at' = NextDeed
    /\ UNCHANGED <<devices, hook, missing, faults>>
    /\ UNCHANGED storeVars

\* finish without join.
HookLeaves ==
    /\ Doing("join")
    /\ at' = NextDeed
    /\ UNCHANGED <<devices, hook, missing, thread, faults>>
    /\ UNCHANGED storeVars

\* ... and wait until it has ended.
HookJoins ==
    /\ Doing("join")
    /\ thread[<<Command, Current.what>>].pc = Ended
    /\ at' = NextDeed
    /\ UNCHANGED <<devices, hook, missing, thread, faults>>
    /\ UNCHANGED storeVars

HookStep ==
    \/ HookAnswered \/ HookUnanswered \/ HookPuts \/ HookDescribes \/ HookWritesFile
    \/ HookSpawns \/ HookStops \/ HookJoins

-------------------------------------------------------------------------------
(* SamplerThread.run.                                                      *)

Recorder(t) == LET d == CHOOSE x \in Range(devices) : x.command = t[1] IN d.record[t[2]]

Sample(t) == Recorder(t)[thread[t].pc]

AfterDeed(t) == IF thread[t].pc < Len(Recorder(t)) THEN thread[t].pc + 1 ELSE 0

ThreadAt(t, pc) ==
    /\ thread' = [thread EXCEPT ![t].pc = pc]
    /\ UNCHANGED <<devices, hook, at, missing>>

\* while not self.stop: after the sleep, another record or the end.
Continue(t) ==
    /\ thread[t].pc = 0
    /\ \/ /\ thread[t].stop
          /\ ThreadAt(t, Ended)
       \/ /\ ~thread[t].stop
          /\ thread[t].samples < MaxSamples
          /\ thread' = [thread EXCEPT ![t].pc = 1, ![t].samples = @ + 1]
          /\ UNCHANGED <<devices, hook, at, missing>>
    /\ UNCHANGED faults
    /\ UNCHANGED storeVars

RecorderAnswered(t) ==
    /\ thread[t].pc \notin {NotStarted, 0, Ended}
    /\ Sample(t).do = "ask"
    /\ ThreadAt(t, AfterDeed(t))
    /\ UNCHANGED faults
    /\ UNCHANGED storeVars

\* Nothing to record, or an exception: the thread ends, which is only logged.
RecorderUnanswered(t) ==
    /\ thread[t].pc \notin {NotStarted, 0, Ended}
    /\ Sample(t).do = "ask"
    /\ faults < limits.faults
    /\ faults' = faults + 1
    /\ \E handling \in Sample(t).arg :
           ThreadAt(t, CASE handling = "raise"  -> Ended
                         [] handling = "return" -> 0
                         [] OTHER               -> thread[t].pc + 2)
    /\ UNCHANGED storeVars

RecorderPuts(t) ==
    /\ thread[t].pc \notin {NotStarted, 0, Ended}
    /\ Sample(t).do = "put"
    /\ Put("load", <<"sampler", t>>, <<thread[t].samples, thread[t].pc>>, Sample(t).what, None, Measured(1))
    /\ ThreadAt(t, AfterDeed(t))
    /\ UNCHANGED faults

SamplerStep(t) == Continue(t) \/ RecorderAnswered(t) \/ RecorderUnanswered(t) \/ RecorderPuts(t)

TelemetryInit ==
    /\ hook = None
    /\ at = Done
    /\ missing = {}
    /\ thread = [t \in {d.command : d \in {x \in Range(devices) : \E c \in Range(Clusters) : x.record[c] # <<>>}}
                        \X Range(Clusters) |-> [pc |-> NotStarted, stop |-> FALSE, samples |-> 0]]
    /\ faults = 0

=============================================================================
