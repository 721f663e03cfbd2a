------------------------------- MODULE Launcher -------------------------------
(***************************************************************************)
(* The launcher of the benchmark candidate's nodes (launcher.py), the      *)
(* node-level telemetry devices it attaches (telemetry.py), and the        *)
(* Builder (builder.py) that starts and stops the nodes of one host and    *)
(* stores their system metrics.  A node's process may end on its own.      *)
(*                                                                         *)
(* The counters of a node's devices are told apart by what they hold:      *)
(* DiskIo nothing, the "baseline" taken when it was attached, or the       *)
(* "difference" to it; IndexSize nothing, "attached" or "measured".        *)
(***************************************************************************)
EXTENDS MetricsStore

CONSTANTS
    Nodes      \* names of the nodes of this host, a sequence

VARIABLES
    engine,   \* "down", "starting", "up", "failed", "stopping", "flushing", "results" or "stopped"
    current,  \* the node the launcher is busy with
    stage,    \* what it does next with it
    process,  \* the process of each node: "absent", "up" or "gone"
    found,    \* nodes whose process was there when they were stopped
    javaOpts, \* devices that added JVM options
    timer,    \* StartupTime's stop watch of each node
    diskIo,   \* DiskIo's counters of each node
    indexSize,\* IndexSize of each node
    metric,   \* the system metric to be stored next
    crashes,  \* processes that ended on their own
    systemResults, \* nodes whose results were stored
    docker    \* nodes are Docker containers, without node-level devices

launcherVars == <<engine, current, stage, process, found, javaOpts, timer, diskIo, indexSize,
                  metric, crashes, systemResults, docker>>

deviceVars == <<javaOpts, timer, diskIo, indexSize>>

otherVars == <<metric, crashes, systemResults, docker>>

NodeSet == Range(Nodes)

\* Nodes are named by a common prefix and their own id (create in builder.py).
ASSUME LauncherAssumption ==
    /\ Nodes \in Seq(STRING) \ {<<>>}
    /\ \A i, j \in DOMAIN Nodes : Nodes[i] = Nodes[j] => i = j

Node == Nodes[current]

LauncherInit ==
    /\ engine = "down" /\ current = 1 /\ stage = "prepare"
    /\ process = [n \in NodeSet |-> "absent"]
    /\ found = {} /\ javaOpts = {}
    /\ timer = [n \in NodeSet |-> "new"]
    /\ diskIo = [n \in NodeSet |-> None]
    /\ indexSize = [n \in NodeSet |-> None]
    /\ metric = 1 /\ crashes = 0 /\ systemResults = {}

Crash(n) ==
    /\ process[n] = "up" /\ crashes < limits.crashes
    /\ process' = [process EXCEPT ![n] = "gone"]
    /\ crashes' = crashes + 1
    /\ UNCHANGED <<engine, current, stage, found, metric, systemResults, docker>>
    /\ UNCHANGED deviceVars
    /\ UNCHANGED storeVars

-------------------------------------------------------------------------------
(* Start.                                                                  *)

\* The devices that only add JVM options.
FlightRecorder == "jfr"

JitCompiler == "jit"

Gc == "gc"

\* _start_node up to on_pre_node_start: StartupTime starts its watch.
PrepareNode(enabled) ==
    /\ engine \in {"down", "starting"} /\ stage = "prepare"
    /\ engine' = "starting"
    /\ javaOpts' = IF docker THEN {} ELSE enabled \cap {FlightRecorder, JitCompiler, Gc}
    /\ timer' = IF docker THEN timer ELSE [timer EXCEPT ![Node] = "running"]
    /\ stage' = "launch"
    /\ UNCHANGED <<current, process, found, diskIo, indexSize>>
    /\ UNCHANGED otherVars
    /\ UNCHANGED storeVars

\* _start_process, until the pid file is there or the container is healthy.
StartProcess ==
    /\ engine = "starting" /\ stage = "launch"
    /\ process' = [process EXCEPT ![Node] = "up"]
    /\ stage' = "attach"
    /\ UNCHANGED <<engine, current, found>>
    /\ UNCHANGED deviceVars
    /\ UNCHANGED otherVars
    /\ UNCHANGED storeVars

\* A LaunchError, or no process to attach to: the nodes started before are
\* forgotten, as self.nodes is never assigned.
LaunchFails ==
    /\ engine = "starting"
    /\ \/ stage = "launch"
       \/ stage = "attach" /\ process[Node] = "gone" /\ ~docker
    /\ engine' = "failed"
    /\ UNCHANGED <<current, stage, process, found>>
    /\ UNCHANGED deviceVars
    /\ UNCHANGED otherVars
    /\ UNCHANGED storeVars

\* attach_to_node of DiskIo (process counters, else those of the disk, else
\* nothing), IndexSize and StartupTime.
AttachToNode ==
    /\ engine = "starting" /\ stage = "attach"
    /\ docker \/ process[Node] = "up"
    /\ \/ docker /\ UNCHANGED <<diskIo, indexSize, timer>>
       \/ /\ ~docker
          /\ \E counters \in {"baseline", None} : diskIo' = [diskIo EXCEPT ![Node] = counters]
          /\ indexSize' = [indexSize EXCEPT ![Node] = "attached"]
          /\ timer' = [timer EXCEPT ![Node] = "stopped"]
    /\ stage' = "prepare"
    /\ current' = current + 1
    /\ engine' = IF current = Len(Nodes) THEN "up" ELSE "starting"
    /\ UNCHANGED <<process, found, javaOpts>>
    /\ UNCHANGED otherVars
    /\ UNCHANGED storeVars

-------------------------------------------------------------------------------
(* Stop, node by node.                                                     *)

StopEngine ==
    /\ engine = "up"
    /\ engine' = "stopping" /\ current' = 1 /\ stage' = "describe"
    /\ UNCHANGED <<process, found>>
    /\ UNCHANGED deviceVars
    /\ UNCHANGED otherVars
    /\ UNCHANGED storeVars

\* add_metadata_for_node.
DescribeNode ==
    /\ engine = "stopping" /\ stage = "describe"
    /\ AddMetaInfo("node", Node)
    /\ stage' = "detach"
    /\ UNCHANGED <<engine, current, process, found>>
    /\ UNCHANGED deviceVars
    /\ UNCHANGED otherVars

\* The counters are not reset when they cannot be read.
DetachKeepsBaseline ==
    /\ engine = "stopping" /\ stage = "detach"
    /\ docker \/ process[Node] = "up"
    /\ found' = found \cup {Node}
    /\ \E counters \in {"difference", diskIo[Node]} : diskIo' = [diskIo EXCEPT ![Node] = counters]
    /\ stage' = "terminate"
    /\ UNCHANGED <<engine, current, process, javaOpts, timer, indexSize>>
    /\ UNCHANGED otherVars
    /\ UNCHANGED storeVars

\* detach_from_node while the process runs: Heapdump writes its file, DiskIo
\* takes the difference to the baseline; without one, or when the counters
\* cannot be read, it resets them.
DetachFromNode ==
    /\ engine = "stopping" /\ stage = "detach"
    /\ docker \/ process[Node] = "up"
    /\ found' = found \cup {Node}
    /\ \E counters \in IF diskIo[Node] = None THEN {None} ELSE {"difference", None} :
           diskIo' = [diskIo EXCEPT ![Node] = counters]
    /\ stage' = "terminate"
    /\ UNCHANGED <<engine, current, process, javaOpts, timer, indexSize>>
    /\ UNCHANGED otherVars
    /\ UNCHANGED storeVars

\* psutil.NoSuchProcess: neither detached nor terminated.
ProcessMissing ==
    /\ engine = "stopping" /\ stage = "detach" /\ process[Node] = "gone" /\ ~docker
    /\ stage' = "store"
    /\ UNCHANGED <<engine, current, process, found>>
    /\ UNCHANGED deviceVars
    /\ UNCHANGED otherVars
    /\ UNCHANGED storeVars

\* terminate and wait, or kill after 10 seconds, or it is gone already.
\* Whether docker-compose brought the container down is not looked at.
Terminate ==
    /\ engine = "stopping" /\ stage = "terminate"
    /\ \E state \in IF docker THEN {"gone", process[Node]} ELSE {"gone"} :
           process' = [process EXCEPT ![Node] = state]
    /\ stage' = "measure"
    /\ UNCHANGED <<engine, current, found>>
    /\ UNCHANGED deviceVars
    /\ UNCHANGED otherVars
    /\ UNCHANGED storeVars

\* detach_from_node after the process has ended: IndexSize looks at the data.
MeasureIndex ==
    /\ engine = "stopping" /\ stage = "measure"
    /\ indexSize' = [indexSize EXCEPT ![Node] = IF @ = "attached" THEN "measured" ELSE @]
    /\ stage' = "store"
    /\ UNCHANGED <<engine, current, process, found, javaOpts, timer, diskIo>>
    /\ UNCHANGED otherVars
    /\ UNCHANGED storeVars

\* store_system_metrics of DiskIo, IndexSize and StartupTime.
SystemMetrics ==
    (IF diskIo[Node] = None THEN <<>> ELSE <<"disk_io_write_bytes">>)
    \o (IF indexSize[Node] = "measured" THEN <<"final_index_size_bytes">> ELSE <<>>)
    \o (IF docker THEN <<>> ELSE <<"node_startup_time">>)

StoreSystemMetrics ==
    /\ engine = "stopping" /\ stage = "store" /\ metric <= Len(SystemMetrics)
    /\ Put("node", <<"node", Node>>, <<metric>>, SystemMetrics[metric], None,
           [value |-> 1, type |-> "normal", ok |-> TRUE])
    /\ metric' = metric + 1
    /\ UNCHANGED <<engine, current, stage, process, found, crashes, systemResults, docker>>
    /\ UNCHANGED deviceVars

NodeStored ==
    /\ engine = "stopping" /\ stage = "store" /\ metric > Len(SystemMetrics)
    /\ current' = current + 1 /\ stage' = "describe" /\ metric' = 1
    /\ engine' = IF current = Len(Nodes) THEN "flushing" ELSE "stopping"
    /\ UNCHANGED <<process, found, crashes, systemResults, docker>>
    /\ UNCHANGED deviceVars
    /\ UNCHANGED storeVars

\* flush_metrics(refresh=True), before the results are computed.
FlushSystemMetrics ==
    /\ engine = "flushing"
    /\ Flush("node", TRUE)
    /\ engine' = "results"
    /\ UNCHANGED <<current, stage, process, found>>
    /\ UNCHANGED deviceVars
    /\ UNCHANGED otherVars

\* What the results of the nodes are computed from.
SystemCollected == IF kind = "in-memory" THEN stores["node"].docs ELSE searchable

\* _add_results for every node, unless the test execution is not found, then
\* close and clean up.
StoreSystemResults ==
    /\ engine = "results" /\ bulk.store # "node"
    /\ \E known \in BOOLEAN :
           systemResults' = {n \in NodeSet : known /\ SystemStats(SystemCollected, <<"node", n>>) # {}}
    /\ engine' = "stopped"
    /\ Close("node")
    /\ UNCHANGED <<current, stage, process, found, metric, crashes, docker>>
    /\ UNCHANGED deviceVars

LauncherStep(enabled) ==
    \/ PrepareNode(enabled) \/ StartProcess \/ LaunchFails \/ AttachToNode
    \/ DescribeNode \/ DetachFromNode \/ ProcessMissing \/ Terminate \/ MeasureIndex
    \/ StoreSystemMetrics \/ NodeStored \/ FlushSystemMetrics \/ StoreSystemResults

=============================================================================
