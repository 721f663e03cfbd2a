------------------------------- MODULE Engine -------------------------------
(***************************************************************************)
(* The actors that start and stop the benchmark candidate: BuilderActor,   *)
(* its Dispatcher, and one NodeBuilderActor per target host.  The other    *)
(* side, the orchestrator, writes to_builder and reads from_builder        *)
(* (module Orchestration).                                                 *)
(*                                                                         *)
(* A handler is atomic; messages of one actor to another stay in order.    *)
(* Left out: ResetRelativeTime and the periodic flush of the metrics,      *)
(* which only touch clocks and files; PoisonMessage; and what the guard    *)
(* does with a message in a wrong status, which would stay in its channel  *)
(* here.                                                                   *)
(***************************************************************************)
EXTENDS Integers, Sequences, FiniteSets

CONSTANTS
    Host,          \* the (ip, port) pairs of the target hosts
    Ip,            \* their addresses
    IpOf,          \* host -> address
    Localhost,     \* the address 127.0.0.1
    NodesOn,       \* nodes_by_host: how many nodes run on a host
    Pipelines,     \* may the cluster be externally provisioned: TRUE, FALSE
    EngineFaults   \* which failures the environment may inject

EngineFaultKinds ==
    {"provision", "dispatch", "start", "launch", "stop", "exit"}

None == "none"

ASSUME EngineAssumption ==
    /\ IsFiniteSet(Host) /\ Host # {} /\ None \notin Host
    /\ IpOf \in [Host -> Ip]
    /\ NodesOn \in [Host -> Nat \ {0}]
    /\ Pipelines \subseteq BOOLEAN
    /\ EngineFaults \subseteq EngineFaultKinds

VARIABLES
    external,        \* externally_provisioned: not provisioned by OSB
    to_builder,      \* orchestrator -> BuilderActor
    from_builder,    \* BuilderActor -> orchestrator
    b_status,        \* BuilderActor.status
    b_children,      \* BuilderActor.children, placeholders included
    b_responses,     \* len(BuilderActor.received_responses)
    to_dispatcher,   \* BuilderActor -> Dispatcher
    from_dispatcher, \* Dispatcher -> BuilderActor
    remotes,         \* Dispatcher.remotes: addresses that did not check in
    pending,         \* Dispatcher.pending: created, not told to start yet
    node,            \* host -> is its NodeBuilderActor there?
    orders,      \* Dispatcher -> NodeBuilderActor
    to_node,         \* BuilderActor -> NodeBuilderActor
    from_node,       \* NodeBuilderActor -> BuilderActor
    builder,         \* NodeBuilderActor.builder is set
    nodes,           \* len(Builder.nodes)
    processes,       \* OpenSearch processes that run on the host
    abandoned        \* history: a failed launch or exit left processes behind

coordination == <<external, to_builder, from_builder, b_status, b_children, b_responses>>
dispatch == <<to_dispatcher, from_dispatcher, remotes, pending>>
mail == <<orders, to_node, from_node>>
engines == <<builder, nodes, processes, abandoned>>
engineVars == <<coordination, dispatch, node, mail, engines>>

EngineInit ==
    /\ external \in Pipelines
    /\ to_builder = <<>> /\ from_builder = <<>>
    /\ b_status = None /\ b_children = <<>> /\ b_responses = 0
    /\ to_dispatcher = <<>> /\ from_dispatcher = <<>>
    /\ remotes = {} /\ pending = {}
    /\ node = [h \in Host |-> "none"]
    /\ orders = [h \in Host |-> <<>>]
    /\ to_node = [h \in Host |-> <<>>]
    /\ from_node = [h \in Host |-> <<>>]
    /\ builder = [h \in Host |-> FALSE]
    /\ nodes = [h \in Host |-> 0]
    /\ processes = [h \in Host |-> 0]
    /\ abandoned = [h \in Host |-> FALSE]

Report(m) == from_builder' = Append(from_builder, m)

-----------------------------------------------------------------------------
(* BuilderActor *)

BuilderTakes(m) ==
    /\ b_status # "gone"
    /\ to_builder # <<>> /\ Head(to_builder) = m
    /\ to_builder' = Tail(to_builder)
    /\ UNCHANGED external

\* receiveMsg_StartEngine for a cluster that OSB does not provision.
StartEngineExternal ==
    /\ external
    /\ BuilderTakes("StartEngine")
    /\ b_status' = "cluster_started"
    /\ b_responses' = 0
    /\ Report("EngineStarted")
    /\ UNCHANGED <<b_children, dispatch, node, mail, engines>>

\* receiveMsg_StartEngine otherwise: a placeholder for each host, the rest is
\* up to the dispatcher.
StartEngine ==
    /\ ~external
    /\ BuilderTakes("StartEngine")
    /\ b_children' = [i \in 1..Cardinality(Host) |-> None]
    /\ to_dispatcher' = Append(to_dispatcher, "StartEngine")
    /\ b_status' = "starting"
    /\ b_responses' = 0
    /\ UNCHANGED <<from_builder, from_dispatcher, remotes, pending, node, mail,
                   engines>>

\* It raises (no such configuration, no hosts): the guard answers the
\* orchestrator.
StartEngineFails ==
    /\ "provision" \in EngineFaults
    /\ BuilderTakes("StartEngine")
    /\ Report("BenchmarkFailure")
    /\ UNCHANGED <<b_status, b_children, b_responses, dispatch, node, mail,
                   engines>>

\* The message at the head of a node's channel to the BuilderActor.
NodeAnswers(h, m) ==
    /\ b_status # "gone"
    /\ from_node[h] # <<>> /\ Head(from_node[h]) = m
    /\ from_node' = [from_node EXCEPT ![h] = Tail(@)]
    /\ UNCHANGED external

KnownChildren == {b_children[i] : i \in DOMAIN b_children} \ {None}

\* Initially the children are placeholders: insert(0, sender) and pop().
FillIn(h) ==
    IF h \in KnownChildren \/ b_children = <<>> THEN b_children
    ELSE SubSeq(<<h>> \o b_children, 1, Len(b_children))

\* Mutant: one answer too few is waited for.
RespondedTooEarly(children) == b_responses + 2 >= Len(children)

\* transition_when_all_children_responded: is this the last answer?
Responded(children) == b_responses + 1 = Len(children)

\* receiveMsg_NodesStarted
NodesStarted(h) ==
    /\ NodeAnswers(h, "NodesStarted")
    /\ b_status = "starting"
    /\ b_children' = FillIn(h)
    /\ IF Responded(b_children')
       THEN /\ b_status' = "cluster_started"
            /\ b_responses' = 0
            /\ Report("EngineStarted")
       ELSE /\ b_responses' = b_responses + 1
            /\ UNCHANGED <<b_status, from_builder>>
    /\ UNCHANGED <<to_builder, dispatch, node, orders, to_node, engines>>

\* receiveMsg_StopEngine for a cluster that OSB does not provision:
\* on_all_nodes_stopped, there are no children.
StopEngineExternal ==
    /\ external
    /\ BuilderTakes("StopEngine")
    /\ Report("EngineStopped")
    /\ UNCHANGED <<b_status, b_children, b_responses, dispatch, node, mail,
                   engines>>

\* receiveMsg_StopEngine otherwise, from whatever status.
StopEngine ==
    /\ ~external
    /\ BuilderTakes("StopEngine")
    /\ b_status' = "cluster_stopping"
    /\ to_node' = [h \in Host |->
          IF h \in KnownChildren THEN Append(to_node[h], "StopNodes")
                                 ELSE to_node[h]]
    /\ UNCHANGED <<from_builder, b_children, b_responses, dispatch, node,
                   orders, from_node, engines>>

\* receiveMsg_NodesStopped; after the last one on_all_nodes_stopped reports
\* and sends the children home.
NodesStopped(h) ==
    /\ NodeAnswers(h, "NodesStopped")
    /\ b_status = "cluster_stopping"
    /\ IF Responded(b_children)
       THEN /\ b_status' = "cluster_stopped"
            /\ b_responses' = 0
            /\ Report("EngineStopped")
            /\ to_node' = [g \in Host |->
                  IF g \in KnownChildren THEN Append(to_node[g], "Exit")
                                         ELSE to_node[g]]
            /\ b_children' = <<>>
       ELSE /\ b_responses' = b_responses + 1
            /\ UNCHANGED <<b_status, from_builder, to_node, b_children>>
    /\ UNCHANGED <<to_builder, dispatch, node, orders, engines>>

\* receiveMsg_BenchmarkFailure: forwarded, whoever sent it.
ForwardNodeFailure(h) ==
    /\ NodeAnswers(h, "BenchmarkFailure")
    /\ Report("BenchmarkFailure")
    /\ UNCHANGED <<to_builder, b_status, b_children, b_responses, dispatch,
                   node, orders, to_node, engines>>

ForwardDispatcherFailure ==
    /\ b_status # "gone"
    /\ from_dispatcher # <<>>
    /\ from_dispatcher' = Tail(from_dispatcher)
    /\ Report("BenchmarkFailure")
    /\ UNCHANGED <<external, to_builder, b_status, b_children, b_responses,
                   to_dispatcher, remotes, pending, node, mail, engines>>

\* A failure that the orchestrator's guard sent back is forwarded to it.
ReturnFailure ==
    /\ BuilderTakes("BenchmarkFailure")
    /\ Report("BenchmarkFailure")
    /\ UNCHANGED <<b_status, b_children, b_responses, dispatch, node, mail,
                   engines>>

\* An exit request ends the actor and then its child, the dispatcher;
\* messages to the actor are lost.
BuilderExits ==
    /\ BuilderTakes("Exit")
    /\ b_status' = "gone"
    /\ b_children' = <<>> /\ b_responses' = 0
    /\ to_dispatcher' = Append(to_dispatcher, "Exit")
    /\ from_dispatcher' = <<>>
    /\ from_node' = [h \in Host |-> <<>>]
    /\ UNCHANGED <<from_builder, remotes, pending, node, orders, to_node, engines>>
-----------------------------------------------------------------------------
(* Dispatcher *)

LocalHosts == {h \in Host : IpOf[h] = Localhost}

DispatcherTakes(m) ==
    /\ to_dispatcher # <<>> /\ Head(to_dispatcher) = m
    /\ to_dispatcher' = Tail(to_dispatcher)

\* send_all_pending: everyone in hs is told to start.
SendPending(hs) ==
    orders' = [h \in Host |-> IF h \in hs THEN Append(orders[h], "StartNodes")
                                              ELSE orders[h]]

\* createActor for each of hs.
Create(hs) == node' = [h \in Host |-> IF h \in hs THEN "up" ELSE node[h]]

\* receiveMsg_StartEngine: local builders are created at once; the others
\* when their machines have checked in.
Dispatch ==
    /\ DispatcherTakes("StartEngine")
    /\ Create(LocalHosts)
    /\ remotes' = {IpOf[h] : h \in Host \ LocalHosts}
    /\ IF remotes' = {}
       THEN SendPending(LocalHosts) /\ pending' = {}
       ELSE pending' = LocalHosts /\ UNCHANGED orders
    /\ UNCHANGED <<coordination, from_dispatcher, to_node, from_node, engines>>

\* It raises after some builders were created: the guard answers the
\* BuilderActor and nobody is told to start.
DispatchFails(created) ==
    /\ "dispatch" \in EngineFaults
    /\ DispatcherTakes("StartEngine")
    /\ Create(created)
    /\ pending' = created
    /\ from_dispatcher' = Append(from_dispatcher, "BenchmarkFailure")
    /\ UNCHANGED <<coordination, remotes, mail, engines>>

\* receiveMsg_ActorSystemConventionUpdate: a remote machine has joined.
ConventionUpdate(ip) ==
    /\ ip \in remotes
    /\ remotes' = remotes \ {ip}
    /\ LET arrived == {h \in Host : IpOf[h] = ip} IN
       /\ Create(arrived)
       /\ IF remotes' = {}
          THEN SendPending(pending \cup arrived) /\ pending' = {}
          ELSE pending' = pending \cup arrived /\ UNCHANGED orders
    /\ UNCHANGED <<coordination, to_dispatcher, from_dispatcher, to_node,
                   from_node, engines>>

\* An exit request ends the dispatcher and then its children.
DispatcherExits ==
    /\ DispatcherTakes("Exit")
    /\ remotes' = {} /\ pending' = {}
    /\ orders' = [h \in Host |-> IF node[h] = "up" THEN Append(orders[h], "Exit")
                                                       ELSE orders[h]]
    /\ UNCHANGED <<coordination, from_dispatcher, node, to_node, from_node,
                   engines>>
-----------------------------------------------------------------------------
(* NodeBuilderActor *)

\* The message at the head of a channel to the actor of host h, taken.
TakesFromDispatcher(h, m) ==
    /\ node[h] = "up"
    /\ orders[h] # <<>> /\ Head(orders[h]) = m
    /\ orders' = [orders EXCEPT ![h] = Tail(@)]
    /\ UNCHANGED to_node

TakesFromBuilder(h, m) ==
    /\ node[h] = "up"
    /\ to_node[h] # <<>> /\ Head(to_node[h]) = m
    /\ to_node' = [to_node EXCEPT ![h] = Tail(@)]
    /\ UNCHANGED orders

\* An answer to the BuilderActor; it is lost when that actor is gone.
Answer(h, m) ==
    from_node' = IF b_status = "gone" THEN from_node
                 ELSE [from_node EXCEPT ![h] = Append(@, m)]

\* receiveMsg_StartNodes; the answer goes to reply_to, the BuilderActor.
StartNodes(h) ==
    /\ TakesFromDispatcher(h, "StartNodes")
    /\ builder' = [builder EXCEPT ![h] = TRUE]
    /\ nodes' = [nodes EXCEPT ![h] = NodesOn[h]]
    /\ processes' = [processes EXCEPT ![h] = NodesOn[h]]
    /\ Answer(h, "NodesStarted")
    /\ UNCHANGED <<coordination, dispatch, node, abandoned>>

\* It fails before a process is launched, with or without a Builder.
StartNodesFails(h, created) ==
    /\ "start" \in EngineFaults
    /\ TakesFromDispatcher(h, "StartNodes")
    /\ builder' = [builder EXCEPT ![h] = created]
    /\ Answer(h, "BenchmarkFailure")
    /\ UNCHANGED <<coordination, dispatch, node, nodes, processes, abandoned>>

\* The launcher raises with k processes running: start_engine has not
\* assigned self.nodes.
LaunchFails(h, k) ==
    /\ "launch" \in EngineFaults
    /\ TakesFromDispatcher(h, "StartNodes")
    /\ builder' = [builder EXCEPT ![h] = TRUE]
    /\ processes' = [processes EXCEPT ![h] = k]
    /\ abandoned' = [abandoned EXCEPT ![h] = TRUE]
    /\ Answer(h, "BenchmarkFailure")
    /\ UNCHANGED <<coordination, dispatch, node, nodes>>

\* stop_engine: the launcher stops the nodes the Builder knows, those that
\* are gone already included.
StopsEngine(h) ==
    /\ builder' = [builder EXCEPT ![h] = FALSE]
    /\ processes' = [processes EXCEPT ![h] = IF nodes[h] > 0 THEN 0 ELSE @]
    /\ nodes' = [nodes EXCEPT ![h] = 0]

\* StopNodes
StopNodes(h) ==
    /\ TakesFromBuilder(h, "StopNodes")
    /\ builder[h]
    /\ StopsEngine(h)
    /\ Answer(h, "NodesStopped")
    /\ UNCHANGED <<coordination, dispatch, node, abandoned>>

\* Mutant: the builder is dropped although the stop failed.
StopNodesFailsForgets(h, left) ==
    /\ "stop" \in EngineFaults
    /\ TakesFromBuilder(h, "StopNodes")
    /\ processes' = [processes EXCEPT ![h] = left]
    /\ builder' = [builder EXCEPT ![h] = FALSE]
    /\ Answer(h, "BenchmarkFailure")
    /\ UNCHANGED <<coordination, dispatch, node, nodes, abandoned>>

\* stop_engine raises with some processes left; the Builder is kept.
StopNodesFails(h, left) ==
    /\ "stop" \in EngineFaults
    /\ TakesFromBuilder(h, "StopNodes")
    /\ processes' = [processes EXCEPT ![h] = left]
    /\ Answer(h, "BenchmarkFailure")
    /\ UNCHANGED <<coordination, dispatch, node, builder, nodes, abandoned>>

\* An exit request of the dispatcher or the BuilderActor: the actor ends and
\* what is left in its mailbox is lost.
NodeEnds(h) ==
    /\ node[h] = "up"
    /\ \/ orders[h] # <<>> /\ Head(orders[h]) = "Exit"
       \/ to_node[h] # <<>> /\ Head(to_node[h]) = "Exit"
    /\ node' = [node EXCEPT ![h] = "gone"]
    /\ orders' = [orders EXCEPT ![h] = <<>>]
    /\ to_node' = [to_node EXCEPT ![h] = <<>>]

\* ActorExitRequest: the engine is stopped if there is a Builder.
NodeExits(h) ==
    /\ NodeEnds(h)
    /\ IF builder[h] THEN StopsEngine(h) ELSE UNCHANGED <<builder, nodes, processes>>
    /\ UNCHANGED <<coordination, dispatch, from_node, abandoned>>

\* stop_engine raises: the actor is gone all the same.
NodeExitFails(h) ==
    /\ "exit" \in EngineFaults
    /\ builder[h]
    /\ NodeEnds(h)
    /\ abandoned' = [abandoned EXCEPT ![h] = TRUE]
    /\ Answer(h, "BenchmarkFailure")
    /\ UNCHANGED <<coordination, dispatch, builder, nodes, processes>>
=============================================================================
