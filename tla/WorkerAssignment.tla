-------------------------- MODULE WorkerAssignment --------------------------
(***************************************************************************)
(* calculate_worker_assignments: which clients run on which worker of      *)
(* which load generator host.  One step per iteration of the host loop.    *)
(***************************************************************************)
EXTENDS Integers, Sequences, FiniteSets

CONSTANT HostConfigs   \* the sequences of cores of the load generator hosts

ASSUME HostAssumption ==
    \A h \in HostConfigs : h \in Seq(Nat \ {0}) /\ Len(h) > 0

VARIABLES
    cores,         \* host_configs: the cores of each host
    client_count,
    remaining_clients,
    client_idx,
    assignments    \* host -> worker -> the clients it simulates

assignment == <<cores, client_count, remaining_clients, client_idx, assignments>>

HostCount == Len(cores)

\* Mutant: rounded down.
ClientsPerHostFloor == client_count \div HostCount

\* math.ceil(client_count / host_count)
ClientsPerHost == (client_count + HostCount - 1) \div HostCount

\* The last hosts may get fewer clients, or none.
ClientsOnThisHost ==
    IF ClientsPerHost < remaining_clients THEN ClientsPerHost
    ELSE remaining_clients

AssignmentInit ==
    /\ cores \in HostConfigs
    /\ client_count = 0
    /\ remaining_clients = 0
    /\ client_idx = 0
    /\ assignments = <<>>

StartAssignment(n) ==
    /\ client_count' = n
    /\ remaining_clients' = n
    /\ UNCHANGED <<cores, client_idx, assignments>>

\* clients_per_worker: n clients dealt out to `workers` workers in turn.
ClientsPerWorker(n, workers) ==
    [j \in 1..workers |-> Cardinality({c \in 0..(n - 1) : c % workers = j - 1})]

\* client_idx when worker j of the host gets its clients.
FirstClient(per_worker) ==
    LET first[j \in 1..Len(per_worker)] ==
            IF j = 1 THEN client_idx ELSE first[j - 1] + per_worker[j - 1]
    IN  first

AssignHost ==
    /\ Len(assignments) < HostCount
    /\ LET counts == ClientsPerWorker(ClientsOnThisHost, cores[Len(assignments) + 1])
           first == FirstClient(counts)
       IN  /\ assignments' = Append(assignments,
                 [j \in DOMAIN counts |-> first[j]..(first[j] + counts[j] - 1)])
           /\ client_idx' = first[Len(counts)] + counts[Len(counts)]
           /\ remaining_clients' = remaining_clients - ClientsOnThisHost
    /\ UNCHANGED <<cores, client_count>>

AllAssigned == client_count > 0 /\ Len(assignments) = HostCount

\* Worker j of host h is <<h, j>>.
Workers == UNION {{<<h, j>> : j \in DOMAIN assignments[h]} :
                     h \in DOMAIN assignments}
ClientsOfWorker(w) == assignments[w[1]][w[2]]

-----------------------------------------------------------------------------
\* Each client runs on exactly one worker, as clients_per_worker of the
\* coordinator supposes; at the end none is left over (the assertion at the
\* end of the function); and the load is even: the workers of a host differ
\* by one client at most, and no host has more than its share rounded up.
EachClientOnOneWorker ==
    /\ \A v, w \in Workers :
          ClientsOfWorker(v) \intersect ClientsOfWorker(w) # {} => v = w
    /\ UNION {ClientsOfWorker(w) : w \in Workers}
          = 0..(client_count - remaining_clients - 1)
    /\ AllAssigned => remaining_clients = 0
    /\ \A v, w \in Workers : v[1] = w[1] =>
          Cardinality(ClientsOfWorker(v)) <= Cardinality(ClientsOfWorker(w)) + 1
=============================================================================
