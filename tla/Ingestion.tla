------------------------------ MODULE Ingestion ------------------------------
(***************************************************************************)
(* From the schedule to the documents that are sent: the files of the      *)
(* document sets (DocumentFiles), the allocation matrix (Allocator), the   *)
(* assignment of its rows to workers (WorkerAssignment), and, for one task *)
(* that indexes documents, the parameter source each worker shares among   *)
(* its clients of that task (BulkParams).                                  *)
(*                                                                         *)
(* A worker looks at one column of its rows at a time and creates one      *)
(* parameter source per task in it (AsyncIoAdapter.run).  The sources do   *)
(* not share state, so they are read one after the other here.             *)
(***************************************************************************)
EXTENDS Allocator, WorkerAssignment, BulkParams

VARIABLES
    bulk_task,   \* the task that indexes documents, NoTask before it is chosen
    todo         \* workers and columns whose source is still to be read

all == <<files, vars, assignment, bulks, bulk_task, todo>>

NoTask == [name |-> <<>>, clients |-> 0, completes_parent |-> FALSE]

IngestionInit ==
    /\ FilesInit
    /\ Init
    /\ AssignmentInit
    /\ BulkInit
    /\ bulk_task = NoTask
    /\ todo = {}

\* Preparation of the workload comes before everything else.
PrepareFiles ==
    /\ Prepare
    /\ UNCHANGED <<vars, assignment, bulks, bulk_task, todo>>

Allocate ==
    /\ AllPrepared
    /\ Next
    /\ UNCHANGED <<files, assignment, bulks, bulk_task, todo>>

\* prepare_benchmark: the clients of the matrix are dealt out to workers.
StartAssign ==
    /\ pc = "done"
    /\ pc' = "assign"
    /\ StartAssignment(MaxClients)
    /\ UNCHANGED <<files, schedule, loop, bulks, bulk_task, todo>>

Assign ==
    /\ client_count > 0
    /\ AssignHost
    /\ UNCHANGED <<files, vars, bulks, bulk_task, todo>>

\* Mutant: one source per worker and task, whatever the column.
PartitionsPerWorker(w, column, name) ==
    IF column > 2 THEN {}
    ELSE {a.client_index_in_task : a \in
            {b \in UNION {{allocations[p][c] : c \in 1..RowCount} :
                             p \in ClientsOfWorker(w)} :
                b.kind = "task" /\ b.name = name}}

\* The partitions worker w registers for the bulk task in a column.
Partitions(w, column, name) ==
    {allocations[p][column].client_index_in_task : p \in
        {q \in ClientsOfWorker(w) :
            /\ allocations[q][column].kind = "task"
            /\ allocations[q][column].name = name}}

\* The workers that find the task in a column create a source for it.
ChooseBulkTask ==
    /\ AllAssigned /\ bulk_task = NoTask
    /\ \E i \in DOMAIN schedule : \E j \in DOMAIN schedule[i].tasks :
          /\ bulk_task' = schedule[i].tasks[j]
          /\ todo' = {x \in Workers \X (1..RowCount) :
                         Partitions(x[1], x[2], schedule[i].tasks[j].name) # {}}
    /\ UNCHANGED <<files, vars, assignment, bulks>>

\* AsyncIoAdapter.run for the next worker and column.
StartColumn ==
    /\ todo # {} /\ partitions = {}
    /\ LET next == CHOOSE x \in todo : TRUE
       IN  /\ todo' = todo \ {next}
           /\ OpenSource(Partitions(next[1], next[2], bulk_task.name))
    /\ UNCHANGED <<files, vars, assignment, bulk_task>>

Read ==
    /\ \/ NextReader(bulk_task.clients)
       \/ NextBulk(bulk_task.clients)
       \/ CloseSource(bulk_task.clients)
    /\ UNCHANGED <<files, vars, assignment, bulk_task, todo>>

IngestionNext ==
    \/ PrepareFiles
    \/ Allocate
    \/ StartAssign
    \/ Assign
    \/ ChooseBulkTask
    \/ StartColumn
    \/ Read

IngestionSpec == IngestionInit /\ [][IngestionNext]_all

-----------------------------------------------------------------------------
Counts(history) ==
    UNION {{history[s][d] : d \in DOMAIN history[s]} : s \in DOMAIN history}

\* Sets whose files can be relied on.
Sound(s) == Verified(s) /\ s \notin torn

Ingested == bulk_task # NoTask /\ todo = {} /\ partitions = {}

\* However the clients of a task are spread over rows, columns and workers,
\* and whatever earlier benchmarks left of the files, no document is sent
\* twice and no id is issued as fresh by two clients; when all sources are
\* exhausted every document of the sets that can be relied on was sent, unless
\* only a percentage was asked for.
DocumentsSentOnce ==
    /\ Counts([s \in (DOMAIN sent) \ torn |-> sent[s]]) \union Counts(issued) \subseteq {0, 1}
    /\ Ingested /\ IngestPercentage = 100 =>
           Counts([s \in {x \in DOMAIN sent : Sound(x)} |-> sent[s]]) \subseteq {1}
=============================================================================
