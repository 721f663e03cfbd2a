----------------------------- MODULE MetricsStore -----------------------------
(***************************************************************************)
(* The metrics stores (metrics.py).  Three components open one each for    *)
(* the same test execution: the load generator, the orchestrator, and the  *)
(* builder of a node.  An in-memory store keeps its records and hands them *)
(* over as a memento; an OpenSearch store buffers them and writes them     *)
(* with a bulk request that is retried, while other threads go on putting  *)
(* records into the buffer.                                                *)
(***************************************************************************)
EXTENDS Results

CONSTANTS
    CheckFrequency,     \* MEMORY_CHECK_FREQUENCY (10000)
    MaxExecutionCount   \* max_execution_count of OsClient.guarded (11)

ASSUME StoreAssumption == {CheckFrequency, MaxExecutionCount} \subseteq Nat \ {0}

VARIABLES
    kind,       \* "in-memory" or "opensearch"
    stores,     \* the three stores
    bulk,       \* the bulk request under way
    index,      \* the records of this test execution in the metrics index
    searchable, \* those a search finds: the ones of the last refresh
    put,        \* the records put into each store (history)
    lost,       \* records an in-memory store refused or could not hand over
    shortages,  \* how often memory was short
    retries,    \* how often a bulk request was retried
    limits      \* bounds: how many faults of each kind happen

storeVars == <<kind, stores, bulk, index, searchable, put, lost, shortages, retries, limits>>

Owners == {"load", "orchestrator", "node"}

NoBulk == [store |-> None, attempt |-> 0, sent |-> EmptyBag, refresh |-> FALSE]

NewStore == [docs |-> EmptyBag, count |-> 0, full |-> FALSE, meta |-> {}, open |-> TRUE]

StoreInit ==
    /\ stores = [o \in Owners |-> NewStore]
    /\ bulk = NoBulk
    /\ index = EmptyBag
    /\ searchable = EmptyBag
    /\ put = [o \in Owners |-> {}]
    /\ lost = {}
    /\ shortages = 0
    /\ retries = 0

\* psutil.virtual_memory, asked when the store looks at it.
Memory == IF kind = "in-memory" /\ shortages < limits.shortages THEN BOOLEAN ELSE {FALSE}

Checks(s) == kind = "in-memory" /\ ~s.full /\ s.count % CheckFrequency = 0

Added(s, r, short) ==
    IF s.full \/ short THEN [s EXCEPT !.full = TRUE]
    ELSE [s EXCEPT !.docs  = @ (+) SetToBag({r}),
                   !.count = IF kind = "in-memory" THEN @ + 1 ELSE @]

\* _add: refused once memory was found to be short.
Add(o, r) ==
    \E short \in IF Checks(stores[o]) THEN Memory ELSE {FALSE} :
        /\ stores' = [stores EXCEPT ![o] = Added(@, r, short)]
        /\ lost' = IF stores[o].full \/ short THEN lost \cup {r} ELSE lost
        /\ put' = [put EXCEPT ![o] = @ \cup {r}]
        /\ shortages' = IF short THEN shortages + 1 ELSE shortages
        /\ UNCHANGED <<kind, bulk, index, searchable, retries, limits>>

\* put_value_cluster_level, put_value_node_level and put_doc.
Put(o, by, n, name, task, sample) ==
    Add(o, [by |-> by, n |-> n, name |-> name, task |-> task, value |-> sample.value,
            type |-> sample.type, ok |-> sample.ok,
            racing |-> bulk.store = o, meta |-> stores[o].meta])

AddMetaInfo(o, key) ==
    /\ stores' = [stores EXCEPT ![o].meta = @ \cup {key}]
    /\ UNCHANGED <<kind, bulk, index, searchable, put, lost, shortages, retries, limits>>

\* to_externalizable(clear=True): the memento is None when memory is short.
Externalized(short) ==
    IF kind = "opensearch" \/ short THEN EmptyBag ELSE stores["load"].docs

ToExternalizable(short) ==
    /\ short \in Memory
    /\ stores' = IF kind = "opensearch" THEN stores
                 ELSE [stores EXCEPT !["load"] = [@ EXCEPT !.docs = EmptyBag, !.count = 0, !.full = FALSE]]
    /\ lost' = IF short THEN lost \cup BagToSet(stores["load"].docs) ELSE lost
    /\ shortages' = IF short THEN shortages + 1 ELSE shortages
    /\ UNCHANGED <<kind, bulk, index, searchable, put, retries, limits>>

\* flush: nothing to do in memory, otherwise a bulk request unless the buffer
\* is empty.
Flush(o, refresh) ==
    /\ bulk = NoBulk
    /\ bulk' = IF kind = "in-memory" \/ stores[o].docs = EmptyBag THEN NoBulk
               ELSE [store |-> o, attempt |-> 1, sent |-> stores[o].docs, refresh |-> refresh]
    /\ searchable' = IF bulk' = NoBulk /\ refresh THEN index ELSE searchable
    /\ UNCHANGED <<kind, stores, index, put, lost, shortages, retries, limits>>

\* The buffer is read while it is sent: what is put meanwhile may be included.
Sendable == {sent \in {bulk.sent, stores[bulk.store].docs} : bulk.sent \sqsubseteq sent}

\* What the index took of a request whose answer is an error or lost.
Applicable == {EmptyBag} \cup Sendable

\* The buffer is emptied when the request is sent, and not when it succeeded.
BulkForgotten ==
    /\ bulk # NoBulk
    /\ index' = index
    /\ stores' = [stores EXCEPT ![bulk.store].docs = EmptyBag]
    /\ searchable' = IF bulk.refresh THEN index' ELSE searchable
    /\ bulk' = NoBulk
    /\ UNCHANGED <<kind, put, lost, shortages, retries, limits>>

BulkSucceeds ==
    /\ bulk # NoBulk
    /\ \E sent \in Sendable : index' = index (+) sent
    /\ stores' = [stores EXCEPT ![bulk.store].docs = EmptyBag]
    /\ searchable' = IF bulk.refresh THEN index' ELSE searchable
    /\ bulk' = NoBulk
    /\ UNCHANGED <<kind, put, lost, shortages, retries, limits>>

\* A timeout, or status 502, 503, 504 or 429, before the last attempt.
BulkRetried ==
    /\ bulk # NoBulk
    /\ bulk.attempt < MaxExecutionCount
    /\ retries < limits.retries
    /\ \E applied \in Applicable : index' = index (+) applied
    /\ bulk' = [bulk EXCEPT !.attempt = @ + 1, !.sent = stores[bulk.store].docs]
    /\ retries' = retries + 1
    /\ UNCHANGED <<kind, stores, searchable, put, lost, shortages, limits>>

\* The last attempt, or an error that is not retried: an exception.
BulkFails ==
    /\ bulk # NoBulk
    /\ \E applied \in Applicable : index' = index (+) applied
    /\ bulk' = NoBulk
    /\ UNCHANGED <<kind, stores, searchable, put, lost, shortages, retries, limits>>

\* close, after its flush.
Close(o) ==
    /\ stores' = [stores EXCEPT ![o].meta = {}, ![o].open = FALSE]
    /\ UNCHANGED <<kind, bulk, index, searchable, put, lost, shortages, retries, limits>>

\* What the results are computed from.
Collected == IF kind = "in-memory" THEN stores["orchestrator"].docs ELSE searchable

\* A record without a name breaks every query of an in-memory store.
QueryRaises == kind = "in-memory" /\ \E r \in BagToSet(Collected) : r.name = ""

=============================================================================
