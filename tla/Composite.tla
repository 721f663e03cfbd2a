------------------------------ MODULE Composite ------------------------------
(***************************************************************************)
(* The composite operation (runner.py): streams of requests that run as    *)
(* asyncio tasks, share a semaphore of connections and one dictionary for  *)
(* the ids of points in time and asynchronous searches, and are measured   *)
(* as one request.  Every await is a point where another stream may run.   *)
(***************************************************************************)
EXTENDS RequestContext, Sequences

CONSTANTS
    Streams,         \* ids of the streams; "top" is the composite itself
    Composites,      \* "requests": for each stream its operations and streams
    MaxConnections   \* max-connections

VARIABLES
    items,     \* the composite that is executed
    stream,    \* where each stream is
    at,        \* the item each stream is at
    children,  \* the tasks of the streams that it has created and not gathered
    permits,   \* the free connections of the semaphore
    ids,       \* the keys of the CompositeContext
    nested,    \* the request context of the operation a stream executes
    total,     \* the request context of the composite
    now        \* time.perf_counter

compositeVars == <<items, stream, at, children, permits, ids, nested, total, now>>

\* The operation types that Composite supports, by what they do to the
\* context's dictionary: put an id, take it away, need it, or leave it alone.
Putting == {"create-point-in-time", "submit-async-search"}
Removing == {"delete-point-in-time", "delete-async-search"}
Needing == Removing \union {"paginated-search", "get-async-search"}
SupportedOpTypes == Putting \union Needing \union
    {"list-all-point-in-time", "search", "raw-request", "sleep"}

\* An item: an operation, with the key of the id it works with, or a stream.
Op(type, key) == [type |-> type, key |-> key]

Sub(s) == [type |-> "stream", key |-> s]

\* The streams of a composite are nested in each other: each is an item of at
\* most one other, and "top" of none.
NestedItems(c) ==
    /\ c \in [Streams -> Seq([type : STRING, key : STRING])]
    /\ \A s \in Streams : \A i \in 1..Len(c[s]) : c[s][i].type = "stream" =>
          /\ c[s][i].key \in Streams \ {"top"}
          /\ \A t \in Streams : \A j \in 1..Len(c[t]) :
                c[t][j] = c[s][i] => t = s /\ j = i

ASSUME CompositeAssumption ==
    /\ "top" \in Streams /\ IsFiniteSet(Streams)
    /\ MaxConnections \in Nat \ {0}
    /\ \A c \in Composites : NestedItems(c)

Ended == {"done", "failed", "cancelled"}

CompositeInit ==
    /\ items = [s \in Streams |-> <<>>]
    /\ stream = [s \in Streams |-> "none"]
    /\ at = [s \in Streams |-> 1]
    /\ children = [s \in Streams |-> {}]
    /\ permits = MaxConnections
    /\ ids = {}
    /\ nested = [s \in Streams |-> EmptyContext]
    /\ total = EmptyContext
    /\ now = 0

Item(s) == items[s][at[s]]
AtEnd(s) == at[s] > Len(items[s])
AtStream(s) == ~AtEnd(s) /\ Item(s).type = "stream"
AtOp(s) == ~AtEnd(s) /\ Item(s).type # "stream"

\* An item that is a stream becomes a task.
Spawn(s) ==
    /\ stream[s] = "running" /\ AtStream(s)
    /\ stream' = [stream EXCEPT ![Item(s).key] = "running"]
    /\ children' = [children EXCEPT ![s] = @ \union {Item(s).key}]
    /\ at' = [at EXCEPT ![s] = @ + 1]
    /\ UNCHANGED <<items, permits, ids, nested, total, now>>

\* gather: all the tasks created so far have returned.
Gather(s) ==
    /\ stream[s] = "running" /\ ~AtStream(s)
    /\ children[s] # {}
    /\ \A t \in children[s] : stream[t] = "done"
    /\ children' = [children EXCEPT ![s] = {}]
    /\ UNCHANGED <<items, stream, at, permits, ids, nested, total, now>>

\* s.cancel() on tasks that are not done: it only asks; the task ends at its
\* next turn.  A task that waits in gather passes the request on.
Cancel(ts) ==
    [t \in Streams |-> IF t \in ts /\ stream[t] \notin Ended THEN "cancelling" ELSE stream[t]]

\* gather raises the first error of a task.  Before an operation this is
\* inside the try block, which cancels the others; at the end it is not.
GatherFails(s) ==
    /\ stream[s] = "running" /\ ~AtStream(s)
    /\ \E t \in children[s] : stream[t] \in {"failed", "cancelled"}
    /\ stream' = [(IF AtOp(s) THEN Cancel(children[s]) ELSE stream) EXCEPT ![s] = "failed"]
    /\ UNCHANGED <<items, at, children, permits, ids, nested, total, now>>

\* Mutant: an operation does not wait for the streams before it.
AcquireAtOnce(s) ==
    /\ stream[s] = "running" /\ AtOp(s)
    /\ Item(s).type \in SupportedOpTypes
    /\ permits > 0
    /\ permits' = permits - 1
    /\ stream' = [stream EXCEPT ![s] = "holding"]
    /\ nested' = [nested EXCEPT ![s] =
                    WireStart(ClientStart(EmptyContext, now + 1), now + 2)]
    /\ now' = now + 2
    /\ UNCHANGED <<items, at, children, ids, total>>

\* All the streams before an operation have been gathered; its type is known
\* and a connection is free: the operation starts in a context of its own.
Acquire(s) ==
    /\ stream[s] = "running" /\ AtOp(s) /\ children[s] = {}
    /\ Item(s).type \in SupportedOpTypes
    /\ permits > 0
    /\ permits' = permits - 1
    /\ stream' = [stream EXCEPT ![s] = "holding"]
    /\ nested' = [nested EXCEPT ![s] =
                    WireStart(ClientStart(EmptyContext, now + 1), now + 2)]
    /\ now' = now + 2
    /\ UNCHANGED <<items, at, children, ids, total>>

\* An operation that needs an id no one has put raises a KeyError, as does
\* one of an unsupported type with an assertion error.
Unusable(s) ==
    \/ Item(s).type \notin SupportedOpTypes
    \/ stream[s] = "holding" /\ Item(s).type \in Needing /\ Item(s).key \notin ids

\* The operation returns: RequestTiming closes its context and hands the
\* times to the composite's, the semaphore is released.
Finish(s) ==
    /\ stream[s] = "holding" /\ ~Unusable(s)
    /\ LET type == Item(s).type
           key == Item(s).key
           c == ClientEnd(WireEnd(nested[s], now + 1), now + 2)
       IN  /\ ids' = IF type \in Putting THEN ids \union {key}
                     ELSE IF type \in Removing THEN ids \ {key} ELSE ids
           /\ nested' = [nested EXCEPT ![s] = EmptyContext]
           /\ total' = Propagate(total, c)
    /\ now' = now + 2
    /\ permits' = permits + 1
    /\ stream' = [stream EXCEPT ![s] = "running"]
    /\ at' = [at EXCEPT ![s] = @ + 1]
    /\ UNCHANGED <<items, children>>

\* The operation raises: the connection is released and the stream fails; it
\* has no other tasks, for they were gathered before the operation.
Fail(s) ==
    /\ \/ stream[s] = "holding"
       \/ stream[s] = "running" /\ AtOp(s) /\ children[s] = {} /\ Unusable(s)
    /\ permits' = IF stream[s] = "holding" THEN permits + 1 ELSE permits
    /\ stream' = [stream EXCEPT ![s] = "failed"]
    /\ nested' = [nested EXCEPT ![s] = EmptyContext]
    /\ UNCHANGED <<items, at, children, ids, total, now>>

\* The stream is inside an operation.
Measuring(s) == nested[s] # EmptyContext

\* handle_benchmark's wait_for gives up on the composite and cancels it.
GiveUpComposite ==
    /\ stream["top"] \in {"running", "holding"}
    /\ stream' = [stream EXCEPT !["top"] = "cancelling"]
    /\ UNCHANGED <<items, at, children, permits, ids, nested, total, now>>

\* Mutant: a cancelled operation keeps its connection.
CancelledKeepsConnection(s) ==
    /\ stream[s] = "cancelling"
    /\ stream' = [Cancel(children[s]) EXCEPT ![s] = "cancelled"]
    /\ UNCHANGED <<items, at, children, permits, ids, nested, total, now>>

\* Mutant: only an operation notices that it is cancelled, a gather does not.
CancelledInOperation(s) ==
    /\ stream[s] = "cancelling"
    /\ Measuring(s)
    /\ stream' = [Cancel(children[s]) EXCEPT ![s] = "cancelled"]
    /\ permits' = permits + 1
    /\ nested' = [nested EXCEPT ![s] = EmptyContext]
    /\ UNCHANGED <<items, at, children, ids, total, now>>

\* A cancelled task runs once more: it releases its connection and the
\* gather it waits in cancels the tasks below it.
Cancelled(s) ==
    /\ stream[s] = "cancelling"
    /\ stream' = [Cancel(children[s]) EXCEPT ![s] = "cancelled"]
    /\ permits' = IF Measuring(s) THEN permits + 1 ELSE permits
    /\ nested' = [nested EXCEPT ![s] = EmptyContext]
    /\ UNCHANGED <<items, at, children, ids, total, now>>

\* The stream has run out of items and gathered its tasks.
End(s) ==
    /\ stream[s] = "running" /\ AtEnd(s) /\ children[s] = {}
    /\ stream' = [stream EXCEPT ![s] = "done"]
    /\ UNCHANGED <<items, at, children, permits, ids, nested, total, now>>

Step(s) ==
    Spawn(s) \/ Gather(s) \/ GatherFails(s) \/ Acquire(s) \/ Finish(s) \/ Fail(s)
    \/ Cancelled(s) \/ End(s)

CompositeNext == GiveUpComposite \/ \E s \in Streams : Step(s)

===============================================================================
