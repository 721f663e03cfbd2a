------------------------------- MODULE Runners -------------------------------
(***************************************************************************)
(* The runners of administrative and measured operations (runner.py) and   *)
(* what one client does with them: AsyncExecutor.handle_benchmark opens a  *)
(* request context, execute_single calls the runner, Retry repeats it.     *)
(*                                                                         *)
(* A runner is the sequence of requests it sends, as data: what each asks  *)
(* of the cluster, which of them are bracketed for the measurement, and    *)
(* whether time_func brackets the whole call.  The cluster is what the     *)
(* requests can tell apart: the named things it stores and the background  *)
(* jobs it runs.  An answer may be lost after the cluster has acted.       *)
(***************************************************************************)
EXTENDS RequestContext, Sequences, SequencesExt

CONSTANTS
    Operations,     \* the operations of the test procedure, runner records
    Jobs,           \* names of the cluster's background jobs
    MaxOperations,  \* bound: operations one client performs
    MaxRequests     \* bound: requests of one operation, all attempts together

ASSUME RunnersAssumption ==
    MaxOperations \in Nat \ {0} /\ MaxRequests \in Nat

VARIABLES
    store,     \* what the cluster (and the local directory) holds: set of <<kind, name>>
    job,       \* the state of each background job
    stopped,   \* WaitForTransform objects whose _start_time is set
    op,        \* the runner being called
    pc,        \* the request it is about to send
    attempt,   \* Retry's attempt, counted from 1
    success,   \* the "success" the runner would return
    phase,     \* "idle", "running", "returned", "failed" (tolerated) or "aborted"
    ctx,       \* the request context
    clock,     \* time.perf_counter, restarted for every operation
    performed, \* operations performed
    onError    \* --on-error

runnerVars == <<store, job, stopped, op, pc, attempt, success, phase, ctx, clock,
                performed, onError>>

-------------------------------------------------------------------------------
(* Requests and runners.                                                   *)

\* A request: verb and target; "skip" is how many requests the runner skips
\* when the target is <<present, absent>>; "tolerant" ignores a 404.
R(verb, kind, n) ==
    [verb |-> verb, kind |-> kind, name |-> n, bracket |-> {}, skip |-> <<0, 0>>,
     tolerant |-> FALSE]

Own(r) == [r EXCEPT !.bracket = {"open", "close"}]

Opens(r) == [r EXCEPT !.bracket = {"open"}]

Closes(r) == [r EXCEPT !.bracket = {"close"}]

Tolerant(r) == [r EXCEPT !.tolerant = TRUE]

Exists(kind, n) == [R("exists", kind, n) EXCEPT !.skip = <<0, 1>>]

\* The request of a loop over names, before it has its name.
Unnamed == "any"

Each(ns, request) == [i \in DOMAIN ns |-> [request EXCEPT !.name = ns[i]]]

\* The loop of the delete runners: only_if_exists asks before it deletes.
DeleteEach(kind, ns, onlyIfExists, request) ==
    IF onlyIfExists
    THEN [i \in 1..(2 * Len(ns)) |->
             IF i % 2 = 1 THEN Exists(kind, ns[(i + 1) \div 2])
                          ELSE [request EXCEPT !.name = ns[i \div 2]]]
    ELSE Each(ns, request)

\* The operation types that register_default_runners does not wrap in Retry.
NotRetried == {"bulk", "force-merge", "node-stats", "raw-request", "sleep",
               "bulk-vector-data-set", "create-snapshot", "restore-snapshot",
               "produce-stream-message"}

\* The parameters Retry reads.
NoRetry == [retries |-> 0, untilSuccess |-> FALSE, retryOnError |-> FALSE]

Runner(type, timed, requests) ==
    [type |-> type, timed |-> timed, requests |-> requests,
     retry |-> NoRetry, asserted |-> FALSE]

WithRetry(o, n) == [o EXCEPT !.retry.retries = n]

UntilSuccess(o) == [o EXCEPT !.retry.untilSuccess = TRUE]

\* AssertingRunner, for an assertion that "success" is true.
Asserted(o) == [o EXCEPT !.asserted = TRUE]

-------------------------------------------------------------------------------
(* The runners, one definition per class.                                  *)

BulkIndex(n) == Runner("bulk", FALSE, <<Own(R("judge", "documents", n))>>)

BulkVectorDataSet(n) == Runner("bulk-vector-data-set", FALSE, <<Own(R("put", "documents", n))>>)

DeleteKnnModel(n, ignore) ==
    Runner("delete-knn-model", FALSE,
           <<Own([R(IF ignore THEN "delete" ELSE "remove", "knn", n) EXCEPT !.tolerant = TRUE])>>)

CreateMlConnector(n) ==
    Runner("create-ml-connector", TRUE,
           <<R("put", "connector", n), R("write", "file", "connector_id.json")>>)

DeleteMlConnector(n) ==
    Runner("delete-ml-connector", TRUE, <<Exists("connector", n), R("delete", "connector", n)>>)

RegisterRemoteMlModel(n) ==
    Runner("register-remote-ml-model", TRUE,
           <<R("need", "file", "connector_id.json"), R("start", "job", n), R("await", "job", n),
             R("write", "model", n), R("write", "file", "model_id.json")>>)

TrainKnnModel(n) ==
    Runner("train-knn-model", FALSE,
           <<Opens(R("start", "job", n)), Closes(R("await", "job", n))>>)

ForceMerge(n, polling) ==
    Runner("force-merge", FALSE,
           IF polling THEN <<Opens(R("start", "job", n)), Closes(R("settle", "job", n))>>
                      ELSE <<Own(R("read", "index", n))>>)

IndicesStats(n) == Runner("index-stats", FALSE, <<Own(R("judge", "index", n))>>)

NodeStats == Runner("node-stats", TRUE, <<R("read", "node", "stats")>>)

ClusterHealth(n) == Runner("cluster-health", FALSE, <<Own(R("check", "job", n))>>)

PutPipeline(n) == Runner("put-pipeline", TRUE, <<R("put", "pipeline", n)>>)

DeletePipeline(n) == Runner("delete-pipeline", TRUE, <<Tolerant(R("delete", "pipeline", n))>>)

CreateSearchPipeline(n) == Runner("create-search-pipeline", TRUE, <<R("put", "search-pipeline", n)>>)

Refresh(n) == Runner("refresh", TRUE, <<R("read", "index", n)>>)

CreateIndex(ns) ==
    Runner("create-index", FALSE, Each(ns, Own(R("create", "index", Unnamed))))

CreateDataStream(ns) ==
    Runner("create-data-stream", FALSE, Each(ns, Own(R("create", "index", Unnamed))))

DeleteIndex(ns, onlyIfExists) ==
    Runner("delete-index", TRUE,
           DeleteEach("index", ns, onlyIfExists, R("delete", "index", Unnamed)))

DeleteDataStream(ns, onlyIfExists) ==
    Runner("delete-data-stream", FALSE,
           DeleteEach("index", ns, onlyIfExists,
                      [Own(R("delete", "index", Unnamed)) EXCEPT !.tolerant = ~onlyIfExists]))

CreateComponentTemplate(ns) ==
    Runner("create-component-template", FALSE, Each(ns, Own(R("put", "component", Unnamed))))

DeleteComponentTemplate(ns, onlyIfExists) ==
    Runner("delete-component-template", FALSE,
           DeleteEach("component", ns, onlyIfExists,
                      [Own(R("delete", "component", Unnamed)) EXCEPT !.tolerant = ~onlyIfExists]))

CreateComposableTemplate(ns) ==
    Runner("create-composable-template", FALSE, Each(ns, Own(R("put", "template", Unnamed))))

\* The indices that match the pattern of template n are the index n.
DeleteComposableTemplate(n, onlyIfExists) ==
    Runner("delete-composable-template", FALSE,
           DeleteEach("template", <<n>>, onlyIfExists,
                      [Own(R("delete", "template", Unnamed)) EXCEPT !.tolerant = ~onlyIfExists])
           \o <<Tolerant(R("delete", "index", n))>>)

CreateIndexTemplate(ns) ==
    Runner("create-index-template", FALSE, Each(ns, Own(R("put", "template", Unnamed))))

DeleteIndexTemplate(n, onlyIfExists) ==
    Runner("delete-index-template", FALSE,
           DeleteEach("template", <<n>>, onlyIfExists, Own(R("delete", "template", Unnamed)))
           \o <<Tolerant(R("delete", "index", n))>>)

\* The relocation job of the source has its name; "require" is _wait_for.
ShrinkIndex(n, target) ==
    Runner("shrink-index", FALSE,
           <<R("read", "index", n), R("read", "node", "info"), R("start", "job", n),
             Own(R("require", "job", n)), Own(R("create", "index", target)),
             Own(R("require", "job", n))>>)

RawRequest(n) == Runner("raw-request", FALSE, <<Own(R("read", "index", n))>>)

Sleep == Runner("sleep", TRUE, <<R("sleep", "local", "sleep")>>)

DeleteSnapshotRepository(n) ==
    Runner("delete-snapshot-repository", TRUE, <<R("delete", "repository", n)>>)

CreateSnapshotRepository(n) ==
    Runner("create-snapshot-repository", TRUE, <<R("put", "repository", n)>>)

CreateSnapshot(n) == Runner("create-snapshot", TRUE, <<R("start", "job", n)>>)

WaitForSnapshotCreate(n) == Runner("wait-for-snapshot-create", FALSE, <<R("await", "job", n)>>)

RestoreSnapshot(n) == Runner("restore-snapshot", TRUE, <<R("start", "job", n)>>)

IndicesRecovery(n) == Runner("wait-for-recovery", FALSE, <<Own(R("linger", "job", n))>>)

PutSettings(n) == Runner("put-settings", TRUE, <<R("put", "settings", n)>>)

UpdateConcurrentSegmentSearchSettings ==
    Runner("update-concurrent-segment-search-settings", TRUE, <<R("put", "settings", "css")>>)

CreateTransform(n) == Runner("create-transform", TRUE, <<R("create", "transform", n)>>)

StartTransform(n) == Runner("start-transform", TRUE, <<R("start", "job", n)>>)

WaitForTransform(n) ==
    Runner("wait-for-transform", FALSE, <<R("stop", "job", n), R("await", "job", n)>>)

DeleteTransform(n) == Runner("delete-transform", TRUE, <<Tolerant(R("delete", "transform", n))>>)

DeleteMlModel(n) ==
    Runner("delete-ml-model", TRUE,
           <<[Exists("model", n) EXCEPT !.skip = <<0, 3>>], R("read", "model", n),
             R("settle", "job", n), R("delete", "model", n)>>)

\* A registration that has ended has stored the model that a search finds.
RegisterMlModel(n) ==
    Runner("register-ml-model", TRUE,
           <<[Exists("model", n) EXCEPT !.skip = <<3, 0>>], R("start", "job", n),
             R("await", "job", n), R("write", "model", n), R("write", "file", "model_id.json")>>)

DeployMlModel(n) ==
    Runner("deploy-ml-model", TRUE,
           <<R("need", "file", "model_id.json"), R("start", "job", n), R("await", "job", n)>>)

ProduceStreamMessage(n) == Runner("produce-stream-message", TRUE, <<R("put", "message", n)>>)

-------------------------------------------------------------------------------
(* The cluster, external: what it does with a request.                     *)

Target(r) == <<r.kind, r.name>>

Present(r) == Target(r) \in store

\* The cluster (or the local file system) acts on the request.
Applied(r) ==
    /\ store' = CASE r.verb \in {"create", "put", "write"} -> store \union {Target(r)}
                  [] r.verb \in {"delete", "remove"} -> store \ {Target(r)}
                  [] OTHER -> store
    /\ job' = IF r.verb = "start" THEN [job EXCEPT ![r.name] = "running"] ELSE job

\* A 4xx answer.
Rejects(r) ==
    \/ r.verb = "create" /\ Present(r)
    \/ r.verb \in {"delete", "remove"} /\ ~Present(r) /\ ~r.tolerant

Local(r) == r.verb \in {"write", "need", "sleep"}

-------------------------------------------------------------------------------
(* What the runners have in common, whatever names they are given.         *)

\* The runners whose first request is bracketed, by time_func or by themselves.
Instrumented(o) == o.timed \/ "open" \in o.requests[1].bracket

\* A call that returns has sent request k.
Inevitable(o, k) ==
    /\ k \in DOMAIN o.requests /\ o.requests[k].verb # "stop"
    /\ \A i \in 1..(k - 1) : o.requests[i].skip = <<0, 0>>

OnWire(r) == ~Local(r) \/ r.verb = "sleep"

\* An instrumented runner sends something, inside a bracket that it closes.
ClosesBracket(o) ==
    Instrumented(o) =>
        /\ \E k \in DOMAIN o.requests :
               Inevitable(o, k) /\ OnWire(o.requests[k]) /\ (o.timed \/ k = 1)
        /\ o.timed \/ \E k \in DOMAIN o.requests :
                          Inevitable(o, k) /\ "close" \in o.requests[k].bracket

Adds(r) == r.verb \in {"create", "put", "write"}

Removes(r) == r.verb \in {"delete", "remove"}

Awaits(r) == r.verb \in {"await", "linger"}

\* No request undoes the effect of another.
Consistent(o) ==
    \A i, j \in DOMAIN o.requests :
        LET q == o.requests[i]
            r == o.requests[j]
        IN  /\ Adds(q) /\ Removes(r) => Target(q) # Target(r)
            /\ i < j /\ (Awaits(q) \/ q.verb = "settle") => r.verb # "start"

\* Request q may be skipped because the target of r is there, or is not.
Skippable(o, r, q, there) ==
    /\ IF there THEN ~Removes(q) ELSE ~Adds(q)
    /\ Adds(q) \/ Removes(q) => Target(q) = Target(r)
    /\ Awaits(q) => o.requests[1].skip[1] # 0
    /\ q.verb = "settle" => o.requests[1].skip[2] # 0

\* Only what is there already, or gone, is skipped.
SkipsDone(o) ==
    \A i \in DOMAIN o.requests :
        LET r == o.requests[i]
        IN  /\ r.skip # <<0, 0>> => r.verb = "exists"
            /\ \A j \in DOMAIN o.requests : i < j =>
                  /\ j <= i + r.skip[1] => Skippable(o, r, o.requests[j], TRUE)
                  /\ j <= i + r.skip[2] => Skippable(o, r, o.requests[j], FALSE)

WellFormedRunner(o) ==
    /\ o.requests \in Seq(ToSet(o.requests))
    /\ o.timed \in BOOLEAN
    /\ \A i \in DOMAIN o.requests :
          LET r == o.requests[i]
          IN  r.skip \in Nat \X Nat /\ (Awaits(r) \/ r.verb = "settle" => r.name \in Jobs)
    /\ ClosesBracket(o) /\ Consistent(o) /\ SkipsDone(o)

ASSUME OperationsAssumption == \A o \in Operations : WellFormedRunner(o)

-------------------------------------------------------------------------------

\* A background job ends by itself, well or badly.
JobEnds ==
    /\ phase = "running"
    /\ \E j \in Jobs, s \in {"done", "failed"} :
          job[j] = "running" /\ job' = [job EXCEPT ![j] = s]
    /\ UNCHANGED <<store, stopped, op, pc, attempt, success, phase, ctx, clock,
                   performed, onError>>

-------------------------------------------------------------------------------
(* One call of a runner.                                                   *)

RunnersInit ==
    /\ store = {}
    /\ job = [j \in Jobs |-> "none"]
    /\ stopped = {}
    /\ op = Sleep
    /\ pc = 1
    /\ attempt = 1
    /\ success = TRUE
    /\ phase = "idle"
    /\ ctx = EmptyContext
    /\ clock = 0
    /\ performed = 0
    /\ onError \in {"continue", "abort"}

\* The schedule hands out the next operation: a new request context, and
\* time_func's opening stamp.
Start(o) ==
    /\ phase = "idle"
    /\ performed < MaxOperations
    /\ op' = o /\ pc' = 1 /\ attempt' = 1 /\ success' = TRUE /\ phase' = "running"
    /\ ctx' = IF o.timed THEN ClientStart(EmptyContext, 1) ELSE EmptyContext
    /\ clock' = 1
    /\ performed' = performed + 1
    /\ UNCHANGED <<store, job, stopped, onError>>

\* A request is due; the bound cuts polling and retrying short.
Due ==
    /\ phase = "running"
    /\ pc <= Len(op.requests)
    /\ clock < 4 * MaxRequests

\* The runner polls on: the job it waits for has not reached its end.
Waiting(r) ==
    \/ r.verb \in {"await", "linger"} /\ job[r.name] # "done"
    \/ r.verb = "settle" /\ job[r.name] = "running"

\* The runner raises an error of its own that execute_single does not catch.
Raises(r) ==
    \/ r.verb = "await" /\ job[r.name] = "failed"
    \/ r.verb = "need" /\ ~Present(r)
    \/ r.verb = "require" /\ job[r.name] \notin {"none", "done"}

\* WaitForTransform stops the transform unless it has tried to before.
AlreadyStopped(r) == r.verb = "stop" /\ r.name \in stopped

\* The context once the request has left and its answer, if any, is in.
Sent(r) ==
    IF Local(r) /\ r.verb # "sleep" THEN ctx
    ELSE LET opened == IF "open" \in r.bracket THEN ClientStart(ctx, clock + 1) ELSE ctx
         IN  WireEnd(WireStart(opened, clock + 2), clock + 3)

\* A bracket around a whole poll loop closes when the loop ends.
ClosesNow(r) ==
    "close" \in r.bracket /\ ("open" \in r.bracket \/ ~Waiting(r))

\* What the answer says of "success"; a bulk's items and a statistics
\* condition are free.
Verdicts(r) ==
    CASE r.verb = "judge" -> {success, FALSE}
      [] r.verb = "check" -> {success /\ job[r.name] \in {"none", "done"}}
      [] r.verb = "remove" -> {success /\ Present(r)}
      [] OTHER -> {success}

\* The request is answered and the runner goes on.
Answered ==
    /\ Due
    /\ LET r == op.requests[pc]
       IN  /\ ~Rejects(r) /\ ~Raises(r) /\ ~AlreadyStopped(r)
           /\ Applied(r)
           /\ stopped' = IF r.verb = "stop" THEN stopped \union {r.name} ELSE stopped
           /\ pc' = IF Waiting(r) THEN pc
                    ELSE pc + 1 + r.skip[IF Present(r) THEN 1 ELSE 2]
           /\ success' \in Verdicts(r)
           /\ ctx' = IF ClosesNow(r) THEN ClientEnd(Sent(r), clock + 4) ELSE Sent(r)
    /\ clock' = clock + 4
    /\ UNCHANGED <<op, attempt, phase, performed, onError>>

SkipStop ==
    /\ Due
    /\ AlreadyStopped(op.requests[pc])
    /\ pc' = pc + 1
    /\ UNCHANGED <<store, job, stopped, op, attempt, success, phase, ctx, clock,
                   performed, onError>>

\* An assertion of the runner, a missing file, or a failed background job.
RunnerRaises ==
    /\ Due
    /\ Raises(op.requests[pc])
    /\ phase' = "aborted"
    /\ UNCHANGED <<store, job, stopped, op, pc, attempt, success, ctx, clock,
                   performed, onError>>

-------------------------------------------------------------------------------
(* Retry and execute_single: what becomes of an error.                     *)

\* range(max_attempts) of Retry, and of BulkVectorDataSet's own loop.
MaxAttempts ==
    CASE op.type \in NotRetried \ {"bulk-vector-data-set"} -> 1
      [] op.retry.untilSuccess -> MaxRequests + 1
      [] OTHER -> op.retry.retries + 1

\* retry-on-timeout is on by default; BulkVectorDataSet catches only timeouts.
Retryable(error) ==
    error \in IF op.type = "bulk-vector-data-set" THEN {"timeout"} ELSE {"timeout", "connection"}

\* Mutant: Retry goes on with the request after the one that failed.
CallAgainSkips(c, t) ==
    /\ attempt' = attempt + 1
    /\ pc' = pc + 1
    /\ success' = TRUE
    /\ ctx' = c
    /\ UNCHANGED phase

\* The delegate is called once more, time_func closing and opening its bracket.
CallAgain(c, t) ==
    /\ attempt' = attempt + 1
    /\ pc' = 1
    /\ success' = TRUE
    /\ ctx' = IF op.timed THEN ClientStart(ClientEnd(c, t), t) ELSE c
    /\ UNCHANGED phase

\* Mutant: the error handler does not close the bracket.
GiveUpUnclosed(error, c, t) ==
    /\ phase' = IF onError = "abort" \/ error = "connection" THEN "aborted" ELSE "failed"
    /\ ctx' = c
    /\ success' = FALSE
    /\ UNCHANGED <<pc, attempt>>

\* execute_single: a refused connection is fatal, any other transport error
\* is for --on-error to judge; the exhausted BulkVectorDataSet raises a
\* TimeoutError that nothing catches.
GiveUp(error, c, t) ==
    /\ phase' = IF \/ onError = "abort" \/ error = "connection"
                   \/ op.type = "bulk-vector-data-set" /\ error = "timeout"
                THEN "aborted" ELSE "failed"
    /\ ctx' = ClientEnd(c, t)
    /\ success' = FALSE
    /\ UNCHANGED <<pc, attempt>>

\* The request ends in an exception; "require" has a Retry without end of its own.
Fails(r, error) ==
    /\ IF r.verb = "require" /\ error # "transport"
       THEN ctx' = Sent(r) /\ UNCHANGED <<pc, attempt, success, phase>>
       ELSE IF attempt < MaxAttempts /\ Retryable(error)
       THEN CallAgain(Sent(r), clock + 4)
       ELSE GiveUp(error, Sent(r), clock + 4)
    /\ stopped' = IF r.verb = "stop" THEN stopped \union {r.name} ELSE stopped
    /\ clock' = clock + 4
    /\ UNCHANGED <<op, performed, onError>>

\* The answer does not arrive in time, whether or not the cluster has acted.
AnswerLost ==
    /\ Due
    /\ LET r == op.requests[pc]
       IN  /\ ~Local(r) /\ ~AlreadyStopped(r)
           /\ Fails(r, "timeout")
           /\ \/ Applied(r) /\ ~Rejects(r)
              \/ UNCHANGED <<store, job>>

\* The connection is refused: the cluster never sees the request.
ConnectionRefused ==
    /\ Due
    /\ LET r == op.requests[pc]
       IN  ~Local(r) /\ ~AlreadyStopped(r) /\ Fails(r, "connection")
    /\ UNCHANGED <<store, job>>

\* The cluster answers 4xx.
Rejected ==
    /\ Due
    /\ LET r == op.requests[pc] IN Rejects(r) /\ Fails(r, "transport")
    /\ UNCHANGED <<store, job>>

\* The runner returns: Retry looks at "success", AssertingRunner at its
\* assertions, execute_single at --on-error.
Return ==
    /\ phase = "running"
    /\ pc > Len(op.requests)
    /\ clock' = clock + 1
    /\ IF /\ op.retry.untilSuccess \/ op.retry.retryOnError
          /\ ~success /\ attempt < MaxAttempts
       THEN CallAgain(ctx, clock + 1)
       ELSE /\ phase' = CASE success -> "returned"
                          [] ~success /\ (op.asserted \/ onError = "abort") -> "aborted"
                          [] OTHER -> "failed"
            /\ ctx' = IF op.timed THEN ClientEnd(ctx, clock + 1) ELSE ctx
            /\ UNCHANGED <<pc, attempt, success>>
    /\ UNCHANGED <<store, job, stopped, op, performed, onError>>

\* handle_benchmark's wait_for, and the time limits inside polling runners:
\* neither TimeoutError is caught before the task fails.
TimedOut ==
    /\ phase = "running"
    /\ phase' = "aborted"
    /\ UNCHANGED <<store, job, stopped, op, pc, attempt, success, ctx, clock,
                   performed, onError>>

\* handle_benchmark reads the timings for the sample; a missing one is a
\* KeyError that fails the task.
ReadTimings ==
    /\ phase \in {"returned", "failed"}
    /\ phase' = IF Readable(ctx) THEN "idle" ELSE "aborted"
    /\ UNCHANGED <<store, job, stopped, op, pc, attempt, success, ctx, clock,
                   performed, onError>>

RunnersNext ==
    \/ \E o \in Operations : Start(o)
    \/ Answered \/ SkipStop \/ RunnerRaises \/ AnswerLost \/ ConnectionRefused
    \/ Rejected \/ Return \/ TimedOut \/ ReadTimings \/ JobEnds

===============================================================================
