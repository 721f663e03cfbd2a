--------------------------- MODULE ClientOperations ---------------------------
(***************************************************************************)
(* What a client does with the operations of its schedule: single runners  *)
(* (Runners), composite operations (Composite) and multi-page searches     *)
(* (Searches), measured through request contexts; or, together with other  *)
(* clients of its worker, a task on a vector data set (VectorSources).     *)
(***************************************************************************)
EXTENDS Runners, Composite, Searches, VectorSources

vars == <<runnerVars, compositeVars, searchVars, vectorVars>>

Init == RunnersInit /\ CompositeInit /\ SearchesInit /\ VectorsInit

\* The client has turned to the composite: its streams may run.
InComposite == stream["top"] # "none"

\* The composite operation as the client's operation.
StartComposite ==
    /\ phase = "idle" /\ performed = 0 /\ calls = "none" /\ vtask = NoVectors
    /\ phase' = "composite"
    /\ items' \in Composites
    /\ stream' = [stream EXCEPT !["top"] = "running"]
    /\ performed' = MaxOperations
    /\ UNCHANGED <<store, job, stopped, op, pc, attempt, success, ctx, clock, onError,
                   at, children, permits, ids, nested, total, now, searchVars,
                   vectorVars>>

\* Composite returns or raises; execute_single judges the error, a KeyError
\* among them being fatal.
EndComposite ==
    /\ phase = "composite"
    /\ stream["top"] \in Ended
    /\ phase' \in CASE stream["top"] = "done" -> {"returned"}
                    [] stream["top"] = "failed" /\ onError = "continue" -> {"failed", "aborted"}
                    [] OTHER -> {"aborted"}
    /\ ctx' = IF stream["top"] = "done" THEN total ELSE ClientEnd(total, now + 1)
    /\ UNCHANGED <<store, job, stopped, op, pc, attempt, success, clock, performed, onError,
                   compositeVars, searchVars, vectorVars>>

\* A search is the only operation of its task.
Searching ==
    /\ phase = "idle" /\ performed = 0 /\ vtask = NoVectors
    /\ SearchesNext
    /\ UNCHANGED <<runnerVars, compositeVars, vectorVars>>

\* So is indexing or searching with vectors.
Vectors ==
    /\ phase = "idle" /\ performed = 0 /\ calls = "none"
    /\ VectorsNext
    /\ UNCHANGED <<runnerVars, compositeVars, searchVars>>

Next ==
    \/ /\ calls = "none" /\ vtask = NoVectors
       /\ RunnersNext
       /\ UNCHANGED <<compositeVars, searchVars, vectorVars>>
    \/ CompositeNext /\ UNCHANGED <<runnerVars, searchVars, vectorVars>>
    \/ StartComposite \/ EndComposite \/ Searching \/ Vectors

\* The event loop runs every task that can run, and every request ends.
Spec ==
    /\ Init /\ [][Next]_vars
    /\ \A s \in Streams : WF_vars(Step(s) /\ UNCHANGED <<runnerVars, searchVars, vectorVars>>)
    /\ WF_vars(EndComposite)

-------------------------------------------------------------------------------
\* An operation that reports success has had its effect on the cluster, however
\* many of its answers were lost and however often Retry repeated it: what it
\* created is there, what it deleted is gone, what it waited for has ended (if
\* its first request did not show that there was nothing to do).
SuccessMeansDone ==
    phase = "returned" /\ ~InComposite =>
        \A i \in DOMAIN op.requests :
            LET r == op.requests[i]
            IN  /\ r.verb \in {"create", "put", "write"} => Target(r) \in store
                /\ r.verb \in {"delete", "remove"} => Target(r) \notin store
                /\ r.verb \in {"await", "linger"} /\ op.requests[1].skip[1] = 0 => job[r.name] = "done"
                /\ r.verb = "settle" /\ op.requests[1].skip[2] = 0 => job[r.name] # "running"

\* Every operation of an instrumented runner that returns, or fails with an
\* error that --on-error tolerates, leaves the four timings of its sample, in
\* their order - also when only a later attempt of Retry got through.
TimingsReadable ==
    phase \in {"returned", "failed"} /\ ~InComposite /\ Instrumented(op) =>
        /\ Readable(ctx)
        /\ ctx.clientStart < ctx.start
        /\ ctx.start < RequestEnd(ctx)

\* An operation of a stream is sent only when every stream before it in the
\* same sequence has completed.
PriorStreamsFirst ==
    \A s \in Streams : stream[s] = "holding" =>
        \A i \in 1..(at[s] - 1) : items[s][i].type = "stream" => stream[items[s][i].key] = "done"

\* Once no stream is left, failed and cancelled ones included, every
\* connection of the semaphore has been given back.
ConnectionsReturned ==
    (\A s \in Streams : stream[s] \in Ended \union {"none"}) => permits = MaxConnections

\* A composite that has started ends, however few connections its nested
\* streams share: a stream that waits for other streams holds no connection.
CompositeEnds == phase = "composite" ~> phase # "composite"

===============================================================================
