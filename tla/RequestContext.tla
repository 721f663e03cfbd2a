---------------------------- MODULE RequestContext ----------------------------
(***************************************************************************)
(* The timers of one logical request (context.py).  A runner brackets the  *)
(* requests it wants measured with on_client_request_start and             *)
(* on_client_request_end; the HTTP layer's trace hooks (client.py) call    *)
(* on_request_start and on_request_end for every request on the wire.  A   *)
(* context is a record of clock readings; 0 stands for a key that is not   *)
(* in the context's dictionary.                                            *)
(***************************************************************************)
EXTENDS Naturals, FiniteSetsExt

\* A fresh context (init_request_context).
EmptyContext == [clientStart |-> 0, start |-> 0, ends |-> {}, clientEnd |-> 0]

\* update_client_request_start: only the first start is kept.
ClientStart(c, t) ==
    IF c.clientStart = 0 THEN [c EXCEPT !.clientStart = t] ELSE c

\* update_request_start: only the first start on the wire is kept, and only
\* when the runner has opened a bracket before it.
WireStart(c, t) ==
    IF c.start = 0 /\ c.clientStart # 0 THEN [c EXCEPT !.start = t] ELSE c

\* update_request_end: every end on the wire is kept.
WireEnd(c, t) == [c EXCEPT !.ends = @ \union {t}]

\* update_client_request_end: the last end wins.
ClientEnd(c, t) == [c EXCEPT !.clientEnd = t]

\* The ends that the last closed bracket covers; request_end is the latest.
CoveredEnds(c) == {t \in c.ends : t < c.clientEnd}

RequestEnd(c) == Max(CoveredEnds(c))

\* The four properties of RequestContextManager can be read: none of them
\* raises a KeyError (a missing key) or a ValueError (max of nothing).
Readable(c) ==
    c.clientStart # 0 /\ c.start # 0 /\ c.clientEnd # 0 /\ CoveredEnds(c) # {}

\* __aexit__ of a nested context: what it hands to the context around it, in
\* the order of the four update calls.
Propagate(parent, c) ==
    ClientEnd(
        ClientStart(
            WireEnd(WireStart(parent, c.start), RequestEnd(c)),
            c.clientStart),
        c.clientEnd)

===============================================================================
