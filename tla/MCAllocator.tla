---------------------------- MODULE MCAllocator ----------------------------
(***************************************************************************)
(* Instances of Ingestion for TLC: all schedules of one or two elements   *)
(* with up to two sub-tasks of one to three clients each.                  *)
(***************************************************************************)
EXTENDS Ingestion

CONSTANT GivenClients   \* values of `clients` of a parallel element

\* Sub-task i of element e.
SubTasks(e, i) ==
    [name : {<<e, i>>}, clients : 1..3, completes_parent : BOOLEAN]

Leaves(e) ==
    {[nested |-> FALSE, clients |-> 0, tasks |-> <<t>>] :
        t \in {u \in SubTasks(e, 1) : ~u.completes_parent}}

\* completed-by names one sub-task of a parallel element.
Parallels(e) ==
    {[nested |-> TRUE, clients |-> n, tasks |-> <<t>>] :
        n \in GivenClients, t \in SubTasks(e, 1)}
    \union
    {[nested |-> TRUE, clients |-> n, tasks |-> <<t[1], t[2]>>] :
        n \in GivenClients,
        t \in {u \in SubTasks(e, 1) \X SubTasks(e, 2) :
                  ~(u[1].completes_parent /\ u[2].completes_parent)}}

Elements(e) == Leaves(e) \union Parallels(e)

\* Load generator hosts with one or two workers each.
Hosts == {<<1>>, <<2, 2>>, <<1, 2, 1>>}

Set(docs, meta, conflicts, packed, sized, parts, bundled, source_url) ==
    [docs |-> docs, meta |-> meta, conflicts |-> conflicts, packed |-> packed, sized |-> sized,
     parts |-> parts, bundled |-> bundled, source_url |-> source_url]

\* A set with action and meta-data lines, in an archive of declared size that
\* comes in parts; one that gets them generated and has conflicting ids, in an
\* archive without declared size; a document file with its own URL; and an
\* archive beside the workload.
Corpora == <<Set(3, TRUE, FALSE, TRUE, TRUE, TRUE, FALSE, FALSE),
             Set(5, FALSE, TRUE, TRUE, FALSE, FALSE, FALSE, FALSE),
             Set(1, FALSE, FALSE, FALSE, TRUE, FALSE, FALSE, TRUE),
             Set(1, FALSE, FALSE, TRUE, TRUE, FALSE, TRUE, FALSE)>>

\* Second elements: one task of three clients, and two sub-tasks of which one
\* completes the element.
Seconds ==
    {[nested |-> FALSE, clients |-> 0,
      tasks |-> <<[name |-> <<2, 1>>, clients |-> 3, completes_parent |-> FALSE]>>],
     [nested |-> TRUE, clients |-> 2,
      tasks |-> <<[name |-> <<2, 1>>, clients |-> 1, completes_parent |-> TRUE],
                  [name |-> <<2, 2>>, clients |-> 2, completes_parent |-> FALSE]>>]}

AllSchedules ==
    {<<x>> : x \in Elements(1)} \union (Elements(1) \X Seconds)

Single == <<[nested |-> FALSE, clients |-> 0,
             tasks |-> <<[name |-> <<1, 1>>, clients |-> 2, completes_parent |-> FALSE]>>]>>

\* Nothing was downloaded, failed or was killed but the sets themselves.
Smooth == restarts = 0 /\ stage # "failed" /\ 1 .. (preparing - 1) \subseteq counted

\* What can happen to the files is looked at with one schedule.
Focused == Smooth \/ schedule = Single
=============================================================================
