------------------------ MODULE Orchestration_proofs ------------------------
(***************************************************************************)
(* Proofs about Orchestration, for any number of hosts, nodes, executors   *)
(* and workload processors: every preparation task runs once and after the *)
(* processors before its own, a benchmark starts only when all tasks have  *)
(* succeeded everywhere, the load generator exists only while the whole    *)
(* engine runs, and nothing is published once the caller has an answer.    *)
(***************************************************************************)
EXTENDS Orchestration, FiniteSetTheorems, TLAPS

-----------------------------------------------------------------------------
(* Channels.                                                                 *)

\* Message m is in channel s, and at most once.
Has(s, m) == \E i \in 1..Len(s) : s[i] = m
Once(s, m) == \A i, j \in 1..Len(s) : s[i] = m /\ s[j] = m => i = j

\* Appending a message to a channel.
LEMMA AppendChannel ==
    ASSUME NEW M, NEW s \in Seq(M), NEW x \in M, NEW m
    PROVE  /\ Append(s, x) \in Seq(M)
           /\ Has(Append(s, x), m) <=> Has(s, m) \/ x = m
           /\ Once(s, m) /\ (x # m \/ ~Has(s, m)) => Once(Append(s, x), m)
<1>1. /\ Len(Append(s, x)) = Len(s) + 1
      /\ Len(s) \in Nat
      /\ \A i \in 1..Len(s) : Append(s, x)[i] = s[i]
      /\ Append(s, x)[Len(s) + 1] = x
  OBVIOUS
<1>2. QED BY <1>1 DEF Has, Once

\* Taking the first message out of a channel.
LEMMA TailChannel ==
    ASSUME NEW M, NEW s \in Seq(M), s # <<>>, NEW m
    PROVE  /\ Tail(s) \in Seq(M)
           /\ Has(Tail(s), m) => Has(s, m)
           /\ Head(s) = m => Has(s, m)
           /\ Once(s, m) => Once(Tail(s), m)
           /\ Once(s, m) /\ Head(s) = m => ~Has(Tail(s), m)
<1>1. /\ Len(s) \in Nat /\ Len(s) > 0
      /\ Len(Tail(s)) = Len(s) - 1
      /\ Head(s) = s[1]
      /\ \A i \in 1..Len(Tail(s)) : Tail(s)[i] = s[i + 1]
  OBVIOUS
<1>2. QED BY <1>1 DEF Has, Once

\* An empty channel has no message.
LEMMA EmptyChannel ==
    ASSUME NEW m
    PROVE  ~Has(<<>>, m) /\ Once(<<>>, m)
BY DEF Has, Once

\* A channel with one message.
LEMMA SingleMessage ==
    ASSUME NEW m
    PROVE  /\ Head(<<m>>) = m /\ Tail(<<m>>) = <<>>
           /\ <<m>> # <<>> /\ Append(<<>>, m) = <<m>>
           /\ \A n : <<m>> = <<n>> => m = n
OBVIOUS

-----------------------------------------------------------------------------
(* The tasks of the preparation.                                             *)

\* A task is the pair of its processor and its index in it.
LEMMA TaskShape ==
    /\ Len(TaskCount) \in Nat \ {0}
    /\ \A q \in 1..Len(TaskCount) : TaskCount[q] \in Nat
    /\ \A t \in Task : /\ t[1] \in 1..Len(TaskCount)
                       /\ t[2] \in 1..TaskCount[t[1]]
                       /\ t = <<t[1], t[2]>>
    /\ \A q \in 1..Len(TaskCount) : \A i \in 1..TaskCount[q] :
          /\ <<q, i>> \in Task
          /\ <<q, i>>[1] = q /\ <<q, i>>[2] = i
    /\ NoTask \notin Task
<1>1. TaskCount \in Seq(Nat) /\ TaskCount # <<>>
  BY PreparationAssumption
<1>2. Len(TaskCount) \in Nat \ {0} /\ DOMAIN TaskCount = 1..Len(TaskCount)
      /\ \A q \in 1..Len(TaskCount) : TaskCount[q] \in Nat
  BY <1>1
<1>3. ASSUME NEW t \in Task
      PROVE  /\ t[1] \in 1..Len(TaskCount) /\ t[2] \in 1..TaskCount[t[1]]
             /\ t = <<t[1], t[2]>>
  <2>1. PICK q \in 1..Len(TaskCount) : \E i \in 1..TaskCount[q] : t = <<q, i>>
    BY <1>2 DEF Task
  <2>2. QED BY <2>1
<1>4. ASSUME NEW q \in 1..Len(TaskCount), NEW i \in 1..TaskCount[q]
      PROVE  <<q, i>> \in Task /\ <<q, i>>[1] = q /\ <<q, i>>[2] = i
  BY <1>2 DEF Task
<1>5. NoTask \notin Task
  <2>1. NoTask[1] = 0
    BY DEF NoTask
  <2>2. QED BY <1>2, <1>3, <2>1
<1>6. QED BY <1>2, <1>3, <1>4, <1>5

-----------------------------------------------------------------------------
(* Preparation on one host.  An executor has at most one message in its two  *)
(* channels, and none while its thread is busy.                              *)

Order == [type : {"StartTaskLoop", "DoTask", "BenchmarkFailure"},
          task : Task \cup {NoTask}]
Reply == {"ReadyForWork", "WorkerIdle", "BenchmarkFailure"}

PrepTypes ==
    /\ p_status \in [LoadHost -> {"none", "initializing", "running", "complete", "gone"}]
    /\ processor \in [LoadHost -> 0..Len(TaskCount)]
    /\ tasks \in [LoadHost -> Nat]
    /\ idle \in [LoadHost -> Nat]
    /\ to_executor \in [Executor -> {<<>>} \cup {<<m>> : m \in Order}]
    /\ from_executor \in [Executor -> {<<>>} \cup {<<m>> : m \in Reply}]
    /\ future \in [Executor -> {"none", "running", "done", "failed", "reported", "dead"}]
    /\ task \in [Executor -> Task \cup {NoTask}]
    /\ finished \in [LoadHost -> SUBSET Task]

\* Executor e takes part in the work of the current processor: it is asked to
\* start or to do a task, asks for one, does one, or says that it is idle.
Active(e) ==
    \/ to_executor[e] # <<>> /\ Head(to_executor[e]).type # "BenchmarkFailure"
    \/ from_executor[e] # <<>> /\ Head(from_executor[e]) # "BenchmarkFailure"
    \/ future[e] \in {"running", "done"}

Ordered(e, t) == to_executor[e] = <<Msg("DoTask", t)>>
Assigned(e, t) == Ordered(e, t) \/ task[e] = t
Held(e, t) == Ordered(e, t) \/ (future[e] = "running" /\ task[e] = t)
NoMore(e) == from_executor[e] = <<"WorkerIdle">> \/ Ordered(e, NoTask)

Place(e) ==
    /\ to_executor[e] # <<>> => /\ from_executor[e] = <<>>
                                /\ future[e] \in {"none", "dead"}
    /\ from_executor[e] # <<>> => future[e] \in {"none", "dead", "reported"}
    /\ future[e] = "reported" => from_executor[e] \in {<<>>, <<"BenchmarkFailure">>}
    /\ task[e] # NoTask <=> future[e] \in {"running", "done", "failed", "reported"}

\* A task that was handed out belongs to one executor, and is finished only
\* when that executor's future is done.
Assignment(e) ==
    \A t \in Task : Assigned(e, t) =>
        /\ t[1] = processor[HostOf[e]] /\ t[2] > tasks[HostOf[e]]
        /\ t \in finished[HostOf[e]] <=> future[e] = "done"
        /\ \A f \in ExecutorsOf(HostOf[e]) \ {e} : ~Assigned(f, t)

Quiet(p) == {e \in ExecutorsOf(p) : ~Active(e)}

\* A task of the current processor was handed out and nobody works on it any
\* more, although it is not finished.
Lost(p) ==
    \E t \in Task : /\ t[1] = processor[p] /\ t[2] > tasks[p]
                    /\ t \notin finished[p]
                    /\ \A e \in ExecutorsOf(p) : ~Held(e, t)

\* A failure is on its way to executor e or from it.
Complains(e) ==
    \/ to_executor[e] # <<>> /\ Head(to_executor[e]).type = "BenchmarkFailure"
    \/ from_executor[e] = <<"BenchmarkFailure">>

Broken(p) == Lost(p) \/ \E e \in ExecutorsOf(p) : Complains(e)

\* The executors that were counted idle are among those that are quiet; one
\* more is quiet when a task was lost or an executor has failed, so that the
\* last one is never counted.
Counted(p) ==
    p_status[p] # "gone" => /\ idle[p] <= Cardinality(Quiet(p))
                            /\ Broken(p) => idle[p] < Cardinality(Quiet(p))

Exhausted(p) ==
    idle[p] > 0 \/ (\E e \in ExecutorsOf(p) : NoMore(e)) => tasks[p] = 0

\* The processors run one after the other.
InOrder(p) ==
    /\ processor[p] # 0 => tasks[p] <= TaskCount[processor[p]]
    /\ \A t \in Task : /\ t[1] < processor[p] => t \in finished[p]
                       /\ t \in finished[p] => t[1] <= processor[p]
                       /\ t \in finished[p] /\ t[1] = processor[p] => t[2] > tasks[p]

Cold(p) ==
    processor[p] = 0 =>
        /\ p_status[p] \notin {"running", "complete"}
        /\ idle[p] = 0 /\ tasks[p] = 0 /\ finished[p] = {}
        /\ \A e \in ExecutorsOf(p) : /\ to_executor[e] = <<>>
                                      /\ from_executor[e] = <<>>
                                      /\ future[e] = "none"

HostInv(p) ==
    /\ \A e \in ExecutorsOf(p) : Place(e) /\ Assignment(e)
    /\ Counted(p) /\ Exhausted(p) /\ InOrder(p) /\ Cold(p)

\* All tasks have succeeded on host p and nobody works there any more.
Done(p) ==
    /\ processor[p] = Len(TaskCount) /\ finished[p] = Task
    /\ \A e \in ExecutorsOf(p) : ~Active(e)

\* What a step does to an executor, and to a host, that it leaves alone.
Same(e) ==
    /\ to_executor'[e] = to_executor[e] /\ from_executor'[e] = from_executor[e]
    /\ future'[e] = future[e] /\ task'[e] = task[e]

SameHost(p) ==
    /\ processor'[p] = processor[p] /\ tasks'[p] = tasks[p]
    /\ idle'[p] = idle[p] /\ finished'[p] = finished[p]
    /\ p_status'[p] = p_status[p]

\* Host p keeps its invariant, and is done if it was.
Kept(p) == HostInv(p)' /\ (Done(p) => Done(p)')

\* An executor that a step leaves alone.
LEMMA SameExecutor ==
    ASSUME NEW e \in Executor, Same(e)
    PROVE  /\ Active(e)' <=> Active(e)
           /\ Place(e)' <=> Place(e)
           /\ NoMore(e)' <=> NoMore(e)
           /\ Complains(e)' <=> Complains(e)
           /\ \A t : /\ Assigned(e, t)' <=> Assigned(e, t)
                     /\ Held(e, t)' <=> Held(e, t)
BY DEF Same, Active, Place, NoMore, Complains, Assigned, Held, Ordered

\* A host that a step leaves alone.
LEMMA OtherHost ==
    ASSUME NEW p \in LoadHost, HostInv(p), SameHost(p),
           \A e \in ExecutorsOf(p) : Same(e)
    PROVE  Kept(p)
<1>1. ASSUME NEW e \in ExecutorsOf(p)
      PROVE  /\ e \in Executor /\ HostOf[e] = p
             /\ Active(e)' <=> Active(e)
             /\ Place(e)' <=> Place(e)
             /\ NoMore(e)' <=> NoMore(e)
             /\ Complains(e)' <=> Complains(e)
             /\ \A t : /\ Assigned(e, t)' <=> Assigned(e, t)
                       /\ Held(e, t)' <=> Held(e, t)
  <2>1. e \in Executor /\ HostOf[e] = p /\ Same(e)
    BY DEF ExecutorsOf
  <2>2. QED BY <2>1, SameExecutor
<1>2. Quiet(p)' = Quiet(p)
  BY <1>1 DEF Quiet
<1>3. Broken(p)' <=> Broken(p)
  <2>1. Lost(p)' <=> Lost(p)
    BY <1>1 DEF Lost, SameHost
  <2>2. QED BY <1>1, <2>1 DEF Broken
<1>4. \A e \in ExecutorsOf(p) : Place(e)'
  BY <1>1 DEF HostInv
<1>5. ASSUME NEW e \in ExecutorsOf(p) PROVE Assignment(e)'
  <2>1. future'[e] = future[e] /\ Assignment(e)
    BY DEF Same, HostInv
  <2>2. QED BY <1>1, <2>1 DEF Assignment, SameHost
<1>6. Counted(p)' /\ Exhausted(p)' /\ InOrder(p)' /\ Cold(p)'
  <2>1. Counted(p)'
    BY <1>2, <1>3 DEF HostInv, Counted, SameHost
  <2>2. Exhausted(p)'
    BY <1>1 DEF HostInv, Exhausted, SameHost
  <2>3. InOrder(p)' /\ Cold(p)'
    BY DEF HostInv, InOrder, Cold, SameHost, Same
  <2>4. QED BY <2>1, <2>2, <2>3
<1>7. Done(p) => Done(p)'
  BY <1>1 DEF Done, SameHost
<1>8. QED BY <1>4, <1>5, <1>6, <1>7 DEF Kept, HostInv

\* The quiet executors of a host are finitely many, and more of them when one
\* falls silent.
LEMMA QuietGrows ==
    ASSUME NEW p \in LoadHost, NEW e \in ExecutorsOf(p),
           \A f \in ExecutorsOf(p) \ {e} : Active(f)' <=> Active(f),
           Active(e)' => Active(e)
    PROVE  /\ Cardinality(Quiet(p)) \in Nat /\ Cardinality(Quiet(p)') \in Nat
           /\ Cardinality(Quiet(p)) <= Cardinality(Quiet(p)')
           /\ Active(e) /\ ~Active(e)'
                 => Cardinality(Quiet(p)') = Cardinality(Quiet(p)) + 1
<1>1. IsFiniteSet(ExecutorsOf(p))
  BY PreparationAssumption, FS_Subset DEF ExecutorsOf
<1>2. IsFiniteSet(Quiet(p)) /\ IsFiniteSet(Quiet(p)')
  BY <1>1, FS_Subset DEF Quiet
<1>3. Quiet(p)' = Quiet(p) \/ Quiet(p)' = Quiet(p) \cup {e}
  BY DEF Quiet
<1>4. Active(e) /\ ~Active(e)' => e \notin Quiet(p) /\ Quiet(p)' = Quiet(p) \cup {e}
  BY DEF Quiet
<1>5. QED BY <1>2, <1>3, <1>4, FS_CardinalityType, FS_AddElement, FS_Subset

\* Who holds a task is active.
LEMMA HeldActive ==
    ASSUME NEW e \in Executor, NEW t, Held(e, t)
    PROVE  Active(e)
<1>1. CASE Ordered(e, t)
  <2>1. Head(to_executor[e]).type = "DoTask" /\ to_executor[e] # <<>>
    BY <1>1, SingleMessage DEF Ordered, Msg
  <2>2. QED BY <2>1 DEF Active
<1>2. CASE future[e] = "running"
  BY <1>2 DEF Active
<1>3. QED BY <1>1, <1>2 DEF Held

\* The task of a failed executor is lost.
LEMMA FailedLost ==
    ASSUME PrepTypes, NEW e \in Executor, Place(e), Assignment(e),
           future[e] \in {"failed", "reported"}
    PROVE  Lost(HostOf[e])
<1>1. task[e] \in Task /\ to_executor[e] = <<>>
  BY DEF Place, PrepTypes
<1>2. /\ task[e][1] = processor[HostOf[e]] /\ task[e][2] > tasks[HostOf[e]]
      /\ task[e] \notin finished[HostOf[e]]
      /\ \A f \in ExecutorsOf(HostOf[e]) \ {e} : ~Assigned(f, task[e])
  BY <1>1 DEF Assignment, Assigned
<1>3. ~Ordered(e, task[e])
  BY <1>1, SingleMessage DEF Ordered
<1>4. \A f \in ExecutorsOf(HostOf[e]) : ~Held(f, task[e])
  BY <1>2, <1>3 DEF Held, Assigned
<1>5. QED BY <1>1, <1>2, <1>4 DEF Lost

\* A step of an executor that takes no task on and finishes none: it goes on
\* holding its task, or falls silent.
LEMMA ExecutorMoves ==
    ASSUME PrepTypes, NEW e \in Executor, HostInv(HostOf[e]), SameHost(HostOf[e]),
           \A f \in ExecutorsOf(HostOf[e]) \ {e} : Same(f),
           processor[HostOf[e]] # 0, Place(e)',
           \A t \in Task : Assigned(e, t)' =>
              Assigned(e, t) /\ (future'[e] = "done" <=> future[e] = "done"),
           NoMore(e)' => NoMore(e) \/ tasks[HostOf[e]] = 0,
           Complains(e)' => \/ Complains(e) \/ future[e] = "failed"
                            \/ Active(e) /\ ~Active(e)',
           Active(e)' => /\ Active(e)
                         /\ \A t \in Task : Held(e, t) => Held(e, t)'
    PROVE  Kept(HostOf[e])
<1>. DEFINE p == HostOf[e]
<1>0. p \in LoadHost /\ e \in ExecutorsOf(p)
  BY PreparationAssumption DEF ExecutorsOf
<1>1. ASSUME NEW f \in ExecutorsOf(p) \ {e}
      PROVE  /\ f \in Executor /\ HostOf[f] = p /\ future'[f] = future[f]
             /\ Active(f)' <=> Active(f)
             /\ Place(f)' <=> Place(f)
             /\ NoMore(f)' <=> NoMore(f)
             /\ Complains(f)' <=> Complains(f)
             /\ \A t : /\ Assigned(f, t)' <=> Assigned(f, t)
                       /\ Held(f, t)' <=> Held(f, t)
  <2>1. f \in Executor /\ HostOf[f] = p /\ Same(f)
    BY DEF ExecutorsOf
  <2>2. QED BY <2>1, SameExecutor DEF Same
<1>2. /\ Cardinality(Quiet(p)) \in Nat /\ Cardinality(Quiet(p)') \in Nat
      /\ Cardinality(Quiet(p)) <= Cardinality(Quiet(p)')
      /\ Active(e) /\ ~Active(e)'
            => Cardinality(Quiet(p)') = Cardinality(Quiet(p)) + 1
  BY <1>0, <1>1, QuietGrows
<1>3. Lost(p)' => Lost(p) \/ (Active(e) /\ ~Active(e)')
  <2>. SUFFICES ASSUME Lost(p)', ~(Active(e) /\ ~Active(e)') PROVE Lost(p)
    OBVIOUS
  <2>1. PICK t \in Task : /\ t[1] = processor[p] /\ t[2] > tasks[p]
                          /\ t \notin finished[p]
                          /\ \A f \in ExecutorsOf(p) : ~Held(f, t)'
    BY DEF Lost, SameHost
  <2>2. ~Held(e, t)
    BY <1>0, <2>1, HeldActive
  <2>3. \A f \in ExecutorsOf(p) : ~Held(f, t)
    BY <1>1, <2>1, <2>2
  <2>4. QED BY <2>1, <2>3 DEF Lost
<1>4. idle[p] \in Nat /\ idle'[p] = idle[p]
  BY <1>0 DEF PrepTypes, SameHost
<1>5. Counted(p)'
  <2>1. Complains(e)' => Broken(p) \/ (Active(e) /\ ~Active(e)')
    <3>1. future[e] = "failed" => Lost(p)
      BY <1>0, FailedLost DEF HostInv
    <3>2. QED BY <1>0, <3>1 DEF Broken
  <2>2. Broken(p)' => Broken(p) \/ (Active(e) /\ ~Active(e)')
    BY <1>1, <1>3, <2>1 DEF Broken
  <2>3. QED BY <1>2, <1>4, <2>2 DEF HostInv, Counted, SameHost
<1>6. Exhausted(p)'
  BY <1>0, <1>1 DEF HostInv, Exhausted, SameHost
<1>7. InOrder(p)' /\ Cold(p)'
  BY DEF HostInv, InOrder, Cold, SameHost
<1>8. ASSUME NEW f \in ExecutorsOf(p) PROVE Place(f)' /\ Assignment(f)'
  <2>0. Place(f) /\ Assignment(f) /\ HostOf[f] = p
    BY DEF HostInv, ExecutorsOf
  <2>1. CASE f = e
    <3>1. Assignment(e)'
      BY <1>1, <2>0, <2>1 DEF Assignment, SameHost
    <3>2. QED BY <2>1, <3>1
  <2>2. CASE f # e
    <3>1. Place(f)'
      BY <1>1, <2>0, <2>2
    <3>2. Assignment(f)'
      BY <1>0, <1>1, <2>0, <2>2 DEF Assignment, SameHost
    <3>3. QED BY <3>1, <3>2
  <2>3. QED BY <2>1, <2>2
<1>9. Done(p) => Done(p)'
  BY <1>0, <1>1 DEF Done, SameHost
<1>10. QED BY <1>5, <1>6, <1>7, <1>8, <1>9 DEF Kept, HostInv

AllHosts == PrepTypes /\ \A p \in LoadHost : HostInv(p)
AllKept == PrepTypes' /\ \A p \in LoadHost : Kept(p)

\* A step of one executor and its preparator concerns one host only.
LEMMA OneHost ==
    ASSUME AllHosts, PrepTypes', NEW p \in LoadHost, Kept(p),
           \A q \in LoadHost \ {p} : SameHost(q),
           \A f \in Executor \ ExecutorsOf(p) : Same(f)
    PROVE  AllKept
<1>1. ASSUME NEW q \in LoadHost \ {p} PROVE Kept(q)
  <2>1. \A f \in ExecutorsOf(q) : Same(f)
    BY DEF ExecutorsOf
  <2>2. QED BY <2>1, OtherHost DEF AllHosts
<1>2. QED BY <1>1 DEF AllKept

\* The first message of a channel of an executor is its only one.
LEMMA OnlyMessage ==
    ASSUME AllHosts, NEW e \in Executor
    PROVE  /\ HostOf[e] \in LoadHost /\ e \in ExecutorsOf(HostOf[e])
           /\ Place(e) /\ Assignment(e) /\ HostInv(HostOf[e])
           /\ to_executor[e] # <<>> =>
                 /\ Head(to_executor[e]) \in Order
                 /\ to_executor[e] = <<Head(to_executor[e])>>
                 /\ Tail(to_executor[e]) = <<>>
                 /\ from_executor[e] = <<>>
                 /\ future[e] \in {"none", "dead"}
           /\ from_executor[e] # <<>> =>
                 /\ Head(from_executor[e]) \in Reply
                 /\ from_executor[e] = <<Head(from_executor[e])>>
                 /\ Tail(from_executor[e]) = <<>>
                 /\ to_executor[e] = <<>>
                 /\ future[e] \in {"none", "dead", "reported"}
           /\ to_executor[e] # <<>> \/ from_executor[e] # <<>> \/ future[e] # "none"
                 => processor[HostOf[e]] # 0
<1>1. HostOf[e] \in LoadHost /\ e \in ExecutorsOf(HostOf[e])
  BY PreparationAssumption DEF ExecutorsOf
<1>2. Place(e) /\ Assignment(e) /\ HostInv(HostOf[e]) /\ Cold(HostOf[e])
  BY <1>1 DEF AllHosts, HostInv
<1>3. ASSUME to_executor[e] # <<>>
      PROVE  /\ Head(to_executor[e]) \in Order
             /\ to_executor[e] = <<Head(to_executor[e])>>
             /\ Tail(to_executor[e]) = <<>>
  <2>1. PICK m \in Order : to_executor[e] = <<m>>
    BY <1>3 DEF AllHosts, PrepTypes
  <2>2. QED BY <2>1, SingleMessage
<1>4. ASSUME from_executor[e] # <<>>
      PROVE  /\ Head(from_executor[e]) \in Reply
             /\ from_executor[e] = <<Head(from_executor[e])>>
             /\ Tail(from_executor[e]) = <<>>
  <2>1. PICK m \in Reply : from_executor[e] = <<m>>
    BY <1>4 DEF AllHosts, PrepTypes
  <2>2. QED BY <2>1, SingleMessage
<1>5. QED BY <1>1, <1>2, <1>3, <1>4 DEF Place, Cold

\* The steps of an executor that finish no task.
LEMMA ExecutorStepKept ==
    ASSUME AllHosts, NEW e \in Executor,
           \/ StartTaskLoop(e) \/ StartTaskLoopFails(e) \/ DoTask(e)
           \/ DoNothing(e) \/ WakeupFindsDone(e) \/ WakeupFindsFailure(e)
           \/ ReturnExecutorFailure(e) \/ ExecutorDies(e) \/ TaskEnds(e, "failed")
    PROVE  AllKept
<1>0. /\ HostOf[e] \in LoadHost /\ e \in ExecutorsOf(HostOf[e])
      /\ Place(e) /\ Assignment(e) /\ HostInv(HostOf[e]) /\ PrepTypes
  BY OnlyMessage DEF AllHosts
<1>1. \A q \in LoadHost : SameHost(q)
  BY DEF StartTaskLoop, StartTaskLoopFails, DoTask, DoNothing, WakeupFindsDone,
         WakeupFindsFailure, ReturnExecutorFailure, ExecutorDies, TaskEnds,
         preparatorVars, executorVars, SameHost
<1>2. /\ \A f \in Executor \ {e} : Same(f)
      /\ to_executor' \in [Executor -> {<<>>} \cup {<<m>> : m \in Order}]
  <2>1. ASSUME NEW type, ExecutorTakes(e, type)
        PROVE  /\ to_executor' = [to_executor EXCEPT ![e] = <<>>]
               /\ to_executor' \in [Executor -> {<<>>} \cup {<<m>> : m \in Order}]
    BY <1>0, <2>1, OnlyMessage DEF ExecutorTakes, PrepTypes
  <2>2. QED BY <1>0, <2>1
     DEF StartTaskLoop, StartTaskLoopFails, DoTask, DoNothing, WakeupFindsDone,
         WakeupFindsFailure, ReturnExecutorFailure, ExecutorDies, TaskEnds,
         Return, executorVars, prepMail, PrepTypes, Same
<1>3. ASSUME PrepTypes', processor[HostOf[e]] # 0, Place(e)',
             \A t \in Task : Assigned(e, t)' =>
                Assigned(e, t) /\ (future'[e] = "done" <=> future[e] = "done"),
             NoMore(e)' => NoMore(e),
             Complains(e)' => \/ Complains(e) \/ future[e] = "failed"
                              \/ Active(e) /\ ~Active(e)',
             Active(e)' => /\ Active(e)
                           /\ \A t \in Task : Held(e, t) => Held(e, t)'
      PROVE  AllKept
  <2>1. Kept(HostOf[e])
    BY <1>0, <1>1, <1>2, <1>3, ExecutorMoves DEF ExecutorsOf
  <2>2. QED BY <1>0, <1>1, <1>2, <1>3, <2>1, OneHost
<1>4. CASE StartTaskLoop(e) \/ StartTaskLoopFails(e) \/ ReturnExecutorFailure(e)
  <2>1. PICK m \in {"ReadyForWork", "BenchmarkFailure"} :
          /\ to_executor[e] # <<>> /\ to_executor'[e] = <<>>
          /\ from_executor' = [from_executor EXCEPT ![e] = <<m>>]
          /\ Head(to_executor[e]).type # "BenchmarkFailure" \/ m = "BenchmarkFailure"
          /\ Head(to_executor[e]).type # "DoTask"
          /\ UNCHANGED executorVars
    <3>1. ASSUME NEW type, ExecutorTakes(e, type), NEW m \in Reply, Return(e, m)
          PROVE  /\ to_executor[e] # <<>> /\ to_executor'[e] = <<>>
                 /\ from_executor' = [from_executor EXCEPT ![e] = <<m>>]
                 /\ Head(to_executor[e]).type = type
      <4>1. /\ to_executor[e] # <<>> /\ Tail(to_executor[e]) = <<>>
            /\ from_executor[e] = <<>>
        BY <3>1, OnlyMessage DEF ExecutorTakes
      <4>2. QED BY <1>0, <3>1, <4>1, SingleMessage DEF ExecutorTakes, Return, PrepTypes
    <3>2. CASE StartTaskLoop(e)
      BY <3>1, <3>2 DEF StartTaskLoop, Reply
    <3>3. CASE StartTaskLoopFails(e) \/ ReturnExecutorFailure(e)
      BY <3>1, <3>3 DEF StartTaskLoopFails, ReturnExecutorFailure, Reply
    <3>4. QED BY <1>4, <3>2, <3>3
  <2>2. /\ to_executor[e] = <<Head(to_executor[e])>> /\ processor[HostOf[e]] # 0
        /\ future[e] \in {"none", "dead"} /\ from_executor[e] = <<>>
    BY <2>1, OnlyMessage
  <2>3. /\ from_executor' \in [Executor -> {<<>>} \cup {<<n>> : n \in Reply}]
        /\ from_executor'[e] = <<m>>
    BY <1>0, <2>1 DEF PrepTypes, Reply
  <2>4. PrepTypes'
    BY <1>0, <1>2, <1>4, <2>1, <2>3
       DEF PrepTypes, StartTaskLoop, StartTaskLoopFails, ReturnExecutorFailure,
           preparatorVars, executorVars
  <2>5. Place(e)'
    BY <1>0, <2>1, <2>2, <2>3 DEF Place, executorVars
  <2>6. Head(<<m>>) = m /\ <<m>> # <<"WorkerIdle">>
    BY SingleMessage
  <2>7. \A t : ~Ordered(e, t)' /\ ~Ordered(e, t)
    BY <2>1, <2>2, SingleMessage DEF Ordered, Msg
  <2>8. Active(e)' => Active(e)
    BY <2>1, <2>2, <2>3, <2>6 DEF Active, executorVars
  <2>9. Complains(e)' => Complains(e) \/ (Active(e) /\ ~Active(e)')
    BY <2>1, <2>2, <2>3, <2>6 DEF Complains, Active, executorVars
  <2>10. QED BY <1>3, <2>1, <2>2, <2>3, <2>4, <2>5, <2>6, <2>7, <2>8, <2>9
             DEF Assigned, Held, NoMore, executorVars
<1>5. CASE DoTask(e)
  <2>. DEFINE t0 == Head(to_executor[e]).task
  <2>1. /\ to_executor[e] # <<>> /\ to_executor'[e] = <<>>
        /\ Head(to_executor[e]).type = "DoTask" /\ future[e] = "none"
        /\ t0 # NoTask
        /\ future' = [future EXCEPT ![e] = "running"]
        /\ task' = [task EXCEPT ![e] = t0]
        /\ UNCHANGED <<finished, from_executor>>
    BY <1>0, <1>5, OnlyMessage DEF DoTask, ExecutorTakes, PrepTypes
  <2>2. /\ to_executor[e] = <<Head(to_executor[e])>> /\ processor[HostOf[e]] # 0
        /\ from_executor[e] = <<>> /\ Head(to_executor[e]) \in Order
    BY <2>1, OnlyMessage
  <2>3. t0 \in Task /\ Head(to_executor[e]) = Msg("DoTask", t0)
    BY <2>1, <2>2 DEF Order, Msg
  <2>. HIDE DEF t0
  <2>4. PrepTypes'
    BY <1>0, <1>2, <1>5, <2>1, <2>3 DEF PrepTypes, DoTask, preparatorVars
  <2>5. future'[e] = "running" /\ task'[e] = t0
    BY <1>0, <2>1 DEF PrepTypes
  <2>6. Place(e)'
    BY <2>1, <2>2, <2>5 DEF Place
  <2>7. Ordered(e, t0) /\ \A t : Ordered(e, t) => t = t0
    BY <2>2, <2>3, SingleMessage DEF Ordered, Msg
  <2>8. \A t : ~Ordered(e, t)'
    BY <2>1, SingleMessage DEF Ordered
  <2>9. Active(e)
    BY <2>1 DEF Active
  <2>10. ~Complains(e)'
    BY <2>1, <2>2, SingleMessage DEF Complains
  <2>11. QED BY <1>3, <2>1, <2>2, <2>4, <2>5, <2>6, <2>7, <2>8, <2>9, <2>10
             DEF Assigned, Held, NoMore
<1>6. CASE DoNothing(e)
  <2>1. /\ to_executor[e] # <<>> /\ to_executor'[e] = <<>>
        /\ Head(to_executor[e]).type = "DoTask" /\ future[e] = "none"
        /\ Head(to_executor[e]).task = NoTask
        /\ from_executor' = [from_executor EXCEPT ![e] = <<"WorkerIdle">>]
        /\ UNCHANGED executorVars
    BY <1>0, <1>6, OnlyMessage, SingleMessage
       DEF DoNothing, ExecutorTakes, Return, PrepTypes
  <2>2. /\ to_executor[e] = <<Head(to_executor[e])>> /\ processor[HostOf[e]] # 0
        /\ from_executor[e] = <<>> /\ Head(to_executor[e]) \in Order
    BY <2>1, OnlyMessage
  <2>3. Ordered(e, NoTask)
    BY <2>1, <2>2 DEF Ordered, Order, Msg
  <2>4. /\ from_executor' \in [Executor -> {<<>>} \cup {<<n>> : n \in Reply}]
        /\ from_executor'[e] = <<"WorkerIdle">>
    BY <1>0, <2>1 DEF PrepTypes, Reply
  <2>5. PrepTypes'
    BY <1>0, <1>2, <1>6, <2>1, <2>4
       DEF PrepTypes, DoNothing, preparatorVars, executorVars
  <2>6. Place(e)'
    BY <1>0, <2>1, <2>4 DEF Place, executorVars
  <2>7. \A t : ~Ordered(e, t)' /\ (Ordered(e, t) => t = NoTask)
    BY <2>1, <2>3, SingleMessage DEF Ordered, Msg
  <2>8. Active(e)
    BY <2>1 DEF Active
  <2>9. ~Complains(e)'
    BY <2>1, <2>4, SingleMessage DEF Complains
  <2>10. QED BY <1>3, <2>1, <2>2, <2>3, <2>5, <2>6, <2>7, <2>8, <2>9, TaskShape
             DEF Assigned, Held, NoMore, executorVars
<1>7. CASE WakeupFindsDone(e)
  <2>1. /\ future[e] = "done" /\ from_executor[e] = <<>> /\ to_executor[e] = <<>>
        /\ future' = [future EXCEPT ![e] = "none"]
        /\ task' = [task EXCEPT ![e] = NoTask]
        /\ from_executor' = [from_executor EXCEPT ![e] = <<"ReadyForWork">>]
        /\ UNCHANGED <<finished, to_executor>>
    BY <1>0, <1>7, SingleMessage DEF WakeupFindsDone, Return, Place, PrepTypes
  <2>2. /\ from_executor' \in [Executor -> {<<>>} \cup {<<n>> : n \in Reply}]
        /\ from_executor'[e] = <<"ReadyForWork">>
        /\ future'[e] = "none" /\ task'[e] = NoTask
    BY <1>0, <2>1 DEF PrepTypes, Reply
  <2>3. PrepTypes'
    BY <1>0, <1>2, <1>7, <2>1, <2>2 DEF PrepTypes, WakeupFindsDone, preparatorVars
  <2>4. Place(e)'
    BY <2>1, <2>2 DEF Place
  <2>5. \A t : ~Ordered(e, t)' /\ ~Ordered(e, t)
    BY <2>1, SingleMessage DEF Ordered
  <2>6. ~NoMore(e)' /\ ~Complains(e)'
    BY <2>1, <2>2, <2>5, SingleMessage DEF NoMore, Complains
  <2>7. processor[HostOf[e]] # 0 /\ Active(e)
    BY <2>1, OnlyMessage DEF Active
  <2>8. QED BY <1>3, <2>1, <2>2, <2>3, <2>4, <2>5, <2>6, <2>7, TaskShape
            DEF Assigned, Held
<1>8. CASE WakeupFindsFailure(e)
  <2>1. /\ future[e] = "failed" /\ from_executor[e] = <<>> /\ to_executor[e] = <<>>
        /\ future' = [future EXCEPT ![e] = "reported"]
        /\ from_executor' = [from_executor EXCEPT ![e] = <<"BenchmarkFailure">>]
        /\ UNCHANGED <<task, finished, to_executor>>
    BY <1>0, <1>8, SingleMessage DEF WakeupFindsFailure, Return, Place, PrepTypes
  <2>2. /\ from_executor' \in [Executor -> {<<>>} \cup {<<n>> : n \in Reply}]
        /\ from_executor'[e] = <<"BenchmarkFailure">>
        /\ future'[e] = "reported"
    BY <1>0, <2>1 DEF PrepTypes, Reply
  <2>3. PrepTypes'
    BY <1>0, <1>2, <1>8, <2>1, <2>2 DEF PrepTypes, WakeupFindsFailure, preparatorVars
  <2>4. Place(e)'
    BY <1>0, <2>1, <2>2 DEF Place
  <2>5. \A t : ~Ordered(e, t)' /\ ~Ordered(e, t)
    BY <2>1, SingleMessage DEF Ordered
  <2>6. ~NoMore(e)' /\ ~Active(e)'
    BY <2>1, <2>2, <2>5, SingleMessage DEF NoMore, Active
  <2>7. processor[HostOf[e]] # 0
    BY <2>1, OnlyMessage
  <2>8. QED BY <1>3, <2>1, <2>2, <2>3, <2>4, <2>5, <2>6, <2>7 DEF Assigned
<1>9. CASE ExecutorDies(e)
  <2>1. /\ future' = [future EXCEPT ![e] = "dead"]
        /\ task' = [task EXCEPT ![e] = NoTask]
        /\ UNCHANGED <<finished, to_executor, from_executor>>
        /\ p_status[HostOf[e]] \in {"running", "complete"}
    BY <1>9 DEF ExecutorDies, prepMail
  <2>2. future'[e] = "dead" /\ task'[e] = NoTask
    BY <1>0, <2>1 DEF PrepTypes
  <2>3. PrepTypes'
    BY <1>0, <1>2, <1>9, <2>1 DEF PrepTypes, ExecutorDies, preparatorVars
  <2>4. Place(e)'
    BY <1>0, <2>1, <2>2 DEF Place
  <2>5. processor[HostOf[e]] # 0
    BY <1>0, <2>1 DEF HostInv, Cold
  <2>6. /\ \A t : Ordered(e, t)' <=> Ordered(e, t)
        /\ NoMore(e)' => NoMore(e)
        /\ Complains(e)' => Complains(e)
    BY <2>1 DEF NoMore, Ordered, Complains
  <2>7. \A t \in Task : Assigned(e, t)' => Ordered(e, t)
    BY <2>2, <2>6, TaskShape DEF Assigned
  <2>8. \A t : Ordered(e, t) => future[e] # "done"
    BY <1>0, SingleMessage DEF Place, Ordered
  <2>9. Active(e)' => /\ Active(e)
                      /\ \A t \in Task : Held(e, t) => Held(e, t)'
    <3>1. ASSUME Active(e)' PROVE Active(e) /\ future[e] # "running"
      BY <1>0, <2>1, <2>2, <3>1 DEF Active, Place
    <3>2. QED BY <2>6, <3>1 DEF Held
  <2>10. QED BY <1>3, <2>2, <2>3, <2>4, <2>5, <2>6, <2>7, <2>8, <2>9 DEF Assigned
<1>10. CASE TaskEnds(e, "failed")
  <2>1. /\ future' = [future EXCEPT ![e] = "failed"] /\ future[e] = "running"
        /\ UNCHANGED <<task, finished, to_executor, from_executor>>
    BY <1>10 DEF TaskEnds, prepMail
  <2>2. /\ future'[e] = "failed" /\ to_executor[e] = <<>> /\ from_executor[e] = <<>>
        /\ processor[HostOf[e]] # 0
    BY <1>0, <2>1, OnlyMessage DEF PrepTypes, Place
  <2>3. PrepTypes'
    BY <1>0, <1>2, <1>10, <2>1 DEF PrepTypes, TaskEnds, preparatorVars
  <2>4. Place(e)'
    BY <1>0, <2>1, <2>2 DEF Place
  <2>5. /\ \A t : Ordered(e, t)' <=> Ordered(e, t)
        /\ NoMore(e)' => NoMore(e)
        /\ Complains(e)' => Complains(e)
    BY <2>1 DEF NoMore, Ordered, Complains
  <2>6. ~Active(e)'
    BY <2>1, <2>2 DEF Active
  <2>7. QED BY <1>3, <2>1, <2>2, <2>3, <2>4, <2>5, <2>6 DEF Assigned
<1>11. QED BY <1>4, <1>5, <1>6, <1>7, <1>8, <1>9, <1>10

\* The thread of an executor finishes its task.
LEMMA TaskDoneKept ==
    ASSUME AllHosts, NEW e \in Executor, TaskEnds(e, "done")
    PROVE  AllKept
<1>. DEFINE p == HostOf[e]  t0 == task[e]
<1>0. /\ p \in LoadHost /\ e \in ExecutorsOf(p)
      /\ Place(e) /\ Assignment(e) /\ HostInv(p) /\ PrepTypes
  BY OnlyMessage DEF AllHosts
<1>1. /\ future[e] = "running" /\ future' = [future EXCEPT ![e] = "done"]
      /\ finished' = [finished EXCEPT ![p] = @ \cup {t0}]
      /\ UNCHANGED <<preparatorVars, task, prepMail>>
  BY DEF TaskEnds
<1>2. /\ future'[e] = "done" /\ to_executor[e] = <<>> /\ from_executor[e] = <<>>
      /\ t0 \in Task /\ processor[p] # 0
  BY <1>0, <1>1, OnlyMessage DEF PrepTypes, Place
<1>3. /\ t0[1] = processor[p] /\ t0[2] > tasks[p]
      /\ \A f \in ExecutorsOf(p) \ {e} : ~Assigned(f, t0)
  BY <1>0, <1>2 DEF Assignment, Assigned
<1>4. /\ PrepTypes'
      /\ finished'[p] = finished[p] \cup {t0}
      /\ \A q \in LoadHost \ {p} : SameHost(q)
      /\ \A f \in Executor \ {e} : Same(f)
      /\ UNCHANGED <<processor, tasks, idle, p_status, task, to_executor, from_executor>>
  BY <1>0, <1>1, <1>2 DEF PrepTypes, preparatorVars, prepMail, SameHost, Same
<1>5. ASSUME NEW f \in ExecutorsOf(p) \ {e}
      PROVE  /\ f \in Executor /\ HostOf[f] = p /\ future'[f] = future[f]
             /\ Place(f) /\ Assignment(f)
             /\ Active(f)' <=> Active(f)
             /\ Place(f)' <=> Place(f)
             /\ NoMore(f)' <=> NoMore(f)
             /\ Complains(f)' <=> Complains(f)
             /\ \A t : /\ Assigned(f, t)' <=> Assigned(f, t)
                       /\ Held(f, t)' <=> Held(f, t)
  <2>1. f \in Executor /\ HostOf[f] = p /\ Same(f) /\ Place(f) /\ Assignment(f)
    BY <1>0, <1>4 DEF ExecutorsOf, HostInv
  <2>2. QED BY <2>1, SameExecutor DEF Same
<1>6. /\ \A t : ~Ordered(e, t)' /\ ~Ordered(e, t)
      /\ NoMore(e)' <=> NoMore(e)
      /\ Complains(e)' <=> Complains(e)
      /\ Active(e) /\ Active(e)'
  BY <1>1, <1>2, <1>4, SingleMessage DEF Ordered, NoMore, Complains, Active
<1>7. Place(e)' /\ Assignment(e)'
  <2>1. Place(e)'
    BY <1>0, <1>1, <1>2, <1>4 DEF Place
  <2>2. \A t : Assigned(e, t)' => t = t0
    BY <1>4, <1>6 DEF Assigned
  <2>3. QED BY <1>2, <1>3, <1>4, <1>5, <2>1, <2>2 DEF Assignment
<1>8. ASSUME NEW f \in ExecutorsOf(p) \ {e} PROVE Place(f)' /\ Assignment(f)'
  <2>1. Assigned(e, t0)' /\ \A t : Assigned(e, t)' <=> Assigned(e, t)
    BY <1>4, <1>6 DEF Assigned
  <2>2. ASSUME NEW t \in Task, Assigned(f, t)
        PROVE  t # t0
    BY <1>3, <2>2
  <2>3. \A g \in ExecutorsOf(p) \ {f} : \A t : Assigned(g, t)' <=> Assigned(g, t)
    BY <1>5, <2>1
  <2>4. QED BY <1>4, <1>5, <2>2, <2>3 DEF Assignment
<1>9. Counted(p)'
  <2>1. Quiet(p)' = Quiet(p)
    BY <1>5, <1>6 DEF Quiet
  <2>2. Lost(p)' => Lost(p)
    <3>. SUFFICES ASSUME Lost(p)' PROVE Lost(p)
      OBVIOUS
    <3>1. PICK t \in Task : /\ t[1] = processor[p] /\ t[2] > tasks[p]
                            /\ t \notin finished'[p]
                            /\ \A f \in ExecutorsOf(p) : ~Held(f, t)'
      BY <1>4 DEF Lost
    <3>2. t \notin finished[p] /\ t # t0
      BY <1>4, <3>1
    <3>3. ~Held(e, t)
      BY <1>6, <3>2 DEF Held
    <3>4. \A f \in ExecutorsOf(p) : ~Held(f, t)
      BY <1>5, <3>1, <3>3
    <3>5. QED BY <3>1, <3>2, <3>4 DEF Lost
  <2>3. Broken(p)' => Broken(p)
    BY <1>5, <1>6, <2>2 DEF Broken
  <2>4. QED BY <1>0, <1>4, <2>1, <2>3 DEF HostInv, Counted
<1>10. Exhausted(p)'
  BY <1>0, <1>4, <1>5, <1>6 DEF HostInv, Exhausted
<1>11. InOrder(p)'
  <2>1. /\ processor[p] \in Nat
        /\ \A t \in Task : t[1] \in Nat
    BY <1>0, TaskShape DEF PrepTypes
  <2>2. QED BY <1>0, <1>3, <1>4, <2>1 DEF HostInv, InOrder
<1>12. Cold(p)' /\ ~Done(p)
  BY <1>0, <1>2, <1>4, <1>6 DEF Cold, Done
<1>13. Kept(p)
  BY <1>7, <1>8, <1>9, <1>10, <1>11, <1>12 DEF Kept, HostInv
<1>14. QED BY <1>0, <1>4, <1>13, OneHost DEF ExecutorsOf

\* A preparator takes the message of an executor.
LEMMA AnswerTaken ==
    ASSUME AllHosts, NEW e \in Executor, NEW m, ExecutorAnswers(e, m)
    PROVE  /\ from_executor[e] = <<m>> /\ m \in Reply
           /\ from_executor'[e] = <<>> /\ to_executor[e] = <<>>
           /\ from_executor' \in [Executor -> {<<>>} \cup {<<n>> : n \in Reply}]
           /\ \A f \in Executor \ {e} : from_executor'[f] = from_executor[f]
           /\ processor[HostOf[e]] # 0 /\ p_status[HostOf[e]] # "gone"
           /\ future[e] \in {"none", "dead", "reported"}
           /\ m # "BenchmarkFailure" => Active(e) /\ future[e] \in {"none", "dead"}
                                         /\ task[e] = NoTask
<1>1. /\ from_executor[e] # <<>> /\ Head(from_executor[e]) = m
      /\ from_executor' = [from_executor EXCEPT ![e] = <<>>]
      /\ p_status[HostOf[e]] # "gone"
  BY OnlyMessage DEF ExecutorAnswers
<1>2. /\ from_executor[e] = <<m>> /\ m \in Reply /\ to_executor[e] = <<>>
      /\ future[e] \in {"none", "dead", "reported"} /\ Place(e)
      /\ processor[HostOf[e]] # 0
  BY <1>1, OnlyMessage
<1>3. /\ from_executor' \in [Executor -> {<<>>} \cup {<<n>> : n \in Reply}]
      /\ from_executor'[e] = <<>>
      /\ \A f \in Executor \ {e} : from_executor'[f] = from_executor[f]
  BY <1>1 DEF AllHosts, PrepTypes
<1>4. m # "BenchmarkFailure" => future[e] # "reported"
  BY <1>2, SingleMessage DEF Place
<1>5. QED BY <1>1, <1>2, <1>3, <1>4, SingleMessage DEF Place, Active

\* A preparator forwards a failure of an executor.
LEMMA ForwardFailureKept ==
    ASSUME AllHosts, NEW e \in Executor, ForwardExecutorFailure(e)
    PROVE  AllKept
<1>0. /\ HostOf[e] \in LoadHost /\ e \in ExecutorsOf(HostOf[e])
      /\ Place(e) /\ Assignment(e) /\ HostInv(HostOf[e]) /\ PrepTypes
  BY OnlyMessage DEF AllHosts
<1>1. /\ from_executor[e] = <<"BenchmarkFailure">> /\ from_executor'[e] = <<>>
      /\ to_executor[e] = <<>> /\ processor[HostOf[e]] # 0
      /\ from_executor' \in [Executor -> {<<>>} \cup {<<n>> : n \in Reply}]
      /\ \A f \in Executor \ {e} : from_executor'[f] = from_executor[f]
      /\ UNCHANGED <<preparatorVars, executorVars, to_executor>>
  BY AnswerTaken DEF ForwardExecutorFailure
<1>2. /\ PrepTypes' /\ \A q \in LoadHost : SameHost(q)
      /\ \A f \in Executor \ {e} : Same(f)
  BY <1>0, <1>1 DEF PrepTypes, preparatorVars, executorVars, SameHost, Same
<1>3. Place(e)'
  BY <1>0, <1>1 DEF Place, executorVars
<1>4. /\ \A t : Ordered(e, t)' <=> Ordered(e, t)
      /\ NoMore(e)' => NoMore(e)
      /\ ~Complains(e)'
      /\ Active(e)' <=> Active(e)
  BY <1>1, SingleMessage DEF NoMore, Ordered, Complains, Active, executorVars
<1>5. Kept(HostOf[e])
  BY <1>0, <1>1, <1>2, <1>3, <1>4, ExecutorMoves
     DEF ExecutorsOf, Assigned, Held, executorVars
<1>6. QED BY <1>0, <1>2, <1>5, OneHost DEF ExecutorsOf

\* A preparator hands the last of its tasks out, or none when it has none.
LEMMA ReadyForWorkKept ==
    ASSUME AllHosts, NEW e \in Executor, ReadyForWork(e)
    PROVE  AllKept
<1>. DEFINE p == HostOf[e]
<1>. PICK t0 : t0 = IF tasks[p] > 0 THEN <<processor[p], tasks[p]>> ELSE NoTask
  OBVIOUS
<1>0. /\ p \in LoadHost /\ e \in ExecutorsOf(p)
      /\ Place(e) /\ Assignment(e) /\ HostInv(p) /\ PrepTypes
  BY OnlyMessage DEF AllHosts
<1>1. /\ from_executor[e] = <<"ReadyForWork">> /\ from_executor'[e] = <<>>
      /\ to_executor[e] = <<>> /\ processor[p] # 0
      /\ from_executor' \in [Executor -> {<<>>} \cup {<<n>> : n \in Reply}]
      /\ \A f \in Executor \ {e} : from_executor'[f] = from_executor[f]
      /\ Active(e) /\ future[e] \in {"none", "dead"} /\ task[e] = NoTask
      /\ UNCHANGED <<p_status, processor, idle, executorVars>>
  BY AnswerTaken DEF ReadyForWork
<1>2. /\ to_executor' = [to_executor EXCEPT ![e] = <<Msg("DoTask", t0)>>]
      /\ IF tasks[p] > 0 THEN tasks' = [tasks EXCEPT ![p] = @ - 1]
                         ELSE tasks' = tasks
  BY <1>0, <1>1, SingleMessage DEF ReadyForWork, PrepTypes
<1>3. /\ tasks[p] \in Nat /\ processor[p] \in 1..Len(TaskCount)
      /\ tasks[p] > 0 => t0 \in Task /\ t0[1] = processor[p] /\ t0[2] = tasks[p]
      /\ t0 \in Task \cup {NoTask}
  <2>1. tasks[p] \in Nat /\ processor[p] \in 1..Len(TaskCount)
    BY <1>0, <1>1, TaskShape DEF PrepTypes
  <2>2. tasks[p] <= TaskCount[processor[p]] /\ TaskCount[processor[p]] \in Nat
    BY <1>0, <1>1, <2>1, TaskShape DEF HostInv, InOrder
  <2>3. tasks[p] > 0 => tasks[p] \in 1..TaskCount[processor[p]]
    BY <2>1, <2>2
  <2>4. QED BY <2>1, <2>3, TaskShape
<1>4. Msg("DoTask", t0) \in Order
  BY <1>3 DEF Msg, Order
<1>5. /\ PrepTypes' /\ \A q \in LoadHost \ {p} : SameHost(q)
      /\ \A f \in Executor \ {e} : Same(f)
      /\ to_executor'[e] = <<Msg("DoTask", t0)>>
  <2>1. /\ to_executor' \in [Executor -> {<<>>} \cup {<<m>> : m \in Order}]
    BY <1>0, <1>2, <1>4 DEF PrepTypes
  <2>2. tasks' \in [LoadHost -> Nat]
    <3>1. tasks[p] > 0 => tasks[p] - 1 \in Nat
      BY <1>3
    <3>2. QED BY <1>0, <1>2, <3>1 DEF PrepTypes
  <2>3. PrepTypes'
    BY <1>0, <1>1, <2>1, <2>2 DEF PrepTypes, executorVars
  <2>4. QED BY <1>0, <1>1, <1>2, <2>3 DEF PrepTypes, executorVars, SameHost, Same
<1>6. Place(e)'
  BY <1>0, <1>1, <1>5 DEF Place, executorVars
<1>7. /\ \A t : Ordered(e, t)' <=> t = t0
      /\ \A t : ~Ordered(e, t)
      /\ Active(e)' /\ ~Complains(e)' /\ ~Complains(e)
      /\ NoMore(e)' => t0 = NoTask
  <2>1. \A t : Ordered(e, t)' <=> t = t0
    BY <1>5, SingleMessage DEF Ordered, Msg
  <2>2. \A t : ~Ordered(e, t)
    BY <1>1, SingleMessage DEF Ordered
  <2>3. Active(e)' /\ ~Complains(e)' /\ ~Complains(e)
    BY <1>1, <1>5, SingleMessage DEF Active, Complains, Msg
  <2>4. NoMore(e)' => t0 = NoTask
    BY <1>1, <2>1, SingleMessage DEF NoMore
  <2>5. QED BY <2>1, <2>2, <2>3, <2>4
<1>8. CASE tasks[p] = 0
  <2>1. SameHost(p) /\ t0 = NoTask
    BY <1>1, <1>2, <1>8 DEF SameHost, executorVars
  <2>2. \A t \in Task : ~Assigned(e, t)' /\ ~Held(e, t)
    BY <1>1, <1>7, <2>1, TaskShape DEF Assigned, Held, executorVars
  <2>3. Kept(p)
    BY <1>0, <1>1, <1>5, <1>6, <1>7, <1>8, <2>1, <2>2, ExecutorMoves DEF ExecutorsOf
  <2>4. QED BY <1>0, <1>5, <2>3, OneHost DEF ExecutorsOf
<1>9. CASE tasks[p] > 0
  <2>0. /\ tasks'[p] = tasks[p] - 1
        /\ t0 \in Task /\ t0[1] = processor[p] /\ t0[2] = tasks[p]
        /\ \A t \in Task : /\ t[1] \in Nat /\ t[2] \in Nat
                           /\ t[1] = processor[p] /\ t[2] = tasks[p] => t = t0
    <3>1. t0 = <<processor[p], tasks[p]>>
      BY <1>9
    <3>2. \A t \in Task : t = <<t[1], t[2]>> /\ t[1] \in Nat /\ t[2] \in Nat
      BY TaskShape
    <3>3. QED BY <1>0, <1>2, <1>3, <1>9, <3>1, <3>2 DEF PrepTypes
  <2>1. ASSUME NEW f \in ExecutorsOf(p) \ {e}
        PROVE  /\ f \in Executor /\ HostOf[f] = p /\ future'[f] = future[f]
               /\ Place(f) /\ Assignment(f)
               /\ Active(f)' <=> Active(f)
               /\ Place(f)' <=> Place(f)
               /\ NoMore(f)' <=> NoMore(f)
               /\ Complains(f)' <=> Complains(f)
               /\ \A t : /\ Assigned(f, t)' <=> Assigned(f, t)
                         /\ Held(f, t)' <=> Held(f, t)
    <3>1. f \in Executor /\ HostOf[f] = p /\ Same(f) /\ Place(f) /\ Assignment(f)
      BY <1>0, <1>5 DEF ExecutorsOf, HostInv
    <3>2. QED BY <3>1, SameExecutor DEF Same
  <2>2. ~Held(e, t0) /\ Held(e, t0)' /\ t0 \notin finished[p]
    BY <1>0, <1>1, <1>3, <1>7, <2>0 DEF Held, HostInv, InOrder
  <2>3. \A t \in Task : Assigned(e, t)' => t = t0
    BY <1>1, <1>7, TaskShape DEF Assigned, executorVars
  <2>4. ASSUME NEW f \in ExecutorsOf(p) \ {e}, NEW t \in Task, Assigned(f, t)
        PROVE  t[2] > tasks[p] /\ t # t0
    BY <1>3, <2>0, <2>1, <2>4 DEF Assignment
  <2>5. Assignment(e)'
    <3>1. future'[e] # "done" /\ t0 \notin finished'[p]
      BY <1>1, <2>2 DEF executorVars
    <3>2. tasks[p] > tasks[p] - 1 /\ processor'[p] = processor[p]
      BY <1>1, <1>3
    <3>3. \A f \in ExecutorsOf(p) \ {e} : ~Assigned(f, t0)'
      BY <2>0, <2>1, <2>4
    <3>4. QED BY <2>0, <2>3, <3>1, <3>2, <3>3 DEF Assignment
  <2>6. ASSUME NEW f \in ExecutorsOf(p) \ {e} PROVE Place(f)' /\ Assignment(f)'
    <3>1. ASSUME NEW t \in Task, Assigned(f, t)
          PROVE  /\ t[1] = processor'[p] /\ t[2] > tasks'[p]
                 /\ t \in finished'[p] <=> future'[f] = "done"
                 /\ \A g \in ExecutorsOf(p) \ {f} : ~Assigned(g, t)'
      <4>1. /\ t[1] = processor[p] /\ t[2] > tasks[p]
            /\ t \in finished[p] <=> future[f] = "done"
            /\ \A g \in ExecutorsOf(p) \ {f} : ~Assigned(g, t)
        BY <2>1, <3>1 DEF Assignment
      <4>2. t # t0
        BY <2>4, <3>1
      <4>3. \A g \in ExecutorsOf(p) \ {f} : ~Assigned(g, t)'
        BY <2>1, <2>3, <4>1, <4>2
      <4>4. t[2] > tasks'[p]
        BY <1>3, <2>0, <4>1
      <4>5. QED BY <1>1, <2>1, <4>1, <4>3, <4>4 DEF executorVars
    <3>2. QED BY <2>1, <3>1 DEF Assignment
  <2>7. Counted(p)'
    <3>1. Quiet(p)' = Quiet(p)
      BY <1>1, <1>7, <2>1 DEF Quiet
    <3>2. Lost(p)' => Lost(p)
      <4>. SUFFICES ASSUME Lost(p)' PROVE Lost(p)
        OBVIOUS
      <4>1. PICK t \in Task : /\ t[1] = processor[p] /\ t[2] > tasks[p] - 1
                              /\ t \notin finished[p]
                              /\ \A f \in ExecutorsOf(p) : ~Held(f, t)'
        BY <1>1, <2>0 DEF Lost, executorVars
      <4>2. t # t0
        BY <1>0, <2>2, <4>1
      <4>3. t[2] > tasks[p]
        BY <1>3, <2>0, <4>1, <4>2
      <4>4. ~Held(e, t)
        BY <1>1, <1>7 DEF Held
      <4>5. \A f \in ExecutorsOf(p) : ~Held(f, t)
        BY <2>1, <4>1, <4>4
      <4>6. QED BY <4>1, <4>3, <4>5 DEF Lost
    <3>3. Broken(p)' => Broken(p)
      BY <1>7, <2>1, <3>2 DEF Broken
    <3>4. QED BY <1>0, <1>1, <3>1, <3>3 DEF HostInv, Counted
  <2>8. Exhausted(p)'
    BY <1>0, <1>1, <1>7, <1>9, <2>0, <2>1, TaskShape DEF HostInv, Exhausted
  <2>9. InOrder(p)'
    <3>1. processor[p] # 0 => TaskCount[processor[p]] \in Nat
      BY <1>3, TaskShape
    <3>2. QED BY <1>0, <1>1, <1>3, <2>0, <3>1 DEF HostInv, InOrder, executorVars
  <2>10. Cold(p)' /\ ~Done(p)
    BY <1>0, <1>1 DEF Cold, Done
  <2>11. Kept(p)
    BY <1>6, <2>5, <2>6, <2>7, <2>8, <2>9, <2>10 DEF Kept, HostInv
  <2>12. QED BY <1>0, <1>5, <2>11, OneHost DEF ExecutorsOf
<1>10. QED BY <1>3, <1>8, <1>9

\* An executor that is not the last one is counted idle.
LEMMA WorkerIdleKept ==
    ASSUME AllHosts, NEW e \in Executor, WorkerIdle(e)
    PROVE  AllKept
<1>. DEFINE p == HostOf[e]
<1>0. /\ p \in LoadHost /\ e \in ExecutorsOf(p)
      /\ Place(e) /\ Assignment(e) /\ HostInv(p) /\ PrepTypes
  BY OnlyMessage DEF AllHosts
<1>1. /\ from_executor[e] = <<"WorkerIdle">> /\ from_executor'[e] = <<>>
      /\ to_executor[e] = <<>> /\ processor[p] # 0 /\ p_status[p] # "gone"
      /\ from_executor' \in [Executor -> {<<>>} \cup {<<n>> : n \in Reply}]
      /\ \A f \in Executor \ {e} : from_executor'[f] = from_executor[f]
      /\ Active(e) /\ future[e] \in {"none", "dead"} /\ task[e] = NoTask
      /\ UNCHANGED <<p_status, processor, tasks, executorVars, to_executor>>
      /\ idle' = [idle EXCEPT ![p] = @ + 1]
  BY AnswerTaken DEF WorkerIdle
<1>2. /\ PrepTypes' /\ \A q \in LoadHost \ {p} : SameHost(q)
      /\ \A f \in Executor \ {e} : Same(f)
      /\ idle'[p] = idle[p] + 1 /\ idle[p] \in Nat
  BY <1>0, <1>1 DEF PrepTypes, executorVars, SameHost, Same
<1>3. ASSUME NEW f \in ExecutorsOf(p) \ {e}
      PROVE  /\ f \in Executor /\ HostOf[f] = p /\ future'[f] = future[f]
             /\ Place(f) /\ Assignment(f)
             /\ Active(f)' <=> Active(f)
             /\ Place(f)' <=> Place(f)
             /\ NoMore(f)' <=> NoMore(f)
             /\ Complains(f)' <=> Complains(f)
             /\ \A t : /\ Assigned(f, t)' <=> Assigned(f, t)
                       /\ Held(f, t)' <=> Held(f, t)
  <2>1. f \in Executor /\ HostOf[f] = p /\ Same(f) /\ Place(f) /\ Assignment(f)
    BY <1>0, <1>2 DEF ExecutorsOf, HostInv
  <2>2. QED BY <2>1, SameExecutor DEF Same
<1>4. /\ \A t : ~Ordered(e, t)' /\ ~Ordered(e, t)
      /\ ~Active(e)' /\ ~Complains(e)' /\ NoMore(e)
  <2>1. \A t : ~Ordered(e, t)' /\ ~Ordered(e, t)
    BY <1>1, SingleMessage DEF Ordered
  <2>2. QED BY <1>1, <2>1, SingleMessage DEF Active, Complains, NoMore, executorVars
<1>5. \A t \in Task : /\ ~Assigned(e, t)' /\ ~Assigned(e, t)
                      /\ Held(e, t)' <=> Held(e, t)
  BY <1>1, <1>4, TaskShape DEF Assigned, Held, executorVars
<1>6. tasks[p] = 0
  BY <1>0, <1>4 DEF HostInv, Exhausted
<1>7. ASSUME NEW f \in ExecutorsOf(p) PROVE Place(f)' /\ Assignment(f)'
  <2>1. CASE f = e
    <3>1. Place(e)'
      BY <1>0, <1>1 DEF Place, executorVars
    <3>2. Assignment(e)'
      BY <1>5 DEF Assignment
    <3>3. QED BY <2>1, <3>1, <3>2
  <2>2. CASE f # e
    <3>1. \A g \in ExecutorsOf(p) : \A t \in Task : Assigned(g, t)' <=> Assigned(g, t)
      BY <1>3, <1>5
    <3>2. QED BY <1>1, <1>3, <2>2, <3>1 DEF Assignment, executorVars
  <2>3. QED BY <2>1, <2>2
<1>8. Counted(p)'
  <2>1. /\ Cardinality(Quiet(p)) \in Nat
        /\ Cardinality(Quiet(p)') = Cardinality(Quiet(p)) + 1
    BY <1>0, <1>1, <1>3, <1>4, QuietGrows
  <2>2. Lost(p)' => Lost(p)
    BY <1>1, <1>3, <1>5 DEF Lost, executorVars
  <2>3. Broken(p)' => Broken(p)
    BY <1>3, <1>4, <2>2 DEF Broken
  <2>4. QED BY <1>0, <1>1, <1>2, <2>1, <2>3 DEF HostInv, Counted
<1>9. Exhausted(p)' /\ InOrder(p)' /\ Cold(p)' /\ ~Done(p)
  BY <1>0, <1>1, <1>6 DEF HostInv, Exhausted, InOrder, Cold, Done, executorVars
<1>10. Kept(p)
  BY <1>7, <1>8, <1>9 DEF Kept, HostInv
<1>11. QED BY <1>0, <1>2, <1>10, OneHost DEF ExecutorsOf

\* When the last executor says that it is idle, nobody works on the host any
\* more and all tasks of the current processor and of those before are
\* finished.
LEMMA AllIdleMeansFinished ==
    ASSUME AllHosts, NEW e \in Executor, ExecutorAnswers(e, "WorkerIdle"),
           AllIdle(HostOf[e])
    PROVE  /\ processor[HostOf[e]] \in 1..Len(TaskCount) /\ tasks[HostOf[e]] = 0
           /\ \A t \in Task : t \in finished[HostOf[e]] <=> t[1] <= processor[HostOf[e]]
           /\ \A f \in ExecutorsOf(HostOf[e]) :
                 /\ to_executor[f] = <<>> /\ from_executor'[f] = <<>>
                 /\ future[f] \in {"none", "dead"} /\ task[f] = NoTask
<1>. DEFINE p == HostOf[e]
<1>0. /\ p \in LoadHost /\ e \in ExecutorsOf(p)
      /\ Place(e) /\ Assignment(e) /\ HostInv(p) /\ PrepTypes
      /\ \A f \in ExecutorsOf(p) : f \in Executor /\ HostOf[f] = p
  BY OnlyMessage DEF AllHosts, ExecutorsOf
<1>1. /\ from_executor[e] = <<"WorkerIdle">> /\ from_executor'[e] = <<>>
      /\ to_executor[e] = <<>> /\ processor[p] # 0 /\ p_status[p] # "gone"
      /\ \A f \in Executor \ {e} : from_executor'[f] = from_executor[f]
      /\ Active(e) /\ future[e] \in {"none", "dead"} /\ task[e] = NoTask
  BY AnswerTaken
<1>2. tasks[p] = 0 /\ processor[p] \in 1..Len(TaskCount)
  <2>1. NoMore(e)
    BY <1>1 DEF NoMore
  <2>2. QED BY <1>0, <1>1, <2>1, TaskShape DEF HostInv, Exhausted, PrepTypes
<1>3. /\ Quiet(p) = ExecutorsOf(p) \ {e}
      /\ ~(idle[p] < Cardinality(Quiet(p)))
  <2>1. IsFiniteSet(ExecutorsOf(p)) /\ IsFiniteSet(ExecutorsOf(p) \ {e})
    BY PreparationAssumption, FS_Subset DEF ExecutorsOf
  <2>2. /\ Cardinality(ExecutorsOf(p) \ {e}) = Cardinality(ExecutorsOf(p)) - 1
        /\ Cardinality(ExecutorsOf(p)) \in Nat
    BY <1>0, <2>1, FS_RemoveElement, FS_CardinalityType
  <2>3. Quiet(p) \subseteq ExecutorsOf(p) \ {e}
    BY <1>1 DEF Quiet
  <2>4. /\ Cardinality(Quiet(p)) <= Cardinality(ExecutorsOf(p) \ {e})
        /\ Cardinality(Quiet(p)) \in Nat
        /\ Cardinality(Quiet(p)) = Cardinality(ExecutorsOf(p) \ {e})
              => Quiet(p) = ExecutorsOf(p) \ {e}
    BY <2>1, <2>3, FS_Subset, FS_CardinalityType
  <2>5. idle[p] \in Nat /\ idle[p] + 1 = Cardinality(ExecutorsOf(p))
        /\ idle[p] <= Cardinality(Quiet(p))
    BY <1>0, <1>1 DEF AllIdle, PrepTypes, HostInv, Counted
  <2>6. QED BY <2>2, <2>4, <2>5
<1>4. ~Lost(p) /\ \A f \in ExecutorsOf(p) : ~Complains(f)
  BY <1>0, <1>1, <1>3 DEF HostInv, Counted, Broken
<1>5. ASSUME NEW f \in ExecutorsOf(p) \ {e} PROVE ~Active(f)
  BY <1>3 DEF Quiet
<1>6. ASSUME NEW t \in Task PROVE t \in finished[p] <=> t[1] <= processor[p]
  <2>1. \A f \in ExecutorsOf(p) : ~Held(f, t)
    <3>1. ~Held(e, t)
      BY <1>1, SingleMessage DEF Held, Ordered
    <3>2. QED BY <1>0, <1>5, <3>1, HeldActive
  <2>2. t[1] \in Nat /\ t[2] > 0 /\ processor[p] \in Nat
    BY <1>2, TaskShape
  <2>3. t[1] = processor[p] => t \in finished[p]
    BY <1>2, <1>4, <2>1, <2>2 DEF Lost
  <2>4. QED BY <1>0, <2>2, <2>3 DEF HostInv, InOrder
<1>7. ASSUME NEW f \in ExecutorsOf(p)
      PROVE  /\ to_executor[f] = <<>> /\ from_executor'[f] = <<>>
             /\ future[f] \in {"none", "dead"} /\ task[f] = NoTask
  <2>1. CASE f = e
    BY <1>1, <2>1
  <2>2. CASE f # e
    <3>1. ~Active(f) /\ ~Complains(f) /\ Place(f) /\ Assignment(f) /\ f \in Executor
      BY <1>0, <1>4, <1>5, <2>2 DEF HostInv
    <3>2. to_executor[f] = <<>>
      BY <3>1 DEF Active, Complains
    <3>3. from_executor[f] = <<>>
      <4>1. CASE from_executor[f] # <<>>
        <5>1. from_executor[f] = <<Head(from_executor[f])>>
          BY <1>0, <4>1, OnlyMessage
        <5>2. QED BY <3>1, <4>1, <5>1 DEF Active, Complains
      <4>2. QED BY <4>1
    <3>4. future[f] \notin {"failed", "reported"}
      BY <1>0, <1>4, <3>1, FailedLost
    <3>5. future[f] \in {"none", "dead"}
      BY <1>0, <3>1, <3>4 DEF Active, PrepTypes
    <3>6. QED BY <1>0, <1>1, <2>2, <3>1, <3>2, <3>3, <3>5 DEF Place
  <2>3. QED BY <2>1, <2>2
<1>8. QED BY <1>2, <1>6, <1>7

\* An idle host starts its next processor when those before are finished.
LEMMA ProcessorStarts ==
    ASSUME AllHosts, NEW p \in LoadHost, StartProcessor(p),
           processor[p] < Len(TaskCount),
           \A t \in Task : t \in finished[p] <=> t[1] <= processor[p],
           \A f \in ExecutorsOf(p) : /\ to_executor[f] = <<>>
                                     /\ from_executor'[f] = <<>>
                                     /\ future[f] \in {"none", "dead"}
                                     /\ task[f] = NoTask,
           idle' = [idle EXCEPT ![p] = 0],
           from_executor' \in [Executor -> {<<>>} \cup {<<n>> : n \in Reply}],
           \A f \in Executor \ ExecutorsOf(p) : from_executor'[f] = from_executor[f],
           UNCHANGED executorVars
    PROVE  AllKept
<1>. DEFINE m == Msg("StartTaskLoop", NoTask)
<1>0. HostInv(p) /\ PrepTypes /\ \A f \in ExecutorsOf(p) : f \in Executor /\ HostOf[f] = p
  BY DEF AllHosts, ExecutorsOf
<1>1. /\ processor[p] + 1 \in 1..Len(TaskCount)
      /\ processor[p] \in Nat
      /\ TaskCount[processor[p] + 1] \in Nat
  BY <1>0, TaskShape DEF PrepTypes
<1>2. /\ processor'[p] = processor[p] + 1 /\ tasks'[p] = TaskCount[processor[p] + 1]
      /\ p_status'[p] = "running" /\ idle'[p] = 0
      /\ processor' \in [LoadHost -> 0..Len(TaskCount)]
      /\ tasks' \in [LoadHost -> Nat]
      /\ idle' \in [LoadHost -> Nat]
      /\ p_status' \in [LoadHost ->
            {"none", "initializing", "running", "complete", "gone"}]
      /\ \A q \in LoadHost \ {p} : SameHost(q)
  BY <1>0, <1>1 DEF StartProcessor, PrepTypes, SameHost, executorVars
<1>3. m \in Order /\ m.type = "StartTaskLoop"
  BY DEF Order, Msg
<1>4. \A f \in ExecutorsOf(p) : to_executor'[f] = <<m>>
  BY <1>0, SingleMessage DEF StartProcessor
<1>5. \A f \in Executor \ ExecutorsOf(p) : Same(f)
  BY DEF StartProcessor, Same, ExecutorsOf, executorVars
<1>. HIDE DEF m
<1>6. to_executor' \in [Executor -> {<<>>} \cup {<<n>> : n \in Order}]
  <2>1. \A f \in Executor : to_executor'[f] \in {<<>>} \cup {<<n>> : n \in Order}
    BY <1>0, <1>3, <1>4, <1>5, ZenonT(30) DEF Same, PrepTypes
  <2>2. to_executor' = [f \in Executor |-> to_executor'[f]]
    BY DEF StartProcessor
  <2>3. QED BY <2>1, <2>2
<1>7. PrepTypes'
  BY <1>0, <1>2, <1>6 DEF PrepTypes, executorVars
<1>8. ASSUME NEW f \in ExecutorsOf(p)
      PROVE  /\ Active(f)' /\ ~Complains(f)' /\ ~NoMore(f)'
             /\ Place(f)' /\ Assignment(f)'
  <2>1. \A t : ~Ordered(f, t)'
    BY <1>3, <1>4, SingleMessage DEF Ordered, Msg
  <2>2. Active(f)' /\ ~Complains(f)' /\ ~NoMore(f)'
    BY <1>3, <1>4, <2>1, SingleMessage DEF Active, Complains, NoMore
  <2>3. Place(f)'
    BY <1>4 DEF Place, executorVars
  <2>4. \A t \in Task : ~Assigned(f, t)'
    BY <2>1, TaskShape DEF Assigned, executorVars
  <2>5. QED BY <2>2, <2>3, <2>4 DEF Assignment
<1>9. Counted(p)'
  <2>1. ~Lost(p)'
    BY <1>1, <1>2, TaskShape DEF Lost
  <2>2. ~Broken(p)'
    BY <1>8, <2>1 DEF Broken
  <2>3. Quiet(p)' = {}
    BY <1>8 DEF Quiet
  <2>4. QED BY <1>2, <2>2, <2>3, FS_EmptySet DEF Counted
<1>10. Exhausted(p)' /\ Cold(p)' /\ ~Done(p)
  BY <1>1, <1>2, <1>8 DEF Exhausted, Cold, Done
<1>11. InOrder(p)'
  <2>1. \A t \in Task : /\ t[1] \in Nat
                        /\ t \in finished'[p] <=> t[1] <= processor[p]
    BY TaskShape DEF executorVars
  <2>2. QED BY <1>1, <1>2, <2>1 DEF InOrder
<1>12. Kept(p)
  BY <1>8, <1>9, <1>10, <1>11 DEF Kept, HostInv
<1>13. QED BY <1>2, <1>5, <1>7, <1>12, OneHost

\* The last executor is idle: the next processor is started, or all tasks
\* have succeeded on the host.
LEMMA ResumeKept ==
    ASSUME AllHosts, NEW e \in Executor, Resume(e)
    PROVE  /\ AllKept
           /\ processor[HostOf[e]] = Len(TaskCount) => Done(HostOf[e])'
<1>. DEFINE p == HostOf[e]
<1>0. /\ p \in LoadHost /\ e \in ExecutorsOf(p) /\ HostInv(p) /\ PrepTypes
      /\ \A f \in ExecutorsOf(p) : f \in Executor /\ HostOf[f] = p
  BY OnlyMessage DEF AllHosts, ExecutorsOf
<1>1. /\ from_executor' \in [Executor -> {<<>>} \cup {<<n>> : n \in Reply}]
      /\ \A f \in Executor \ {e} : from_executor'[f] = from_executor[f]
      /\ UNCHANGED executorVars /\ idle' = [idle EXCEPT ![p] = 0]
  BY AnswerTaken DEF Resume
<1>2. /\ processor[p] \in 1..Len(TaskCount) /\ tasks[p] = 0
      /\ \A t \in Task : t \in finished[p] <=> t[1] <= processor[p]
      /\ \A f \in ExecutorsOf(p) :
            /\ to_executor[f] = <<>> /\ from_executor'[f] = <<>>
            /\ future[f] \in {"none", "dead"} /\ task[f] = NoTask
  BY AllIdleMeansFinished DEF Resume
<1>3. CASE processor[p] < Len(TaskCount)
  <2>1. StartProcessor(p)
    BY <1>3 DEF Resume
  <2>2. \A f \in Executor \ ExecutorsOf(p) : from_executor'[f] = from_executor[f]
    BY <1>0, <1>1
  <2>3. AllKept
    BY <1>0, <1>1, <1>2, <1>3, <2>1, <2>2, ProcessorStarts
  <2>4. QED BY <1>2, <1>3, <2>3, TaskShape
<1>4. CASE processor[p] = Len(TaskCount)
  <2>0. /\ p_status' = [p_status EXCEPT ![p] = "complete"]
        /\ UNCHANGED <<processor, tasks, to_executor>>
    BY <1>2, <1>4, TaskShape DEF Resume
  <2>1. /\ PrepTypes' /\ idle'[p] = 0
        /\ \A q \in LoadHost \ {p} : SameHost(q)
        /\ \A f \in Executor \ {e} : Same(f)
    BY <1>0, <1>1, <2>0 DEF PrepTypes, SameHost, Same, executorVars
  <2>2. ASSUME NEW f \in ExecutorsOf(p)
        PROVE  /\ ~Active(f)' /\ ~Complains(f)' /\ ~NoMore(f)'
               /\ Place(f)' /\ Assignment(f)'
    <3>0. /\ to_executor'[f] = <<>> /\ from_executor'[f] = <<>>
          /\ future'[f] \in {"none", "dead"} /\ task'[f] = NoTask
      BY <1>1, <1>2, <2>0 DEF executorVars
    <3>1. \A t : ~Ordered(f, t)'
      BY <3>0, SingleMessage DEF Ordered
    <3>2. ~Active(f)' /\ ~Complains(f)' /\ ~NoMore(f)' /\ Place(f)'
      BY <3>0, <3>1, SingleMessage DEF Active, Complains, NoMore, Place
    <3>3. \A t \in Task : ~Assigned(f, t)'
      BY <3>0, <3>1, TaskShape DEF Assigned
    <3>4. QED BY <3>2, <3>3 DEF Assignment
  <2>3. finished[p] = Task /\ finished'[p] = Task
    <3>1. finished[p] \subseteq Task
      BY <1>0 DEF PrepTypes
    <3>2. \A t \in Task : t \in finished[p]
      BY <1>2, <1>4, TaskShape
    <3>3. QED BY <1>1, <3>1, <3>2 DEF executorVars
  <2>4. ~Broken(p)'
    BY <2>2, <2>3 DEF Broken, Lost
  <2>5. Cardinality(Quiet(p)') \in Nat
    <3>1. IsFiniteSet(ExecutorsOf(p)) /\ Quiet(p)' = ExecutorsOf(p)
      BY <2>2, PreparationAssumption, FS_Subset DEF ExecutorsOf, Quiet
    <3>2. QED BY <3>1, FS_CardinalityType
  <2>6. Counted(p)'
    BY <2>1, <2>4, <2>5 DEF Counted
  <2>7. Exhausted(p)' /\ InOrder(p)' /\ Cold(p)' /\ Done(p)'
    BY <1>0, <1>1, <1>2, <1>4, <2>0, <2>2, <2>3, TaskShape
       DEF HostInv, Exhausted, InOrder, Cold, Done, executorVars
  <2>8. Kept(p)
    BY <2>2, <2>6, <2>7 DEF Kept, HostInv
  <2>9. QED BY <1>0, <2>1, <2>7, <2>8, OneHost DEF ExecutorsOf
<1>5. QED BY <1>2, <1>3, <1>4, TaskShape

\* The next processor cannot be started: nobody works on the host any more.
LEMMA ResumeFailsKept ==
    ASSUME AllHosts, NEW e \in Executor, ResumeFails(e)
    PROVE  AllKept
<1>. DEFINE p == HostOf[e]  m == Msg("BenchmarkFailure", NoTask)
<1>0. /\ p \in LoadHost /\ e \in ExecutorsOf(p) /\ HostInv(p) /\ PrepTypes
      /\ \A f \in ExecutorsOf(p) : f \in Executor /\ HostOf[f] = p
  BY OnlyMessage DEF AllHosts, ExecutorsOf
<1>1. /\ from_executor' \in [Executor -> {<<>>} \cup {<<n>> : n \in Reply}]
      /\ \A f \in Executor \ {e} : from_executor'[f] = from_executor[f]
      /\ UNCHANGED <<executorVars, tasks>> /\ idle' = [idle EXCEPT ![p] = 0]
      /\ processor' = [processor EXCEPT ![p] = @ + 1]
      /\ p_status' = [p_status EXCEPT ![p] = "complete"]
      /\ processor[p] < Len(TaskCount)
  BY AnswerTaken DEF ResumeFails
<1>2. /\ processor[p] \in 1..Len(TaskCount) /\ tasks[p] = 0
      /\ \A t \in Task : t \in finished[p] <=> t[1] <= processor[p]
      /\ \A f \in ExecutorsOf(p) :
            /\ to_executor[f] = <<>> /\ from_executor'[f] = <<>>
            /\ future[f] \in {"none", "dead"} /\ task[f] = NoTask
  BY AllIdleMeansFinished DEF ResumeFails
<1>3. to_executor' = [to_executor EXCEPT ![e] = <<m>>]
  BY <1>0, <1>2, SingleMessage DEF ResumeFails, PrepTypes
<1>4. m \in Order /\ m.type = "BenchmarkFailure"
  BY DEF Order, Msg
<1>5. processor[p] + 1 \in 1..Len(TaskCount) /\ TaskCount[processor[p] + 1] \in Nat
  BY <1>1, <1>2, TaskShape
<1>. HIDE DEF m
<1>6. /\ PrepTypes' /\ \A q \in LoadHost \ {p} : SameHost(q)
      /\ \A f \in Executor \ {e} : Same(f)
      /\ to_executor'[e] = <<m>> /\ idle'[p] = 0 /\ tasks'[p] = 0
      /\ processor'[p] = processor[p] + 1 /\ finished'[p] = finished[p]
  <2>1. /\ to_executor' \in [Executor -> {<<>>} \cup {<<n>> : n \in Order}]
        /\ processor' \in [LoadHost -> 0..Len(TaskCount)]
        /\ idle' \in [LoadHost -> Nat]
        /\ p_status' \in [LoadHost ->
              {"none", "initializing", "running", "complete", "gone"}]
    BY <1>0, <1>1, <1>3, <1>4, <1>5 DEF PrepTypes
  <2>2. PrepTypes'
    BY <1>0, <1>1, <2>1 DEF PrepTypes, executorVars
  <2>3. QED BY <1>0, <1>1, <1>2, <1>3, <2>2 DEF PrepTypes, SameHost, Same, executorVars
<1>7. ASSUME NEW f \in ExecutorsOf(p)
      PROVE  ~Active(f)' /\ ~NoMore(f)' /\ Place(f)' /\ Assignment(f)'
  <2>0. /\ to_executor'[f] = <<>> \/ to_executor'[f] = <<m>>
        /\ from_executor'[f] = <<>>
        /\ future'[f] \in {"none", "dead"} /\ task'[f] = NoTask
    BY <1>0, <1>1, <1>2, <1>6 DEF executorVars, Same
  <2>1. \A t : ~Ordered(f, t)'
    <3>1. \A t : <<m>> # <<Msg("DoTask", t)>> /\ <<>> # <<Msg("DoTask", t)>>
      BY <1>4, SingleMessage DEF Msg
    <3>2. QED BY <2>0, <3>1 DEF Ordered
  <2>2. ~Active(f)' /\ ~NoMore(f)' /\ Place(f)'
    BY <1>4, <2>0, <2>1, SingleMessage DEF Active, NoMore, Place
  <2>3. \A t \in Task : ~Assigned(f, t)'
    BY <2>0, <2>1, TaskShape DEF Assigned
  <2>4. QED BY <2>2, <2>3 DEF Assignment
<1>8. Counted(p)'
  <2>1. IsFiniteSet(ExecutorsOf(p)) /\ Quiet(p)' = ExecutorsOf(p)
    BY <1>7, PreparationAssumption, FS_Subset DEF ExecutorsOf, Quiet
  <2>2. Cardinality(Quiet(p)') \in Nat /\ Cardinality(Quiet(p)') # 0
    BY <1>0, <2>1, FS_CardinalityType, FS_EmptySet
  <2>3. QED BY <1>6, <2>2 DEF Counted
<1>9. Exhausted(p)' /\ Cold(p)' /\ ~Done(p)
  BY <1>1, <1>2, <1>5, <1>6, <1>7 DEF Exhausted, Cold, Done
<1>10. InOrder(p)'
  <2>1. \A t \in Task : /\ t[1] \in Nat
                        /\ t \in finished'[p] <=> t[1] <= processor[p]
    BY <1>2, <1>6, TaskShape
  <2>2. QED BY <1>2, <1>5, <1>6, <2>1 DEF InOrder
<1>11. Kept(p)
  BY <1>7, <1>8, <1>9, <1>10 DEF Kept, HostInv
<1>12. QED BY <1>0, <1>6, <1>11, OneHost DEF ExecutorsOf

\* The first processor is started.
LEMMA PrepareWorkloadKept ==
    ASSUME AllHosts, NEW p \in LoadHost, PrepareWorkload(p), processor[p] = 0
    PROVE  AllKept
<1>1. /\ HostInv(p) /\ Cold(p) /\ PrepTypes
      /\ \A f \in ExecutorsOf(p) : f \in Executor /\ Place(f)
  BY DEF AllHosts, HostInv, ExecutorsOf
<1>2. /\ StartProcessor(p) /\ UNCHANGED <<idle, executorVars, from_executor>>
      /\ processor[p] < Len(TaskCount)
  BY TaskShape DEF PrepareWorkload
<1>3. idle' = [idle EXCEPT ![p] = 0]
  BY <1>1, <1>2 DEF Cold, PrepTypes
<1>4. \A f \in ExecutorsOf(p) : /\ to_executor[f] = <<>> /\ from_executor'[f] = <<>>
                                /\ future[f] \in {"none", "dead"} /\ task[f] = NoTask
  BY <1>1, <1>2 DEF Cold, Place
<1>5. \A t \in Task : t \in finished[p] <=> t[1] <= processor[p]
  BY <1>1, TaskShape DEF Cold
<1>6. from_executor' \in [Executor -> {<<>>} \cup {<<n>> : n \in Reply}]
  BY <1>1, <1>2 DEF PrepTypes
<1>7. QED BY <1>2, <1>3, <1>4, <1>5, <1>6, ProcessorStarts

\* A preparator exits, and its executors with it.
LEMMA PreparatorExitsKept ==
    ASSUME AllHosts, NEW p \in LoadHost, PreparatorExits(p)
    PROVE  AllKept
<1>0. /\ HostInv(p) /\ PrepTypes
      /\ \A f \in ExecutorsOf(p) : f \in Executor /\ HostOf[f] = p
  BY DEF AllHosts, HostInv, ExecutorsOf
<1>1. /\ p_status' = [p_status EXCEPT ![p] = "gone"]
      /\ tasks' = [tasks EXCEPT ![p] = 0] /\ idle' = [idle EXCEPT ![p] = 0]
      /\ UNCHANGED <<processor, finished>>
      /\ to_executor' = [e \in Executor |-> IF HostOf[e] = p THEN <<>> ELSE to_executor[e]]
      /\ from_executor' = [e \in Executor |-> IF HostOf[e] = p THEN <<>> ELSE from_executor[e]]
      /\ future' = [e \in Executor |-> IF HostOf[e] = p THEN "none" ELSE future[e]]
      /\ task' = [e \in Executor |-> IF HostOf[e] = p THEN NoTask ELSE task[e]]
  BY DEF PreparatorExits
<1>2. /\ to_executor' \in [Executor -> {<<>>} \cup {<<n>> : n \in Order}]
      /\ from_executor' \in [Executor -> {<<>>} \cup {<<n>> : n \in Reply}]
      /\ future' \in [Executor -> {"none", "running", "done", "failed", "reported", "dead"}]
      /\ task' \in [Executor -> Task \cup {NoTask}]
  BY <1>0, <1>1 DEF PrepTypes
<1>3. PrepTypes'
  BY <1>0, <1>1, <1>2 DEF PrepTypes
<1>4. /\ \A q \in LoadHost \ {p} : SameHost(q)
      /\ \A f \in Executor \ ExecutorsOf(p) : Same(f)
      /\ p_status'[p] = "gone" /\ tasks'[p] = 0 /\ idle'[p] = 0
      /\ \A f \in ExecutorsOf(p) : /\ to_executor'[f] = <<>> /\ from_executor'[f] = <<>>
                                   /\ future'[f] = "none" /\ task'[f] = NoTask
  BY <1>0, <1>1 DEF PrepTypes, SameHost, Same, ExecutorsOf
<1>5. ASSUME NEW f \in ExecutorsOf(p)
      PROVE  Place(f)' /\ Assignment(f)' /\ ~Active(f)'
  <2>1. \A t : ~Ordered(f, t)'
    BY <1>4, SingleMessage DEF Ordered
  <2>2. \A t \in Task : ~Assigned(f, t)'
    BY <1>4, <2>1, TaskShape DEF Assigned
  <2>3. QED BY <1>4, <2>2 DEF Place, Assignment, Active
<1>6. Counted(p)' /\ Exhausted(p)' /\ (Done(p) => Done(p)')
  BY <1>1, <1>4, <1>5 DEF Counted, Exhausted, Done
<1>7. Cold(p)'
  BY <1>0, <1>1, <1>4 DEF HostInv, Cold
<1>8. InOrder(p)'
  <2>1. processor[p] # 0 => 0 <= TaskCount[processor[p]]
    BY <1>0, TaskShape DEF PrepTypes
  <2>2. \A t \in Task : t[2] > 0
    BY TaskShape
  <2>3. QED BY <1>0, <1>1, <1>4, <2>1, <2>2 DEF HostInv, InOrder
<1>9. Kept(p)
  BY <1>5, <1>6, <1>7, <1>8 DEF Kept, HostInv
<1>10. QED BY <1>3, <1>4, <1>9, OneHost

\* The process of a preparator dies; the executors go on.
LEMMA PreparatorDiesKept ==
    ASSUME AllHosts, NEW p \in LoadHost, PreparatorDies(p)
    PROVE  AllKept
<1>0. /\ HostInv(p) /\ PrepTypes
      /\ \A f \in ExecutorsOf(p) : f \in Executor /\ HostOf[f] = p
  BY DEF AllHosts, HostInv, ExecutorsOf
<1>1. /\ p_status' = [p_status EXCEPT ![p] = "gone"]
      /\ tasks' = [tasks EXCEPT ![p] = 0] /\ idle' = [idle EXCEPT ![p] = 0]
      /\ UNCHANGED <<processor, executorVars, to_executor, from_executor>>
  BY DEF PreparatorDies
<1>2. /\ PrepTypes' /\ \A f \in Executor : Same(f)
      /\ \A q \in LoadHost \ {p} : SameHost(q)
      /\ p_status'[p] = "gone" /\ tasks'[p] = 0 /\ idle'[p] = 0 /\ tasks[p] \in Nat
  BY <1>0, <1>1 DEF PrepTypes, executorVars, Same, SameHost
<1>3. ASSUME NEW f \in ExecutorsOf(p)
      PROVE  /\ f \in Executor /\ Place(f) /\ Assignment(f) /\ HostOf[f] = p
             /\ Active(f)' <=> Active(f)
             /\ Place(f)' <=> Place(f)
             /\ \A t : Assigned(f, t)' <=> Assigned(f, t)
  BY <1>0, <1>2, SameExecutor DEF HostInv
<1>4. \A t \in Task : t[2] > 0
  BY TaskShape
<1>5. ASSUME NEW f \in ExecutorsOf(p) PROVE Place(f)' /\ Assignment(f)'
  BY <1>1, <1>2, <1>3, <1>4 DEF Assignment, executorVars
<1>6. Counted(p)' /\ Exhausted(p)' /\ (Done(p) => Done(p)')
  BY <1>1, <1>2, <1>3 DEF Counted, Exhausted, Done, executorVars
<1>7. Cold(p)'
  BY <1>0, <1>1, <1>2 DEF HostInv, Cold, executorVars
<1>8. InOrder(p)'
  <2>1. processor[p] # 0 => 0 <= TaskCount[processor[p]]
    BY <1>0, TaskShape DEF PrepTypes
  <2>2. QED BY <1>0, <1>1, <1>2, <1>4, <2>1 DEF HostInv, InOrder, executorVars
<1>9. Kept(p)
  BY <1>5, <1>6, <1>7, <1>8 DEF Kept, HostInv
<1>10. QED BY <1>2, <1>9, OneHost

-----------------------------------------------------------------------------
(* From Setup to StartBenchmark.  The messages that start the engine, the    *)
(* preparation and the benchmark are each sent once, one after the other.    *)

\* The messages of this chain, and the other ones.
Key == {"Setup", "StartEngine", "EngineStarted", "PrepareBenchmark",
        "PreparationComplete", "StartBenchmark"}
OtherLetter == {"Exit", "BenchmarkCancelled", "BenchmarkFailure", "StopEngine",
                "EngineStopped", "TaskFinished", "BenchmarkComplete",
                "PrepareWorkload", "WorkloadPrepared", "StartNodes",
                "NodesStarted", "StopNodes", "NodesStopped"}
Letter == Key \cup OtherLetter

\* Both are disjoint.
LEMMA Letters ==
    /\ \A x \in OtherLetter : x \in Letter \ Key
    /\ \A x \in Key : x \in Letter
BY DEF Letter, OtherLetter, Key

\* Channel t has message m no more often than channel s.
Fewer(s, t, m) == (Has(t, m) => Has(s, m)) /\ (Once(s, m) => Once(t, m))

\* What happens to a channel that is left alone, emptied, read or written.
LEMMA FewerMessages ==
    ASSUME NEW s \in Seq(Letter), NEW m
    PROVE  /\ Fewer(s, s, m)
           /\ Fewer(s, <<>>, m) /\ <<>> \in Seq(Letter)
           /\ s # <<>> => /\ Fewer(s, Tail(s), m) /\ Tail(s) \in Seq(Letter)
                          /\ Head(s) = m => Has(s, m)
                          /\ Head(s) = m /\ Once(s, m) => ~Has(Tail(s), m)
           /\ \A x \in Letter :
                 /\ Append(s, x) \in Seq(Letter)
                 /\ x # m => Fewer(s, Append(s, x), m)
                 /\ Has(Append(s, x), m) => Has(s, m) \/ x = m
                 /\ Once(s, m) /\ ~Has(s, m) => Once(Append(s, x), m)
<1>1. Fewer(s, s, m) /\ Fewer(s, <<>>, m) /\ <<>> \in Seq(Letter)
  BY EmptyChannel DEF Fewer
<1>2. ASSUME s # <<>>
      PROVE  /\ Fewer(s, Tail(s), m) /\ Tail(s) \in Seq(Letter)
             /\ Head(s) = m => Has(s, m)
             /\ Head(s) = m /\ Once(s, m) => ~Has(Tail(s), m)
  BY <1>2, TailChannel DEF Fewer
<1>3. ASSUME NEW x \in Letter
      PROVE  /\ Append(s, x) \in Seq(Letter)
             /\ x # m => Fewer(s, Append(s, x), m)
             /\ Has(Append(s, x), m) => Has(s, m) \/ x = m
             /\ Once(s, m) /\ ~Has(s, m) => Once(Append(s, x), m)
  BY AppendChannel DEF Fewer
<1>4. QED BY <1>1, <1>2, <1>3

Stage == {"none", "init", "preparing", "prepared", "running", "complete", "gone"}

MailTypes ==
    /\ to_orchestrator \in Seq(Letter)
    /\ to_builder \in Seq(Letter) /\ from_builder \in Seq(Letter)
    /\ to_coordinator \in Seq(Letter) /\ from_coordinator \in Seq(Letter)
    /\ to_preparator \in [LoadHost -> Seq(Letter)]
    /\ from_preparator \in [LoadHost -> Seq(Letter)]
    /\ coordinator \in Stage /\ prepared \in Nat

Asked == coordinator # "none" \/ Has(to_coordinator, "PrepareBenchmark")

\* Setup, StartEngine, the start of the nodes, EngineStarted and
\* PrepareBenchmark: one of them at a time.
Chain ==
    /\ Once(to_orchestrator, "Setup") /\ Once(to_builder, "StartEngine")
    /\ Once(from_builder, "EngineStarted")
    /\ Once(to_coordinator, "PrepareBenchmark")
    /\ Has(to_orchestrator, "Setup") =>
          /\ ~Has(to_builder, "StartEngine") /\ b_status # "starting"
          /\ ~Has(from_builder, "EngineStarted") /\ ~Asked
    /\ Has(to_builder, "StartEngine") =>
          /\ b_status # "starting"
          /\ ~Has(from_builder, "EngineStarted") /\ ~Asked
    /\ b_status = "starting" => ~Has(from_builder, "EngineStarted") /\ ~Asked
    /\ Has(from_builder, "EngineStarted") => ~Asked
    /\ Has(to_coordinator, "PrepareBenchmark") => coordinator \in {"init", "gone"}

\* Before PrepareBenchmark nobody has touched the preparators.
Untouched ==
    /\ prepared = 0
    /\ \A p \in LoadHost :
          /\ p_status[p] = "none" /\ processor[p] = 0
          /\ to_preparator[p] = <<>> /\ from_preparator[p] = <<>>

Fresh == coordinator \in {"none", "init"} => Untouched

\* A host is told to prepare once.
Kickoff ==
    \A p \in LoadHost :
       /\ Once(to_preparator[p], "PrepareWorkload")
       /\ Has(to_preparator[p], "PrepareWorkload") => processor[p] = 0

\* A host that reports is done, and the coordinator has counted only hosts
\* that are; it asks for the start, and starts, when it has counted all.
Informed(p) == Has(from_preparator[p], "WorkloadPrepared")
Heard == {p \in LoadHost : Done(p) /\ ~Informed(p)}
PastPreparation ==
    \/ coordinator \in {"prepared", "running", "complete"}
    \/ Has(from_coordinator, "PreparationComplete")
    \/ Has(to_coordinator, "StartBenchmark")

Reported ==
    /\ \A p \in LoadHost : /\ Once(from_preparator[p], "WorkloadPrepared")
                           /\ Informed(p) => Done(p)
    /\ prepared <= Cardinality(Heard)
    /\ PastPreparation => Heard = LoadHost

PrepInv == MailTypes /\ AllHosts /\ Chain /\ Fresh /\ Kickoff /\ Reported

\* Steps that add nothing to the chain.
LEMMA ChainFrame ==
    ASSUME Chain,
           Fewer(to_orchestrator, to_orchestrator', "Setup"),
           Fewer(to_builder, to_builder', "StartEngine"),
           Fewer(from_builder, from_builder', "EngineStarted"),
           Fewer(to_coordinator, to_coordinator', "PrepareBenchmark"),
           b_status' = "starting" => b_status = "starting",
           \/ coordinator' = coordinator
           \/ /\ coordinator # "none"
              /\ Has(to_coordinator', "PrepareBenchmark")
                    => coordinator' \in {"init", "gone"}
    PROVE  Chain'
<1>1. Asked' => Asked
  BY DEF Asked, Fewer
<1>2. Has(to_coordinator', "PrepareBenchmark") => coordinator' \in {"init", "gone"}
  BY DEF Chain, Fewer
<1>3. QED BY <1>1, <1>2 DEF Chain, Fewer

\* Steps outside the preparators and executors.
LEMMA OutsidePreparators ==
    ASSUME AllHosts, UNCHANGED <<preparatorVars, executorVars, to_executor, from_executor>>
    PROVE  AllKept /\ \A p \in LoadHost : Done(p)' <=> Done(p)
<1>1. \A p \in LoadHost : SameHost(p)
  BY DEF SameHost, preparatorVars, executorVars
<1>2. \A e \in Executor : Same(e)
  BY DEF Same, executorVars
<1>3. PrepTypes'
  BY DEF AllHosts, PrepTypes, preparatorVars, executorVars
<1>4. \A p \in LoadHost : Kept(p)
  BY <1>1, <1>2, OtherHost DEF AllHosts, ExecutorsOf
<1>5. \A p \in LoadHost : Done(p)' <=> Done(p)
  BY <1>2, SameExecutor DEF Done, preparatorVars, executorVars, ExecutorsOf
<1>6. QED BY <1>3, <1>4, <1>5 DEF AllKept

\* Steps that leave the preparation alone: what is known of the hosts and of
\* what they have reported stays.
LEMMA PreparationFrame ==
    ASSUME PrepInv, MailTypes', Chain',
           UNCHANGED <<prepared, preparatorVars, executorVars, prepMail>>,
           coordinator' \in {"none", "init"} => coordinator \in {"none", "init"},
           PastPreparation' => PastPreparation
    PROVE  PrepInv'
<1>1. AllKept /\ \A p \in LoadHost : Done(p)' <=> Done(p)
  BY OutsidePreparators DEF PrepInv, prepMail
<1>2. AllHosts'
  BY <1>1 DEF AllKept, AllHosts, Kept
<1>3. Fresh' /\ Kickoff'
  BY DEF PrepInv, Fresh, Untouched, Kickoff, preparatorVars, prepMail
<1>4. Heard' = Heard /\ \A p \in LoadHost : Informed(p)' <=> Informed(p)
  BY <1>1 DEF Heard, Informed, prepMail
<1>5. Reported'
  BY <1>1, <1>4 DEF PrepInv, Reported, prepMail
<1>6. QED BY <1>2, <1>3, <1>5 DEF PrepInv

\* A channel that gets no message of the chain.
Calmly(s, t) == t \in Seq(Letter) /\ \A m \in Key : Fewer(s, t, m)

\* A channel that is left alone, emptied, read, or gets another message.
LEMMA CalmChannel ==
    ASSUME NEW s \in Seq(Letter)
    PROVE  /\ Calmly(s, s) /\ Calmly(s, <<>>)
           /\ s # <<>> => Calmly(s, Tail(s))
           /\ \A x \in Letter \ Key : Calmly(s, Append(s, x))
<1>1. Calmly(s, s) /\ Calmly(s, <<>>)
  BY FewerMessages DEF Calmly
<1>2. s # <<>> => Calmly(s, Tail(s))
  BY FewerMessages DEF Calmly
<1>3. ASSUME NEW x \in Letter \ Key PROVE Calmly(s, Append(s, x))
  BY FewerMessages DEF Calmly
<1>4. QED BY <1>1, <1>2, <1>3

\* A step outside the preparation that sends no message of the chain.
LEMMA CalmFrame ==
    ASSUME PrepInv,
           Calmly(to_orchestrator, to_orchestrator'), Calmly(to_builder, to_builder'),
           Calmly(from_builder, from_builder'), Calmly(to_coordinator, to_coordinator'),
           Calmly(from_coordinator, from_coordinator'),
           UNCHANGED <<prepared, preparatorVars, executorVars, prepMail>>,
           b_status' = "starting" => b_status = "starting",
           \/ coordinator' = coordinator
           \/ /\ coordinator \notin {"none", "init", "gone"} /\ PastPreparation
              /\ coordinator' \in {"running", "complete"}
    PROVE  PrepInv'
<1>1. MailTypes'
  BY DEF PrepInv, MailTypes, Calmly, prepMail, Stage
<1>2. /\ Fewer(to_orchestrator, to_orchestrator', "Setup")
      /\ Fewer(to_builder, to_builder', "StartEngine")
      /\ Fewer(from_builder, from_builder', "EngineStarted")
      /\ Fewer(to_coordinator, to_coordinator', "PrepareBenchmark")
      /\ Fewer(to_coordinator, to_coordinator', "StartBenchmark")
      /\ Fewer(from_coordinator, from_coordinator', "PreparationComplete")
  BY DEF Calmly, Key
<1>3. Chain'
  BY <1>2, ChainFrame DEF PrepInv, Chain, Fewer
<1>4. PastPreparation' => PastPreparation
  BY <1>2 DEF PastPreparation, Fewer
<1>5. QED BY <1>1, <1>3, <1>4, PreparationFrame

\* Steps of the engine.
LEMMA EngineKeepsPrep ==
    ASSUME PrepInv, EngineNext
    PROVE  PrepInv'
<1>0. /\ MailTypes /\ Chain
      /\ to_builder \in Seq(Letter) /\ from_builder \in Seq(Letter)
      /\ UNCHANGED <<to_orchestrator, to_coordinator, from_coordinator, coordinator,
                     prepared, preparatorVars, executorVars, prepMail>>
  BY DEF PrepInv, MailTypes, EngineNext, OutsideEngine, prepVars, callerVars,
     coordinatorVars
<1>1. /\ PastPreparation' <=> PastPreparation
      /\ Calmly(to_orchestrator, to_orchestrator') /\ Calmly(to_builder, to_builder)
      /\ Calmly(from_builder, from_builder) /\ Calmly(to_coordinator, to_coordinator')
      /\ Calmly(from_coordinator, from_coordinator')
  BY <1>0, CalmChannel DEF MailTypes, PastPreparation
<1>2. ASSUME to_builder' \in Seq(Letter), from_builder' \in Seq(Letter), Chain'
      PROVE  PrepInv'
  <2>1. MailTypes'
    BY <1>0, <1>2 DEF MailTypes, prepMail
  <2>2. QED BY <1>0, <1>1, <1>2, <2>1, PreparationFrame
<1>3. ASSUME Calmly(to_builder, to_builder'), Calmly(from_builder, from_builder'),
             b_status' = "starting" => b_status = "starting"
      PROVE  PrepInv'
  BY <1>0, <1>1, <1>3, CalmFrame
<1>4. ASSUME NEW m, BuilderTakes(m)
      PROVE  /\ Calmly(to_builder, to_builder')
             /\ to_builder # <<>> /\ Head(to_builder) = m /\ to_builder' = Tail(to_builder)
  BY <1>0, <1>4, CalmChannel DEF BuilderTakes
<1>5. ASSUME NEW m \in Letter \ Key, Report(m)
      PROVE  Calmly(from_builder, from_builder')
  BY <1>0, <1>5, CalmChannel DEF Report
<1>6. {"BenchmarkFailure", "EngineStopped"} \subseteq Letter \ Key
  BY Letters DEF OtherLetter
<1>7. ASSUME to_builder' = to_builder, from_builder' = from_builder,
             b_status' = b_status
      PROVE  PrepInv'
  BY <1>1, <1>3, <1>7
<1>8. CASE DispatcherStep \/ \E h \in Host : NodeStep(h)
  BY <1>7, <1>8 DEF DispatcherStep, NodeStep, Dispatch, DispatcherExits,
     ConventionUpdate, StartNodes, StopNodes, NodeExits, coordination
<1>9. CASE EngineFails
  <2>1. CASE StartEngineFails
    BY <1>3, <1>4, <1>5, <1>6, <2>1 DEF StartEngineFails
  <2>2. CASE ~StartEngineFails
    BY <1>7, <1>9, <2>2 DEF EngineFails, DispatchFails, StartNodesFails, LaunchFails,
       StopNodesFails, NodeExitFails, coordination
  <2>3. QED BY <2>1, <2>2
<1>10. CASE BuilderStep
  <2>1. CASE StopEngineExternal \/ ReturnFailure
    BY <1>3, <1>4, <1>5, <1>6, <2>1 DEF StopEngineExternal, ReturnFailure
  <2>2. CASE StopEngine
    BY <1>1, <1>3, <1>4, <2>2 DEF StopEngine
  <2>3. CASE BuilderExits
    BY <1>1, <1>3, <1>4, <2>3 DEF BuilderExits
  <2>4. CASE ForwardDispatcherFailure \/ \E h \in Host : ForwardNodeFailure(h)
    BY <1>1, <1>3, <1>5, <1>6, <2>4 DEF ForwardDispatcherFailure, ForwardNodeFailure
  <2>5. ASSUME NEW h \in Host, NodesStopped(h) PROVE PrepInv'
    <3>1. /\ from_builder' = from_builder \/ Report("EngineStopped")
          /\ to_builder' = to_builder
          /\ b_status' # "starting"
      BY <2>5 DEF NodesStopped
    <3>2. QED BY <1>1, <1>3, <1>5, <1>6, <3>1
  <2>6. CASE StartEngineExternal
    <3>1. /\ to_builder' = Tail(to_builder) /\ to_builder # <<>>
          /\ Head(to_builder) = "StartEngine"
          /\ from_builder' = Append(from_builder, "EngineStarted")
          /\ b_status' = "cluster_started"
      BY <1>4, <2>6 DEF StartEngineExternal, Report
    <3>2. /\ Has(to_builder, "StartEngine") /\ ~Has(to_builder', "StartEngine")
          /\ Once(to_builder', "StartEngine") /\ to_builder' \in Seq(Letter)
          /\ Once(from_builder', "EngineStarted") /\ from_builder' \in Seq(Letter)
      BY <1>0, <3>1, FewerMessages, Letters DEF Chain, Fewer, Key
    <3>3. Chain'
      BY <1>0, <3>1, <3>2 DEF Chain, Asked
    <3>4. QED BY <1>2, <3>2, <3>3
  <2>7. CASE StartEngine
    <3>1. /\ to_builder' = Tail(to_builder) /\ to_builder # <<>>
          /\ Head(to_builder) = "StartEngine"
          /\ from_builder' = from_builder
          /\ b_status' = "starting"
      BY <1>4, <2>7 DEF StartEngine
    <3>2. /\ Has(to_builder, "StartEngine") /\ ~Has(to_builder', "StartEngine")
          /\ Once(to_builder', "StartEngine") /\ to_builder' \in Seq(Letter)
      BY <1>0, <3>1, FewerMessages, Letters DEF Chain, Fewer, Key
    <3>3. Chain'
      BY <1>0, <3>1, <3>2 DEF Chain, Asked
    <3>4. QED BY <1>0, <1>2, <3>1, <3>2, <3>3
  <2>8. ASSUME NEW h \in Host, NodesStarted(h) PROVE PrepInv'
    <3>1. CASE from_builder' = from_builder
      BY <1>1, <1>3, <2>8, <3>1 DEF NodesStarted
    <3>2. CASE from_builder' # from_builder
      <4>1. /\ from_builder' = Append(from_builder, "EngineStarted")
            /\ b_status = "starting" /\ b_status' = "cluster_started"
            /\ to_builder' = to_builder
        BY <2>8, <3>2 DEF NodesStarted, Report
      <4>2. Once(from_builder', "EngineStarted") /\ from_builder' \in Seq(Letter)
        BY <1>0, <4>1, FewerMessages, Letters DEF Chain, Key
      <4>3. Chain'
        BY <1>0, <4>1, <4>2 DEF Chain, Asked
      <4>4. QED BY <1>0, <1>2, <4>1, <4>2, <4>3
    <3>3. QED BY <3>1, <3>2
  <2>9. QED BY <1>10, <2>1, <2>2, <2>3, <2>4, <2>5, <2>6, <2>7, <2>8 DEF BuilderStep
<1>11. QED BY <1>8, <1>9, <1>10 DEF EngineNext

\* Steps of the caller and the orchestrator.
LEMMA OrchestratorKeepsPrep ==
    ASSUME PrepInv, CallerStep \/ Interrupt \/ OrchestratorStep \/ OrchestratorFails
    PROVE  PrepInv'
<1>0. /\ MailTypes /\ Chain
      /\ to_orchestrator \in Seq(Letter) /\ to_builder \in Seq(Letter)
      /\ from_builder \in Seq(Letter)
      /\ to_coordinator \in Seq(Letter) /\ from_coordinator \in Seq(Letter)
  BY DEF PrepInv, MailTypes
<1>1. UNCHANGED <<b_status, prepared, preparatorVars, executorVars, prepMail>>
  BY DEF CallerStep, GetAnswer, GetCancelAnswer, Interrupt, OrchestratorStep,
     OrchestratorFails, Setup, EngineStarted, PreparationComplete, TaskFinished,
     BenchmarkCancelled, BenchmarkFailure, BenchmarkComplete, EngineStopped,
     OrchestratorExits, SetupFails, EngineStartedFails, PreparationCompleteFails,
     TaskFinishedFails, BenchmarkCompleteFails, PrepInside, EngineInside, engineVars,
     coordination, prepVars, coordinatorVars
<1>2. /\ Calmly(to_orchestrator, to_orchestrator) /\ Calmly(to_builder, to_builder)
      /\ Calmly(from_builder, from_builder) /\ Calmly(to_coordinator, to_coordinator)
      /\ Calmly(from_coordinator, from_coordinator)
      /\ Calmly(from_builder, <<>>) /\ Calmly(from_coordinator, <<>>)
  BY <1>0, CalmChannel
<1>3. ASSUME NEW x \in {"Exit", "BenchmarkCancelled", "BenchmarkFailure", "StopEngine"}
      PROVE  /\ Calmly(to_orchestrator, Append(to_orchestrator, x))
             /\ Calmly(to_builder, Append(to_builder, x))
             /\ Calmly(to_coordinator, Append(to_coordinator, x))
  <2>1. x \in Letter \ Key
    BY Letters DEF OtherLetter
  <2>2. QED BY <1>0, <2>1, CalmChannel
<1>4. /\ to_orchestrator # <<>> => Calmly(to_orchestrator, Tail(to_orchestrator))
      /\ from_builder # <<>> => Calmly(from_builder, Tail(from_builder))
      /\ from_coordinator # <<>> => Calmly(from_coordinator, Tail(from_coordinator))
  BY <1>0, CalmChannel
<1>5. ASSUME Calmly(to_orchestrator, to_orchestrator'), Calmly(to_builder, to_builder'),
             Calmly(from_builder, from_builder'), Calmly(to_coordinator, to_coordinator'),
             Calmly(from_coordinator, from_coordinator'), coordinator' = coordinator
      PROVE  PrepInv'
  BY <1>1, <1>5, CalmFrame
<1>6. CASE CallerStep \/ Interrupt
  BY <1>2, <1>3, <1>5, <1>6
     DEF CallerStep, Interrupt, GetAnswer, GetCancelAnswer, engineVars, coordination,
         prepVars, coordinatorVars
<1>7. CASE OrchestratorFails
  BY <1>2, <1>3, <1>4, <1>5, <1>7
     DEF OrchestratorFails, SetupFails, EngineStartedFails, PreparationCompleteFails,
         TaskFinishedFails, BenchmarkCompleteFails, RejectedBy, FromCaller, FromBuilder,
         FromCoordinator, callerVars, engineVars, coordination, prepVars,
         coordinatorVars, PrepInside
<1>8. CASE TaskFinished \/ BenchmarkCancelled \/ EngineStopped
  BY <1>2, <1>4, <1>5, <1>8
     DEF TaskFinished, BenchmarkCancelled, EngineStopped, FromCaller, FromBuilder,
         FromCoordinator, callerVars, engineVars, coordination, prepVars,
         coordinatorVars, PrepInside
<1>9. CASE BenchmarkFailure
  BY <1>2, <1>4, <1>5, <1>9
     DEF BenchmarkFailure, FromBuilder, FromCoordinator, PrepInside
<1>10. CASE BenchmarkComplete \/ OrchestratorExits
  BY <1>2, <1>3, <1>4, <1>5, <1>10
     DEF BenchmarkComplete, OrchestratorExits, FromCaller, FromCoordinator, callerVars,
         PrepInside
<1>11. CASE Setup
  <2>1. /\ to_orchestrator # <<>> /\ Head(to_orchestrator) = "Setup"
        /\ to_orchestrator' = Tail(to_orchestrator)
        /\ to_builder' = Append(to_builder, "StartEngine")
        /\ UNCHANGED <<from_builder, to_coordinator, from_coordinator, coordinator>>
    BY <1>11 DEF Setup, FromCaller, prepVars, coordinatorVars
  <2>2. /\ Has(to_orchestrator, "Setup") /\ ~Has(to_orchestrator', "Setup")
        /\ Once(to_orchestrator', "Setup") /\ to_orchestrator' \in Seq(Letter)
        /\ to_builder' \in Seq(Letter)
    BY <1>0, <2>1, FewerMessages, Letters DEF Chain, Fewer, Key
  <2>3. Once(to_builder', "StartEngine")
    BY <1>0, <2>1, <2>2, FewerMessages, Letters DEF Chain, Key
  <2>4. Chain'
    BY <1>0, <1>1, <2>1, <2>2, <2>3 DEF Chain, Asked
  <2>5. MailTypes'
    BY <1>0, <1>1, <2>1, <2>2 DEF MailTypes, prepMail
  <2>6. QED BY <1>1, <2>1, <2>4, <2>5, PreparationFrame DEF PastPreparation
<1>12. CASE EngineStarted
  <2>1. /\ from_builder # <<>> /\ Head(from_builder) = "EngineStarted"
        /\ from_builder' = Tail(from_builder) /\ coordinator' = "init"
        /\ to_coordinator' = Append(to_coordinator, "PrepareBenchmark")
        /\ UNCHANGED <<to_orchestrator, to_builder, from_coordinator>>
    BY <1>12 DEF EngineStarted, FromBuilder, callerVars
  <2>2. /\ Has(from_builder, "EngineStarted") /\ ~Has(from_builder', "EngineStarted")
        /\ Once(from_builder', "EngineStarted") /\ from_builder' \in Seq(Letter)
        /\ to_coordinator' \in Seq(Letter)
    BY <1>0, <2>1, FewerMessages, Letters DEF Chain, Fewer, Key
  <2>3. /\ Once(to_coordinator', "PrepareBenchmark") /\ coordinator = "none"
        /\ Has(to_coordinator', "StartBenchmark") => Has(to_coordinator, "StartBenchmark")
    BY <1>0, <2>1, <2>2, FewerMessages, Letters DEF Chain, Key, Asked
  <2>4. Chain'
    BY <1>0, <1>1, <2>1, <2>2, <2>3 DEF Chain
  <2>5. MailTypes'
    BY <1>0, <1>1, <2>1, <2>2 DEF MailTypes, prepMail, Stage
  <2>6. QED BY <1>1, <2>1, <2>3, <2>4, <2>5, PreparationFrame DEF PastPreparation
<1>13. CASE PreparationComplete
  <2>1. /\ from_coordinator # <<>> /\ Head(from_coordinator) = "PreparationComplete"
        /\ from_coordinator' = Tail(from_coordinator)
        /\ to_coordinator' = Append(to_coordinator, "StartBenchmark")
        /\ UNCHANGED <<to_orchestrator, to_builder, from_builder, coordinator>>
    BY <1>13 DEF PreparationComplete, FromCoordinator, callerVars, engineVars,
       coordination, PrepInside
  <2>2. /\ Has(from_coordinator, "PreparationComplete")
        /\ from_coordinator' \in Seq(Letter) /\ to_coordinator' \in Seq(Letter)
        /\ Fewer(to_coordinator, to_coordinator', "PrepareBenchmark")
    BY <1>0, <2>1, FewerMessages, Letters DEF Key
  <2>3. Chain'
    <3>1. /\ Fewer(to_orchestrator, to_orchestrator, "Setup")
          /\ Fewer(to_builder, to_builder, "StartEngine")
          /\ Fewer(from_builder, from_builder, "EngineStarted")
      BY <1>0, FewerMessages
    <3>2. QED BY <1>0, <1>1, <2>1, <2>2, <3>1, ChainFrame
  <2>4. MailTypes'
    BY <1>0, <1>1, <2>1, <2>2 DEF MailTypes, prepMail
  <2>5. PastPreparation
    BY <2>2 DEF PastPreparation
  <2>6. QED BY <1>1, <2>1, <2>3, <2>4, <2>5, PreparationFrame
<1>14. QED BY <1>6, <1>7, <1>8, <1>9, <1>10, <1>11, <1>12, <1>13 DEF OrchestratorStep

\* Once all hosts are done the preparation has been started.
LEMMA PastFresh ==
    ASSUME PrepInv, PastPreparation
    PROVE  coordinator \notin {"none", "init"}
<1>1. PICK p \in LoadHost : TRUE
  BY PreparationAssumption
<1>2. Done(p)
  BY DEF PrepInv, Reported, Heard
<1>3. processor[p] # 0
  BY <1>2, TaskShape DEF Done
<1>4. QED BY <1>3 DEF PrepInv, Fresh, Untouched

\* Steps of the load generator.
LEMMA LoadKeepsPrep ==
    ASSUME PrepInv, LoadStep \/ LoadFailure
    PROVE  PrepInv'
<1>0. /\ to_orchestrator \in Seq(Letter) /\ to_builder \in Seq(Letter)
      /\ from_builder \in Seq(Letter) /\ Chain
      /\ to_coordinator \in Seq(Letter) /\ from_coordinator \in Seq(Letter)
  BY DEF PrepInv, MailTypes
<1>1. UNCHANGED <<to_orchestrator, to_builder, from_builder, b_status, prepared,
                  preparatorVars, executorVars, prepMail>>
  BY DEF LoadStep, LoadFailure, StartBenchmark, FinishTask, CompleteBenchmark,
     StartBenchmarkFails, LoadFails, LoadGeneratorUnchanged, callerVars, engineVars,
     coordination
<1>2. /\ Calmly(to_orchestrator, to_orchestrator) /\ Calmly(to_builder, to_builder)
      /\ Calmly(from_builder, from_builder) /\ Calmly(to_coordinator, to_coordinator)
      /\ Calmly(from_coordinator, from_coordinator)
      /\ to_coordinator # <<>> => Calmly(to_coordinator, Tail(to_coordinator))
      /\ to_coordinator # <<>> /\ Head(to_coordinator) = "StartBenchmark"
            => Has(to_coordinator, "StartBenchmark")
  BY <1>0, CalmChannel, FewerMessages
<1>3. \A x \in {"TaskFinished", "BenchmarkComplete", "BenchmarkFailure"} :
         Calmly(from_coordinator, Append(from_coordinator, x))
  BY <1>0, CalmChannel, Letters DEF OtherLetter
<1>4. CASE StartBenchmark
  <2>1. /\ PastPreparation /\ coordinator # "gone" /\ coordinator' = "running"
        /\ Calmly(to_coordinator, to_coordinator')
        /\ Calmly(from_coordinator, from_coordinator')
    BY <1>2, <1>4 DEF StartBenchmark, CoordinatorTakes, PastPreparation
  <2>2. coordinator \notin {"none", "init"}
    BY <2>1, PastFresh
  <2>3. QED BY <1>1, <1>2, <2>1, <2>2, CalmFrame
<1>5. CASE CompleteBenchmark
  <2>1. /\ PastPreparation /\ coordinator = "running" /\ coordinator' = "complete"
        /\ Calmly(to_coordinator, to_coordinator')
        /\ Calmly(from_coordinator, from_coordinator')
    BY <1>2, <1>3, <1>5 DEF CompleteBenchmark, Tell, PastPreparation
  <2>2. QED BY <1>1, <1>2, <2>1, CalmFrame
<1>6. CASE FinishTask \/ LoadFailure
  <2>1. /\ coordinator' = coordinator
        /\ Calmly(to_coordinator, to_coordinator')
        /\ Calmly(from_coordinator, from_coordinator')
    BY <1>2, <1>3, <1>6 DEF FinishTask, LoadFailure, StartBenchmarkFails, LoadFails,
       CoordinatorTakes, Tell
  <2>2. QED BY <1>1, <1>2, <2>1, CalmFrame
<1>7. QED BY <1>4, <1>5, <1>6 DEF LoadStep

\* A step that sends no message of the chain keeps the chain, whatever it
\* does to the preparation.
LEMMA CalmChain ==
    ASSUME Chain,
           Calmly(to_orchestrator, to_orchestrator'), Calmly(to_builder, to_builder'),
           Calmly(from_builder, from_builder'), Calmly(to_coordinator, to_coordinator'),
           Calmly(from_coordinator, from_coordinator'), b_status' = b_status,
           \/ coordinator' = coordinator
           \/ coordinator # "none" /\ coordinator' = "gone"
    PROVE  /\ to_orchestrator' \in Seq(Letter) /\ to_builder' \in Seq(Letter)
           /\ from_builder' \in Seq(Letter) /\ to_coordinator' \in Seq(Letter)
           /\ from_coordinator' \in Seq(Letter)
           /\ Chain' /\ (PastPreparation' => PastPreparation)
<1>1. /\ Fewer(to_orchestrator, to_orchestrator', "Setup")
      /\ Fewer(to_builder, to_builder', "StartEngine")
      /\ Fewer(from_builder, from_builder', "EngineStarted")
      /\ Fewer(to_coordinator, to_coordinator', "PrepareBenchmark")
      /\ Fewer(to_coordinator, to_coordinator', "StartBenchmark")
      /\ Fewer(from_coordinator, from_coordinator', "PreparationComplete")
  BY DEF Calmly, Key
<1>2. Chain'
  BY <1>1, ChainFrame
<1>3. PastPreparation' => PastPreparation
  BY <1>1 DEF PastPreparation, Fewer
<1>4. QED BY <1>2, <1>3 DEF Calmly

\* A step after which the hosts that were done are done and report no more.
LEMMA ReportedFrame ==
    ASSUME Reported, prepared \in Nat, prepared' \in Nat, prepared' <= prepared,
           \A p \in LoadHost :
              /\ Done(p) => Done(p)'
              /\ Fewer(from_preparator[p], from_preparator'[p], "WorkloadPrepared"),
           PastPreparation' => PastPreparation
    PROVE  Reported'
<1>1. Heard \subseteq Heard' /\ Heard' \subseteq LoadHost
  BY DEF Heard, Informed, Fewer
<1>2. /\ Cardinality(Heard) <= Cardinality(Heard')
      /\ Cardinality(Heard) \in Nat /\ Cardinality(Heard') \in Nat
  <2>1. IsFiniteSet(Heard) /\ IsFiniteSet(Heard')
    BY PreparationAssumption, FS_Subset DEF Heard
  <2>2. QED BY <1>1, <2>1, FS_Subset, FS_CardinalityType
<1>3. \A p \in LoadHost : /\ Once(from_preparator'[p], "WorkloadPrepared")
                          /\ Informed(p)' => Done(p)'
  BY DEF Reported, Informed, Fewer
<1>4. prepared' <= Cardinality(Heard')
  BY <1>2 DEF Reported
<1>5. QED BY <1>1, <1>3, <1>4 DEF Reported

\* Steps of the coordinator during preparation.
LEMMA CoordinatorKeepsPrep ==
    ASSUME PrepInv, PrepCoordinatorStep \/ PrepareBenchmarkFails, UNCHANGED OutsidePrep
    PROVE  PrepInv'
<1>0. /\ to_orchestrator \in Seq(Letter) /\ to_builder \in Seq(Letter)
      /\ from_builder \in Seq(Letter) /\ Chain /\ AllHosts /\ MailTypes
      /\ to_coordinator \in Seq(Letter) /\ from_coordinator \in Seq(Letter)
      /\ coordinator \in Stage /\ prepared \in Nat
      /\ to_preparator \in [LoadHost -> Seq(Letter)]
      /\ from_preparator \in [LoadHost -> Seq(Letter)]
  BY DEF PrepInv, MailTypes
<1>1. /\ UNCHANGED <<to_orchestrator, to_builder, from_builder, b_status>>
      /\ UNCHANGED <<preparatorVars, executorVars, to_executor, from_executor>>
         \/ PrepareBenchmark
  BY DEF OutsidePrep, callerVars, engineVars, coordination, PrepCoordinatorStep,
     PrepareBenchmarkFails, ReturnCoordinatorFailure, CoordinatorExits, WorkloadPrepared,
     ForwardPreparatorFailure, prepMail
<1>2. /\ Calmly(to_orchestrator, to_orchestrator') /\ Calmly(to_builder, to_builder')
      /\ Calmly(from_builder, from_builder') /\ Calmly(to_coordinator, to_coordinator)
      /\ Calmly(from_coordinator, from_coordinator)
      /\ to_coordinator # <<>> => Calmly(to_coordinator, Tail(to_coordinator))
      /\ Calmly(from_coordinator, Append(from_coordinator, "BenchmarkFailure"))
  BY <1>0, <1>1, CalmChannel, Letters DEF OtherLetter
<1>3. CASE PrepareBenchmarkFails \/ ReturnCoordinatorFailure
  <2>1. /\ coordinator' = coordinator
        /\ Calmly(to_coordinator, to_coordinator')
        /\ Calmly(from_coordinator, from_coordinator')
        /\ UNCHANGED <<prepared, preparatorVars, executorVars, prepMail>>
    BY <1>2, <1>3 DEF PrepareBenchmarkFails, ReturnCoordinatorFailure,
       CoordinatorTakes, Tell
  <2>2. QED BY <1>1, <1>2, <2>1, CalmFrame
<1>5. CASE PrepareBenchmark
  <2>0. /\ to_coordinator # <<>> /\ Head(to_coordinator) = "PrepareBenchmark"
        /\ to_coordinator' = Tail(to_coordinator) /\ coordinator # "gone"
        /\ coordinator' = "preparing"
        /\ p_status' = [p \in LoadHost |-> "initializing"]
        /\ to_preparator' = [p \in LoadHost |-> <<"PrepareWorkload">>]
        /\ UNCHANGED <<from_coordinator, prepared, processor, tasks, idle,
                       executorVars, from_preparator, to_executor, from_executor>>
    BY <1>5 DEF PrepareBenchmark, CoordinatorTakes
  <2>1. /\ Has(to_coordinator, "PrepareBenchmark")
        /\ ~Has(to_coordinator', "PrepareBenchmark") /\ coordinator = "init"
        /\ Fewer(to_coordinator, to_coordinator', "StartBenchmark")
        /\ Fewer(to_coordinator, to_coordinator', "PrepareBenchmark")
        /\ to_coordinator' \in Seq(Letter)
    BY <1>0, <2>0, FewerMessages DEF Chain
  <2>2. Untouched /\ ~PastPreparation /\ ~PastPreparation'
    <3>1. Untouched /\ ~PastPreparation
      BY <2>1, PastFresh DEF PrepInv, Fresh
    <3>2. QED BY <2>0, <2>1, <3>1 DEF PastPreparation, Fewer
  <2>3. Chain'
    <3>1. /\ Fewer(to_orchestrator, to_orchestrator', "Setup")
          /\ Fewer(to_builder, to_builder', "StartEngine")
          /\ Fewer(from_builder, from_builder', "EngineStarted")
      BY <1>2 DEF Calmly, Key
    <3>2. QED BY <1>0, <1>1, <2>0, <2>1, <3>1, ChainFrame
  <2>4. \A p \in LoadHost : /\ to_preparator'[p] = <<"PrepareWorkload">>
                            /\ Once(to_preparator'[p], "PrepareWorkload")
    <3>1. Once(<<"PrepareWorkload">>, "PrepareWorkload")
      BY DEF Once
    <3>2. QED BY <2>0, <3>1
  <2>5. MailTypes'
    <3>1. <<"PrepareWorkload">> \in Seq(Letter)
      BY Letters DEF OtherLetter
    <3>2. to_preparator' \in [LoadHost -> Seq(Letter)]
      BY <2>0, <3>1
    <3>3. QED BY <1>0, <1>1, <2>0, <2>1, <3>2 DEF MailTypes, Stage
  <2>6. AllHosts' /\ \A p \in LoadHost : ~Done(p) /\ ~Done(p)'
    <3>1. PrepTypes'
      BY <1>0, <2>0 DEF AllHosts, PrepTypes, executorVars
    <3>2. ASSUME NEW p \in LoadHost PROVE HostInv(p)' /\ ~Done(p) /\ ~Done(p)'
      <4>1. /\ HostInv(p) /\ Cold(p) /\ processor[p] = 0 /\ processor'[p] = 0
            /\ p_status'[p] = "initializing"
        BY <1>0, <2>0, <2>2 DEF AllHosts, HostInv, Untouched
      <4>2. \A e \in ExecutorsOf(p) : Same(e) /\ e \in Executor /\ HostOf[e] = p
        BY <2>0 DEF Same, executorVars, ExecutorsOf
      <4>3. \A e \in ExecutorsOf(p) : Place(e)'
        BY <4>1, <4>2, SameExecutor DEF HostInv
      <4>4. ASSUME NEW e \in ExecutorsOf(p) PROVE Assignment(e)'
        <5>1. \A t \in Task : ~Assigned(e, t)
          BY <4>1, <4>2, SingleMessage, TaskShape
             DEF Assigned, Ordered, HostInv, Cold, Place
        <5>2. \A t \in Task : ~Assigned(e, t)'
          BY <4>2, <5>1, SameExecutor
        <5>3. QED BY <5>2 DEF Assignment
      <4>5. Counted(p)'
        <5>1. idle'[p] = 0 /\ IsFiniteSet(Quiet(p)') /\ Cardinality(Quiet(p)') \in Nat
          BY <2>0, <4>1, PreparationAssumption, FS_Subset, FS_CardinalityType
             DEF Cold, Quiet, ExecutorsOf
        <5>2. ~Lost(p)'
          BY <4>1, TaskShape DEF Lost
        <5>3. \A e \in ExecutorsOf(p) : ~Complains(e)'
          BY <4>1, <4>2, SingleMessage DEF Complains, Cold, Same
        <5>4. QED BY <5>1, <5>2, <5>3 DEF Counted, Broken
      <4>6. Exhausted(p)'
        BY <2>0, <4>1 DEF Exhausted, Cold
      <4>7. InOrder(p)' /\ Cold(p)'
        BY <2>0, <4>1 DEF HostInv, InOrder, Cold, executorVars
      <4>8. ~Done(p) /\ ~Done(p)'
        BY <4>1, TaskShape DEF Done
      <4>9. QED BY <4>3, <4>4, <4>5, <4>6, <4>7, <4>8 DEF HostInv
    <3>3. QED BY <3>1, <3>2 DEF AllHosts
  <2>7. Kickoff' /\ Fresh'
    BY <2>0, <2>2, <2>4 DEF Kickoff, Fresh, Untouched
  <2>8. Reported'
    <3>1. Heard' = {} /\ prepared' = 0
      BY <2>0, <2>2, <2>6 DEF Heard, Untouched
    <3>2. \A p \in LoadHost : /\ from_preparator'[p] = <<>>
                              /\ Once(from_preparator'[p], "WorkloadPrepared")
                              /\ ~Informed(p)'
      BY <2>0, <2>2, EmptyChannel DEF Untouched, Informed
    <3>3. QED BY <2>2, <3>1, <3>2, FS_EmptySet DEF Reported
  <2>9. QED BY <2>3, <2>5, <2>6, <2>7, <2>8 DEF PrepInv
<1>6. ASSUME UNCHANGED <<preparatorVars, executorVars, to_executor, from_executor>>
      PROVE  /\ AllHosts' /\ \A p \in LoadHost : Done(p)' <=> Done(p)
             /\ UNCHANGED <<p_status, processor>>
  BY <1>0, <1>6, OutsidePreparators DEF AllKept, Kept, AllHosts, preparatorVars
<1>7. ASSUME NEW p \in LoadHost, NEW m, PreparatorAnswers(p, m)
      PROVE  /\ coordinator \notin {"none", "init", "gone"}
             /\ from_preparator[p] # <<>> /\ Head(from_preparator[p]) = m
             /\ from_preparator'[p] = Tail(from_preparator[p])
             /\ from_preparator' \in [LoadHost -> Seq(Letter)]
             /\ \A q \in LoadHost : Fewer(from_preparator[q], from_preparator'[q],
                                          "WorkloadPrepared")
             /\ \A q \in LoadHost \ {p} : from_preparator'[q] = from_preparator[q]
  <2>1. /\ from_preparator[p] # <<>> /\ Head(from_preparator[p]) = m
        /\ from_preparator' = [from_preparator EXCEPT ![p] = Tail(@)]
        /\ coordinator \notin {"none", "gone"}
    BY <1>7 DEF PreparatorAnswers
  <2>2. coordinator # "init"
    BY <2>1 DEF PrepInv, Fresh, Untouched
  <2>3. \A q \in LoadHost : from_preparator[q] \in Seq(Letter)
    BY <1>0
  <2>4. /\ Tail(from_preparator[p]) \in Seq(Letter)
        /\ Fewer(from_preparator[p], Tail(from_preparator[p]), "WorkloadPrepared")
        /\ \A q \in LoadHost : Fewer(from_preparator[q], from_preparator[q],
                                     "WorkloadPrepared")
    BY <2>1, <2>3, FewerMessages
  <2>5. QED BY <1>0, <2>1, <2>2, <2>4
<1>8. CASE \E p \in LoadHost : ForwardPreparatorFailure(p)
  <2>0. PICK p \in LoadHost : ForwardPreparatorFailure(p)
    BY <1>8
  <2>1. /\ PreparatorAnswers(p, "BenchmarkFailure")
        /\ from_coordinator' = Append(from_coordinator, "BenchmarkFailure")
        /\ UNCHANGED <<to_coordinator, coordinator, prepared, preparatorVars,
                       executorVars, to_preparator, to_executor, from_executor>>
    BY <2>0 DEF ForwardPreparatorFailure, Tell
  <2>2. /\ AllHosts' /\ \A q \in LoadHost : Done(q)' <=> Done(q)
        /\ UNCHANGED <<p_status, processor>>
    BY <1>6, <2>1
  <2>3. /\ coordinator \notin {"none", "init", "gone"}
        /\ from_preparator' \in [LoadHost -> Seq(Letter)]
        /\ \A q \in LoadHost : Fewer(from_preparator[q], from_preparator'[q],
                                     "WorkloadPrepared")
    BY <1>7, <2>1
  <2>4. /\ Calmly(to_coordinator, to_coordinator')
        /\ Calmly(from_coordinator, from_coordinator')
    BY <1>2, <2>1
  <2>5. MailTypes' /\ Chain' /\ (PastPreparation' => PastPreparation)
    BY <1>0, <1>1, <1>2, <2>1, <2>3, <2>4, CalmChain DEF MailTypes
  <2>6. Reported'
    BY <2>1, <2>2, <2>3, <2>5, ReportedFrame DEF PrepInv, MailTypes
  <2>7. Fresh' /\ Kickoff'
    BY <2>1, <2>2, <2>3 DEF PrepInv, Fresh, Kickoff
  <2>8. QED BY <2>2, <2>5, <2>6, <2>7 DEF PrepInv
<1>9. CASE \E p \in LoadHost : WorkloadPrepared(p)
  <2>0. PICK p \in LoadHost : WorkloadPrepared(p)
    BY <1>9
  <2>1. /\ PreparatorAnswers(p, "WorkloadPrepared")
        /\ UNCHANGED <<to_coordinator, preparatorVars, executorVars, to_executor,
                       from_executor>>
    BY <2>0 DEF WorkloadPrepared
  <2>2. /\ AllHosts' /\ \A q \in LoadHost : Done(q)' <=> Done(q)
        /\ UNCHANGED <<p_status, processor>>
    BY <1>6, <2>1
  <2>3. /\ coordinator \notin {"none", "init", "gone"}
        /\ from_preparator[p] # <<>> /\ Head(from_preparator[p]) = "WorkloadPrepared"
        /\ from_preparator'[p] = Tail(from_preparator[p])
        /\ from_preparator' \in [LoadHost -> Seq(Letter)]
        /\ \A q \in LoadHost : Fewer(from_preparator[q], from_preparator'[q],
                                     "WorkloadPrepared")
    BY <1>7, <2>1
  <2>4. Informed(p) /\ ~Informed(p)' /\ Done(p) /\ ~PastPreparation
    <3>1. Informed(p) /\ ~Informed(p)'
      BY <1>0, <2>3, FewerMessages DEF PrepInv, Reported, Informed
    <3>2. QED BY <3>1 DEF PrepInv, Reported, Heard
  <2>5. /\ Cardinality(Heard) + 1 <= Cardinality(Heard') /\ IsFiniteSet(Heard')
        /\ Cardinality(Heard) \in Nat /\ Cardinality(Heard') \in Nat
    <3>1. IsFiniteSet(Heard) /\ IsFiniteSet(Heard')
      BY PreparationAssumption, FS_Subset DEF Heard
    <3>2. p \notin Heard /\ Heard \cup {p} \subseteq Heard'
      BY <2>2, <2>3, <2>4 DEF Heard, Informed, Fewer
    <3>3. Cardinality(Heard \cup {p}) = Cardinality(Heard) + 1
      BY <3>1, <3>2, FS_AddElement
    <3>4. QED BY <3>1, <3>2, <3>3, FS_Subset, FS_CardinalityType
  <2>6. \A q \in LoadHost : /\ Once(from_preparator'[q], "WorkloadPrepared")
                            /\ Informed(q)' => Done(q)'
    BY <2>2, <2>3 DEF PrepInv, Reported, Informed, Fewer
  <2>7. Calmly(to_coordinator, to_coordinator')
    BY <1>2, <2>1
  <2>8. CASE AllPrepared
    <3>1. /\ prepared' = 0 /\ coordinator' = "prepared"
          /\ to_preparator' = [q \in LoadHost |-> Append(to_preparator[q], "Exit")]
          /\ from_coordinator' = Append(from_coordinator, "PreparationComplete")
      BY <2>0, <2>8 DEF WorkloadPrepared, Tell
    <3>2. /\ from_coordinator' \in Seq(Letter)
          /\ to_preparator' \in [LoadHost -> Seq(Letter)]
          /\ \A q \in LoadHost : /\ Fewer(to_preparator[q], to_preparator'[q],
                                           "PrepareWorkload")
      <4>1. "PreparationComplete" \in Letter /\ "Exit" \in Letter
        BY Letters DEF Key, OtherLetter
      <4>2. \A q \in LoadHost : to_preparator[q] \in Seq(Letter)
        BY <1>0
      <4>3. \A q \in LoadHost : /\ Append(to_preparator[q], "Exit") \in Seq(Letter)
                                /\ Fewer(to_preparator[q], Append(to_preparator[q], "Exit"),
                                         "PrepareWorkload")
        BY <4>1, <4>2, FewerMessages
      <4>4. QED BY <1>0, <3>1, <4>1, <4>3, FewerMessages
    <3>3. MailTypes'
      BY <1>0, <1>1, <2>1, <2>3, <3>1, <3>2 DEF MailTypes, Stage
    <3>4. Chain'
      <4>1. /\ Fewer(to_orchestrator, to_orchestrator', "Setup")
            /\ Fewer(to_builder, to_builder', "StartEngine")
            /\ Fewer(from_builder, from_builder', "EngineStarted")
            /\ Fewer(to_coordinator, to_coordinator', "PrepareBenchmark")
        BY <1>2, <2>7 DEF Calmly, Key
      <4>2. ~Has(to_coordinator', "PrepareBenchmark")
        BY <1>0, <2>1, <2>3 DEF Chain
      <4>3. QED BY <1>0, <1>1, <2>3, <4>1, <4>2, ChainFrame
    <3>5. Heard' = LoadHost
      <4>1. prepared + 1 <= Cardinality(Heard') /\ Cardinality(LoadHost) = prepared + 1
        BY <1>0, <2>5, <2>8 DEF PrepInv, Reported, AllPrepared
      <4>2. Heard' \subseteq LoadHost /\ IsFiniteSet(LoadHost)
        BY PreparationAssumption DEF Heard
      <4>3. Cardinality(Heard') <= Cardinality(LoadHost)
            /\ (Cardinality(Heard') = Cardinality(LoadHost) => Heard' = LoadHost)
        BY <4>2, FS_Subset
      <4>4. QED BY <1>0, <2>5, <4>1, <4>3
    <3>6. Reported'
      BY <2>5, <2>6, <3>1, <3>5 DEF Reported
    <3>7. Fresh' /\ Kickoff'
      BY <2>2, <3>1, <3>2 DEF PrepInv, Fresh, Kickoff, Fewer
    <3>8. QED BY <2>2, <3>3, <3>4, <3>6, <3>7 DEF PrepInv
  <2>9. CASE ~AllPrepared
    <3>1. prepared' = prepared + 1
          /\ UNCHANGED <<coordinator, to_preparator, from_coordinator>>
      BY <2>0, <2>9 DEF WorkloadPrepared
    <3>2. MailTypes' /\ Chain' /\ (PastPreparation' => PastPreparation)
      BY <1>0, <1>1, <1>2, <2>3, <2>7, <3>1, CalmChain DEF MailTypes
    <3>3. Reported'
      <4>1. prepared' <= Cardinality(Heard')
        BY <1>0, <2>5, <3>1 DEF PrepInv, Reported
      <4>2. QED BY <2>4, <2>6, <3>2, <4>1 DEF Reported
    <3>4. Fresh' /\ Kickoff'
      BY <2>2, <2>3, <3>1 DEF PrepInv, Fresh, Kickoff
    <3>5. QED BY <2>2, <3>2, <3>3, <3>4 DEF PrepInv
  <2>10. QED BY <2>8, <2>9
<1>10. CASE CoordinatorExits
  <2>1. /\ to_coordinator # <<>> /\ to_coordinator' = Tail(to_coordinator)
        /\ coordinator \notin {"none", "gone"} /\ coordinator' = "gone"
        /\ prepared' = 0 /\ from_preparator' = [p \in LoadHost |-> <<>>]
        /\ to_preparator' = [p \in LoadHost |-> IF p_status[p] \in {"none", "gone"}
                                            THEN to_preparator[p]
                                            ELSE Append(to_preparator[p], "Exit")]
        /\ UNCHANGED <<from_coordinator, preparatorVars, executorVars, to_executor,
                       from_executor>>
    BY <1>10 DEF CoordinatorExits, CoordinatorTakes
  <2>2. /\ AllHosts' /\ \A q \in LoadHost : Done(q)' <=> Done(q)
        /\ UNCHANGED <<p_status, processor>>
    BY <1>6, <2>1
  <2>3. Calmly(to_coordinator, to_coordinator') /\ Calmly(from_coordinator, from_coordinator')
    BY <1>2, <2>1
  <2>4. /\ to_preparator' \in [LoadHost -> Seq(Letter)]
        /\ \A q \in LoadHost : Fewer(to_preparator[q], to_preparator'[q], "PrepareWorkload")
    <3>1. "Exit" \in Letter
      BY Letters DEF OtherLetter
    <3>2. \A q \in LoadHost : to_preparator[q] \in Seq(Letter)
      BY <1>0
    <3>3. \A q \in LoadHost : /\ Append(to_preparator[q], "Exit") \in Seq(Letter)
                              /\ Fewer(to_preparator[q], Append(to_preparator[q], "Exit"),
                                       "PrepareWorkload")
                              /\ Fewer(to_preparator[q], to_preparator[q], "PrepareWorkload")
      BY <3>1, <3>2, FewerMessages
    <3>4. QED BY <2>1, <3>2, <3>3
  <2>5. /\ from_preparator' \in [LoadHost -> Seq(Letter)]
        /\ \A q \in LoadHost : Fewer(from_preparator[q], from_preparator'[q],
                                     "WorkloadPrepared")
    BY <1>0, <2>1, FewerMessages
  <2>6. MailTypes' /\ Chain' /\ (PastPreparation' => PastPreparation)
    BY <1>0, <1>1, <1>2, <2>1, <2>3, <2>4, <2>5, CalmChain DEF MailTypes, Stage
  <2>7. Reported'
    BY <1>0, <2>1, <2>2, <2>5, <2>6, ReportedFrame DEF PrepInv
  <2>8. Fresh' /\ Kickoff'
    BY <2>1, <2>2, <2>4 DEF PrepInv, Fresh, Kickoff, Fewer
  <2>9. QED BY <2>2, <2>6, <2>7, <2>8 DEF PrepInv
<1>11. QED BY <1>3, <1>5, <1>8, <1>9, <1>10 DEF PrepCoordinatorStep

\* A step of a preparator or an executor that does not report.
LEMMA InnerFrame ==
    ASSUME PrepInv, AllKept, UNCHANGED <<OutsidePrep, coordinatorVars>>,
           coordinator \notin {"none", "init"},
           to_preparator' \in [LoadHost -> Seq(Letter)],
           from_preparator' \in [LoadHost -> Seq(Letter)],
           \A p \in LoadHost :
              /\ Fewer(to_preparator[p], to_preparator'[p], "PrepareWorkload")
              /\ \/ processor'[p] = processor[p]
                 \/ ~Has(to_preparator'[p], "PrepareWorkload")
              /\ Fewer(from_preparator[p], from_preparator'[p], "WorkloadPrepared")
    PROVE  PrepInv'
<1>1. UNCHANGED <<to_orchestrator, to_builder, from_builder, b_status, to_coordinator,
                  from_coordinator, coordinator, prepared>>
  BY DEF OutsidePrep, callerVars, engineVars, coordination, coordinatorVars
<1>2. MailTypes' /\ Chain' /\ (PastPreparation' <=> PastPreparation)
  BY <1>1 DEF PrepInv, MailTypes, Chain, Asked, PastPreparation
<1>3. AllHosts' /\ \A p \in LoadHost : Done(p) => Done(p)'
  BY DEF AllKept, AllHosts, Kept
<1>4. Reported'
  BY <1>1, <1>2, <1>3, ReportedFrame DEF PrepInv, MailTypes
<1>5. Fresh' /\ Kickoff'
  BY <1>1 DEF PrepInv, Fresh, Kickoff, Fewer
<1>6. QED BY <1>2, <1>3, <1>4, <1>5 DEF PrepInv

\* Steps of the preparators and executors.
LEMMA InnerKeepsPrep ==
    ASSUME PrepInv, UNCHANGED OutsidePrep,
           \/ \E p \in LoadHost : PreparatorStep(p) \/ PrepareWorkloadFails(p)
                                  \/ PreparatorDies(p)
           \/ \E e \in Executor : \/ ExecutorStep(e) \/ TaskEndsSomehow(e)
                                  \/ ResumeFails(e) \/ StartTaskLoopFails(e)
                                  \/ ExecutorDies(e)
    PROVE  PrepInv'
<1>0. /\ AllHosts /\ MailTypes /\ PrepTypes
      /\ to_preparator \in [LoadHost -> Seq(Letter)]
      /\ from_preparator \in [LoadHost -> Seq(Letter)]
      /\ \A p \in LoadHost : /\ to_preparator[p] \in Seq(Letter)
                             /\ from_preparator[p] \in Seq(Letter)
  BY DEF PrepInv, MailTypes, AllHosts
<1>1. UNCHANGED coordinatorVars
  BY DEF PreparatorStep, PrepareWorkload, PreparatorExits, ReadyForWork, WorkerIdle,
     Resume, ForwardExecutorFailure, PrepareWorkloadFails, PreparatorDies,
     ExecutorStep, StartTaskLoop, DoTask, DoNothing, WakeupFindsDone,
     WakeupFindsFailure, ReturnExecutorFailure, TaskEndsSomehow, TaskEnds,
     ResumeFails, StartTaskLoopFails, ExecutorDies
<1>2. /\ \A p \in LoadHost : p_status[p] # "none" => coordinator \notin {"none", "init"}
      /\ \A e \in Executor : processor[HostOf[e]] # 0 => coordinator \notin {"none", "init"}
  BY OnlyMessage, PreparationAssumption DEF PrepInv, Fresh, Untouched
<1>3. \A p \in LoadHost :
         /\ Fewer(to_preparator[p], to_preparator[p], "PrepareWorkload")
         /\ Fewer(from_preparator[p], from_preparator[p], "WorkloadPrepared")
         /\ from_preparator[p] \in Seq(Letter)
         /\ Append(from_preparator[p], "BenchmarkFailure") \in Seq(Letter)
         /\ Fewer(from_preparator[p], Append(from_preparator[p], "BenchmarkFailure"),
                  "WorkloadPrepared")
  <2>1. "BenchmarkFailure" \in Letter
    BY Letters DEF OtherLetter
  <2>2. QED BY <1>0, <2>1, FewerMessages
<1>4. ASSUME NEW p \in LoadHost, NEW m, PreparatorTakes(p, m)
      PROVE  /\ coordinator \notin {"none", "init"}
             /\ to_preparator' \in [LoadHost -> Seq(Letter)]
             /\ \A q \in LoadHost : Fewer(to_preparator[q], to_preparator'[q],
                                          "PrepareWorkload")
             /\ m = "PrepareWorkload" => /\ Has(to_preparator[p], "PrepareWorkload")
                                         /\ ~Has(to_preparator'[p], "PrepareWorkload")
  <2>1. /\ to_preparator[p] # <<>> /\ Head(to_preparator[p]) = m
        /\ to_preparator' = [to_preparator EXCEPT ![p] = Tail(@)]
        /\ p_status[p] # "none"
    BY <1>4 DEF PreparatorTakes
  <2>2. /\ Tail(to_preparator[p]) \in Seq(Letter)
        /\ Fewer(to_preparator[p], Tail(to_preparator[p]), "PrepareWorkload")
        /\ m = "PrepareWorkload" => /\ Has(to_preparator[p], "PrepareWorkload")
                                    /\ ~Has(Tail(to_preparator[p]), "PrepareWorkload")
    BY <1>0, <2>1, FewerMessages DEF PrepInv, Kickoff
  <2>3. QED BY <1>0, <1>2, <1>3, <2>1, <2>2
<1>5. ASSUME NEW p \in LoadHost, Inform(p, "BenchmarkFailure")
      PROVE  /\ from_preparator' \in [LoadHost -> Seq(Letter)]
             /\ \A q \in LoadHost : Fewer(from_preparator[q], from_preparator'[q],
                                          "WorkloadPrepared")
  BY <1>0, <1>3, <1>5 DEF Inform
<1>6. ASSUME NEW e \in Executor, AllKept, processor[HostOf[e]] # 0,
             UNCHANGED <<processor, to_preparator, from_preparator>>
      PROVE  PrepInv'
  BY <1>0, <1>1, <1>2, <1>3, <1>6, InnerFrame
<1>7. ASSUME NEW e \in Executor, ExecutorStep(e) \/ TaskEndsSomehow(e)
                                 \/ StartTaskLoopFails(e) \/ ExecutorDies(e)
      PROVE  PrepInv'
  <2>1. AllKept
    BY <1>0, <1>7, ExecutorStepKept, TaskDoneKept DEF ExecutorStep, TaskEndsSomehow
  <2>2. UNCHANGED <<processor, to_preparator, from_preparator>>
    BY <1>7 DEF ExecutorStep, StartTaskLoop, DoTask, DoNothing, WakeupFindsDone,
       WakeupFindsFailure, ReturnExecutorFailure, TaskEndsSomehow, TaskEnds,
       StartTaskLoopFails, ExecutorDies, preparatorVars, prepMail
  <2>3. processor[HostOf[e]] # 0
    <3>1. CASE ExecutorDies(e)
      BY <1>0, <3>1, OnlyMessage DEF ExecutorDies, HostInv, Cold
    <3>2. CASE ~ExecutorDies(e)
      <4>1. to_executor[e] # <<>> \/ future[e] # "none"
        BY <1>7, <3>2 DEF ExecutorStep, StartTaskLoop, DoTask, DoNothing, WakeupFindsDone,
           WakeupFindsFailure, ReturnExecutorFailure, TaskEndsSomehow, TaskEnds,
           StartTaskLoopFails, ExecutorTakes
      <4>2. QED BY <1>0, <4>1, OnlyMessage
    <3>3. QED BY <3>1, <3>2
  <2>4. QED BY <1>6, <2>1, <2>2, <2>3
<1>8. ASSUME NEW e \in Executor, ReadyForWork(e) \/ WorkerIdle(e) PROVE PrepInv'
  <2>1. AllKept
    BY <1>0, <1>8, ReadyForWorkKept, WorkerIdleKept
  <2>2. UNCHANGED <<processor, to_preparator, from_preparator>>
    BY <1>8 DEF ReadyForWork, WorkerIdle
  <2>3. processor[HostOf[e]] # 0
    BY <1>0, <1>8, AnswerTaken DEF ReadyForWork, WorkerIdle
  <2>4. QED BY <1>6, <2>1, <2>2, <2>3
<1>9. ASSUME NEW e \in Executor, ForwardExecutorFailure(e) PROVE PrepInv'
  <2>1. AllKept
    BY <1>0, <1>9, ForwardFailureKept
  <2>2. /\ Inform(HostOf[e], "BenchmarkFailure") /\ UNCHANGED <<processor, to_preparator>>
        /\ processor[HostOf[e]] # 0 /\ HostOf[e] \in LoadHost
    BY <1>0, <1>9, AnswerTaken, OnlyMessage DEF ForwardExecutorFailure, preparatorVars
  <2>3. QED BY <1>0, <1>1, <1>2, <1>3, <1>5, <2>1, <2>2, InnerFrame
<1>10. ASSUME NEW e \in Executor,
              ResumeFails(e) \/ (Resume(e) /\ processor[HostOf[e]] # Len(TaskCount))
       PROVE  PrepInv'
  <2>1. AllKept
    BY <1>0, <1>10, ResumeKept, ResumeFailsKept
  <2>2. ExecutorAnswers(e, "WorkerIdle")
    BY <1>10 DEF Resume, ResumeFails
  <2>3. processor[HostOf[e]] # 0 /\ HostOf[e] \in LoadHost
        /\ processor[HostOf[e]] \in 0..Len(TaskCount)
    BY <1>0, <2>2, AnswerTaken, OnlyMessage DEF PrepTypes
  <2>4. /\ UNCHANGED <<to_preparator, from_preparator>>
        /\ processor' = [processor EXCEPT ![HostOf[e]] = @ + 1]
    BY <1>10, <2>3, TaskShape DEF Resume, ResumeFails, StartProcessor
  <2>5. \A q \in LoadHost : \/ processor'[q] = processor[q]
                            \/ ~Has(to_preparator'[q], "PrepareWorkload")
    BY <1>0, <2>3, <2>4 DEF PrepInv, Kickoff, PrepTypes
  <2>6. QED BY <1>0, <1>1, <1>2, <1>3, <2>1, <2>3, <2>4, <2>5, InnerFrame
<1>11. ASSUME NEW e \in Executor, Resume(e), processor[HostOf[e]] = Len(TaskCount)
       PROVE  PrepInv'
  <2>. DEFINE p == HostOf[e]
  <2>1. AllKept /\ Done(p)' /\ p \in LoadHost
    BY <1>0, <1>11, ResumeKept, OnlyMessage
  <2>2. Active(e) /\ processor[p] # 0 /\ e \in ExecutorsOf(p)
    BY <1>0, <1>11, AnswerTaken DEF Resume, ExecutorsOf
  <2>3. ~Done(p) /\ ~Informed(p) /\ ~PastPreparation
    BY <2>1, <2>2 DEF Done, PrepInv, Reported, Heard
  <2>4. /\ Inform(p, "WorkloadPrepared")
        /\ UNCHANGED <<processor, to_preparator>>
    BY <1>11, TaskShape DEF Resume
  <2>5. UNCHANGED <<to_orchestrator, to_builder, from_builder, b_status, to_coordinator,
                    from_coordinator, coordinator, prepared>>
    BY <1>1 DEF OutsidePrep, callerVars, engineVars, coordination, coordinatorVars
  <2>6. /\ from_preparator' \in [LoadHost -> Seq(Letter)]
        /\ Once(from_preparator'[p], "WorkloadPrepared")
        /\ \A q \in LoadHost \ {p} : from_preparator'[q] = from_preparator[q]
    <3>1. "WorkloadPrepared" \in Letter
      BY Letters DEF OtherLetter
    <3>2. /\ Append(from_preparator[p], "WorkloadPrepared") \in Seq(Letter)
          /\ Once(Append(from_preparator[p], "WorkloadPrepared"), "WorkloadPrepared")
          /\ Once(from_preparator[p], "WorkloadPrepared")
      BY <1>0, <2>1, <2>3, <3>1, FewerMessages DEF PrepInv, Reported, Informed
    <3>3. QED BY <1>0, <2>1, <2>4, <3>2 DEF Inform
  <2>7. MailTypes' /\ Chain' /\ ~PastPreparation'
    BY <2>3, <2>4, <2>5, <2>6 DEF PrepInv, MailTypes, Chain, Asked, PastPreparation
  <2>8. AllHosts' /\ \A q \in LoadHost : Done(q) => Done(q)'
    BY <2>1 DEF AllKept, AllHosts, Kept
  <2>9. Reported'
    <3>1. IsFiniteSet(Heard) /\ IsFiniteSet(Heard')
      BY PreparationAssumption, FS_Subset DEF Heard
    <3>2. Heard \subseteq Heard'
      BY <2>3, <2>6, <2>8 DEF Heard, Informed
    <3>3. /\ Cardinality(Heard) <= Cardinality(Heard')
          /\ Cardinality(Heard) \in Nat /\ Cardinality(Heard') \in Nat
      BY <3>1, <3>2, FS_Subset, FS_CardinalityType
    <3>4. prepared' <= Cardinality(Heard')
      BY <2>5, <3>3 DEF PrepInv, Reported, MailTypes
    <3>5. \A q \in LoadHost : /\ Once(from_preparator'[q], "WorkloadPrepared")
                              /\ Informed(q)' => Done(q)'
      BY <2>1, <2>6, <2>8 DEF PrepInv, Reported, Informed
    <3>6. QED BY <2>7, <3>4, <3>5 DEF Reported
  <2>10. Fresh' /\ Kickoff'
    BY <1>2, <2>2, <2>4, <2>5 DEF PrepInv, Fresh, Kickoff
  <2>11. QED BY <2>7, <2>8, <2>9, <2>10 DEF PrepInv
<1>12. ASSUME NEW p \in LoadHost, PrepareWorkload(p) PROVE PrepInv'
  <2>1. /\ PreparatorTakes(p, "PrepareWorkload") /\ UNCHANGED from_preparator
        /\ processor' = [processor EXCEPT ![p] = @ + 1]
    BY <1>12 DEF PrepareWorkload, StartProcessor
  <2>2. /\ coordinator \notin {"none", "init"}
        /\ to_preparator' \in [LoadHost -> Seq(Letter)]
        /\ \A q \in LoadHost : Fewer(to_preparator[q], to_preparator'[q],
                                     "PrepareWorkload")
        /\ Has(to_preparator[p], "PrepareWorkload")
        /\ ~Has(to_preparator'[p], "PrepareWorkload")
    BY <1>4, <2>1
  <2>3. AllKept
    BY <1>0, <1>12, <2>2, PrepareWorkloadKept DEF PrepInv, Kickoff
  <2>4. \A q \in LoadHost : \/ processor'[q] = processor[q]
                            \/ ~Has(to_preparator'[q], "PrepareWorkload")
    BY <1>0, <2>1, <2>2 DEF PrepTypes
  <2>5. QED BY <1>0, <1>1, <1>3, <2>1, <2>2, <2>3, <2>4, InnerFrame
<1>13. ASSUME NEW p \in LoadHost, PrepareWorkloadFails(p) PROVE PrepInv'
  <2>1. /\ PreparatorTakes(p, "PrepareWorkload") /\ Inform(p, "BenchmarkFailure")
        /\ UNCHANGED <<preparatorVars, executorVars, to_executor, from_executor>>
    BY <1>13 DEF PrepareWorkloadFails
  <2>2. AllKept /\ UNCHANGED processor
    BY <1>0, <2>1, OutsidePreparators DEF preparatorVars
  <2>3. QED BY <1>1, <1>4, <1>5, <2>1, <2>2, InnerFrame
<1>14. ASSUME NEW p \in LoadHost, PreparatorExits(p) PROVE PrepInv'
  <2>1. PreparatorTakes(p, "Exit") /\ UNCHANGED <<processor, from_preparator>>
    BY <1>14 DEF PreparatorExits
  <2>2. AllKept
    BY <1>0, <1>14, PreparatorExitsKept
  <2>3. QED BY <1>0, <1>1, <1>3, <1>4, <2>1, <2>2, InnerFrame
<1>15. ASSUME NEW p \in LoadHost, PreparatorDies(p) PROVE PrepInv'
  <2>1. /\ to_preparator' = [to_preparator EXCEPT ![p] = <<>>]
        /\ p_status[p] # "none" /\ UNCHANGED <<processor, from_preparator>>
    BY <1>15 DEF PreparatorDies
  <2>2. /\ to_preparator' \in [LoadHost -> Seq(Letter)]
        /\ \A q \in LoadHost : Fewer(to_preparator[q], to_preparator'[q],
                                     "PrepareWorkload")
    BY <1>0, <1>3, <2>1, FewerMessages
  <2>3. AllKept
    BY <1>0, <1>15, PreparatorDiesKept
  <2>4. QED BY <1>0, <1>1, <1>2, <1>3, <2>1, <2>2, <2>3, InnerFrame
<1>16. QED BY <1>7, <1>8, <1>9, <1>10, <1>11, <1>12, <1>13, <1>14, <1>15
           DEF PreparatorStep, ExecutorsOf

\* The state in which a benchmark begins.
LEMMA InitPrep ==
    ASSUME Init
    PROVE  PrepInv
<1>1. PrepInit /\ EngineInit /\ to_orchestrator = <<"Setup">>
  BY DEF Init
<1>2. MailTypes
  <2>1. <<"Setup">> \in Seq(Letter) /\ <<>> \in Seq(Letter)
    BY Letters DEF Key
  <2>2. QED BY <1>1, <2>1 DEF PrepInit, EngineInit, MailTypes, Stage
<1>3. Chain
  <2>1. Once(<<"Setup">>, "Setup")
    BY DEF Once
  <2>2. QED BY <1>1, <2>1, EmptyChannel DEF PrepInit, EngineInit, Chain, Asked, None
<1>4. Fresh /\ Kickoff
  BY <1>1, EmptyChannel DEF PrepInit, Fresh, Untouched, Kickoff
<1>5. PrepTypes
  BY <1>1, TaskShape DEF PrepInit, PrepTypes
<1>6. ASSUME NEW p \in LoadHost PROVE HostInv(p) /\ ~Done(p)
  <2>0. /\ processor[p] = 0 /\ tasks[p] = 0 /\ idle[p] = 0 /\ finished[p] = {}
        /\ p_status[p] = "none"
        /\ \A e \in ExecutorsOf(p) :
              /\ to_executor[e] = <<>> /\ from_executor[e] = <<>>
              /\ future[e] = "none" /\ task[e] = NoTask
    BY <1>1 DEF PrepInit, ExecutorsOf
  <2>1. ASSUME NEW e \in ExecutorsOf(p) PROVE Place(e) /\ Assignment(e)
    <3>1. \A t \in Task : ~Assigned(e, t)
      BY <2>0, SingleMessage, TaskShape DEF Assigned, Ordered
    <3>2. QED BY <2>0, <3>1 DEF Place, Assignment
  <2>2. Counted(p)
    <3>1. IsFiniteSet(Quiet(p)) /\ Cardinality(Quiet(p)) \in Nat
      BY PreparationAssumption, FS_Subset, FS_CardinalityType DEF Quiet, ExecutorsOf
    <3>2. ~Broken(p)
      BY <2>0, SingleMessage, TaskShape DEF Broken, Lost, Complains
    <3>3. QED BY <2>0, <3>1, <3>2 DEF Counted
  <2>3. Exhausted(p) /\ InOrder(p) /\ Cold(p)
    BY <2>0, TaskShape DEF Exhausted, InOrder, Cold
  <2>4. ~Done(p)
    BY <2>0, TaskShape DEF Done
  <2>5. QED BY <2>1, <2>2, <2>3, <2>4 DEF HostInv
<1>7. Reported
  <2>1. Heard = {} /\ prepared = 0 /\ ~PastPreparation
    BY <1>1, <1>6, EmptyChannel DEF PrepInit, Heard, PastPreparation
  <2>2. \A p \in LoadHost : Once(from_preparator[p], "WorkloadPrepared") /\ ~Informed(p)
    BY <1>1, EmptyChannel DEF PrepInit, Informed
  <2>3. QED BY <2>1, <2>2, FS_EmptySet DEF Reported
<1>8. QED BY <1>2, <1>3, <1>4, <1>5, <1>6, <1>7 DEF PrepInv, AllHosts

\* Every step keeps the invariant of the preparation.
LEMMA NextPrep ==
    ASSUME PrepInv, [Next]_vars
    PROVE  PrepInv'
<1>1. CASE UNCHANGED vars
  <2>1. /\ UNCHANGED <<to_orchestrator, to_builder, from_builder, b_status, to_coordinator,
                       from_coordinator, coordinator>>
        /\ UNCHANGED <<prepared, preparatorVars, executorVars, prepMail>>
    BY <1>1 DEF vars, callerVars, engineVars, coordination, prepVars, coordinatorVars
  <2>2. /\ Calmly(to_orchestrator, to_orchestrator') /\ Calmly(to_builder, to_builder')
        /\ Calmly(from_builder, from_builder') /\ Calmly(to_coordinator, to_coordinator')
        /\ Calmly(from_coordinator, from_coordinator')
    BY <2>1, CalmChannel DEF PrepInv, MailTypes
  <2>3. QED BY <2>1, <2>2, CalmFrame
<1>2. CASE PrepNext
  <2>1. UNCHANGED OutsidePrep
    BY <1>2 DEF PrepNext
  <2>2. CASE PrepCoordinatorStep \/ PrepareBenchmarkFails
    BY <2>1, <2>2, CoordinatorKeepsPrep
  <2>3. CASE ~(PrepCoordinatorStep \/ PrepareBenchmarkFails)
    BY <1>2, <2>1, <2>3, InnerKeepsPrep DEF PrepNext, PrepFails
  <2>4. QED BY <2>2, <2>3
<1>3. CASE LoadStep \/ LoadFailure
  BY <1>3, LoadKeepsPrep
<1>4. CASE EngineNext
  BY <1>4, EngineKeepsPrep
<1>5. CASE CallerStep \/ Interrupt \/ OrchestratorStep \/ OrchestratorFails
  BY <1>5, OrchestratorKeepsPrep
<1>6. QED BY <1>1, <1>2, <1>3, <1>4, <1>5 DEF Next

\* The invariant holds throughout a benchmark.
LEMMA PrepInvariant ==
    Spec => []PrepInv
<1>1. Init => PrepInv
  BY InitPrep
<1>2. PrepInv /\ [Next]_vars => PrepInv'
  BY NextPrep
<1>3. QED BY <1>1, <1>2, PTL DEF Spec

\* No task of the preparation is executed twice on a host, by the same
\* executor or by two of them, and none starts before all tasks of the
\* processors before its own have succeeded there, whoever fails or dies and
\* in whatever order the executors ask for work (receiveMsg_ReadyForWork,
\* receiveMsg_WorkerIdle, resume).
THEOREM TasksOnce ==
    Spec => []EachTaskOnce
<1>1. PrepInv => EachTaskOnce
  <2>. SUFFICES ASSUME PrepInv, NEW e \in Executor, future[e] = "running"
                PROVE  /\ task[e] \notin finished[HostOf[e]]
                       /\ \A f \in ExecutorsOf(HostOf[e]) \ {e} : task[f] # task[e]
                       /\ {t \in Task : t[1] < task[e][1]} \subseteq finished[HostOf[e]]
    BY DEF EachTaskOnce
  <2>1. /\ HostOf[e] \in LoadHost /\ HostInv(HostOf[e])
        /\ Place(e) /\ Assignment(e) /\ PrepTypes
    BY OnlyMessage DEF PrepInv, AllHosts
  <2>2. task[e] \in Task /\ Assigned(e, task[e])
    BY <2>1 DEF Place, PrepTypes, Assigned
  <2>3. /\ task[e][1] = processor[HostOf[e]]
        /\ task[e] \notin finished[HostOf[e]]
        /\ \A f \in ExecutorsOf(HostOf[e]) \ {e} : ~Assigned(f, task[e])
    BY <2>1, <2>2 DEF Assignment
  <2>4. {t \in Task : t[1] < task[e][1]} \subseteq finished[HostOf[e]]
    BY <2>1, <2>3 DEF HostInv, InOrder
  <2>5. QED BY <2>3, <2>4 DEF Assigned
<1>2. QED BY <1>1, PrepInvariant, PTL

\* The benchmark starts only when every task has succeeded on every load
\* generating host: no answer of a host is counted twice, and a host on which
\* a task, an executor or a preparator failed never reports
\* (receiveMsg_WorkloadPrepared, _after_workload_prepared).
THEOREM PreparationCompleted ==
    Spec => []PreparedMeansAllDone
<1>1. PrepInv => PreparedMeansAllDone
  BY DEF PrepInv, Reported, PastPreparation, Heard, Done, PreparedMeansAllDone
<1>2. QED BY <1>1, PrepInvariant, PTL

-----------------------------------------------------------------------------
(* The life cycle: the load generator exists only while the whole engine     *)
(* runs, and nothing is published once the caller has an answer.             *)

EngineTypes ==
    /\ to_dispatcher \in Seq(Letter)
    /\ orders \in [Host -> Seq(Letter)]
    /\ to_node \in [Host -> Seq(Letter)]
    /\ from_node \in [Host -> Seq(Letter)]
    /\ processes \in [Host -> Nat]
    /\ b_children \in Seq(Host \cup {None}) /\ b_responses \in Nat

\* PreparationComplete, StartBenchmark and BenchmarkComplete, once each.
LoadChain ==
    /\ Once(from_coordinator, "PreparationComplete")
    /\ Once(to_coordinator, "StartBenchmark")
    /\ Once(from_coordinator, "BenchmarkComplete")
    /\ Has(from_coordinator, "PreparationComplete") =>
          /\ ~Has(to_coordinator, "StartBenchmark")
          /\ coordinator \in {"prepared", "gone"}
    /\ Has(to_coordinator, "StartBenchmark") => coordinator \in {"prepared", "gone"}
    /\ Has(from_coordinator, "BenchmarkComplete") => coordinator \in {"complete", "gone"}

\* The completion of the load was reported and handled, or never will be.
Past ==
    /\ coordinator \in {"complete", "gone"}
    /\ ~Has(from_coordinator, "BenchmarkComplete")

\* The engine is stopped only after that, ...
Stopping ==
    \/ Has(to_builder, "StopEngine") \/ Has(from_builder, "EngineStopped")
    \/ b_status \in {"cluster_stopping", "cluster_stopped"}
    \/ \E h \in Host : Has(to_node[h], "StopNodes") \/ Has(to_node[h], "Exit")

StopsLast == Stopping => Past

\* ... or because the orchestrator has left.
Exiting ==
    \/ Has(to_builder, "Exit") \/ b_status = "gone" \/ Has(to_dispatcher, "Exit")
    \/ \E h \in Host : Has(orders[h], "Exit")

ExitsLast == orchestrator = "up" => ~Exiting

\* A host that will be told to start, or is.
Queued(h) == h \in pending \/ IpOf[h] \in remotes
Waiting(h) ==
    \/ Has(to_dispatcher, "StartEngine") \/ Queued(h) \/ Has(orders[h], "StartNodes")

\* The hosts on which everything runs and whose answer was counted.
Confirmed ==
    {h \in Host : processes[h] = NodesOn[h] /\ ~Has(from_node[h], "NodesStarted")}

\* The state of the hosts up to the end of the load: each is told to start at
\* most once and answers at most once, and what the BuilderActor has counted
\* are hosts that run.
Provisioned ==
    /\ Has(to_orchestrator, "Setup") \/ Has(to_builder, "StartEngine") =>
          \A h \in Host : /\ ~Waiting(h) /\ processes[h] = 0
                          /\ ~Has(from_node[h], "NodesStarted")
    /\ Once(to_dispatcher, "StartEngine")
    /\ Has(to_dispatcher, "StartEngine") =>
          \A h \in Host : ~Queued(h) /\ ~Has(orders[h], "StartNodes")
    /\ \A h \in Host :
          /\ Once(orders[h], "StartNodes") /\ Once(from_node[h], "NodesStarted")
          /\ Queued(h) => ~Has(orders[h], "StartNodes")
          /\ Waiting(h) => processes[h] = 0 /\ ~Has(from_node[h], "NodesStarted")
          /\ Has(from_node[h], "NodesStarted") => processes[h] = NodesOn[h]
    /\ b_status = "starting" => /\ Len(b_children) = Cardinality(Host)
                                /\ b_responses <= Cardinality(Confirmed)
    /\ Has(from_builder, "EngineStarted") \/ coordinator # "none" =>
          \A h \in Host : processes[h] = NodesOn[h]

Steady ==
    orchestrator = "up" /\ coordinator \notin {"complete", "gone"} /\ ~external

\* No benchmark will be started any more.
NeverStarts ==
    /\ ~Has(to_orchestrator, "Setup") /\ ~Has(to_builder, "StartEngine")
    /\ b_status # "starting" /\ ~Has(from_builder, "EngineStarted") /\ ~Asked

\* There will be no results any more.
Over == cancelled \/ error \/ NeverStarts \/ Past

Answered == to_caller # <<>> \/ caller = "done" => Over

LifeInv ==
    /\ EngineTypes /\ LoadChain /\ StopsLast /\ ExitsLast
    /\ Steady => Provisioned
    /\ Answered

-----------------------------------------------------------------------------
(* Frames.                                                                   *)

\* Messages that matter here are not among those that are only passed on.
Vital == Letter \ {"BenchmarkFailure", "BenchmarkCancelled", "TaskFinished"}
Plainly(s, t) == t \in Seq(Letter) /\ \A m \in Vital : Fewer(s, t, m)

\* The messages of the chains are vital.
LEMMA VitalLetters ==
    /\ \A m \in Key \cup {"Exit", "StopEngine", "EngineStopped", "BenchmarkComplete",
                          "StartNodes", "NodesStarted", "StopNodes"} :
          m \in Vital /\ m \in Letter
    /\ \A m \in {"BenchmarkFailure", "BenchmarkCancelled", "TaskFinished",
                 "NodesStopped"} : m \in Letter
BY DEF Vital, Letter, OtherLetter, Key

\* A channel that is left alone, emptied, read, or gets a message that does
\* not matter.
LEMMA PlainChannel ==
    ASSUME NEW s \in Seq(Letter)
    PROVE  /\ Plainly(s, s) /\ Plainly(s, <<>>)
           /\ s # <<>> => Plainly(s, Tail(s))
           /\ \A x \in {"BenchmarkFailure", "BenchmarkCancelled", "TaskFinished"} :
                 Plainly(s, Append(s, x))
<1>1. Plainly(s, s) /\ Plainly(s, <<>>)
  BY FewerMessages DEF Plainly
<1>2. s # <<>> => Plainly(s, Tail(s))
  BY FewerMessages DEF Plainly
<1>3. ASSUME NEW x \in {"BenchmarkFailure", "BenchmarkCancelled", "TaskFinished"}
      PROVE  Plainly(s, Append(s, x))
  <2>1. x \in Letter /\ \A m \in Vital : x # m
    BY VitalLetters DEF Vital
  <2>2. QED BY <2>1, FewerMessages DEF Plainly
<1>4. QED BY <1>1, <1>2, <1>3

\* Steps that send none of the messages of the load chain.
LEMMA LoadFrame ==
    ASSUME LoadChain,
           Fewer(from_coordinator, from_coordinator', "PreparationComplete"),
           Fewer(to_coordinator, to_coordinator', "StartBenchmark"),
           Fewer(from_coordinator, from_coordinator', "BenchmarkComplete"),
           \/ coordinator' = coordinator \/ coordinator' = "gone"
           \/ coordinator \notin {"prepared", "complete", "gone"}
    PROVE  LoadChain' /\ (Past => Past')
<1>1. LoadChain'
  BY DEF LoadChain, Fewer
<1>2. Past => Past'
  BY DEF Past, Fewer
<1>3. QED BY <1>1, <1>2

\* Steps that leave the engine alone.
LEMMA EngineFrame ==
    ASSUME LifeInv, UNCHANGED <<orchestrator, engineVars>>, Past => Past'
    PROVE  EngineTypes' /\ StopsLast' /\ ExitsLast'
<1>1. EngineTypes'
  BY DEF LifeInv, EngineTypes, engineVars, coordination, dispatch, mail, engines
<1>2. StopsLast'
  BY DEF LifeInv, StopsLast, Stopping, engineVars, coordination, mail
<1>3. ExitsLast'
  BY DEF LifeInv, ExitsLast, Exiting, engineVars, coordination, dispatch, mail
<1>4. QED BY <1>1, <1>2, <1>3

\* Steps that leave the hosts alone.
LEMMA ProvisionedFrame ==
    ASSUME Provisioned,
           UNCHANGED <<dispatch, mail, engines, b_status, b_children, b_responses>>,
           Has(to_orchestrator', "Setup") \/ Has(to_builder', "StartEngine")
              => Has(to_orchestrator, "Setup") \/ Has(to_builder, "StartEngine"),
           Has(from_builder', "EngineStarted") \/ coordinator' # "none"
              => Has(from_builder, "EngineStarted") \/ coordinator # "none"
    PROVE  Provisioned'
<1>1. \A h \in Host : (Waiting(h)' <=> Waiting(h)) /\ (Queued(h)' <=> Queued(h))
  BY DEF Waiting, Queued, dispatch, mail
<1>2. Confirmed' = Confirmed
  BY DEF Confirmed, mail, engines
<1>3. QED BY <1>1, <1>2 DEF Provisioned, dispatch, mail, engines

\* Steps of the coordinator and the load generator.
LEMMA CoordinatorLife ==
    ASSUME LifeInv, UNCHANGED <<callerVars, orchestratorVars, engineVars>>,
           LoadChain', Past => Past', coordinator # "none",
           coordinator \in {"complete", "gone"} => coordinator' \in {"complete", "gone"}
    PROVE  LifeInv'
<1>1. UNCHANGED <<to_orchestrator, to_caller, caller, orchestrator, cancelled, error,
                  to_builder, from_builder, external, b_status, b_children, b_responses,
                  dispatch, mail, engines>>
  BY DEF callerVars, orchestratorVars, engineVars, coordination
<1>2. EngineTypes' /\ StopsLast' /\ ExitsLast'
  BY <1>1, EngineFrame
<1>3. Steady' => Provisioned'
  BY <1>1, ProvisionedFrame DEF LifeInv, Steady
<1>4. Answered'
  BY <1>1 DEF LifeInv, Answered, Over, NeverStarts, Asked
<1>5. QED BY <1>2, <1>3, <1>4 DEF LifeInv

\* Nothing changes.
LEMMA NothingLife ==
    ASSUME LifeInv, UNCHANGED <<callerVars, orchestratorVars, engineVars, coordinatorVars>>
    PROVE  LifeInv'
<1>1. UNCHANGED <<to_orchestrator, to_caller, caller, orchestrator, cancelled, error,
                  to_builder, from_builder, external, b_status, b_children, b_responses,
                  dispatch, mail, engines, to_coordinator, from_coordinator, coordinator>>
  BY DEF callerVars, orchestratorVars, engineVars, coordination, coordinatorVars
<1>2. LoadChain' /\ (Past <=> Past') /\ (Over <=> Over')
  BY <1>1 DEF LifeInv, LoadChain, Past, Over, NeverStarts, Asked
<1>3. EngineTypes' /\ StopsLast' /\ ExitsLast'
  BY <1>1, <1>2, EngineFrame
<1>4. Steady' => Provisioned'
  BY <1>1, ProvisionedFrame DEF LifeInv, Steady
<1>5. Answered'
  BY <1>1, <1>2 DEF LifeInv, Answered
<1>6. QED BY <1>2, <1>3, <1>4, <1>5 DEF LifeInv

-----------------------------------------------------------------------------
(* Steps of the preparation and the load generator.                          *)

\* Steps of the load generator.
LEMMA LoadKeepsLife ==
    ASSUME PrepInv, LifeInv, LoadStep \/ LoadFailure
    PROVE  LifeInv'
<1>0. /\ to_coordinator \in Seq(Letter) /\ from_coordinator \in Seq(Letter) /\ LoadChain
      /\ UNCHANGED <<callerVars, orchestratorVars, engineVars>>
  BY DEF PrepInv, MailTypes, LifeInv, LoadStep, LoadFailure, StartBenchmark, FinishTask,
     CompleteBenchmark, StartBenchmarkFails, LoadFails, LoadGeneratorUnchanged
<1>1. ASSUME Plainly(to_coordinator, to_coordinator'),
             Plainly(from_coordinator, from_coordinator'),
             coordinator # "none", coordinator' = coordinator
      PROVE  LifeInv'
  <2>1. /\ Fewer(from_coordinator, from_coordinator', "PreparationComplete")
        /\ Fewer(to_coordinator, to_coordinator', "StartBenchmark")
        /\ Fewer(from_coordinator, from_coordinator', "BenchmarkComplete")
    BY <1>1, VitalLetters DEF Plainly, Key
  <2>2. LoadChain' /\ (Past => Past')
    BY <1>0, <1>1, <2>1, LoadFrame
  <2>3. QED BY <1>0, <1>1, <2>2, CoordinatorLife
<1>2. CASE FinishTask \/ LoadFails
  <2>1. /\ from_coordinator' \in {Append(from_coordinator, "TaskFinished"),
                                  Append(from_coordinator, "BenchmarkFailure")}
        /\ to_coordinator' = to_coordinator
        /\ coordinator' = coordinator /\ coordinator = "running"
    BY <1>2 DEF FinishTask, LoadFails, Tell
  <2>2. QED BY <1>0, <1>1, <2>1, PlainChannel
<1>3. CASE StartBenchmarkFails
  <2>1. /\ from_coordinator' = Append(from_coordinator, "BenchmarkFailure")
        /\ to_coordinator' = Tail(to_coordinator) /\ to_coordinator # <<>>
        /\ coordinator' = coordinator /\ coordinator # "none"
    BY <1>3 DEF StartBenchmarkFails, Tell, CoordinatorTakes
  <2>2. QED BY <1>0, <1>1, <2>1, PlainChannel
<1>4. CASE StartBenchmark
  <2>1. /\ to_coordinator' = Tail(to_coordinator) /\ to_coordinator # <<>>
        /\ Head(to_coordinator) = "StartBenchmark" /\ from_coordinator' = from_coordinator
        /\ coordinator' = "running" /\ coordinator \notin {"none", "gone"}
    BY <1>4 DEF StartBenchmark, CoordinatorTakes
  <2>2. /\ Has(to_coordinator, "StartBenchmark") /\ ~Has(to_coordinator', "StartBenchmark")
        /\ Once(to_coordinator', "StartBenchmark")
    BY <1>0, <2>1, FewerMessages DEF LoadChain, Fewer
  <2>3. LoadChain' /\ coordinator = "prepared"
    BY <1>0, <2>1, <2>2 DEF LoadChain
  <2>4. QED BY <1>0, <2>1, <2>3, CoordinatorLife DEF Past
<1>5. CASE CompleteBenchmark
  <2>1. /\ from_coordinator' = Append(from_coordinator, "BenchmarkComplete")
        /\ to_coordinator' = to_coordinator
        /\ coordinator = "running" /\ coordinator' = "complete"
    BY <1>5 DEF CompleteBenchmark, Tell
  <2>2. /\ Once(from_coordinator', "BenchmarkComplete")
        /\ Fewer(from_coordinator, from_coordinator', "PreparationComplete")
    BY <1>0, <2>1, VitalLetters, FewerMessages DEF LoadChain
  <2>3. LoadChain'
    BY <1>0, <2>1, <2>2 DEF LoadChain, Fewer
  <2>4. QED BY <1>0, <2>1, <2>3, CoordinatorLife DEF Past
<1>6. QED BY <1>2, <1>3, <1>4, <1>5 DEF LoadStep, LoadFailure

\* Steps of the preparation.
LEMMA PrepKeepsLife ==
    ASSUME PrepInv, LifeInv, PrepNext
    PROVE  LifeInv'
<1>0. /\ to_coordinator \in Seq(Letter) /\ from_coordinator \in Seq(Letter) /\ LoadChain
      /\ UNCHANGED <<callerVars, orchestratorVars, engineVars>>
  BY DEF PrepInv, MailTypes, LifeInv, PrepNext, OutsidePrep
<1>1. ASSUME Plainly(to_coordinator, to_coordinator'),
             Plainly(from_coordinator, from_coordinator'),
             coordinator # "none",
             \/ coordinator' = coordinator \/ coordinator' = "gone"
             \/ coordinator \notin {"prepared", "complete", "gone"}
      PROVE  LifeInv'
  <2>1. /\ Fewer(from_coordinator, from_coordinator', "PreparationComplete")
        /\ Fewer(to_coordinator, to_coordinator', "StartBenchmark")
        /\ Fewer(from_coordinator, from_coordinator', "BenchmarkComplete")
    BY <1>1, VitalLetters DEF Plainly, Key
  <2>2. LoadChain' /\ (Past => Past')
    BY <1>0, <1>1, <2>1, LoadFrame
  <2>3. QED BY <1>0, <1>1, <2>2, CoordinatorLife
<1>2. ASSUME NEW m, CoordinatorTakes(m)
      PROVE  /\ Plainly(to_coordinator, to_coordinator')
             /\ coordinator \notin {"none", "gone"}
             /\ to_coordinator # <<>> /\ Head(to_coordinator) = m
  BY <1>0, <1>2, PlainChannel DEF CoordinatorTakes
<1>3. /\ Plainly(from_coordinator, Append(from_coordinator, "BenchmarkFailure"))
      /\ Plainly(from_coordinator, from_coordinator)
      /\ Plainly(to_coordinator, to_coordinator)
  BY <1>0, PlainChannel
<1>4. CASE PrepareBenchmark
  <2>1. /\ Has(to_coordinator, "PrepareBenchmark") /\ coordinator # "gone"
    BY <1>0, <1>2, <1>4, FewerMessages DEF PrepareBenchmark
  <2>2. coordinator = "init"
    BY <2>1 DEF PrepInv, Chain
  <2>3. QED BY <1>1, <1>2, <1>3, <1>4, <2>2 DEF PrepareBenchmark
<1>5. CASE PrepareBenchmarkFails \/ ReturnCoordinatorFailure
  BY <1>1, <1>2, <1>3, <1>5 DEF PrepareBenchmarkFails, ReturnCoordinatorFailure, Tell
<1>6. CASE CoordinatorExits
  BY <1>1, <1>2, <1>3, <1>6 DEF CoordinatorExits
<1>7. ASSUME NEW p \in LoadHost, ForwardPreparatorFailure(p) PROVE LifeInv'
  BY <1>1, <1>3, <1>7 DEF ForwardPreparatorFailure, PreparatorAnswers, Tell
<1>8. ASSUME NEW p \in LoadHost, WorkloadPrepared(p) PROVE LifeInv'
  <2>1. /\ coordinator \notin {"none", "gone"} /\ to_coordinator' = to_coordinator
        /\ from_preparator[p] # <<>> /\ Head(from_preparator[p]) = "WorkloadPrepared"
    BY <1>8 DEF WorkloadPrepared, PreparatorAnswers
  <2>2. ~PastPreparation
    <3>1. Informed(p)
      BY <2>1, FewerMessages DEF Informed, PrepInv, MailTypes
    <3>2. QED BY <3>1 DEF PrepInv, Reported, Heard
  <2>3. CASE AllPrepared
    <3>1. /\ coordinator' = "prepared"
          /\ from_coordinator' = Append(from_coordinator, "PreparationComplete")
      BY <1>8, <2>3 DEF WorkloadPrepared, Tell
    <3>2. /\ Once(from_coordinator', "PreparationComplete")
          /\ Fewer(from_coordinator, from_coordinator', "BenchmarkComplete")
      BY <1>0, <2>2, <3>1, VitalLetters, FewerMessages DEF LoadChain, PastPreparation, Key
    <3>3. LoadChain' /\ coordinator \notin {"complete", "gone"}
      BY <1>0, <2>1, <2>2, <3>1, <3>2 DEF LoadChain, PastPreparation, Fewer
    <3>4. QED BY <1>0, <2>1, <3>3, CoordinatorLife DEF Past
  <2>4. CASE ~AllPrepared
    BY <1>1, <1>3, <1>8, <2>1, <2>4 DEF WorkloadPrepared
  <2>5. QED BY <2>3, <2>4
<1>9. CASE UNCHANGED coordinatorVars
  BY <1>0, <1>9, NothingLife
<1>10. CASE PrepCoordinatorStep \/ PrepareBenchmarkFails
  BY <1>4, <1>5, <1>6, <1>7, <1>8, <1>10 DEF PrepCoordinatorStep
<1>11. CASE ~(PrepCoordinatorStep \/ PrepareBenchmarkFails)
  <2>1. UNCHANGED coordinatorVars
    BY <1>11 DEF PrepNext, PrepFails, PreparatorStep, PrepareWorkload, PreparatorExits,
     ReadyForWork, WorkerIdle, Resume, ForwardExecutorFailure, PrepareWorkloadFails,
     PreparatorDies, ExecutorStep, StartTaskLoop, DoTask, DoNothing, WakeupFindsDone,
     WakeupFindsFailure, ReturnExecutorFailure, TaskEndsSomehow, TaskEnds,
     ResumeFails, StartTaskLoopFails, ExecutorDies
  <2>2. QED BY <1>9, <2>1
<1>12. QED BY <1>10, <1>11

-----------------------------------------------------------------------------
(* Steps of the caller and the orchestrator.                                 *)

\* A step outside the nodes that sends no message of the chains.
LEMMA OrchestratorFrame ==
    ASSUME LifeInv, UNCHANGED <<external, b_status, b_children, b_responses, dispatch,
                                mail, engines, coordinator>>,
           Fewer(to_orchestrator, to_orchestrator', "Setup"),
           Plainly(to_builder, to_builder'), Plainly(from_builder, from_builder'),
           Fewer(to_coordinator, to_coordinator', "StartBenchmark"),
           Fewer(to_coordinator, to_coordinator', "PrepareBenchmark"),
           Plainly(from_coordinator, from_coordinator'),
           orchestrator' = orchestrator,
           cancelled => cancelled', error => error',
           to_caller' # <<>> \/ caller' = "done" =>
              to_caller # <<>> \/ caller = "done" \/ Over'
    PROVE  LifeInv'
<1>1. /\ Fewer(from_coordinator, from_coordinator', "PreparationComplete")
      /\ Fewer(from_coordinator, from_coordinator', "BenchmarkComplete")
      /\ Fewer(to_builder, to_builder', "StartEngine")
      /\ Fewer(to_builder, to_builder', "StopEngine")
      /\ Fewer(to_builder, to_builder', "Exit")
      /\ Fewer(from_builder, from_builder', "EngineStarted")
      /\ Fewer(from_builder, from_builder', "EngineStopped")
  BY VitalLetters DEF Plainly, Key
<1>2. LoadChain' /\ (Past => Past')
  BY <1>1, LoadFrame DEF LifeInv
<1>3. EngineTypes'
  BY DEF LifeInv, EngineTypes, dispatch, mail, engines
<1>4. StopsLast' /\ ExitsLast'
  BY <1>1, <1>2 DEF LifeInv, StopsLast, Stopping, ExitsLast, Exiting, Fewer, mail, dispatch
<1>5. Steady' => Provisioned'
  BY <1>1, ProvisionedFrame DEF LifeInv, Steady, Fewer
<1>6. Over => Over'
  BY <1>1, <1>2 DEF Over, NeverStarts, Asked, Fewer
<1>7. Answered'
  BY <1>6 DEF LifeInv, Answered
<1>8. QED BY <1>2, <1>3, <1>4, <1>5, <1>7 DEF LifeInv

\* Steps of the caller and the orchestrator.
LEMMA OrchestratorKeepsLife ==
    ASSUME PrepInv, LifeInv,
           CallerStep \/ Interrupt \/ OrchestratorStep \/ OrchestratorFails
    PROVE  LifeInv'
<1>0. /\ Chain /\ LoadChain
      /\ to_orchestrator \in Seq(Letter) /\ to_builder \in Seq(Letter)
      /\ from_builder \in Seq(Letter)
      /\ to_coordinator \in Seq(Letter) /\ from_coordinator \in Seq(Letter)
  BY DEF PrepInv, MailTypes, LifeInv
<1>1. UNCHANGED <<external, b_status, b_children, b_responses, dispatch, mail, engines>>
  BY DEF CallerStep, GetAnswer, GetCancelAnswer, Interrupt, OrchestratorStep,
     OrchestratorFails, Setup, EngineStarted, PreparationComplete, TaskFinished,
     BenchmarkCancelled, BenchmarkFailure, BenchmarkComplete, EngineStopped,
     OrchestratorExits, SetupFails, EngineStartedFails, PreparationCompleteFails,
     TaskFinishedFails, BenchmarkCompleteFails, EngineInside, engineVars, coordination
<1>2. /\ Plainly(to_builder, to_builder) /\ Plainly(from_builder, from_builder)
      /\ Plainly(to_coordinator, to_coordinator)
      /\ Plainly(from_coordinator, from_coordinator)
      /\ Plainly(to_builder, Append(to_builder, "BenchmarkFailure"))
      /\ Plainly(to_coordinator, Append(to_coordinator, "BenchmarkFailure"))
      /\ from_builder # <<>> => Plainly(from_builder, Tail(from_builder))
      /\ from_coordinator # <<>> => Plainly(from_coordinator, Tail(from_coordinator))
      /\ Plainly(from_builder, <<>>) /\ Plainly(from_coordinator, <<>>)
  BY <1>0, PlainChannel
<1>3. /\ Fewer(to_orchestrator, to_orchestrator, "Setup")
      /\ Fewer(to_orchestrator, Append(to_orchestrator, "Exit"), "Setup")
      /\ Fewer(to_orchestrator, Append(to_orchestrator, "BenchmarkCancelled"), "Setup")
      /\ to_orchestrator # <<>> => Fewer(to_orchestrator, Tail(to_orchestrator), "Setup")
  BY <1>0, FewerMessages, VitalLetters
<1>4. ASSUME coordinator' = coordinator, orchestrator' = orchestrator,
             Fewer(to_orchestrator, to_orchestrator', "Setup"),
             Plainly(to_builder, to_builder'), Plainly(from_builder, from_builder'),
             Plainly(to_coordinator, to_coordinator'),
             Plainly(from_coordinator, from_coordinator'),
             cancelled => cancelled', error => error',
             to_caller' # <<>> \/ caller' = "done" =>
                to_caller # <<>> \/ caller = "done" \/ Over'
      PROVE  LifeInv'
  <2>1. /\ Fewer(to_coordinator, to_coordinator', "StartBenchmark")
        /\ Fewer(to_coordinator, to_coordinator', "PrepareBenchmark")
    BY <1>4, VitalLetters DEF Plainly, Key
  <2>2. QED BY <1>1, <1>4, <2>1, OrchestratorFrame
<1>5. CASE CallerStep \/ Interrupt
  <2>1. /\ to_orchestrator' \in {Append(to_orchestrator, "Exit"),
                                 Append(to_orchestrator, "BenchmarkCancelled")}
        /\ UNCHANGED <<coordinator, orchestrator, to_builder, from_builder,
                       to_coordinator, from_coordinator, cancelled, error>>
        /\ to_caller' # <<>> \/ caller' = "done" => to_caller # <<>>
    BY <1>5 DEF CallerStep, GetAnswer, GetCancelAnswer, Interrupt, orchestratorVars,
       engineVars, coordination, prepVars, coordinatorVars
  <2>2. QED BY <1>2, <1>3, <1>4, <2>1
<1>6. CASE SetupFails
  <2>1. /\ to_orchestrator # <<>> /\ Head(to_orchestrator) = "Setup"
        /\ to_orchestrator' = Tail(to_orchestrator)
        /\ UNCHANGED <<coordinator, orchestrator, to_builder, from_builder,
                       to_coordinator, from_coordinator, cancelled, error>>
    BY <1>6 DEF SetupFails, FromCaller, orchestratorVars, engineVars, coordination,
       prepVars, coordinatorVars
  <2>2. Has(to_orchestrator, "Setup") /\ ~Has(to_orchestrator', "Setup")
    BY <1>0, <2>1, FewerMessages DEF Chain
  <2>3. Over'
    BY <1>0, <1>1, <2>1, <2>2 DEF Over, NeverStarts, Chain, Asked
  <2>4. QED BY <1>2, <1>3, <1>4, <2>1, <2>3
<1>7. CASE EngineStartedFails
  <2>1. /\ from_builder # <<>> /\ from_builder' = Tail(from_builder)
        /\ to_builder' = Append(to_builder, "BenchmarkFailure")
        /\ UNCHANGED <<coordinator, orchestrator, to_orchestrator, to_caller, caller,
                       to_coordinator, from_coordinator, cancelled, error>>
    BY <1>7 DEF EngineStartedFails, FromBuilder, callerVars, orchestratorVars, prepVars,
       coordinatorVars
  <2>2. QED BY <1>2, <1>3, <1>4, <2>1
<1>8. CASE \/ PreparationCompleteFails \/ TaskFinishedFails \/ TaskFinished
           \/ \E stored \in BOOLEAN : BenchmarkCompleteFails(stored)
  <2>1. /\ from_coordinator # <<>> /\ from_coordinator' = Tail(from_coordinator)
        /\ to_coordinator' \in {to_coordinator, Append(to_coordinator, "BenchmarkFailure")}
        /\ UNCHANGED <<coordinator, orchestrator, to_orchestrator, to_caller, caller,
                       to_builder, from_builder, cancelled, error>>
    BY <1>8 DEF PreparationCompleteFails, TaskFinishedFails, TaskFinished,
       BenchmarkCompleteFails, RejectedBy, FromCoordinator, callerVars, orchestratorVars,
       engineVars, coordination, PrepInside
  <2>2. QED BY <1>2, <1>3, <1>4, <2>1
<1>9. CASE BenchmarkCancelled
  <2>1. /\ to_orchestrator # <<>> /\ to_orchestrator' = Tail(to_orchestrator)
        /\ cancelled'
        /\ UNCHANGED <<coordinator, orchestrator, to_builder, from_builder,
                       to_coordinator, from_coordinator, error>>
    BY <1>9 DEF BenchmarkCancelled, FromCaller, engineVars, coordination, prepVars,
       coordinatorVars
  <2>2. QED BY <1>2, <1>3, <1>4, <2>1 DEF Over
<1>10. CASE BenchmarkFailure
  <2>1. /\ from_builder' = from_builder
           \/ (from_builder # <<>> /\ from_builder' = Tail(from_builder))
        /\ from_coordinator' = from_coordinator
           \/ (from_coordinator # <<>> /\ from_coordinator' = Tail(from_coordinator))
        /\ error'
        /\ UNCHANGED <<coordinator, orchestrator, to_orchestrator, to_builder,
                       to_coordinator, cancelled>>
    BY <1>10 DEF BenchmarkFailure, FromBuilder, FromCoordinator, PrepInside
  <2>2. QED BY <1>2, <1>3, <1>4, <2>1 DEF Over
<1>11. CASE EngineStopped
  <2>1. /\ from_builder # <<>> /\ Head(from_builder) = "EngineStopped"
        /\ from_builder' = Tail(from_builder)
        /\ UNCHANGED <<coordinator, orchestrator, to_orchestrator, to_builder,
                       to_coordinator, from_coordinator, cancelled, error>>
    BY <1>11 DEF EngineStopped, FromBuilder, orchestratorVars, prepVars, coordinatorVars
  <2>2. Has(from_builder, "EngineStopped")
    BY <1>0, <2>1, FewerMessages
  <2>3. Past /\ Past'
    BY <2>1, <2>2 DEF LifeInv, StopsLast, Stopping, Past
  <2>4. QED BY <1>2, <1>3, <1>4, <2>1, <2>3 DEF Over
<1>12. CASE Setup
  <2>1. /\ to_orchestrator # <<>> /\ Head(to_orchestrator) = "Setup"
        /\ to_orchestrator' = Tail(to_orchestrator)
        /\ to_builder' = Append(to_builder, "StartEngine")
        /\ UNCHANGED <<coordinator, orchestrator, from_builder, to_caller, caller,
                       to_coordinator, from_coordinator, cancelled, error>>
    BY <1>12 DEF Setup, FromCaller, prepVars, coordinatorVars
  <2>2. /\ Has(to_orchestrator, "Setup")
        /\ Fewer(to_builder, to_builder', "StopEngine")
        /\ Fewer(to_builder, to_builder', "Exit")
    BY <1>0, <2>1, FewerMessages, VitalLetters DEF Key
  <2>3. EngineTypes'
    BY <1>1 DEF LifeInv, EngineTypes, dispatch, mail, engines
  <2>4. LoadChain' /\ StopsLast' /\ ExitsLast'
    BY <1>1, <2>1, <2>2 DEF LifeInv, LoadChain, Past, StopsLast, Stopping, ExitsLast,
       Exiting, Fewer, mail, dispatch
  <2>5. Steady' => Provisioned'
    BY <1>1, <2>1, <2>2, ProvisionedFrame DEF LifeInv, Steady
  <2>6. Answered'
    BY <2>1, <2>2 DEF LifeInv, Answered, Over, NeverStarts, Past
  <2>7. QED BY <2>3, <2>4, <2>5, <2>6 DEF LifeInv
<1>13. CASE EngineStarted
  <2>1. /\ from_builder # <<>> /\ Head(from_builder) = "EngineStarted"
        /\ from_builder' = Tail(from_builder) /\ coordinator' = "init"
        /\ to_coordinator' = Append(to_coordinator, "PrepareBenchmark")
        /\ UNCHANGED <<orchestrator, to_orchestrator, to_builder, to_caller, caller,
                       from_coordinator, cancelled, error>>
    BY <1>13 DEF EngineStarted, FromBuilder, callerVars, orchestratorVars
  <2>2. /\ Has(from_builder, "EngineStarted")
        /\ Fewer(from_builder, from_builder', "EngineStopped")
        /\ Fewer(to_coordinator, to_coordinator', "StartBenchmark")
        /\ Fewer(from_coordinator, from_coordinator', "PreparationComplete")
        /\ Fewer(from_coordinator, from_coordinator', "BenchmarkComplete")
    BY <1>0, <2>1, FewerMessages, VitalLetters DEF Key
  <2>3. coordinator = "none"
    BY <1>0, <2>2 DEF Chain, Asked
  <2>4. EngineTypes'
    BY <1>1 DEF LifeInv, EngineTypes, dispatch, mail, engines
  <2>5. LoadChain' /\ (Past => Past')
    BY <1>0, <2>2, <2>3, LoadFrame
  <2>6. StopsLast' /\ ExitsLast'
    BY <1>1, <2>1, <2>2, <2>5 DEF LifeInv, StopsLast, Stopping, ExitsLast,
       Exiting, Fewer, mail, dispatch
  <2>7. Steady' => Provisioned'
    BY <1>1, <2>1, <2>2, <2>3, ProvisionedFrame DEF LifeInv, Steady
  <2>8. Answered'
    BY <2>1, <2>2, <2>5 DEF LifeInv, Answered, Over, NeverStarts
  <2>9. QED BY <2>4, <2>5, <2>6, <2>7, <2>8 DEF LifeInv
<1>14. CASE PreparationComplete
  <2>1. /\ from_coordinator # <<>> /\ Head(from_coordinator) = "PreparationComplete"
        /\ from_coordinator' = Tail(from_coordinator)
        /\ to_coordinator' = Append(to_coordinator, "StartBenchmark")
        /\ UNCHANGED <<callerVars, orchestratorVars, engineVars, coordinator>>
    BY <1>14 DEF PreparationComplete, FromCoordinator, PrepInside
  <2>2. /\ Has(from_coordinator, "PreparationComplete")
        /\ ~Has(from_coordinator', "PreparationComplete")
        /\ Once(from_coordinator', "PreparationComplete")
        /\ Fewer(from_coordinator, from_coordinator', "BenchmarkComplete")
    BY <1>0, <2>1, FewerMessages DEF LoadChain, Fewer
  <2>3. Once(to_coordinator', "StartBenchmark") /\ coordinator \in {"prepared", "gone"}
    BY <1>0, <2>1, <2>2, FewerMessages, VitalLetters DEF LoadChain, Key
  <2>4. LoadChain' /\ (Past => Past')
    BY <1>0, <2>1, <2>2, <2>3 DEF LoadChain, Past, Fewer
  <2>5. QED BY <2>1, <2>3, <2>4, CoordinatorLife
<1>15. CASE BenchmarkComplete
  <2>1. /\ from_coordinator # <<>> /\ Head(from_coordinator) = "BenchmarkComplete"
        /\ from_coordinator' = Tail(from_coordinator)
        /\ to_coordinator' = Append(to_coordinator, "Exit")
        /\ to_builder' = Append(to_builder, "StopEngine")
        /\ UNCHANGED <<coordinator, orchestrator, to_orchestrator, from_builder, to_caller,
                       caller, cancelled, error>>
    BY <1>15 DEF BenchmarkComplete, FromCoordinator, callerVars, PrepInside
  <2>2. /\ Has(from_coordinator, "BenchmarkComplete")
        /\ ~Has(from_coordinator', "BenchmarkComplete")
        /\ Fewer(from_coordinator, from_coordinator', "BenchmarkComplete")
        /\ Fewer(from_coordinator, from_coordinator', "PreparationComplete")
        /\ Fewer(to_coordinator, to_coordinator', "StartBenchmark")
        /\ Fewer(to_builder, to_builder', "Exit")
    BY <1>0, <2>1, FewerMessages, VitalLetters DEF LoadChain
  <2>3. EngineTypes'
    BY <1>1 DEF LifeInv, EngineTypes, dispatch, mail, engines
  <2>4. LoadChain' /\ Past'
    BY <1>0, <2>1, <2>2, LoadFrame DEF Past, LoadChain
  <2>5. ExitsLast'
    BY <1>1, <2>1, <2>2 DEF LifeInv, ExitsLast, Exiting, Fewer, mail, dispatch
  <2>6. StopsLast' /\ ~Steady' /\ Answered'
    BY <2>4 DEF StopsLast, Past, Steady, Answered, Over
  <2>7. QED BY <2>3, <2>4, <2>5, <2>6 DEF LifeInv
<1>16. CASE OrchestratorExits
  <2>1. /\ orchestrator' = "gone" /\ to_orchestrator # <<>>
        /\ to_orchestrator' = Tail(to_orchestrator)
        /\ to_coordinator' = Append(to_coordinator, "Exit")
        /\ to_builder' = Append(to_builder, "Exit")
        /\ from_builder' = <<>> /\ from_coordinator' = <<>>
        /\ UNCHANGED <<coordinator, to_caller, caller, cancelled, error>>
    BY <1>16 DEF OrchestratorExits, FromCaller, PrepInside
  <2>2. /\ Fewer(from_coordinator, from_coordinator', "BenchmarkComplete")
        /\ Fewer(from_coordinator, from_coordinator', "PreparationComplete")
        /\ Fewer(to_coordinator, to_coordinator', "StartBenchmark")
        /\ Fewer(to_coordinator, to_coordinator', "PrepareBenchmark")
        /\ Fewer(to_builder, to_builder', "StopEngine")
        /\ Fewer(to_builder, to_builder', "StartEngine")
        /\ Fewer(from_builder, from_builder', "EngineStarted")
        /\ Fewer(from_builder, from_builder', "EngineStopped")
        /\ Fewer(to_orchestrator, to_orchestrator', "Setup")
    BY <1>0, <2>1, FewerMessages, VitalLetters
  <2>3. EngineTypes'
    BY <1>1 DEF LifeInv, EngineTypes, dispatch, mail, engines
  <2>4. LoadChain' /\ (Past => Past')
    BY <1>0, <2>1, <2>2, LoadFrame
  <2>5. StopsLast' /\ ExitsLast' /\ ~Steady'
    BY <1>1, <2>1, <2>2, <2>4 DEF LifeInv, StopsLast, Stopping, ExitsLast, Steady, Fewer, mail
  <2>6. Answered'
    BY <1>1, <2>1, <2>2, <2>4 DEF LifeInv, Answered, Over, NeverStarts, Asked, Fewer
  <2>7. QED BY <2>3, <2>4, <2>5, <2>6 DEF LifeInv
<1>17. QED BY <1>5, <1>6, <1>7, <1>8, <1>9, <1>10, <1>11, <1>12, <1>13, <1>14, <1>15, <1>16
           DEF OrchestratorStep, OrchestratorFails

-----------------------------------------------------------------------------
(* Steps of the engine.                                                      *)

\* One of the channels of the hosts is read.
LEMMA HostReads ==
    ASSUME NEW c \in [Host -> Seq(Letter)], NEW h \in Host, c[h] # <<>>, NEW d,
           d = [c EXCEPT ![h] = Tail(@)]
    PROVE  /\ d \in [Host -> Seq(Letter)]
           /\ d[h] = Tail(c[h]) /\ \A g \in Host \ {h} : d[g] = c[g]
           /\ \A g \in Host : \A m : Fewer(c[g], d[g], m)
<1>1. c[h] \in Seq(Letter) /\ Tail(c[h]) \in Seq(Letter)
  BY FewerMessages
<1>2. d \in [Host -> Seq(Letter)] /\ d[h] = Tail(c[h]) /\ \A g \in Host \ {h} : d[g] = c[g]
  BY <1>1
<1>3. ASSUME NEW g \in Host, NEW m PROVE Fewer(c[g], d[g], m)
  <2>1. c[g] \in Seq(Letter)
    OBVIOUS
  <2>2. QED BY <1>2, <2>1, FewerMessages
<1>4. QED BY <1>2, <1>3

\* An answer of a host to the BuilderActor.
LEMMA HostAnswers ==
    ASSUME EngineTypes, NEW h \in Host, NEW x \in Letter, Answer(h, x)
    PROVE  /\ from_node' \in [Host -> Seq(Letter)]
           /\ from_node' = from_node \/ from_node'[h] = Append(from_node[h], x)
           /\ b_status # "gone" => from_node'[h] = Append(from_node[h], x)
           /\ \A g \in Host \ {h} : from_node'[g] = from_node[g]
           /\ \A g \in Host : \A m : x # m => Fewer(from_node[g], from_node'[g], m)
<1>1. from_node \in [Host -> Seq(Letter)] /\ from_node[h] \in Seq(Letter)
      /\ Append(from_node[h], x) \in Seq(Letter)
  BY FewerMessages DEF EngineTypes
<1>2. /\ from_node' \in [Host -> Seq(Letter)]
      /\ from_node' = from_node \/ from_node'[h] = Append(from_node[h], x)
      /\ b_status # "gone" => from_node'[h] = Append(from_node[h], x)
      /\ \A g \in Host \ {h} : from_node'[g] = from_node[g]
  BY <1>1 DEF Answer
<1>3. ASSUME NEW g \in Host, NEW m, x # m PROVE Fewer(from_node[g], from_node'[g], m)
  <2>1. from_node[g] \in Seq(Letter)
    BY <1>1
  <2>2. from_node'[g] = from_node[g] \/ from_node'[g] = Append(from_node[g], x)
    BY <1>2
  <2>3. /\ Fewer(from_node[g], from_node[g], m)
        /\ Fewer(from_node[g], Append(from_node[g], x), m)
    BY <1>3, <2>1, FewerMessages
  <2>4. QED BY <2>2, <2>3
<1>4. QED BY <1>2, <1>3

\* Messages to some of the hosts.
LEMMA HostsTold ==
    ASSUME NEW c \in [Host -> Seq(Letter)], NEW x \in Letter, NEW S, NEW d,
           d = [h \in Host |-> IF h \in S THEN Append(c[h], x) ELSE c[h]]
    PROVE  /\ d \in [Host -> Seq(Letter)]
           /\ \A g \in Host : d[g] = IF g \in S THEN Append(c[g], x) ELSE c[g]
           /\ \A g \in Host : \A m : x # m => Fewer(c[g], d[g], m)
<1>1. ASSUME NEW g \in Host
      PROVE  /\ c[g] \in Seq(Letter) /\ Append(c[g], x) \in Seq(Letter)
             /\ d[g] = IF g \in S THEN Append(c[g], x) ELSE c[g]
             /\ \A m : x # m => Fewer(c[g], d[g], m)
  <2>1. c[g] \in Seq(Letter)
    OBVIOUS
  <2>2. QED BY <2>1, FewerMessages
<1>2. QED BY <1>1

\* The BuilderActor takes a message of the orchestrator.
LEMMA BuilderReads ==
    ASSUME MailTypes, NEW x, BuilderTakes(x)
    PROVE  /\ to_builder' = Tail(to_builder) /\ external' = external /\ b_status # "gone"
           /\ Has(to_builder, x)
           /\ \A m : Fewer(to_builder, to_builder', m)
BY FewerMessages DEF MailTypes, BuilderTakes

\* What the engine does never makes it stop or leave by itself.
OnlyWhenTold ==
    /\ external' = external
    /\ \A m : Fewer(to_builder, to_builder', m)
    /\ Stopping' => Stopping
    /\ Exiting' => Exiting
    /\ NeverStarts => NeverStarts'

\* Steps of the BuilderActor that leave the nodes' mail alone.
LEMMA BuilderQuiet ==
    ASSUME MailTypes, EngineTypes, UNCHANGED <<mail, engines, to_orchestrator,
                                               to_coordinator, coordinator>>,
           \/ StartEngineExternal \/ StartEngine \/ StartEngineFails
           \/ StopEngineExternal \/ ReturnFailure \/ ForwardDispatcherFailure
    PROVE  EngineTypes' /\ OnlyWhenTold
<1>0. /\ to_builder \in Seq(Letter) /\ from_builder \in Seq(Letter)
      /\ to_dispatcher \in Seq(Letter)
      /\ UNCHANGED <<orders, to_node, from_node, processes>>
  BY DEF MailTypes, EngineTypes, mail, engines
<1>1. ASSUME NEW x \in Letter
      PROVE  \A m : x # m => Fewer(from_builder, Append(from_builder, x), m)
  BY <1>0, FewerMessages
<1>2. ASSUME to_dispatcher' = to_dispatcher, external' = external,
             \A m : Fewer(to_builder, to_builder', m),
             b_status' = b_status, from_builder' = Append(from_builder, "BenchmarkFailure"),
             b_children' = b_children, b_responses' = b_responses
      PROVE  EngineTypes' /\ OnlyWhenTold
  <2>1. EngineTypes'
    BY <1>0, <1>2 DEF EngineTypes
  <2>2. /\ Fewer(from_builder, from_builder', "EngineStopped")
        /\ Fewer(from_builder, from_builder', "EngineStarted")
    BY <1>1, <1>2, VitalLetters
  <2>3. /\ Fewer(to_builder, to_builder', "StopEngine")
        /\ Fewer(to_builder, to_builder', "StartEngine")
        /\ Fewer(to_builder, to_builder', "Exit")
    BY <1>2
  <2>4. (Stopping' => Stopping) /\ (Exiting' => Exiting)
    BY <1>0, <1>2, <2>2, <2>3 DEF Stopping, Exiting, Fewer
  <2>5. NeverStarts => NeverStarts'
    BY <1>2, <2>2, <2>3 DEF NeverStarts, Asked, Fewer
  <2>6. QED BY <1>2, <2>1, <2>4, <2>5 DEF OnlyWhenTold
<1>3. CASE StartEngineFails \/ ReturnFailure
  BY <1>2, <1>3, BuilderReads DEF StartEngineFails, ReturnFailure, Report, dispatch
<1>4. CASE ForwardDispatcherFailure
  <2>1. \A m : Fewer(to_builder, to_builder, m)
    BY <1>0, FewerMessages
  <2>2. QED BY <1>2, <1>4, <2>1 DEF ForwardDispatcherFailure, Report
<1>5. CASE StopEngineExternal
  <2>1. /\ Has(to_builder, "StopEngine") /\ \A m : Fewer(to_builder, to_builder', m)
        /\ from_builder' = Append(from_builder, "EngineStopped")
        /\ UNCHANGED <<external, b_status, b_children, b_responses, to_dispatcher>>
    BY <1>5, BuilderReads DEF StopEngineExternal, Report, dispatch
  <2>2. /\ Fewer(from_builder, from_builder', "EngineStarted")
        /\ Fewer(to_builder, to_builder', "Exit")
        /\ Fewer(to_builder, to_builder', "StartEngine")
    BY <1>1, <2>1, VitalLetters
  <2>3. EngineTypes'
    BY <1>0, <2>1 DEF EngineTypes
  <2>4. Stopping /\ (Exiting' => Exiting) /\ (NeverStarts => NeverStarts')
    BY <1>0, <2>1, <2>2 DEF Stopping, Exiting, NeverStarts, Asked, Fewer
  <2>5. QED BY <2>1, <2>3, <2>4 DEF OnlyWhenTold
<1>6. CASE StartEngineExternal
  <2>1. /\ Has(to_builder, "StartEngine") /\ \A m : Fewer(to_builder, to_builder', m)
        /\ from_builder' = Append(from_builder, "EngineStarted")
        /\ b_status' = "cluster_started" /\ b_responses' = 0
        /\ UNCHANGED <<external, b_children, to_dispatcher>>
    BY <1>6, BuilderReads DEF StartEngineExternal, Report, dispatch
  <2>2. /\ Fewer(from_builder, from_builder', "EngineStopped")
        /\ Fewer(to_builder, to_builder', "Exit")
        /\ Fewer(to_builder, to_builder', "StopEngine")
    BY <1>1, <2>1, VitalLetters DEF Key
  <2>3. EngineTypes'
    BY <1>0, <2>1 DEF EngineTypes
  <2>4. (Stopping' => Stopping) /\ (Exiting' => Exiting) /\ ~NeverStarts
    BY <1>0, <2>1, <2>2 DEF Stopping, Exiting, NeverStarts, Fewer
  <2>5. QED BY <2>1, <2>3, <2>4 DEF OnlyWhenTold
<1>7. CASE StartEngine
  <2>1. /\ Has(to_builder, "StartEngine") /\ \A m : Fewer(to_builder, to_builder', m)
        /\ to_dispatcher' = Append(to_dispatcher, "StartEngine")
        /\ b_status' = "starting" /\ b_responses' = 0
        /\ b_children' = [i \in 1..Cardinality(Host) |-> None]
        /\ UNCHANGED <<external, from_builder>>
    BY <1>7, BuilderReads DEF StartEngine
  <2>2. /\ Fewer(to_dispatcher, to_dispatcher', "Exit")
        /\ to_dispatcher' \in Seq(Letter)
        /\ Fewer(to_builder, to_builder', "Exit")
        /\ Fewer(to_builder, to_builder', "StopEngine")
    BY <1>0, <2>1, FewerMessages, VitalLetters DEF Key
  <2>3. b_children' \in Seq(Host \cup {None})
    <3>1. Cardinality(Host) \in Nat
      BY EngineAssumption, FS_CardinalityType
    <3>2. QED BY <2>1, <3>1
  <2>4. EngineTypes'
    BY <1>0, <2>1, <2>2, <2>3 DEF EngineTypes
  <2>5. (Stopping' => Stopping) /\ (Exiting' => Exiting) /\ ~NeverStarts
    BY <1>0, <2>1, <2>2 DEF Stopping, Exiting, NeverStarts, Fewer
  <2>6. QED BY <2>1, <2>4, <2>5 DEF OnlyWhenTold
<1>8. QED BY <1>3, <1>4, <1>5, <1>6, <1>7

\* Filling in a placeholder keeps the number of children.
LEMMA FillInLength ==
    ASSUME EngineTypes, NEW h \in Host
    PROVE  FillIn(h) \in Seq(Host \cup {None}) /\ Len(FillIn(h)) = Len(b_children)
<1>1. b_children \in Seq(Host \cup {None})
  BY DEF EngineTypes
<1>2. CASE h \in KnownChildren \/ b_children = <<>>
  BY <1>1, <1>2 DEF FillIn
<1>3. CASE ~(h \in KnownChildren \/ b_children = <<>>)
  <2>. DEFINE M == Host \cup {None}
  <2>1. b_children \in Seq(M) /\ <<h>> \in Seq(M) /\ Len(<<h>>) = 1
    BY <1>1
  <2>2. <<h>> \o b_children \in Seq(M) /\ Len(<<h>> \o b_children) = 1 + Len(b_children)
    BY <2>1
  <2>3. PICK s \in Seq(M) : s = <<h>> \o b_children /\ Len(s) = 1 + Len(b_children)
    BY <2>2
  <2>4. Len(b_children) \in Nat
    BY <2>1
  <2>5. SubSeq(s, 1, Len(b_children)) \in Seq(M)
        /\ Len(SubSeq(s, 1, Len(b_children))) = Len(b_children)
    BY <2>3, <2>4
  <2>6. QED BY <1>3, <2>3, <2>5 DEF FillIn
<1>4. QED BY <1>2, <1>3

\* The BuilderActor takes the answer of a host.
LEMMA BuilderHears ==
    ASSUME EngineTypes, NEW h \in Host, NEW x, NodeAnswers(h, x)
    PROVE  /\ external' = external /\ b_status # "gone"
           /\ from_node[h] # <<>> /\ Head(from_node[h]) = x
           /\ from_node[h] \in Seq(Letter) /\ Has(from_node[h], x)
           /\ from_node' \in [Host -> Seq(Letter)]
           /\ from_node'[h] = Tail(from_node[h])
           /\ \A g \in Host \ {h} : from_node'[g] = from_node[g]
           /\ \A g \in Host : \A m : Fewer(from_node[g], from_node'[g], m)
<1>1. /\ from_node \in [Host -> Seq(Letter)] /\ from_node[h] # <<>>
      /\ external' = external /\ b_status # "gone" /\ Head(from_node[h]) = x
      /\ from_node' = [from_node EXCEPT ![h] = Tail(@)]
  BY DEF EngineTypes, NodeAnswers
<1>2. from_node[h] \in Seq(Letter)
  BY <1>1
<1>3. Has(from_node[h], x)
  BY <1>1, <1>2, FewerMessages
<1>4. QED BY <1>1, <1>2, <1>3, HostReads

\* Steps of the BuilderActor that involve the nodes.
LEMMA BuilderTalks ==
    ASSUME MailTypes, EngineTypes,
           UNCHANGED <<to_orchestrator, to_coordinator, coordinator>>,
           \/ StopEngine \/ BuilderExits
           \/ \E h \in Host : NodesStarted(h) \/ NodesStopped(h) \/ ForwardNodeFailure(h)
    PROVE  EngineTypes' /\ OnlyWhenTold
<1>0. /\ to_builder \in Seq(Letter) /\ from_builder \in Seq(Letter)
      /\ to_dispatcher \in Seq(Letter) /\ to_node \in [Host -> Seq(Letter)]
      /\ \A m : Fewer(to_builder, to_builder, m)
  BY FewerMessages DEF MailTypes, EngineTypes
<1>1. ASSUME NEW x \in Letter
      PROVE  \A m : x # m => Fewer(from_builder, Append(from_builder, x), m)
  BY <1>0, FewerMessages
<1>2. CASE StopEngine
  <2>1. /\ Has(to_builder, "StopEngine") /\ \A m : Fewer(to_builder, to_builder', m)
        /\ b_status' = "cluster_stopping" /\ to_node' \in [Host -> Seq(Letter)]
        /\ UNCHANGED <<external, from_builder, b_children, b_responses, to_dispatcher,
                       orders, from_node, processes>>
    <3>1. to_node' = [h \in Host |-> IF h \in KnownChildren
                                     THEN Append(to_node[h], "StopNodes") ELSE to_node[h]]
      BY <1>2 DEF StopEngine
    <3>2. to_node' \in [Host -> Seq(Letter)]
      BY <1>0, <3>1, HostsTold, VitalLetters
    <3>3. QED BY <1>2, <3>2, BuilderReads DEF StopEngine, dispatch, engines
  <2>2. Fewer(to_builder, to_builder', "Exit") /\ Fewer(to_builder, to_builder', "StartEngine")
    BY <2>1
  <2>3. EngineTypes'
    BY <2>1 DEF EngineTypes
  <2>4. Stopping /\ (Exiting' => Exiting) /\ (NeverStarts => NeverStarts')
    BY <2>1, <2>2 DEF Stopping, Exiting, NeverStarts, Asked, Fewer
  <2>5. QED BY <2>1, <2>3, <2>4 DEF OnlyWhenTold
<1>3. CASE BuilderExits
  <2>1. /\ Has(to_builder, "Exit") /\ \A m : Fewer(to_builder, to_builder', m)
        /\ to_dispatcher' = Append(to_dispatcher, "Exit")
        /\ from_node' = [h \in Host |-> <<>>] /\ b_status' = "gone"
        /\ b_children' = <<>> /\ b_responses' = 0
        /\ UNCHANGED <<external, from_builder, orders, to_node, processes>>
    BY <1>3, BuilderReads DEF BuilderExits, engines
  <2>2. Fewer(to_builder, to_builder', "StopEngine")
        /\ Fewer(to_builder, to_builder', "StartEngine")
    BY <2>1
  <2>3. EngineTypes'
    <3>1. to_dispatcher' \in Seq(Letter) /\ <<>> \in Seq(Letter)
      BY <1>0, <2>1, FewerMessages, VitalLetters
    <3>2. QED BY <2>1, <3>1 DEF EngineTypes
  <2>4. (Stopping' => Stopping) /\ Exiting /\ (NeverStarts => NeverStarts')
    BY <2>1, <2>2 DEF Stopping, Exiting, NeverStarts, Asked, Fewer
  <2>5. QED BY <2>1, <2>3, <2>4 DEF OnlyWhenTold
<1>4. ASSUME NEW h \in Host, ForwardNodeFailure(h) PROVE EngineTypes' /\ OnlyWhenTold
  <2>1. /\ from_node' \in [Host -> Seq(Letter)]
        /\ from_builder' = Append(from_builder, "BenchmarkFailure")
        /\ UNCHANGED <<external, to_builder, b_status, b_children, b_responses,
                       to_dispatcher, orders, to_node, processes>>
    BY <1>4, BuilderHears DEF ForwardNodeFailure, Report, dispatch, engines
  <2>2. /\ Fewer(from_builder, from_builder', "EngineStopped")
        /\ Fewer(from_builder, from_builder', "EngineStarted")
    BY <1>1, <2>1, VitalLetters
  <2>3. EngineTypes'
    BY <2>1 DEF EngineTypes
  <2>4. /\ (Stopping' => Stopping) /\ (Exiting' => Exiting)
        /\ (NeverStarts => NeverStarts')
    BY <2>1, <2>2 DEF Stopping, Exiting, NeverStarts, Asked, Fewer
  <2>5. QED BY <1>0, <2>1, <2>3, <2>4 DEF OnlyWhenTold
<1>5. ASSUME NEW h \in Host, NodesStarted(h) PROVE EngineTypes' /\ OnlyWhenTold
  <2>1. /\ from_node' \in [Host -> Seq(Letter)] /\ b_status = "starting"
        /\ b_children' \in Seq(Host \cup {None})
        /\ b_responses' \in {0, b_responses + 1} /\ b_status' \in {b_status, "cluster_started"}
        /\ from_builder' \in {from_builder, Append(from_builder, "EngineStarted")}
        /\ UNCHANGED <<external, to_builder, to_dispatcher, orders, to_node, processes>>
    BY <1>5, BuilderHears, FillInLength DEF NodesStarted, Report, dispatch, engines
  <2>2. Fewer(from_builder, from_builder', "EngineStopped")
    <3>1. /\ Fewer(from_builder, from_builder, "EngineStopped")
          /\ Fewer(from_builder, Append(from_builder, "EngineStarted"), "EngineStopped")
      BY <1>0, <1>1, FewerMessages, VitalLetters DEF Key
    <3>2. QED BY <2>1, <3>1
  <2>3. EngineTypes'
    BY <2>1, SMTT(30) DEF EngineTypes
  <2>4. (Stopping' => Stopping) /\ (Exiting' => Exiting) /\ ~NeverStarts
    BY <2>1, <2>2 DEF Stopping, Exiting, NeverStarts, Fewer
  <2>5. QED BY <1>0, <2>1, <2>3, <2>4 DEF OnlyWhenTold
<1>6. ASSUME NEW h \in Host, NodesStopped(h) PROVE EngineTypes' /\ OnlyWhenTold
  <2>1. /\ from_node' \in [Host -> Seq(Letter)] /\ b_status = "cluster_stopping"
        /\ b_children' \in {b_children, <<>>}
        /\ b_responses' \in {0, b_responses + 1} /\ b_status' \in {b_status, "cluster_stopped"}
        /\ from_builder' \in {from_builder, Append(from_builder, "EngineStopped")}
        /\ UNCHANGED <<external, to_builder, to_dispatcher, orders, processes>>
    BY <1>6, BuilderHears DEF NodesStopped, Report, dispatch, engines
  <2>2. to_node' \in [Host -> Seq(Letter)]
    <3>1. \/ to_node' = to_node
          \/ to_node' = [g \in Host |-> IF g \in KnownChildren
                                        THEN Append(to_node[g], "Exit") ELSE to_node[g]]
      BY <1>6 DEF NodesStopped
    <3>2. "Exit" \in Letter
      BY VitalLetters
    <3>3. CASE to_node' = to_node
      BY <1>0, <3>3
    <3>4. CASE to_node' # to_node
      <4>1. to_node' = [g \in Host |-> IF g \in KnownChildren
                                       THEN Append(to_node[g], "Exit") ELSE to_node[g]]
        BY <3>1, <3>4
      <4>2. QED BY <1>0, <3>2, <4>1, HostsTold
    <3>5. QED BY <3>3, <3>4
  <2>3. Fewer(from_builder, from_builder', "EngineStarted")
    <3>1. /\ Fewer(from_builder, from_builder, "EngineStarted")
          /\ Fewer(from_builder, Append(from_builder, "EngineStopped"), "EngineStarted")
      BY <1>0, <1>1, FewerMessages, VitalLetters
    <3>2. QED BY <2>1, <3>1
  <2>4. EngineTypes'
    <3>1. <<>> \in Seq(Host \cup {None})
      OBVIOUS
    <3>2. b_children \in Seq(Host \cup {None}) /\ b_responses \in Nat
      BY DEF EngineTypes
    <3>3. b_children' \in Seq(Host \cup {None})
      BY <2>1, <3>1, <3>2
    <3>4. b_responses' \in Nat
      BY <2>1, <3>2
    <3>5. QED BY <2>1, <2>2, <3>3, <3>4 DEF EngineTypes
  <2>5. Stopping /\ (Exiting' => Exiting) /\ (NeverStarts => NeverStarts')
    BY <2>1, <2>3 DEF Stopping, Exiting, NeverStarts, Asked, Fewer
  <2>6. QED BY <1>0, <2>1, <2>4, <2>5 DEF OnlyWhenTold
<1>7. QED BY <1>2, <1>3, <1>4, <1>5, <1>6

\* Steps of the dispatcher and the nodes.
LEMMA NodesOnlyWhenTold ==
    ASSUME MailTypes, EngineTypes, UNCHANGED <<coordination, to_orchestrator,
                                               to_coordinator, coordinator>>,
           EngineTypes',
           Has(to_dispatcher', "Exit") => Has(to_dispatcher, "Exit"),
           \A h \in Host :
              /\ Has(orders'[h], "Exit") => Has(orders[h], "Exit") \/ Has(to_dispatcher, "Exit")
              /\ Has(to_node'[h], "Exit") => Has(to_node[h], "Exit")
              /\ Has(to_node'[h], "StopNodes") => Has(to_node[h], "StopNodes")
    PROVE  EngineTypes' /\ OnlyWhenTold
<1>1. /\ UNCHANGED <<external, to_builder, from_builder, b_status>>
      /\ \A m : Fewer(to_builder, to_builder, m)
  BY FewerMessages DEF MailTypes, coordination
<1>2. (Stopping' => Stopping) /\ (Exiting' => Exiting) /\ (NeverStarts => NeverStarts')
  BY <1>1 DEF Stopping, Exiting, NeverStarts, Asked
<1>3. QED BY <1>1, <1>2 DEF OnlyWhenTold

\* The dispatcher takes a message.
LEMMA DispatcherReads ==
    ASSUME EngineTypes, NEW x, DispatcherTakes(x)
    PROVE  /\ to_dispatcher # <<>> /\ Head(to_dispatcher) = x
           /\ to_dispatcher' = Tail(to_dispatcher) /\ to_dispatcher' \in Seq(Letter)
           /\ Has(to_dispatcher, x)
           /\ \A m : Fewer(to_dispatcher, to_dispatcher', m)
BY FewerMessages DEF EngineTypes, DispatcherTakes

\* Steps of the dispatcher.
LEMMA DispatcherObeys ==
    ASSUME MailTypes, EngineTypes,
           UNCHANGED <<to_orchestrator, to_coordinator, coordinator>>,
           \/ DispatcherStep
           \/ \E created \in SUBSET LocalHosts : DispatchFails(created)
    PROVE  EngineTypes' /\ OnlyWhenTold
<1>0. /\ UNCHANGED <<coordination, to_node, from_node, engines>>
      /\ orders \in [Host -> Seq(Letter)] /\ to_dispatcher \in Seq(Letter)
  BY DEF DispatcherStep, Dispatch, ConventionUpdate, DispatcherExits, DispatchFails,
     EngineTypes, mail
<1>1. ASSUME to_dispatcher' \in Seq(Letter), orders' \in [Host -> Seq(Letter)],
             Has(to_dispatcher', "Exit") => Has(to_dispatcher, "Exit"),
             \A h \in Host :
                Has(orders'[h], "Exit") => Has(orders[h], "Exit") \/ Has(to_dispatcher, "Exit")
      PROVE  EngineTypes' /\ OnlyWhenTold
  <2>1. EngineTypes'
    BY <1>0, <1>1 DEF EngineTypes, coordination, engines
  <2>2. QED BY <1>0, <1>1, <2>1, NodesOnlyWhenTold
<1>2. ASSUME NEW S, SendPending(S)
      PROVE  /\ orders' \in [Host -> Seq(Letter)]
             /\ \A h \in Host : Has(orders'[h], "Exit") => Has(orders[h], "Exit")
  <2>1. orders' = [h \in Host |-> IF h \in S THEN Append(orders[h], "StartNodes")
                                             ELSE orders[h]]
    BY <1>2 DEF SendPending
  <2>2. "StartNodes" \in Letter
    BY VitalLetters
  <2>3. orders' \in [Host -> Seq(Letter)]
    BY <1>0, <2>1, <2>2, HostsTold
  <2>4. ASSUME NEW h \in Host PROVE Fewer(orders[h], orders'[h], "Exit")
    <3>1. orders[h] \in Seq(Letter) /\ orders'[h] \in {orders[h], Append(orders[h], "StartNodes")}
      BY <1>0, <2>1
    <3>2. /\ Fewer(orders[h], orders[h], "Exit")
          /\ Fewer(orders[h], Append(orders[h], "StartNodes"), "Exit")
      BY <2>2, <3>1, FewerMessages
    <3>3. QED BY <3>1, <3>2
  <2>5. QED BY <2>3, <2>4 DEF Fewer
<1>3. CASE Dispatch
  <2>1. orders' = orders \/ SendPending(LocalHosts)
    BY <1>3 DEF Dispatch
  <2>2. to_dispatcher' \in Seq(Letter) /\ Fewer(to_dispatcher, to_dispatcher', "Exit")
    BY <1>3, DispatcherReads DEF Dispatch
  <2>3. QED BY <1>0, <1>1, <1>2, <2>1, <2>2 DEF Fewer
<1>4. ASSUME NEW created, DispatchFails(created) PROVE EngineTypes' /\ OnlyWhenTold
  <2>1. orders' = orders
    BY <1>4 DEF DispatchFails, mail
  <2>2. to_dispatcher' \in Seq(Letter) /\ Fewer(to_dispatcher, to_dispatcher', "Exit")
    BY <1>4, DispatcherReads DEF DispatchFails
  <2>3. QED BY <1>0, <1>1, <2>1, <2>2 DEF Fewer
<1>5. ASSUME NEW ip, ConventionUpdate(ip) PROVE EngineTypes' /\ OnlyWhenTold
  <2>1. orders' = orders \/ SendPending(pending \cup {h \in Host : IpOf[h] = ip})
    BY <1>5 DEF ConventionUpdate
  <2>2. to_dispatcher' = to_dispatcher
    BY <1>5 DEF ConventionUpdate
  <2>3. QED BY <1>0, <1>1, <1>2, <2>1, <2>2
<1>6. CASE DispatcherExits
  <2>1. orders' = [h \in Host |-> IF node[h] = "up" THEN Append(orders[h], "Exit")
                                                    ELSE orders[h]]
    BY <1>6 DEF DispatcherExits
  <2>2. orders' = [h \in Host |-> IF h \in {g \in Host : node[g] = "up"}
                                  THEN Append(orders[h], "Exit") ELSE orders[h]]
    BY <2>1
  <2>3. "Exit" \in Letter
    BY VitalLetters
  <2>4. orders' \in [Host -> Seq(Letter)]
    BY <1>0, <2>2, <2>3, HostsTold
  <2>5. /\ to_dispatcher' \in Seq(Letter) /\ Fewer(to_dispatcher, to_dispatcher', "Exit")
        /\ Has(to_dispatcher, "Exit")
    BY <1>6, DispatcherReads DEF DispatcherExits
  <2>6. QED BY <1>1, <2>4, <2>5 DEF Fewer
<1>7. QED BY <1>3, <1>4, <1>5, <1>6 DEF DispatcherStep

\* A host takes a message of the dispatcher or the BuilderActor.
LEMMA HostTakes ==
    ASSUME EngineTypes, NEW h \in Host, NEW x,
           TakesFromDispatcher(h, x) \/ TakesFromBuilder(h, x)
    PROVE  /\ orders' \in [Host -> Seq(Letter)] /\ to_node' \in [Host -> Seq(Letter)]
           /\ \A g \in Host : \A m : /\ Fewer(orders[g], orders'[g], m)
                                     /\ Fewer(to_node[g], to_node'[g], m)
<1>0. /\ orders \in [Host -> Seq(Letter)] /\ to_node \in [Host -> Seq(Letter)]
  BY DEF EngineTypes
<1>1. ASSUME NEW c \in [Host -> Seq(Letter)]
      PROVE  \A g \in Host : \A m : Fewer(c[g], c[g], m)
  <2>1. \A g \in Host : c[g] \in Seq(Letter)
    OBVIOUS
  <2>2. QED BY <2>1, FewerMessages
<1>2. CASE TakesFromDispatcher(h, x)
  <2>1. orders[h] # <<>> /\ orders' = [orders EXCEPT ![h] = Tail(@)] /\ to_node' = to_node
    BY <1>2 DEF TakesFromDispatcher
  <2>2. QED BY <1>0, <1>1, <2>1, HostReads
<1>3. CASE TakesFromBuilder(h, x)
  <2>1. to_node[h] # <<>> /\ to_node' = [to_node EXCEPT ![h] = Tail(@)] /\ orders' = orders
    BY <1>3 DEF TakesFromBuilder
  <2>2. QED BY <1>0, <1>1, <2>1, HostReads
<1>4. QED BY <1>2, <1>3

\* Steps of the nodes.
LEMMA NodesObey ==
    ASSUME MailTypes, EngineTypes,
           UNCHANGED <<to_orchestrator, to_coordinator, coordinator>>, NEW h \in Host,
           \/ NodeStep(h) \/ NodeExitFails(h)
           \/ \E created \in BOOLEAN : StartNodesFails(h, created)
           \/ \E k \in 1..NodesOn[h] : LaunchFails(h, k)
           \/ \E left \in 0..processes[h] : StopNodesFails(h, left)
    PROVE  EngineTypes' /\ OnlyWhenTold
<1>0. /\ UNCHANGED <<coordination, dispatch>>
      /\ orders \in [Host -> Seq(Letter)] /\ to_node \in [Host -> Seq(Letter)]
      /\ processes \in [Host -> Nat] /\ NodesOn[h] \in Nat
  BY EngineAssumption DEF NodeStep, StartNodes, StopNodes, NodeExits, NodeExitFails,
     StartNodesFails, LaunchFails, StopNodesFails, EngineTypes
<1>1. ASSUME processes' \in [Host -> Nat], from_node' \in [Host -> Seq(Letter)],
             orders' \in [Host -> Seq(Letter)], to_node' \in [Host -> Seq(Letter)],
             \A g \in Host : \A m : /\ Fewer(orders[g], orders'[g], m)
                                    /\ Fewer(to_node[g], to_node'[g], m)
      PROVE  EngineTypes' /\ OnlyWhenTold
  <2>1. EngineTypes'
    BY <1>0, <1>1 DEF EngineTypes, coordination, dispatch
  <2>2. \A g \in Host : /\ Fewer(orders[g], orders'[g], "Exit")
                        /\ Fewer(to_node[g], to_node'[g], "Exit")
                        /\ Fewer(to_node[g], to_node'[g], "StopNodes")
    BY <1>1
  <2>3. to_dispatcher' = to_dispatcher
    BY <1>0 DEF dispatch
  <2>4. QED BY <1>0, <2>1, <2>2, <2>3, NodesOnlyWhenTold DEF Fewer
<1>2. \A x \in {"NodesStarted", "NodesStopped", "BenchmarkFailure"} :
         Answer(h, x) => from_node' \in [Host -> Seq(Letter)]
  BY HostAnswers, VitalLetters
<1>3. ASSUME NEW n \in Nat PROVE [processes EXCEPT ![h] = n] \in [Host -> Nat]
  BY <1>0
<1>4. CASE StartNodes(h)
  BY <1>0, <1>1, <1>2, <1>3, <1>4, HostTakes DEF StartNodes
<1>5. CASE \E created \in BOOLEAN : StartNodesFails(h, created)
  BY <1>0, <1>1, <1>2, <1>5, HostTakes DEF StartNodesFails
<1>6. CASE \E k \in 1..NodesOn[h] : LaunchFails(h, k)
  <2>1. PICK k \in 1..NodesOn[h] : LaunchFails(h, k)
    BY <1>6
  <2>2. k \in Nat
    BY <1>0
  <2>3. processes' \in [Host -> Nat]
    BY <1>3, <2>1, <2>2 DEF LaunchFails
  <2>4. QED BY <1>1, <1>2, <2>1, <2>3, HostTakes DEF LaunchFails
<1>7. CASE StopNodes(h)
  <2>1. processes' \in [Host -> Nat]
    BY <1>0, <1>3, <1>7 DEF StopNodes, StopsEngine
  <2>2. QED BY <1>1, <1>2, <1>7, <2>1, HostTakes DEF StopNodes
<1>8. CASE \E left \in 0..processes[h] : StopNodesFails(h, left)
  <2>1. PICK left \in 0..processes[h] : StopNodesFails(h, left)
    BY <1>8
  <2>2. left \in Nat
    BY <1>0
  <2>3. processes' \in [Host -> Nat]
    BY <1>3, <2>1, <2>2 DEF StopNodesFails
  <2>4. QED BY <1>1, <1>2, <2>1, <2>3, HostTakes DEF StopNodesFails
<1>9. CASE NodeExits(h) \/ NodeExitFails(h)
  <2>1. processes' \in [Host -> Nat]
    BY <1>0, <1>3, <1>9 DEF NodeExits, NodeExitFails, StopsEngine
  <2>2. from_node' \in [Host -> Seq(Letter)]
    BY <1>2, <1>9 DEF NodeExits, NodeExitFails, EngineTypes
  <2>3. /\ orders' = [orders EXCEPT ![h] = <<>>]
        /\ to_node' = [to_node EXCEPT ![h] = <<>>]
    BY <1>9 DEF NodeExits, NodeExitFails, NodeEnds
  <2>4. ASSUME NEW c \in [Host -> Seq(Letter)], NEW d, d = [c EXCEPT ![h] = <<>>]
        PROVE  d \in [Host -> Seq(Letter)] /\ \A g \in Host : \A m : Fewer(c[g], d[g], m)
    <3>1. \A g \in Host : c[g] \in Seq(Letter) /\ d[g] \in {c[g], <<>>}
      BY <2>4
    <3>2. <<>> \in Seq(Letter)
      OBVIOUS
    <3>3. QED BY <2>4, <3>1, <3>2, FewerMessages
  <2>5. QED BY <1>0, <1>1, <2>1, <2>2, <2>3, <2>4
<1>10. QED BY <1>4, <1>5, <1>6, <1>7, <1>8, <1>9 DEF NodeStep

-----------------------------------------------------------------------------
(* The hosts up to the end of the load.                                      *)

\* The confirmed hosts can be counted.
LEMMA ConfirmedCounts ==
    /\ Cardinality(Host) \in Nat
    /\ Confirmed \subseteq Host /\ Confirmed' \subseteq Host
    /\ Cardinality(Confirmed) \in Nat /\ Cardinality(Confirmed') \in Nat
    /\ Confirmed \subseteq Confirmed' => Cardinality(Confirmed) <= Cardinality(Confirmed')
    /\ Cardinality(Confirmed') <= Cardinality(Host)
    /\ Cardinality(Confirmed') = Cardinality(Host) => Confirmed' = Host
    /\ \A h \in Host \ Confirmed :
          Cardinality(Confirmed \cup {h}) = Cardinality(Confirmed) + 1
<1>1. IsFiniteSet(Host) /\ Confirmed \subseteq Host /\ Confirmed' \subseteq Host
  BY EngineAssumption DEF Confirmed
<1>2. IsFiniteSet(Confirmed) /\ IsFiniteSet(Confirmed')
  BY <1>1, FS_Subset
<1>3. QED BY <1>1, <1>2, FS_Subset, FS_CardinalityType, FS_AddElement

\* Steps of the BuilderActor that count nothing.
LEMMA ProvisionedAnswers ==
    ASSUME Provisioned, EngineTypes,
           UNCHANGED <<to_dispatcher, remotes, pending, orders, processes, b_status,
                       b_children, b_responses, coordinator, to_orchestrator>>,
           Fewer(to_builder, to_builder', "StartEngine"),
           Fewer(from_builder, from_builder', "EngineStarted"),
           \A h \in Host : Fewer(from_node[h], from_node'[h], "NodesStarted")
    PROVE  Provisioned'
<1>1. \A h \in Host : (Waiting(h)' <=> Waiting(h)) /\ (Queued(h)' <=> Queued(h))
  BY DEF Waiting, Queued
<1>2. Confirmed \subseteq Confirmed'
  BY DEF Confirmed, Fewer
<1>3. b_status' = "starting" => /\ Len(b_children') = Cardinality(Host)
                                /\ b_responses' <= Cardinality(Confirmed')
  <2>1. b_responses \in Nat
    BY DEF EngineTypes
  <2>2. QED BY <1>2, <2>1, ConfirmedCounts DEF Provisioned
<1>4. QED BY <1>1, <1>3 DEF Provisioned, Fewer

\* Steps of the dispatcher.
LEMMA ProvisionedOrders ==
    ASSUME Provisioned,
           UNCHANGED <<coordination, from_node, processes, coordinator, to_orchestrator>>,
           Once(to_dispatcher', "StartEngine"),
           Has(to_dispatcher', "StartEngine") => Has(to_dispatcher, "StartEngine"),
           \A h \in Host :
              /\ Waiting(h)' => Waiting(h)
              /\ Once(orders'[h], "StartNodes")
              /\ Queued(h)' => ~Has(orders'[h], "StartNodes")
              /\ Has(to_dispatcher', "StartEngine")
                    => ~Queued(h)' /\ ~Has(orders'[h], "StartNodes")
    PROVE  Provisioned'
<1>1. Confirmed' = Confirmed
  BY DEF Confirmed
<1>2. QED BY <1>1 DEF Provisioned, coordination

\* A host takes the order to start: it was not told before.
LEMMA StartTaken ==
    ASSUME Provisioned, EngineTypes, NEW h \in Host, TakesFromDispatcher(h, "StartNodes")
    PROVE  /\ ~Has(orders'[h], "StartNodes") /\ Once(orders'[h], "StartNodes")
           /\ \A g \in Host \ {h} : orders'[g] = orders[g]
           /\ Waiting(h) /\ ~Queued(h) /\ ~Has(to_dispatcher, "StartEngine")
           /\ processes[h] = 0 /\ ~Has(from_node[h], "NodesStarted") /\ h \notin Confirmed
<1>1. /\ orders[h] # <<>> /\ Head(orders[h]) = "StartNodes"
      /\ orders' = [orders EXCEPT ![h] = Tail(@)]
      /\ orders \in [Host -> Seq(Letter)]
  BY DEF TakesFromDispatcher, EngineTypes
<1>2. orders[h] \in Seq(Letter) /\ Once(orders[h], "StartNodes")
  BY <1>1 DEF Provisioned
<1>3. /\ orders'[h] = Tail(orders[h])
      /\ \A g \in Host \ {h} : orders'[g] = orders[g]
  BY <1>1
<1>4. /\ Has(orders[h], "StartNodes") /\ ~Has(orders'[h], "StartNodes")
      /\ Once(orders'[h], "StartNodes")
  BY <1>1, <1>2, <1>3, FewerMessages DEF Fewer
<1>5. NodesOn[h] # 0
  BY EngineAssumption
<1>6. QED BY <1>3, <1>4, <1>5 DEF Provisioned, Waiting, Confirmed

\* What a host does when it is told to start.
LEMMA ProvisionedStarts ==
    ASSUME Provisioned, EngineTypes, NEW h \in Host, TakesFromDispatcher(h, "StartNodes"),
           UNCHANGED <<coordination, dispatch, coordinator, to_orchestrator>>,
           \A g \in Host \ {h} : /\ processes'[g] = processes[g]
                                 /\ from_node'[g] = from_node[g],
           Once(from_node'[h], "NodesStarted"),
           Has(from_node'[h], "NodesStarted") => processes'[h] = NodesOn[h]
    PROVE  Provisioned'
<1>1. /\ ~Has(orders'[h], "StartNodes") /\ Once(orders'[h], "StartNodes")
      /\ \A g \in Host \ {h} : orders'[g] = orders[g]
      /\ Waiting(h) /\ ~Queued(h) /\ ~Has(to_dispatcher, "StartEngine")
      /\ processes[h] = 0 /\ h \notin Confirmed
  BY StartTaken
<1>2. UNCHANGED <<to_builder, from_builder, b_status, b_children, b_responses,
                  to_dispatcher, remotes, pending>>
  BY DEF coordination, dispatch
<1>3. /\ ~Waiting(h)' /\ ~Queued(h)'
      /\ \A g \in Host \ {h} : (Waiting(g)' <=> Waiting(g)) /\ (Queued(g)' <=> Queued(g))
  BY <1>1, <1>2 DEF Waiting, Queued
<1>4. Confirmed \subseteq Confirmed'
  BY <1>1 DEF Confirmed
<1>5. b_status' = "starting" => /\ Len(b_children') = Cardinality(Host)
                                /\ b_responses' <= Cardinality(Confirmed')
  <2>1. b_responses \in Nat
    BY DEF EngineTypes
  <2>2. QED BY <1>2, <1>4, <2>1, ConfirmedCounts DEF Provisioned
<1>6. /\ ~(Has(to_orchestrator, "Setup") \/ Has(to_builder, "StartEngine"))
      /\ ~(Has(from_builder, "EngineStarted") \/ coordinator # "none")
  <2>1. NodesOn[h] # 0
    BY EngineAssumption
  <2>2. QED BY <1>1, <2>1 DEF Provisioned
<1>7. ASSUME NEW g \in Host
      PROVE  /\ Once(orders'[g], "StartNodes") /\ Once(from_node'[g], "NodesStarted")
             /\ Queued(g)' => ~Has(orders'[g], "StartNodes")
             /\ Waiting(g)' => processes'[g] = 0 /\ ~Has(from_node'[g], "NodesStarted")
             /\ Has(from_node'[g], "NodesStarted") => processes'[g] = NodesOn[g]
  <2>1. CASE g = h
    BY <1>1, <1>3, <2>1
  <2>2. CASE g # h
    BY <1>1, <1>3, <2>2 DEF Provisioned
  <2>3. QED BY <2>1, <2>2
<1>8. QED BY <1>1, <1>2, <1>5, <1>6, <1>7 DEF Provisioned

\* Nothing stops and nobody leaves before the end of the load.
LEMMA SteadyGoes ==
    ASSUME LifeInv, Steady
    PROVE  /\ Provisioned /\ ~Stopping /\ ~Exiting /\ b_status # "gone" /\ ~external
BY DEF LifeInv, Steady, StopsLast, ExitsLast, Past, Exiting

\* Steps of the BuilderActor up to the end of the load.
LEMMA BuilderProvisions ==
    ASSUME PrepInv, LifeInv, Steady, UNCHANGED OutsideEngine,
           BuilderStep \/ StartEngineFails
    PROVE  Provisioned'
<1>0. /\ Provisioned /\ ~Stopping /\ ~Exiting /\ ~external /\ MailTypes /\ EngineTypes /\ Chain
      /\ to_builder \in Seq(Letter) /\ from_builder \in Seq(Letter)
      /\ to_dispatcher \in Seq(Letter) /\ from_node \in [Host -> Seq(Letter)]
      /\ UNCHANGED <<coordinator, to_orchestrator, to_coordinator>>
  BY SteadyGoes DEF PrepInv, LifeInv, MailTypes, EngineTypes, OutsideEngine, callerVars,
     prepVars, coordinatorVars
<1>1. /\ \A m : Fewer(to_builder, to_builder, m)
      /\ Fewer(from_builder, from_builder, "EngineStarted")
      /\ Fewer(from_builder, Append(from_builder, "BenchmarkFailure"), "EngineStarted")
  BY <1>0, FewerMessages, VitalLetters
<1>2. \A h \in Host : Fewer(from_node[h], from_node[h], "NodesStarted")
  <2>1. \A h \in Host : from_node[h] \in Seq(Letter)
    BY <1>0
  <2>2. QED BY <2>1, FewerMessages
<1>3. CASE StartEngineFails \/ ReturnFailure
  <2>1. /\ \A m : Fewer(to_builder, to_builder', m)
        /\ from_builder' = Append(from_builder, "BenchmarkFailure")
        /\ UNCHANGED <<to_dispatcher, remotes, pending, orders, processes, b_status,
                       b_children, b_responses, from_node>>
    BY <1>0, <1>3, BuilderReads DEF StartEngineFails, ReturnFailure, Report, dispatch, mail,
       engines
  <2>2. QED BY <1>0, <1>1, <1>2, <2>1, ProvisionedAnswers
<1>4. CASE ForwardDispatcherFailure
  <2>1. /\ from_builder' = Append(from_builder, "BenchmarkFailure")
        /\ UNCHANGED <<to_builder, to_dispatcher, remotes, pending, orders, processes,
                       b_status, b_children, b_responses, from_node>>
    BY <1>4 DEF ForwardDispatcherFailure, Report, mail, engines
  <2>2. QED BY <1>0, <1>1, <1>2, <2>1, ProvisionedAnswers
<1>5. ASSUME NEW h \in Host, ForwardNodeFailure(h) PROVE Provisioned'
  <2>1. /\ from_builder' = Append(from_builder, "BenchmarkFailure")
        /\ UNCHANGED <<to_builder, to_dispatcher, remotes, pending, orders, processes,
                       b_status, b_children, b_responses>>
        /\ \A g \in Host : \A m : Fewer(from_node[g], from_node'[g], m)
    BY <1>0, <1>5, BuilderHears DEF ForwardNodeFailure, Report, dispatch, engines
  <2>2. \A g \in Host : Fewer(from_node[g], from_node'[g], "NodesStarted")
    BY <2>1
  <2>3. QED BY <1>0, <1>1, <2>1, <2>2, ProvisionedAnswers
<1>6. CASE StartEngine
  <2>1. /\ to_builder' = Tail(to_builder) /\ to_builder # <<>>
        /\ Head(to_builder) = "StartEngine"
        /\ to_dispatcher' = Append(to_dispatcher, "StartEngine")
        /\ b_status' = "starting" /\ b_responses' = 0
        /\ b_children' = [i \in 1..Cardinality(Host) |-> None]
        /\ UNCHANGED <<from_builder, remotes, pending, orders, from_node, processes>>
    BY <1>6 DEF StartEngine, BuilderTakes, mail, engines
  <2>2. Has(to_builder, "StartEngine") /\ ~Has(to_builder', "StartEngine")
    BY <1>0, <2>1, FewerMessages DEF Chain
  <2>3. /\ ~Has(to_orchestrator, "Setup") /\ ~Has(from_builder, "EngineStarted")
        /\ coordinator = "none"
    BY <1>0, <2>2 DEF Chain, Asked
  <2>4. \A h \in Host : /\ ~Waiting(h) /\ processes[h] = 0
                        /\ ~Has(from_node[h], "NodesStarted")
    BY <1>0, <2>2 DEF Provisioned
  <2>5. Once(to_dispatcher', "StartEngine")
    <3>1. ~Has(to_dispatcher, "StartEngine") /\ Once(to_dispatcher, "StartEngine")
      BY <1>0, <2>4, EngineAssumption DEF Provisioned, Waiting
    <3>2. QED BY <1>0, <2>1, <3>1, FewerMessages, VitalLetters DEF Key
  <2>6. \A h \in Host : (Queued(h)' <=> Queued(h)) /\ ~Queued(h) /\ ~Has(orders[h], "StartNodes")
    BY <2>1, <2>4 DEF Queued, Waiting
  <2>7. Len(b_children') = Cardinality(Host) /\ b_responses' <= Cardinality(Confirmed')
    BY <2>1, ConfirmedCounts
  <2>8. QED BY <1>0, <2>1, <2>2, <2>3, <2>4, <2>5, <2>6, <2>7 DEF Provisioned
<1>7. ASSUME NEW h \in Host, NodesStarted(h) PROVE Provisioned'
  <2>1. /\ b_status = "starting" /\ b_children' = FillIn(h)
        /\ UNCHANGED <<to_builder, to_dispatcher, remotes, pending, orders, processes>>
        /\ IF Responded(b_children')
           THEN /\ b_status' = "cluster_started"
                /\ from_builder' = Append(from_builder, "EngineStarted")
           ELSE /\ b_status' = "starting" /\ b_responses' = b_responses + 1
                /\ from_builder' = from_builder
    BY <1>7 DEF NodesStarted, Report, dispatch, engines
  <2>2. /\ from_node[h] # <<>> /\ Head(from_node[h]) = "NodesStarted"
        /\ from_node[h] \in Seq(Letter) /\ Has(from_node[h], "NodesStarted")
        /\ from_node'[h] = Tail(from_node[h])
        /\ \A g \in Host \ {h} : from_node'[g] = from_node[g]
    BY <1>0, <1>7, BuilderHears DEF NodesStarted
  <2>3. /\ processes[h] = NodesOn[h] /\ ~Has(from_node'[h], "NodesStarted")
        /\ Once(from_node'[h], "NodesStarted")
    BY <1>0, <2>2, FewerMessages DEF Provisioned, Fewer
  <2>4. h \notin Confirmed /\ Confirmed' = Confirmed \cup {h}
    BY <2>1, <2>2, <2>3 DEF Confirmed
  <2>5. /\ ~Has(to_orchestrator, "Setup") /\ ~Has(to_builder, "StartEngine")
        /\ ~Has(from_builder, "EngineStarted") /\ coordinator = "none"
    BY <1>0, <2>1 DEF Chain, Asked
  <2>6. /\ Len(b_children') = Cardinality(Host) /\ b_responses \in Nat
        /\ b_responses + 1 <= Cardinality(Confirmed')
    <3>1. Cardinality(Confirmed') = Cardinality(Confirmed) + 1
      BY <2>4, ConfirmedCounts
    <3>2. b_responses \in Nat /\ b_responses <= Cardinality(Confirmed)
          /\ Len(b_children) = Cardinality(Host)
      BY <1>0, <2>1 DEF Provisioned, EngineTypes
    <3>3. QED BY <1>0, <2>1, <3>1, <3>2, ConfirmedCounts, FillInLength
  <2>7. \A g \in Host : (Waiting(g)' <=> Waiting(g)) /\ (Queued(g)' <=> Queued(g))
    BY <2>1 DEF Waiting, Queued
  <2>8. ASSUME NEW g \in Host
        PROVE  /\ Once(orders'[g], "StartNodes") /\ Once(from_node'[g], "NodesStarted")
               /\ Queued(g)' => ~Has(orders'[g], "StartNodes")
               /\ Waiting(g)' => processes'[g] = 0 /\ ~Has(from_node'[g], "NodesStarted")
               /\ Has(from_node'[g], "NodesStarted") => processes'[g] = NodesOn[g]
    <3>1. CASE g = h
      BY <1>0, <2>1, <2>2, <2>3, <2>7, <3>1 DEF Provisioned
    <3>2. CASE g # h
      BY <1>0, <2>1, <2>2, <2>7, <3>2 DEF Provisioned
    <3>3. QED BY <3>1, <3>2
  <2>9. Has(from_builder', "EngineStarted") \/ coordinator' # "none" =>
           \A g \in Host : processes'[g] = NodesOn[g]
    <3>1. CASE Responded(b_children')
      <4>1. b_responses + 1 = Cardinality(Host)
        BY <2>6, <3>1 DEF Responded
      <4>2. Confirmed' = Host
        BY <2>6, <4>1, ConfirmedCounts
      <4>3. QED BY <4>2 DEF Confirmed
    <3>2. CASE ~Responded(b_children')
      BY <1>0, <2>1, <2>5, <3>2
    <3>3. QED BY <3>1, <3>2
  <2>10. b_status' = "starting" => b_responses' <= Cardinality(Confirmed')
    BY <2>1, <2>6
  <2>11. QED BY <1>0, <2>1, <2>5, <2>6, <2>7, <2>8, <2>9, <2>10 DEF Provisioned
<1>8. ~StopEngine /\ ~BuilderExits /\ ~StartEngineExternal /\ ~StopEngineExternal
  BY <1>0, BuilderReads DEF StopEngine, BuilderExits, StartEngineExternal,
     StopEngineExternal, Stopping, Exiting
<1>9. \A h \in Host : ~NodesStopped(h)
  BY <1>0 DEF NodesStopped, Stopping
<1>10. QED BY <1>3, <1>4, <1>5, <1>6, <1>7, <1>8, <1>9 DEF BuilderStep

\* Steps of the dispatcher up to the end of the load.
LEMMA DispatcherProvisions ==
    ASSUME PrepInv, LifeInv, Steady, UNCHANGED OutsideEngine,
           \/ DispatcherStep
           \/ \E created \in SUBSET LocalHosts : DispatchFails(created)
    PROVE  Provisioned'
<1>0. /\ Provisioned /\ ~Exiting /\ EngineTypes
      /\ orders \in [Host -> Seq(Letter)] /\ \A h \in Host : orders[h] \in Seq(Letter)
      /\ UNCHANGED <<coordinator, to_orchestrator>>
  BY SteadyGoes DEF LifeInv, EngineTypes, OutsideEngine, callerVars, prepVars,
     coordinatorVars
<1>1. UNCHANGED <<coordination, from_node, processes>>
  BY DEF DispatcherStep, Dispatch, ConventionUpdate, DispatcherExits, DispatchFails, mail,
     engines
<1>2. ASSUME NEW S, SendPending(S), NEW h \in Host, ~Has(orders[h], "StartNodes") \/ h \notin S
      PROVE  /\ Once(orders'[h], "StartNodes")
             /\ Has(orders'[h], "StartNodes") => Has(orders[h], "StartNodes") \/ h \in S
  <2>1. orders'[h] = IF h \in S THEN Append(orders[h], "StartNodes") ELSE orders[h]
    BY <1>2 DEF SendPending
  <2>2. Once(orders[h], "StartNodes") /\ "StartNodes" \in Letter
    BY <1>0, VitalLetters DEF Provisioned
  <2>3. QED BY <1>0, <1>2, <2>1, <2>2, FewerMessages
<1>3. ~DispatcherExits
  BY <1>0, DispatcherReads DEF DispatcherExits, Exiting
<1>4. ASSUME Dispatch \/ \E created \in SUBSET LocalHosts : DispatchFails(created)
      PROVE  /\ Has(to_dispatcher, "StartEngine") /\ ~Has(to_dispatcher', "StartEngine")
             /\ Once(to_dispatcher', "StartEngine")
             /\ \A h \in Host : Waiting(h) /\ ~Has(orders[h], "StartNodes") /\ ~Queued(h)
  <2>1. DispatcherTakes("StartEngine") /\ Once(to_dispatcher, "StartEngine")
    BY <1>0, <1>4 DEF Dispatch, DispatchFails, Provisioned
  <2>2. /\ to_dispatcher # <<>> /\ Head(to_dispatcher) = "StartEngine"
        /\ to_dispatcher' = Tail(to_dispatcher) /\ to_dispatcher \in Seq(Letter)
    BY <1>0, <2>1, DispatcherReads DEF EngineTypes
  <2>3. /\ Has(to_dispatcher, "StartEngine") /\ ~Has(to_dispatcher', "StartEngine")
        /\ Once(to_dispatcher', "StartEngine")
    BY <2>1, <2>2, FewerMessages DEF Fewer
  <2>4. QED BY <1>0, <2>3 DEF Provisioned, Waiting
<1>5. CASE Dispatch
  <2>1. ASSUME NEW h \in Host
        PROVE  /\ Once(orders'[h], "StartNodes")
               /\ Queued(h)' => ~Has(orders'[h], "StartNodes")
    <3>1. CASE remotes' = {}
      <4>1. SendPending(LocalHosts) /\ pending' = {}
        BY <1>5, <3>1 DEF Dispatch
      <4>2. ~Queued(h)'
        BY <3>1, <4>1 DEF Queued
      <4>3. QED BY <1>2, <1>4, <1>5, <4>1, <4>2
    <3>2. CASE remotes' # {}
      <4>1. orders' = orders
        BY <1>5, <3>2 DEF Dispatch
      <4>2. QED BY <1>0, <1>4, <1>5, <4>1 DEF Provisioned
    <3>3. QED BY <3>1, <3>2
  <2>2. QED BY <1>0, <1>1, <1>4, <1>5, <2>1, ProvisionedOrders
<1>6. CASE \E created \in SUBSET LocalHosts : DispatchFails(created)
  <2>1. orders' = orders
    BY <1>6 DEF DispatchFails, mail
  <2>2. \A h \in Host : Once(orders'[h], "StartNodes") /\ ~Has(orders'[h], "StartNodes")
    BY <1>0, <1>4, <1>6, <2>1 DEF Provisioned
  <2>3. QED BY <1>0, <1>1, <1>4, <1>6, <2>2, ProvisionedOrders
<1>7. ASSUME NEW ip, ConventionUpdate(ip) PROVE Provisioned'
  <2>. DEFINE S == pending \cup {h \in Host : IpOf[h] = ip}
  <2>1. /\ ip \in remotes /\ remotes' = remotes \ {ip} /\ to_dispatcher' = to_dispatcher
        /\ IF remotes' = {} THEN SendPending(S) /\ pending' = {}
           ELSE pending' = S /\ orders' = orders
    BY <1>7 DEF ConventionUpdate
  <2>2. \A h \in Host : h \in S => Queued(h)
    BY <2>1 DEF Queued
  <2>3. \A h \in Host : Queued(h)' => Queued(h)
    BY <2>1 DEF Queued
  <2>4. ASSUME NEW h \in Host
        PROVE  /\ Queued(h) => ~Has(orders[h], "StartNodes") /\ ~Has(to_dispatcher, "StartEngine")
               /\ Once(orders[h], "StartNodes")
    BY <1>0 DEF Provisioned
  <2>5. ASSUME NEW h \in Host
        PROVE  /\ Once(orders'[h], "StartNodes")
               /\ Has(orders'[h], "StartNodes") => Has(orders[h], "StartNodes") \/ Queued(h)
               /\ Queued(h)' => ~Has(orders'[h], "StartNodes")
    <3>1. CASE remotes' = {}
      <4>1. SendPending(S) /\ pending' = {}
        BY <2>1, <3>1
      <4>2. ~Queued(h)'
        BY <3>1, <4>1 DEF Queued
      <4>3. ~Has(orders[h], "StartNodes") \/ h \notin S
        BY <2>2, <2>4
      <4>4. /\ Once(orders'[h], "StartNodes")
            /\ Has(orders'[h], "StartNodes") => Has(orders[h], "StartNodes") \/ h \in S
        BY <1>2, <4>1, <4>3
      <4>5. QED BY <2>2, <4>2, <4>4
    <3>2. CASE remotes' # {}
      <4>1. orders' = orders
        BY <2>1, <3>2
      <4>2. QED BY <2>3, <2>4, <4>1
    <3>3. QED BY <3>1, <3>2
  <2>6. /\ Once(to_dispatcher', "StartEngine")
        /\ Has(to_dispatcher', "StartEngine") =>
              \A h \in Host : ~Queued(h) /\ ~Has(orders[h], "StartNodes")
    BY <1>0, <2>1 DEF Provisioned
  <2>7. \A h \in Host : Waiting(h)' => Waiting(h)
    BY <2>1, <2>3, <2>5 DEF Waiting
  <2>8. \A h \in Host : Has(to_dispatcher', "StartEngine")
                           => ~Queued(h)' /\ ~Has(orders'[h], "StartNodes")
    BY <2>3, <2>5, <2>6
  <2>9. QED BY <1>0, <1>1, <2>1, <2>5, <2>6, <2>7, <2>8, ProvisionedOrders
<1>8. QED BY <1>3, <1>5, <1>6, <1>7 DEF DispatcherStep

\* Steps of the nodes up to the end of the load.
LEMMA NodesProvision ==
    ASSUME PrepInv, LifeInv, Steady, UNCHANGED OutsideEngine, NEW h \in Host,
           \/ NodeStep(h) \/ NodeExitFails(h)
           \/ \E created \in BOOLEAN : StartNodesFails(h, created)
           \/ \E k \in 1..NodesOn[h] : LaunchFails(h, k)
           \/ \E left \in 0..processes[h] : StopNodesFails(h, left)
    PROVE  Provisioned'
<1>0. /\ Provisioned /\ ~Stopping /\ ~Exiting /\ b_status # "gone" /\ EngineTypes
      /\ orders[h] \in Seq(Letter) /\ to_node[h] \in Seq(Letter)
      /\ from_node[h] \in Seq(Letter)
      /\ from_node \in [Host -> Seq(Letter)] /\ processes \in [Host -> Nat]
      /\ Once(from_node[h], "NodesStarted")
      /\ UNCHANGED <<coordinator, to_orchestrator>>
  BY SteadyGoes DEF LifeInv, EngineTypes, OutsideEngine, callerVars, prepVars,
     coordinatorVars, Provisioned
<1>1. /\ ~Has(to_node[h], "StopNodes") /\ ~Has(to_node[h], "Exit")
      /\ ~Has(orders[h], "Exit")
  BY <1>0 DEF Stopping, Exiting
<1>2. /\ ~StopNodes(h) /\ ~NodeExits(h) /\ ~NodeExitFails(h)
      /\ \A left : ~StopNodesFails(h, left)
  BY <1>0, <1>1, FewerMessages DEF StopNodes, NodeExits, NodeExitFails, StopNodesFails,
     NodeEnds, TakesFromBuilder
<1>3. ASSUME TakesFromDispatcher(h, "StartNodes"), UNCHANGED <<coordination, dispatch>>,
             \A g \in Host \ {h} : processes'[g] = processes[g],
             \/ Answer(h, "BenchmarkFailure")
             \/ Answer(h, "NodesStarted") /\ processes'[h] = NodesOn[h]
      PROVE  Provisioned'
  <2>1. ~Has(from_node[h], "NodesStarted")
    BY <1>0, <1>3, StartTaken
  <2>2. /\ \A g \in Host \ {h} : from_node'[g] = from_node[g]
        /\ \/ from_node'[h] = Append(from_node[h], "BenchmarkFailure")
           \/ /\ from_node'[h] = Append(from_node[h], "NodesStarted")
              /\ processes'[h] = NodesOn[h]
    BY <1>0, <1>3, HostAnswers, VitalLetters
  <2>3. /\ Once(from_node'[h], "NodesStarted")
        /\ Has(from_node'[h], "NodesStarted") => processes'[h] = NodesOn[h]
    BY <1>0, <2>1, <2>2, FewerMessages, VitalLetters, ZenonT(30)
  <2>4. QED BY <1>0, <1>3, <2>2, <2>3, ProvisionedStarts
<1>4. CASE StartNodes(h)
  <2>1. processes' = [processes EXCEPT ![h] = NodesOn[h]]
    BY <1>4 DEF StartNodes
  <2>2. QED BY <1>0, <1>3, <1>4, <2>1 DEF StartNodes
<1>5. CASE \E created \in BOOLEAN : StartNodesFails(h, created)
  BY <1>3, <1>5 DEF StartNodesFails
<1>6. CASE \E k \in 1..NodesOn[h] : LaunchFails(h, k)
  <2>1. \E k : processes' = [processes EXCEPT ![h] = k]
    BY <1>6 DEF LaunchFails
  <2>2. QED BY <1>0, <1>3, <1>6, <2>1 DEF LaunchFails
<1>7. QED BY <1>2, <1>4, <1>5, <1>6 DEF NodeStep

\* Steps of the engine.
LEMMA EngineKeepsLife ==
    ASSUME PrepInv, LifeInv, EngineNext
    PROVE  LifeInv'
<1>0. /\ MailTypes /\ EngineTypes /\ LoadChain /\ UNCHANGED OutsideEngine
      /\ UNCHANGED <<caller, to_caller, to_orchestrator, orchestrator, cancelled, error,
                     to_coordinator, from_coordinator, coordinator>>
  BY DEF PrepInv, LifeInv, EngineNext, OutsideEngine, callerVars, orchestratorVars, prepVars,
     coordinatorVars
<1>1. EngineTypes' /\ OnlyWhenTold
  <2>1. CASE BuilderStep \/ StartEngineFails
    <3>1. CASE \/ StartEngineExternal \/ StartEngine \/ StartEngineFails
               \/ StopEngineExternal \/ ReturnFailure \/ ForwardDispatcherFailure
      <4>1. UNCHANGED <<mail, engines>>
        BY <3>1 DEF StartEngineExternal, StartEngine, StartEngineFails, StopEngineExternal,
           ReturnFailure, ForwardDispatcherFailure
      <4>2. QED BY <1>0, <3>1, <4>1, BuilderQuiet
    <3>2. QED BY <1>0, <2>1, <3>1, BuilderTalks DEF BuilderStep
  <2>2. CASE DispatcherStep \/ \E created \in SUBSET LocalHosts : DispatchFails(created)
    BY <1>0, <2>2, DispatcherObeys
  <2>3. ASSUME NEW h \in Host,
               \/ NodeStep(h) \/ NodeExitFails(h)
               \/ \E created \in BOOLEAN : StartNodesFails(h, created)
               \/ \E k \in 1..NodesOn[h] : LaunchFails(h, k)
               \/ \E left \in 0..processes[h] : StopNodesFails(h, left)
        PROVE  EngineTypes' /\ OnlyWhenTold
    BY <1>0, <2>3, NodesObey
  <2>4. QED BY <2>1, <2>2, <2>3 DEF EngineNext, EngineFails
<1>2. LoadChain' /\ (Past <=> Past')
  BY <1>0 DEF LoadChain, Past
<1>3. StopsLast' /\ ExitsLast'
  BY <1>0, <1>1, <1>2 DEF LifeInv, StopsLast, ExitsLast, OnlyWhenTold
<1>4. ASSUME Steady' PROVE Provisioned'
  <2>1. Steady
    BY <1>0, <1>1, <1>4 DEF Steady, OnlyWhenTold
  <2>2. CASE BuilderStep \/ StartEngineFails
    BY <1>0, <2>1, <2>2, BuilderProvisions
  <2>3. CASE DispatcherStep \/ \E created \in SUBSET LocalHosts : DispatchFails(created)
    BY <1>0, <2>1, <2>3, DispatcherProvisions
  <2>4. ASSUME NEW h \in Host,
               \/ NodeStep(h) \/ NodeExitFails(h)
               \/ \E created \in BOOLEAN : StartNodesFails(h, created)
               \/ \E k \in 1..NodesOn[h] : LaunchFails(h, k)
               \/ \E left \in 0..processes[h] : StopNodesFails(h, left)
        PROVE  Provisioned'
    BY <1>0, <2>1, <2>4, NodesProvision
  <2>5. QED BY <2>2, <2>3, <2>4 DEF EngineNext, EngineFails
<1>5. Answered'
  BY <1>0, <1>1, <1>2 DEF LifeInv, Answered, Over, OnlyWhenTold
<1>6. QED BY <1>1, <1>2, <1>3, <1>4, <1>5 DEF LifeInv

-----------------------------------------------------------------------------
(* The theorems.                                                             *)

\* The invariant holds at the start.
LEMMA InitLife ==
    ASSUME Init
    PROVE  LifeInv
<1>1. /\ EngineInit /\ PrepInit
      /\ caller = "asking" /\ to_caller = <<>> /\ orchestrator = "up"
  BY DEF Init
<1>2. EngineTypes
  <2>1. <<>> \in Seq(Letter) /\ <<>> \in Seq(Host \cup {None})
    OBVIOUS
  <2>2. QED BY <1>1, <2>1 DEF EngineInit, EngineTypes
<1>3. LoadChain
  BY <1>1, EmptyChannel DEF PrepInit, LoadChain
<1>4. ~Stopping /\ ~Exiting
  BY <1>1, EmptyChannel DEF EngineInit, Stopping, Exiting, None
<1>5. Provisioned
  <2>1. /\ to_dispatcher = <<>> /\ from_builder = <<>> /\ b_status # "starting"
        /\ coordinator = "none"
        /\ \A h \in Host : /\ orders[h] = <<>> /\ from_node[h] = <<>> /\ processes[h] = 0
                           /\ ~Queued(h)
    BY <1>1 DEF EngineInit, PrepInit, Queued, None
  <2>2. /\ \A h \in Host : ~Waiting(h)
    BY <2>1, EmptyChannel DEF Waiting
  <2>3. QED BY <2>1, <2>2, EmptyChannel DEF Provisioned
<1>6. QED BY <1>1, <1>2, <1>3, <1>4, <1>5 DEF LifeInv, StopsLast, ExitsLast, Answered

\* Every step keeps the invariant of the life of a benchmark.
LEMMA NextLife ==
    ASSUME PrepInv, LifeInv, [Next]_vars
    PROVE  LifeInv'
<1>1. CASE UNCHANGED vars
  BY <1>1, NothingLife DEF vars, prepVars
<1>2. CASE PrepNext
  BY <1>2, PrepKeepsLife
<1>3. CASE LoadStep \/ LoadFailure
  BY <1>3, LoadKeepsLife
<1>4. CASE EngineNext
  BY <1>4, EngineKeepsLife
<1>5. CASE CallerStep \/ Interrupt \/ OrchestratorStep \/ OrchestratorFails
  BY <1>5, OrchestratorKeepsLife
<1>6. QED BY <1>1, <1>2, <1>3, <1>4, <1>5 DEF Next

\* The invariant holds throughout a benchmark.
LEMMA LifeInvariant ==
    Spec => []LifeInv
<1>1. Init => LifeInv
  BY InitLife
<1>2. PrepInv /\ LifeInv /\ [Next]_vars => LifeInv'
  BY NextLife
<1>3. QED BY <1>1, <1>2, PrepInvariant, PTL DEF Spec

\* From the creation of the load generator until it has completed or left,
\* all nodes of all hosts run: the BuilderActor reports EngineStarted only
\* after every host has answered (transition_when_all_children_responded with
\* its placeholders for hosts that are not known yet), no host answers twice,
\* and no StopEngine, StopNodes or exit request is sent before the completion
\* was handled, whoever fails.
THEOREM EngineStaysUp ==
    Spec => []EngineUpUnderLoad
<1>1. LifeInv => EngineUpUnderLoad
  BY DEF LifeInv, EngineUpUnderLoad, Steady, Provisioned
<1>2. QED BY <1>1, LifeInvariant, PTL

\* Once the caller has an answer no results are published any more: it was
\* answered after a cancellation, a failure or the end of the engine, and
\* receiveMsg_BenchmarkComplete publishes neither after those nor twice.
THEOREM BadNewsIsFinal ==
    Spec => NoResultsAfterBadNews
<1>1. ASSUME LifeInv, PrepInv, [Next]_vars, caller = "done" PROVE published' = published
  <2>0. from_coordinator \in Seq(Letter)
    BY <1>1 DEF PrepInv, MailTypes
  <2>1. ASSUME FromCoordinator("BenchmarkComplete") PROVE cancelled \/ error
    <3>1. Has(from_coordinator, "BenchmarkComplete")
      BY <2>0, <2>1, FewerMessages DEF FromCoordinator
    <3>2. coordinator # "none" /\ ~Past
      BY <1>1, <3>1 DEF LifeInv, LoadChain, Past
    <3>3. QED BY <1>1, <3>2 DEF LifeInv, Answered, Over, NeverStarts, Asked
  <2>2. CASE BenchmarkComplete
    BY <2>1, <2>2 DEF BenchmarkComplete
  <2>3. CASE \E stored \in BOOLEAN : BenchmarkCompleteFails(stored)
    BY <2>1, <2>3 DEF BenchmarkCompleteFails, RejectedBy
  <2>4. CASE ~(BenchmarkComplete \/ \E stored \in BOOLEAN : BenchmarkCompleteFails(stored))
    <3>1. CASE CallerStep \/ Interrupt \/ OrchestratorStep \/ OrchestratorFails
      BY <2>4, <3>1 DEF CallerStep, GetAnswer, GetCancelAnswer, Interrupt, OrchestratorStep,
         OrchestratorFails, Setup, EngineStarted, PreparationComplete, TaskFinished,
         BenchmarkCancelled, BenchmarkFailure, EngineStopped, OrchestratorExits, SetupFails,
         EngineStartedFails, PreparationCompleteFails, TaskFinishedFails, orchestratorVars
    <3>2. CASE LoadStep \/ LoadFailure
      BY <3>2 DEF LoadStep, LoadFailure, StartBenchmark, FinishTask, CompleteBenchmark,
         StartBenchmarkFails, LoadFails, LoadGeneratorUnchanged, orchestratorVars
    <3>3. CASE EngineNext \/ PrepNext \/ UNCHANGED vars
      BY <3>3 DEF EngineNext, PrepNext, OutsideEngine, OutsidePrep, vars, orchestratorVars
    <3>4. QED BY <1>1, <3>1, <3>2, <3>3 DEF Next
  <2>5. QED BY <2>2, <2>3, <2>4
<1>2. LifeInv /\ PrepInv /\ [Next]_vars =>
        [caller = "done" /\ outcome # "Success" => published' = published]_vars
  BY <1>1
<1>3. QED BY <1>2, LifeInvariant, PrepInvariant, PTL DEF Spec, NoResultsAfterBadNews
========================
