------------------------ MODULE TaskExecution_proofs ------------------------
(***************************************************************************)
(* Proofs about TaskExecution, for any workload that fits the schema of    *)
(* workloads and any number of clients: the numbers of a task on their way *)
(* from the description to its schedule, and what its clients do with them. *)
(***************************************************************************)
EXTENDS TaskExecution, Induction

-----------------------------------------------------------------------------
(* Loading the workload.                                                     *)

OwnFields == {"name", "clients", "first", "total", "completes_parent", "target",
              "interval", "op", "asked"}

\* What parse_task makes of a task.
LeafTask(t) ==
    /\ DOMAIN t = Keys \union OwnFields
    /\ t.clients \in Nat \ {0} /\ t.first \in Nat /\ t.total \in Nat \ {0}
    /\ t.target \in Nat \union {None} /\ t.interval \in Nat \union {None}
    /\ t.op.size \in Nat \union {None} /\ t.op.completes \in BOOLEAN
    /\ WellFormedKeys(t.asked.own) /\ WellFormedKeys(t.asked.parallel)
    /\ \A key \in Keys : t[key] = IF t.asked.own[key] # None THEN t.asked.own[key]
                                  ELSE t.asked.parallel[key]

\* An element as parse_parallel, or parse_task alone, returns it.
LeafElement(e) ==
    /\ IsSeq(e.tasks)
    /\ \A i \in DOMAIN e.tasks : LeafTask(e.tasks[i])

\* parse_task on a well-formed task.
LEMMA ParsedTask ==
    ASSUME NEW e, WellFormedElement(e), NEW t, WellFormedTask(t),
           NEW n \in Nat \ {0}, NEW name, NEW first \in Nat, NEW total \in Nat \ {0}
    PROVE  LeafTask(ParseTask(e, t, n, name, first, total))
<1>1. PICK r : r = [name |-> name, clients |-> n, first |-> first, total |-> total,
                    completes_parent |-> e.parallel /\ t.name = e.completed_by,
                    target |-> t.target, interval |-> t.interval, op |-> t.op,
                    asked |-> [own |-> t.keys, parallel |-> e.keys]]
  OBVIOUS
<1>2. PICK d : d = WithDefaults(t.keys, e.keys)
  OBVIOUS
<1>3. DOMAIN d = Keys /\ \A key \in Keys : d[key] = IF t.keys[key] # None THEN t.keys[key]
                                                   ELSE e.keys[key]
  BY <1>2 DEF WithDefaults
<1>4. PICK x : x = ParseTask(e, t, n, name, first, total)
  OBVIOUS
<1>5. x = [f \in Keys \union DOMAIN r |-> IF f \in Keys THEN d[f] ELSE r[f]]
  BY <1>1, <1>2, <1>3, <1>4 DEF ParseTask, Merged
<1>6. DOMAIN r = OwnFields /\ Keys \intersect OwnFields = {}
  BY <1>1 DEF OwnFields, Keys
<1>7. /\ DOMAIN x = Keys \union OwnFields
      /\ \A f \in Keys : x[f] = d[f]
      /\ \A f \in OwnFields : x[f] = r[f]
  BY <1>5, <1>6
<1>8. /\ x.clients = n /\ x.first = first /\ x.total = total /\ x.target = t.target /\ x.interval = t.interval /\ x.op = t.op
      /\ x.asked = [own |-> t.keys, parallel |-> e.keys]
  BY <1>1, <1>7 DEF OwnFields
<1>9. x.asked.own = t.keys /\ x.asked.parallel = e.keys
  BY <1>8
<1>10. QED BY <1>3, <1>4, <1>7, <1>8, <1>9 DEF LeafTask, WellFormedTask, WellFormedElement

\* The places of the clients of an element.
LEMMA ElementClients ==
    ASSUME NEW e, WellFormedElement(e)
    PROVE  /\ \A i \in DOMAIN e.tasks : ClientsOfFirst(e, i - 1) \in Nat
           /\ TotalClients(e) \in Nat \ {0}
<1>1. PICK s : s = e.tasks
  OBVIOUS
<1>2. /\ DOMAIN s = 1..Len(s) /\ Len(s) \in Nat /\ Len(s) > 0
      /\ \A i \in DOMAIN s : s[i].clients \in Nat \ {0}
  <2>1. s \in Seq(ToSet(s)) /\ s # <<>>
    BY <1>1 DEF WellFormedElement
  <2>2. PICK Q : Q = ToSet(s)
    OBVIOUS
  <2>3. s \in Seq(Q)
    BY <2>1, <2>2
  <2>4. DOMAIN s = 1..Len(s) /\ Len(s) \in Nat /\ Len(s) > 0
    BY <2>1, <2>3
  <2>5. \A i \in DOMAIN s : s[i].clients \in Nat \ {0}
    BY <1>1 DEF WellFormedElement, WellFormedTask
  <2>6. QED BY <2>4, <2>5
<1>3. ASSUME NEW n \in 0..Len(s)
      PROVE  /\ ClientsOfFirst(e, n) \in Nat
             /\ n > 0 => ClientsOfFirst(e, n) \in Nat \ {0}
  <2>1. PICK c : c = [i \in 1..n |-> s[i].clients]
    OBVIOUS
  <2>2. \A i \in 1..n : s[i].clients \in Nat \ {0}
    BY <1>2
  <2>3. c \in Seq(Nat) /\ Len(c) = n
    BY <1>2, <2>1, <2>2
  <2>4. \A i \in 1..Len(c) : c[i] > 0
    BY <2>1, <2>2, <2>3
  <2>5. ClientsOfFirst(e, n) = SumOf(c)
    BY <1>1, <2>1 DEF ClientsOfFirst
  <2>6. SumOf(c) \in Nat
    BY <2>3, SumType
  <2>7. n > 0 => SumOf(c) \in Nat \ {0}
    BY <2>3, <2>4, SumPositive
  <2>8. QED BY <2>5, <2>6, <2>7
<1>4. ASSUME NEW i \in DOMAIN e.tasks PROVE ClientsOfFirst(e, i - 1) \in Nat
  <2>1. i - 1 \in 0..Len(s)
    BY <1>1, <1>2
  <2>2. QED BY <1>3, <2>1
<1>5. TotalClients(e) \in Nat \ {0}
  <2>1. Len(s) \in 0..Len(s)
    BY <1>2
  <2>2. ClientsOfFirst(e, Len(e.tasks)) \in Nat \ {0}
    BY <1>1, <1>2, <1>3, <2>1
  <2>3. e.clients # None => e.clients \in Nat \ {0}
    BY DEF WellFormedElement
  <2>4. QED BY <2>2, <2>3 DEF TotalClients
<1>6. QED BY <1>4, <1>5

\* The elements that one entry of a schedule stands for.
LEMMA ParsedElement ==
    ASSUME NEW p, NEW e, WellFormedElement(e)
    PROVE  /\ IsSeq(ParseElement(p, e))
           /\ \A i \in DOMAIN ParseElement(p, e) : LeafElement(ParseElement(p, e)[i])
<1>1. /\ IsSeq(e.tasks) /\ IsSeq(e.clients_list)
      /\ \A i \in DOMAIN e.tasks : WellFormedTask(e.tasks[i])
      /\ \A i \in DOMAIN e.clients_list : e.clients_list[i] \in Nat \ {0}
      /\ 1 \in DOMAIN e.tasks
  <2>1. IsSeq(e.tasks) /\ \A i \in DOMAIN e.tasks : WellFormedTask(e.tasks[i])
    BY DEF WellFormedElement, IsSeq
  <2>2. PICK l : l = e.clients_list
    OBVIOUS
  <2>3. l \in Seq(Nat \ {0}) /\ DOMAIN l = 1..Len(l) /\ Len(l) \in Nat
    BY <2>2 DEF WellFormedElement
  <2>4. \A i \in DOMAIN l : l[i] \in Nat \ {0}
    BY <2>3
  <2>5. IsSeq(l)
    <3>1. PICK Q : Q = ToSet(l)
      OBVIOUS
    <3>2. \A i \in 1..Len(l) : l[i] \in Q
      BY <2>3, <3>1 DEF ToSet
    <3>3. l \in Seq(Q)
      BY <2>3, <3>2
    <3>4. QED BY <3>1, <3>3 DEF IsSeq
  <2>6. 1 \in DOMAIN e.tasks
    <3>1. PICK s, Q : s = e.tasks /\ Q = ToSet(e.tasks)
      OBVIOUS
    <3>2. s \in Seq(Q) /\ s # <<>>
      BY <3>1 DEF WellFormedElement
    <3>3. 1 \in DOMAIN s
      BY <3>2
    <3>4. QED BY <3>1, <3>3
  <2>7. QED BY <2>1, <2>2, <2>4, <2>5, <2>6
<1>2. CASE e.clients_list # <<>>
  <2>1. PICK l : l = e.clients_list
    OBVIOUS
  <2>2. PICK f : /\ f = [i \in DOMAIN l |->
                          [parallel |-> FALSE,
                           tasks |-> <<ParseTask(e, e.tasks[1], l[i], <<p.name, l[i]>>, 0, l[i])>>]]
                 /\ f = ParseElement(p, e)
    BY <1>2, <2>1 DEF ParseElement
  <2>3. IsSeq(f)
    BY <1>1, <2>1, <2>2, MappedSeq
  <2>4. ASSUME NEW i \in DOMAIN f PROVE LeafElement(f[i])
    <3>1. PICK t : t = ParseTask(e, e.tasks[1], l[i], <<p.name, l[i]>>, 0, l[i])
      OBVIOUS
    <3>2. LeafTask(t)
      BY <1>1, <2>1, <2>2, <3>1, ParsedTask
    <3>3. f[i].tasks = <<t>>
      BY <2>2, <3>1
    <3>4. QED BY <3>2, <3>3, ShortSeqs DEF LeafElement
  <2>5. QED BY <2>2, <2>3, <2>4
<1>3. CASE e.clients_list = <<>>
  <2>1. PICK g : g = [i \in DOMAIN e.tasks |->
                        ParseTask(e, e.tasks[i], e.tasks[i].clients, <<e.tasks[i].name, 0>>,
                                  ClientsOfFirst(e, i - 1), TotalClients(e))]
    OBVIOUS
  <2>2. PICK x : x = [parallel |-> e.parallel, tasks |-> g]
    OBVIOUS
  <2>3. ParseElement(p, e) = <<x>>
    BY <1>3, <2>1, <2>2 DEF ParseElement
  <2>4. IsSeq(g)
    BY <1>1, <2>1, MappedSeq
  <2>5. ASSUME NEW i \in DOMAIN g PROVE LeafTask(g[i])
    <3>1. WellFormedTask(e.tasks[i]) /\ e.tasks[i].clients \in Nat \ {0}
      BY <1>1, <2>1 DEF WellFormedTask
    <3>2. ClientsOfFirst(e, i - 1) \in Nat /\ TotalClients(e) \in Nat \ {0}
      BY <2>1, ElementClients
    <3>3. QED BY <2>1, <3>1, <3>2, ParsedTask
  <2>6. LeafElement(x)
    BY <2>2, <2>4, <2>5 DEF LeafElement
  <2>7. QED BY <2>3, <2>6, ShortSeqs
<1>4. QED BY <1>2, <1>3

\* A schedule of parsed elements.
LeafSchedule(s) ==
    /\ IsSeq(s)
    /\ \A i \in DOMAIN s : LeafElement(s[i])

\* What the schedule of a test procedure is parsed to.
LEMMA ParsedSchedule ==
    ASSUME NEW p, IsSeq(p.schedule),
           \A i \in DOMAIN p.schedule : WellFormedElement(p.schedule[i])
    PROVE  LeafSchedule(ParseSchedule(p))
<1>1. PICK f : f = [i \in DOMAIN p.schedule |-> ParseElement(p, p.schedule[i])]
  OBVIOUS
<1>2. IsSeq(f)
  BY <1>1, MappedSeq
<1>3. \A i \in DOMAIN f : IsSeq(f[i]) /\ \A j \in DOMAIN f[i] : LeafElement(f[i][j])
  BY <1>1, ParsedElement
<1>4. PICK s : s = FlattenSeq(f) /\ s = ParseSchedule(p)
  BY <1>1 DEF ParseSchedule
<1>5. /\ IsSeq(s)
      /\ \A m \in DOMAIN s : \E i \in DOMAIN f : \E j \in DOMAIN f[i] : s[m] = f[i][j]
  <2>1. IsSeqOfSeqs(f)
    BY <1>2, <1>3 DEF IsSeqOfSeqs
  <2>2. IsSeq(s) /\ SameElements(s, f)
    BY <1>4, <2>1, FlattenedElements
  <2>3. QED BY <2>2 DEF SameElements
<1>6. QED BY <1>3, <1>4, <1>5 DEF LeafSchedule

\* The tasks of a schedule are those of its elements.
LEMMA LeavesOfSchedule ==
    ASSUME NEW s, LeafSchedule(s)
    PROVE  /\ IsSeq(Leaves(s))
           /\ \A m \in DOMAIN Leaves(s) : \E i \in DOMAIN s : \E j \in DOMAIN s[i].tasks :
                 Leaves(s)[m] = s[i].tasks[j]
           /\ \A i \in DOMAIN s : \A j \in DOMAIN s[i].tasks : \E m \in DOMAIN Leaves(s) :
                 Leaves(s)[m] = s[i].tasks[j]
<1>1. PICK f : f = [i \in DOMAIN s |-> s[i].tasks]
  OBVIOUS
<1>2. IsSeq(f) /\ \A i \in DOMAIN f : IsSeq(f[i])
  BY <1>1, MappedSeq DEF LeafSchedule, LeafElement
<1>3. PICK l : l = FlattenSeq(f) /\ l = Leaves(s)
  BY <1>1 DEF Leaves
<1>4. /\ IsSeq(l)
      /\ \A m \in DOMAIN l : \E i \in DOMAIN f : \E j \in DOMAIN f[i] : l[m] = f[i][j]
      /\ \A i \in DOMAIN f : \A j \in DOMAIN f[i] : \E m \in DOMAIN l : l[m] = f[i][j]
  <2>1. IsSeqOfSeqs(f)
    BY <1>2 DEF IsSeqOfSeqs
  <2>2. IsSeq(l) /\ SameElements(l, f)
    BY <1>3, <2>1, FlattenedElements
  <2>3. QED BY <2>2 DEF SameElements
<1>5. DOMAIN f = DOMAIN s /\ \A i \in DOMAIN s : f[i] = s[i].tasks
  BY <1>1
<1>6. QED BY <1>3, <1>4, <1>5

\* The filter for serverless clusters only removes elements.
LEMMA ServerlessSchedule ==
    ASSUME NEW s, LeafSchedule(s)
    PROVE  /\ LeafSchedule(ForServerless(s))
           /\ \A m \in DOMAIN ForServerless(s) : \E i \in DOMAIN s : ForServerless(s)[m] = s[i]
<1>. DEFINE kept(e) == \/ e.parallel
                       \/ LET op == e.tasks[1].op
                          IN  IF op.serverless # None THEN op.serverless = 1 ELSE op.public
<1>1. PICK f : f = [i \in DOMAIN s |-> IF kept(s[i]) THEN <<s[i]>> ELSE <<>>]
  OBVIOUS
<1>2. PICK r : r = FlattenSeq(f) /\ r = ForServerless(s)
  BY <1>1 DEF ForServerless
<1>. HIDE DEF kept
<1>3. IsSeq(f)
  BY <1>1, MappedSeq DEF LeafSchedule
<1>4. ASSUME NEW i \in DOMAIN f
      PROVE  IsSeq(f[i]) /\ \A j \in DOMAIN f[i] : f[i][j] = s[i]
  <2>1. f[i] = <<s[i]>> \/ f[i] = <<>>
    BY <1>1
  <2>2. QED BY <2>1, ShortSeqs
<1>5. /\ IsSeq(r)
      /\ \A m \in DOMAIN r : \E i \in DOMAIN f : \E j \in DOMAIN f[i] : r[m] = f[i][j]
  <2>1. IsSeqOfSeqs(f)
    BY <1>3, <1>4 DEF IsSeqOfSeqs
  <2>2. IsSeq(r) /\ SameElements(r, f)
    BY <1>2, <2>1, FlattenedElements
  <2>3. QED BY <2>2 DEF SameElements
<1>6. ASSUME NEW m \in DOMAIN r PROVE \E i \in DOMAIN s : r[m] = s[i]
  <2>1. PICK i \in DOMAIN f : \E j \in DOMAIN f[i] : r[m] = f[i][j]
    BY <1>5
  <2>2. r[m] = s[i] /\ i \in DOMAIN s
    <3>1. \A j \in DOMAIN f[i] : f[i][j] = s[i]
      BY <1>4, <2>1
    <3>2. DOMAIN f = DOMAIN s
      BY <1>1
    <3>3. QED BY <2>1, <3>1, <3>2
  <2>3. QED BY <2>2
<1>7. LeafSchedule(r)
  BY <1>5, <1>6 DEF LeafSchedule
<1>8. QED BY <1>2, <1>6, <1>7

\* The tasks that run are those of the workload, which are valid, after the
\* processor for test mode.
LEMMA ProcessedTask ==
    ASSUME NEW workload, WellFormed(workload), ~Invalid(workload), NEW p \in DOMAIN workload,
           NEW testMode, NEW serverless, testMode \in BOOLEAN,
           NEW i \in DOMAIN Processed(workload[p], testMode, serverless)
    PROVE  \E t : /\ LeafTask(t) /\ ~TaskInvalid(t)
                  /\ Processed(workload[p], testMode, serverless)[i] =
                        IF testMode THEN ForTestMode(t) ELSE t
<1>1. PICK s : s = ParseSchedule(workload[p])
  OBVIOUS
<1>2. LeafSchedule(s)
  BY <1>1, ParsedSchedule DEF WellFormed, IsSeq
<1>3. PICK r : r = IF serverless THEN ForServerless(s) ELSE s
  OBVIOUS
<1>4. LeafSchedule(r) /\ \A m \in DOMAIN r : \E k \in DOMAIN s : r[m] = s[k]
  <2>1. r = ForServerless(s) \/ r = s
    BY <1>3
  <2>2. QED BY <1>2, <2>1, ServerlessSchedule
<1>5. PICK l : l = Leaves(r)
  OBVIOUS
<1>6. Processed(workload[p], testMode, serverless) =
         [j \in DOMAIN l |-> IF testMode THEN ForTestMode(l[j]) ELSE l[j]]
  BY <1>1, <1>3, <1>5 DEF Processed
<1>7. i \in DOMAIN l /\ Processed(workload[p], testMode, serverless)[i] =
                           IF testMode THEN ForTestMode(l[i]) ELSE l[i]
  BY <1>6
<1>8. PICK k \in DOMAIN r : \E j \in DOMAIN r[k].tasks : l[i] = r[k].tasks[j]
  BY <1>4, <1>5, <1>7, LeavesOfSchedule
<1>9. PICK j \in DOMAIN r[k].tasks : l[i] = r[k].tasks[j]
  BY <1>8
<1>10. PICK h \in DOMAIN s : r[k] = s[h]
  BY <1>4, <1>8
<1>11. LeafTask(l[i])
  BY <1>4, <1>8, <1>9 DEF LeafSchedule, LeafElement
<1>12. PICK m \in DOMAIN Leaves(s) : Leaves(s)[m] = l[i]
  BY <1>2, <1>9, <1>10, LeavesOfSchedule
<1>13. ~TaskInvalid(l[i])
  <2>1. ~ProcedureInvalid(workload[p])
    BY DEF Invalid
  <2>2. \A n \in DOMAIN Leaves(s) : ~TaskInvalid(Leaves(s)[n])
    BY <1>1, <2>1 DEF ProcedureInvalid
  <2>3. QED BY <1>12, <2>2
<1>14. QED BY <1>7, <1>11, <1>13

\* What the workload says of this key of task x, and a number in test mode.
Wanted(x, key) ==
    IF x.asked.own[key] # None THEN x.asked.own[key] ELSE x.asked.parallel[key]

Reduced(testMode, n, limit) == IF testMode /\ n > limit THEN limit ELSE n

\* A task as Load puts it in `task`.
Known(x, testMode) ==
    /\ x.wait \in Nat
    /\ x.clients \in Nat \ {0} /\ x.first \in Nat /\ x.total \in Nat \ {0}
    /\ x.op.size \in Nat \union {None} /\ x.op.completes \in BOOLEAN
    /\ \A key \in Keys : /\ Wanted(x, key) \in Int
                         /\ Wanted(x, key) # None => Wanted(x, key) >= Least[key]
    /\ x.iterations = Reduced(testMode, Wanted(x, "iterations"), x.clients)
    /\ x.warmup_iterations = Reduced(testMode, Wanted(x, "warmup_iterations"), x.clients)
    /\ x.time_period = Reduced(testMode, Wanted(x, "time_period"), TestModePeriod)
    /\ x.warmup_time_period = Reduced(testMode, Wanted(x, "warmup_time_period"), 0)
    /\ x.ramp_up = Wanted(x, "ramp_up")
    /\ Wanted(x, "warmup_iterations") # None => Wanted(x, "time_period") = None
    /\ Wanted(x, "warmup_time_period") # None => Wanted(x, "iterations") = None
    /\ Wanted(x, "ramp_up") # None =>
          /\ Wanted(x, "warmup_time_period") # None
          /\ Wanted(x, "warmup_time_period") >= Wanted(x, "ramp_up")

\* Test mode changes the numbers of a task and nothing else.
LEMMA TestModeTask ==
    ASSUME NEW t, LeafTask(t), NEW testMode, testMode \in BOOLEAN,
           NEW u, u = IF testMode THEN ForTestMode(t) ELSE t
    PROVE  /\ DOMAIN u = Keys \union OwnFields
           /\ u.clients = t.clients /\ u.first = t.first /\ u.total = t.total
           /\ u.op = t.op /\ u.asked = t.asked /\ u.ramp_up = t.ramp_up
           /\ u.target \in Nat \union {None} /\ u.interval \in Nat \union {None}
           /\ u.iterations = Reduced(testMode, t.iterations, t.clients)
           /\ u.warmup_iterations = Reduced(testMode, t.warmup_iterations, t.clients)
           /\ u.time_period = Reduced(testMode, t.time_period, TestModePeriod)
           /\ u.warmup_time_period = Reduced(testMode, t.warmup_time_period, 0)
<1>1. DOMAIN t = Keys \union OwnFields
  BY DEF LeafTask
<1>2. CASE ~testMode
  BY <1>1, <1>2 DEF LeafTask, Reduced
<1>3. CASE testMode
  <2>1. u = ForTestMode(t)
    BY <1>3
  <2>2. /\ DOMAIN u = DOMAIN t
        /\ u.iterations = IF t.iterations > t.clients THEN t.clients ELSE t.iterations
        /\ u.warmup_iterations = IF t.warmup_iterations > t.clients THEN t.clients
                                 ELSE t.warmup_iterations
        /\ u.time_period = IF t.time_period > TestModePeriod THEN TestModePeriod
                           ELSE t.time_period
        /\ u.warmup_time_period = IF t.warmup_time_period > 0 THEN 0 ELSE t.warmup_time_period
        /\ u.target = None /\ u.interval = None
    BY <1>1, <2>1 DEF ForTestMode, Keys, OwnFields
  <2>3. /\ u.clients = t.clients /\ u.first = t.first /\ u.total = t.total
        /\ u.op = t.op /\ u.asked = t.asked /\ u.ramp_up = t.ramp_up
    BY <1>1, <2>1 DEF ForTestMode, Keys, OwnFields
  <2>4. QED BY <1>1, <1>3, <2>2, <2>3 DEF Reduced, None
<1>4. QED BY <1>2, <1>3

\* Task.target_throughput is a number of ticks.
LEMMA WaitType ==
    ASSUME NEW u, u.clients \in Nat \ {0},
           u.target \in Nat \union {None}, u.interval \in Nat \union {None}
    PROVE  Wait(u) \in Nat
<1>1. PICK n \in Nat : n = u.clients
  OBVIOUS
<1>2. PICK a \in Nat \union {None} : a = u.interval
  OBVIOUS
<1>3. PICK b \in Nat \union {None} : b = u.target
  OBVIOUS
<1>4. Wait(u) = IF a > 0 THEN a * n ELSE IF b > 0 THEN n \div b ELSE 0
  BY <1>1, <1>2, <1>3 DEF Wait
<1>5. a > 0 => a \in Nat /\ a * n \in Nat
  BY <1>1, <1>2 DEF None
<1>6. b > 0 => b \in Nat \ {0} /\ n \div b \in Nat
  BY <1>1, <1>3 DEF None
<1>7. QED BY <1>4, <1>5, <1>6

\* What Load makes of a valid task.
LEMMA KnownTask ==
    ASSUME NEW t, LeafTask(t), ~TaskInvalid(t), NEW testMode, testMode \in BOOLEAN,
           NEW u, u = IF testMode THEN ForTestMode(t) ELSE t,
           NEW x, x = Merged(u, [wait |-> Wait(u)])
    PROVE  /\ Known(x, testMode) /\ x.clients = u.clients /\ x.op = u.op /\ x.op = t.op
           /\ x.wait = Wait(u)
<1>1. /\ DOMAIN u = Keys \union OwnFields
      /\ u.clients = t.clients /\ u.first = t.first /\ u.total = t.total
      /\ u.op = t.op /\ u.asked = t.asked /\ u.ramp_up = t.ramp_up
      /\ u.target \in Nat \union {None} /\ u.interval \in Nat \union {None}
      /\ u.iterations = Reduced(testMode, t.iterations, t.clients)
      /\ u.warmup_iterations = Reduced(testMode, t.warmup_iterations, t.clients)
      /\ u.time_period = Reduced(testMode, t.time_period, TestModePeriod)
      /\ u.warmup_time_period = Reduced(testMode, t.warmup_time_period, 0)
  BY TestModeTask
<1>2. PICK w : w = Wait(u)
  OBVIOUS
<1>3. x = [f \in DOMAIN u \union {"wait"} |-> IF f \in DOMAIN u THEN u[f] ELSE [wait |-> w][f]]
  BY <1>2 DEF Merged
<1>4. (\A f \in Keys \union OwnFields : x[f] = u[f]) /\ x.wait = w
  BY <1>1, <1>3 DEF Keys, OwnFields
<1>5. /\ x.clients = u.clients /\ x.first = u.first /\ x.total = u.total
      /\ x.op = u.op /\ x.asked = u.asked /\ x.ramp_up = u.ramp_up
      /\ x.iterations = u.iterations /\ x.warmup_iterations = u.warmup_iterations
      /\ x.time_period = u.time_period /\ x.warmup_time_period = u.warmup_time_period
  BY <1>4 DEF Keys, OwnFields
<1>6. u.clients \in Nat \ {0}
  BY <1>1 DEF LeafTask
<1>7. w \in Nat
  BY <1>1, <1>2, <1>6, WaitType
<1>8. \A key \in Keys : t[key] = Wanted(x, key)
  BY <1>1, <1>5 DEF LeafTask, Wanted
<1>9. /\ t.iterations = Wanted(x, "iterations")
      /\ t.warmup_iterations = Wanted(x, "warmup_iterations")
      /\ t.time_period = Wanted(x, "time_period")
      /\ t.warmup_time_period = Wanted(x, "warmup_time_period")
      /\ t.ramp_up = Wanted(x, "ramp_up")
  BY <1>8 DEF Keys
<1>10. ASSUME NEW key \in Keys
       PROVE  /\ Wanted(x, key) \in Int
              /\ Wanted(x, key) # None => Wanted(x, key) >= Least[key]
  <2>1. PICK a, b : a = t.asked.own /\ b = t.asked.parallel
    OBVIOUS
  <2>2. WellFormedKeys(a) /\ WellFormedKeys(b)
    BY <2>1 DEF LeafTask
  <2>3. Wanted(x, key) = IF a[key] # None THEN a[key] ELSE b[key]
    BY <1>1, <1>5, <2>1 DEF Wanted
  <2>4. /\ a[key] \in Int /\ (a[key] # None => a[key] >= Least[key])
        /\ b[key] \in Int /\ (b[key] # None => b[key] >= Least[key])
    BY <2>2 DEF WellFormedKeys
  <2>5. QED BY <2>3, <2>4
<1>11. /\ Wanted(x, "warmup_iterations") # None => Wanted(x, "time_period") = None
       /\ Wanted(x, "warmup_time_period") # None => Wanted(x, "iterations") = None
       /\ Wanted(x, "ramp_up") # None =>
             /\ Wanted(x, "warmup_time_period") # None
             /\ Wanted(x, "warmup_time_period") >= Wanted(x, "ramp_up")
  <2>1. "ramp_up" \in Keys /\ "warmup_time_period" \in Keys
    BY DEF Keys
  <2>2. Wanted(x, "ramp_up") \in Int /\ Wanted(x, "warmup_time_period") \in Int
    BY <1>10, <2>1
  <2>3. QED BY <1>9, <2>2 DEF TaskInvalid
<1>12. /\ x.clients \in Nat \ {0} /\ x.first \in Nat /\ x.total \in Nat \ {0}
       /\ x.op.size \in Nat \union {None} /\ x.op.completes \in BOOLEAN
  BY <1>1, <1>5, <1>6 DEF LeafTask
<1>13. /\ x.iterations = Reduced(testMode, Wanted(x, "iterations"), x.clients)
       /\ x.warmup_iterations = Reduced(testMode, Wanted(x, "warmup_iterations"), x.clients)
       /\ x.time_period = Reduced(testMode, Wanted(x, "time_period"), TestModePeriod)
       /\ x.warmup_time_period = Reduced(testMode, Wanted(x, "warmup_time_period"), 0)
       /\ x.ramp_up = Wanted(x, "ramp_up")
  BY <1>1, <1>5, <1>9
<1>14. x.wait \in Nat
  BY <1>4, <1>7
<1>15. QED BY <1>1, <1>2, <1>4, <1>5, <1>10, <1>11, <1>12, <1>13, <1>14 DEF Known

-----------------------------------------------------------------------------
(* The clients of the task.                                                  *)

ClientTypes(c) ==
    /\ state[c] \in {"asleep", "ready", "waiting", "request", "done"}
    /\ it[c] \in Nat /\ scheduled[c] \in Nat /\ weight[c] \in Nat /\ work[c] \in Nat
    /\ began[c] \in Nat \union {None}
    /\ state[c] = "request" => began[c] \in Nat
    /\ type[c] \in {Warmup, Normal}
    /\ made[c] \in [{Warmup, Normal} -> Nat]

ExecTypes ==
    /\ benchmark \in Benchmarks /\ now \in Nat /\ left \in Nat \union {None}
    /\ DOMAIN it = Client /\ DOMAIN scheduled = Client /\ DOMAIN weight = Client
    /\ DOMAIN began = Client /\ DOMAIN type = Client /\ DOMAIN made = Client
    /\ DOMAIN work = Client
    /\ \A c \in Client : ClientTypes(c)
    /\ Client # {} => Known(task, benchmark.test_mode)

\* What a client has scheduled and done so far fits its target.
TargetInv(c) ==
    task.wait # 0 =>
        /\ weight[c] = 0 => work[c] = 0
        /\ state[c] \in {"asleep", "ready"} =>
              scheduled[c] + task.wait * weight[c] >= work[c] * task.wait
        /\ state[c] \in {"waiting", "request"} => scheduled[c] >= work[c] * task.wait
        /\ state[c] = "request" => began[c] >= scheduled[c]

\* The variables of the clients before and after Load.
Fresh(n) ==
    /\ state = [c \in 0..(n - 1) |-> "asleep"]
    /\ it = [c \in 0..(n - 1) |-> 0] /\ scheduled = [c \in 0..(n - 1) |-> 0]
    /\ weight = [c \in 0..(n - 1) |-> 0] /\ work = [c \in 0..(n - 1) |-> 0]
    /\ began = [c \in 0..(n - 1) |-> None]
    /\ type = [c \in 0..(n - 1) |-> Warmup]
    /\ made = [c \in 0..(n - 1) |-> [ty \in {Warmup, Normal} |-> 0]]

\* Load either rejects the benchmark, or starts the clients of a known task.
LEMMA Loaded ==
    ASSUME ExecTypes, Load
    PROVE  \/ Rejected
           \/ /\ Known(task', benchmark.test_mode) /\ Fresh(task.clients)'
              /\ phase' = "running" /\ left' = task'.op.size
              /\ UNCHANGED <<benchmark, now, sampler, measured, sampled>>
<1>1. SUFFICES ASSUME ~Rejected
      PROVE  /\ Known(task', benchmark.test_mode) /\ Fresh(task.clients)'
             /\ phase' = "running" /\ left' = task'.op.size
             /\ UNCHANGED <<benchmark, now, sampler, measured, sampled>>
  OBVIOUS
<1>2. benchmark \in Benchmarks /\ ~Unusable
  BY DEF ExecTypes, Load
<1>3. WellFormed(benchmark.workload) /\ benchmark.test_mode \in BOOLEAN
  BY <1>2, ExecutionAssumption
<1>4. ~Invalid(benchmark.workload)
  BY <1>2 DEF Unusable
<1>. DEFINE tasks(p) == Processed(benchmark.workload[p], benchmark.test_mode,
                                    benchmark.serverless)
            Starts(u) ==
              /\ phase' = "running"
              /\ task' = Merged(u, [wait |-> Wait(u)])
              /\ left' = u.op.size
              /\ state' = [c \in 0..(u.clients - 1) |-> "asleep"]
              /\ it' = [c \in 0..(u.clients - 1) |-> 0]
              /\ scheduled' = [c \in 0..(u.clients - 1) |-> 0]
              /\ weight' = [c \in 0..(u.clients - 1) |-> 0]
              /\ began' = [c \in 0..(u.clients - 1) |-> None]
              /\ type' = [c \in 0..(u.clients - 1) |-> Warmup]
              /\ made' = [c \in 0..(u.clients - 1) |-> [ty \in {Warmup, Normal} |-> 0]]
              /\ work' = [c \in 0..(u.clients - 1) |-> 0]
              /\ UNCHANGED <<benchmark, now, sampler, measured, sampled>>
<1>5. PICK p \in Found(benchmark.workload, benchmark.procedure) :
         \E i \in DOMAIN tasks(p) : Starts(tasks(p)[i])
  BY <1>1 DEF Load
<1>6. p \in DOMAIN benchmark.workload
  BY <1>5 DEF Found
<1>a. PICK i \in DOMAIN tasks(p) : Starts(tasks(p)[i])
  BY <1>5
<1>7. PICK u : u = tasks(p)[i]
  OBVIOUS
<1>8. PICK t : /\ LeafTask(t) /\ ~TaskInvalid(t)
               /\ u = IF benchmark.test_mode THEN ForTestMode(t) ELSE t
  BY <1>3, <1>4, <1>6, <1>a, <1>7, ProcessedTask
<1>9. task' = Merged(u, [wait |-> Wait(u)])
  BY <1>a, <1>7
<1>10. /\ Known(task', benchmark.test_mode) /\ task'.clients = u.clients
       /\ task'.op = u.op
  BY <1>3, <1>8, <1>9, KnownTask
<1>11. QED BY <1>a, <1>7, <1>10 DEF Fresh

\* The parts of the invariants that Load establishes.
LEMMA FreshTypes ==
    ASSUME NEW n \in Nat, Fresh(n)'
    PROVE  (/\ DOMAIN it = Client /\ DOMAIN scheduled = Client /\ DOMAIN weight = Client
            /\ DOMAIN began = Client /\ DOMAIN type = Client /\ DOMAIN made = Client
            /\ DOMAIN work = Client
            /\ \A c \in Client : ClientTypes(c) /\ state[c] = "asleep" /\ it[c] = 0
                                 /\ began[c] = None /\ work[c] = 0 /\ weight[c] = 0
                                 /\ scheduled[c] = 0
                                 /\ made[c] = [ty \in {Warmup, Normal} |-> 0])'
<1>1. (Client = 0..(n - 1))'
  BY DEF Client, Fresh
<1>2. (\A c \in Client : state[c] = "asleep" /\ it[c] = 0
                         /\ began[c] = None /\ work[c] = 0 /\ weight[c] = 0
                         /\ scheduled[c] = 0 /\ type[c] = Warmup
                         /\ made[c] = [ty \in {Warmup, Normal} |-> 0])'
  BY <1>1 DEF Fresh
<1>3. (\A c \in Client : ClientTypes(c))'
  BY <1>2 DEF ClientTypes
<1>4. QED BY <1>1, <1>2, <1>3 DEF Fresh

\* Only Load and Run change the clients.
LEMMA ClientsUntouched ==
    ASSUME ExecTypes, UNCHANGED <<benchmark, task, clients, left, made, work>>,
           now' \in Nat
    PROVE  /\ ExecTypes' /\ Client' = Client
           /\ \A c \in Client : TargetInv(c) => TargetInv(c)'
<1>1. Client' = Client
  BY DEF Client, clients
<1>2. ASSUME NEW c \in Client PROVE ClientTypes(c)' /\ (TargetInv(c) => TargetInv(c)')
  <2>1. ClientTypes(c)
    BY DEF ExecTypes
  <2>2. ClientTypes(c)'
    BY <2>1 DEF ClientTypes, clients
  <2>3. TargetInv(c)' = TargetInv(c)
    BY DEF TargetInv, clients
  <2>4. QED BY <2>2, <2>3
<1>3. QED BY <1>1, <1>2 DEF ExecTypes, clients

\* A step of client c leaves the variables of the others alone.
ClientStep(c) ==
    /\ (/\ DOMAIN state = Client /\ DOMAIN it = Client /\ DOMAIN scheduled = Client
        /\ DOMAIN weight = Client /\ DOMAIN began = Client /\ DOMAIN type = Client
        /\ DOMAIN made = Client /\ DOMAIN work = Client)'
    /\ Client' = Client
    /\ \A d \in Client : d # c =>
          /\ state'[d] = state[d] /\ it'[d] = it[d] /\ scheduled'[d] = scheduled[d]
          /\ weight'[d] = weight[d] /\ began'[d] = began[d] /\ type'[d] = type[d]
          /\ made'[d] = made[d] /\ work'[d] = work[d]
    /\ UNCHANGED <<loaded, now>>

\* A client that keeps its own part of the invariants keeps everyone's.
LEMMA OneClient ==
    ASSUME ExecTypes, NEW c \in Client, ClientStep(c), ClientTypes(c)',
           left' \in Nat \union {None}
    PROVE  ExecTypes' /\ Client' = Client
<1>1. ASSUME NEW d \in Client PROVE ClientTypes(d)'
  <2>1. CASE d = c
    BY <2>1
  <2>2. CASE d # c
    <3>1. ClientTypes(d)
      BY DEF ExecTypes
    <3>2. QED BY <2>2, <3>1 DEF ClientTypes, ClientStep
  <2>3. QED BY <2>1, <2>2
<1>2. QED BY <1>1 DEF ExecTypes, ClientStep, loaded

\* RampedUp, seen from the client.
LEMMA RampedUpStep ==
    ASSUME ExecTypes, NEW c \in Client, RampedUp(c)
    PROVE  /\ ClientStep(c) /\ ClientTypes(c)' /\ left' = left
           /\ state[c] = "asleep" /\ state'[c] = "ready"
           /\ it'[c] = it[c] /\ scheduled'[c] = scheduled[c] /\ weight'[c] = weight[c]
           /\ began'[c] = began[c] /\ made'[c] = made[c] /\ work'[c] = work[c]
           /\ type'[c] = type[c] /\ sampler' = sampler /\ sampled' = sampled
           /\ UNCHANGED measured
<1>1. ClientTypes(c)
  BY DEF ExecTypes
<1>2. /\ state[c] = "asleep" /\ state' = [state EXCEPT ![c] = "ready"]
      /\ UNCHANGED <<loaded, now, it, scheduled, weight, began, type, left, sampler, measured,
                     made, work, sampled>>
  BY DEF RampedUp
<1>3. state'[c] = "ready"
  BY <1>2 DEF Client
<1>4. ClientStep(c)
  BY <1>2, <1>3 DEF ClientStep, ExecTypes, Client
<1>5. ClientTypes(c)'
  BY <1>1, <1>2, <1>3 DEF ClientTypes
<1>6. QED BY <1>2, <1>3, <1>4, <1>5

\* Issue, seen from the client.
LEMMA IssueStep ==
    ASSUME ExecTypes, NEW c \in Client, Issue(c)
    PROVE  /\ ClientStep(c) /\ ClientTypes(c)' /\ left' = left
           /\ state[c] = "waiting" /\ state'[c] = "request" /\ now >= scheduled[c]
           /\ it'[c] = it[c] /\ scheduled'[c] = scheduled[c] /\ weight'[c] = weight[c]
           /\ began'[c] = now /\ made'[c] = made[c] /\ work'[c] = work[c]
           /\ type'[c] = type[c] /\ sampler' = sampler /\ sampled' = sampled
           /\ UNCHANGED measured
<1>1. ClientTypes(c) /\ now \in Nat
  BY DEF ExecTypes
<1>2. /\ state[c] = "waiting" /\ state' = [state EXCEPT ![c] = "request"]
      /\ began' = [began EXCEPT ![c] = now] /\ now >= scheduled[c]
      /\ UNCHANGED <<loaded, now, it, scheduled, weight, type, left, sampler, measured,
                     made, work, sampled>>
  BY DEF Issue
<1>3. state'[c] = "request" /\ began'[c] = now
  BY <1>2 DEF Client, ExecTypes
<1>4. ClientStep(c)
  BY <1>2, <1>3 DEF ClientStep, ExecTypes, Client
<1>5. ClientTypes(c)'
  BY <1>1, <1>2, <1>3 DEF ClientTypes
<1>6. QED BY <1>2, <1>3, <1>4, <1>5

\* The iterations and the time the control sees in NextRequest.
StepsOf(c) == IF began[c] = None THEN it[c] ELSE it[c] + 1
ElapsedOf(c) == IF began[c] = None THEN 0 ELSE now

\* NextRequest, seen from the client.
LEMMA NextRequestStep ==
    ASSUME ExecTypes, NEW c \in Client, NextRequest(c)
    PROVE  /\ ClientStep(c) /\ ClientTypes(c)' /\ left' \in Nat \union {None}
           /\ left = 0 => left' = 0
           /\ state[c] = "ready" /\ it'[c] = StepsOf(c) /\ weight'[c] = weight[c]
           /\ began'[c] = began[c] /\ made'[c] = made[c] /\ work'[c] = work[c]
           /\ \/ /\ state'[c] = "done" /\ scheduled'[c] = scheduled[c] /\ left' = left
                 /\ \/ left = 0
                    \/ ~Infinite(task) /\ ControlCompleted(task, StepsOf(c), ElapsedOf(c))
              \/ /\ state'[c] = "waiting"
                 /\ scheduled'[c] = NextScheduled(task, weight[c], scheduled[c])
                 /\ type'[c] = IF InWarmup(task, StepsOf(c), ElapsedOf(c)) THEN Warmup ELSE Normal
                 /\ Infinite(task) \/ ~ControlCompleted(task, StepsOf(c), ElapsedOf(c))
           /\ sampler' = sampler /\ sampled' = sampled /\ UNCHANGED measured
<1>1. ClientTypes(c) /\ now \in Nat /\ left \in Nat \union {None} /\ task.wait \in Nat
  BY DEF ExecTypes, Known
<1>. DEFINE ended == \/ ~Infinite(task) /\ ControlCompleted(task, StepsOf(c), ElapsedOf(c))
                     \/ left = 0
<1>2. /\ state[c] = "ready" /\ it' = [it EXCEPT ![c] = StepsOf(c)]
      /\ state' = [state EXCEPT ![c] = IF ended THEN "done" ELSE "waiting"]
      /\ IF ended THEN UNCHANGED <<scheduled, type, left>>
         ELSE /\ scheduled' = [scheduled EXCEPT ![c] =
                                 NextScheduled(task, weight[c], scheduled[c])]
              /\ type' = [type EXCEPT ![c] =
                            IF InWarmup(task, StepsOf(c), ElapsedOf(c)) THEN Warmup ELSE Normal]
              /\ left' = IF left = None THEN None ELSE left - 1
      /\ UNCHANGED <<loaded, now, weight, began, sampler, measured, made, work, sampled>>
  BY DEF NextRequest, StepsOf, ElapsedOf, ExecTypes
<1>3. it'[c] = StepsOf(c) /\ StepsOf(c) \in Nat
  BY <1>1, <1>2 DEF StepsOf, ClientTypes, ExecTypes
<1>4. CASE ended
  <2>1. /\ state' = [state EXCEPT ![c] = "done"] /\ state'[c] = "done"
        /\ UNCHANGED <<scheduled, type, left>>
    BY <1>2, <1>4 DEF Client
  <2>. HIDE DEF ended
  <2>2. ClientStep(c)
    BY <1>2, <1>3, <2>1 DEF ClientStep, ExecTypes, Client
  <2>3. ClientTypes(c)'
    BY <1>1, <1>2, <1>3, <2>1 DEF ClientTypes
  <2>4. QED BY <1>1, <1>2, <1>3, <1>4, <2>1, <2>2, <2>3 DEF ended
<1>5. CASE ~ended
  <2>1. PICK sc, ty : /\ sc = NextScheduled(task, weight[c], scheduled[c])
                      /\ ty = IF InWarmup(task, StepsOf(c), ElapsedOf(c)) THEN Warmup ELSE Normal
    OBVIOUS
  <2>2. /\ state' = [state EXCEPT ![c] = "waiting"] /\ state'[c] = "waiting"
        /\ scheduled' = [scheduled EXCEPT ![c] = sc] /\ scheduled'[c] = sc
        /\ type' = [type EXCEPT ![c] = ty] /\ type'[c] = ty
        /\ left' = IF left = None THEN None ELSE left - 1
        /\ left # 0
    BY <1>2, <1>5, <2>1 DEF Client, ExecTypes
  <2>3. sc \in Nat
    <3>1. scheduled[c] \in Nat /\ weight[c] \in Nat /\ task.wait \in Nat
      BY <1>1 DEF ClientTypes
    <3>2. PICK a \in Nat, b \in Nat, w \in Nat :
             a = scheduled[c] /\ b = weight[c] /\ w = task.wait
      BY <3>1
    <3>3. w * b \in Nat
      BY <3>2
    <3>4. sc = 0 \/ sc = a + w * b
      BY <2>1, <3>2 DEF NextScheduled
    <3>5. QED BY <3>2, <3>3, <3>4
  <2>4. ty \in {Warmup, Normal}
    BY <2>1
  <2>. HIDE DEF ended
  <2>5. ClientStep(c)
    BY <1>2, <1>3, <2>2 DEF ClientStep, ExecTypes, Client
  <2>6. ClientTypes(c)'
    BY <1>1, <1>2, <1>3, <2>2, <2>3, <2>4 DEF ClientTypes
  <2>7. left' \in Nat \union {None}
    BY <1>1, <2>2 DEF None
  <2>8. QED BY <1>2, <1>3, <1>5, <2>1, <2>2, <2>5, <2>6, <2>7 DEF ended
<1>6. QED BY <1>4, <1>5

\* Requests count operations.
LEMMA WeightsAreNumbers == Weights \union {0} \subseteq Nat
<1>1. Weights \subseteq Nat \ {0}
  BY ExecutionAssumption
<1>2. QED BY <1>1

\* Respond, seen from the client.
LEMMA RespondStep ==
    ASSUME ExecTypes, NEW c \in Client, Respond(c)
    PROVE  /\ ClientStep(c) /\ ClientTypes(c)' /\ left' = left
           /\ state[c] = "request" /\ now > began[c]
           /\ state'[c] = "ready" \/ (state'[c] = "done" /\ task.op.completes)
           /\ it'[c] = it[c] /\ scheduled'[c] = scheduled[c] /\ began'[c] = began[c]
           /\ type'[c] = type[c]
           /\ \E ops \in Weights \union {0} :
                 /\ weight'[c] = CurrentWeight(task, weight[c], ops)
                 /\ work'[c] = work[c] + IF ops > 0 /\ task.op.per_request THEN 1 ELSE ops
                 /\ AddSample([time |-> began[c], period |-> now, ops |-> ops,
                               type |-> type[c], throughput |-> task.op.throughput])
           /\ made'[c] = [made[c] EXCEPT ![type[c]] = @ + 1]
           /\ UNCHANGED measured
<1>1. ClientTypes(c)
  BY DEF ExecTypes
<1>2. /\ state[c] = "request" /\ now > began[c]
      /\ made' = [made EXCEPT ![c][type[c]] = @ + 1]
      /\ UNCHANGED <<loaded, now, it, scheduled, began, type, left, measured>>
  BY DEF Respond
<1>3. PICK ops \in Weights \union {0}, completed \in {FALSE, task.op.completes} :
          /\ AddSample([time |-> began[c], period |-> now, ops |-> ops,
                        type |-> type[c], throughput |-> task.op.throughput])
          /\ weight' = [weight EXCEPT ![c] = CurrentWeight(task, @, ops)]
          /\ state' = [state EXCEPT ![c] = IF completed THEN "done" ELSE "ready"]
          /\ work' = [work EXCEPT ![c] =
                        @ + IF ops > 0 /\ task.op.per_request THEN 1 ELSE ops]
  BY DEF Respond
<1>4. ops \in Nat
  BY <1>3, WeightsAreNumbers
<1>5. PICK w : w = CurrentWeight(task, weight[c], ops)
  OBVIOUS
<1>6. w \in Nat
  BY <1>1, <1>4, <1>5 DEF CurrentWeight, ClientTypes
<1>7. PICK k \in Nat : k = IF ops > 0 /\ task.op.per_request THEN 1 ELSE ops
  BY <1>4
<1>8. /\ weight' = [weight EXCEPT ![c] = w] /\ work' = [work EXCEPT ![c] = work[c] + k]
      /\ weight'[c] = w /\ work'[c] = work[c] + k
  BY <1>3, <1>5, <1>7 DEF ExecTypes
<1>9. state'[c] = "ready" \/ (state'[c] = "done" /\ task.op.completes)
  <2>1. \/ state' = [state EXCEPT ![c] = IF FALSE THEN "done" ELSE "ready"]
        \/ state' = [state EXCEPT ![c] = IF task.op.completes THEN "done" ELSE "ready"]
    BY <1>3
  <2>2. CASE state' = [state EXCEPT ![c] = IF FALSE THEN "done" ELSE "ready"]
    BY <2>2 DEF Client
  <2>3. CASE state' = [state EXCEPT ![c] = IF task.op.completes THEN "done" ELSE "ready"]
    <3>1. CASE task.op.completes
      BY <2>3, <3>1 DEF Client
    <3>2. CASE ~task.op.completes
      BY <2>3, <3>2 DEF Client
    <3>3. QED BY <3>1, <3>2
  <2>4. QED BY <2>1, <2>2, <2>3
<1>10. /\ made'[c] = [made[c] EXCEPT ![type[c]] = @ + 1]
       /\ made'[c] \in [{Warmup, Normal} -> Nat]
  <2>1. made'[c] = [made[c] EXCEPT ![type[c]] = @ + 1]
    BY <1>2 DEF ExecTypes
  <2>2. made[c] \in [{Warmup, Normal} -> Nat] /\ type[c] \in {Warmup, Normal}
    BY <1>1 DEF ClientTypes
  <2>3. made[c][type[c]] + 1 \in Nat
    BY <2>2
  <2>4. QED BY <2>1, <2>2, <2>3
<1>11. ClientStep(c)
  <2>1. DOMAIN state' = DOMAIN state
    BY <1>3
  <2>2. \A d \in Client : d # c => state'[d] = state[d] /\ made'[d] = made[d]
    BY <1>2, <1>3 DEF Client, ExecTypes
  <2>3. DOMAIN made' = DOMAIN made
    BY <1>2
  <2>4. QED BY <1>2, <1>8, <2>1, <2>2, <2>3 DEF ClientStep, ExecTypes, Client
<1>12. ClientTypes(c)'
  BY <1>1, <1>2, <1>6, <1>7, <1>8, <1>9, <1>10 DEF ClientTypes
<1>13. \E o \in Weights \union {0} :
          /\ weight'[c] = CurrentWeight(task, weight[c], o)
          /\ work'[c] = work[c] + IF o > 0 /\ task.op.per_request THEN 1 ELSE o
          /\ AddSample([time |-> began[c], period |-> now, ops |-> o,
                        type |-> type[c], throughput |-> task.op.throughput])
  BY <1>3, <1>5, <1>7, <1>8
<1>14. QED BY <1>2, <1>9, <1>10, <1>11, <1>12, <1>13

-----------------------------------------------------------------------------
(* The target throughput.                                                    *)

ExecInv == ExecTypes /\ \A c \in Client : TargetInv(c)

\* Time for x more operations.
LEMMA TimeForMore ==
    ASSUME NEW a \in Nat, NEW n \in Nat, NEW x \in Nat, NEW w \in Nat, a >= n * w
    PROVE  a + w * x >= (n + x) * w /\ a + w * x >= n * w
<1>1. PICK p \in Nat, q \in Nat : p = n * w /\ q = w * x
  OBVIOUS
<1>2. (n + x) * w = n * w + w * x
  OBVIOUS
<1>3. a >= p
  BY <1>1
<1>4. a + q >= p + q /\ a + q >= p
  BY <1>1, <1>3
<1>5. QED BY <1>1, <1>2, <1>4

\* The schedule of a client follows what it has done.
LEMMA TargetStep ==
    ASSUME ExecInv, NEW c \in Client,
           RampedUp(c) \/ NextRequest(c) \/ Issue(c) \/ Respond(c)
    PROVE  TargetInv(c)'
<1>1. ExecTypes /\ TargetInv(c) /\ ClientTypes(c) /\ now \in Nat /\ task.wait \in Nat
  BY DEF ExecInv, ExecTypes, Known
<1>. DEFINE w == task.wait
<1>2. /\ scheduled[c] \in Nat /\ weight[c] \in Nat /\ work[c] \in Nat /\ w \in Nat
  BY <1>1 DEF ClientTypes
<1>3. CASE RampedUp(c)
  <2>1. /\ ClientStep(c) /\ state[c] = "asleep" /\ state'[c] = "ready"
        /\ scheduled'[c] = scheduled[c] /\ weight'[c] = weight[c] /\ work'[c] = work[c]
    BY <1>1, <1>3, RampedUpStep
  <2>2. task' = task
    BY <2>1 DEF ClientStep, loaded
  <2>3. QED BY <1>1, <2>1, <2>2 DEF TargetInv
<1>4. CASE Issue(c)
  <2>1. /\ ClientStep(c) /\ state[c] = "waiting" /\ state'[c] = "request"
        /\ scheduled'[c] = scheduled[c] /\ weight'[c] = weight[c] /\ work'[c] = work[c]
        /\ began'[c] = now /\ now >= scheduled[c]
    BY <1>1, <1>4, IssueStep
  <2>2. task' = task
    BY <2>1 DEF ClientStep, loaded
  <2>3. QED BY <1>1, <2>1, <2>2 DEF TargetInv
<1>5. CASE NextRequest(c)
  <2>1. /\ ClientStep(c) /\ state[c] = "ready"
        /\ weight'[c] = weight[c] /\ work'[c] = work[c]
        /\ \/ state'[c] = "done"
           \/ /\ state'[c] = "waiting"
              /\ scheduled'[c] = NextScheduled(task, weight[c], scheduled[c])
    BY <1>1, <1>5, NextRequestStep
  <2>2. task' = task
    BY <2>1 DEF ClientStep, loaded
  <2>3. CASE state'[c] = "done"
    BY <1>1, <2>1, <2>2, <2>3 DEF TargetInv
  <2>4. CASE state'[c] = "waiting" /\ scheduled'[c] = NextScheduled(task, weight[c], scheduled[c])
    <3>1. SUFFICES ASSUME w # 0 PROVE scheduled'[c] >= work[c] * w
      BY <1>1, <2>1, <2>2, <2>4 DEF TargetInv
    <3>2. /\ weight[c] = 0 => work[c] = 0
          /\ scheduled[c] + w * weight[c] >= work[c] * w
      BY <1>1, <2>1, <3>1 DEF TargetInv
    <3>3. CASE weight[c] = 0
      <4>1. scheduled'[c] = 0 /\ work[c] = 0
        BY <2>4, <3>2, <3>3 DEF NextScheduled
      <4>2. QED BY <1>2, <4>1
    <3>4. CASE weight[c] # 0
      BY <2>4, <3>1, <3>2, <3>4 DEF NextScheduled
    <3>5. QED BY <3>3, <3>4
  <2>5. QED BY <2>1, <2>3, <2>4
<1>6. CASE Respond(c)
  <2>1. /\ ClientStep(c) /\ state[c] = "request" /\ state'[c] \in {"ready", "done"}
        /\ scheduled'[c] = scheduled[c]
        /\ \E ops \in Weights \union {0} :
              /\ weight'[c] = CurrentWeight(task, weight[c], ops)
              /\ work'[c] = work[c] + IF ops > 0 /\ task.op.per_request THEN 1 ELSE ops
    BY <1>1, <1>6, RespondStep
  <2>2. task' = task
    BY <2>1 DEF ClientStep, loaded
  <2>3. PICK ops \in Weights \union {0} :
              /\ weight'[c] = CurrentWeight(task, weight[c], ops)
              /\ work'[c] = work[c] + IF ops > 0 /\ task.op.per_request THEN 1 ELSE ops
    BY <2>1
  <2>4. ops \in Nat
    BY <2>3, WeightsAreNumbers
  <2>5. SUFFICES ASSUME w # 0
        PROVE  /\ weight'[c] = 0 => work'[c] = 0
               /\ scheduled[c] + w * weight'[c] >= work'[c] * w
    BY <2>1, <2>2 DEF TargetInv
  <2>6. (weight[c] = 0 => work[c] = 0) /\ scheduled[c] >= work[c] * w
    BY <1>1, <2>1, <2>5 DEF TargetInv
  <2>7. CASE ops = 0
    <3>1. weight'[c] = weight[c] /\ work'[c] = work[c]
      BY <1>2, <2>3, <2>7 DEF CurrentWeight
    <3>2. scheduled[c] + w * weight[c] >= work[c] * w
      BY <1>2, <2>6, TimeForMore
    <3>3. QED BY <2>6, <3>1, <3>2
  <2>8. CASE ops # 0
    <3>1. PICK x \in Nat : x = (IF task.op.per_request THEN 1 ELSE ops) /\ x # 0
      BY <2>4, <2>8
    <3>2. weight'[c] = x /\ work'[c] = work[c] + x
      BY <2>3, <2>4, <2>5, <2>8, <3>1 DEF CurrentWeight
    <3>3. scheduled[c] + w * x >= (work[c] + x) * w
      BY <1>2, <2>6, <3>1, TimeForMore
    <3>4. QED BY <3>1, <3>2, <3>3
  <2>9. QED BY <2>7, <2>8
<1>7. QED BY <1>3, <1>4, <1>5, <1>6

\* Every step keeps the types and the schedules of the clients.
LEMMA ExecInvStep ==
    ASSUME ExecInv, [Next]_vars
    PROVE  ExecInv'
<1>1. ExecTypes /\ \A c \in Client : TargetInv(c)
  BY DEF ExecInv
<1>2. CASE UNCHANGED <<benchmark, task, clients, left, made, work>> /\ now' \in Nat
  BY <1>1, <1>2, ClientsUntouched DEF ExecInv
<1>3. now \in Nat /\ now + 1 \in Nat
  BY <1>1 DEF ExecTypes
<1>4. CASE Rejected
  BY <1>2, <1>3, <1>4 DEF Rejected
<1>5. CASE Load
  <2>1. CASE Rejected
    BY <1>4, <2>1
  <2>2. CASE /\ Known(task', benchmark.test_mode) /\ Fresh(task.clients)'
             /\ left' = task'.op.size
             /\ UNCHANGED <<benchmark, now, sampler, measured, sampled>>
    <3>1. PICK n \in Nat : n = task'.clients
      BY <2>2 DEF Known
    <3>2. Fresh(n)'
      BY <2>2, <3>1
    <3>3. (/\ DOMAIN it = Client /\ DOMAIN scheduled = Client /\ DOMAIN weight = Client
           /\ DOMAIN began = Client /\ DOMAIN type = Client /\ DOMAIN made = Client
           /\ DOMAIN work = Client
           /\ \A c \in Client : ClientTypes(c) /\ state[c] = "asleep" /\ work[c] = 0
                                /\ weight[c] = 0 /\ scheduled[c] = 0)'
      BY <3>2, FreshTypes
    <3>4. ExecTypes'
      BY <1>1, <2>2, <3>3 DEF ExecTypes, Known
    <3>5. task'.wait \in Nat
      BY <2>2 DEF Known
    <3>6. \A c \in Client' : TargetInv(c)'
      BY <3>3, <3>5 DEF TargetInv
    <3>7. QED BY <3>4, <3>6 DEF ExecInv
  <2>3. QED BY <1>1, <1>5, <2>1, <2>2, Loaded
<1>6. CASE Reject
  BY <1>4, <1>6 DEF Reject
<1>7. CASE Tick
  BY <1>2, <1>3, <1>7 DEF Tick, loaded
<1>8. ASSUME NEW c \in Client, RampedUp(c) \/ NextRequest(c) \/ Issue(c) \/ Respond(c)
      PROVE  ExecInv'
  <2>1. left \in Nat \union {None}
    BY <1>1 DEF ExecTypes
  <2>2. ClientStep(c) /\ ClientTypes(c)' /\ left' \in Nat \union {None}
    BY <1>1, <1>8, <2>1, RampedUpStep, NextRequestStep, IssueStep, RespondStep
  <2>3. ExecTypes' /\ Client' = Client
    BY <1>1, <2>2, OneClient
  <2>4. TargetInv(c)'
    BY <1>8, TargetStep
  <2>5. ASSUME NEW d \in Client, d # c PROVE TargetInv(d)'
    BY <1>1, <2>2, <2>5 DEF TargetInv, ClientStep, loaded
  <2>6. QED BY <2>3, <2>4, <2>5 DEF ExecInv
<1>9. CASE SendSamples
  BY <1>2, <1>3, <1>9 DEF SendSamples, loaded
<1>10. CASE PostProcess
  BY <1>2, <1>3, <1>10 DEF PostProcess, loaded
<1>11. CASE UNCHANGED vars
  BY <1>2, <1>3, <1>11 DEF vars, loaded
<1>12. QED BY <1>5, <1>6, <1>7, <1>8, <1>9, <1>10, <1>11 DEF Next, Run

\* Nothing is loaded at first.
LEMMA ExecInvInit == Init => ExecInv
<1>1. SUFFICES ASSUME Init PROVE ExecInv
  OBVIOUS
<1>2. Client = {} /\ DOMAIN <<>> = {}
  BY <1>1, ShortSeqs DEF Init, Client
<1>3. QED BY <1>1, <1>2 DEF Init, ExecInv, ExecTypes

\* The clients have what their actions expect, and their schedules follow what they
\* have done.
THEOREM ExecutionInvariant == Spec => []ExecInv
<1>1. Init => ExecInv
  BY ExecInvInit
<1>2. ExecInv /\ [Next]_vars => ExecInv'
  BY ExecInvStep
<1>3. QED BY <1>1, <1>2, PTL DEF Spec

\* A client is never ahead of its target throughput, whatever its requests weigh and
\* however many of them fail, for any workload, number of clients and durations: what
\* it has done, at the target rate, is over when it sends the next request.
THEOREM NeverAheadOfTarget == Spec => []TargetRespected
<1>1. ASSUME ExecInv PROVE TargetRespected
  <2>1. SUFFICES ASSUME NEW c \in Client, state[c] = "request"
                 PROVE  work[c] * task.wait <= began[c]
    BY DEF TargetRespected
  <2>2. ClientTypes(c) /\ TargetInv(c) /\ task.wait \in Nat
    BY <1>1 DEF ExecInv, ExecTypes, Known
  <2>3. began[c] \in Nat /\ work[c] \in Nat /\ scheduled[c] \in Nat
    BY <2>1, <2>2 DEF ClientTypes
  <2>4. CASE task.wait = 0
    BY <2>3, <2>4
  <2>5. CASE task.wait # 0
    <3>1. scheduled[c] >= work[c] * task.wait /\ began[c] >= scheduled[c]
      BY <2>1, <2>2, <2>5 DEF TargetInv
    <3>2. work[c] * task.wait \in Nat
      BY <2>2, <2>3
    <3>3. QED BY <2>3, <3>1, <3>2
  <2>6. QED BY <2>4, <2>5
<1>2. QED BY <1>1, ExecutionInvariant, PTL

-----------------------------------------------------------------------------
(* When clients end.                                                         *)

WarmupTicks == OrZero(task.warmup_time_period)
WarmupSteps == OrZero(task.warmup_iterations)

\* Not the control ends the schedule: the source has no params left, or the runner
\* says that it is completed.
Excused == left = 0 \/ task.op.completes

\* A client without a target, among those that the ramp-up is shared between, that
\* has not measured anything yet.
Unmeasured(c) ==
    /\ task.wait = 0 /\ task.time_period >= MaxDuration
    /\ task.first + c < task.total
    /\ made[c][Normal] = 0

\* A client that runs for a time is not done before, and while it has not measured
\* anything it is still in its warmup, or has its first measured request before it.
TimeInv(c) ==
    /\ state[c] = "done" => Excused \/ now >= WarmupTicks + task.time_period
    /\ Unmeasured(c) =>
          /\ state[c] = "asleep" => began[c] = None /\ now <= RampUpWait(task, c)
          /\ state[c] = "ready" => IF began[c] = None THEN now <= RampUpWait(task, c)
                                   ELSE now < WarmupTicks + MaxDuration
          /\ state[c] = "waiting" => scheduled[c] = 0 /\ (type[c] = Warmup => now < WarmupTicks)
          /\ state[c] = "request" /\ type[c] = Warmup =>
                began[c] < WarmupTicks /\ now <= began[c] + MaxDuration
          /\ state[c] = "done" => Excused

\* Client c has made k requests, the first of them as warmup.
Progress(c, k) ==
    /\ made[c][Warmup] = IF k <= WarmupSteps THEN k ELSE WarmupSteps
    /\ made[c][Normal] = IF k <= WarmupSteps THEN 0 ELSE k - WarmupSteps

\* A client that counts iterations has made as many requests as its control says.
IterInv(c) ==
    LET all == WarmupSteps + Iterations(task)
    IN  /\ state[c] = "asleep" => began[c] = None /\ it[c] = 0 /\ Progress(c, 0)
        /\ state[c] = "ready" => IF began[c] = None THEN it[c] = 0 /\ Progress(c, 0)
                                 ELSE it[c] < all /\ Progress(c, it[c] + 1)
        /\ state[c] \in {"waiting", "request"} =>
              /\ it[c] < all /\ Progress(c, it[c])
              /\ type[c] = IF it[c] < WarmupSteps THEN Warmup ELSE Normal
        /\ state[c] = "done" => Excused \/ Progress(c, all)

RunInv(c) ==
    /\ task.time_period # None => TimeInv(c)
    /\ ~TimeBased(task) /\ ~Infinite(task) => IterInv(c)
    /\ Infinite(task) /\ state[c] = "done" => Excused

RunsInv ==
    /\ ExecTypes
    /\ Client \subseteq Nat
    /\ phase = "loading" => now = 0 /\ Client = {}
    /\ \A c \in Client : RunInv(c)

\* The numbers of a task.
LEMMA TaskNumbers ==
    ASSUME NEW x, NEW testMode, testMode \in BOOLEAN, Known(x, testMode)
    PROVE  /\ x.time_period \in Int /\ x.iterations \in Int
           /\ OrZero(x.warmup_time_period) \in Nat /\ OrZero(x.warmup_iterations) \in Nat
           /\ OrZero(x.ramp_up) \in Nat
           /\ x.time_period # None => /\ x.time_period >= 1
                                      /\ TimeBased(x) /\ ~Infinite(x)
           /\ ~TimeBased(x) /\ ~Infinite(x) => Iterations(x) \in Nat \ {0}
           /\ OrZero(x.warmup_time_period) > 0 =>
                 OrZero(x.ramp_up) <= OrZero(x.warmup_time_period)
<1>. DEFINE a == Wanted(x, "iterations")          b == Wanted(x, "warmup_iterations")
            p == Wanted(x, "time_period")         q == Wanted(x, "warmup_time_period")
            r == Wanted(x, "ramp_up")
<1>1. /\ a \in Int /\ (a # None => a >= 1)
      /\ b \in Int /\ (b # None => b >= 0)
      /\ p \in Int /\ (p # None => p >= 1)
      /\ q \in Int /\ (q # None => q >= 0)
      /\ r \in Int /\ (r # None => r >= 0)
  <2>1. /\ "iterations" \in Keys /\ "warmup_iterations" \in Keys /\ "time_period" \in Keys
        /\ "warmup_time_period" \in Keys /\ "ramp_up" \in Keys
    BY DEF Keys
  <2>2. /\ Least["iterations"] = 1 /\ Least["time_period"] = 1
        /\ Least["warmup_iterations"] = 0 /\ Least["warmup_time_period"] = 0
        /\ Least["ramp_up"] = 0
    BY <2>1 DEF Least
  <2>3. \A key \in Keys : /\ Wanted(x, key) \in Int
                          /\ Wanted(x, key) # None => Wanted(x, key) >= Least[key]
    BY DEF Known
  <2>4. QED BY <2>1, <2>2, <2>3
<1>2. /\ x.clients \in Nat \ {0} /\ TestModePeriod \in Nat \ {0}
      /\ x.iterations = Reduced(testMode, a, x.clients)
      /\ x.warmup_iterations = Reduced(testMode, b, x.clients)
      /\ x.time_period = Reduced(testMode, p, TestModePeriod)
      /\ x.warmup_time_period = Reduced(testMode, q, 0)
      /\ x.ramp_up = r
      /\ r # None => q # None /\ q >= r
      /\ x.op.size \in Nat \union {None}
  BY SpecificationAssumption DEF Known
<1>. HIDE DEF a, b, p, q, r
<1>3. /\ x.iterations \in Int /\ (x.iterations # None => x.iterations >= 1)
      /\ x.warmup_iterations \in Int /\ (x.warmup_iterations # None => x.warmup_iterations >= 0)
      /\ x.time_period \in Int /\ (x.time_period # None => x.time_period >= 1)
      /\ x.warmup_time_period \in Int /\ (x.warmup_time_period # None => x.warmup_time_period >= 0)
      /\ x.ramp_up \in Int /\ (x.ramp_up # None => x.ramp_up >= 0)
  BY <1>1, <1>2 DEF Reduced, None
<1>4. /\ OrZero(x.warmup_time_period) \in Nat /\ OrZero(x.warmup_iterations) \in Nat
      /\ OrZero(x.ramp_up) \in Nat
  BY <1>3 DEF OrZero
<1>5. x.time_period # None => TimeBased(x) /\ ~Infinite(x)
  BY DEF TimeBased, Infinite
<1>6. ~TimeBased(x) /\ ~Infinite(x) => Iterations(x) \in Nat \ {0}
  <2>1. SUFFICES ASSUME ~TimeBased(x), ~Infinite(x) PROVE Iterations(x) \in Nat \ {0}
    OBVIOUS
  <2>2. Iterations(x) # None
    BY <2>1 DEF Infinite
  <2>3. QED BY <1>3, <2>2 DEF Iterations
<1>7. OrZero(x.warmup_time_period) > 0 => OrZero(x.ramp_up) <= OrZero(x.warmup_time_period)
  BY <1>1, <1>2, <1>3 DEF Reduced, OrZero, None
<1>8. QED BY <1>3, <1>4, <1>5, <1>6, <1>7

\* A part of a whole that is not the whole, rounded down.
LEMMA ShareBelow ==
    ASSUME NEW r \in Nat, NEW k \in Nat, NEW n \in Nat \ {0}
    PROVE  /\ (r * k) \div n \in Nat
           /\ k < n /\ r > 0 => (r * k) \div n < r
<1>1. PICK m \in Nat : m = r * k
  OBVIOUS
<1>2. PICK y : y = m \div n
  OBVIOUS
<1>3. y \in Nat /\ n * y <= m
  BY <1>1, <1>2
<1>4. ASSUME k < n, r > 0, y >= r PROVE FALSE
  <2>1. n * y >= n * r
    <3>1. PICK d \in Nat : y = r + d
      <4>1. y - r \in Nat /\ y = r + (y - r)
        BY <1>3, <1>4
      <4>2. QED BY <4>1
    <3>2. n * y = n * r + n * d
      BY <3>1
    <3>3. n * d \in Nat /\ n * r \in Nat
      BY <3>1
    <3>4. QED BY <3>2, <3>3
  <2>2. r * n > r * k
    <3>1. PICK e \in Nat \ {0} : n = k + e
      <4>1. n - k \in Nat \ {0} /\ n = k + (n - k)
        BY <1>4
      <4>2. QED BY <4>1
    <3>2. r * n = r * k + r * e
      BY <3>1
    <3>3. r * e \in Nat /\ r * e > 0
      BY <1>4, <3>1
    <3>4. r * k \in Nat
      OBVIOUS
    <3>5. QED BY <3>2, <3>3, <3>4
  <2>3. r * n = n * r /\ n * r \in Nat /\ r * k \in Nat /\ n * y \in Nat
    BY <1>3
  <2>4. QED BY <1>1, <1>3, <2>1, <2>2, <2>3
<1>5. QED BY <1>1, <1>2, <1>3, <1>4

\* The ramp-up is over before the warmup.
LEMMA RampUpBeforeWarmup ==
    ASSUME NEW x, NEW testMode, testMode \in BOOLEAN, Known(x, testMode), NEW c \in Nat
    PROVE  /\ RampUpWait(x, c) \in Nat
           /\ x.first + c < x.total /\ OrZero(x.warmup_time_period) > 0 =>
                 RampUpWait(x, c) < OrZero(x.warmup_time_period)
<1>1. PICK r \in Nat, w \in Nat : r = OrZero(x.ramp_up) /\ w = OrZero(x.warmup_time_period)
  BY TaskNumbers
<1>2. w > 0 => r <= w
  BY <1>1, TaskNumbers
<1>3. PICK k \in Nat, n \in Nat \ {0} : k = x.first + c /\ n = x.total
  BY DEF Known
<1>4. RampUpWait(x, c) = (r * k) \div n
  BY <1>1, <1>3 DEF RampUpWait
<1>5. PICK y \in Nat : y = (r * k) \div n /\ (k < n /\ r > 0 => y < r)
  BY <1>1, <1>3, ShareBelow
<1>6. r = 0 => y = 0
  BY <1>1, <1>3, <1>5
<1>7. k < n /\ w > 0 => y < w
  BY <1>1, <1>2, <1>3, <1>5, <1>6
<1>8. QED BY <1>1, <1>3, <1>4, <1>5, <1>7

\* What the steps of the clients rely on.
LEMMA RunFacts ==
    ASSUME RunsInv, NEW c \in Client
    PROVE  /\ ExecTypes /\ ClientTypes(c) /\ RunInv(c) /\ c \in Nat /\ now \in Nat
           /\ WarmupTicks \in Nat /\ WarmupSteps \in Nat /\ task.time_period \in Int
           /\ MaxDuration \in Nat \ {0}
           /\ task.time_period # None => /\ task.time_period >= 1
                                         /\ TimeBased(task) /\ ~Infinite(task)
           /\ ~TimeBased(task) /\ ~Infinite(task) => Iterations(task) \in Nat \ {0}
           /\ RampUpWait(task, c) \in Nat
           /\ task.first + c < task.total /\ WarmupTicks > 0 =>
                 RampUpWait(task, c) < WarmupTicks
<1>1. /\ ExecTypes /\ ClientTypes(c) /\ RunInv(c) /\ c \in Nat /\ now \in Nat
      /\ Known(task, benchmark.test_mode) /\ benchmark \in Benchmarks
  BY DEF RunsInv, ExecTypes
<1>2. benchmark.test_mode \in BOOLEAN /\ MaxDuration \in Nat \ {0}
  BY <1>1, ExecutionAssumption
<1>3. QED BY <1>1, <1>2, TaskNumbers, RampUpBeforeWarmup DEF WarmupTicks, WarmupSteps

\* The control of a time period, in terms of the clock.
LEMMA TimeControl ==
    ASSUME RunsInv, NEW c \in Client, task.time_period # None
    PROVE  /\ ControlCompleted(task, StepsOf(c), ElapsedOf(c)) =>
                 began[c] # None /\ now >= WarmupTicks + task.time_period
           /\ InWarmup(task, StepsOf(c), ElapsedOf(c)) =>
                 WarmupTicks > 0 /\ (began[c] # None => now < WarmupTicks)
<1>1. /\ WarmupTicks \in Nat /\ task.time_period \in Int /\ task.time_period >= 1
      /\ TimeBased(task) /\ now \in Nat
  BY RunFacts
<1>2. ElapsedOf(c) = IF began[c] = None THEN 0 ELSE now
  BY DEF ElapsedOf
<1>3. /\ ControlCompleted(task, StepsOf(c), ElapsedOf(c)) <=>
            ElapsedOf(c) >= WarmupTicks + task.time_period
      /\ InWarmup(task, StepsOf(c), ElapsedOf(c)) <=> ElapsedOf(c) < WarmupTicks
  BY <1>1 DEF ControlCompleted, InWarmup, WarmupTicks
<1>4. QED BY <1>1, <1>2, <1>3

\* A client with a time period.
LEMMA TimeStep ==
    ASSUME RunsInv, NEW c \in Client, task.time_period # None,
           RampedUp(c) \/ NextRequest(c) \/ Issue(c) \/ Respond(c)
    PROVE  TimeInv(c)'
<1>1. /\ ExecTypes /\ ClientTypes(c) /\ TimeInv(c) /\ now \in Nat
      /\ WarmupTicks \in Nat /\ task.time_period \in Int /\ task.time_period >= 1
      /\ MaxDuration \in Nat \ {0} /\ RampUpWait(task, c) \in Nat
      /\ task.first + c < task.total /\ WarmupTicks > 0 => RampUpWait(task, c) < WarmupTicks
  BY RunFacts DEF RunInv
<1>. DEFINE w == WarmupTicks    r == RampUpWait(task, c)
<1>2. CASE RampedUp(c)
  <2>1. /\ ClientStep(c) /\ left' = left /\ state[c] = "asleep" /\ state'[c] = "ready"
        /\ began'[c] = began[c] /\ made'[c] = made[c]
    BY <1>1, <1>2, RampedUpStep
  <2>2. task' = task /\ now' = now
    BY <2>1 DEF ClientStep, loaded
  <2>3. QED BY <1>1, <2>1, <2>2 DEF TimeInv, Unmeasured, Excused, WarmupTicks
<1>3. CASE Issue(c)
  <2>1. /\ ClientStep(c) /\ left' = left /\ state[c] = "waiting" /\ state'[c] = "request"
        /\ began'[c] = now /\ made'[c] = made[c] /\ type'[c] = type[c]
    BY <1>1, <1>3, IssueStep
  <2>2. task' = task /\ now' = now
    BY <2>1 DEF ClientStep, loaded
  <2>3. WarmupTicks' = WarmupTicks /\ now <= now + MaxDuration
    BY <1>1, <2>2 DEF WarmupTicks
  <2>4. SUFFICES ASSUME Unmeasured(c), type[c] = Warmup
                 PROVE  now < WarmupTicks
    BY <2>1, <2>2, <2>3 DEF TimeInv, Unmeasured
  <2>5. QED BY <1>1, <2>1, <2>4 DEF TimeInv
<1>4. CASE NextRequest(c)
  <2>1. /\ ClientStep(c) /\ state[c] = "ready" /\ (left = 0 => left' = 0)
        /\ began'[c] = began[c] /\ made'[c] = made[c]
        /\ \/ /\ state'[c] = "done"
              /\ \/ left = 0
                 \/ ControlCompleted(task, StepsOf(c), ElapsedOf(c))
           \/ /\ state'[c] = "waiting"
              /\ scheduled'[c] = NextScheduled(task, weight[c], scheduled[c])
              /\ type'[c] = IF InWarmup(task, StepsOf(c), ElapsedOf(c)) THEN Warmup ELSE Normal
    BY <1>1, <1>4, NextRequestStep
  <2>2. task' = task /\ now' = now
    BY <2>1 DEF ClientStep, loaded
  <2>3. WarmupTicks' = WarmupTicks /\ Unmeasured(c)' = Unmeasured(c)
    BY <2>1, <2>2 DEF WarmupTicks, Unmeasured
  <2>4. Unmeasured(c) => IF began[c] = None THEN now <= r ELSE now < w + MaxDuration
    BY <1>1, <2>1 DEF TimeInv
  <2>5. CASE state'[c] = "done" /\ left = 0
    BY <2>1, <2>5 DEF TimeInv, Excused
  <2>6. CASE state'[c] = "done" /\ ControlCompleted(task, StepsOf(c), ElapsedOf(c))
    <3>1. began[c] # None /\ now >= w + task.time_period
      BY <2>6, TimeControl
    <3>2. ~Unmeasured(c)
      BY <1>1, <2>4, <3>1 DEF Unmeasured
    <3>3. QED BY <2>2, <2>3, <2>6, <3>1, <3>2 DEF TimeInv
  <2>7. CASE /\ state'[c] = "waiting"
             /\ scheduled'[c] = NextScheduled(task, weight[c], scheduled[c])
             /\ type'[c] = IF InWarmup(task, StepsOf(c), ElapsedOf(c)) THEN Warmup ELSE Normal
    <3>1. SUFFICES ASSUME Unmeasured(c)
                   PROVE  scheduled'[c] = 0 /\ (type'[c] = Warmup => now < w)
      BY <2>2, <2>3, <2>7 DEF TimeInv
    <3>2. scheduled'[c] = 0
      BY <2>7, <3>1 DEF NextScheduled, Unmeasured
    <3>3. ASSUME type'[c] = Warmup PROVE now < w
      <4>1. InWarmup(task, StepsOf(c), ElapsedOf(c))
        BY <2>7, <3>3 DEF Warmup, Normal
      <4>2. w > 0 /\ (began[c] # None => now < w)
        BY <4>1, TimeControl
      <4>3. began[c] = None => now <= r /\ r < w
        BY <1>1, <2>4, <3>1, <4>2 DEF Unmeasured
      <4>4. QED BY <1>1, <4>2, <4>3
    <3>4. QED BY <3>2, <3>3
  <2>8. QED BY <2>1, <2>5, <2>6, <2>7
<1>5. CASE Respond(c)
  <2>1. /\ ClientStep(c) /\ left' = left /\ state[c] = "request"
        /\ state'[c] = "ready" \/ (state'[c] = "done" /\ task.op.completes)
        /\ began'[c] = began[c] /\ type'[c] = type[c]
        /\ made'[c] = [made[c] EXCEPT ![type[c]] = @ + 1]
    BY <1>1, <1>5, RespondStep
  <2>2. task' = task /\ now' = now
    BY <2>1 DEF ClientStep, loaded
  <2>3. WarmupTicks' = WarmupTicks
    BY <2>2 DEF WarmupTicks
  <2>4. made[c] \in [{Warmup, Normal} -> Nat] /\ type[c] \in {Warmup, Normal}
        /\ began[c] \in Nat
    BY <1>1, <2>1 DEF ClientTypes
  <2>5. Unmeasured(c)' => Unmeasured(c) /\ type[c] = Warmup
    <3>1. type[c] = Normal => made'[c][Normal] = made[c][Normal] + 1 /\ made[c][Normal] \in Nat
      BY <2>1, <2>4
    <3>2. type[c] = Warmup => made'[c][Normal] = made[c][Normal]
      BY <2>1, <2>4 DEF Warmup, Normal
    <3>3. QED BY <2>2, <2>4, <3>1, <3>2 DEF Unmeasured
  <2>6. state'[c] = "done" => Excused'
    BY <2>1, <2>2 DEF Excused
  <2>7. SUFFICES ASSUME Unmeasured(c), type[c] = Warmup
                 PROVE  began[c] # None /\ now < w + MaxDuration
    BY <2>1, <2>2, <2>3, <2>5, <2>6 DEF TimeInv
  <2>8. began[c] < w /\ now <= began[c] + MaxDuration
    BY <1>1, <2>1, <2>7 DEF TimeInv
  <2>9. QED BY <1>1, <2>4, <2>8 DEF None
<1>6. QED BY <1>2, <1>3, <1>4, <1>5

\* The control of iterations, in terms of the requests made.
LEMMA IterControl ==
    ASSUME RunsInv, NEW c \in Client, ~TimeBased(task), ~Infinite(task)
    PROVE  /\ ControlCompleted(task, StepsOf(c), ElapsedOf(c)) <=>
                 StepsOf(c) >= WarmupSteps + Iterations(task)
           /\ InWarmup(task, StepsOf(c), ElapsedOf(c)) <=> StepsOf(c) < WarmupSteps
BY DEF ControlCompleted, InWarmup, WarmupSteps

\* A client that counts iterations.
LEMMA IterStep ==
    ASSUME RunsInv, NEW c \in Client, ~TimeBased(task), ~Infinite(task),
           RampedUp(c) \/ NextRequest(c) \/ Issue(c) \/ Respond(c)
    PROVE  IterInv(c)'
<1>1. /\ ExecTypes /\ ClientTypes(c) /\ IterInv(c) /\ now \in Nat
      /\ WarmupSteps \in Nat /\ Iterations(task) \in Nat \ {0}
  BY RunFacts DEF RunInv
<1>. DEFINE all == WarmupSteps + Iterations(task)
<1>2. it[c] \in Nat /\ all \in Nat /\ all > WarmupSteps
  BY <1>1 DEF ClientTypes
<1>3. ASSUME task' = task, made'[c] = made[c]
      PROVE  /\ WarmupSteps' = WarmupSteps /\ Iterations(task') = Iterations(task)
             /\ \A k : Progress(c, k)' = Progress(c, k)
  BY <1>3 DEF WarmupSteps, Progress
<1>4. CASE RampedUp(c)
  <2>1. /\ ClientStep(c) /\ left' = left /\ state[c] = "asleep" /\ state'[c] = "ready"
        /\ began'[c] = began[c] /\ made'[c] = made[c] /\ it'[c] = it[c]
    BY <1>1, <1>4, RampedUpStep
  <2>2. task' = task
    BY <2>1 DEF ClientStep, loaded
  <2>3. QED BY <1>1, <1>3, <2>1, <2>2 DEF IterInv
<1>5. CASE Issue(c)
  <2>1. /\ ClientStep(c) /\ left' = left /\ state[c] = "waiting" /\ state'[c] = "request"
        /\ made'[c] = made[c] /\ type'[c] = type[c] /\ it'[c] = it[c]
    BY <1>1, <1>5, IssueStep
  <2>2. task' = task
    BY <2>1 DEF ClientStep, loaded
  <2>3. QED BY <1>1, <1>3, <2>1, <2>2 DEF IterInv
<1>6. CASE NextRequest(c)
  <2>1. /\ ClientStep(c) /\ state[c] = "ready" /\ (left = 0 => left' = 0)
        /\ made'[c] = made[c] /\ it'[c] = StepsOf(c)
        /\ \/ /\ state'[c] = "done"
              /\ \/ left = 0
                 \/ ControlCompleted(task, StepsOf(c), ElapsedOf(c))
           \/ /\ state'[c] = "waiting"
              /\ type'[c] = IF InWarmup(task, StepsOf(c), ElapsedOf(c)) THEN Warmup ELSE Normal
              /\ ~ControlCompleted(task, StepsOf(c), ElapsedOf(c))
    BY <1>1, <1>6, NextRequestStep
  <2>2. task' = task
    BY <2>1 DEF ClientStep, loaded
  <2>3. /\ WarmupSteps' = WarmupSteps /\ Iterations(task') = Iterations(task)
        /\ \A k : Progress(c, k)' = Progress(c, k)
    BY <1>3, <2>1, <2>2
  <2>4. StepsOf(c) \in Nat /\ StepsOf(c) <= all /\ Progress(c, StepsOf(c))
    <3>1. CASE began[c] = None
      <4>1. it[c] = 0 /\ Progress(c, 0) /\ StepsOf(c) = it[c]
        BY <1>1, <2>1, <3>1 DEF IterInv, StepsOf
      <4>2. QED BY <1>2, <4>1
    <3>2. CASE began[c] # None
      <4>1. it[c] < all /\ Progress(c, it[c] + 1) /\ StepsOf(c) = it[c] + 1
        BY <1>1, <2>1, <3>2 DEF IterInv, StepsOf
      <4>2. QED BY <1>2, <4>1
    <3>3. QED BY <3>1, <3>2
  <2>5. CASE state'[c] = "done" /\ left = 0
    BY <2>1, <2>5 DEF IterInv, Excused
  <2>6. CASE state'[c] = "done" /\ ControlCompleted(task, StepsOf(c), ElapsedOf(c))
    <3>1. StepsOf(c) = all
      BY <1>2, <2>4, <2>6, IterControl
    <3>2. Progress(c, all)'
      BY <2>3, <2>4, <3>1
    <3>3. QED BY <2>3, <2>6, <3>2 DEF IterInv
  <2>7. CASE /\ state'[c] = "waiting"
             /\ type'[c] = IF InWarmup(task, StepsOf(c), ElapsedOf(c)) THEN Warmup ELSE Normal
             /\ ~ControlCompleted(task, StepsOf(c), ElapsedOf(c))
    <3>1. /\ StepsOf(c) < all
          /\ type'[c] = IF StepsOf(c) < WarmupSteps THEN Warmup ELSE Normal
      BY <1>2, <2>4, <2>7, IterControl
    <3>2. Progress(c, it[c])'
      <4>1. PICK k : k = StepsOf(c)
        OBVIOUS
      <4>2. Progress(c, k)'
        BY <2>3, <2>4, <4>1
      <4>3. QED BY <2>1, <4>1, <4>2 DEF Progress
    <3>3. QED BY <2>1, <2>3, <2>7, <3>1, <3>2 DEF IterInv
  <2>8. QED BY <2>1, <2>5, <2>6, <2>7
<1>7. CASE Respond(c)
  <2>1. /\ ClientStep(c) /\ left' = left /\ state[c] = "request"
        /\ state'[c] = "ready" \/ (state'[c] = "done" /\ task.op.completes)
        /\ began'[c] = began[c] /\ it'[c] = it[c]
        /\ made'[c] = [made[c] EXCEPT ![type[c]] = @ + 1]
    BY <1>1, <1>7, RespondStep
  <2>2. task' = task
    BY <2>1 DEF ClientStep, loaded
  <2>3. WarmupSteps' = WarmupSteps /\ Iterations(task') = Iterations(task)
    BY <2>2 DEF WarmupSteps
  <2>4. made[c] \in [{Warmup, Normal} -> Nat] /\ began[c] \in Nat /\ began[c] # None
    BY <1>1, <2>1 DEF ClientTypes, None
  <2>5. state'[c] = "done" => Excused'
    BY <2>1, <2>2 DEF Excused
  <2>6. /\ it[c] < all /\ Progress(c, it[c])
        /\ type[c] = IF it[c] < WarmupSteps THEN Warmup ELSE Normal
    BY <1>1, <2>1 DEF IterInv
  <2>7. /\ made'[c][Warmup] = IF it[c] + 1 <= WarmupSteps THEN it[c] + 1 ELSE WarmupSteps
        /\ made'[c][Normal] = IF it[c] + 1 <= WarmupSteps THEN 0 ELSE (it[c] + 1) - WarmupSteps
    <3>1. CASE it[c] < WarmupSteps
      <4>1. type[c] = Warmup /\ made[c][Warmup] = it[c] /\ made[c][Normal] = 0
        BY <1>1, <1>2, <2>6, <3>1 DEF Progress
      <4>2. made'[c][Warmup] = made[c][Warmup] + 1 /\ made'[c][Normal] = made[c][Normal]
        BY <2>1, <2>4, <4>1 DEF Warmup, Normal
      <4>3. QED BY <1>1, <1>2, <3>1, <4>1, <4>2
    <3>2. CASE ~(it[c] < WarmupSteps)
      <4>1. type[c] = Normal /\ made[c][Warmup] = WarmupSteps
            /\ made[c][Normal] = it[c] - WarmupSteps
        BY <1>1, <1>2, <2>6, <3>2 DEF Progress
      <4>2. made'[c][Normal] = made[c][Normal] + 1 /\ made'[c][Warmup] = made[c][Warmup]
        BY <2>1, <2>4, <4>1 DEF Warmup, Normal
      <4>3. QED BY <1>1, <1>2, <3>2, <4>1, <4>2
    <3>3. QED BY <3>1, <3>2
  <2>8. Progress(c, it[c] + 1)'
    BY <2>1, <2>3, <2>7 DEF Progress
  <2>9. QED BY <2>1, <2>3, <2>4, <2>5, <2>6, <2>8 DEF IterInv
<1>8. QED BY <1>4, <1>5, <1>6, <1>7

\* A client that only its source or its runner ends.
LEMMA InfiniteStep ==
    ASSUME RunsInv, NEW c \in Client, Infinite(task),
           RampedUp(c) \/ NextRequest(c) \/ Issue(c) \/ Respond(c)
    PROVE  state'[c] = "done" => Excused'
<1>1. ExecTypes
  BY DEF RunsInv
<1>2. CASE RampedUp(c)
  BY <1>1, <1>2, RampedUpStep
<1>3. CASE Issue(c)
  BY <1>1, <1>3, IssueStep
<1>4. CASE NextRequest(c)
  BY <1>1, <1>4, NextRequestStep DEF Excused
<1>5. CASE Respond(c)
  <2>1. /\ ClientStep(c)
        /\ state'[c] = "ready" \/ (state'[c] = "done" /\ task.op.completes)
    BY <1>1, <1>5, RespondStep
  <2>2. QED BY <2>1 DEF Excused, ClientStep, loaded
<1>6. QED BY <1>2, <1>3, <1>4, <1>5

\* A client that does nothing, while time stands still.
LEMMA RunStutter ==
    ASSUME NEW d, RunInv(d), UNCHANGED <<task, now>>, left = 0 => left' = 0,
           /\ state'[d] = state[d] /\ it'[d] = it[d] /\ scheduled'[d] = scheduled[d]
           /\ began'[d] = began[d] /\ type'[d] = type[d] /\ made'[d] = made[d]
    PROVE  RunInv(d)'
<1>1. /\ WarmupTicks' = WarmupTicks /\ WarmupSteps' = WarmupSteps
      /\ Unmeasured(d)' = Unmeasured(d) /\ (Excused => Excused')
  BY DEF WarmupTicks, WarmupSteps, Unmeasured, Excused
<1>2. TimeInv(d) => TimeInv(d)'
  BY <1>1 DEF TimeInv
<1>3. IterInv(d) => IterInv(d)'
  <2>1. \A k : Progress(d, k)' = Progress(d, k)
    BY <1>1 DEF Progress
  <2>2. Progress(d, it[d])' = Progress(d, it[d]) /\ Progress(d, it[d] + 1)' = Progress(d, it[d] + 1)
        /\ Progress(d, WarmupSteps + Iterations(task))' = Progress(d, WarmupSteps + Iterations(task))
    BY <1>1 DEF Progress
  <2>3. QED BY <1>1, <2>1, <2>2 DEF IterInv
<1>4. QED BY <1>1, <1>2, <1>3 DEF RunInv

\* A client that does nothing, while time passes.
LEMMA RunTick ==
    ASSUME RunsInv, NEW d \in Client, Tick
    PROVE  RunInv(d)'
<1>1. /\ ClientTypes(d) /\ RunInv(d) /\ now \in Nat
      /\ WarmupTicks \in Nat /\ task.time_period \in Int /\ MaxDuration \in Nat \ {0}
      /\ RampUpWait(task, d) \in Nat
  BY RunFacts
<1>2. /\ ~Urgent(d) /\ now' = now + 1 /\ UNCHANGED <<loaded, clients, left, made>>
  BY DEF Tick
<1>3. /\ WarmupTicks' = WarmupTicks /\ WarmupSteps' = WarmupSteps
      /\ Unmeasured(d)' = Unmeasured(d) /\ Excused' = Excused
      /\ RampUpWait(task', d) = RampUpWait(task, d)
  BY <1>2 DEF WarmupTicks, WarmupSteps, Unmeasured, Excused, loaded, clients
<1>4. /\ state'[d] = state[d] /\ began'[d] = began[d] /\ type'[d] = type[d]
      /\ scheduled'[d] = scheduled[d] /\ task' = task
  BY <1>2 DEF clients, loaded
<1>5. IterInv(d)' = IterInv(d)
  BY <1>2, <1>3 DEF IterInv, Progress, loaded, clients
<1>6. ASSUME task.time_period # None PROVE TimeInv(d)'
  <2>1. TimeInv(d)
    BY <1>1, <1>6 DEF RunInv
  <2>2. state[d] = "done" => (Excused \/ now + 1 >= WarmupTicks + task.time_period)
    BY <1>1, <2>1 DEF TimeInv
  <2>3. ASSUME Unmeasured(d)
        PROVE  /\ state[d] = "asleep" => began[d] = None /\ now + 1 <= RampUpWait(task, d)
               /\ state[d] # "ready"
               /\ state[d] # "waiting"
               /\ state[d] = "request" /\ type[d] = Warmup =>
                     began[d] < WarmupTicks /\ now + 1 <= began[d] + MaxDuration
               /\ state[d] = "done" => Excused
    <3>1. state[d] # "ready"
      BY <1>2 DEF Urgent
    <3>2. state[d] # "waiting"
      <4>1. state[d] = "waiting" => scheduled[d] = 0
        BY <2>1, <2>3 DEF TimeInv
      <4>2. QED BY <1>1, <1>2, <4>1 DEF Urgent
    <3>3. state[d] = "asleep" => began[d] = None /\ now + 1 <= RampUpWait(task, d)
      BY <1>1, <1>2, <2>1, <2>3 DEF TimeInv, Urgent
    <3>4. state[d] = "request" /\ type[d] = Warmup =>
             began[d] < WarmupTicks /\ now + 1 <= began[d] + MaxDuration
      <4>1. SUFFICES ASSUME state[d] = "request", type[d] = Warmup
                     PROVE  began[d] < WarmupTicks /\ now + 1 <= began[d] + MaxDuration
        OBVIOUS
      <4>2. began[d] < WarmupTicks /\ began[d] \in Nat
        BY <1>1, <2>1, <2>3, <4>1 DEF TimeInv, ClientTypes
      <4>3. ~(now - began[d] >= MaxDuration)
        BY <1>2, <4>1 DEF Urgent
      <4>4. QED BY <1>1, <4>2, <4>3
    <3>5. state[d] = "done" => Excused
      BY <2>1, <2>3 DEF TimeInv
    <3>6. QED BY <3>1, <3>2, <3>3, <3>4, <3>5
  <2>4. QED BY <1>2, <1>3, <1>4, <2>2, <2>3 DEF TimeInv
<1>7. QED BY <1>1, <1>3, <1>4, <1>5, <1>6 DEF RunInv

\* Every step keeps what is known of the clients.
LEMMA RunsInvStep ==
    ASSUME RunsInv, ExecInv', [Next]_vars
    PROVE  RunsInv'
<1>1. ExecTypes /\ ExecTypes' /\ now \in Nat /\ Client \subseteq Nat
  BY DEF RunsInv, ExecInv, ExecTypes
<1>2. CASE /\ UNCHANGED <<task, now, clients, left, made>>
           /\ phase' = "loading" => phase = "loading"
  <2>1. Client' = Client
    BY <1>2 DEF Client, clients
  <2>2. ASSUME NEW d \in Client PROVE RunInv(d)'
    <3>1. RunInv(d)
      BY DEF RunsInv
    <3>2. QED BY <1>2, <3>1, RunStutter DEF clients
  <2>3. QED BY <1>1, <1>2, <2>1, <2>2 DEF RunsInv
<1>3. CASE Rejected
  BY <1>2, <1>3 DEF Rejected
<1>4. CASE Load
  <2>1. CASE Rejected
    BY <1>3, <2>1
  <2>2. CASE /\ Known(task', benchmark.test_mode) /\ Fresh(task.clients)'
             /\ phase' = "running" /\ UNCHANGED now
    <3>1. PICK n \in Nat : n = task'.clients
      BY <2>2 DEF Known
    <3>2. Fresh(n)' /\ Client' = 0..(n - 1)
      BY <2>2, <3>1 DEF Fresh, Client
    <3>3. (\A c \in Client : state[c] = "asleep" /\ it[c] = 0 /\ began[c] = None
                             /\ made[c] = [ty \in {Warmup, Normal} |-> 0])'
      BY <3>2, FreshTypes
    <3>4. now = 0 /\ now' = 0
      BY <1>4, <2>2 DEF Load, RunsInv
    <3>5. ASSUME NEW c \in Client' PROVE RunInv(c)'
      <4>1. c \in Nat
        BY <3>2
      <4>2. benchmark.test_mode \in BOOLEAN
        BY <1>1, ExecutionAssumption DEF ExecTypes
      <4>3. RampUpWait(task', c) \in Nat
        BY <2>2, <4>1, <4>2, RampUpBeforeWarmup
      <4>4. OrZero(task'.warmup_iterations) \in Nat
        BY <2>2, <4>2, TaskNumbers
      <4>5. made'[c][Warmup] = 0 /\ made'[c][Normal] = 0
        BY <3>3 DEF Warmup, Normal
      <4>6. Progress(c, 0)'
        BY <4>4, <4>5 DEF Progress, WarmupSteps
      <4>7. state'[c] = "asleep" /\ it'[c] = 0 /\ began'[c] = None
        BY <3>3
      <4>8. TimeInv(c)'
        BY <3>4, <4>3, <4>7 DEF TimeInv
      <4>9. IterInv(c)'
        BY <4>6, <4>7 DEF IterInv
      <4>10. QED BY <4>7, <4>8, <4>9 DEF RunInv
    <3>6. QED BY <1>1, <2>2, <3>2, <3>5 DEF RunsInv
  <2>3. QED BY <1>1, <1>4, <2>1, <2>2, Loaded
<1>5. CASE Reject
  BY <1>3, <1>5 DEF Reject
<1>6. CASE Tick
  <2>1. Client' = Client /\ phase' = phase
    BY <1>6 DEF Tick, Client, clients, loaded
  <2>2. \A d \in Client : RunInv(d)'
    BY <1>6, RunTick
  <2>3. phase # "loading"
    <3>1. PICK d \in Client : state[d] # "done"
      BY <1>6 DEF Tick
    <3>2. QED BY <3>1 DEF RunsInv
  <2>4. QED BY <1>1, <2>1, <2>2, <2>3 DEF RunsInv
<1>7. ASSUME NEW c \in Client, RampedUp(c) \/ NextRequest(c) \/ Issue(c) \/ Respond(c)
      PROVE  RunsInv'
  <2>1. ClientStep(c) /\ ClientTypes(c)' /\ (left = 0 => left' = 0)
    BY <1>1, <1>7, RampedUpStep, NextRequestStep, IssueStep, RespondStep
  <2>2. Client' = Client /\ task' = task /\ now' = now /\ phase' = phase
    BY <2>1 DEF ClientStep, loaded
  <2>3. RunInv(c)'
    <3>1. task.time_period # None => TimeInv(c)'
      BY <1>7, TimeStep
    <3>2. ~TimeBased(task) /\ ~Infinite(task) => IterInv(c)'
      BY <1>7, IterStep
    <3>3. Infinite(task) /\ state'[c] = "done" => Excused'
      BY <1>7, InfiniteStep
    <3>4. QED BY <2>2, <3>1, <3>2, <3>3 DEF RunInv
  <2>4. ASSUME NEW d \in Client, d # c PROVE RunInv(d)'
    <3>1. RunInv(d)
      BY DEF RunsInv
    <3>2. /\ state'[d] = state[d] /\ it'[d] = it[d] /\ scheduled'[d] = scheduled[d]
          /\ began'[d] = began[d] /\ type'[d] = type[d] /\ made'[d] = made[d]
      BY <2>1, <2>4 DEF ClientStep
    <3>3. QED BY <2>1, <2>2, <3>1, <3>2, RunStutter
  <2>5. QED BY <1>1, <2>2, <2>3, <2>4 DEF RunsInv
<1>8. CASE SendSamples
  BY <1>2, <1>8 DEF SendSamples, loaded
<1>9. CASE PostProcess
  BY <1>2, <1>9 DEF PostProcess, loaded
<1>10. CASE UNCHANGED vars
  BY <1>2, <1>10 DEF vars, loaded
<1>11. QED BY <1>4, <1>5, <1>6, <1>7, <1>8, <1>9, <1>10 DEF Next, Run

\* What a client that is done has done is what the workload asks for.
LEMMA DoneAsAsked ==
    ASSUME RunsInv, NEW c \in Client, state[c] = "done", left # 0, ~task.op.completes
    PROVE  IF Asked("time_period") # None
           THEN /\ now >= AtMost(OrZero(Asked("warmup_time_period")), 0)
                           + AtMost(Asked("time_period"), TestModePeriod)
                /\ task.wait = 0 /\ task.time_period >= MaxDuration
                   /\ task.first + c < task.total => made[c][Normal] > 0
           ELSE /\ made[c][Warmup] = AtMost(OrZero(Asked("warmup_iterations")), task.clients)
                /\ made[c][Normal] = IF Asked("iterations") = None THEN 1
                                     ELSE AtMost(Asked("iterations"), task.clients)
<1>1. /\ ExecTypes /\ ClientTypes(c) /\ RunInv(c) /\ now \in Nat
      /\ WarmupTicks \in Nat /\ WarmupSteps \in Nat /\ task.time_period \in Int
      /\ task.time_period # None => TimeBased(task) /\ ~Infinite(task)
      /\ ~TimeBased(task) /\ ~Infinite(task) => Iterations(task) \in Nat \ {0}
  BY RunFacts
<1>2. Known(task, benchmark.test_mode)
  BY <1>1 DEF ExecTypes
<1>3. ~Excused /\ ~Infinite(task)
  BY <1>1 DEF Excused, RunInv
<1>. DEFINE tm == benchmark.test_mode
            a == Asked("iterations")          b == Asked("warmup_iterations")
            p == Asked("time_period")         q == Asked("warmup_time_period")
<1>4. /\ a = Wanted(task, "iterations") /\ b = Wanted(task, "warmup_iterations")
      /\ p = Wanted(task, "time_period") /\ q = Wanted(task, "warmup_time_period")
  BY DEF Asked, Wanted
<1>5. \A n, limit : AtMost(n, limit) = Reduced(tm, n, limit)
  BY DEF AtMost, Reduced
<1>6. /\ a \in Int /\ (a # None => a >= 1)
      /\ b \in Int /\ (b # None => b >= 0)
      /\ p \in Int /\ (p # None => p >= 1)
      /\ q \in Int /\ (q # None => q >= 0)
  <2>1. /\ "iterations" \in Keys /\ "warmup_iterations" \in Keys /\ "time_period" \in Keys
        /\ "warmup_time_period" \in Keys
    BY DEF Keys
  <2>2. /\ Least["iterations"] = 1 /\ Least["time_period"] = 1
        /\ Least["warmup_iterations"] = 0 /\ Least["warmup_time_period"] = 0
    BY <2>1 DEF Least
  <2>3. \A key \in Keys : /\ Wanted(task, key) \in Int
                          /\ Wanted(task, key) # None => Wanted(task, key) >= Least[key]
    BY <1>2 DEF Known
  <2>4. QED BY <1>4, <2>1, <2>2, <2>3
<1>7. /\ task.clients \in Nat \ {0} /\ TestModePeriod \in Nat \ {0}
      /\ task.iterations = Reduced(tm, a, task.clients)
      /\ task.warmup_iterations = Reduced(tm, b, task.clients)
      /\ task.time_period = Reduced(tm, p, TestModePeriod)
      /\ task.warmup_time_period = Reduced(tm, q, 0)
  BY <1>2, <1>4, SpecificationAssumption DEF Known
<1>. HIDE DEF a, b, p, q, tm
<1>8. CASE p # None
  <2>1. task.time_period # None
    BY <1>6, <1>7, <1>8 DEF Reduced, None
  <2>2. TimeInv(c)
    BY <1>1, <2>1 DEF RunInv
  <2>3. now >= WarmupTicks + task.time_period /\ ~Unmeasured(c)
    BY <1>3, <2>2 DEF TimeInv
  <2>4. WarmupTicks = Reduced(tm, OrZero(q), 0)
    BY <1>6, <1>7 DEF WarmupTicks, OrZero, Reduced, None
  <2>5. now >= Reduced(tm, OrZero(q), 0) + Reduced(tm, p, TestModePeriod)
    BY <1>7, <2>3, <2>4
  <2>6. made[c][Normal] \in Nat
    BY <1>1 DEF ClientTypes
  <2>7. task.wait = 0 /\ task.time_period >= MaxDuration /\ task.first + c < task.total =>
           made[c][Normal] > 0
    BY <2>3, <2>6 DEF Unmeasured
  <2>8. QED BY <1>5, <1>8, <2>5, <2>7 DEF p, q
<1>9. CASE p = None
  <2>1. task.time_period = None
    BY <1>7, <1>9 DEF Reduced, None
  <2>2. ~TimeBased(task) /\ Iterations(task) # None
    BY <1>3, <2>1 DEF Infinite
  <2>3. IterInv(c) /\ Iterations(task) \in Nat \ {0}
    BY <1>1, <1>3, <2>2 DEF RunInv
  <2>4. Progress(c, WarmupSteps + Iterations(task))
    BY <1>3, <2>3 DEF IterInv
  <2>5. made[c][Warmup] = WarmupSteps /\ made[c][Normal] = Iterations(task)
    BY <1>1, <2>3, <2>4 DEF Progress
  <2>6. WarmupSteps = Reduced(tm, OrZero(b), task.clients)
    BY <1>6, <1>7 DEF WarmupSteps, OrZero, Reduced, None
  <2>7. Iterations(task) = IF a = None THEN 1 ELSE Reduced(tm, a, task.clients)
    <3>1. CASE a = None
      <4>1. task.iterations = None
        BY <1>7, <3>1 DEF Reduced, None
      <4>2. QED BY <2>2, <3>1, <4>1 DEF Iterations
    <3>2. CASE a # None
      <4>1. task.iterations # None /\ task.iterations # 0
        BY <1>6, <1>7, <3>2 DEF Reduced, None
      <4>2. QED BY <1>7, <3>2, <4>1 DEF Iterations
    <3>3. QED BY <3>1, <3>2
  <2>8. QED BY <1>5, <1>9, <2>5, <2>6, <2>7 DEF a, b, p
<1>10. QED BY <1>8, <1>9

\* The clients of a task stop when, and only when, the workload says so: after exactly
\* its warmup and measurement iterations, or when both its periods are over, having
\* measured something however late the ramp-up lets them start.  For any workload that
\* fits the schema, in test mode or not, and any number of clients.
THEOREM ClientsRunAsConfigured == Spec => []RunsAsConfigured
<1>1. Init => RunsInv
  <2>1. SUFFICES ASSUME Init PROVE RunsInv
    OBVIOUS
  <2>2. Client = {} /\ now = 0 /\ ExecTypes
    BY <2>1, ExecInvInit, ShortSeqs DEF Init, Client, ExecInv
  <2>3. QED BY <2>2 DEF RunsInv
<1>2. RunsInv /\ ExecInv' /\ [Next]_vars => RunsInv'
  BY RunsInvStep
<1>3. RunsInv => RunsAsConfigured
  BY DoneAsAsked DEF RunsAsConfigured
<1>4. QED BY <1>1, <1>2, <1>3, ExecutionInvariant, PTL DEF Spec

-----------------------------------------------------------------------------
(* Post-processing.                                                          *)

\* The samples of a task; b says whether its runner reports a throughput.
Sample(b) == [time : Nat, period : Nat \ {0}, ops : Nat, type : {Warmup, Normal},
              throughput : {b}]

AreSamples(s, b) == s \in Seq(Sample(b))

\* sorted() returns the samples in another order.
LEMMA SortedSamples ==
    ASSUME NEW b, NEW s, AreSamples(s, b)
    PROVE  \E p : Permutation(p, Len(s)) /\ ByTime(s) = [k \in 1..Len(s) |-> s[p[k]]]
<1>1. PICK n \in Nat : n = Len(s) /\ DOMAIN s = 1..n
  BY DEF AreSamples
<1>2. \A i \in 1..n : s[i].time \in Nat
  <2>1. \A i \in 1..n : s[i] \in Sample(b)
    BY <1>1 DEF AreSamples
  <2>2. QED BY <2>1 DEF Sample
<1>. DEFINE Before(i, j) == \/ s[i].time < s[j].time
                            \/ s[i].time = s[j].time /\ i < j
<1>3. /\ \A i, j \in 1..n : i # j => Before(i, j) \/ Before(j, i)
      /\ \A i \in 1..n : ~Before(i, i)
      /\ \A i, j, k \in 1..n : Before(i, j) /\ Before(j, k) => Before(i, k)
  BY <1>2
<1>4. PICK B : B = [j \in 1..n |-> {i \in 1..n : Before(i, j)}]
  OBVIOUS
<1>5. PICK P : P = [j \in 1..n |-> Cardinality(B[j]) + 1]
  OBVIOUS
<1>. DEFINE Place(j) == Cardinality({i \in DOMAIN s : Before(i, j)}) + 1
<1>6. /\ ByTime(s) = [k \in DOMAIN s |-> s[CHOOSE j \in DOMAIN s : Place(j) = k]]
      /\ \A j \in 1..n : Place(j) = P[j]
  <2>1. ByTime(s) = [k \in DOMAIN s |-> s[CHOOSE j \in DOMAIN s : Place(j) = k]]
    BY Zenon DEF ByTime
  <2>2. \A j \in 1..n : Place(j) = P[j]
    BY <1>1, <1>4, <1>5
  <2>3. QED BY <2>1, <2>2
<1>. HIDE DEF Place
<1>. HIDE DEF Before
<1>7. IsFiniteSet(1..n) /\ Cardinality(1..n) = n
  <2>1. IsFiniteSet(1..n) /\ Cardinality(1..n) = IF 1 > n THEN 0 ELSE n - 1 + 1
    BY FS_Interval
  <2>2. QED BY <2>1
<1>8. ASSUME NEW j \in 1..n
      PROVE  IsFiniteSet(B[j]) /\ Cardinality(B[j]) \in Nat /\ P[j] \in 1..n
  <2>1. B[j] \subseteq (1..n) \ {j}
    BY <1>3, <1>4
  <2>2. IsFiniteSet((1..n) \ {j}) /\ Cardinality((1..n) \ {j}) = n - 1
    BY <1>7, FS_RemoveElement
  <2>3. IsFiniteSet(B[j]) /\ Cardinality(B[j]) <= n - 1
    BY <2>1, <2>2, FS_Subset
  <2>4. Cardinality(B[j]) \in Nat
    BY <2>3, FS_CardinalityType
  <2>5. QED BY <1>5, <2>3, <2>4
<1>9. ASSUME NEW i \in 1..n, NEW j \in 1..n, Before(i, j) PROVE P[i] # P[j]
  <2>1. B[i] \subseteq B[j] /\ i \in B[j] /\ i \notin B[i]
    BY <1>3, <1>4, <1>9
  <2>2. Cardinality(B[i]) # Cardinality(B[j])
    <3>1. IsFiniteSet(B[j])
      BY <1>8
    <3>2. Cardinality(B[j]) = Cardinality(B[i]) => B[j] = B[i]
      BY <2>1, <3>1, FS_Subset
    <3>3. QED BY <2>1, <3>2
  <2>3. QED BY <1>5, <1>8, <2>2
<1>10. \A i, j \in 1..n : P[i] = P[j] => i = j
  BY <1>3, <1>9
<1>11. P \in [1..n -> 1..n]
  BY <1>5, <1>8
<1>12. \A k \in 1..n : \E j \in 1..n : P[j] = k
  <2>1. P \in Injection(1..n, 1..n)
    BY <1>10, <1>11 DEF Injection, IsInjective
  <2>2. P \in Surjection(1..n, 1..n)
    BY <1>7, <2>1, FS_Injection
  <2>3. QED BY <2>2 DEF Surjection
<1>13. PICK p : p = [k \in DOMAIN s |-> CHOOSE j \in DOMAIN s : Place(j) = k]
  OBVIOUS
<1>14. ASSUME NEW k \in 1..n PROVE p[k] \in 1..n /\ P[p[k]] = k
  <2>1. \E j \in DOMAIN s : Place(j) = k
    BY <1>1, <1>6, <1>12
  <2>2. p[k] = CHOOSE j \in DOMAIN s : Place(j) = k
    BY <1>1, <1>13
  <2>3. p[k] \in DOMAIN s /\ Place(p[k]) = k
    BY <2>1, <2>2
  <2>4. QED BY <1>1, <1>6, <2>3
<1>15. Permutation(p, n)
  <2>1. p \in [1..n -> 1..n]
    BY <1>1, <1>13, <1>14
  <2>2. \A i, j \in 1..n : p[i] = p[j] => i = j
    BY <1>14
  <2>3. ASSUME NEW k \in 1..n PROVE \E i \in 1..n : p[i] = k
    <3>1. P[k] \in 1..n
      BY <1>8
    <3>2. p[P[k]] \in 1..n /\ P[p[P[k]]] = P[k]
      BY <1>14, <3>1
    <3>3. p[P[k]] = k
      BY <1>10, <3>2
    <3>4. QED BY <3>1, <3>3
  <2>4. QED BY <2>1, <2>2, <2>3 DEF Permutation
<1>16. ByTime(s) = [k \in 1..n |-> s[p[k]]]
  <2>1. PICK D : D = DOMAIN s
    OBVIOUS
  <2>2. \A k \in D : s[p[k]] = s[CHOOSE j \in DOMAIN s : Place(j) = k]
    BY <1>13, <2>1
  <2>3. ByTime(s) = [k \in D |-> s[p[k]]]
    BY <1>6, <2>1, <2>2
  <2>4. QED BY <1>1, <2>1, <2>3
<1>17. QED BY <1>1, <1>15, <1>16

\* What is known of samples.
LEMMA SampleFacts ==
    ASSUME NEW b, NEW s, AreSamples(s, b)
    PROVE  /\ Len(s) \in Nat /\ DOMAIN s = 1..Len(s)
           /\ \A i \in 1..Len(s) : /\ s[i] \in Sample(b)
                                   /\ s[i].time \in Nat /\ s[i].period \in Nat \ {0}
                                   /\ s[i].ops \in Nat /\ s[i].type \in {Warmup, Normal}
                                   /\ s[i].throughput = b
<1>1. PICK Q : Q = Sample(b)
  OBVIOUS
<1>2. s \in Seq(Q)
  BY <1>1 DEF AreSamples
<1>3. Len(s) \in Nat /\ DOMAIN s = 1..Len(s) /\ \A i \in 1..Len(s) : s[i] \in Q
  BY <1>2
<1>4. QED BY <1>1, <1>3 DEF Sample

OpsOf(s) == [i \in DOMAIN s |-> s[i].ops]

\* The operations of samples, in a sequence.
LEMMA OpsSeq ==
    ASSUME NEW b, NEW s, AreSamples(s, b)
    PROVE  /\ OpsOf(s) \in Seq(Nat) /\ Len(OpsOf(s)) = Len(s)
           /\ \A i \in 1..Len(s) : OpsOf(s)[i] = s[i].ops
           /\ Total(s) = SumOf(OpsOf(s)) /\ Total(s) \in Nat
<1>1. /\ Len(s) \in Nat /\ DOMAIN s = 1..Len(s)
      /\ \A i \in 1..Len(s) : s[i].ops \in Nat
  BY SampleFacts
<1>2. PICK c, n : c = OpsOf(s) /\ n = Len(s)
  OBVIOUS
<1>3. n \in Nat /\ c = [i \in 1..n |-> s[i].ops] /\ \A i \in 1..n : s[i].ops \in Nat
  BY <1>1, <1>2 DEF OpsOf
<1>4. c \in Seq(Nat) /\ Len(c) = n /\ \A i \in 1..n : c[i] = s[i].ops
  BY <1>3
<1>5. SumOf(c) \in Nat
  BY <1>4, SumType
<1>6. Total(s) = SumOf(c)
  BY <1>2 DEF Total, OpsOf
<1>7. QED BY <1>2, <1>4, <1>5, <1>6

\* The operations of samples, one sequence after the other.
LEMMA TotalConcat ==
    ASSUME NEW b, NEW s, NEW t, AreSamples(s, b), AreSamples(t, b)
    PROVE  AreSamples(s \o t, b) /\ Total(s \o t) = Total(s) + Total(t)
<1>1. AreSamples(s \o t, b) /\ Len(s \o t) = Len(s) + Len(t)
  <2>1. PICK Q : Q = Sample(b)
    OBVIOUS
  <2>2. s \in Seq(Q) /\ t \in Seq(Q)
    BY <2>1 DEF AreSamples
  <2>3. s \o t \in Seq(Q) /\ Len(s \o t) = Len(s) + Len(t)
    BY <2>2
  <2>4. QED BY <2>1, <2>3 DEF AreSamples
<1>2. PICK c, d, e : c = OpsOf(s) /\ d = OpsOf(t) /\ e = OpsOf(s \o t)
  OBVIOUS
<1>3. PICK m, n : m = Len(s) /\ n = Len(t)
  OBVIOUS
<1>4. /\ c \in Seq(Nat) /\ Len(c) = m /\ d \in Seq(Nat) /\ Len(d) = n /\ m \in Nat /\ n \in Nat
      /\ e \in Seq(Nat) /\ Len(e) = m + n
  BY <1>1, <1>2, <1>3, OpsSeq, SampleFacts
<1>5. e = c \o d
  <2>1. \A i \in 1..m : c[i] = s[i].ops
    BY <1>2, <1>3, OpsSeq
  <2>2. \A i \in 1..n : d[i] = t[i].ops
    BY <1>2, <1>3, OpsSeq
  <2>3. \A i \in 1..(m + n) : e[i] = (s \o t)[i].ops
    BY <1>1, <1>2, <1>3, OpsSeq
  <2>4. \A i \in 1..(m + n) : (s \o t)[i] = IF i <= m THEN s[i] ELSE t[i - m]
    <3>1. PICK Q : Q = Sample(b)
      OBVIOUS
    <3>2. s \in Seq(Q) /\ t \in Seq(Q)
      BY <3>1 DEF AreSamples
    <3>3. QED BY <1>3, <3>2
  <2>a. c \in Seq(Nat) /\ Len(c) = m /\ d \in Seq(Nat) /\ Len(d) = n
    BY <1>4
  <2>5. \A i \in 1..(m + n) : (c \o d)[i] = IF i <= m THEN c[i] ELSE d[i - m]
    BY ONLY <2>a, SMTT(30)
  <2>6. ASSUME NEW i \in 1..(m + n) PROVE e[i] = (c \o d)[i]
    <3>1. CASE i <= m
      <4>1. i \in 1..m
        BY <1>4, <3>1
      <4>2. QED BY <2>1, <2>3, <2>4, <2>5, <3>1, <4>1
    <3>2. CASE ~(i <= m)
      <4>1. i - m \in 1..n
        BY <1>4, <3>2
      <4>2. QED BY <2>2, <2>3, <2>4, <2>5, <3>2, <4>1
    <3>3. QED BY <3>1, <3>2
  <2>7. c \o d \in Seq(Nat) /\ Len(c \o d) = m + n
    BY ONLY <2>a
  <2>8. PICK g : g = c \o d
    OBVIOUS
  <2>9. e \in Seq(Nat) /\ g \in Seq(Nat) /\ Len(e) = Len(g) /\ \A i \in 1..Len(e) : e[i] = g[i]
    BY <1>4, <2>6, <2>7, <2>8
  <2>10. e = g
    BY ONLY <2>9, SMTT(30)
  <2>11. QED BY <2>8, <2>10
<1>6. SumOf(e) = SumOf(c) + SumOf(d)
  BY <1>4, <1>5, SumConcat
<1>7. Total(s \o t) = SumOf(e) /\ Total(s) = SumOf(c) /\ Total(t) = SumOf(d)
  BY <1>1, <1>2, OpsSeq
<1>8. QED BY <1>1, <1>6, <1>7

\* No samples, and one.
LEMMA TotalShort ==
    ASSUME NEW b
    PROVE  /\ AreSamples(<<>>, b) /\ Total(<<>>) = 0
           /\ \A x \in Sample(b) : AreSamples(<<x>>, b) /\ Total(<<x>>) = x.ops
<1>1. AreSamples(<<>>, b) /\ \A x \in Sample(b) : AreSamples(<<x>>, b)
  BY DEF AreSamples
<1>2. Total(<<>>) = 0
  <2>1. PICK c, e : e = <<>> /\ c = OpsOf(e)
    OBVIOUS
  <2>2. Len(e) = 0
    BY <2>1
  <2>3. c \in Seq(Nat) /\ Len(c) = 0 /\ Total(e) = SumOf(c)
    BY <1>1, <2>1, <2>2, OpsSeq
  <2>4. QED BY <2>1, <2>3, SumEmpty
<1>3. ASSUME NEW x \in Sample(b) PROVE Total(<<x>>) = x.ops
  <2>1. PICK c, e : e = <<x>> /\ c = OpsOf(e)
    OBVIOUS
  <2>2. Len(e) = 1 /\ e[1] = x
    BY <2>1
  <2>3. AreSamples(e, b)
    BY <1>1, <2>1
  <2>4. c \in Seq(Nat) /\ Len(c) = 1 /\ Total(e) = SumOf(c) /\ c[1] = x.ops /\ x.ops \in Nat
    <3>1. 1 \in 1..Len(e)
      BY <2>2
    <3>2. c \in Seq(Nat) /\ Len(c) = Len(e) /\ Total(e) = SumOf(c) /\ c[1] = e[1].ops
      BY <2>1, <2>3, <3>1, OpsSeq
    <3>3. x.ops \in Nat
      BY DEF Sample
    <3>4. QED BY <2>2, <3>2, <3>3
  <2>5. PICK u : Partial(u, c) /\ SumOf(c) = u[1]
    BY <2>4, SumSteps
  <2>6. u[1] = u[1 - 1] + c[1] /\ u[0] = 0
    BY <2>4, <2>5 DEF Partial
  <2>7. QED BY <2>1, <2>4, <2>5, <2>6
<1>4. QED BY <1>1, <1>2, <1>3

\* Appending a sample.
LEMMA TotalAppend ==
    ASSUME NEW b, NEW s, AreSamples(s, b), NEW x, x \in Sample(b)
    PROVE  AreSamples(Append(s, x), b) /\ Total(Append(s, x)) = Total(s) + x.ops
<1>1. Append(s, x) = s \o <<x>>
  <2>1. PICK Q : Q = Sample(b)
    OBVIOUS
  <2>2. s \in Seq(Q) /\ x \in Q
    BY <2>1 DEF AreSamples
  <2>3. QED BY <2>2
<1>2. AreSamples(<<x>>, b) /\ Total(<<x>>) = x.ops
  BY TotalShort
<1>3. QED BY <1>1, <1>2, TotalConcat

\* Sorting keeps the operations.
LEMMA TotalSorted ==
    ASSUME NEW b, NEW s, AreSamples(s, b)
    PROVE  AreSamples(ByTime(s), b) /\ Len(ByTime(s)) = Len(s) /\ Total(ByTime(s)) = Total(s)
<1>1. PICK n, t : n = Len(s) /\ t = ByTime(s)
  OBVIOUS
<1>2. PICK p : Permutation(p, n) /\ t = [k \in 1..n |-> s[p[k]]]
  BY <1>1, SortedSamples
<1>3. n \in Nat /\ \A k \in 1..n : p[k] \in 1..n /\ s[p[k]] \in Sample(b)
  BY <1>1, <1>2, SampleFacts DEF Permutation
<1>4. AreSamples(t, b) /\ Len(t) = n
  <2>1. PICK Q : Q = Sample(b)
    OBVIOUS
  <2>2. t \in Seq(Q) /\ Len(t) = n
    BY <1>2, <1>3, <2>1
  <2>3. QED BY <2>1, <2>2 DEF AreSamples
<1>5. PICK c, d : c = OpsOf(s) /\ d = OpsOf(t)
  OBVIOUS
<1>6. /\ c \in Seq(Nat) /\ Len(c) = n /\ d \in Seq(Nat) /\ Len(d) = n
      /\ \A i \in 1..n : c[i] = s[i].ops /\ d[i] = t[i].ops
      /\ Total(s) = SumOf(c) /\ Total(t) = SumOf(d)
  BY <1>1, <1>4, <1>5, OpsSeq
<1>7. \A i \in 1..n : d[i] = c[p[i]]
  BY <1>2, <1>3, <1>6
<1>8. Rearranged(c, d, p, n)
  BY <1>2, <1>6, <1>7 DEF Rearranged
<1>9. SumOf(d) = SumOf(c)
  BY <1>3, <1>8, SumRearranged DEF SumsStay
<1>10. QED BY <1>1, <1>4, <1>6, <1>9

\* TaskStats, and what calculate_task_throughput keeps while it goes through samples.
Stats(b) == [started : {TRUE}, unprocessed : Seq(Sample(b)), total_count : Nat,
             interval : Int, bucket : Int, sample_type : {Warmup, Normal},
             has_samples_in_sample_type : BOOLEAN, start_time : Int]

Acc(b) == [stats : Stats(b), count : Nat, types : SUBSET {Warmup, Normal}]

\* The parts of TaskStats.
LEMMA StatsFacts ==
    ASSUME NEW b, NEW s, s \in Stats(b)
    PROVE  /\ DOMAIN s = {"started", "unprocessed", "total_count", "interval", "bucket",
                          "sample_type", "has_samples_in_sample_type", "start_time"}
           /\ AreSamples(s.unprocessed, b) /\ s.total_count \in Nat /\ s.interval \in Int
           /\ s.bucket \in Int /\ s.sample_type \in {Warmup, Normal}
           /\ s.has_samples_in_sample_type \in BOOLEAN /\ s.start_time \in Int
           /\ s.started
BY DEF Stats, AreSamples

\* The first sample of a task starts its stats.
LEMMA NewStats ==
    ASSUME NEW b, NEW x, x \in Sample(b)
    PROVE  /\ TaskStats(x) \in Stats(b) /\ TaskStats(x).unprocessed = <<>>
           /\ TaskStats(x).total_count = 0 /\ ~TaskStats(x).has_samples_in_sample_type
           /\ TaskStats(x).interval = 0
           /\ TaskStats(x).start_time = x.time - x.period
<1>1. BucketInterval \in Int
  BY BucketAssumption
<1>2. x.time \in Int /\ x.period \in Int /\ x.type \in {Warmup, Normal} /\ x.time - x.period \in Int
  BY DEF Sample
<1>3. <<>> \in Seq(Sample(b))
  OBVIOUS
<1>4. QED BY <1>1, <1>2, <1>3 DEF TaskStats, Stats

\* maybe_update_sample_type and update_interval.
LEMMA SeenStats ==
    ASSUME NEW b, NEW s, s \in Stats(b), NEW x, x \in Sample(b)
    PROVE  /\ Seen(s, x) \in Stats(b)
           /\ Seen(s, x).unprocessed = s.unprocessed /\ Seen(s, x).total_count = s.total_count
           /\ Seen(s, x).interval >= s.interval
           /\ Seen(s, x).interval >= x.time - s.start_time
           /\ Seen(s, x).start_time = s.start_time
           /\ Seen(s, x).has_samples_in_sample_type =>
                 s.has_samples_in_sample_type /\ Seen(s, x).sample_type = s.sample_type
<1>1. /\ x.time \in Int /\ x.type \in {Warmup, Normal}
  BY DEF Sample
<1>2. PICK q, ty, iv :
         /\ q = s.sample_type /\ iv = (IF x.time - s.start_time > s.interval
                                       THEN x.time - s.start_time ELSE s.interval)
         /\ ty = IF q < x.type THEN x.type ELSE q
  OBVIOUS
<1>3. /\ ty \in {Warmup, Normal} /\ iv \in Int /\ iv >= s.interval /\ iv >= x.time - s.start_time
      /\ s.sample_type >= x.type => ty = s.sample_type
  BY <1>1, <1>2, StatsFacts DEF Warmup, Normal
<1>. DEFINE has == s.has_samples_in_sample_type /\ s.sample_type >= x.type
<1>4. Seen(s, x) = [s EXCEPT !.has_samples_in_sample_type = has, !.sample_type = ty,
                             !.interval = iv]
  BY <1>2 DEF Seen
<1>5. has \in BOOLEAN
  OBVIOUS
<1>. HIDE DEF has
<1>6. PICK y : y = Seen(s, x)
  OBVIOUS
<1>7. /\ y \in Stats(b) /\ y.unprocessed = s.unprocessed /\ y.total_count = s.total_count
      /\ y.interval = iv /\ y.start_time = s.start_time /\ y.sample_type = ty
      /\ y.has_samples_in_sample_type = has
  BY <1>3, <1>4, <1>5, <1>6 DEF Stats
<1>8. has => s.has_samples_in_sample_type /\ s.sample_type >= x.type
  BY DEF has
<1>9. QED BY <1>3, <1>6, <1>7, <1>8

\* finish_bucket.
LEMMA FinishedStats ==
    ASSUME NEW b, NEW s, s \in Stats(b), NEW n, n \in Nat
    PROVE  /\ FinishBucket(s, n) \in Stats(b)
           /\ FinishBucket(s, n).unprocessed = <<>> /\ FinishBucket(s, n).total_count = n
           /\ FinishBucket(s, n).interval = s.interval
           /\ FinishBucket(s, n).start_time = s.start_time
           /\ FinishBucket(s, n).sample_type = s.sample_type
<1>1. PICK k : k = (s.interval \div BucketInterval) * BucketInterval + BucketInterval
  OBVIOUS
<1>2. k \in Int
  <2>1. s.interval \in Int /\ BucketInterval \in Nat \ {0}
    BY StatsFacts, BucketAssumption
  <2>2. s.interval \div BucketInterval \in Int
    BY <2>1
  <2>3. QED BY <1>1, <2>1, <2>2
<1>3. <<>> \in Seq(Sample(b))
  OBVIOUS
<1>4. FinishBucket(s, n) = [s EXCEPT !.unprocessed = <<>>, !.total_count = n,
                                     !.has_samples_in_sample_type = TRUE, !.bucket = k]
  BY <1>1 DEF FinishBucket
<1>5. QED BY <1>2, <1>3, <1>4 DEF Stats

\* What is kept between two samples: the count, and what of it is in the stats.
PassInv(a, start, n, reports) ==
    /\ a.count = start + n
    /\ a.stats.total_count + Total(a.stats.unprocessed) >= a.count
    /\ a.stats.has_samples_in_sample_type => a.stats.sample_type \in a.types \union reports

\* One iteration of calculate_task_throughput.
LEMMA SampleCounted ==
    ASSUME NEW b, NEW a, a \in Acc(b), NEW x, x \in Sample(b)
    PROVE  /\ CountSample(a, x) \in Acc(b)
           /\ CountSample(a, x).stats.interval >= a.stats.interval
           /\ CountSample(a, x).stats.interval >= x.time - a.stats.start_time
           /\ \A start \in Nat, n \in Nat : \A reports :
                 PassInv(a, start, n, reports) => PassInv(CountSample(a, x), start, n + x.ops, reports)
<1>1. a.stats \in Stats(b) /\ a.count \in Nat /\ a.types \subseteq {Warmup, Normal} /\ x.ops \in Nat
  BY DEF Acc, Sample
<1>2. PICK s : s = Seen(a.stats, x)
  OBVIOUS
<1>3. PICK k \in Nat : k = a.count + x.ops
  BY <1>1
<1>4. /\ s \in Stats(b)
      /\ s.unprocessed = a.stats.unprocessed /\ s.total_count = a.stats.total_count
      /\ s.interval >= a.stats.interval /\ s.interval >= x.time - a.stats.start_time
      /\ s.has_samples_in_sample_type =>
            a.stats.has_samples_in_sample_type /\ s.sample_type = a.stats.sample_type
  BY <1>1, <1>2, SeenStats
<1>5. s.sample_type \in {Warmup, Normal} /\ s.total_count \in Nat
      /\ AreSamples(s.unprocessed, b) /\ Total(s.unprocessed) \in Nat
  BY <1>4, StatsFacts, OpsSeq
<1>6. CASE CanCalculateThroughput(s)
  <2>1. PICK f : f = FinishBucket(s, k)
    OBVIOUS
  <2>2. /\ f \in Stats(b) /\ f.unprocessed = <<>> /\ f.total_count = k
        /\ f.interval = s.interval /\ f.sample_type = s.sample_type
    BY <1>3, <1>4, <2>1, FinishedStats
  <2>3. CountSample(a, x) = [stats |-> f, count |-> k, types |-> a.types \union {s.sample_type}]
    BY <1>2, <1>3, <1>6, <2>1 DEF CountSample
  <2>4. PICK y : y = CountSample(a, x)
    OBVIOUS
  <2>5. y.stats = f /\ y.count = k /\ y.types = a.types \union {s.sample_type} /\ y \in Acc(b)
    BY <1>1, <1>5, <2>2, <2>3, <2>4 DEF Acc
  <2>6. ASSUME NEW start \in Nat, NEW n \in Nat, NEW reports, PassInv(a, start, n, reports)
        PROVE  PassInv(y, start, n + x.ops, reports)
    <3>1. a.count = start + n
      BY <2>6 DEF PassInv
    <3>2. k = start + (n + x.ops)
      BY <1>1, <1>3, <3>1
    <3>3. f.total_count + Total(f.unprocessed) >= k
      BY <1>3, <2>2, TotalShort
    <3>4. f.sample_type \in y.types \union reports
      BY <2>2, <2>5
    <3>5. QED BY <2>5, <3>2, <3>3, <3>4 DEF PassInv
  <2>7. QED BY <1>4, <2>2, <2>4, <2>5, <2>6
<1>7. CASE ~CanCalculateThroughput(s)
  <2>1. PICK f : f = [s EXCEPT !.unprocessed = Append(s.unprocessed, x)]
    OBVIOUS
  <2>2. AreSamples(Append(s.unprocessed, x), b)
        /\ Total(Append(s.unprocessed, x)) = Total(s.unprocessed) + x.ops
    BY <1>5, TotalAppend
  <2>3. /\ f \in Stats(b) /\ f.unprocessed = Append(s.unprocessed, x)
        /\ f.total_count = s.total_count
        /\ f.interval = s.interval /\ f.sample_type = s.sample_type
        /\ f.has_samples_in_sample_type = s.has_samples_in_sample_type
    BY <1>4, <2>1, <2>2 DEF Stats, AreSamples
  <2>4. CountSample(a, x) = [stats |-> f, count |-> k, types |-> a.types]
    BY <1>2, <1>3, <1>7, <2>1 DEF CountSample
  <2>5. PICK y : y = CountSample(a, x)
    OBVIOUS
  <2>6. y.stats = f /\ y.count = k /\ y.types = a.types /\ y \in Acc(b)
    BY <1>1, <2>3, <2>4, <2>5 DEF Acc
  <2>7. ASSUME NEW start \in Nat, NEW n \in Nat, NEW reports, PassInv(a, start, n, reports)
        PROVE  PassInv(y, start, n + x.ops, reports)
    <3>1. /\ a.count = start + n
          /\ a.stats.total_count + Total(a.stats.unprocessed) >= a.count
          /\ a.stats.has_samples_in_sample_type => a.stats.sample_type \in a.types \union reports
      BY <2>7 DEF PassInv
    <3>2. k = start + (n + x.ops)
      BY <1>1, <1>3, <3>1
    <3>3. f.total_count + Total(f.unprocessed) >= k
      <4>1. PICK p \in Nat, q \in Nat : p = s.total_count /\ q = Total(s.unprocessed)
        BY <1>5
      <4>2. p + q >= a.count
        BY <1>4, <3>1, <4>1
      <4>3. f.total_count = p /\ Total(f.unprocessed) = q + x.ops
        BY <2>2, <2>3, <4>1
      <4>4. p + (q + x.ops) >= k
        BY <1>1, <1>3, <4>1, <4>2
      <4>5. QED BY <4>3, <4>4
    <3>4. f.has_samples_in_sample_type => f.sample_type \in y.types \union reports
      BY <1>4, <2>3, <2>6, <3>1
    <3>5. QED BY <2>6, <3>2, <3>3, <3>4 DEF PassInv
  <2>8. QED BY <1>4, <2>3, <2>5, <2>6, <2>7
<1>8. QED BY <1>6, <1>7

\* The pass over the samples: what is kept after each of them.
Passes(f, samples, before, b) ==
    /\ f \in [0..Len(samples) -> Acc(b)]
    /\ f[0] = [stats |-> before, count |-> before.total_count, types |-> {}]
    /\ \A i \in 1..Len(samples) : f[i] = CountSample(f[i - 1], samples[i])

\* The loop of calculate_task_throughput goes through the samples in order.
LEMMA PassOverSamples ==
    ASSUME NEW b, NEW samples, AreSamples(samples, b), NEW stats0,
           NEW before, before \in Stats(b),
           before = IF stats0.started THEN stats0 ELSE TaskStats(samples[1])
    PROVE  \E f : /\ Passes(f, samples, before, b)
                  /\ CalculateTaskThroughput(stats0, samples) =
                        LET after == f[Len(samples)]
                        IN  IF CanAddFinalThroughputSample(after.stats)
                            THEN [stats |-> FinishBucket(after.stats, after.count),
                                  types |-> after.types \union {after.stats.sample_type}]
                            ELSE [stats |-> after.stats, types |-> after.types]
<1>1. PICK n \in Nat : n = Len(samples) /\ \A i \in 1..n : samples[i] \in Sample(b)
  BY SampleFacts
<1>2. PICK A : A = Acc(b)
  OBVIOUS
<1>3. PICK a : a = [stats |-> before, count |-> before.total_count, types |-> {}]
  OBVIOUS
<1>4. a \in A
  BY <1>2, <1>3, StatsFacts DEF Acc
<1>5. PICK g : g = [i \in 1..n |-> [x \in A |-> CountSample(x, samples[i])]]
  OBVIOUS
<1>6. Steps(g, n, A)
  <2>1. \A i \in 1..n : \A x \in A : CountSample(x, samples[i]) \in A
    BY <1>1, <1>2, SampleCounted
  <2>2. \A i \in 1..n : [x \in A |-> CountSample(x, samples[i])] \in [A -> A]
    BY <2>1
  <2>3. QED BY <1>5, <2>2 DEF Steps
<1>7. PICK f \in [0..n -> A] : f[0] = a /\ \A i \in 1..n : f[i] = g[i][f[i - 1]]
  BY ONLY n \in Nat, <1>4, <1>6, Recursion
<1>8. \A i \in 1..n : f[i] = CountSample(f[i - 1], samples[i])
  <2>1. ASSUME NEW i \in 1..n PROVE f[i] = CountSample(f[i - 1], samples[i])
    <3>1. i - 1 \in 0..n
      OBVIOUS
    <3>2. f[i - 1] \in A
      BY <1>7, <3>1
    <3>3. g[i] = [x \in A |-> CountSample(x, samples[i])]
      BY <1>5
    <3>4. QED BY <1>7, <3>2, <3>3
  <2>2. QED BY <2>1
<1>9. DEFINE pass[m \in 0..n] == IF m = 0 THEN a ELSE CountSample(pass[m - 1], samples[m])
<1>10. PICK u : /\ u = [m \in 0..n |-> IF m = 0 THEN a ELSE CountSample(u[m - 1], samples[m])]
                /\ u = pass
  <2>1. f = [m \in 0..n |-> IF m = 0 THEN a ELSE CountSample(f[m - 1], samples[m])]
    <3>1. \A m \in 0..n : f[m] = IF m = 0 THEN a ELSE CountSample(f[m - 1], samples[m])
      <4>1. \A m \in 0..n : m # 0 => m \in 1..n
        OBVIOUS
      <4>2. QED BY <1>7, <1>8, <4>1
    <3>2. QED BY <1>7, <3>1
  <2>2. pass = CHOOSE h : h = [m \in 0..n |-> IF m = 0 THEN a ELSE CountSample(h[m - 1], samples[m])]
    BY DEF pass
  <2>3. QED BY <2>1, <2>2
<1>11. \A m \in 0..n : u[m] = f[m]
  <2>. DEFINE T == {m \in 0..n : u[m] = f[m]}
  <2>1. 0 \in T
    BY <1>7, <1>10
  <2>2. ASSUME NEW m \in 0..(n - 1), m \in T PROVE m + 1 \in T
    <3>1. m + 1 \in 1..n /\ m + 1 \in 0..n /\ (m + 1) - 1 = m /\ m + 1 # 0
      OBVIOUS
    <3>2. u[m + 1] = CountSample(u[m], samples[m + 1]) /\ f[m + 1] = CountSample(f[m], samples[m + 1])
      BY <1>8, <1>10, <3>1
    <3>3. QED BY <2>2, <3>1, <3>2
  <2>3. \A m \in 0..n : m \in T
    <3>. HIDE DEF T
    <3>1. \A m \in 0..(n - 1) : m \in T => m + 1 \in T
      BY <2>2
    <3>2. QED BY <2>1, <3>1, UpTo
  <2>4. QED BY <2>3
<1>12. CalculateTaskThroughput(stats0, samples) =
          LET after == pass[n]
          IN  IF CanAddFinalThroughputSample(after.stats)
              THEN [stats |-> FinishBucket(after.stats, after.count),
                    types |-> after.types \union {after.stats.sample_type}]
              ELSE [stats |-> after.stats, types |-> after.types]
  BY <1>1, <1>3 DEF CalculateTaskThroughput, pass
<1>13. pass[n] = f[n]
  <2>1. n \in 0..n
    BY <1>1
  <2>2. pass[n] = u[n]
    BY ONLY <1>10
  <2>3. QED BY ONLY <1>11, <2>1, <2>2
<1>14. Passes(f, samples, before, b)
  BY <1>1, <1>2, <1>3, <1>7, <1>8 DEF Passes
<1>15. QED BY <1>1, <1>12, <1>13, <1>14

\* What a round may find: no stats yet, or those of earlier rounds.
Resumable(stats0, reports, b) ==
    \/ stats0 = NoStats
    \/ stats0 \in Stats(b) /\ stats0.interval > 0 /\ stats0.sample_type \in reports

CountedSoFar(stats0) ==
    IF stats0.started THEN stats0.total_count + Total(stats0.unprocessed) ELSE 0

\* calculate_task_throughput counts every sample, and reports on the type it ends with.
LEMMA ThroughputCalculated ==
    ASSUME NEW b, NEW samples, AreSamples(samples, b), Len(samples) > 0,
           NEW stats0, NEW reports, Resumable(stats0, reports, b),
           NEW start, start = IF stats0.started THEN stats0.total_count ELSE 0,
           NEW r, r = CalculateTaskThroughput(stats0, samples)
    PROVE  /\ r.stats \in Stats(b) /\ r.stats.interval > 0
           /\ r.stats.sample_type \in reports \union r.types
           /\ r.stats.total_count + Total(r.stats.unprocessed) >= start + Total(samples)
<1>1. PICK n \in Nat : n = Len(samples) /\ n > 0 /\ 1 \in 1..n
  BY SampleFacts
<1>2. PICK x : x = samples[1] /\ x \in Sample(b) /\ x.time \in Nat /\ x.period \in Nat \ {0}
  BY <1>1, SampleFacts
<1>3. PICK before : before = IF stats0.started THEN stats0 ELSE TaskStats(samples[1])
  OBVIOUS
<1>4. ~NoStats.started
  BY DEF NoStats
<1>5. /\ before \in Stats(b) /\ before.total_count = start
      /\ before.has_samples_in_sample_type => before.sample_type \in reports
      /\ before.interval >= 0
      /\ before.interval > 0 \/ before.start_time = x.time - x.period
  <2>1. CASE stats0 = NoStats
    <3>1. before = TaskStats(x) /\ start = 0
      BY <1>2, <1>3, <1>4, <2>1
    <3>2. QED BY <1>2, <3>1, NewStats
  <2>2. CASE stats0 \in Stats(b) /\ stats0.interval > 0 /\ stats0.sample_type \in reports
    <3>1. stats0.started
      BY <2>2, StatsFacts
    <3>2. before = stats0 /\ start = stats0.total_count
      BY <1>3, <3>1
    <3>3. QED BY <2>2, <3>2, StatsFacts
  <2>3. QED BY <2>1, <2>2 DEF Resumable
<1>6. PICK f : /\ Passes(f, samples, before, b)
               /\ r = LET after == f[Len(samples)]
                      IN  IF CanAddFinalThroughputSample(after.stats)
                          THEN [stats |-> FinishBucket(after.stats, after.count),
                                types |-> after.types \union {after.stats.sample_type}]
                          ELSE [stats |-> after.stats, types |-> after.types]
  BY <1>3, <1>5, PassOverSamples
<1>7. /\ \A i \in 0..n : f[i] \in Acc(b)
      /\ f[0] = [stats |-> before, count |-> before.total_count, types |-> {}]
      /\ \A i \in 1..n : f[i] = CountSample(f[i - 1], samples[i])
  BY <1>1, <1>6 DEF Passes
<1>8. PICK c : c = OpsOf(samples)
  OBVIOUS
<1>9. /\ c \in Seq(Nat) /\ Len(c) = n /\ Total(samples) = SumOf(c)
      /\ \A i \in 1..n : c[i] = samples[i].ops /\ samples[i].ops \in Nat
  BY <1>1, <1>8, OpsSeq, SampleFacts
<1>10. PICK u : Partial(u, c) /\ SumOf(c) = u[n]
  BY <1>9, SumSteps
<1>11. /\ u[0] = 0 /\ \A i \in 0..n : u[i] \in Nat
       /\ \A i \in 1..n : u[i] = u[i - 1] + samples[i].ops
  BY <1>9, <1>10 DEF Partial
<1>12. start \in Nat
  BY <1>5, StatsFacts
<1>. DEFINE T == {i \in 0..n : /\ PassInv(f[i], start, u[i], reports)
                               /\ i > 0 \/ before.interval > 0 => f[i].stats.interval > 0}
<1>13. 0 \in T
  <2>1. f[0].stats = before /\ f[0].count = start /\ f[0].types = {}
    BY <1>5, <1>7
  <2>2. before.total_count \in Nat /\ Total(before.unprocessed) \in Nat
    BY <1>5, StatsFacts, OpsSeq
  <2>3. before.total_count + Total(before.unprocessed) >= start /\ start = start + 0
    BY <1>5, <1>12, <2>2
  <2>4. PassInv(f[0], start, u[0], reports)
    BY <1>5, <1>11, <2>1, <2>3 DEF PassInv
  <2>5. QED BY <1>1, <2>1, <2>4
<1>14. ASSUME NEW i \in 0..(n - 1), i \in T PROVE i + 1 \in T
  <2>1. i + 1 \in 1..n /\ i + 1 \in 0..n /\ i \in 0..n /\ (i + 1) - 1 = i /\ i + 1 > 0
    BY <1>1
  <2>2. PICK y : y = samples[i + 1] /\ y \in Sample(b)
    BY <1>1, <2>1, SampleFacts
  <2>3. /\ f[i + 1] = CountSample(f[i], y) /\ f[i] \in Acc(b) /\ f[i + 1] \in Acc(b)
        /\ u[i + 1] = u[i] + y.ops /\ u[i] \in Nat
    BY <1>7, <1>11, <2>1, <2>2
  <2>4. /\ PassInv(f[i], start, u[i], reports)
        /\ i > 0 \/ before.interval > 0 => f[i].stats.interval > 0
    BY <1>14
  <2>5. PassInv(f[i + 1], start, u[i + 1], reports)
    BY <1>12, <2>2, <2>3, <2>4, SampleCounted
  <2>6. /\ f[i + 1].stats.interval >= f[i].stats.interval
        /\ f[i + 1].stats.interval >= y.time - f[i].stats.start_time
        /\ f[i].stats.interval \in Int /\ f[i + 1].stats.interval \in Int
    <3>1. f[i].stats \in Stats(b) /\ f[i + 1].stats \in Stats(b)
      BY <2>3 DEF Acc
    <3>2. /\ f[i + 1].stats.interval >= f[i].stats.interval
          /\ f[i + 1].stats.interval >= y.time - f[i].stats.start_time
      BY <1>12, <2>2, <2>3, <2>4, SampleCounted
    <3>3. f[i].stats.interval \in Int /\ f[i + 1].stats.interval \in Int
      BY <3>1, StatsFacts
    <3>4. QED BY <3>2, <3>3
  <2>7. f[i + 1].stats.interval > 0
    <3>1. CASE i > 0 \/ before.interval > 0
      BY <2>4, <2>6, <3>1
    <3>2. CASE i = 0 /\ before.start_time = x.time - x.period
      <4>1. y = x /\ f[i].stats = before
        BY <1>2, <1>7, <2>2, <3>2
      <4>2. f[i + 1].stats.interval >= x.time - (x.time - x.period)
        BY <2>6, <3>2, <4>1
      <4>3. QED BY <1>2, <2>6, <4>2
    <3>3. QED BY <1>5, <2>1, <3>1, <3>2
  <2>8. QED BY <2>1, <2>5, <2>7
<1>15. \A i \in 0..n : i \in T
  <2>. HIDE DEF T
  <2>1. \A i \in 0..(n - 1) : i \in T => i + 1 \in T
    BY <1>14
  <2>2. QED BY <1>1, <1>13, <2>1, UpTo
<1>16. PICK a : a = f[n]
  OBVIOUS
<1>17. /\ a \in Acc(b) /\ a.stats.interval > 0 /\ PassInv(a, start, Total(samples), reports)
  <2>1. n \in 0..n
    BY <1>1
  <2>2. n \in T
    BY <1>15, <2>1
  <2>3. QED BY <1>1, <1>7, <1>9, <1>10, <1>16, <2>1, <2>2
<1>18. /\ a.count = start + Total(samples)
       /\ a.stats.total_count + Total(a.stats.unprocessed) >= a.count
       /\ a.stats.has_samples_in_sample_type => a.stats.sample_type \in a.types \union reports
       /\ a.stats \in Stats(b) /\ a.count \in Nat
  BY <1>17 DEF PassInv, Acc
<1>19. CASE CanAddFinalThroughputSample(a.stats)
  <2>1. PICK g : g = FinishBucket(a.stats, a.count)
    OBVIOUS
  <2>2. /\ g \in Stats(b) /\ g.unprocessed = <<>> /\ g.total_count = a.count
        /\ g.interval = a.stats.interval /\ g.sample_type = a.stats.sample_type
    BY <1>18, <2>1, FinishedStats
  <2>3. r = [stats |-> g, types |-> a.types \union {a.stats.sample_type}]
    BY <1>1, <1>6, <1>16, <1>19, <2>1
  <2>4. g.total_count + Total(g.unprocessed) >= start + Total(samples)
    BY <1>18, <2>2, TotalShort
  <2>5. r.stats = g /\ r.types = a.types \union {a.stats.sample_type}
    BY <2>3
  <2>6. QED BY <1>17, <2>2, <2>4, <2>5
<1>20. CASE ~CanAddFinalThroughputSample(a.stats)
  <2>1. r = [stats |-> a.stats, types |-> a.types]
    BY <1>1, <1>6, <1>16, <1>20
  <2>2. r.stats = a.stats /\ r.types = a.types
    BY <2>1
  <2>3. a.stats.has_samples_in_sample_type
    BY <1>17, <1>20 DEF CanAddFinalThroughputSample
  <2>4. QED BY <1>17, <1>18, <2>2, <2>3
<1>21. QED BY <1>19, <1>20

\* What a round must keep: stats that can be resumed, and every operation.
RoundKeeps(b, raw, stats0, reports, r) ==
    /\ Resumable(r.stats, reports \union r.types, b)
    /\ ~b => CountedSoFar(r.stats) >= CountedSoFar(stats0) + Total(raw)

\* One round of calculate().
LEMMA RoundCalculated ==
    ASSUME NEW b, NEW raw, AreSamples(raw, b), Len(raw) > 0,
           NEW stats0, NEW reports, Resumable(stats0, reports, b),
           NEW r, r = Calculate(stats0, raw)
    PROVE  RoundKeeps(b, raw, stats0, reports, r)
<1>1. PICK carried : carried = IF stats0.started THEN stats0.unprocessed ELSE <<>>
  OBVIOUS
<1>2. PICK start : start = IF stats0.started THEN stats0.total_count ELSE 0
  OBVIOUS
<1>3. /\ AreSamples(carried, b) /\ start \in Nat
      /\ CountedSoFar(stats0) = start + Total(carried)
  <2>1. CASE stats0 = NoStats
    <3>1. ~stats0.started
      BY <2>1 DEF NoStats
    <3>2. carried = <<>> /\ start = 0 /\ CountedSoFar(stats0) = 0
      BY <1>1, <1>2, <3>1 DEF CountedSoFar
    <3>3. QED BY <3>2, TotalShort
  <2>2. CASE stats0 \in Stats(b)
    <3>1. stats0.started /\ AreSamples(stats0.unprocessed, b) /\ stats0.total_count \in Nat
      BY <2>2, StatsFacts
    <3>2. QED BY <1>1, <1>2, <3>1 DEF CountedSoFar
  <2>3. QED BY <2>1, <2>2 DEF Resumable
<1>4. PICK current : current = ByTime(raw \o carried)
  OBVIOUS
<1>5. /\ AreSamples(raw \o carried, b) /\ Total(raw \o carried) = Total(raw) + Total(carried)
      /\ Len(raw \o carried) > 0
  <2>1. AreSamples(raw \o carried, b) /\ Total(raw \o carried) = Total(raw) + Total(carried)
    BY <1>3, TotalConcat
  <2>2. Len(raw \o carried) > 0
    <3>1. PICK Q : Q = Sample(b)
      OBVIOUS
    <3>2. raw \in Seq(Q) /\ carried \in Seq(Q)
      BY <1>3, <3>1 DEF AreSamples
    <3>3. QED BY <3>2
  <2>3. QED BY <2>1, <2>2
<1>6. /\ AreSamples(current, b) /\ Len(current) > 0
      /\ Total(current) = Total(raw) + Total(carried)
  BY <1>4, <1>5, TotalSorted
<1>7. current[1].throughput = b
  BY <1>6, SampleFacts
<1>8. r = IF b THEN [stats |-> stats0, types |-> {current[i].type : i \in DOMAIN current}]
          ELSE CalculateTaskThroughput(stats0, current)
  BY <1>1, <1>4, <1>7 DEF Calculate
<1>9. CASE b
  <2>1. r.stats = stats0
    BY <1>8, <1>9
  <2>2. QED BY <1>9, <2>1 DEF Resumable, RoundKeeps
<1>10. CASE ~b
  <2>1. r = CalculateTaskThroughput(stats0, current)
    BY <1>8, <1>10
  <2>2. /\ r.stats \in Stats(b) /\ r.stats.interval > 0
        /\ r.stats.sample_type \in reports \union r.types
        /\ r.stats.total_count + Total(r.stats.unprocessed) >= start + Total(current)
    BY <1>2, <1>6, <2>1, ThroughputCalculated
  <2>3. r.stats.started
    BY <2>2, StatsFacts
  <2>4. CountedSoFar(r.stats) >= start + (Total(raw) + Total(carried))
    BY <1>6, <2>2, <2>3 DEF CountedSoFar
  <2>5. Total(raw) \in Nat /\ Total(carried) \in Nat
    BY <1>3, OpsSeq
  <2>6. start + (Total(raw) + Total(carried)) = CountedSoFar(stats0) + Total(raw)
    BY <1>3, <2>5
  <2>7. QED BY <2>2, <2>4, <2>6 DEF Resumable, RoundKeeps
<1>11. QED BY <1>9, <1>10

\* A runner that reports throughput itself has none of its operations counted.
PostOf(b, raw, queue, st, reports, n) ==
    /\ AreSamples(raw, b) /\ AreSamples(queue, b) /\ n \in Nat
    /\ Resumable(st, reports, b)
    /\ ~b => CountedSoFar(st) + Total(raw) + Total(queue) >= n

\* The invariant of post-processing: the samples of a task are all of one kind, the
\* stats can be resumed, and the operations are somewhere on their way to the total.
PostInv ==
    /\ PostOf(task.op.throughput, raw_samples, sampler, stats, reported, sampled)
    /\ phase = "loading" => /\ Client = {} /\ sampler = <<>> /\ raw_samples = <<>>
                            /\ stats = NoStats /\ sampled = 0

\* What has been counted is a number.
LEMMA CountedType ==
    ASSUME NEW b, NEW st, NEW reports, Resumable(st, reports, b)
    PROVE  CountedSoFar(st) \in Nat
<1>1. CASE st = NoStats
  <2>1. ~st.started
    BY <1>1 DEF NoStats
  <2>2. QED BY <2>1 DEF CountedSoFar
<1>2. CASE st \in Stats(b)
  <2>1. st.started /\ st.total_count \in Nat /\ AreSamples(st.unprocessed, b)
    BY <1>2, StatsFacts
  <2>2. Total(st.unprocessed) \in Nat
    BY <2>1, OpsSeq
  <2>3. QED BY <2>1, <2>2 DEF CountedSoFar
<1>3. QED BY <1>1, <1>2 DEF Resumable

\* Before the first sample there is nothing to lose.
LEMMA NothingSampled ==
    ASSUME NEW b, NEW reports
    PROVE  PostOf(b, <<>>, <<>>, NoStats, reports, 0)
<1>1. AreSamples(<<>>, b) /\ Total(<<>>) = 0
  BY TotalShort
<1>2. Resumable(NoStats, reports, b)
  BY DEF Resumable
<1>3. CountedSoFar(NoStats) \in Nat
  BY <1>2, CountedType
<1>4. QED BY <1>1, <1>2, <1>3 DEF PostOf

\* Sampler.add: a sample is counted in the queue, or dropped.
LEMMA SampleAdded ==
    ASSUME NEW b, NEW raw, NEW queue, NEW st, NEW reports, NEW n,
           PostOf(b, raw, queue, st, reports, n),
           NEW x, x \in Sample(b)
    PROVE  PostOf(b, raw, Append(queue, x), st, reports, n + x.ops)
<1>1. /\ AreSamples(raw, b) /\ AreSamples(queue, b) /\ n \in Nat
      /\ Resumable(st, reports, b)
      /\ ~b => CountedSoFar(st) + Total(raw) + Total(queue) >= n
  BY DEF PostOf
<1>2. AreSamples(Append(queue, x), b) /\ Total(Append(queue, x)) = Total(queue) + x.ops
  BY <1>1, TotalAppend
<1>3. x.ops \in Nat
  BY DEF Sample
<1>4. Total(raw) \in Nat /\ Total(queue) \in Nat /\ CountedSoFar(st) \in Nat
  BY <1>1, OpsSeq, CountedType
<1>5. n + x.ops \in Nat
  BY <1>1, <1>3
<1>6. ~b => CountedSoFar(st) + Total(raw) + Total(Append(queue, x)) >= n + x.ops
  BY <1>1, <1>2, <1>3, <1>4
<1>7. QED BY <1>1, <1>2, <1>5, <1>6 DEF PostOf

\* The samples of the queue arrive at the coordinator.
LEMMA SamplesSent ==
    ASSUME NEW b, NEW raw, NEW queue, NEW st, NEW reports, NEW n,
           PostOf(b, raw, queue, st, reports, n)
    PROVE  PostOf(b, raw \o queue, <<>>, st, reports, n)
<1>1. /\ AreSamples(raw, b) /\ AreSamples(queue, b) /\ n \in Nat
      /\ Resumable(st, reports, b)
      /\ ~b => CountedSoFar(st) + Total(raw) + Total(queue) >= n
  BY DEF PostOf
<1>2. /\ AreSamples(raw \o queue, b) /\ Total(raw \o queue) = Total(raw) + Total(queue)
      /\ AreSamples(<<>>, b) /\ Total(<<>>) = 0
  BY <1>1, TotalConcat, TotalShort
<1>3. Total(raw) \in Nat /\ Total(queue) \in Nat /\ CountedSoFar(st) \in Nat
  BY <1>1, OpsSeq, CountedType
<1>4. ~b => CountedSoFar(st) + Total(raw \o queue) + Total(<<>>) >= n
  BY <1>1, <1>2, <1>3
<1>5. QED BY <1>1, <1>2, <1>4 DEF PostOf

\* A round of post-processing.
LEMMA SamplesProcessed ==
    ASSUME NEW b, NEW raw, NEW queue, NEW st, NEW reports, NEW n,
           PostOf(b, raw, queue, st, reports, n), raw # <<>>,
           NEW r, r = Calculate(st, raw)
    PROVE  PostOf(b, <<>>, queue, r.stats, reports \union r.types, n)
<1>1. /\ AreSamples(raw, b) /\ AreSamples(queue, b) /\ n \in Nat
      /\ Resumable(st, reports, b)
      /\ ~b => CountedSoFar(st) + Total(raw) + Total(queue) >= n
  BY DEF PostOf
<1>2. Len(raw) > 0
  <2>1. PICK Q : Q = Sample(b)
    OBVIOUS
  <2>2. raw \in Seq(Q)
    BY <1>1, <2>1 DEF AreSamples
  <2>3. QED BY <2>2
<1>3. /\ Resumable(r.stats, reports \union r.types, b)
      /\ ~b => CountedSoFar(r.stats) >= CountedSoFar(st) + Total(raw)
  <2>1. AreSamples(raw, b) /\ Resumable(st, reports, b) /\ r = Calculate(st, raw)
    BY <1>1
  <2>2. RoundKeeps(b, raw, st, reports, r)
    BY ONLY <1>2, <2>1, RoundCalculated
  <2>3. QED BY <2>2 DEF RoundKeeps
<1>4. AreSamples(<<>>, b) /\ Total(<<>>) = 0
  BY TotalShort
<1>5. /\ Total(raw) \in Nat /\ Total(queue) \in Nat
      /\ CountedSoFar(st) \in Nat /\ CountedSoFar(r.stats) \in Nat
  BY <1>1, <1>3, OpsSeq, CountedType
<1>6. ~b => CountedSoFar(r.stats) + Total(<<>>) + Total(queue) >= n
  BY <1>1, <1>3, <1>4, <1>5
<1>7. QED BY <1>1, <1>3, <1>4, <1>6 DEF PostOf

\* No step loses operations.
LEMMA PostInvStep ==
    ASSUME ExecInv, PostInv, [Next]_vars
    PROVE  PostInv'
<1>1. ExecTypes
  BY DEF ExecInv
<1>2. PostOf(task.op.throughput, raw_samples, sampler, stats, reported, sampled)
  BY DEF PostInv
<1>3. CASE /\ UNCHANGED <<task, sampler, sampled, raw_samples, stats, reported>>
           /\ Client' = Client /\ (phase' = "loading" => phase = "loading")
  BY <1>3 DEF PostInv
<1>4. CASE Rejected
  BY <1>3, <1>4 DEF Rejected, clients, measured, Client
<1>5. CASE Load
  <2>1. CASE /\ phase' = "running"
             /\ UNCHANGED <<benchmark, now, sampler, measured, sampled>>
    <3>1. /\ sampler' = <<>> /\ raw_samples' = <<>> /\ stats' = NoStats /\ sampled' = 0
      BY <1>5, <2>1 DEF Load, PostInv, measured
    <3>2. PostOf(task'.op.throughput, raw_samples', sampler', stats', reported', sampled')
      BY <3>1, NothingSampled
    <3>3. QED BY <2>1, <3>2 DEF PostInv
  <2>2. QED BY <1>1, <1>4, <1>5, <2>1, Loaded
<1>6. CASE Tick
  BY <1>3, <1>6 DEF Tick, clients, measured, Client, loaded
<1>7. ASSUME NEW c \in Client, RampedUp(c) \/ NextRequest(c) \/ Issue(c) PROVE PostInv'
  <2>1. UNCHANGED <<phase, task, sampler, sampled, raw_samples, stats, reported>>
    BY <1>7 DEF RampedUp, NextRequest, Issue, loaded, measured
  <2>2. phase # "loading"
    BY <1>7 DEF PostInv
  <2>3. QED BY <1>2, <2>1, <2>2 DEF PostInv
<1>8. ASSUME NEW c \in Client, Respond(c) PROVE PostInv'
  <2>1. phase # "loading"
    BY <1>8 DEF PostInv
  <2>2. UNCHANGED <<phase, task, raw_samples, stats, reported>> /\ now > began[c]
    BY <1>8 DEF Respond, loaded, measured
  <2>3. PICK ops \in Weights \union {0} :
           AddSample([time |-> began[c], period |-> now, ops |-> ops,
                      type |-> type[c], throughput |-> task.op.throughput])
    BY <1>8 DEF Respond
  <2>4. PICK x : x = [time |-> began[c], period |-> now, ops |-> ops,
                      type |-> type[c], throughput |-> task.op.throughput]
    OBVIOUS
  <2>5. x \in Sample(task.op.throughput)
    <3>1. began[c] \in Nat /\ now \in Nat /\ type[c] \in {Warmup, Normal}
      BY <1>1, <1>8 DEF ExecTypes, ClientTypes, Respond
    <3>2. ops \in Nat /\ now \in Nat \ {0}
      BY <2>2, <2>3, <3>1, WeightsAreNumbers
    <3>3. QED BY <2>4, <3>1, <3>2 DEF Sample
  <2>6. AddSample(x)
    BY <2>3, <2>4
  <2>7. PostOf(task.op.throughput, raw_samples, sampler', stats, reported, sampled')
    <3>1. PostOf(task.op.throughput, raw_samples, Append(sampler, x), stats, reported,
                 sampled + x.ops)
      BY <1>2, <2>5, SampleAdded
    <3>2. QED BY <1>2, <2>6, <3>1 DEF AddSample
  <2>8. QED BY <2>1, <2>2, <2>7 DEF PostInv
<1>9. CASE SendSamples
  <2>1. /\ UNCHANGED <<phase, task, state, stats, reported, sampled>>
        /\ raw_samples' = raw_samples \o sampler /\ sampler' = <<>> /\ sampler # <<>>
    BY <1>9 DEF SendSamples, loaded, clients
  <2>2. PostOf(task.op.throughput, raw_samples', sampler', stats, reported, sampled)
    BY <1>2, <2>1, SamplesSent
  <2>3. phase # "loading"
    BY <2>1 DEF PostInv
  <2>4. QED BY <2>1, <2>2, <2>3 DEF PostInv
<1>10. CASE PostProcess
  <2>1. PICK r : r = Calculate(stats, raw_samples)
    OBVIOUS
  <2>2. /\ UNCHANGED <<phase, task, state, sampler, sampled>>
        /\ raw_samples' = <<>> /\ raw_samples # <<>>
        /\ stats' = r.stats /\ reported' = reported \union r.types
    BY <1>10, <2>1 DEF PostProcess, loaded, clients
  <2>3. PostOf(task.op.throughput, raw_samples', sampler, stats', reported', sampled)
    BY <1>2, <2>1, <2>2, SamplesProcessed
  <2>4. phase # "loading"
    BY <2>2 DEF PostInv
  <2>5. QED BY <2>2, <2>3, <2>4 DEF PostInv
<1>11. CASE UNCHANGED vars
  BY <1>3, <1>11 DEF vars, loaded, clients, measured, Client
<1>12. CASE Reject
  BY <1>4, <1>12 DEF Reject
<1>13. QED BY <1>5, <1>6, <1>7, <1>8, <1>9, <1>10, <1>11, <1>12 DEF Next, Run

\* Post-processing in rounds loses nothing, whatever arrives between the rounds and
\* however the samples of the clients are interleaved: each operation of a sample that
\* was queued is in the total, carried over in `unprocessed` or still under way, and
\* the type the stats are at has a throughput record.
THEOREM OperationsKept == Spec => []OperationsNotLost
<1>1. Init => PostInv
  <2>1. SUFFICES ASSUME Init PROVE PostInv
    OBVIOUS
  <2>2. Client = {}
    BY <2>1, ShortSeqs DEF Init, Client
  <2>3. PostOf(task.op.throughput, raw_samples, sampler, stats, reported, sampled)
    BY <2>1, NothingSampled DEF Init
  <2>4. QED BY <2>1, <2>2, <2>3 DEF PostInv, Init
<1>2. ExecInv /\ PostInv /\ [Next]_vars => PostInv'
  BY PostInvStep
<1>3. PostInv => OperationsNotLost
  <2>1. SUFFICES ASSUME PostInv PROVE OperationsNotLost
    OBVIOUS
  <2>2. /\ Resumable(stats, reported, task.op.throughput)
        /\ ~task.op.throughput => CountedSoFar(stats) + Total(raw_samples) + Total(sampler) >= sampled
    BY <2>1 DEF PostInv, PostOf
  <2>3. stats.started => stats.sample_type \in reported
    BY <2>2 DEF Resumable, NoStats
  <2>4. QED BY <2>2, <2>3 DEF OperationsNotLost, CountedSoFar
<1>4. QED BY <1>1, <1>2, <1>3, ExecutionInvariant, PTL DEF Spec
=============================================================================
