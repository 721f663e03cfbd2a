---------------------------- MODULE Specification ----------------------------
(***************************************************************************)
(* From the description of a workload to the tasks that run: the reader of *)
(* specifications (WorkloadSpecificationReader), the processors that       *)
(* change the loaded workload for test mode and serverless clusters, and   *)
(* the choice of the test procedure.                                       *)
(*                                                                         *)
(* A workload is a sequence of test procedures [name, default, schedule].  *)
(* An element of a schedule has                                            *)
(*   tasks, parallel: whether they are in a 'parallel' element, and, of    *)
(*   that element, keys, clients (None: not given) and completed_by;       *)
(*   clients_list: one copy of its task for each of these numbers.         *)
(* A task has a name, its own keys (None where it has none), clients, the  *)
(* target throughput or the target interval, in operations per tick and    *)
(* ticks per operation, and an operation op: per_request, size, completes, *)
(* throughput (see Schedule), public: whether its type is open to          *)
(* serverless clusters, serverless: 1 or 0 if it says so itself.           *)
(***************************************************************************)
EXTENDS Schedule, Sums, Sequences, FiniteSets, SequencesExt

CONSTANTS
    TestModePeriod      \* ticks test mode leaves of a time period (10 s)

ASSUME SpecificationAssumption == TestModePeriod \in Nat \ {0}

Keys == {"warmup_iterations", "iterations", "warmup_time_period", "time_period",
         "ramp_up"}
NoKeys == [key \in Keys |-> None]
NoName == "none"

\* What the schema of workloads says of the numbers in them, and of lists.
Least == [key \in Keys |-> IF key \in {"iterations", "time_period"} THEN 1 ELSE 0]

WellFormedKeys(keys) ==
    keys \in [Keys -> Int] /\ \A key \in Keys : keys[key] # None => keys[key] >= Least[key]

WellFormedTask(t) ==
    /\ WellFormedKeys(t.keys)
    /\ t.clients \in Nat \ {0}
    /\ t.target \in Nat \union {None} /\ t.interval \in Nat \union {None}
    /\ t.op.size \in Nat \union {None} /\ t.op.completes \in BOOLEAN

WellFormedElement(e) ==
    /\ e.tasks \in Seq(ToSet(e.tasks)) /\ e.tasks # <<>>
    /\ \A i \in DOMAIN e.tasks : WellFormedTask(e.tasks[i])
    /\ WellFormedKeys(e.keys)
    /\ e.clients \in (Nat \ {0}) \union {None}
    /\ e.clients_list \in Seq(Nat \ {0})

WellFormed(workload) ==
    \A p \in DOMAIN workload :
        /\ workload[p].schedule \in Seq(ToSet(workload[p].schedule))
        /\ \A i \in DOMAIN workload[p].schedule : WellFormedElement(workload[p].schedule[i])

\* A key of the task, or else the default that the parallel element gives.
WithDefaults(own, defaults) ==
    [key \in Keys |-> IF own[key] # None THEN own[key] ELSE defaults[key]]

\* The fields of f and of g.
Merged(f, g) == [x \in DOMAIN f \union DOMAIN g |-> IF x \in DOMAIN f THEN f[x] ELSE g[x]]

\* parse_task.  `first` and `total` say where in the element its clients are;
\* `asked` remembers what the workload says of it.
ParseTask(element, t, clients, name, first, total) ==
    Merged(WithDefaults(t.keys, element.keys),
           [name |-> name, clients |-> clients, first |-> first, total |-> total,
            completes_parent |-> element.parallel /\ t.name = element.completed_by,
            target |-> t.target, interval |-> t.interval, op |-> t.op,
            asked |-> [own |-> t.keys, parallel |-> element.keys]])

\* Mutant: a ramp-up may be longer than the warmup.
TaskInvalidNoRampUp(task) ==
    \/ task.warmup_iterations # None /\ task.time_period # None
    \/ task.warmup_time_period # None /\ task.iterations # None
    \/ /\ task.ramp_up # None
       /\ \/ task.warmup_iterations # None \/ task.iterations # None
          \/ task.warmup_time_period = None

\* What parse_task rejects.
TaskInvalid(task) ==
    \/ task.warmup_iterations # None /\ task.time_period # None
    \/ task.warmup_time_period # None /\ task.iterations # None
    \/ /\ task.ramp_up # None
       /\ \/ task.warmup_iterations # None \/ task.iterations # None
          \/ task.warmup_time_period = None
          \/ task.warmup_time_period < task.ramp_up

\* Clients of the first n tasks of an element.
ClientsOfFirst(element, n) ==
    SumOf([i \in 1..n |-> element.tasks[i].clients])

TotalClients(element) ==
    IF element.clients # None THEN element.clients
    ELSE ClientsOfFirst(element, Len(element.tasks))

\* parse_parallel, or the tasks that one entry of the schedule stands for: each
\* is an element of its own, named after the test procedure and its clients.
ParseElement(procedure, element) ==
    IF element.clients_list # <<>>
    THEN [i \in DOMAIN element.clients_list |->
            LET n == element.clients_list[i]
            IN  [parallel |-> FALSE,
                 tasks |-> <<ParseTask(element, element.tasks[1], n,
                                       <<procedure.name, n>>, 0, n)>>]]
    ELSE <<[parallel |-> element.parallel,
            tasks |-> [i \in DOMAIN element.tasks |->
                LET t == element.tasks[i]
                IN  ParseTask(element, t, t.clients, <<t.name, 0>>,
                              ClientsOfFirst(element, i - 1), TotalClients(element))]]>>

\* What parse_parallel rejects.
ParallelInvalid(element, tasks) ==
    \/ \E i \in DOMAIN tasks : tasks[i].ramp_up # element.keys.ramp_up
    \/ /\ element.completed_by # NoName
       /\ Cardinality({i \in DOMAIN tasks : tasks[i].completes_parent}) # 1

ParseSchedule(procedure) ==
    FlattenSeq([i \in DOMAIN procedure.schedule |->
                  ParseElement(procedure, procedure.schedule[i])])

\* The tasks of a schedule, without the elements around them.
Leaves(schedule) == FlattenSeq([i \in DOMAIN schedule |-> schedule[i].tasks])

ProcedureInvalid(procedure) ==
    LET leaves == Leaves(ParseSchedule(procedure))
    IN  \/ \E i \in DOMAIN leaves : TaskInvalid(leaves[i])
        \/ \E i \in DOMAIN procedure.schedule :
              LET element == procedure.schedule[i]
              IN  element.parallel
                  /\ ParallelInvalid(element, ParseElement(procedure, element)[1].tasks)
        \/ \E i, j \in DOMAIN leaves : i # j /\ leaves[i].name = leaves[j].name

\* A single test procedure is the default one, whatever it says.
IsDefault(workload, i) == Len(workload) = 1 \/ workload[i].default

Invalid(workload) ==
    \/ \E i \in DOMAIN workload : ProcedureInvalid(workload[i])
    \/ \E i, j \in DOMAIN workload : i # j /\ workload[i].name = workload[j].name
    \/ Cardinality({i \in DOMAIN workload : IsDefault(workload, i)}) # 1

\* find_test_procedure_or_default: the positions that fit.
Found(workload, name) ==
    {i \in DOMAIN workload : IF name = NoName THEN IsDefault(workload, i)
                             ELSE workload[i].name = name}

\* TestModeWorkloadProcessor on a leaf task.
ForTestMode(task) ==
    [task EXCEPT
        !.warmup_iterations = IF @ > task.clients THEN task.clients ELSE @,
        !.iterations = IF @ > task.clients THEN task.clients ELSE @,
        !.warmup_time_period = IF @ > 0 THEN 0 ELSE @,
        !.time_period = IF @ > TestModePeriod THEN TestModePeriod ELSE @,
        !.target = None, !.interval = None]

\* ServerlessFilterWorkloadProcessor: a task outside of a parallel element is
\* removed if it says so or, where it says nothing, if its type is blocked.
ForServerless(schedule) ==
    LET kept(element) ==
            \/ element.parallel
            \/ LET op == element.tasks[1].op
               IN  IF op.serverless # None THEN op.serverless = 1 ELSE op.public
    IN  FlattenSeq([i \in DOMAIN schedule |->
                      IF kept(schedule[i]) THEN <<schedule[i]>> ELSE <<>>])

\* Both targets may not be given; the property raises when it is read first, by
\* the processor for test mode or when the schedule of the task is made.
TargetInvalid(task) == task.interval # None /\ task.target # None

TestModeInvalid(workload) ==
    \E p \in DOMAIN workload :
        \E task \in ToSet(Leaves(ParseSchedule(workload[p]))) : TargetInvalid(task)

\* Task.target_throughput, as ticks per operation of one of the clients.
Wait(task) ==
    IF task.interval > 0 THEN task.interval * task.clients
    ELSE IF task.target > 0 THEN task.clients \div task.target ELSE 0

\* The schedule that runs, after the processors.
Processed(procedure, test_mode, serverless) ==
    LET parsed == ParseSchedule(procedure)
        filtered == IF serverless THEN ForServerless(parsed) ELSE parsed
        leaves == Leaves(filtered)
    IN  [i \in DOMAIN leaves |->
            IF test_mode THEN ForTestMode(leaves[i]) ELSE leaves[i]]
=============================================================================
