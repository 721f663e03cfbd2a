----------------------------- MODULE Allocator -----------------------------
(***************************************************************************)
(* From a test procedure's schedule to the allocation matrix the load      *)
(* generator executes: the task filter of the workload loader, the client  *)
(* override of start_benchmark, and Allocator.allocations, one iteration   *)
(* of its innermost loop at a time.                                        *)
(*                                                                         *)
(* An element of a schedule is a task (nested = FALSE, one sub-task, which *)
(* is the task itself) or a parallel element, whose `clients` may be given *)
(* (0: not given).                                                         *)
(***************************************************************************)
EXTENDS Integers, Sequences, FiniteSets, Sums, SequencesExt

CONSTANTS
    Schedules,    \* the schedules a workload may define
    FilterModes,  \* which filters are given: "none", "include", "exclude"
    Overrides     \* client numbers of redline or load test, 0: none

\* What the loader makes of the schedule of a test procedure: sequences of
\* elements and sub-tasks, with a client in every sub-task.
WellFormedSchedule(s) ==
    /\ s \in Seq(ToSet(s))
    /\ \A i \in DOMAIN s :
          /\ s[i] \in [nested : BOOLEAN, clients : Nat, tasks : Seq(ToSet(s[i].tasks))]
          /\ \A j \in DOMAIN s[i].tasks :
                LET t == s[i].tasks[j]
                IN  t \in [name : {t.name}, clients : Nat \ {0}, completes_parent : BOOLEAN]

\* No two tasks have the same name, and no element is without tasks.
NamesUnique(s) ==
    \A i, k \in DOMAIN s : \A j \in DOMAIN s[i].tasks, l \in DOMAIN s[k].tasks :
        s[i].tasks[j].name = s[k].tasks[l].name => i = k /\ j = l

NoElementEmpty(s) == \A i \in DOMAIN s : DOMAIN s[i].tasks # {}

ASSUME AllocatorAssumption ==
    /\ \A s \in Schedules : WellFormedSchedule(s) /\ NamesUnique(s) /\ NoElementEmpty(s)
    /\ FilterModes \subseteq {"none", "include", "exclude"}
    /\ Overrides \subseteq Nat

VARIABLES
    pc,            \* "filter", "override", "allocate" or "done"; then "assign" (Ingestion)
    schedule,
    element,       \* index of the schedule element
    sub,           \* index of its sub-task
    client,        \* clients of the sub-task that are allocated
    start_client_index,
    completing,    \* clients_executing_completing_task
    allocations    \* physical client -> its sequence of entries

loop == <<element, sub, client, start_client_index, completing, allocations>>
vars == <<pc, schedule, loop>>

-----------------------------------------------------------------------------
(* Schedules.                                                                *)

\* Parallel.clients, Task.clients.
ClientsOf(el) ==
    IF el.clients # 0 THEN el.clients
    ELSE SumOf([j \in DOMAIN el.tasks |-> el.tasks[j].clients])

\* Allocator.clients.
MaxClients ==
    LET all == {1} \union {ClientsOf(schedule[i]) : i \in DOMAIN schedule}
    IN  CHOOSE m \in all : \A n \in all : n <= m

Physical == 0..(MaxClients - 1)

NamesOf(el) == {el.tasks[i].name : i \in DOMAIN el.tasks}
AllNames(sched) == UNION {NamesOf(sched[i]) : i \in DOMAIN sched}

\* Does a filter that selects `names` match the element (Parallel.matches)?
Matches(el, names) == NamesOf(el) \intersect names # {}

\* _filter_out_match for an element of the schedule and for a sub-task.
FilterOut(el, mode, names) ==
    IF Matches(el, names) THEN mode = "exclude" /\ ~el.nested
    ELSE mode = "include"

FilterOutTask(t, mode, names) == (t.name \in names) <=> (mode = "exclude")

\* The entries of s at the places that are kept.
Remaining(s, kept) ==
    FlattenSeq([i \in DOMAIN s |-> IF i \in kept THEN <<s[i]>> ELSE <<>>])

Filtered(el, mode, names) ==
    [el EXCEPT !.tasks =
        Remaining(@, {j \in DOMAIN @ : ~FilterOutTask(@[j], mode, names)})]

\* TaskFilterWorkloadProcessor.on_after_load_workload.
FilteredSchedule(mode, names) ==
    LET kept == Remaining(schedule, {i \in DOMAIN schedule :
                                        ~FilterOut(schedule[i], mode, names)})
    IN  [i \in DOMAIN kept |-> Filtered(kept[i], mode, names)]

-----------------------------------------------------------------------------
(* Entries of the matrix.                                                    *)

JoinPoint(id, clients) == [kind |-> "join", id |-> id, clients |-> clients]

TaskAllocation(name, index, global, total) ==
    [kind |-> "task", name |-> name, client_index_in_task |-> index,
     global_client_index |-> global, total_clients |-> total]

None == [kind |-> "none"]

-----------------------------------------------------------------------------
Init ==
    /\ pc = "filter"
    /\ schedule \in Schedules
    /\ element = 1
    /\ sub = 1
    /\ client = 0
    /\ start_client_index = 0
    /\ completing = <<>>
    /\ allocations = <<>>

\* The workload is loaded, with a task filter or without.
FilterTasks ==
    /\ pc = "filter"
    /\ \E mode \in FilterModes, names \in SUBSET AllNames(schedule) :
          schedule' = IF mode = "none" THEN schedule
                      ELSE FilteredSchedule(mode, names)
    /\ pc' = "override"
    /\ UNCHANGED loop

\* start_benchmark: redline and load tests set the clients of every sub-task,
\* not those of a parallel element; the matrix starts with a join point.
StartBenchmark ==
    /\ pc = "override"
    /\ \E n \in Overrides :
          schedule' = IF n = 0 THEN schedule
                      ELSE [i \in DOMAIN schedule |->
                              [schedule[i] EXCEPT !.tasks =
                                 [j \in DOMAIN @ |-> [@[j] EXCEPT !.clients = n]]]]
    /\ pc' = "allocate"
    /\ allocations' = [p \in Physical' |-> <<JoinPoint(0, <<>>)>>]
    /\ UNCHANGED <<element, sub, client, start_client_index, completing>>

Element == schedule[element]
SubTask == Element.tasks[sub]

Allocating == pc = "allocate" /\ element <= Len(schedule)

\* The next client of the sub-task gets its entry, round robin over the
\* physical clients.
AllocateClient ==
    /\ Allocating
    /\ sub <= Len(Element.tasks)
    /\ client < SubTask.clients
    /\ LET index == start_client_index + client
           physical == index % MaxClients
       IN  /\ completing' = IF SubTask.completes_parent
                            THEN Append(completing, physical) ELSE completing
           /\ allocations' = [allocations EXCEPT ![physical] =
                 Append(@, TaskAllocation(SubTask.name, client, index,
                                          ClientsOf(Element)))]
    /\ client' = client + 1
    /\ UNCHANGED <<pc, schedule, element, sub, start_client_index>>

NextSubTask ==
    /\ Allocating
    /\ sub <= Len(Element.tasks)
    /\ client = SubTask.clients
    /\ start_client_index' = start_client_index + SubTask.clients
    /\ sub' = sub + 1
    /\ client' = 0
    /\ UNCHANGED <<pc, schedule, element, completing, allocations>>

\* What a row needs to be as long as the others.
Padded(p) ==
    IF start_client_index % MaxClients > 0 /\ p >= start_client_index % MaxClients
    THEN Append(allocations[p], None)
    ELSE allocations[p]

\* Mutant: the completing clients of the element are carried over.
FinishElementKeepsCompleting ==
    /\ Allocating
    /\ sub > Len(Element.tasks)
    /\ allocations' = [p \in Physical |->
                         Append(Padded(p), JoinPoint(element, completing))]
    /\ element' = element + 1
    /\ sub' = 1
    /\ start_client_index' = 0
    /\ UNCHANGED <<pc, schedule, client, completing>>

\* Fill up the rows and let all clients join.
FinishElement ==
    /\ Allocating
    /\ sub > Len(Element.tasks)
    /\ allocations' = [p \in Physical |->
                         Append(Padded(p), JoinPoint(element, completing))]
    /\ element' = element + 1
    /\ sub' = 1
    /\ start_client_index' = 0
    /\ completing' = <<>>
    /\ UNCHANGED <<pc, schedule, client>>

Return ==
    /\ pc = "allocate"
    /\ element > Len(schedule)
    /\ pc' = "done"
    /\ UNCHANGED <<schedule, loop>>

Next ==
    \/ FilterTasks
    \/ StartBenchmark
    \/ AllocateClient
    \/ NextSubTask
    \/ FinishElement
    \/ Return

Spec == Init /\ [][Next]_vars

-----------------------------------------------------------------------------
(* What start_benchmark derives from the matrix.                             *)

RowCount == Len(allocations[0])

\* number_of_steps: the join points of the first client, less the initial one.
NumberOfSteps ==
    Cardinality({r \in DOMAIN allocations[0] : allocations[0][r].kind = "join"}) - 1

\* tasks_per_joinpoint: the next entry, with what is collected before.
Collect(before, e) ==
    IF e.kind = "task" THEN [before EXCEPT !.current = @ \union {e.name}]
    ELSE IF e.kind = "join" /\ before.current # {}
    THEN [tasks |-> Append(before.tasks, before.current), current |-> {}]
    ELSE before

\* A pass over the matrix, row after row and client after client; n entries are done.
TasksPerJoinPoint ==
    LET pass[n \in 0..(RowCount * MaxClients)] ==
            IF n = 0 THEN [tasks |-> <<>>, current |-> {}]
            ELSE Collect(pass[n - 1],
                         allocations[(n - 1) % MaxClients][(n - 1) \div MaxClients + 1])
    IN  pass[RowCount * MaxClients].tasks

-----------------------------------------------------------------------------
Done == pc = "done"

Entries(s) == {s[i] : i \in DOMAIN s}

\* Where p has the join point i, and its tasks between the join points j - 1
\* and j.
JoinRow(p, i) ==
    CHOOSE r \in 1..RowCount : allocations[p][r].kind = "join" /\ allocations[p][r].id = i

Tasks(p, j) ==
    {allocations[p][r] : r \in {c \in (JoinRow(p, j - 1) + 1)..(JoinRow(p, j) - 1) :
                                    allocations[p][c].kind = "task"}}

\* Every client index of every sub-task is executed by exactly one client, in
\* the step of its schedule element, and the matrix holds no other tasks.
EveryTaskOnce ==
    Done => \A j \in DOMAIN schedule :
       LET tasks == schedule[j].tasks
           Holders(t, k) ==
               {x \in Physical \X (1..RowCount) :
                   LET entry == allocations[x[1]][x[2]]
                   IN  /\ entry.kind = "task"
                       /\ entry.name = t.name
                       /\ entry.client_index_in_task = k}
       IN  /\ \A i \in DOMAIN tasks : \A k \in 0..(tasks[i].clients - 1) :
                 Cardinality(Holders(tasks[i], k)) = 1
           /\ \A p \in Physical : \A a \in Tasks(p, j) :
                 \E i \in DOMAIN tasks : /\ a.name = tasks[i].name
                                         /\ a.client_index_in_task < tasks[i].clients

\* A join point names exactly the clients that execute a completing sub-task
\* of its step; may_complete_current_task waits for these.
CompletingClientsNamed ==
    Done => \A j \in DOMAIN schedule :
       LET names == {schedule[j].tasks[i].name : i \in
                        {n \in DOMAIN schedule[j].tasks :
                            schedule[j].tasks[n].completes_parent}}
           join == CHOOSE a \in Entries(allocations[0]) : a.kind = "join" /\ a.id = j
       IN  Entries(join.clients) =
              {p \in Physical : \E a \in Tasks(p, j) : a.name \in names}

\* tasks_per_joinpoint, which update_progress_message indexes with the current
\* step, has the tasks of every step in its place.
TasksOfEveryStep ==
    Done => /\ NumberOfSteps = Len(schedule)
            /\ Len(TasksPerJoinPoint) = NumberOfSteps
            /\ \A j \in DOMAIN schedule : TasksPerJoinPoint[j] = NamesOf(schedule[j])

\* The matrix says what the schedule says.
MatrixCorrect == EveryTaskOnce /\ CompletingClientsNamed /\ TasksOfEveryStep
=============================================================================
