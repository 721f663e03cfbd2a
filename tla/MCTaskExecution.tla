--------------------------- MODULE MCTaskExecution ---------------------------
(***************************************************************************)
(* Instances of TaskExecution for TLC: workloads with a task of each kind, *)
(* and some that the reader rejects.                                       *)
(***************************************************************************)
EXTENDS TaskExecution

Simple == [per_request |-> FALSE, size |-> None, completes |-> FALSE,
           throughput |-> FALSE, public |-> TRUE, serverless |-> None]

Plain == [name |-> "t", keys |-> NoKeys, clients |-> 2, target |-> None,
          interval |-> None, op |-> Simple]

Alone(t) == [tasks |-> <<t>>, parallel |-> FALSE, keys |-> NoKeys, clients |-> None,
             completed_by |-> NoName, clients_list |-> <<>>]

Procedure(schedule) == [name |-> "p", default |-> FALSE, schedule |-> schedule]

Benchmark(schedule) == [workload |-> <<Procedure(schedule)>>, procedure |-> NoName,
                        test_mode |-> FALSE, serverless |-> FALSE]

\* Iterations, a finite source, a target per request, and a runner that knows
\* when it is completed.
Kinds == {
    Benchmark(<<Alone([Plain EXCEPT !.keys.warmup_iterations = 1, !.keys.iterations = 1,
                                    !.target = 2]),
                Alone([Plain EXCEPT !.name = "u", !.keys.warmup_iterations = 1,
                                    !.op.size = 3, !.op.throughput = TRUE])>>),
    Benchmark(<<Alone([Plain EXCEPT !.keys.iterations = 2, !.interval = 1,
                                    !.op.per_request = TRUE]),
                Alone([Plain EXCEPT !.name = "u", !.op.completes = TRUE,
                                    !.op.size = 2]),
                Alone([Plain EXCEPT !.name = "v", !.keys.warmup_time_period = 1,
                                    !.keys.time_period = 2])>>)}

Single == [Plain EXCEPT !.clients = 1]

\* A parallel element whose defaults one task overrides, with a ramp-up over the
\* clients of both tasks.
RampingUp ==
    [tasks |-> <<Single, [Single EXCEPT !.name = "u", !.keys.warmup_time_period = 3]>>,
     parallel |-> TRUE,
     keys |-> [NoKeys EXCEPT !.warmup_time_period = 2, !.time_period = 2, !.ramp_up = 2],
     clients |-> None, completed_by |-> "u", clients_list |-> <<>>]

Iterating ==
    [tasks |-> <<[Single EXCEPT !.keys.iterations = 3], [Single EXCEPT !.name = "u"]>>,
     parallel |-> TRUE,
     keys |-> [NoKeys EXCEPT !.warmup_iterations = 1, !.iterations = 1],
     clients |-> 1, completed_by |-> NoName, clients_list |-> <<>>]

\* One client, then two; the second procedure is the default.
Growing == [Alone(Plain) EXCEPT !.clients_list = <<1, 2>>]

TwoProcedures(name) ==
    [Benchmark(<<>>) EXCEPT
        !.workload = <<[Procedure(<<Alone([Plain EXCEPT !.op.public = FALSE]),
                                    Alone([Plain EXCEPT !.name = "u", !.op.public = FALSE,
                                                        !.op.serverless = 1])>>)
                        EXCEPT !.default = FALSE],
                       [Procedure(<<Growing>>) EXCEPT !.name = "q", !.default = TRUE]>>,
        !.procedure = name, !.serverless = TRUE]

\* Test mode cuts iterations and periods and lifts the target.
Tested ==
    {[Benchmark(<<Alone([Single EXCEPT !.keys.warmup_iterations = 2,
                                      !.keys.iterations = 2, !.interval = 3])>>)
        EXCEPT !.test_mode = TRUE],
     [Benchmark(<<RampingUp>>) EXCEPT !.test_mode = TRUE]}

Wrong ==
    LET with(keys) == Benchmark(<<Alone([Plain EXCEPT !.keys = keys])>>)
        parallel(e) == Benchmark(<<e>>)
        TwoTargets == [Plain EXCEPT !.interval = 1, !.target = 1]
    IN  {with([NoKeys EXCEPT !.warmup_iterations = 1, !.time_period = 1]),
         with([NoKeys EXCEPT !.warmup_time_period = 1, !.iterations = 1]),
         with([NoKeys EXCEPT !.ramp_up = 1, !.iterations = 1]),
         with([NoKeys EXCEPT !.ramp_up = 1, !.time_period = 1]),
         with([NoKeys EXCEPT !.ramp_up = 8, !.warmup_time_period = 1, !.time_period = 2]),
         parallel([RampingUp EXCEPT !.tasks[1].keys.ramp_up = 1]),
         parallel([RampingUp EXCEPT !.completed_by = "v"]),
         parallel([Iterating EXCEPT !.tasks[2].name = "t"]),
         Benchmark(<<Growing, Growing>>),
         Benchmark(<<Alone(TwoTargets)>>),
         [Benchmark(<<Alone(TwoTargets)>>) EXCEPT !.test_mode = TRUE],
         [TwoProcedures("p") EXCEPT !.workload[1].default = TRUE],
         [TwoProcedures("p") EXCEPT !.workload[2].default = FALSE],
         TwoProcedures("r")}

AllBenchmarks ==
    Kinds \union Tested \union Wrong
    \union {Benchmark(<<RampingUp>>), Benchmark(<<Iterating>>), TwoProcedures("p"),
            TwoProcedures(NoName)}

\* A task that runs long enough for several rounds of post-processing.
LongTask == {Benchmark(<<Alone([Single EXCEPT !.keys.iterations = 5])>>)}
=============================================================================
