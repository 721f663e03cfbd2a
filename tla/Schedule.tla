------------------------------ MODULE Schedule ------------------------------
(***************************************************************************)
(* When a client of a task sends its requests: schedule_for, the progress  *)
(* controls (TimePeriodBased, IterationBased), and the schedulers.         *)
(*                                                                         *)
(* A task gives warmup_time_period, time_period, warmup_iterations,        *)
(* iterations and ramp_up, the ticks over which its clients start (None    *)
(* where it does not); wait: the ticks per operation that its target       *)
(* throughput leaves a client (0: no target); first and total: the place   *)
(* of its clients among those of its element; and its operation op with    *)
(* per_request: the target is in ops/s and the runner counts in another    *)
(* unit, size: the number of params its source yields (None: infinite),    *)
(* completes: its runner knows when it is completed, and throughput: its   *)
(* runner reports one.                                                     *)
(***************************************************************************)
EXTENDS Integers

None == -1
OrZero(n) == IF n = None THEN 0 ELSE n

\* requires_time_period_schedule
TimeBased(task) ==
    \/ task.warmup_time_period # None \/ task.time_period # None
    \/ /\ task.warmup_iterations = None /\ task.iterations = None
       /\ task.op.completes \/ task.op.size # None

\* schedule_for: the iterations of an IterationBased control.
Iterations(task) ==
    IF task.iterations # None /\ task.iterations # 0 THEN task.iterations
    ELSE IF task.op.size = None THEN 1 ELSE None

\* Does the parameter source (or the runner) determine when the schedule ends?
Infinite(task) ==
    IF TimeBased(task) THEN task.time_period = None ELSE Iterations(task) = None

\* `completed` of the progress control after `it` iterations, `elapsed` ticks
\* after its start.
ControlCompleted(task, it, elapsed) ==
    IF TimeBased(task)
    THEN elapsed >= OrZero(task.warmup_time_period) + task.time_period
    ELSE it >= OrZero(task.warmup_iterations) + Iterations(task)

InWarmup(task, it, elapsed) ==
    IF TimeBased(task) THEN elapsed < OrZero(task.warmup_time_period)
    ELSE it < OrZero(task.warmup_iterations)

\* UnitAwareScheduler.after_request: the weight the target is divided by from
\* now on (0: still unthrottled).  An erroneous request has no weight.
CurrentWeight(task, current, weight) ==
    IF weight = 0 \/ task.wait = 0 THEN current
    ELSE IF task.op.per_request THEN 1 ELSE weight

\* Mutant: the target is taken per request, whatever its weight.
NextScheduledPerRequest(task, current_weight, scheduled) ==
    IF task.wait = 0 \/ current_weight = 0 THEN 0 ELSE scheduled + task.wait

\* next(current): Unthrottled, or the deterministic scheduler (the Poisson
\* scheduler waits as long on average).
NextScheduled(task, current_weight, scheduled) ==
    IF task.wait = 0 \/ current_weight = 0 THEN 0
    ELSE scheduled + task.wait * current_weight

\* ramp_up_wait_time of the client with this index in the task.
RampUpWait(task, index) == (OrZero(task.ramp_up) * (task.first + index)) \div task.total
=============================================================================
