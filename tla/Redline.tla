------------------------------ MODULE Redline ------------------------------
(***************************************************************************)
(* Redline testing: the FeedbackActor looks for the largest number of      *)
(* clients a cluster can stand.  It unpauses clients as long as no errors  *)
(* come in and pauses some when they do; the clients report errors through *)
(* a bounded queue and read from a shared dictionary whether they are      *)
(* paused; the WorkerCoordinator disables scaling at join points.          *)
(*                                                                         *)
(* The dictionary and the queue live in a multiprocessing manager, so the  *)
(* clients go on between any two writes of a scaling round.  Times (the    *)
(* sleep after scaling down, the wait between two rounds) are left open:   *)
(* a wakeup may find them over or not.                                     *)
(***************************************************************************)
EXTENDS Integers, Sequences, FiniteSets

CONSTANTS
    Worker,
    Client,
    WorkerOf,      \* the worker that runs a client
    NumSteps,      \* number_of_steps
    ScaleStep,     \* num_clients_to_scale_up
    ScaleDownPct,  \* percentage_clients_to_scale_down, in percent
    ProbeInterval, \* probe_interval
    QueueSize      \* maxsize of the error queue

\* max_error_threshold as long as no error was seen.
NoCeiling == 10000

ASSUME PopulationAssumption ==
    /\ IsFiniteSet(Worker) /\ IsFiniteSet(Client)
    /\ WorkerOf \in [Client -> Worker]

ASSUME ScalingAssumption ==
    /\ NumSteps \in Nat
    /\ ScaleStep \in Nat \ {0}
    /\ ScaleDownPct \in 0..100
    /\ ProbeInterval \in Nat \ {0}
    /\ QueueSize \in Nat \ {0}

VARIABLES
    state,         \* FeedbackActor.state
    scaling,       \* inside scale_up or scale_down
    todo,          \* clients the current round has still to flip
    active,        \* shared_client_states: the clients that are not paused
    total_active_client_count,
    max_error_threshold,
    cycles_since_probe,
    max_stable_clients,
    result,        \* the number printed at the end, -1 before
    mailbox        \* messages of the coordinator for the actor

VARIABLES
    error_queue,   \* number of errors in the queue
    pc,            \* client: where it is in the loop of AsyncExecutor
    client_state,  \* client: the state it read at the start of the iteration
    late           \* history: requests a client started since it was paused

VARIABLES
    current_step,
    joined         \* workers at the join point of the current step

actor == <<state, scaling, todo, active, total_active_client_count,
           max_error_threshold, cycles_since_probe, max_stable_clients, result>>
clients == <<pc, client_state>>
coordinator == <<current_step, joined>>
vars == <<actor, mailbox, error_queue, clients, late, coordinator>>

Smaller(a, b) == IF a < b THEN a ELSE b
Larger(a, b) == IF a < b THEN b ELSE a

-----------------------------------------------------------------------------
Init ==
    /\ state = "DISABLED"
    /\ scaling = FALSE
    /\ todo = {}
    /\ active = {}
    /\ total_active_client_count = 0
    /\ max_error_threshold = NoCeiling
    /\ cycles_since_probe = 0
    /\ max_stable_clients = 0
    /\ result = -1
    /\ mailbox = <<>>
    /\ error_queue = 0
    /\ pc = [c \in Client |-> "done"]
    /\ client_state = [c \in Client |-> FALSE]
    /\ late = [c \in Client |-> 0]
    /\ current_step = -1
    /\ joined = {}

-----------------------------------------------------------------------------
(* The FeedbackActor.  A handler runs only when no other one does.           *)

Idle == ~scaling /\ result = -1

\* receiveMsg_EnableFeedbackScaling: forget the ceiling, start to scale up.
EnableFeedbackScaling ==
    /\ Idle
    /\ mailbox # <<>> /\ Head(mailbox) = "Enable"
    /\ mailbox' = Tail(mailbox)
    /\ state' = "SCALING_UP"
    /\ max_error_threshold' = NoCeiling
    /\ cycles_since_probe' = 0
    /\ UNCHANGED <<scaling, todo, active, total_active_client_count,
                   max_stable_clients, result, error_queue, clients, late,
                   coordinator>>

\* receiveMsg_DisableFeedbackScaling.
DisableFeedbackScaling ==
    /\ Idle
    /\ mailbox # <<>> /\ Head(mailbox) = "Disable"
    /\ mailbox' = Tail(mailbox)
    /\ state' = "DISABLED"
    /\ UNCHANGED <<scaling, todo, active, total_active_client_count,
                   max_error_threshold, cycles_since_probe, max_stable_clients,
                   result, error_queue, clients, late, coordinator>>

\* handle_state begins with check_for_errors in every state.
Wakeup(s) == Idle /\ state \in s /\ error_queue' = 0

\* Disabled, or asleep after scaling down: errors are dropped.
WakeupIgnoresErrors ==
    /\ Wakeup({"DISABLED", "SLEEP"})
    /\ UNCHANGED <<actor, mailbox, clients, late, coordinator>>

\* The sleep is over.
WakeupRested ==
    /\ Wakeup({"SLEEP"})
    /\ state' = "NEUTRAL"
    /\ UNCHANGED <<scaling, todo, active, total_active_client_count,
                   max_error_threshold, cycles_since_probe, max_stable_clients,
                   result, mailbox, clients, late, coordinator>>

\* How many clients scale_down pauses: the percentage rounded up, of those
\* that are active at most.
ClientsToPause ==
    Smaller((total_active_client_count * ScaleDownPct + 99) \div 100,
            Cardinality(active))

\* Mutant: the victims are drawn from all clients, paused ones included.
WakeupScaleDownAny ==
    /\ Wakeup({"NEUTRAL", "SCALING_UP"})
    /\ error_queue > 0
    /\ state' = "SCALING_DOWN"
    /\ scaling' = TRUE
    /\ max_error_threshold' = total_active_client_count
    /\ \E S \in SUBSET Client : /\ Cardinality(S) = ClientsToPause
                                /\ todo' = S
    /\ UNCHANGED <<active, total_active_client_count, cycles_since_probe,
                   max_stable_clients, result, mailbox, clients, late,
                   coordinator>>

\* Errors came in: scale_down fixes the ceiling and selects its victims.
WakeupScaleDown ==
    /\ Wakeup({"NEUTRAL", "SCALING_UP"})
    /\ error_queue > 0
    /\ state' = "SCALING_DOWN"
    /\ scaling' = TRUE
    /\ max_error_threshold' = total_active_client_count
    /\ \E S \in SUBSET active : /\ Cardinality(S) = ClientsToPause
                                /\ todo' = S
    /\ UNCHANGED <<active, total_active_client_count, cycles_since_probe,
                   max_stable_clients, result, mailbox, clients, late,
                   coordinator>>

\* One iteration of the loop of scale_down.
PauseOne(c) ==
    /\ scaling /\ state = "SCALING_DOWN"
    /\ c \in todo
    /\ todo' = todo \ {c}
    /\ active' = active \ {c}
    /\ total_active_client_count' = total_active_client_count - 1
    /\ late' = [late EXCEPT ![c] = 0]
    /\ UNCHANGED <<state, scaling, max_error_threshold, cycles_since_probe,
                   max_stable_clients, result, mailbox, error_queue, clients,
                   coordinator>>

\* Mutant: scale_down returns to the neutral state.
ScaleDownEndsAwake ==
    /\ scaling /\ state = "SCALING_DOWN"
    /\ todo = {}
    /\ state' = "NEUTRAL"
    /\ scaling' = FALSE
    /\ error_queue' = 0
    /\ UNCHANGED <<todo, active, total_active_client_count,
                   max_error_threshold, cycles_since_probe, max_stable_clients,
                   result, mailbox, clients, late, coordinator>>

\* The finally block of scale_down.
ScaleDownEnds ==
    /\ scaling /\ state = "SCALING_DOWN"
    /\ todo = {}
    /\ state' = "SLEEP"
    /\ scaling' = FALSE
    /\ error_queue' = 0
    /\ UNCHANGED <<todo, active, total_active_client_count,
                   max_error_threshold, cycles_since_probe, max_stable_clients,
                   result, mailbox, clients, late, coordinator>>

\* Neutral without errors: the number of clients counts as stable.  `over`:
\* the last error and the last round are long enough ago.
WakeupNeutral(over) ==
    /\ Wakeup({"NEUTRAL"})
    /\ error_queue = 0
    /\ max_stable_clients' = Larger(max_stable_clients, total_active_client_count)
    /\ state' = IF over THEN "SCALING_UP" ELSE "NEUTRAL"
    /\ UNCHANGED <<scaling, todo, active, total_active_client_count,
                   max_error_threshold, cycles_since_probe, result, mailbox,
                   clients, late, coordinator>>

Gap == max_error_threshold - total_active_client_count

\* Mutant: the ceiling is ignored.
ClientsToAddUnlimited == ScaleStep

\* How many clients scale_up adds below the ceiling; above it one (a probe)
\* when the draw or the probe interval says so.
ClientsToAdd == Smaller(ScaleStep, Gap)

BelowCeiling(n) ==
    /\ ClientsToAdd > 0
    /\ n = ClientsToAdd
    /\ UNCHANGED cycles_since_probe

\* Mutant: only the draw makes a probe, never the interval.
ProbeByChance(n) ==
    /\ ClientsToAdd <= 0
    /\ n \in {0, 1}
    /\ UNCHANGED cycles_since_probe

Probe(n) ==
    /\ ClientsToAdd <= 0
    /\ IF cycles_since_probe + 1 >= ProbeInterval
       THEN n = 1 /\ cycles_since_probe' = 0
       ELSE n \in {0, 1} /\ cycles_since_probe' = cycles_since_probe + 1

\* scale_up selects the clients it will unpause.
WakeupScaleUp ==
    /\ Wakeup({"SCALING_UP"})
    /\ error_queue = 0
    /\ scaling' = TRUE
    /\ \E S \in SUBSET (Client \ active), n \in 0..ScaleStep :
          /\ BelowCeiling(n) \/ Probe(n)
          /\ Cardinality(S) = Smaller(n, Cardinality(Client \ active))
          /\ todo' = S
    /\ UNCHANGED <<state, active, total_active_client_count,
                   max_error_threshold, max_stable_clients, result, mailbox,
                   clients, late, coordinator>>

\* One iteration of the loop of scale_up.
UnpauseOne(c) ==
    /\ scaling /\ state = "SCALING_UP"
    /\ c \in todo
    /\ todo' = todo \ {c}
    /\ active' = active \union {c}
    /\ total_active_client_count' = total_active_client_count + 1
    /\ UNCHANGED <<state, scaling, max_error_threshold, cycles_since_probe,
                   max_stable_clients, result, mailbox, error_queue, clients,
                   late, coordinator>>

\* The finally block of scale_up.
ScaleUpEnds ==
    /\ scaling /\ state = "SCALING_UP"
    /\ todo = {}
    /\ state' = "NEUTRAL"
    /\ scaling' = FALSE
    /\ UNCHANGED <<todo, active, total_active_client_count,
                   max_error_threshold, cycles_since_probe, max_stable_clients,
                   result, mailbox, error_queue, clients, late, coordinator>>

-----------------------------------------------------------------------------
(* The clients: one iteration of AsyncExecutor.__call__ in redline mode.     *)

\* Mutant: a client that was found active is not asked again.
ReadStateCached(c) ==
    /\ pc[c] = "ready"
    /\ pc' = [pc EXCEPT ![c] = "throttled"]
    /\ client_state' = [client_state EXCEPT ![c] = @ \/ c \in active]
    /\ UNCHANGED <<actor, mailbox, error_queue, late, coordinator>>

\* The state is read before the client waits for its slot in the schedule.
ReadState(c) ==
    /\ pc[c] = "ready"
    /\ pc' = [pc EXCEPT ![c] = "throttled"]
    /\ client_state' = [client_state EXCEPT ![c] = c \in active]
    /\ UNCHANGED <<actor, mailbox, error_queue, late, coordinator>>

\* execute_single with a client that was found active starts a request ...
StartRequest(c) ==
    /\ pc[c] = "throttled" /\ client_state[c]
    /\ pc' = [pc EXCEPT ![c] = "requesting"]
    /\ late' = [late EXCEPT ![c] = IF c \in active THEN @ ELSE @ + 1]
    /\ UNCHANGED <<actor, mailbox, error_queue, client_state, coordinator>>

\* ... and skips it otherwise.
SkipRequest(c) ==
    /\ pc[c] = "throttled" /\ ~client_state[c]
    /\ pc' = [pc EXCEPT ![c] = "ready"]
    /\ UNCHANGED <<actor, mailbox, error_queue, client_state, late, coordinator>>

RequestSucceeds(c) ==
    /\ pc[c] = "requesting"
    /\ pc' = [pc EXCEPT ![c] = "ready"]
    /\ UNCHANGED <<actor, mailbox, error_queue, client_state, late, coordinator>>

\* The request fails or times out: report_error, which drops the error when
\* the queue is full.
RequestFails(c) ==
    /\ pc[c] = "requesting"
    /\ pc' = [pc EXCEPT ![c] = "ready"]
    /\ error_queue' = Smaller(error_queue + 1, QueueSize)
    /\ UNCHANGED <<actor, mailbox, client_state, late, coordinator>>

\* The schedule of the client is exhausted.
ScheduleEnds(c) ==
    /\ pc[c] = "ready"
    /\ pc' = [pc EXCEPT ![c] = "done"]
    /\ UNCHANGED <<actor, mailbox, error_queue, client_state, late, coordinator>>

-----------------------------------------------------------------------------
(* The coordinator: joinpoint_reached in redline mode.                       *)

Finished == current_step = NumSteps

\* Mutant: scaling is enabled before it is disabled.
ScalingMessagesSwapped(last) ==
    IF last /\ current_step + 1 # NumSteps
    THEN Append(Append(mailbox, "Enable"), "Disable")
    ELSE Append(mailbox, "Disable")

\* What joinpoint_reached sends: scaling is disabled with every worker that
\* arrives, and enabled again when the last one is in and a step follows.
ScalingMessages(last) ==
    IF last /\ current_step + 1 # NumSteps
    THEN Append(Append(mailbox, "Disable"), "Enable")
    ELSE Append(mailbox, "Disable")

JoinPointReached(w) ==
    /\ ~Finished
    /\ w \notin joined
    /\ \A c \in Client : WorkerOf[c] = w => pc[c] = "done"
    /\ LET last == joined \union {w} = Worker
       IN  /\ mailbox' = ScalingMessages(last)
           /\ joined' = IF last THEN {} ELSE joined \union {w}
           /\ current_step' = IF last THEN current_step + 1 ELSE current_step
           /\ pc' = IF last /\ current_step + 1 # NumSteps
                    THEN [c \in Client |-> "ready"] ELSE pc
    /\ UNCHANGED <<actor, error_queue, client_state, late>>

\* The benchmark is over and the coordinator ends the actor, after all its
\* other messages: receiveMsg_ActorExitRequest prints the result.
ActorExitRequest ==
    /\ Finished
    /\ Idle
    /\ mailbox = <<>>
    /\ result' = total_active_client_count
    /\ UNCHANGED <<state, scaling, todo, active, total_active_client_count,
                   max_error_threshold, cycles_since_probe, max_stable_clients,
                   mailbox, error_queue, clients, late, coordinator>>

-----------------------------------------------------------------------------
ActorStep ==
    \/ EnableFeedbackScaling
    \/ DisableFeedbackScaling
    \/ WakeupIgnoresErrors
    \/ WakeupRested
    \/ WakeupScaleDown
    \/ ScaleDownEnds
    \/ \E over \in BOOLEAN : WakeupNeutral(over)
    \/ WakeupScaleUp
    \/ ScaleUpEnds
    \/ \E c \in Client : PauseOne(c) \/ UnpauseOne(c)
    \/ ActorExitRequest

ClientStep(c) ==
    \/ ReadState(c)
    \/ StartRequest(c)
    \/ SkipRequest(c)
    \/ RequestSucceeds(c)
    \/ RequestFails(c)
    \/ ScheduleEnds(c)

Next ==
    \/ ActorStep
    \/ \E c \in Client : ClientStep(c)
    \/ \E w \in Worker : JoinPointReached(w)

Spec == Init /\ [][Next]_vars

(* The actor is woken up every second, gets its messages, and finds its      *)
(* waiting times over at last.  Nothing is assumed of the clients.           *)
Fairness ==
    /\ WF_vars(EnableFeedbackScaling)
    /\ WF_vars(DisableFeedbackScaling)
    /\ WF_vars(WakeupIgnoresErrors)
    /\ WF_vars(WakeupRested)
    /\ WF_vars(WakeupScaleDown)
    /\ WF_vars(ScaleDownEnds)
    /\ WF_vars(WakeupNeutral(TRUE))
    /\ WF_vars(WakeupScaleUp)
    /\ WF_vars(ScaleUpEnds)
    /\ WF_vars(\E c \in Client : PauseOne(c) \/ UnpauseOne(c))

FairSpec == Spec /\ Fairness

-----------------------------------------------------------------------------
\* Every variable has its type.
TypeOK ==
    /\ state \in {"DISABLED", "NEUTRAL", "SCALING_UP", "SCALING_DOWN", "SLEEP"}
    /\ scaling \in BOOLEAN
    /\ todo \in SUBSET Client
    /\ active \in SUBSET Client
    /\ total_active_client_count \in Int
    /\ max_error_threshold \in Int
    /\ cycles_since_probe \in Nat
    /\ max_stable_clients \in Int
    /\ result \in Int
    /\ mailbox \in Seq({"Enable", "Disable"})
    /\ error_queue \in 0..QueueSize
    /\ pc \in [Client -> {"done", "ready", "throttled", "requesting"}]
    /\ client_state \in [Client -> BOOLEAN]
    /\ late \in [Client -> Nat]
    /\ current_step \in -1..NumSteps
    /\ joined \in SUBSET Worker

\* The counter that all decisions are based on agrees with the shared
\* dictionary, in the middle of a scaling round too: a round flips each of its
\* clients once, and no other handler interferes before it ends.
CounterIsExact == total_active_client_count = Cardinality(active)

\* A round of scale_up stays below the load that caused errors; above it, it
\* adds one client (the probe) and no more.
CeilingRespected ==
    scaling /\ state = "SCALING_UP" =>
        \/ total_active_client_count + Cardinality(todo) <= max_error_threshold
        \/ Cardinality(todo) <= 1

\* A client reads its state, waits for its slot and only then sends: after it
\* was paused it sends one request at most.
OneLateRequest == \A c \in Client : late[c] <= 1

\* What the actor will have been told last.
LastWord ==
    IF mailbox # <<>> THEN mailbox[Len(mailbox)]
    ELSE IF state = "DISABLED" THEN "Disable" ELSE "Enable"

\* Scaling is on (or about to be switched on) exactly while a step is running
\* that no worker has finished, whatever messages are under way and whatever
\* the actor is doing: no scaling round undoes a DisableFeedbackScaling.
ScalingFollowsSteps ==
    LastWord = "Enable" <=> /\ current_step \in 0..(NumSteps - 1)
                            /\ joined = {}

\* Errors that arrive while the actor may scale are answered: the load is
\* reduced or the step ends.
ErrorsAreAnswered ==
    (error_queue > 0 /\ state \in {"NEUTRAL", "SCALING_UP"} /\ ~scaling)
        ~> (state \in {"SLEEP", "DISABLED"})

Quiet == state # "DISABLED" /\ error_queue = 0

\* When the errors have stopped for good the ceiling is not final: the probes
\* bring back every client for good, however low the load was taken.
LoadRecovers == <>[]Quiet => <>[](active = Client)

=============================================================================
