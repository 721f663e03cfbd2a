--------------------------- MODULE Redline_proofs ---------------------------
(***************************************************************************)
(* Proofs of the safety properties of Redline, for any number of clients,  *)
(* workers and steps and any scaling configuration.                        *)
(***************************************************************************)
EXTENDS Redline, FiniteSetTheorems, TLAPS

\* What a scaling round may still flip: pausing concerns active clients only,
\* unpausing paused ones, and no round is left over between handlers.
RoundShape ==
    /\ ~scaling => todo = {} /\ state # "SCALING_DOWN"
    /\ scaling => state \in {"SCALING_UP", "SCALING_DOWN"}
    /\ state = "SCALING_DOWN" => todo \subseteq active
    /\ scaling /\ state = "SCALING_UP" => todo \cap active = {}

\* A paused client that still believes to be active has not sent a request
\* since it was paused.
LateShape ==
    \A c \in Client :
        pc[c] = "throttled" /\ client_state[c] /\ c \notin active => late[c] = 0

RInv == /\ TypeOK
        /\ CounterIsExact
        /\ CeilingRespected
        /\ OneLateRequest
        /\ ScalingFollowsSteps
        /\ RoundShape
        /\ LateShape

\* Subsets of the finite set of clients are finite, and their cardinality
\* changes by one when a client is added or removed.
LEMMA ClientSets ==
    ASSUME NEW S \in SUBSET Client
    PROVE  /\ IsFiniteSet(S)
           /\ Cardinality(S) \in Nat
           /\ \A c \in S : Cardinality(S \ {c}) = Cardinality(S) - 1
           /\ \A c \in Client \ S : Cardinality(S \union {c}) = Cardinality(S) + 1
<1>1. IsFiniteSet(S)
  BY PopulationAssumption, FS_Subset
<1>2. Cardinality(S) \in Nat
  BY <1>1, FS_CardinalityType
<1>3. \A c \in S : Cardinality(S \ {c}) = Cardinality(S) - 1
  BY <1>1, FS_RemoveElement
<1>4. \A c \in Client \ S : Cardinality(S \union {c}) = Cardinality(S) + 1
  BY <1>1, FS_AddElement
<1> QED
  BY <1>1, <1>2, <1>3, <1>4

\* The invariant holds when the actor has been set up.
LEMMA InitRInv == Init => RInv
<1> SUFFICES ASSUME Init PROVE RInv
  OBVIOUS
<1>1. Cardinality({}) = 0
  BY FS_EmptySet
<1>2. TypeOK
  <2>1. /\ mailbox \in Seq({"Enable", "Disable"})
        /\ error_queue \in 0..QueueSize
        /\ current_step \in -1..NumSteps
        /\ result \in Int
    BY ScalingAssumption DEF Init
  <2>2. /\ pc \in [Client -> {"done", "ready", "throttled", "requesting"}]
        /\ client_state \in [Client -> BOOLEAN]
        /\ late \in [Client -> Nat]
    BY DEF Init
  <2>3. /\ total_active_client_count \in Int
        /\ max_error_threshold \in Int
        /\ cycles_since_probe \in Nat
        /\ max_stable_clients \in Int
    BY DEF Init, NoCeiling
  <2>4. /\ state = "DISABLED" /\ scaling = FALSE
        /\ todo \in SUBSET Client /\ active \in SUBSET Client
        /\ joined \in SUBSET Worker
    BY DEF Init
  <2> QED
    BY <2>1, <2>2, <2>3, <2>4 DEF TypeOK
<1>3. CounterIsExact /\ CeilingRespected /\ RoundShape
  BY <1>1 DEF Init, CounterIsExact, CeilingRespected, RoundShape
<1>4. OneLateRequest /\ LateShape
  BY DEF Init, OneLateRequest, LateShape
<1>5. ScalingFollowsSteps
  <2>1. LastWord = "Disable"
    BY DEF Init, LastWord
  <2>2. current_step \notin 0..(NumSteps - 1)
    BY ScalingAssumption DEF Init
  <2> QED
    BY <2>1, <2>2 DEF ScalingFollowsSteps
<1> QED
  BY <1>2, <1>3, <1>4, <1>5 DEF RInv

\* Taking the first message off the mailbox leaves the last word alone, when
\* the handler makes the state agree with the message it took.
LEMMA TakeMessage ==
    ASSUME TypeOK, mailbox # <<>>, mailbox' = Tail(mailbox),
           (state' = "DISABLED") <=> (Head(mailbox) = "Disable")
    PROVE  LastWord' = LastWord /\ mailbox' \in Seq({"Enable", "Disable"})
<1>1. mailbox \in Seq({"Enable", "Disable"}) /\ Len(mailbox) > 0
  BY DEF TypeOK
<1>2. mailbox' \in Seq({"Enable", "Disable"}) /\ Len(mailbox') = Len(mailbox) - 1
  BY <1>1
<1>3. LastWord = mailbox[Len(mailbox)]
  BY DEF LastWord
<1>4. CASE Len(mailbox) = 1
  <2>1. mailbox' = <<>>
    BY <1>2, <1>4
  <2>2. mailbox[Len(mailbox)] = Head(mailbox) /\ Head(mailbox) \in {"Enable", "Disable"}
    BY <1>1, <1>4
  <2>3. LastWord' = IF state' = "DISABLED" THEN "Disable" ELSE "Enable"
    BY <2>1 DEF LastWord
  <2> QED
    BY <1>2, <1>3, <2>2, <2>3
<1>5. CASE Len(mailbox) > 1
  <2>1. mailbox'[Len(mailbox')] = mailbox[Len(mailbox)]
    BY <1>1, <1>2, <1>5
  <2>2. mailbox' # <<>>
    BY <1>1, <1>2, <1>5
  <2>3. LastWord' = mailbox'[Len(mailbox')]
    BY <2>2 DEF LastWord
  <2> QED
    BY <1>2, <1>3, <2>1, <2>3
<1>6. Len(mailbox) \in Nat
  BY <1>1
<1> QED
  BY <1>1, <1>4, <1>5, <1>6

\* A step of the actor that takes no message and keeps scaling switched on or
\* off leaves ScalingFollowsSteps alone.
LEMMA SameWord ==
    ASSUME ScalingFollowsSteps, UNCHANGED <<mailbox, coordinator>>,
           (state' = "DISABLED") <=> (state = "DISABLED")
    PROVE  ScalingFollowsSteps'
<1>1. LastWord' = LastWord
  BY DEF LastWord
<1> QED
  BY <1>1 DEF ScalingFollowsSteps, coordinator

\* Every step of the FeedbackActor preserves the invariant.
LEMMA ActorRInv == RInv /\ ActorStep => RInv'
<1> SUFFICES ASSUME RInv, ActorStep PROVE RInv'
  OBVIOUS
<1> USE DEF RInv
<1>c. /\ Cardinality(todo) \in Nat /\ Cardinality(active) \in Nat
      /\ Cardinality({}) = 0
  BY ClientSets, FS_EmptySet DEF TypeOK
<1>1. CASE EnableFeedbackScaling
  <2>1. ScalingFollowsSteps' /\ mailbox' \in Seq({"Enable", "Disable"})
    BY <1>1, TakeMessage DEF EnableFeedbackScaling, ScalingFollowsSteps, coordinator
  <2> QED
    BY <1>1, <2>1 DEF EnableFeedbackScaling, Idle, TypeOK, CounterIsExact,
       CeilingRespected, OneLateRequest, RoundShape, LateShape, clients,
       coordinator, NoCeiling
<1>2. CASE DisableFeedbackScaling
  <2>1. ScalingFollowsSteps' /\ mailbox' \in Seq({"Enable", "Disable"})
    BY <1>2, TakeMessage DEF DisableFeedbackScaling, ScalingFollowsSteps, coordinator
  <2> QED
    BY <1>2, <2>1 DEF DisableFeedbackScaling, Idle, TypeOK, CounterIsExact,
       CeilingRespected, OneLateRequest, RoundShape, LateShape, clients,
       coordinator
<1>3. CASE WakeupIgnoresErrors
  <2>1. ScalingFollowsSteps'
    BY <1>3, SameWord DEF WakeupIgnoresErrors, actor
  <2> QED
    BY <1>3, <2>1, ScalingAssumption DEF WakeupIgnoresErrors, Wakeup, Idle, TypeOK,
       CounterIsExact, CeilingRespected, OneLateRequest, RoundShape,
       LateShape, actor, clients, coordinator
<1>4. CASE WakeupRested
  <2>1. ScalingFollowsSteps'
    BY <1>4, SameWord DEF WakeupRested, Wakeup
  <2> QED
    BY <1>4, <2>1, ScalingAssumption DEF WakeupRested, Wakeup, Idle, TypeOK,
       CounterIsExact, CeilingRespected, OneLateRequest, RoundShape,
       LateShape, clients, coordinator
<1>5. CASE WakeupScaleDown
  <2>1. ScalingFollowsSteps'
    BY <1>5, SameWord DEF WakeupScaleDown, Wakeup
  <2>2. todo' \subseteq active
    BY <1>5 DEF WakeupScaleDown
  <2> QED
    BY <1>5, <2>1, <2>2, ScalingAssumption DEF WakeupScaleDown, Wakeup, Idle,
       TypeOK, CounterIsExact, CeilingRespected, OneLateRequest, RoundShape,
       LateShape, clients, coordinator
<1>6. CASE ScaleDownEnds
  <2>1. ScalingFollowsSteps'
    BY <1>6, SameWord DEF ScaleDownEnds
  <2>2. TypeOK'
    <3>1. error_queue' \in 0..QueueSize
      BY <1>6, ScalingAssumption DEF ScaleDownEnds
    <3>2. UNCHANGED <<todo, active, total_active_client_count,
                      max_error_threshold, cycles_since_probe,
                      max_stable_clients, result, mailbox, pc, client_state,
                      late, current_step, joined>>
      BY <1>6 DEF ScaleDownEnds, clients, coordinator
    <3>3. state' = "SLEEP" /\ scaling' = FALSE
      BY <1>6 DEF ScaleDownEnds
    <3> QED
      BY <3>1, <3>2, <3>3 DEF TypeOK
  <2>3. CounterIsExact' /\ CeilingRespected' /\ RoundShape'
    BY <1>6 DEF ScaleDownEnds, CounterIsExact, CeilingRespected, RoundShape
  <2>4. OneLateRequest' /\ LateShape'
    BY <1>6 DEF ScaleDownEnds, OneLateRequest, LateShape, clients
  <2> QED
    BY <2>1, <2>2, <2>3, <2>4
<1>7. ASSUME NEW over \in BOOLEAN, WakeupNeutral(over) PROVE RInv'
  <2>1. ScalingFollowsSteps'
    BY <1>7, SameWord DEF WakeupNeutral, Wakeup
  <2>2. max_stable_clients' \in Int
    BY <1>7 DEF WakeupNeutral, Larger, TypeOK
  <2> QED
    BY <1>7, <2>1, <2>2, ScalingAssumption DEF WakeupNeutral, Wakeup, Idle,
       TypeOK, CounterIsExact, CeilingRespected, OneLateRequest, RoundShape,
       LateShape, clients, coordinator
<1>8. CASE WakeupScaleUp
  <2>1. ScalingFollowsSteps'
    BY <1>8, SameWord DEF WakeupScaleUp, Wakeup
  <2>2. PICK S \in SUBSET (Client \ active), n \in 0..ScaleStep :
           /\ BelowCeiling(n) \/ Probe(n)
           /\ Cardinality(S) = Smaller(n, Cardinality(Client \ active))
           /\ todo' = S
    BY <1>8 DEF WakeupScaleUp
  <2>3. /\ Cardinality(Client \ active) \in Nat
        /\ S \in SUBSET Client /\ Cardinality(S) \in Nat
        /\ Cardinality(S) <= n
    <3>1. Cardinality(Client \ active) \in Nat
      BY ClientSets
    <3> QED
      BY <2>2, <3>1, ClientSets, ScalingAssumption DEF Smaller
  <2>4. cycles_since_probe' \in Nat
    BY <2>2 DEF BelowCeiling, Probe, TypeOK
  <2>5. total_active_client_count + Cardinality(S) <= max_error_threshold
            \/ Cardinality(S) <= 1
    <3>1. CASE BelowCeiling(n)
      BY <2>3, <3>1, ScalingAssumption
         DEF BelowCeiling, ClientsToAdd, Smaller, Gap, TypeOK
    <3>2. CASE Probe(n)
      BY <2>3, <3>2 DEF Probe
    <3> QED
      BY <2>2, <3>1, <3>2
  <2>6. CeilingRespected'
    BY <1>8, <2>2, <2>5 DEF WakeupScaleUp, CeilingRespected
  <2> QED
    BY <1>8, <2>1, <2>2, <2>3, <2>4, <2>6, ScalingAssumption DEF WakeupScaleUp,
       Wakeup, Idle, TypeOK, CounterIsExact, OneLateRequest, RoundShape,
       LateShape, clients, coordinator
<1>9. CASE ScaleUpEnds
  <2>1. ScalingFollowsSteps'
    BY <1>9, SameWord DEF ScaleUpEnds
  <2> QED
    BY <1>9, <2>1 DEF ScaleUpEnds, TypeOK, CounterIsExact, CeilingRespected,
       OneLateRequest, RoundShape, LateShape, clients, coordinator
<1>10. ASSUME NEW c \in Client, PauseOne(c) PROVE RInv'
  <2>1. ScalingFollowsSteps'
    BY <1>10, SameWord DEF PauseOne
  <2>2. Cardinality(active \ {c}) = Cardinality(active) - 1
    BY <1>10, ClientSets DEF PauseOne, TypeOK, RoundShape
  <2>3. CounterIsExact'
    BY <1>10, <2>2 DEF PauseOne, CounterIsExact
  <2>4. TypeOK' /\ OneLateRequest' /\ LateShape'
    BY <1>10 DEF PauseOne, TypeOK, OneLateRequest, LateShape, clients, coordinator
  <2> QED
    BY <1>10, <2>1, <2>3, <2>4 DEF PauseOne, CeilingRespected, RoundShape
<1>11. ASSUME NEW c \in Client, UnpauseOne(c) PROVE RInv'
  <2>1. ScalingFollowsSteps'
    BY <1>11, SameWord DEF UnpauseOne
  <2>2. c \notin active
    BY <1>11 DEF UnpauseOne, RoundShape
  <2>3. /\ Cardinality(active \union {c}) = Cardinality(active) + 1
        /\ Cardinality(todo \ {c}) = Cardinality(todo) - 1
    BY <1>11, <2>2, ClientSets DEF UnpauseOne, TypeOK
  <2>4. CounterIsExact'
    BY <1>11, <2>3 DEF UnpauseOne, CounterIsExact
  <2>5. CeilingRespected'
    <3>1. /\ total_active_client_count' = total_active_client_count + 1
          /\ Cardinality(todo') = Cardinality(todo) - 1
          /\ max_error_threshold' = max_error_threshold
      BY <1>11, <2>3 DEF UnpauseOne
    <3>2. \/ total_active_client_count + Cardinality(todo) <= max_error_threshold
          \/ Cardinality(todo) <= 1
      BY <1>11 DEF UnpauseOne, CeilingRespected
    <3> QED
      BY <1>c, <3>1, <3>2 DEF CeilingRespected, TypeOK
  <2>6. TypeOK' /\ OneLateRequest' /\ LateShape'
    BY <1>11 DEF UnpauseOne, TypeOK, OneLateRequest, LateShape, clients, coordinator
  <2> QED
    BY <1>11, <2>1, <2>4, <2>5, <2>6 DEF UnpauseOne, RoundShape
<1>12. CASE ActorExitRequest
  <2>1. ScalingFollowsSteps'
    BY <1>12, SameWord DEF ActorExitRequest
  <2> QED
    BY <1>12, <2>1 DEF ActorExitRequest, TypeOK, CounterIsExact,
       CeilingRespected, OneLateRequest, RoundShape, LateShape, clients,
       coordinator
<1> QED
  BY <1>1, <1>2, <1>3, <1>4, <1>5, <1>6, <1>7, <1>8, <1>9, <1>10, <1>11, <1>12
     DEF ActorStep

\* Every step of a client preserves the invariant.
LEMMA ClientRInv ==
    ASSUME RInv, NEW c \in Client, ClientStep(c)
    PROVE  RInv'
<1> USE DEF RInv
<1>1. ScalingFollowsSteps'
  BY SameWord DEF ClientStep, ReadState, StartRequest, SkipRequest,
     RequestSucceeds, RequestFails, ScheduleEnds, actor
<1>2. UNCHANGED actor
  BY DEF ClientStep, ReadState, StartRequest, SkipRequest, RequestSucceeds,
     RequestFails, ScheduleEnds
<1>3. CounterIsExact' /\ CeilingRespected' /\ RoundShape'
  BY <1>2 DEF actor, CounterIsExact, CeilingRespected, RoundShape
<1>4. CASE ReadState(c)
  <2>1. client_state' \in [Client -> BOOLEAN]
    BY <1>4 DEF ReadState, TypeOK
  <2>2. TypeOK'
    BY <1>4, <2>1 DEF ReadState, TypeOK, actor, coordinator
  <2>3. OneLateRequest'
    BY <1>4 DEF ReadState, OneLateRequest
  <2>4. LateShape'
    <3>1. \A d \in Client \ {c} : /\ pc'[d] = pc[d]
                                  /\ client_state'[d] = client_state[d]
      BY <1>4 DEF ReadState, TypeOK
    <3>2. client_state'[c] = (c \in active)
      BY <1>4 DEF ReadState, TypeOK
    <3> QED
      BY <1>4, <3>1, <3>2 DEF ReadState, LateShape, actor
  <2> QED
    BY <1>1, <1>3, <2>2, <2>3, <2>4
<1>5. CASE StartRequest(c)
  <2>1. late'[c] <= 1 /\ late'[c] \in Nat
    BY <1>5 DEF StartRequest, TypeOK, OneLateRequest, LateShape
  <2> QED
    BY <1>1, <1>3, <1>5, <2>1 DEF StartRequest, TypeOK, OneLateRequest,
       LateShape, actor, coordinator
<1>6. CASE SkipRequest(c)
  BY <1>1, <1>3, <1>6 DEF SkipRequest, TypeOK, OneLateRequest, LateShape,
     actor, coordinator
<1>7. CASE RequestSucceeds(c)
  BY <1>1, <1>3, <1>7 DEF RequestSucceeds, TypeOK, OneLateRequest, LateShape,
     actor, coordinator
<1>8. CASE RequestFails(c)
  <2>1. error_queue' \in 0..QueueSize
    BY <1>8, ScalingAssumption DEF RequestFails, Smaller, TypeOK
  <2> QED
    BY <1>1, <1>3, <1>8, <2>1 DEF RequestFails, TypeOK, OneLateRequest,
       LateShape, actor, coordinator
<1>9. CASE ScheduleEnds(c)
  BY <1>1, <1>3, <1>9 DEF ScheduleEnds, TypeOK, OneLateRequest, LateShape,
     actor, coordinator
<1> QED
  BY <1>4, <1>5, <1>6, <1>7, <1>8, <1>9 DEF ClientStep

\* A worker that reaches a join point preserves the invariant: the messages
\* end with Enable exactly when a new step begins.
LEMMA JoinRInv ==
    ASSUME RInv, NEW w \in Worker, JoinPointReached(w)
    PROVE  RInv'
<1> USE DEF RInv
<1> DEFINE last == joined \union {w} = Worker
           more == last /\ current_step + 1 # NumSteps
<1>1. /\ mailbox' \in Seq({"Enable", "Disable"})
      /\ mailbox' # <<>>
      /\ mailbox'[Len(mailbox')] = IF more THEN "Enable" ELSE "Disable"
  <2>1. mailbox \in Seq({"Enable", "Disable"})
    BY DEF TypeOK
  <2>2. CASE more
    <3>1. mailbox' = Append(Append(mailbox, "Disable"), "Enable")
      BY <2>2 DEF JoinPointReached, ScalingMessages
    <3>2. Append(mailbox, "Disable") \in Seq({"Enable", "Disable"})
      BY <2>1
    <3> QED
      BY <2>2, <3>1, <3>2
  <2>3. CASE ~more
    <3>1. mailbox' = Append(mailbox, "Disable")
      BY <2>3 DEF JoinPointReached, ScalingMessages
    <3> QED
      BY <2>1, <2>3, <3>1
  <2> QED
    BY <2>2, <2>3
<1>2. LastWord' = IF more THEN "Enable" ELSE "Disable"
  BY <1>1 DEF LastWord
<1>3. /\ joined' = IF last THEN {} ELSE joined \union {w}
      /\ current_step' = IF last THEN current_step + 1 ELSE current_step
      /\ current_step \in -1..NumSteps /\ current_step # NumSteps
  BY DEF JoinPointReached, Finished, TypeOK
<1>4. ScalingFollowsSteps'
  BY <1>2, <1>3, ScalingAssumption DEF ScalingFollowsSteps
<1>5. /\ pc' \in [Client -> {"done", "ready", "throttled", "requesting"}]
      /\ \A c \in Client : pc'[c] = "throttled" => pc[c] = "throttled"
  BY DEF JoinPointReached, TypeOK
<1>6. current_step' \in -1..NumSteps /\ joined' \in SUBSET Worker
  BY <1>3, ScalingAssumption DEF TypeOK
<1> QED
  BY <1>1, <1>4, <1>5, <1>6 DEF JoinPointReached, TypeOK, CounterIsExact,
     CeilingRespected, OneLateRequest, RoundShape, LateShape, actor

\* The invariant is inductive.
LEMMA NextRInv == RInv /\ [Next]_vars => RInv'
<1> SUFFICES ASSUME RInv, [Next]_vars PROVE RInv'
  OBVIOUS
<1>1. CASE UNCHANGED vars
  <2>1. ScalingFollowsSteps'
    BY <1>1, SameWord DEF RInv, vars, actor, coordinator
  <2> QED
    BY <1>1, <2>1 DEF RInv, vars, actor, clients, coordinator, TypeOK,
       CounterIsExact, CeilingRespected, OneLateRequest, RoundShape, LateShape
<1>2. CASE Next
  BY <1>2, ActorRInv, ClientRInv, JoinRInv DEF Next
<1> QED
  BY <1>1, <1>2

\* The invariant holds in every reachable state.
LEMMA RedlineInvariance == Spec => []RInv
  BY InitRInv, NextRInv, PTL DEF Spec

\* Every variable of the redline model keeps its type, the error queue its
\* bound.
THEOREM RedlineTypes == Spec => []TypeOK
<1>1. RInv => TypeOK
  BY DEF RInv
<1> QED
  BY <1>1, RedlineInvariance, PTL

\* total_active_client_count, which scale_up, scale_down and the final report
\* use, always equals the number of clients that are active in the shared
\* dictionary.
THEOREM CounterCorrect == Spec => []CounterIsExact
<1>1. RInv => CounterIsExact
  BY DEF RInv
<1> QED
  BY <1>1, RedlineInvariance, PTL

\* scale_up never takes the load above max_error_threshold by more than the
\* one client of a probe.
THEOREM CeilingCorrect == Spec => []CeilingRespected
<1>1. RInv => CeilingRespected
  BY DEF RInv
<1> QED
  BY <1>1, RedlineInvariance, PTL

\* A client that scale_down pauses starts at most one more request, although
\* it reads its state before it waits for its slot.
THEOREM LateRequestsBounded == Spec => []OneLateRequest
<1>1. RInv => OneLateRequest
  BY DEF RInv
<1> QED
  BY <1>1, RedlineInvariance, PTL

\* The messages of joinpoint_reached switch scaling on and off in step with
\* the schedule, whatever the FeedbackActor is doing when they arrive.
THEOREM ScalingInStep == Spec => []ScalingFollowsSteps
<1>1. RInv => ScalingFollowsSteps
  BY DEF RInv
<1> QED
  BY <1>1, RedlineInvariance, PTL
=============================================================================
