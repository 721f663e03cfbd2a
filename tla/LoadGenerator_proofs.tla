------------------------ MODULE LoadGenerator_proofs ------------------------
(***************************************************************************)
(* Proofs about LoadGenerator, for any number of workers and clients and   *)
(* any allocation matrix: the types, the step protocol, the accounting of  *)
(* the master, that the steps are barriers, that a request to complete a   *)
(* step early ends that step only, and that a failed task holds back the   *)
(* results.                                                                *)
(***************************************************************************)
EXTENDS LoadGenerator, FiniteSetTheorems, WellFoundedInduction, TLAPS

-----------------------------------------------------------------------------
(* Channels.                                                                 *)

\* Appending a message adds its type to those a channel has.
LEMMA AppendHas ==
    ASSUME NEW M, NEW s \in Seq(M), NEW m \in M, NEW T
    PROVE  Has(Append(s, m), T) <=> (Has(s, T) \/ m.type \in T)
<1>1. /\ Len(Append(s, m)) = Len(s) + 1
      /\ Len(s) \in Nat
      /\ \A i \in 1..Len(s) : Append(s, m)[i] = s[i]
      /\ Append(s, m)[Len(s) + 1] = m
  OBVIOUS
<1>2. QED BY <1>1 DEF Has

\* Appending a message of another type, or the first of its type, keeps the
\* channel at one message of the type at most.
LEMMA AppendAtMostOne ==
    ASSUME NEW M, NEW s \in Seq(M), NEW m \in M, NEW T,
           AtMostOne(s, T), m.type \notin T \/ ~Has(s, T)
    PROVE  AtMostOne(Append(s, m), T)
<1>1. /\ Len(Append(s, m)) = Len(s) + 1
      /\ Len(s) \in Nat
      /\ \A i \in 1..Len(s) : Append(s, m)[i] = s[i]
      /\ Append(s, m)[Len(s) + 1] = m
  OBVIOUS
<1>2. QED BY <1>1 DEF Has, AtMostOne

\* Taking the first message out of a channel.
LEMMA TailHas ==
    ASSUME NEW M, NEW s \in Seq(M), s # <<>>, NEW T
    PROVE  /\ Has(Tail(s), T) => Has(s, T)
           /\ Head(s).type \in T => Has(s, T)
           /\ AtMostOne(s, T) => AtMostOne(Tail(s), T)
           /\ AtMostOne(s, T) /\ Head(s).type \in T => ~Has(Tail(s), T)
<1>1. /\ Len(s) \in Nat /\ Len(s) > 0
      /\ Len(Tail(s)) = Len(s) - 1
      /\ Head(s) = s[1]
      /\ \A i \in 1..Len(Tail(s)) : Tail(s)[i] = s[i + 1]
  OBVIOUS
<1>2. QED BY <1>1 DEF Has, AtMostOne

-----------------------------------------------------------------------------
(* The allocation matrix.                                                    *)

\* A non-empty set of natural numbers has a least element.
LEMMA LeastElement ==
    ASSUME NEW T, T \subseteq Nat, T # {}
    PROVE  \E x \in T : \A y \in T : x <= y
<1>. DEFINE R == {p \in Nat \X Nat : p[1] < p[2]}
<1>1. IsWellFoundedOn(R, Nat)
  BY NatLessThanWellFounded DEF OpToRel
<1>2. PICK x \in T : \A y \in T : <<y, x>> \notin R
  <2>. HIDE DEF R
  <2>. QED BY <1>1, WFMin
<1>3. \A y \in T : ~(y < x)
  BY <1>2
<1>4. QED BY <1>3

\* Every worker has an entry in the row of a join point.
LEMMA JoinRow ==
    ASSUME NEW w \in Worker, NEW j \in 0..NumSteps
    PROVE  JoinIndex[j] \in Rows /\ TasksAt(w, JoinIndex[j]) # {}
<1>1. JoinIndex[j] \in Nat /\ LastRow \in Nat /\ JoinIndex[j] <= LastRow
  BY JoinIndexAssumption DEF LastRow
<1>2. JoinIndex[j] \in Rows
  BY <1>1 DEF Rows
<1>3. PICK c \in Client : WorkerOf[c] = w
  BY ClientAssumption
<1>4. Alloc[c][JoinIndex[j]] = "join"
  BY <1>2, AllocAssumption
<1>5. QED BY <1>2, <1>3, <1>4 DEF TasksAt

\* drive never runs past the next join point: the row it finds is that join
\* point, or a row of tasks ahead of it.
LEMMA NextRowBounds ==
    ASSUME NEW w \in Worker, NEW j \in 0..NumSteps,
           next[w] \in Nat, next[w] <= JoinIndex[j],
           j > 0 => next[w] > JoinIndex[j - 1]
    PROVE  /\ NextRow(w) \in Rows
           /\ next[w] <= NextRow(w)
           /\ NextRow(w) <= JoinIndex[j]
           /\ IsJoin(NextRow(w)) <=> NextRow(w) = JoinIndex[j]
<1>. DEFINE T == {r \in Rows : r >= next[w] /\ TasksAt(w, r) # {}}
<1>0. JoinIndex \in [0..NumSteps -> Nat] /\ LastRow \in Nat /\ NumSteps \in Nat
  BY JoinIndexAssumption DEF LastRow
<1>1. JoinIndex[j] \in T
  BY JoinRow, <1>0
<1>2. T \subseteq Nat
  BY <1>0 DEF Rows
<1>3. PICK x \in T : \A y \in T : x <= y
  <2>. HIDE DEF T
  <2>. QED BY <1>1, <1>2, LeastElement
<1>4. \A q \in next[w]..(x - 1) : TasksAt(w, q) = {}
  <2>. SUFFICES ASSUME NEW q \in next[w]..(x - 1), TasksAt(w, q) # {}
                PROVE  FALSE
    OBVIOUS
  <2>1. q \in Nat /\ x \in Nat /\ q >= next[w] /\ q < x
    BY <1>2, <1>3
  <2>2. q \in Rows
    BY <2>1, <1>3, <1>0 DEF Rows
  <2>3. QED BY <2>1, <2>2, <1>3
<1>5. /\ NextRow(w) \in Rows
      /\ NextRow(w) >= next[w]
      /\ TasksAt(w, NextRow(w)) # {}
      /\ \A q \in next[w]..(NextRow(w) - 1) : TasksAt(w, q) = {}
  <2>1. x \in Rows /\ x >= next[w] /\ TasksAt(w, x) # {}
    BY <1>3
  <2>2. QED BY <2>1, <1>4 DEF NextRow
<1>6. NextRow(w) \in Nat /\ JoinIndex[j] \in Nat
  BY <1>5, <1>0 DEF Rows
<1>7. NextRow(w) <= JoinIndex[j]
  BY <1>5, <1>6, JoinRow
<1>8. ASSUME IsJoin(NextRow(w))
      PROVE  NextRow(w) = JoinIndex[j]
  <2>1. PICK i \in 0..NumSteps : JoinIndex[i] = NextRow(w)
    BY <1>8 DEF IsJoin
  <2>2. ~(i < j)
    <3>1. ASSUME i < j
          PROVE  JoinIndex[i] <= JoinIndex[j - 1]
      <4>1. i = j - 1 \/ i < j - 1
        BY <3>1
      <4>2. j - 1 \in 0..NumSteps
        BY <3>1, <1>0
      <4>3. QED BY <4>1, <4>2, JoinIndexAssumption
    <3>2. QED BY <3>1, <2>1, <1>5, <1>0, <1>6
  <2>3. ~(j < i)
    BY <2>1, <1>7, JoinIndexAssumption
  <2>4. QED BY <2>1, <2>2, <2>3
<1>9. NextRow(w) = JoinIndex[j] => IsJoin(NextRow(w))
  BY DEF IsJoin
<1>10. QED BY <1>5, <1>7, <1>8, <1>9

-----------------------------------------------------------------------------
(* The inductive invariant.  Neither the types nor the accounting of the     *)
(* master are inductive by themselves: that a step ends at most NumSteps + 1 *)
(* times, and with every worker at the join point, follows from where each   *)
(* worker is in the protocol.                                                *)

Accounting ==
    /\ currently_completed = Cardinality(completed)
    /\ currently_completed < Cardinality(Worker)

Fresh == status = "init" => current_step = -1

IInv == TypeOK /\ StepProtocol /\ Accounting /\ Fresh

\* The initial state satisfies the inductive invariant.
LEMMA InitIInv == Init => IInv
<1>. SUFFICES ASSUME Init PROVE IInv
  OBVIOUS
<1>0. NumSteps \in Nat /\ LastRow \in Nat /\ JoinIndex[0] = 0
  BY JoinIndexAssumption DEF LastRow
<1>1. TypeOK
  <2>1. \A S : <<>> \in Seq(S)
    OBVIOUS
  <2>2. MasterTypeOK
    <3>1. /\ current_step \in -1..NumSteps
          /\ completed \in SUBSET Worker
      BY <1>0 DEF Init
    <3>2. reports \in Seq({"TaskFinished", "BenchmarkComplete", "BenchmarkFailure"})
      BY <2>1 DEF Init
    <3>3. QED BY <3>1, <3>2 DEF Init, MasterTypeOK
  <2>3. ChannelTypeOK
    BY <2>1 DEF Init, ChannelTypeOK
  <2>4. /\ next \in [Worker -> 0..(LastRow + 1)]
        /\ reached \in [Worker -> 0..(NumSteps + 1)]
    BY <1>0 DEF Init
  <2>5. WorkerTypeOK
    BY <2>4 DEF Init, WorkerTypeOK
  <2>6. QED BY <2>2, <2>3, <2>5 DEF TypeOK
<1>2. StepProtocol
  <2>. SUFFICES ASSUME NEW w \in Worker PROVE Protocol(w)
    BY DEF StepProtocol
  <2>1. IsJoin(0)
    BY <1>0 DEF IsJoin
  <2>2. ~Has(<<>>, Go) /\ AtMostOne(<<>>, Go) /\ AtMostOne(<<>>, Announcement)
        /\ ~Has(<<>>, Announcement)
    BY DEF Has, AtMostOne
  <2>3. AtJoinpoint(w)
    BY <2>1 DEF Init, AtJoinpoint, CurrentTaskIndex
  <2>4. ~Working(w)
    BY <2>3 DEF Init, Working
  <2>5. QED BY <2>2, <2>3, <2>4, <1>0 DEF Init, Protocol, Released
<1>3. Accounting
  <2>1. Cardinality(Worker) \in Nat /\ Cardinality(Worker) # 0
    BY WorkerAssumption, FS_CardinalityType, FS_EmptySet
  <2>2. QED BY <2>1, FS_EmptySet DEF Init, Accounting
<1>4. QED BY <1>1, <1>2, <1>3 DEF IInv, Fresh, Init

\* An action that moves worker w neither forward nor backward keeps its place
\* in the protocol.
LEMMA ProtocolFrame ==
    ASSUME NEW w \in Worker, Protocol(w),
           next'[w] = next[w], reached'[w] = reached[w],
           start_driving'[w] => start_driving[w],
           future'[w] # "none" => future[w] # "none",
           current_step' = current_step,
           w \in completed' <=> w \in completed,
           status' = "init" => status = "init",
           AtMostOne(inbox'[w], Go), Has(inbox'[w], Go) => Has(inbox[w], Go),
           AtMostOne(toMaster'[w], Announcement),
           Has(toMaster'[w], Announcement) => Has(toMaster[w], Announcement)
    PROVE  Protocol(w)'
<1>1. AtJoinpoint(w)' <=> AtJoinpoint(w)
  BY DEF AtJoinpoint, CurrentTaskIndex, IsJoin
<1>2. Working(w)' => Working(w)
  BY <1>1 DEF Working
<1>3. Released' = Released
  BY DEF Released
<1>. HIDE DEF Released, AtJoinpoint, Working
<1>4. QED BY <1>1, <1>2, <1>3 DEF Protocol

\* drive takes a worker that was let go to its next row of tasks or to the
\* next join point.
LEMMA DriveTypes ==
    ASSUME TypeOK, NEW w \in Worker, Protocol(w), NEW pending \in Nat,
           Has(inbox[w], Go) \/ Working(w), Drive(w, pending)
    PROVE  /\ next' \in [Worker -> 0..(LastRow + 1)]
           /\ reached' \in [Worker -> 0..(NumSteps + 1)]
           /\ wakeups' \in [Worker -> Nat]
           /\ future' \in [Worker -> {"none", "running", "failing", "done", "failed"}]
           /\ running' \in [Worker -> SUBSET Client]
           /\ complete' \in [Worker -> BOOLEAN]
           /\ cancel' \in [Worker -> BOOLEAN]
           /\ sampler' \in [Worker -> Nat]
           /\ toMaster' \in [Worker -> Seq(Message(WorkerMessage))]
<1>0. NumSteps \in Nat /\ LastRow \in Nat
  BY JoinIndexAssumption DEF LastRow
<1>. USE DEF WorkerTypeOK, ChannelTypeOK, TypeOK
<1>1. /\ reached[w] \in 0..NumSteps
      /\ next[w] \in Nat /\ next[w] <= JoinIndex[reached[w]]
      /\ reached[w] > 0 => next[w] > JoinIndex[reached[w] - 1]
  BY <1>0 DEF Protocol
<1>2. NextRow(w) \in 0..LastRow
  BY <1>1, NextRowBounds DEF Rows
<1>3. next' \in [Worker -> 0..(LastRow + 1)]
  BY <1>0, <1>2 DEF Drive
<1>4. TasksAt(w, NextRow(w)) \in SUBSET Client
  BY DEF TasksAt
<1>5. Drained(w) \in Seq(Message(WorkerMessage))
  <2>1. sampler[w] \in Nat /\ toMaster[w] \in Seq(Message(WorkerMessage))
    OBVIOUS
  <2>2. Msg("UpdateSamples", sampler[w]) \in Message(WorkerMessage)
    BY <2>1 DEF Msg, Message, WorkerMessage
  <2>3. QED BY <2>1, <2>2 DEF Drained
<1>6. Append(Drained(w), Msg("JoinPointReached", reached[w]))
        \in Seq(Message(WorkerMessage))
  BY <1>5, <1>1 DEF Msg, Message, WorkerMessage
<1>7. CASE IsJoin(NextRow(w)) /\ ReachJoinPoint(w, pending)
  <2>1. reached' \in [Worker -> 0..(NumSteps + 1)]
    BY <1>0, <1>1, <1>7 DEF ReachJoinPoint
  <2>2. toMaster' \in [Worker -> Seq(Message(WorkerMessage))]
    BY <1>6, <1>7 DEF ReachJoinPoint
  <2>3. QED BY <1>3, <1>7, <2>1, <2>2 DEF ReachJoinPoint
<1>8. CASE ~IsJoin(NextRow(w)) /\ complete[w] /\ SkipRow(w, pending)
  BY <1>3, <1>8 DEF SkipRow
<1>9. CASE ~IsJoin(NextRow(w)) /\ ~complete[w] /\ SubmitRow(w, NextRow(w), pending)
  BY <1>3, <1>4, <1>9 DEF SubmitRow
<1>10. QED BY <1>7, <1>8, <1>9 DEF Drive

\* send_samples adds no announcement to the channel to the master.
LEMMA DrainedChannel ==
    ASSUME TypeOK, NEW w \in Worker
    PROVE  /\ Drained(w) \in Seq(Message(WorkerMessage))
           /\ Has(Drained(w), Announcement) <=> Has(toMaster[w], Announcement)
           /\ AtMostOne(toMaster[w], Announcement)
                 => AtMostOne(Drained(w), Announcement)
<1>. DEFINE m == Msg("UpdateSamples", sampler[w])
<1>1. sampler[w] \in Nat /\ toMaster[w] \in Seq(Message(WorkerMessage))
  BY DEF TypeOK, WorkerTypeOK, ChannelTypeOK
<1>2. m \in Message(WorkerMessage) /\ m.type \notin Announcement
  BY <1>1 DEF Msg, Message, WorkerMessage, Announcement
<1>. HIDE DEF m
<1>3. /\ Append(toMaster[w], m) \in Seq(Message(WorkerMessage))
      /\ Has(Append(toMaster[w], m), Announcement)
            <=> Has(toMaster[w], Announcement)
      /\ AtMostOne(toMaster[w], Announcement)
            => AtMostOne(Append(toMaster[w], m), Announcement)
  BY <1>1, <1>2, AppendHas, AppendAtMostOne
<1>4. Drained(w) = toMaster[w] \/ Drained(w) = Append(toMaster[w], m)
  BY DEF Drained, m
<1>5. QED BY <1>1, <1>3, <1>4

\* drive keeps a worker in the protocol: it goes on working, or announces the
\* one join point it is due to reach.
LEMMA DriveProtocol ==
    ASSUME TypeOK, NEW w \in Worker, Protocol(w), NEW pending \in Nat,
           Has(inbox[w], Go) \/ Working(w), Drive(w, pending),
           AtMostOne(inbox'[w], Go), ~Has(inbox'[w], Go),
           ~start_driving'[w],
           current_step' = current_step, completed' = completed,
           status' = status
    PROVE  Protocol(w)'
<1>0. /\ NumSteps \in Nat /\ LastRow \in Nat
      /\ JoinIndex \in [0..NumSteps -> Nat]
  BY JoinIndexAssumption DEF LastRow
<1>1. /\ reached[w] \in 0..NumSteps
      /\ next[w] \in Nat /\ next[w] <= JoinIndex[reached[w]]
      /\ reached[w] > 0 => next[w] > JoinIndex[reached[w] - 1]
      /\ reached[w] = Released
      /\ status # "init"
      /\ current_step \in Int
      /\ w \notin completed
      /\ ~Has(toMaster[w], Announcement)
  BY <1>0 DEF Protocol, TypeOK, WorkerTypeOK, MasterTypeOK, Released
<1>2. /\ NextRow(w) \in 0..LastRow
      /\ next[w] <= NextRow(w)
      /\ NextRow(w) <= JoinIndex[reached[w]]
      /\ IsJoin(NextRow(w)) <=> NextRow(w) = JoinIndex[reached[w]]
  BY <1>1, NextRowBounds DEF Rows
<1>3. next'[w] = NextRow(w) + 1
  BY DEF Drive, TypeOK, WorkerTypeOK
<1>4. AtJoinpoint(w)' <=> IsJoin(NextRow(w))
  <2>1. CurrentTaskIndex(w)' = NextRow(w)
    BY <1>2, <1>3 DEF CurrentTaskIndex
  <2>2. QED BY <2>1 DEF AtJoinpoint, IsJoin
<1>5. Released' = Released
  BY DEF Released
<1>6. AtMostOne(toMaster[w], Announcement)
  BY DEF Protocol
<1>7. CASE IsJoin(NextRow(w)) /\ ReachJoinPoint(w, pending)
  <2>. DEFINE m == Msg("JoinPointReached", reached[w])
  <2>1. /\ reached'[w] = reached[w] + 1
        /\ future'[w] = "none"
        /\ toMaster'[w] = Append(Drained(w), m)
    BY <1>7 DEF ReachJoinPoint, TypeOK, WorkerTypeOK, ChannelTypeOK
  <2>2. m \in Message(WorkerMessage)
    BY <1>1 DEF Msg, Message, WorkerMessage
  <2>3. AtMostOne(toMaster'[w], Announcement)
    BY <2>1, <2>2, <1>1, <1>6, DrainedChannel, AppendAtMostOne
  <2>4. ~Working(w)' /\ AtJoinpoint(w)'
    BY <2>1, <1>4, <1>7 DEF Working
  <2>5. /\ next'[w] > JoinIndex[reached'[w] - 1]
        /\ reached'[w] <= NumSteps => next'[w] <= JoinIndex[reached'[w]]
    <3>1. next'[w] = JoinIndex[reached[w]] + 1
      BY <1>2, <1>3, <1>7
    <3>2. reached'[w] <= NumSteps => JoinIndex[reached[w]] < JoinIndex[reached'[w]]
      BY <1>0, <1>1, <2>1, JoinIndexAssumption
    <3>3. QED BY <1>0, <1>1, <2>1, <3>1, <3>2
  <2>6. reached'[w] = Released' + 1
    BY <1>1, <1>5, <2>1
  <2>. HIDE DEF Released, AtJoinpoint, Working
  <2>7. QED BY <1>1, <1>5, <2>1, <2>3, <2>4, <2>5, <2>6 DEF Protocol
<1>8. CASE /\ ~IsJoin(NextRow(w))
           /\ SkipRow(w, pending) \/ SubmitRow(w, NextRow(w), pending)
  <2>1. reached'[w] = reached[w] /\ toMaster'[w] = toMaster[w]
    BY <1>8 DEF SkipRow, SubmitRow
  <2>2. ~AtJoinpoint(w)' /\ Working(w)'
    BY <1>4, <1>8 DEF Working
  <2>3. next'[w] <= JoinIndex[reached'[w]]
    BY <1>0, <1>1, <1>2, <1>3, <1>8, <2>1
  <2>4. reached'[w] > 0 => next'[w] > JoinIndex[reached'[w] - 1]
    BY <1>0, <1>1, <1>2, <1>3, <2>1
  <2>. HIDE DEF Released, AtJoinpoint, Working
  <2>5. QED BY <1>1, <1>5, <1>6, <2>1, <2>2, <2>3, <2>4 DEF Protocol
<1>9. QED BY <1>7, <1>8 DEF Drive

-----------------------------------------------------------------------------
(* What actions do to the channels.                                          *)

\* No worker is let go, no worker announces a join point.
QuietInbox ==
    \A v \in Worker : /\ AtMostOne(inbox[v], Go) => AtMostOne(inbox'[v], Go)
                      /\ Has(inbox'[v], Go) => Has(inbox[v], Go)

QuietOutbox ==
    \A v \in Worker :
        /\ AtMostOne(toMaster[v], Announcement)
              => AtMostOne(toMaster'[v], Announcement)
        /\ Has(toMaster'[v], Announcement) => Has(toMaster[v], Announcement)

\* The master taking a message of a worker: no other channel changes, and a
\* JoinPointReached it takes was the only one.
LEMMA MasterTakesChannel ==
    ASSUME ChannelTypeOK, NEW w \in Worker, NEW t, MasterTakes(w, t)
    PROVE  /\ toMaster' \in [Worker -> Seq(Message(WorkerMessage))]
           /\ QuietOutbox
           /\ Head(toMaster[w]) \in Message(WorkerMessage)
           /\ AtMostOne(toMaster[w], Announcement) /\ t \in Announcement
                 => /\ Has(toMaster[w], Announcement)
                    /\ ~Has(toMaster'[w], Announcement)
           /\ \A v \in Worker \ {w} : toMaster'[v] = toMaster[v]
<1>1. /\ toMaster[w] \in Seq(Message(WorkerMessage))
      /\ toMaster[w] # <<>>
      /\ Head(toMaster[w]).type = t
      /\ toMaster' = [toMaster EXCEPT ![w] = Tail(toMaster[w])]
      /\ toMaster \in [Worker -> Seq(Message(WorkerMessage))]
  BY DEF MasterTakes, ChannelTypeOK
<1>2. /\ Tail(toMaster[w]) \in Seq(Message(WorkerMessage))
      /\ Head(toMaster[w]) \in Message(WorkerMessage)
  BY <1>1
<1>3. toMaster' \in [Worker -> Seq(Message(WorkerMessage))]
  BY <1>1, <1>2
<1>4. toMaster'[w] = Tail(toMaster[w])
      /\ \A v \in Worker \ {w} : toMaster'[v] = toMaster[v]
  BY <1>1
<1>5. /\ Has(toMaster'[w], Announcement) => Has(toMaster[w], Announcement)
      /\ t \in Announcement => Has(toMaster[w], Announcement)
      /\ AtMostOne(toMaster[w], Announcement)
            => AtMostOne(toMaster'[w], Announcement)
      /\ AtMostOne(toMaster[w], Announcement) /\ t \in Announcement
            => ~Has(toMaster'[w], Announcement)
  BY <1>1, <1>4, TailHas
<1>6. QuietOutbox
  BY <1>4, <1>5 DEF QuietOutbox
<1>7. QED BY <1>2, <1>3, <1>4, <1>5, <1>6

\* A worker taking a message of the master: no other channel changes, and a
\* StartWorker or Drive it takes was the only one.
LEMMA WorkerTakesChannel ==
    ASSUME ChannelTypeOK, NEW w \in Worker, NEW t, WorkerTakes(w, t)
    PROVE  /\ inbox' \in [Worker -> Seq(Message(MasterMessage))]
           /\ QuietInbox
           /\ AtMostOne(inbox[w], Go) /\ t \in Go
                 => Has(inbox[w], Go) /\ ~Has(inbox'[w], Go)
           /\ \A v \in Worker \ {w} : inbox'[v] = inbox[v]
<1>1. /\ inbox[w] \in Seq(Message(MasterMessage))
      /\ inbox[w] # <<>>
      /\ Head(inbox[w]).type = t
      /\ inbox' = [inbox EXCEPT ![w] = Tail(inbox[w])]
      /\ inbox \in [Worker -> Seq(Message(MasterMessage))]
  BY DEF WorkerTakes, ChannelTypeOK
<1>2. Tail(inbox[w]) \in Seq(Message(MasterMessage))
  BY <1>1
<1>3. inbox' \in [Worker -> Seq(Message(MasterMessage))]
  BY <1>1, <1>2
<1>4. inbox'[w] = Tail(inbox[w])
      /\ \A v \in Worker \ {w} : inbox'[v] = inbox[v]
  BY <1>1
<1>5. /\ Has(inbox'[w], Go) => Has(inbox[w], Go)
      /\ t \in Go => Has(inbox[w], Go)
      /\ AtMostOne(inbox[w], Go) => AtMostOne(inbox'[w], Go)
      /\ AtMostOne(inbox[w], Go) /\ t \in Go => ~Has(inbox'[w], Go)
  BY <1>1, <1>4, TailHas
<1>6. QuietInbox
  BY <1>4, <1>5 DEF QuietInbox
<1>7. QED BY <1>3, <1>4, <1>5, <1>6

\* A worker sending the master anything but a JoinPointReached.
LEMMA SendToMaster ==
    ASSUME ChannelTypeOK, NEW w \in Worker, NEW t \in WorkerMessage,
           t \notin Announcement,
           toMaster' = [toMaster EXCEPT ![w] = Append(toMaster[w], Msg(t, 0))]
    PROVE  /\ toMaster' \in [Worker -> Seq(Message(WorkerMessage))]
           /\ QuietOutbox
<1>. DEFINE m == Msg(t, 0)
<1>1. m \in Message(WorkerMessage) /\ m.type \notin Announcement
  BY DEF Msg, Message
<1>. HIDE DEF m
<1>2. /\ toMaster \in [Worker -> Seq(Message(WorkerMessage))]
      /\ toMaster' = [toMaster EXCEPT ![w] = Append(toMaster[w], m)]
  BY DEF ChannelTypeOK, m
<1>3. Append(toMaster[w], m) \in Seq(Message(WorkerMessage))
  BY <1>1, <1>2
<1>4. toMaster' \in [Worker -> Seq(Message(WorkerMessage))]
  BY <1>2, <1>3
<1>5. toMaster'[w] = Append(toMaster[w], m)
      /\ \A v \in Worker \ {w} : toMaster'[v] = toMaster[v]
  BY <1>2
<1>6. /\ Has(toMaster'[w], Announcement) => Has(toMaster[w], Announcement)
      /\ AtMostOne(toMaster[w], Announcement)
            => AtMostOne(toMaster'[w], Announcement)
  BY <1>1, <1>2, <1>5, AppendHas, AppendAtMostOne
<1>7. QED BY <1>4, <1>5, <1>6 DEF QuietOutbox

\* A message other than StartWorker and Drive for one worker.
LEMMA SendToWorker ==
    ASSUME ChannelTypeOK, NEW w \in Worker, NEW t \in MasterMessage, t \notin Go,
           inbox' = [inbox EXCEPT ![w] = Append(inbox[w], Msg(t, 0))]
    PROVE  /\ inbox' \in [Worker -> Seq(Message(MasterMessage))]
           /\ QuietInbox
<1>. DEFINE m == Msg(t, 0)
<1>1. m \in Message(MasterMessage) /\ m.type \notin Go
  BY DEF Msg, Message
<1>. HIDE DEF m
<1>2. /\ inbox \in [Worker -> Seq(Message(MasterMessage))]
      /\ inbox' = [inbox EXCEPT ![w] = Append(inbox[w], m)]
  BY DEF ChannelTypeOK, m
<1>3. Append(inbox[w], m) \in Seq(Message(MasterMessage))
  BY <1>1, <1>2
<1>4. inbox' \in [Worker -> Seq(Message(MasterMessage))]
  BY <1>2, <1>3
<1>5. inbox'[w] = Append(inbox[w], m)
      /\ \A v \in Worker \ {w} : inbox'[v] = inbox[v]
  BY <1>2
<1>6. /\ Has(inbox'[w], Go) => Has(inbox[w], Go)
      /\ AtMostOne(inbox[w], Go) => AtMostOne(inbox'[w], Go)
  BY <1>1, <1>2, <1>5, AppendHas, AppendAtMostOne
<1>7. QED BY <1>4, <1>5, <1>6 DEF QuietInbox

\* The same message for every worker.
LEMMA SendAllChannel ==
    ASSUME ChannelTypeOK, NEW t \in MasterMessage, NEW n \in Nat,
           SendAll(Msg(t, n))
    PROVE  /\ inbox' \in [Worker -> Seq(Message(MasterMessage))]
           /\ t \notin Go => QuietInbox
           /\ \A v \in Worker : AtMostOne(inbox[v], Go) /\ ~Has(inbox[v], Go)
                                   => AtMostOne(inbox'[v], Go)
<1>. DEFINE m == Msg(t, n)
<1>1. m \in Message(MasterMessage) /\ m.type = t
  BY DEF Msg, Message
<1>. HIDE DEF m
<1>2. /\ inbox \in [Worker -> Seq(Message(MasterMessage))]
      /\ inbox' = [v \in Worker |-> Append(inbox[v], m)]
  BY DEF ChannelTypeOK, SendAll, m
<1>3. inbox' \in [Worker -> Seq(Message(MasterMessage))]
  BY <1>1, <1>2
<1>4. ASSUME NEW v \in Worker
      PROVE  /\ t \notin Go => (Has(inbox'[v], Go) => Has(inbox[v], Go))
             /\ AtMostOne(inbox[v], Go) /\ (t \notin Go \/ ~Has(inbox[v], Go))
                   => AtMostOne(inbox'[v], Go)
  <2>1. inbox[v] \in Seq(Message(MasterMessage))
        /\ inbox'[v] = Append(inbox[v], m)
    BY <1>2
  <2>2. QED BY <1>1, <2>1, AppendHas, AppendAtMostOne
<1>5. QED BY <1>3, <1>4 DEF QuietInbox

\* An action that lets nobody go, ends no step and announces no join point
\* keeps the protocol.
LEMMA QuietStep ==
    ASSUME StepProtocol, QuietInbox, QuietOutbox,
           UNCHANGED <<next, reached, current_step, completed>>,
           \A v \in Worker : /\ start_driving'[v] => start_driving[v]
                             /\ future'[v] # "none" => future[v] # "none",
           status' = "init" => status = "init"
    PROVE  StepProtocol'
<1>1. ASSUME NEW v \in Worker PROVE Protocol(v)'
  <2>1. Protocol(v)
    BY DEF StepProtocol
  <2>2. AtMostOne(inbox[v], Go) /\ AtMostOne(toMaster[v], Announcement)
    BY <2>1 DEF Protocol
  <2>3. QED BY <2>1, <2>2, ProtocolFrame DEF QuietInbox, QuietOutbox
<1>2. QED BY <1>1 DEF StepProtocol

\* Unchanged channels are quiet.
LEMMA UnchangedQuiet ==
    /\ UNCHANGED inbox => QuietInbox
    /\ UNCHANGED toMaster => QuietOutbox
BY DEF QuietInbox, QuietOutbox

-----------------------------------------------------------------------------
(* Every action keeps the invariant.                                         *)

\* The actions of the master that no worker triggers.
LEMMA MasterAloneIInv ==
    ASSUME IInv, MasterAlone
    PROVE  IInv'
<1>. USE DEF IInv, TypeOK
<1>1. CASE StartBenchmark
  <2>. USE <1>1 DEF StartBenchmark
  <2>1. MasterTypeOK' /\ WorkerTypeOK'
    BY DEF MasterTypeOK, WorkerTypeOK, local
  <2>2. "StartWorker" \in MasterMessage /\ 0 \in Nat
    BY DEF MasterMessage
  <2>3. /\ inbox' \in [Worker -> Seq(Message(MasterMessage))]
        /\ \A v \in Worker : AtMostOne(inbox[v], Go) /\ ~Has(inbox[v], Go)
                                => AtMostOne(inbox'[v], Go)
    BY <2>2, SendAllChannel
  <2>4. ChannelTypeOK'
    BY <2>3 DEF ChannelTypeOK
  <2>5. ASSUME NEW v \in Worker PROVE Protocol(v)'
    <3>1. Protocol(v) /\ ~Has(inbox[v], Go) /\ ~Working(v)
          /\ next[v] = 0 /\ reached[v] = 0 /\ v \notin completed
          /\ Released = 0 /\ current_step = -1
      BY DEF StepProtocol, Protocol, Fresh, Released
    <3>2. UNCHANGED <<next, reached, start_driving, future, toMaster,
                      completed, current_step>>
      BY DEF local
    <3>3. Working(v)' <=> Working(v)
      BY <3>2 DEF Working, AtJoinpoint, CurrentTaskIndex, IsJoin
    <3>4. Released' = Released
      BY <3>2 DEF Released
    <3>5. AtJoinpoint(v)' <=> AtJoinpoint(v)
      BY <3>2 DEF AtJoinpoint, CurrentTaskIndex, IsJoin
    <3>6. JoinIndex[0] = 0 /\ NumSteps \in Nat
      BY JoinIndexAssumption
    <3>7. AtMostOne(inbox'[v], Go)
      BY <2>3, <3>1 DEF Protocol
    <3>8. ~Has(toMaster[v], Announcement)
      BY <3>1 DEF Protocol
    <3>. HIDE DEF Working, AtJoinpoint, Released
    <3>9. QED BY <3>1, <3>2, <3>3, <3>4, <3>5, <3>6, <3>7, <3>8 DEF Protocol
  <2>6. Accounting' /\ Fresh'
    BY DEF Accounting, Fresh
  <2>7. QED BY <2>1, <2>4, <2>5, <2>6 DEF StepProtocol
<1>2. CASE StartBenchmarkFails
  <2>. USE <1>2 DEF StartBenchmarkFails
  <2>1. MasterTypeOK' /\ WorkerTypeOK' /\ ChannelTypeOK'
    BY DEF MasterTypeOK, WorkerTypeOK, ChannelTypeOK, local, Report
  <2>2. StepProtocol'
    BY UnchangedQuiet, QuietStep DEF local
  <2>3. QED BY <2>1, <2>2 DEF Accounting, Fresh
<1>3. CASE BenchmarkFailureFromSelf
  <2>. USE <1>3 DEF BenchmarkFailureFromSelf
  <2>1. MasterTypeOK' /\ WorkerTypeOK' /\ ChannelTypeOK'
    BY DEF MasterTypeOK, WorkerTypeOK, ChannelTypeOK, local, Report, Close
  <2>2. StepProtocol'
    BY UnchangedQuiet, QuietStep DEF local
  <2>3. QED BY <2>1, <2>2 DEF Accounting, Fresh
<1>4. CASE PeriodicWakeup
  <2>. USE <1>4 DEF PeriodicWakeup
  <2>0. raw_samples' \in Nat /\ stored' \in Nat /\ ticking' \in BOOLEAN
    BY DEF MasterTypeOK
  <2>1. MasterTypeOK' /\ WorkerTypeOK' /\ ChannelTypeOK'
    BY <2>0 DEF MasterTypeOK, WorkerTypeOK, ChannelTypeOK, local
  <2>2. StepProtocol'
    BY UnchangedQuiet, QuietStep DEF local
  <2>3. QED BY <2>1, <2>2 DEF Accounting, Fresh
<1>5. CASE PeriodicWakeupFails
  <2>. USE <1>5 DEF PeriodicWakeupFails
  <2>0. self_failures' \in Nat
    BY DEF MasterTypeOK
  <2>1. MasterTypeOK' /\ WorkerTypeOK' /\ ChannelTypeOK'
    BY <2>0 DEF MasterTypeOK, WorkerTypeOK, ChannelTypeOK, local
  <2>2. StepProtocol'
    BY UnchangedQuiet, QuietStep DEF local
  <2>3. QED BY <2>1, <2>2 DEF Accounting, Fresh
<1>6. CASE ResetRelativeTime
  <2>. USE <1>6 DEF ResetRelativeTime
  <2>1. MasterTypeOK' /\ WorkerTypeOK' /\ ChannelTypeOK'
    BY DEF MasterTypeOK, WorkerTypeOK, ChannelTypeOK, local
  <2>2. StepProtocol'
    BY UnchangedQuiet, QuietStep DEF local
  <2>3. QED BY <2>1, <2>2 DEF Accounting, Fresh
<1>7. CASE ExitRequest
  <2>. USE <1>7 DEF ExitRequest
  <2>1. MasterTypeOK' /\ WorkerTypeOK'
    BY DEF MasterTypeOK, WorkerTypeOK, local
  <2>2. "ActorExitRequest" \in MasterMessage \ Go
    BY DEF MasterMessage, Go
  <2>3. inbox' \in [Worker -> Seq(Message(MasterMessage))] /\ QuietInbox
    BY <2>2, SendAllChannel
  <2>4. StepProtocol'
    BY <2>3, UnchangedQuiet, QuietStep DEF local
  <2>5. QED BY <2>1, <2>3, <2>4 DEF Accounting, Fresh, ChannelTypeOK
<1>8. QED BY <1>1, <1>2, <1>3, <1>4, <1>5, <1>6, <1>7 DEF MasterAlone

\* The master ends a step with every worker at the join point.
LEMMA EndStepWithAll ==
    ASSUME IInv, NEW w \in Worker, EndStep(w)
    PROVE  /\ Worker = completed \union {w}
           /\ \A v \in Worker : reached[v] = Released + 1
<1>. USE DEF IInv, TypeOK, EndStep
<1>1. Protocol(w) /\ AtMostOne(toMaster[w], Announcement)
  BY DEF StepProtocol, Protocol
<1>2. Has(toMaster[w], Announcement)
  BY <1>1, MasterTakesChannel DEF Announcement
<1>3. reached[w] = Released + 1 /\ w \notin completed
  BY <1>1, <1>2 DEF Protocol
<1>4. /\ IsFiniteSet(Worker) /\ completed \subseteq Worker
      /\ IsFiniteSet(completed)
  BY WorkerAssumption, FS_Subset DEF MasterTypeOK
<1>5. /\ IsFiniteSet(completed \union {w})
      /\ Cardinality(completed \union {w}) = Cardinality(Worker)
  BY <1>3, <1>4, FS_AddElement DEF Accounting
<1>6. Worker = completed \union {w}
  BY <1>4, <1>5, FS_Subset
<1>7. \A v \in Worker : reached[v] = Released + 1
  BY <1>3, <1>6 DEF StepProtocol, Protocol
<1>8. QED BY <1>6, <1>7

\* The handlers of the master for messages of a worker.
LEMMA MasterStepIInv ==
    ASSUME IInv, NEW w \in Worker, MasterStep(w)
    PROVE  IInv'
<1>. USE DEF IInv, TypeOK
<1>0. /\ Protocol(w)
      /\ AtMostOne(toMaster[w], Announcement)
      /\ current_step \in -1..NumSteps /\ NumSteps \in Nat
      /\ reached \in [Worker -> 0..(NumSteps + 1)]
  BY JoinIndexAssumption DEF StepProtocol, Protocol, MasterTypeOK, WorkerTypeOK
<1>1. ASSUME MasterTakes(w, "JoinPointReached")
      PROVE  /\ reached[w] = Released + 1
             /\ w \notin completed
             /\ ~Has(toMaster'[w], Announcement)
             /\ AtMostOne(toMaster'[w], Announcement)
             /\ toMaster' \in [Worker -> Seq(Message(WorkerMessage))]
             /\ \A v \in Worker \ {w} : toMaster'[v] = toMaster[v]
  BY <1>0, <1>1, MasterTakesChannel DEF Announcement, Protocol, QuietOutbox
<1>2. /\ IsFiniteSet(Worker) /\ completed \subseteq Worker
      /\ IsFiniteSet(completed)
      /\ Cardinality(Worker) \in Nat /\ Cardinality(completed) \in Nat
  BY WorkerAssumption, FS_Subset, FS_CardinalityType DEF MasterTypeOK
<1>3. CASE JoinPointReachedByOne(w)
  <2>. USE <1>3 DEF JoinPointReachedByOne
  <2>1. currently_completed' = Cardinality(completed')
        /\ currently_completed' < Cardinality(Worker)
    <3>1. Cardinality(completed \union {w}) = Cardinality(completed) + 1
      BY <1>1, <1>2, FS_AddElement
    <3>2. QED BY <1>2, <3>1 DEF Accounting
  <2>2. Accounting' /\ Fresh'
    BY <2>1 DEF Accounting, Fresh
  <2>3. MasterTypeOK' /\ WorkerTypeOK'
    <3>1. currently_completed' \in Nat /\ completed' \subseteq Worker
      BY DEF MasterTypeOK
    <3>2. \/ complete_current_task_sent' = TRUE
          \/ complete_current_task_sent' = complete_current_task_sent
      OBVIOUS
    <3>3. QED BY <3>1, <3>2 DEF MasterTypeOK, WorkerTypeOK, local
  <2>4. inbox' \in [Worker -> Seq(Message(MasterMessage))] /\ QuietInbox
    <3>1. "CompleteCurrentTask" \in MasterMessage \ Go /\ current_step + 1 \in Nat
      BY <1>0 DEF MasterMessage, Go
    <3>2. SendAll(Msg("CompleteCurrentTask", current_step + 1)) \/ UNCHANGED inbox
      OBVIOUS
    <3>3. QED BY <3>1, <3>2, SendAllChannel, UnchangedQuiet DEF ChannelTypeOK
  <2>5. ChannelTypeOK'
    BY <2>4, <1>1 DEF ChannelTypeOK
  <2>6. ASSUME NEW v \in Worker \ {w} PROVE Protocol(v)'
    <3>1. Protocol(v) /\ AtMostOne(inbox[v], Go)
          /\ AtMostOne(toMaster[v], Announcement)
      BY DEF StepProtocol, Protocol
    <3>2. toMaster'[v] = toMaster[v] /\ (v \in completed' <=> v \in completed)
      BY <1>1
    <3>3. QED BY <2>4, <3>1, <3>2, ProtocolFrame DEF QuietInbox, local
  <2>7. Protocol(w)'
    <3>1. UNCHANGED <<next, reached, start_driving, future, current_step, status>>
      BY DEF local
    <3>2. (Working(w)' <=> Working(w)) /\ (AtJoinpoint(w)' <=> AtJoinpoint(w))
      BY <3>1 DEF Working, AtJoinpoint, CurrentTaskIndex, IsJoin
    <3>3. Released' = Released /\ Released \in Int
      BY <3>1, <1>0 DEF Released
    <3>4. AtMostOne(inbox'[w], Go) /\ (Has(inbox'[w], Go) => Has(inbox[w], Go))
      BY <1>0, <2>4 DEF QuietInbox, Protocol
    <3>5. ~Has(inbox[w], Go) /\ ~Working(w) /\ reached[w] > 0
      BY <1>0, <1>1, <3>3 DEF Protocol, Released
    <3>6. status # "init"
      BY <1>0, <3>5 DEF Protocol
    <3>. HIDE DEF Working, AtJoinpoint, Released
    <3>7. QED BY <1>0, <1>1, <3>1, <3>2, <3>3, <3>4, <3>5, <3>6 DEF Protocol
  <2>8. QED BY <2>2, <2>3, <2>5, <2>6, <2>7 DEF StepProtocol
<1>4. ASSUME EndStep(w), UNCHANGED <<local, status>>,
             inbox' \in [Worker -> Seq(Message(MasterMessage))],
             \A v \in Worker : AtMostOne(inbox[v], Go) /\ ~Has(inbox[v], Go)
                                  => AtMostOne(inbox'[v], Go),
             QuietInbox \/ current_step' < NumSteps
      PROVE  /\ StepProtocol' /\ Accounting' /\ Fresh'
             /\ WorkerTypeOK' /\ ChannelTypeOK'
             /\ current_step' \in -1..NumSteps
  <2>. USE <1>4 DEF EndStep
  <2>1. Worker = completed \union {w}
    BY EndStepWithAll
  <2>2. \A v \in Worker : reached[v] = Released + 1
    BY EndStepWithAll
  <2>3. current_step' \in -1..NumSteps /\ current_step' = current_step + 1
    BY <2>2, <1>0 DEF Released
  <2>4. Accounting' /\ Fresh'
    <3>1. Cardinality(Worker) # 0
      BY WorkerAssumption, FS_EmptySet
    <3>2. status # "init"
      BY <2>2, <1>0 DEF Protocol, Released
    <3>3. QED BY <3>1, <3>2, <1>2, FS_EmptySet DEF Accounting, Fresh
  <2>5. WorkerTypeOK' /\ ChannelTypeOK'
    BY <1>1 DEF WorkerTypeOK, ChannelTypeOK, local
  <2>6. ASSUME NEW v \in Worker PROVE Protocol(v)'
    <3>1. UNCHANGED <<next, reached, start_driving, future, status>>
      BY DEF local
    <3>2. (Working(v)' <=> Working(v)) /\ (AtJoinpoint(v)' <=> AtJoinpoint(v))
      BY <3>1 DEF Working, AtJoinpoint, CurrentTaskIndex, IsJoin
    <3>3. Released' = Released + 1 /\ Released \in Int
      BY <2>3, <1>0 DEF Released
    <3>4. Protocol(v) /\ reached[v] = Released + 1 /\ reached[v] > 0
      BY <2>2, <1>0 DEF StepProtocol, Released
    <3>5. ~Has(inbox[v], Go) /\ ~Working(v) /\ status # "init"
          /\ AtMostOne(inbox'[v], Go)
      BY <3>3, <3>4 DEF Protocol
    <3>6. ~Has(toMaster'[v], Announcement) /\ AtMostOne(toMaster'[v], Announcement)
      BY <2>1, <1>1, <3>4 DEF Protocol
    <3>7. Has(inbox'[v], Go) => reached'[v] <= NumSteps
      BY <3>1, <3>4, <3>5, <2>3, <1>0 DEF QuietInbox, Released
    <3>. HIDE DEF Working, AtJoinpoint, Released
    <3>8. QED BY <3>1, <3>2, <3>3, <3>4, <3>5, <3>6, <3>7 DEF Protocol
  <2>7. QED BY <2>3, <2>4, <2>5, <2>6 DEF StepProtocol
<1>5. CASE JoinPointReachedByAll(w)
  <2>. USE <1>5 DEF JoinPointReachedByAll
  <2>1. EndStep(w) /\ UNCHANGED <<local, status>>
    OBVIOUS
  <2>2. current_step' = current_step + 1
    BY <2>1 DEF EndStep
  <2>3. /\ inbox' \in [Worker -> Seq(Message(MasterMessage))]
        /\ \A v \in Worker : AtMostOne(inbox[v], Go) /\ ~Has(inbox[v], Go)
                                => AtMostOne(inbox'[v], Go)
        /\ current_step + 1 = NumSteps => QuietInbox
    <3>1. CASE current_step + 1 = NumSteps
      <4>1. UNCHANGED inbox
        BY <3>1 DEF BenchmarkComplete
      <4>2. QED BY <4>1, UnchangedQuiet DEF ChannelTypeOK
    <3>2. CASE current_step + 1 # NumSteps
      <4>1. SendAll(Msg("Drive", 0)) /\ "Drive" \in MasterMessage /\ 0 \in Nat
        BY <3>2 DEF MoveToNextTask, MasterMessage
      <4>2. QED BY <4>1, <3>2, SendAllChannel
    <3>3. QED BY <3>1, <3>2
  <2>4. current_step' \in -1..NumSteps
    <3>1. reached[w] = Released + 1
      BY <1>1, <2>1 DEF EndStep
    <3>2. QED BY <2>2, <3>1, <1>0 DEF Released
  <2>5. QuietInbox \/ current_step' < NumSteps
    BY <2>2, <2>3, <2>4, <1>0
  <2>6. /\ StepProtocol' /\ Accounting' /\ Fresh'
        /\ WorkerTypeOK' /\ ChannelTypeOK'
    BY <1>4, <2>1, <2>3, <2>5
  <2>7. MasterTypeOK'
    <3>1. /\ reports' \in Seq({"TaskFinished", "BenchmarkComplete", "BenchmarkFailure"})
          /\ store' \in {"open", "closed", "none"}
          /\ resets' \in Nat
      <4>1. CASE current_step + 1 = NumSteps
        BY <4>1 DEF BenchmarkComplete, Report, MasterTypeOK
      <4>2. CASE current_step + 1 # NumSteps
        BY <4>2 DEF MoveToNextTask, Report, MasterTypeOK
      <4>3. QED BY <4>1, <4>2
    <3>2. /\ currently_completed' = 0 /\ completed' = {}
          /\ complete_current_task_sent' = FALSE /\ raw_samples' = 0
      BY <2>1 DEF EndStep
    <3>3. UNCHANGED <<status, ticking, self_failures>> /\ stored' \in Nat
      BY DEF MasterTypeOK
    <3>4. QED BY <3>1, <3>2, <3>3, <2>4 DEF MasterTypeOK
  <2>8. QED BY <2>6, <2>7
<1>6. CASE JoinPointReachedFails(w)
  <2>. USE <1>6 DEF JoinPointReachedFails
  <2>1. EndStep(w) /\ UNCHANGED <<local, status>>
    OBVIOUS
  <2>2. "BenchmarkFailure" \in MasterMessage \ Go
    BY DEF MasterMessage, Go
  <2>3. inbox' \in [Worker -> Seq(Message(MasterMessage))] /\ QuietInbox
    BY <2>2, SendToWorker
  <2>4. /\ StepProtocol' /\ Accounting' /\ Fresh'
        /\ WorkerTypeOK' /\ ChannelTypeOK'
        /\ current_step' \in -1..NumSteps
    BY <1>4, <2>1, <2>3 DEF QuietInbox
  <2>5. stored' \in Nat
    BY DEF MasterTypeOK
  <2>6. MasterTypeOK'
    <3>1. /\ currently_completed' = 0 /\ completed' = {}
          /\ complete_current_task_sent' = FALSE /\ raw_samples' = 0
      BY <2>1 DEF EndStep
    <3>2. UNCHANGED <<status, store, ticking, resets, self_failures, reports>>
      OBVIOUS
    <3>3. QED BY <3>1, <3>2, <2>4, <2>5 DEF MasterTypeOK
  <2>7. QED BY <2>4, <2>6
<1>7. CASE UpdateSamples(w)
  <2>. USE <1>7 DEF UpdateSamples
  <2>1. /\ toMaster' \in [Worker -> Seq(Message(WorkerMessage))]
        /\ QuietOutbox
        /\ Head(toMaster[w]) \in Message(WorkerMessage)
    BY MasterTakesChannel
  <2>2. raw_samples' \in Nat
    BY <2>1 DEF MasterTypeOK, Message
  <2>3. MasterTypeOK' /\ WorkerTypeOK' /\ ChannelTypeOK'
    BY <2>1, <2>2 DEF MasterTypeOK, WorkerTypeOK, ChannelTypeOK, local
  <2>4. StepProtocol'
    BY <2>1, UnchangedQuiet, QuietStep DEF local
  <2>5. QED BY <2>3, <2>4 DEF Accounting, Fresh
<1>8. CASE BenchmarkFailure(w)
  <2>. USE <1>8 DEF BenchmarkFailure
  <2>1. toMaster' \in [Worker -> Seq(Message(WorkerMessage))] /\ QuietOutbox
    BY MasterTakesChannel
  <2>2. MasterTypeOK' /\ WorkerTypeOK' /\ ChannelTypeOK'
    BY <2>1 DEF MasterTypeOK, WorkerTypeOK, ChannelTypeOK, local, Close, Report
  <2>3. StepProtocol'
    BY <2>1, UnchangedQuiet, QuietStep DEF local
  <2>4. QED BY <2>2, <2>3 DEF Accounting, Fresh
<1>9. CASE WorkerExitedPrematurely(w)
  <2>. USE <1>9 DEF WorkerExitedPrematurely
  <2>1. toMaster' \in [Worker -> Seq(Message(WorkerMessage))] /\ QuietOutbox
    BY MasterTakesChannel
  <2>2. MasterTypeOK' /\ WorkerTypeOK' /\ ChannelTypeOK'
    BY <2>1 DEF MasterTypeOK, WorkerTypeOK, ChannelTypeOK, local, Report
  <2>3. StepProtocol'
    BY <2>1, UnchangedQuiet, QuietStep DEF local
  <2>4. QED BY <2>2, <2>3 DEF Accounting, Fresh
<1>10. QED BY <1>3, <1>5, <1>6, <1>7, <1>8, <1>9 DEF MasterStep

\* The handlers of a worker.
LEMMA WorkerStepIInv ==
    ASSUME IInv, NEW w \in Worker, WorkerStep(w)
    PROVE  IInv'
<1>. USE DEF IInv, TypeOK
<1>0. /\ Protocol(w)
      /\ AtMostOne(inbox[w], Go)
      /\ wakeups[w] \in Nat
      /\ Cardinality(Worker) \in Nat
  BY WorkerAssumption, FS_CardinalityType DEF StepProtocol, Protocol, WorkerTypeOK
<1>1. ASSUME UNCHANGED master
      PROVE  MasterTypeOK' /\ Accounting' /\ Fresh'
  BY <1>1 DEF master, MasterTypeOK, Accounting, Fresh
\* A handler that calls drive.
<1>2. ASSUME UNCHANGED <<master, alive, accepted>>,
             NEW pending \in Nat, Drive(w, pending),
             Has(inbox[w], Go) \/ Working(w),
             ~Has(inbox'[w], Go),
             inbox' \in [Worker -> Seq(Message(MasterMessage))], QuietInbox,
             start_driving' \in [Worker -> BOOLEAN], ~start_driving'[w],
             \A v \in Worker \ {w} : start_driving'[v] = start_driving[v],
             busy' \in [Worker -> BOOLEAN]
      PROVE  IInv'
  <2>1. /\ next' \in [Worker -> 0..(LastRow + 1)]
        /\ reached' \in [Worker -> 0..(NumSteps + 1)]
        /\ wakeups' \in [Worker -> Nat]
        /\ future' \in [Worker -> {"none", "running", "failing", "done", "failed"}]
        /\ running' \in [Worker -> SUBSET Client]
        /\ complete' \in [Worker -> BOOLEAN]
        /\ cancel' \in [Worker -> BOOLEAN]
        /\ sampler' \in [Worker -> Nat]
        /\ toMaster' \in [Worker -> Seq(Message(WorkerMessage))]
    BY <1>0, <1>2, DriveTypes
  <2>2. WorkerTypeOK' /\ ChannelTypeOK'
    BY <1>2, <2>1 DEF WorkerTypeOK, ChannelTypeOK
  <2>3. UNCHANGED <<status, current_step, completed>>
    BY <1>2 DEF master
  <2>4. Protocol(w)'
    BY <1>0, <1>2, <2>3, DriveProtocol DEF QuietInbox
  <2>5. ASSUME NEW v \in Worker \ {w} PROVE Protocol(v)'
    <3>1. Protocol(v) /\ AtMostOne(inbox[v], Go)
          /\ AtMostOne(toMaster[v], Announcement)
      BY DEF StepProtocol, Protocol
    <3>2. next'[v] = next[v]
      BY <1>2 DEF Drive, WorkerTypeOK
    <3>3. /\ reached'[v] = reached[v] /\ future'[v] = future[v]
          /\ toMaster'[v] = toMaster[v]
      BY <1>2 DEF Drive, ReachJoinPoint, SkipRow, SubmitRow, WorkerTypeOK,
                  ChannelTypeOK
    <3>4. QED BY <1>2, <2>3, <3>1, <3>2, <3>3, ProtocolFrame DEF QuietInbox
  <2>6. QED BY <1>1, <1>2, <2>2, <2>4, <2>5 DEF StepProtocol
\* A handler that leaves the protocol alone.
<1>3. ASSUME UNCHANGED <<master, next, reached>>, QuietInbox, QuietOutbox,
             WorkerTypeOK', ChannelTypeOK',
             \A v \in Worker : /\ start_driving'[v] => start_driving[v]
                               /\ future'[v] # "none" => future[v] # "none"
      PROVE  IInv'
  <2>1. UNCHANGED <<status, current_step, completed>>
    BY <1>3 DEF master
  <2>2. StepProtocol'
    BY <1>3, <2>1, QuietStep
  <2>3. QED BY <1>1, <1>3, <2>2
<1>4. CASE StartWorker(w)
  <2>. USE <1>4 DEF StartWorker
  <2>1. "StartWorker" \in Go
    BY DEF Go
  <2>2. /\ inbox' \in [Worker -> Seq(Message(MasterMessage))] /\ QuietInbox
        /\ Has(inbox[w], Go) /\ ~Has(inbox'[w], Go)
    BY <1>0, <2>1, WorkerTakesChannel
  <2>3. ~start_driving[w]
    BY <1>0, <2>2 DEF Protocol, Working
  <2>4. QED BY <1>0, <1>2, <2>2, <2>3 DEF WorkerTypeOK
<1>5. CASE StartWorkerFails(w)
  <2>. USE <1>5 DEF StartWorkerFails
  <2>1. inbox' \in [Worker -> Seq(Message(MasterMessage))] /\ QuietInbox
    BY WorkerTakesChannel
  <2>2. "BenchmarkFailure" \in WorkerMessage \ Announcement
    BY DEF WorkerMessage, Announcement
  <2>3. toMaster' \in [Worker -> Seq(Message(WorkerMessage))] /\ QuietOutbox
    BY <2>2, SendToMaster
  <2>4. QED BY <1>3, <2>1, <2>3 DEF local, WorkerTypeOK, ChannelTypeOK
<1>6. CASE ReceiveDrive(w)
  <2>. USE <1>6 DEF ReceiveDrive
  <2>1. "Drive" \in Go
    BY DEF Go
  <2>2. /\ inbox' \in [Worker -> Seq(Message(MasterMessage))] /\ QuietInbox
        /\ Has(inbox[w], Go) /\ ~Has(inbox'[w], Go)
    BY <1>0, <2>1, WorkerTakesChannel
  <2>3. WorkerTypeOK' /\ ChannelTypeOK'
    <3>1. wakeups' \in [Worker -> Nat] /\ start_driving' \in [Worker -> BOOLEAN]
      BY <1>0 DEF WorkerTypeOK
    <3>2. QED BY <2>2, <3>1 DEF WorkerTypeOK, ChannelTypeOK
  <2>4. UNCHANGED <<next, reached, future, toMaster, current_step, completed, status>>
    BY DEF master
  <2>5. ASSUME NEW v \in Worker \ {w} PROVE Protocol(v)'
    <3>1. Protocol(v) /\ AtMostOne(inbox[v], Go)
          /\ AtMostOne(toMaster[v], Announcement)
      BY DEF StepProtocol, Protocol
    <3>2. start_driving'[v] = start_driving[v]
      BY DEF WorkerTypeOK
    <3>3. QED BY <2>2, <2>4, <3>1, <3>2, ProtocolFrame DEF QuietInbox
  <2>6. Protocol(w)'
    <3>1. AtJoinpoint(w)' <=> AtJoinpoint(w)
      BY <2>4 DEF AtJoinpoint, CurrentTaskIndex, IsJoin
    <3>2. Released' = Released
      BY <2>4 DEF Released
    <3>3. ~Working(w) /\ reached[w] = Released /\ reached[w] <= NumSteps
          /\ status # "init"
      BY <1>0, <2>2 DEF Protocol
    <3>4. AtJoinpoint(w) /\ future[w] = "none"
      BY <3>3 DEF Working
    <3>5. AtMostOne(inbox'[w], Go)
      BY <1>0, <2>2 DEF QuietInbox
    <3>. HIDE DEF Working, AtJoinpoint, Released
    <3>6. QED BY <1>0, <2>2, <2>4, <3>1, <3>2, <3>3, <3>4, <3>5 DEF Protocol
  <2>7. QED BY <1>1, <2>3, <2>5, <2>6 DEF StepProtocol
<1>7. CASE CompleteCurrentTask(w)
  <2>. USE <1>7 DEF CompleteCurrentTask
  <2>1. inbox' \in [Worker -> Seq(Message(MasterMessage))] /\ QuietInbox
    BY WorkerTakesChannel
  <2>2. complete' \in [Worker -> BOOLEAN]
    BY DEF WorkerTypeOK
  <2>3. QED BY <1>3, <2>1, <2>2, UnchangedQuiet DEF WorkerTypeOK, ChannelTypeOK
<1>8. CASE ForwardFailure(w)
  <2>. USE <1>8 DEF ForwardFailure
  <2>1. inbox' \in [Worker -> Seq(Message(MasterMessage))] /\ QuietInbox
    BY WorkerTakesChannel
  <2>2. "BenchmarkFailure" \in WorkerMessage \ Announcement
    BY DEF WorkerMessage, Announcement
  <2>3. toMaster' \in [Worker -> Seq(Message(WorkerMessage))] /\ QuietOutbox
    BY <2>2, SendToMaster
  <2>4. QED BY <1>3, <2>1, <2>3 DEF local, WorkerTypeOK, ChannelTypeOK
<1>9. CASE WakeupToDrive(w)
  <2>. USE <1>9 DEF WakeupToDrive
  <2>1. Working(w)
    BY DEF Working
  <2>2. ~Has(inbox[w], Go) /\ QuietInbox
        /\ inbox' \in [Worker -> Seq(Message(MasterMessage))]
    BY <1>0, <2>1, UnchangedQuiet DEF Protocol, ChannelTypeOK
  <2>3. wakeups[w] - 1 \in Nat
    BY <1>0 DEF CanWakeUp
  <2>4. start_driving' \in [Worker -> BOOLEAN] /\ ~start_driving'[w]
        /\ \A v \in Worker \ {w} : start_driving'[v] = start_driving[v]
    BY DEF WorkerTypeOK
  <2>5. QED BY <1>2, <2>1, <2>2, <2>3, <2>4 DEF WorkerTypeOK
<1>10. CASE WakeupToDriveFails(w)
  <2>. USE <1>10 DEF WakeupToDriveFails
  <2>1. "BenchmarkFailure" \in MasterMessage \ Go
    BY DEF MasterMessage, Go
  <2>2. inbox' \in [Worker -> Seq(Message(MasterMessage))] /\ QuietInbox
    BY <2>1, SendToWorker
  <2>3. wakeups' \in [Worker -> Nat]
    BY <1>0 DEF CanWakeUp, WorkerTypeOK
  <2>4. start_driving' \in [Worker -> BOOLEAN]
        /\ \A v \in Worker : start_driving'[v] => start_driving[v]
    BY DEF WorkerTypeOK
  <2>5. QED BY <1>3, <2>2, <2>3, <2>4, UnchangedQuiet DEF WorkerTypeOK, ChannelTypeOK
<1>11. CASE WakeupSendsSamples(w)
  <2>. USE <1>11 DEF WakeupSendsSamples
  <2>1. Drained(w) \in Seq(Message(WorkerMessage))
        /\ (Has(Drained(w), Announcement) <=> Has(toMaster[w], Announcement))
        /\ (AtMostOne(toMaster[w], Announcement)
              => AtMostOne(Drained(w), Announcement))
    BY DrainedChannel
  <2>2. toMaster' \in [Worker -> Seq(Message(WorkerMessage))] /\ QuietOutbox
    BY <2>1 DEF ChannelTypeOK, QuietOutbox
  <2>3. wakeups' \in [Worker -> Nat]
    BY <1>0 DEF CanWakeUp, WorkerTypeOK
  <2>4. WorkerTypeOK'
    BY <2>3 DEF WorkerTypeOK
  <2>5. QED BY <1>3, <2>2, <2>4, UnchangedQuiet DEF ChannelTypeOK
<1>12. CASE WakeupFindsDone(w)
  <2>. USE <1>12 DEF WakeupFindsDone
  <2>1. Working(w)
    BY DEF Working
  <2>2. ~Has(inbox[w], Go) /\ QuietInbox
        /\ inbox' \in [Worker -> Seq(Message(MasterMessage))]
    BY <1>0, <2>1, UnchangedQuiet DEF Protocol, ChannelTypeOK
  <2>3. ~start_driving[w]
    BY <1>0 DEF Protocol
  <2>4. QED BY <1>0, <1>2, <2>1, <2>2, <2>3 DEF WorkerTypeOK
<1>13. CASE WakeupFindsFailure(w)
  <2>. USE <1>13 DEF WakeupFindsFailure
  <2>1. "BenchmarkFailure" \in WorkerMessage \ Announcement
    BY DEF WorkerMessage, Announcement
  <2>2. toMaster' \in [Worker -> Seq(Message(WorkerMessage))] /\ QuietOutbox
    BY <2>1, SendToMaster
  <2>3. QED BY <1>3, <2>2, UnchangedQuiet DEF WorkerTypeOK, ChannelTypeOK
<1>14. CASE WakeupFindsRunning(w)
  <2>. USE <1>14 DEF WakeupFindsRunning
  <2>1. WorkerTypeOK' /\ ChannelTypeOK'
    BY <1>0 DEF WorkerTypeOK, ChannelTypeOK
  <2>2. QED BY <1>3, <2>1, UnchangedQuiet
<1>15. CASE WorkerExitRequest(w)
  <2>. USE <1>15 DEF WorkerExitRequest
  <2>1. inbox' \in [Worker -> Seq(Message(MasterMessage))] /\ QuietInbox
    BY WorkerTakesChannel
  <2>2. cancel' \in [Worker -> BOOLEAN] /\ alive' \in [Worker -> {"up", "exiting", "gone"}]
    BY DEF WorkerTypeOK
  <2>3. QED BY <1>3, <2>1, <2>2, UnchangedQuiet DEF WorkerTypeOK, ChannelTypeOK
<1>16. CASE WorkerExits(w)
  <2>. USE <1>16 DEF WorkerExits
  <2>1. "ChildActorExited" \in WorkerMessage \ Announcement
    BY DEF WorkerMessage, Announcement
  <2>2. toMaster' \in [Worker -> Seq(Message(WorkerMessage))] /\ QuietOutbox
    BY <2>1, SendToMaster
  <2>3. QED BY <1>3, <2>2, UnchangedQuiet DEF WorkerTypeOK, ChannelTypeOK
<1>17. CASE WorkerCrashes(w)
  <2>. USE <1>17 DEF WorkerCrashes
  <2>1. "ChildActorExited" \in WorkerMessage \ Announcement
    BY DEF WorkerMessage, Announcement
  <2>2. toMaster' \in [Worker -> Seq(Message(WorkerMessage))] /\ QuietOutbox
    BY <2>1, SendToMaster
  <2>3. WorkerTypeOK'
    BY DEF WorkerTypeOK
  <2>4. \A v \in Worker : future'[v] # "none" => future[v] # "none"
    BY DEF WorkerTypeOK
  <2>5. QED BY <1>3, <2>2, <2>3, <2>4, UnchangedQuiet DEF ChannelTypeOK
<1>18. QED BY <1>4, <1>5, <1>6, <1>7, <1>8, <1>9, <1>10, <1>11, <1>12, <1>13,
              <1>14, <1>15, <1>16, <1>17 DEF WorkerStep

\* The executor thread of a worker.
LEMMA ExecutorStepIInv ==
    ASSUME IInv, NEW w \in Worker, ExecutorStep(w)
    PROVE  IInv'
<1>. USE DEF IInv, TypeOK
<1>1. ASSUME UNCHANGED <<master, next, reached, start_driving, inbox, toMaster>>,
             WorkerTypeOK',
             \A v \in Worker : future'[v] # "none" => future[v] # "none"
      PROVE  IInv'
  <2>1. UNCHANGED <<status, current_step, completed>>
    BY <1>1 DEF master
  <2>2. StepProtocol'
    BY <1>1, <2>1, UnchangedQuiet, QuietStep
  <2>3. MasterTypeOK' /\ Accounting' /\ Fresh'
    BY <1>1 DEF master, MasterTypeOK, Accounting, Fresh
  <2>4. QED BY <1>1, <2>2, <2>3 DEF ChannelTypeOK
<1>2. ASSUME NEW c \in Client, Leave(w, c)
      PROVE  running' \in [Worker -> SUBSET Client]
             /\ complete' \in [Worker -> BOOLEAN]
  BY <1>2 DEF Leave, WorkerTypeOK
<1>3. ASSUME AddSample(w)
      PROVE  sampler' \in [Worker -> Nat] /\ accepted' \in Nat
  BY <1>3 DEF AddSample, WorkerTypeOK
<1>4. ASSUME NEW c \in Client, Request(w, c) PROVE IInv'
  BY <1>1, <1>3, <1>4 DEF Request, WorkerTypeOK
<1>5. ASSUME NEW c \in Client, LastRequest(w, c) PROVE IInv'
  BY <1>1, <1>2, <1>3, <1>5 DEF LastRequest, WorkerTypeOK
<1>6. ASSUME NEW c \in Client, ScheduleEnds(w, c) PROVE IInv'
  BY <1>1, <1>2, <1>6 DEF ScheduleEnds, WorkerTypeOK
<1>7. ASSUME NEW c \in Client, RequestFails(w, c) PROVE IInv'
  <2>1. /\ future' \in [Worker -> {"none", "running", "failing", "done", "failed"}]
        /\ \A v \in Worker : future'[v] # "none" => future[v] # "none"
    BY <1>7 DEF RequestFails, InLoop, WorkerTypeOK
  <2>2. QED BY <1>1, <1>2, <1>7, <2>1 DEF RequestFails, WorkerTypeOK
<1>8. ASSUME ExecutorEnds(w) PROVE IInv'
  <2>1. /\ future' \in [Worker -> {"none", "running", "failing", "done", "failed"}]
        /\ running' \in [Worker -> SUBSET Client]
        /\ \A v \in Worker : future'[v] # "none" => future[v] # "none"
    BY <1>8 DEF ExecutorEnds, WorkerTypeOK
  <2>2. QED BY <1>1, <1>8, <2>1 DEF ExecutorEnds, WorkerTypeOK
<1>9. QED BY <1>4, <1>5, <1>6, <1>7, <1>8 DEF ExecutorStep

\* Every step keeps the inductive invariant.
LEMMA NextIInv == IInv /\ [Next]_vars => IInv'
<1>. SUFFICES ASSUME IInv, [Next]_vars PROVE IInv'
  OBVIOUS
<1>1. CASE Next
  BY <1>1, MasterAloneIInv, MasterStepIInv, WorkerStepIInv, ExecutorStepIInv
  DEF Next
<1>2. CASE UNCHANGED vars
  <2>. USE <1>2 DEF vars, IInv, TypeOK
  <2>1. MasterTypeOK' /\ WorkerTypeOK' /\ ChannelTypeOK'
    BY DEF master, local, MasterTypeOK, WorkerTypeOK, ChannelTypeOK
  <2>2. StepProtocol'
    BY UnchangedQuiet, QuietStep DEF master, local
  <2>3. QED BY <2>1, <2>2 DEF master, Accounting, Fresh
<1>3. QED BY <1>1, <1>2

\* The inductive invariant holds in every reachable state.
LEMMA Invariance == Spec => []IInv
<1>1. QED BY InitIInv, NextIInv, PTL DEF Spec

-----------------------------------------------------------------------------
(* What the code promises.                                                   *)

\* Types, the number of steps and the bounds of the allocation matrix:
\* joinpoint_reached never counts past number_of_steps and drive never indexes
\* past the last row.
THEOREM TypeCorrect == Spec => []TypeOK
<1>1. IInv => TypeOK
  BY DEF IInv
<1>2. QED BY <1>1, Invariance, PTL

\* Every worker takes part in every step exactly once.
THEOREM ProtocolCorrect == Spec => []StepProtocol
<1>1. IInv => StepProtocol
  BY DEF IInv
<1>2. QED BY <1>1, Invariance, PTL

\* currently_completed, which joinpoint_reached compares with the number of
\* workers, counts distinct workers at the join point.
THEOREM AccountingCorrect == Spec => []StepAccounting
<1>1. IInv => StepAccounting
  <2>. SUFFICES ASSUME IInv PROVE StepAccounting
    OBVIOUS
  <2>1. currently_completed = Cardinality(completed)
        /\ currently_completed # Cardinality(Worker)
    <3>1. Cardinality(Worker) \in Nat
      BY WorkerAssumption, FS_CardinalityType
    <3>2. QED BY <3>1 DEF IInv, Accounting, TypeOK, MasterTypeOK
  <2>2. completed # Worker
    BY <2>1
  <2>3. \A w \in Worker : /\ reached[w] \in {Released, Released + 1}
                          /\ w \in completed => reached[w] = Released + 1
    BY DEF IInv, StepProtocol, Protocol
  <2>4. \A w \in completed : w \in Worker
    BY DEF IInv, TypeOK, MasterTypeOK
  <2>5. QED BY <2>1, <2>2, <2>3, <2>4 DEF StepAccounting
<1>2. QED BY <1>1, Invariance, PTL

\* The steps of a benchmark are separated by barriers: the load generator
\* implements StepBarrier, with the join points a worker has announced and the
\* steps the master has ended.
THEOREM BarrierRefinement == Spec => StepsAreBarriers
<1>1. Init => Barrier!BarrierInit
  BY DEF Init, Barrier!BarrierInit, Released
<1>2. IInv /\ [Next]_vars => [Barrier!BarrierNext]_(Barrier!barrierVars)
  <2>. SUFFICES ASSUME IInv, [Next]_vars
                PROVE  Barrier!BarrierNext \/ UNCHANGED <<reached, Released>>
    BY DEF Barrier!barrierVars
  <2>1. ASSUME NEW w \in Worker, EndStep(w), UNCHANGED local
        PROVE  Barrier!Release
    <3>1. \A v \in Worker : reached[v] = Released + 1
      BY <2>1, EndStepWithAll
    <3>2. Released' = Released + 1
      BY <2>1 DEF EndStep, Released, IInv, TypeOK, MasterTypeOK
    <3>3. UNCHANGED reached
      BY <2>1 DEF local
    <3>4. QED BY <3>1, <3>2, <3>3 DEF Barrier!Release
  <2>2. ASSUME NEW w \in Worker, NEW pending, Drive(w, pending),
               Has(inbox[w], Go) \/ Working(w), UNCHANGED master
        PROVE  Barrier!Arrive(w) \/ UNCHANGED <<reached, Released>>
    <3>1. UNCHANGED Released
      BY <2>2 DEF master, Released
    <3>2. reached[w] = Released /\ Released <= NumSteps
      BY <2>2 DEF IInv, StepProtocol, Protocol
    <3>3. \/ UNCHANGED reached
          \/ reached' = [reached EXCEPT ![w] = reached[w] + 1]
      BY <2>2 DEF Drive, ReachJoinPoint, SkipRow, SubmitRow
    <3>4. QED BY <3>1, <3>2, <3>3 DEF Barrier!Arrive
  <2>3. CASE UNCHANGED vars
    BY <2>3 DEF vars, master, local, Released
  <2>4. CASE MasterAlone
    BY <2>4 DEF MasterAlone, StartBenchmark, StartBenchmarkFails,
                BenchmarkFailureFromSelf, PeriodicWakeup, PeriodicWakeupFails,
                ResetRelativeTime, ExitRequest, local, Released
  <2>5. ASSUME NEW w \in Worker, MasterStep(w)
        PROVE  Barrier!BarrierNext \/ UNCHANGED <<reached, Released>>
    <3>1. CASE JoinPointReachedByAll(w) \/ JoinPointReachedFails(w)
      BY <2>1, <3>1 DEF JoinPointReachedByAll, JoinPointReachedFails,
                        Barrier!BarrierNext
    <3>2. CASE \/ JoinPointReachedByOne(w) \/ UpdateSamples(w)
               \/ BenchmarkFailure(w) \/ WorkerExitedPrematurely(w)
      BY <3>2 DEF JoinPointReachedByOne, UpdateSamples, BenchmarkFailure,
                  WorkerExitedPrematurely, local, Released
    <3>3. QED BY <2>5, <3>1, <3>2 DEF MasterStep
  <2>6. ASSUME NEW w \in Worker, WorkerStep(w)
        PROVE  Barrier!BarrierNext \/ UNCHANGED <<reached, Released>>
    <3>1. CASE StartWorker(w)
      <4>1. Has(inbox[w], Go)
        BY <3>1, WorkerTakesChannel
        DEF StartWorker, Go, IInv, TypeOK, StepProtocol, Protocol
      <4>2. QED BY <2>2, <3>1, <4>1 DEF StartWorker, Barrier!BarrierNext
    <3>2. CASE WakeupToDrive(w) \/ WakeupFindsDone(w)
      <4>1. Working(w)
        BY <3>2 DEF WakeupToDrive, WakeupFindsDone, Working
      <4>2. QED BY <2>2, <3>2, <4>1
                DEF WakeupToDrive, WakeupFindsDone, Barrier!BarrierNext
    <3>3. CASE \/ StartWorkerFails(w) \/ ReceiveDrive(w)
               \/ CompleteCurrentTask(w) \/ ForwardFailure(w)
               \/ WakeupToDriveFails(w) \/ WakeupSendsSamples(w)
               \/ WakeupFindsFailure(w) \/ WakeupFindsRunning(w)
               \/ WorkerExitRequest(w) \/ WorkerExits(w) \/ WorkerCrashes(w)
      BY <3>3 DEF StartWorkerFails, ReceiveDrive, CompleteCurrentTask,
                  ForwardFailure, WakeupToDriveFails, WakeupSendsSamples,
                  WakeupFindsFailure, WakeupFindsRunning, WorkerExitRequest,
                  WorkerExits, WorkerCrashes, master, local, Released
    <3>4. QED BY <2>6, <3>1, <3>2, <3>3 DEF WorkerStep
  <2>7. ASSUME NEW w \in Worker, ExecutorStep(w)
        PROVE  UNCHANGED <<reached, Released>>
    BY <2>7 DEF ExecutorStep, Request, LastRequest, ScheduleEnds, RequestFails,
                ExecutorEnds, master, Released
  <2>8. QED BY <2>3, <2>4, <2>5, <2>6, <2>7 DEF Next
<1>3. QED BY <1>1, <1>2, Invariance, PTL DEF Spec, StepsAreBarriers,
                                             Barrier!BarrierSpec

-----------------------------------------------------------------------------
(* Requests to complete a step early.  NoStaleCompletion looks at the first  *)
(* message of a channel only; inductive is what it says of every message     *)
(* that the worker will still be working for when it gets to it.             *)

\* A CompleteCurrentTask in channel s that will be heeded, because the worker
\* already works or is let go by a message ahead of it, was sent in step r.
Heeded(s, working, r) ==
    \A i \in 1..Len(s) :
        /\ s[i].type = "CompleteCurrentTask"
        /\ working \/ \E k \in 1..(i - 1) : s[k].type \in Go
        => s[i].n = r

\* Where the requests to complete a step early stand for worker w.
Completion(w) ==
    /\ AtJoinpoint(w) => ~complete[w]
    /\ Heeded(inbox[w], Working(w), Released)

CInv == IInv /\ \A w \in Worker : Completion(w)

\* A message sent in the current step may join the channel.
LEMMA HeededAppend ==
    ASSUME NEW M, NEW s \in Seq(M), NEW m \in M, NEW working, NEW r,
           Heeded(s, working, r), m.type = "CompleteCurrentTask" => m.n = r
    PROVE  Heeded(Append(s, m), working, r)
<1>1. /\ Len(Append(s, m)) = Len(s) + 1
      /\ Len(s) \in Nat
      /\ \A i \in 1..Len(s) : Append(s, m)[i] = s[i]
      /\ Append(s, m)[Len(s) + 1] = m
  OBVIOUS
<1>2. QED BY <1>1 DEF Heeded

\* What is left once a message was taken; a StartWorker or Drive that was
\* taken counts as the worker being at work.
LEMMA HeededTail ==
    ASSUME NEW M, NEW s \in Seq(M), s # <<>>, NEW working, NEW r,
           Heeded(s, working, r)
    PROVE  /\ Heeded(Tail(s), working, r)
           /\ Head(s).type \in Go => Heeded(Tail(s), TRUE, r)
<1>1. /\ Len(s) \in Nat /\ Len(s) > 0
      /\ Len(Tail(s)) = Len(s) - 1
      /\ Head(s) = s[1]
      /\ \A i \in 1..Len(Tail(s)) : Tail(s)[i] = s[i + 1]
  OBVIOUS
<1>2. QED BY <1>1 DEF Heeded

\* A worker that does not work heeds no more than one that does.
LEMMA HeededWeaker ==
    ASSUME NEW s, NEW working, NEW fewer, NEW r, fewer => working,
           Heeded(s, working, r)
    PROVE  Heeded(s, fewer, r)
BY DEF Heeded

\* With nobody working or let go, no request in the channel will be heeded.
LEMMA HeededByNobody ==
    ASSUME NEW M, NEW s \in Seq(M), ~Has(s, Go), NEW r
    PROVE  Heeded(s, FALSE, r)
<1>1. Len(s) \in Nat
  OBVIOUS
<1>2. QED BY <1>1 DEF Heeded, Has

\* An action that lets nobody go, ends no step and sends worker w at most one
\* message, a CompleteCurrentTask only of the current step.
LEMMA CompletionFrame ==
    ASSUME ChannelTypeOK, NEW w \in Worker, Completion(w),
           next'[w] = next[w], UNCHANGED current_step,
           complete'[w] => complete[w] \/ ~AtJoinpoint(w),
           start_driving'[w] => start_driving[w],
           future'[w] # "none" => future[w] # "none",
           \/ inbox'[w] = inbox[w]
           \/ inbox[w] # <<>> /\ inbox'[w] = Tail(inbox[w])
           \/ \E m \in Message(MasterMessage) :
                 /\ inbox'[w] = Append(inbox[w], m)
                 /\ m.type = "CompleteCurrentTask" => m.n = Released
    PROVE  Completion(w)'
<1>1. AtJoinpoint(w)' <=> AtJoinpoint(w)
  BY DEF AtJoinpoint, CurrentTaskIndex, IsJoin
<1>2. Working(w)' => Working(w)
  BY <1>1 DEF Working
<1>3. Released' = Released
  BY DEF Released
<1>4. inbox[w] \in Seq(Message(MasterMessage))
  BY DEF ChannelTypeOK
<1>5. Heeded(inbox[w], Working(w), Released)
  BY DEF Completion
<1>. HIDE DEF Released, AtJoinpoint, Working
<1>6. Heeded(inbox'[w], Working(w), Released)
  BY <1>4, <1>5, HeededAppend, HeededTail
<1>7. Heeded(inbox'[w], Working(w)', Released')
  BY <1>2, <1>3, <1>6, HeededWeaker
<1>8. QED BY <1>1, <1>7 DEF Completion

\* drive is called by a worker that was let go: the messages left are of the
\* current step, and the flag is cleared at a join point.
LEMMA CompletionDrive ==
    ASSUME IInv, NEW w \in Worker, Completion(w), NEW pending \in Nat,
           Drive(w, pending), UNCHANGED current_step,
           Has(inbox[w], Go) \/ Working(w),
           Heeded(inbox'[w], TRUE, Released)
    PROVE  Completion(w)'
<1>0. /\ NumSteps \in Nat /\ LastRow \in Nat
      /\ Protocol(w) /\ TypeOK /\ WorkerTypeOK
  BY JoinIndexAssumption DEF LastRow, IInv, StepProtocol, TypeOK
<1>1. /\ reached[w] \in 0..NumSteps
      /\ next[w] \in Nat /\ next[w] <= JoinIndex[reached[w]]
      /\ reached[w] > 0 => next[w] > JoinIndex[reached[w] - 1]
  BY <1>0 DEF Protocol, WorkerTypeOK
<1>2. NextRow(w) \in 0..LastRow
  BY <1>1, NextRowBounds DEF Rows
<1>3. next'[w] = NextRow(w) + 1
  BY <1>0 DEF Drive, WorkerTypeOK
<1>4. AtJoinpoint(w)' <=> IsJoin(NextRow(w))
  <2>1. CurrentTaskIndex(w)' = NextRow(w)
    BY <1>2, <1>3 DEF CurrentTaskIndex
  <2>2. QED BY <2>1 DEF AtJoinpoint, IsJoin
<1>5. IsJoin(NextRow(w)) => ~complete'[w]
  BY <1>0 DEF Drive, ReachJoinPoint, WorkerTypeOK
<1>6. Heeded(inbox'[w], Working(w)', Released')
  <2>1. Released' = Released
    BY DEF Released
  <2>. HIDE DEF Working, Released
  <2>2. QED BY <2>1, HeededWeaker
<1>7. QED BY <1>4, <1>5, <1>6 DEF Completion

\* What drive leaves alone: the other workers.
LEMMA DriveFrame ==
    ASSUME TypeOK, NEW w \in Worker, NEW pending, Drive(w, pending)
    PROVE  \A v \in Worker \ {w} :
              /\ next'[v] = next[v] /\ reached'[v] = reached[v]
              /\ future'[v] = future[v] /\ complete'[v] = complete[v]
BY DEF Drive, ReachJoinPoint, SkipRow, SubmitRow, TypeOK, WorkerTypeOK

\* Every step keeps the completion requests to their steps.
LEMMA NextCompletion ==
    ASSUME CInv, [Next]_vars, NEW v \in Worker
    PROVE  Completion(v)'
<1>0. /\ IInv /\ TypeOK /\ WorkerTypeOK /\ ChannelTypeOK /\ StepProtocol
      /\ Protocol(v) /\ Completion(v)
      /\ inbox \in [Worker -> Seq(Message(MasterMessage))]
      /\ inbox[v] \in Seq(Message(MasterMessage))
      /\ current_step \in Int /\ current_step + 1 \in Nat
  BY DEF CInv, IInv, TypeOK, ChannelTypeOK, StepProtocol, MasterTypeOK
<1>. DEFINE Sent ==
        \/ inbox'[v] = inbox[v]
        \/ inbox[v] # <<>> /\ inbox'[v] = Tail(inbox[v])
        \/ \E m \in Message(MasterMessage) :
              /\ inbox'[v] = Append(inbox[v], m)
              /\ m.type = "CompleteCurrentTask" => m.n = Released
<1>1. ASSUME next'[v] = next[v], UNCHANGED current_step, Sent,
             complete'[v] => complete[v] \/ ~AtJoinpoint(v),
             start_driving'[v] => start_driving[v],
             future'[v] # "none" => future[v] # "none"
      PROVE  Completion(v)'
  BY <1>0, <1>1, CompletionFrame
<1>2. ASSUME NEW t \in MasterMessage, NEW n \in Nat, SendAll(Msg(t, n)),
             t = "CompleteCurrentTask" => n = Released
      PROVE  Sent
  <2>1. inbox'[v] = Append(inbox[v], Msg(t, n))
    BY <1>2 DEF SendAll
  <2>2. Msg(t, n) \in Message(MasterMessage)
        /\ (Msg(t, n).type = "CompleteCurrentTask" => Msg(t, n).n = Released)
    BY <1>2 DEF Msg, Message
  <2>3. QED BY <2>1, <2>2
<1>3. ASSUME NEW w \in Worker, NEW t, WorkerTakes(w, t) PROVE Sent
  BY <1>0, <1>3 DEF WorkerTakes
<1>4. ASSUME NEW w \in Worker,
             inbox' = [inbox EXCEPT ![w] = Append(@, Msg("BenchmarkFailure", 0))]
      PROVE  Sent
  <2>1. Msg("BenchmarkFailure", 0) \in Message(MasterMessage)
        /\ Msg("BenchmarkFailure", 0).type # "CompleteCurrentTask"
    BY DEF Msg, Message, MasterMessage
  <2>2. inbox'[v] = inbox[v] \/ inbox'[v] = Append(inbox[v], Msg("BenchmarkFailure", 0))
    BY <1>0, <1>4
  <2>3. QED BY <2>1, <2>2
<1>5. UNCHANGED inbox => Sent
  OBVIOUS
<1>. HIDE DEF Sent
\* A step of another worker, or one of v that does not move it.
<1>6. CASE UNCHANGED vars
  BY <1>1, <1>5, <1>6 DEF vars, master, local
<1>7. CASE MasterAlone
  <2>0. /\ {"StartWorker", "ActorExitRequest"} \subseteq MasterMessage /\ 0 \in Nat
        /\ "StartWorker" # "CompleteCurrentTask"
        /\ "ActorExitRequest" # "CompleteCurrentTask"
    BY DEF MasterMessage
  <2>1. UNCHANGED <<local, current_step>> /\ Sent
    BY <1>2, <1>5, <1>7, <2>0
       DEF MasterAlone, StartBenchmark, StartBenchmarkFails,
           BenchmarkFailureFromSelf, PeriodicWakeup, PeriodicWakeupFails,
           ResetRelativeTime, ExitRequest
  <2>2. QED BY <1>1, <2>1 DEF local
<1>8. ASSUME NEW w \in Worker, MasterStep(w) PROVE Completion(v)'
  <2>1. CASE JoinPointReachedByOne(w)
    <3>1. "CompleteCurrentTask" \in MasterMessage /\ current_step + 1 = Released
      BY DEF MasterMessage, Released
    <3>2. \/ SendAll(Msg("CompleteCurrentTask", current_step + 1))
          \/ UNCHANGED inbox
      BY <2>1 DEF JoinPointReachedByOne
    <3>3. Sent
      BY <1>0, <1>2, <1>5, <3>1, <3>2
    <3>4. QED BY <1>1, <2>1, <3>3 DEF JoinPointReachedByOne, local
  <2>2. CASE UpdateSamples(w) \/ BenchmarkFailure(w) \/ WorkerExitedPrematurely(w)
    BY <1>1, <1>5, <2>2
       DEF UpdateSamples, BenchmarkFailure, WorkerExitedPrematurely, local
  \* The step ends: nobody works and nobody has been let go yet.
  <2>3. ASSUME EndStep(w), UNCHANGED local,
               \/ UNCHANGED inbox
               \/ \E m \in Message(MasterMessage) :
                     /\ m.type # "CompleteCurrentTask"
                     /\ inbox'[v] = inbox[v] \/ inbox'[v] = Append(inbox[v], m)
        PROVE  Completion(v)'
    <3>1. ~Has(inbox[v], Go) /\ ~Working(v)
      <4>1. reached[v] = Released + 1 /\ Released \in Int
        BY <1>0, <2>3, EndStepWithAll DEF Released
      <4>2. QED BY <1>0, <4>1 DEF Protocol
    <3>2. (AtJoinpoint(v)' <=> AtJoinpoint(v)) /\ (Working(v)' <=> Working(v))
      BY <2>3 DEF local, Working, AtJoinpoint, CurrentTaskIndex, IsJoin
    <3>3. Heeded(inbox[v], FALSE, Released')
      BY <1>0, <3>1, HeededByNobody
    <3>4. Heeded(inbox'[v], FALSE, Released')
      <4>. HIDE DEF Released
      <4>1. QED BY <1>0, <2>3, <3>3, HeededAppend
    <3>5. complete'[v] = complete[v]
      BY <2>3 DEF local
    <3>. HIDE DEF Released, Working, AtJoinpoint
    <3>6. Heeded(inbox'[v], Working(v)', Released')
      BY <3>1, <3>2, <3>4, HeededWeaker
    <3>7. QED BY <1>0, <3>2, <3>5, <3>6 DEF Completion
  <2>4. CASE JoinPointReachedByAll(w)
    <3>1. Msg("Drive", 0) \in Message(MasterMessage)
          /\ Msg("Drive", 0).type # "CompleteCurrentTask"
      BY DEF Msg, Message, MasterMessage
    <3>2. UNCHANGED inbox \/ inbox'[v] = Append(inbox[v], Msg("Drive", 0))
      BY <2>4 DEF JoinPointReachedByAll, BenchmarkComplete, MoveToNextTask, SendAll
    <3>3. QED BY <2>3, <2>4, <3>1, <3>2 DEF JoinPointReachedByAll
  <2>5. CASE JoinPointReachedFails(w)
    <3>1. Msg("BenchmarkFailure", 0) \in Message(MasterMessage)
          /\ Msg("BenchmarkFailure", 0).type # "CompleteCurrentTask"
      BY DEF Msg, Message, MasterMessage
    <3>2. \/ inbox'[v] = inbox[v]
          \/ inbox'[v] = Append(inbox[v], Msg("BenchmarkFailure", 0))
      BY <1>0, <2>5 DEF JoinPointReachedFails
    <3>3. QED BY <2>3, <2>5, <3>1, <3>2 DEF JoinPointReachedFails
  <2>6. QED BY <1>8, <2>1, <2>2, <2>4, <2>5 DEF MasterStep
<1>9. ASSUME NEW w \in Worker, WorkerStep(w) PROVE Completion(v)'
  \* A handler that calls drive.
  <2>1. ASSUME NEW pending \in Nat, Drive(w, pending), UNCHANGED master, Sent,
               Has(inbox[w], Go) \/ Working(w),
               v # w => start_driving'[v] = start_driving[v],
               v = w => Heeded(inbox'[w], TRUE, Released)
        PROVE  Completion(v)'
    <3>1. UNCHANGED current_step
      BY <2>1 DEF master
    <3>2. CASE v = w
      BY <1>0, <2>1, <3>1, <3>2, CompletionDrive
    <3>3. CASE v # w
      <4>1. /\ next'[v] = next[v] /\ future'[v] = future[v]
            /\ complete'[v] = complete[v]
        BY <1>0, <2>1, <3>3, DriveFrame
      <4>2. QED BY <1>1, <2>1, <3>1, <3>3, <4>1
    <3>4. QED BY <3>2, <3>3
  <2>2. wakeups[w] \in Nat
    BY <1>0 DEF WorkerTypeOK
  <2>3. ASSUME v = w, Working(w) PROVE Heeded(inbox[w], TRUE, Released)
    BY <1>0, <2>3, HeededWeaker DEF Completion
  <2>4. CASE StartWorker(w)
    <3>1. Has(inbox[w], Go) /\ Head(inbox[w]).type \in Go
          /\ inbox[w] # <<>> /\ inbox'[w] = Tail(inbox[w])
      <4>1. inbox[w] # <<>> /\ inbox'[w] = Tail(inbox[w])
            /\ Head(inbox[w]).type \in Go
            /\ inbox[w] \in Seq(Message(MasterMessage))
        BY <1>0, <2>4 DEF StartWorker, WorkerTakes, Go
      <4>2. QED BY <4>1, TailHas
    <3>2. v = w => Heeded(inbox'[w], TRUE, Released)
      BY <1>0, <3>1, HeededTail DEF Completion
    <3>3. Sent
      BY <1>3, <2>4 DEF StartWorker
    <3>4. QED BY <2>1, <2>2, <2>4, <3>1, <3>2, <3>3 DEF StartWorker
  <2>5. CASE WakeupToDrive(w)
    <3>1. Working(w)
      BY <2>5 DEF WakeupToDrive, Working
    <3>2. wakeups[w] - 1 \in Nat
      BY <2>2, <2>5 DEF WakeupToDrive, CanWakeUp
    <3>3. v # w => start_driving'[v] = start_driving[v]
      BY <1>0, <2>5 DEF WakeupToDrive, WorkerTypeOK
    <3>4. QED BY <1>5, <2>1, <2>3, <2>5, <3>1, <3>2, <3>3 DEF WakeupToDrive
  <2>6. CASE WakeupFindsDone(w)
    <3>1. Working(w)
      BY <2>6 DEF WakeupFindsDone, Working
    <3>2. QED BY <1>5, <2>1, <2>2, <2>3, <2>6, <3>1 DEF WakeupFindsDone
  <2>7. CASE ReceiveDrive(w)
    <3>1. UNCHANGED <<next, complete, future, current_step>> /\ Sent
      BY <1>3, <2>7 DEF ReceiveDrive, master
    <3>2. CASE v # w
      BY <1>0, <1>1, <2>7, <3>1, <3>2 DEF ReceiveDrive, WorkerTypeOK
    <3>3. CASE v = w
      <4>1. /\ Head(inbox[v]).type \in Go /\ inbox[v] # <<>>
            /\ inbox'[v] = Tail(inbox[v])
        BY <1>0, <2>7, <3>3 DEF ReceiveDrive, WorkerTakes, Go
      <4>2. Heeded(inbox'[v], TRUE, Released)
        BY <1>0, <4>1, HeededTail DEF Completion
      <4>3. AtJoinpoint(v)' <=> AtJoinpoint(v)
        BY <3>1 DEF AtJoinpoint, CurrentTaskIndex, IsJoin
      <4>4. Released' = Released
        BY <3>1 DEF Released
      <4>. HIDE DEF Released, Working, AtJoinpoint
      <4>5. Heeded(inbox'[v], Working(v)', Released')
        BY <4>2, <4>4, HeededWeaker
      <4>6. QED BY <1>0, <3>1, <4>3, <4>5 DEF Completion
    <3>4. QED BY <3>2, <3>3
  <2>8. CASE \/ StartWorkerFails(w) \/ ForwardFailure(w) \/ WorkerExitRequest(w)
    BY <1>1, <1>3, <2>8
       DEF StartWorkerFails, ForwardFailure, WorkerExitRequest, local, master
  <2>9. CASE CompleteCurrentTask(w)
    <3>1. complete'[v] => complete[v] \/ ~AtJoinpoint(v)
      BY <1>0, <2>9 DEF CompleteCurrentTask, WorkerTypeOK
    <3>2. QED BY <1>1, <1>3, <2>9, <3>1 DEF CompleteCurrentTask, master
  <2>10. CASE WakeupToDriveFails(w)
    <3>1. start_driving'[v] => start_driving[v]
      BY <1>0, <2>10 DEF WakeupToDriveFails, WorkerTypeOK
    <3>2. QED BY <1>1, <1>4, <2>10, <3>1 DEF WakeupToDriveFails, master
  <2>11. CASE \/ WakeupSendsSamples(w) \/ WakeupFindsFailure(w)
              \/ WakeupFindsRunning(w) \/ WorkerExits(w)
    BY <1>1, <1>5, <2>11
       DEF WakeupSendsSamples, WakeupFindsFailure, WakeupFindsRunning,
           WorkerExits, master
  <2>12. CASE WorkerCrashes(w)
    <3>1. future'[v] # "none" => future[v] # "none"
      BY <1>0, <2>12 DEF WorkerCrashes, WorkerTypeOK
    <3>2. QED BY <1>1, <1>5, <2>12, <3>1 DEF WorkerCrashes, master
  <2>13. QED BY <1>9, <2>4, <2>5, <2>6, <2>7, <2>8, <2>9, <2>10, <2>11, <2>12
             DEF WorkerStep
<1>10. ASSUME NEW w \in Worker, ExecutorStep(w) PROVE Completion(v)'
  <2>1. UNCHANGED <<next, start_driving, inbox, current_step>>
    BY <1>10 DEF ExecutorStep, Request, LastRequest, ScheduleEnds,
                 RequestFails, ExecutorEnds, master
  \* Coroutines run between join points only.
  <2>2. ASSUME NEW c \in Client, InLoop(w, c), Leave(w, c)
        PROVE  complete'[v] => complete[v] \/ ~AtJoinpoint(v)
    <3>1. v = w => ~AtJoinpoint(v)
      BY <1>0, <2>2 DEF InLoop, Protocol
    <3>2. v # w => complete'[v] = complete[v]
      BY <1>0, <2>2 DEF Leave, WorkerTypeOK
    <3>3. QED BY <3>1, <3>2
  <2>3. complete'[v] => complete[v] \/ ~AtJoinpoint(v)
    BY <1>10, <2>2 DEF ExecutorStep, Request, LastRequest, ScheduleEnds,
                       RequestFails, ExecutorEnds
  <2>4. future'[v] # "none" => future[v] # "none"
    BY <1>0, <1>10 DEF ExecutorStep, Request, LastRequest, ScheduleEnds,
                       RequestFails, ExecutorEnds, InLoop, WorkerTypeOK
  <2>5. QED BY <1>1, <1>5, <2>1, <2>3, <2>4
<1>11. QED BY <1>6, <1>7, <1>8, <1>9, <1>10 DEF Next

\* A request to complete a step early ends that step only.
THEOREM CompletionCorrect == Spec => []NoStaleCompletion
<1>1. Init => CInv
  <2>1. ASSUME Init, NEW w \in Worker PROVE Completion(w)
    BY <2>1 DEF Init, Completion, Heeded
  <2>2. QED BY <2>1, InitIInv DEF CInv
<1>2. CInv /\ [Next]_vars => CInv'
  BY NextIInv, NextCompletion DEF CInv
<1>3. CInv => NoStaleCompletion
  <2>. SUFFICES ASSUME CInv, NEW w \in Worker, inbox[w] # <<>>,
                       Head(inbox[w]).type = "CompleteCurrentTask",
                       ~AtJoinpoint(w)
                PROVE  Head(inbox[w]).n = reached[w]
    BY DEF NoStaleCompletion, CInv, Completion
  <2>1. Working(w) /\ inbox[w] \in Seq(Message(MasterMessage))
    BY DEF Working, CInv, IInv, TypeOK, ChannelTypeOK
  <2>2. reached[w] = Released
    BY <2>1 DEF CInv, IInv, StepProtocol, Protocol
  <2>3. Head(inbox[w]) = inbox[w][1] /\ 1 \in 1..Len(inbox[w])
    BY <2>1
  <2>4. QED BY <2>1, <2>2, <2>3 DEF CInv, Completion, Heeded
<1>4. QED BY <1>1, <1>2, <1>3, PTL DEF Spec

-----------------------------------------------------------------------------
(* Failed tasks.  A worker whose executor raised, or that is gone before it  *)
(* reached the join point, holds the step up for good; all steps have ended  *)
(* when results are reported.                                                *)

Failed(w) == future[w] \in {"failing", "failed"}

Stuck(w) ==
    /\ reached[w] = Released
    /\ reached[w] <= NumSteps
    /\ Failed(w) \/ alive[w] = "gone"

FInv ==
    /\ IInv
    /\ \A w \in Worker : busy[w] => alive[w] = "up"
    /\ Completed => current_step = NumSteps

\* The initial state, and every step, keeps a busy worker up and reports
\* results after the last step only.
LEMMA FInvInvariant == Spec => []FInv
<1>1. Init => FInv
  BY InitIInv DEF FInv, Init, Completed
<1>2. FInv /\ [Next]_vars => FInv'
  <2>. SUFFICES ASSUME FInv, [Next]_vars PROVE FInv'
    OBVIOUS
  <2>1. IInv /\ IInv' /\ TypeOK /\ TypeOK' /\ WorkerTypeOK
        /\ reports \in Seq({"TaskFinished", "BenchmarkComplete", "BenchmarkFailure"})
        /\ current_step \in -1..NumSteps /\ current_step' \in -1..NumSteps
        /\ NumSteps \in Nat
    BY NextIInv, JoinIndexAssumption DEF FInv, IInv, TypeOK, MasterTypeOK
  <2>2. ASSUME NEW w \in Worker, busy'[w] PROVE alive'[w] = "up"
    <3>1. busy[w] => alive[w] = "up"
      BY DEF FInv
    <3>2. CASE UNCHANGED <<alive, busy>>
      BY <2>2, <3>1, <3>2
    <3>3. ASSUME NEW v \in Worker, WorkerStep(v), ~UNCHANGED <<alive, busy>>
          PROVE  alive'[w] = "up"
      <4>1. CASE WakeupSendsSamples(v)
        BY <2>1, <2>2, <3>1, <4>1 DEF WakeupSendsSamples, CanWakeUp, WorkerTypeOK
      <4>2. CASE WakeupFindsDone(v) \/ WakeupFindsFailure(v) \/ WakeupFindsRunning(v)
        BY <2>1, <2>2, <3>1, <4>2
           DEF WakeupFindsDone, WakeupFindsFailure, WakeupFindsRunning, WorkerTypeOK
      <4>3. CASE WorkerExitRequest(v)
        BY <2>1, <2>2, <3>1, <4>3 DEF WorkerExitRequest, WorkerTakes, WorkerTypeOK
      <4>4. CASE WorkerExits(v)
        BY <2>1, <2>2, <3>1, <4>4 DEF WorkerExits, WorkerTypeOK
      <4>5. CASE WorkerCrashes(v)
        BY <2>1, <2>2, <3>1, <4>5 DEF WorkerCrashes, WorkerTypeOK
      <4>6. QED BY <3>3, <4>1, <4>2, <4>3, <4>4, <4>5
               DEF WorkerStep, StartWorker, StartWorkerFails, ReceiveDrive,
                   CompleteCurrentTask, ForwardFailure, WakeupToDrive,
                   WakeupToDriveFails, local
    <3>4. ASSUME NEW v \in Worker, MasterStep(v) \/ ExecutorStep(v)
          PROVE  UNCHANGED <<alive, busy>>
      BY <3>4 DEF MasterStep, JoinPointReachedByOne, JoinPointReachedByAll,
                  JoinPointReachedFails, UpdateSamples, BenchmarkFailure,
                  WorkerExitedPrematurely, ExecutorStep, Request, LastRequest,
                  ScheduleEnds, RequestFails, ExecutorEnds, local
    <3>5. MasterAlone => UNCHANGED <<alive, busy>>
      BY DEF MasterAlone, StartBenchmark, StartBenchmarkFails,
             BenchmarkFailureFromSelf, PeriodicWakeup, PeriodicWakeupFails,
             ResetRelativeTime, ExitRequest, local
    <3>6. QED BY <3>2, <3>3, <3>4, <3>5 DEF Next, vars, local
  <2>3. Completed' => current_step' = NumSteps
    <3>1. ASSUME UNCHANGED current_step,
                 \/ UNCHANGED reports \/ Report("BenchmarkFailure")
          PROVE  Completed' => current_step' = NumSteps
      <4>1. Completed' => Completed
        BY <2>1, <3>1 DEF Completed, Report
      <4>2. QED BY <3>1, <4>1 DEF FInv
    <3>2. ASSUME NEW w \in Worker,
                 JoinPointReachedByAll(w) \/ JoinPointReachedFails(w)
          PROVE  Completed' => current_step' = NumSteps
      <4>1. current_step' = current_step + 1
        BY <3>2 DEF JoinPointReachedByAll, JoinPointReachedFails, EndStep
      <4>2. ~Completed
        BY <2>1, <4>1 DEF FInv
      <4>3. CASE current_step + 1 = NumSteps
        BY <4>1, <4>3
      <4>4. CASE current_step + 1 # NumSteps
        <5>1. UNCHANGED reports \/ reports' = Append(reports, "TaskFinished")
          BY <3>2, <4>4 DEF JoinPointReachedByAll, JoinPointReachedFails,
                            MoveToNextTask, Report
        <5>2. QED BY <2>1, <4>2, <5>1 DEF Completed
      <4>5. QED BY <4>3, <4>4
    <3>3. ASSUME NEW w \in Worker,
                 \/ JoinPointReachedByOne(w) \/ UpdateSamples(w)
                 \/ BenchmarkFailure(w) \/ WorkerExitedPrematurely(w)
          PROVE  Completed' => current_step' = NumSteps
      BY <3>1, <3>3 DEF JoinPointReachedByOne, UpdateSamples,
                        BenchmarkFailure, WorkerExitedPrematurely
    <3>4. ASSUME MasterAlone PROVE Completed' => current_step' = NumSteps
      BY <3>1, <3>4
         DEF MasterAlone, StartBenchmark, StartBenchmarkFails,
             BenchmarkFailureFromSelf, PeriodicWakeup, PeriodicWakeupFails,
             ResetRelativeTime, ExitRequest
    <3>5. ASSUME UNCHANGED master PROVE Completed' => current_step' = NumSteps
      BY <3>1, <3>5 DEF master
    <3>6. ASSUME NEW w \in Worker, WorkerStep(w) \/ ExecutorStep(w)
          PROVE  UNCHANGED master
      BY <3>6 DEF WorkerStep, StartWorker, StartWorkerFails, ReceiveDrive,
                  CompleteCurrentTask, ForwardFailure, WakeupToDrive,
                  WakeupToDriveFails, WakeupSendsSamples, WakeupFindsDone,
                  WakeupFindsFailure, WakeupFindsRunning, WorkerExitRequest,
                  WorkerExits, WorkerCrashes, ExecutorStep, Request,
                  LastRequest, ScheduleEnds, RequestFails, ExecutorEnds
    <3>7. UNCHANGED vars => UNCHANGED master
      BY DEF vars
    <3>8. QED BY <3>2, <3>3, <3>4, <3>5, <3>6, <3>7 DEF Next, MasterStep
  <2>4. QED BY <2>1, <2>2, <2>3 DEF FInv
<1>3. QED BY <1>1, <1>2, PTL DEF Spec

\* A worker that holds the step up goes on doing so.
LEMMA StuckForGood ==
    ASSUME FInv, [Next]_vars, NEW w \in Worker, Stuck(w)
    PROVE  Stuck(w)'
<1>0. /\ IInv /\ WorkerTypeOK /\ Protocol(w) /\ AtMostOne(inbox[w], Go)
      /\ ChannelTypeOK
      /\ busy[w] => alive[w] = "up"
      /\ reached[w] = Released /\ Released \in Int
  BY SMTT(30) DEF FInv, IInv, TypeOK, StepProtocol, Protocol, Stuck, MasterTypeOK, Released
<1>1. ASSUME reached'[w] = reached[w], UNCHANGED current_step,
             Failed(w)' \/ alive'[w] = "gone"
      PROVE  Stuck(w)'
  BY <1>0, <1>1 DEF Stuck, Released
<1>2. CASE UNCHANGED vars \/ MasterAlone
  BY <1>1, <1>2 DEF vars, master, local, Stuck, Failed,
         MasterAlone, StartBenchmark, StartBenchmarkFails,
         BenchmarkFailureFromSelf, PeriodicWakeup, PeriodicWakeupFails,
         ResetRelativeTime, ExitRequest
<1>3. ASSUME NEW v \in Worker, MasterStep(v) PROVE Stuck(w)'
  <2>1. ~EndStep(v)
    BY <1>0, EndStepWithAll
  <2>2. UNCHANGED <<local, current_step>>
    BY <1>3, <2>1
       DEF MasterStep, JoinPointReachedByOne, JoinPointReachedByAll,
           JoinPointReachedFails, UpdateSamples, BenchmarkFailure,
           WorkerExitedPrematurely
  <2>3. QED BY <1>1, <2>2 DEF local, Stuck, Failed
<1>4. ASSUME NEW v \in Worker, WorkerStep(v) PROVE Stuck(w)'
  <2>1. UNCHANGED current_step
    BY <1>4 DEF WorkerStep, StartWorker, StartWorkerFails, ReceiveDrive,
                CompleteCurrentTask, ForwardFailure, WakeupToDrive,
                WakeupToDriveFails, WakeupSendsSamples, WakeupFindsDone,
                WakeupFindsFailure, WakeupFindsRunning, WorkerExitRequest,
                WorkerExits, WorkerCrashes, master
  \* No handler of the worker calls drive any more.
  <2>2. ASSUME v = w PROVE ~StartWorker(v) /\ ~WakeupToDrive(v) /\ ~WakeupFindsDone(v)
    <3>1. StartWorker(w) => Has(inbox[w], Go) /\ alive[w] = "up"
      BY <1>0, WorkerTakesChannel DEF StartWorker, WorkerTakes, Go
    <3>2. Failed(w) => Working(w) /\ ~start_driving[w]
      BY <1>0 DEF Failed, Working, Protocol
    <3>3. QED BY <1>0, <2>2, <3>1, <3>2
              DEF Stuck, Failed, Protocol, WakeupToDrive, CanWakeUp, WakeupFindsDone
  <2>3. CASE StartWorker(v) \/ WakeupToDrive(v) \/ WakeupFindsDone(v)
    <3>1. v # w /\ UNCHANGED alive /\ \E pending : Drive(v, pending)
      BY <2>2, <2>3 DEF StartWorker, WakeupToDrive, WakeupFindsDone
    <3>2. reached'[w] = reached[w] /\ future'[w] = future[w]
      BY <1>0, <3>1, DriveFrame DEF IInv
    <3>3. QED BY <1>1, <2>1, <3>1, <3>2 DEF Stuck, Failed
  <2>4. CASE WorkerCrashes(v)
    BY <1>0, <1>1, <2>1, <2>4 DEF WorkerCrashes, WorkerTypeOK, Stuck, Failed
  <2>5. CASE WorkerExits(v)
    BY <1>0, <1>1, <2>1, <2>5 DEF WorkerExits, WorkerTypeOK, Stuck, Failed
  <2>6. CASE WorkerExitRequest(v)
    BY <1>0, <1>1, <2>1, <2>6
       DEF WorkerExitRequest, WorkerTakes, WorkerTypeOK, Stuck, Failed
  <2>7. CASE \/ StartWorkerFails(v) \/ ReceiveDrive(v) \/ CompleteCurrentTask(v)
             \/ ForwardFailure(v) \/ WakeupToDriveFails(v)
             \/ WakeupSendsSamples(v) \/ WakeupFindsFailure(v)
             \/ WakeupFindsRunning(v)
    <3>1. UNCHANGED <<reached, future, alive>>
      BY <2>7 DEF StartWorkerFails, ReceiveDrive, CompleteCurrentTask,
                  ForwardFailure, WakeupToDriveFails, WakeupSendsSamples,
                  WakeupFindsFailure, WakeupFindsRunning, local
    <3>2. QED BY <1>1, <2>1, <3>1 DEF Stuck, Failed
  <2>8. QED BY <1>4, <2>3, <2>4, <2>5, <2>6, <2>7 DEF WorkerStep
<1>5. ASSUME NEW v \in Worker, ExecutorStep(v) PROVE Stuck(w)'
  <2>1. UNCHANGED <<current_step, reached, alive>>
    BY <1>5 DEF ExecutorStep, Request, LastRequest, ScheduleEnds,
                RequestFails, ExecutorEnds, master
  <2>2. Failed(w) => Failed(w)'
    BY <1>0, <1>5 DEF ExecutorStep, Request, LastRequest, ScheduleEnds,
                RequestFails, ExecutorEnds, WorkerTypeOK, Failed
  <2>3. QED BY <1>1, <2>1, <2>2 DEF Stuck
<1>6. QED BY <1>2, <1>3, <1>4, <1>5 DEF Next

\* Once an executor has raised no results are reported: its worker never
\* reaches the join point, so the master never ends the last step.
THEOREM FailuresHoldResults == Spec => NoResultsOfFailedTasks
<1>. DEFINE F == \E w \in Worker : future[w] \in {"failing", "failed"}
            S == \E w \in Worker : Stuck(w)
<1>1. FInv /\ F => S
  BY DEF FInv, IInv, StepProtocol, Protocol, Working, Stuck, Failed
<1>2. FInv /\ S /\ [Next]_vars => S'
  BY StuckForGood
<1>3. FInv /\ S => ~Completed
  BY JoinIndexAssumption DEF FInv, Stuck, Released
<1>. HIDE DEF F, S
<1>4. Spec => [](F => []~Completed)
  BY <1>1, <1>2, <1>3, FInvInvariant, PTL DEF Spec
<1>5. QED BY <1>4 DEF F, NoResultsOfFailedTasks
=============================================================================
