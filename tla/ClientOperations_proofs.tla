----------------------- MODULE ClientOperations_proofs -----------------------
(***************************************************************************)
(* Proofs about ClientOperations, for any number of streams, connections,  *)
(* clients, vectors, pages and requests: the streams of a composite        *)
(* operation wait for each other and give their connections back, answers  *)
(* are compared with their own neighbours, every page is retrieved, every  *)
(* call can be timed, and success means that the cluster did what it was   *)
(* asked. A section shows that the runners of runner.py have the shape     *)
(* which OperationsAssumption asks of the operations. The last one is      *)
(* about bulks of vectors: each vector gets into its document, once.       *)
(***************************************************************************)
EXTENDS ClientOperations, Induction

-----------------------------------------------------------------------------
(* Composite operations.                                                     *)

Context == [clientStart : Nat, start : Nat, ends : SUBSET Nat, clientEnd : Nat]

CompositeTypes ==
    /\ stream \in [Streams -> {"none", "running", "holding", "cancelling", "done",
                               "failed", "cancelled"}]
    /\ at \in [Streams -> Nat \ {0}]
    /\ children \in [Streams -> SUBSET Streams]
    /\ permits \in Int
    /\ nested \in [Streams -> Context]
    /\ now \in Nat

\* Item i of stream s is a stream.
Forks(s, i) == i \in 1..Len(items[s]) /\ items[s][i].type = "stream"

\* A stream has no state before it is spawned, and after that it is waited
\* for until it is done; what is waited for was spawned.
Spawned(s) ==
    /\ at[s] <= Len(items[s]) + 1
    /\ \A i \in 1..Len(items[s]) : Forks(s, i) =>
          /\ i >= at[s] => stream[items[s][i].key] = "none"
          /\ i < at[s] => items[s][i].key \in children[s] \/ stream[items[s][i].key] = "done"
    /\ \A k \in children[s] :
          \E i \in 1..Len(items[s]) : Forks(s, i) /\ i < at[s] /\ items[s][i].key = k
    /\ stream[s] = "holding" => children[s] = {} /\ AtOp(s)

\* A stream has a connection while it measures an operation.
Connected(s) ==
    /\ Measuring(s) => stream[s] \in {"holding", "cancelling"}
    /\ stream[s] = "holding" => Measuring(s)

InUse == {s \in Streams : Measuring(s)}

\* Nothing of a composite happens before the client's first operation.
Unstarted ==
    \A s \in Streams : /\ stream[s] = "none" /\ at[s] = 1 /\ children[s] = {}
                       /\ nested[s] = EmptyContext

FirstOperation ==
    /\ performed \in Nat
    /\ performed = 0 => phase = "idle" /\ Unstarted

CompositeInv ==
    /\ CompositeTypes /\ NestedItems(items)
    /\ \A s \in Streams : Spawned(s) /\ Connected(s)
    /\ permits + Cardinality(InUse) = MaxConnections
    /\ FirstOperation

\* A request context is a record of clock readings.
LEMMA ContextTypes ==
    /\ EmptyContext \in Context
    /\ \A t \in Nat : LET c == WireStart(ClientStart(EmptyContext, t + 1), t + 2)
                      IN  c \in Context /\ c # EmptyContext
<1>1. EmptyContext \in Context
  BY DEF EmptyContext, Context
<1>2. ASSUME NEW t \in Nat
      PROVE  LET c == WireStart(ClientStart(EmptyContext, t + 1), t + 2)
             IN  c \in Context /\ c # EmptyContext
  <2>1. PICK b : b = ClientStart(EmptyContext, t + 1)
    OBVIOUS
  <2>2. /\ b = [clientStart |-> t + 1, start |-> 0, ends |-> {}, clientEnd |-> 0]
    BY <2>1 DEF ClientStart, EmptyContext
  <2>3. WireStart(b, t + 2) =
           [clientStart |-> t + 1, start |-> t + 2, ends |-> {}, clientEnd |-> 0]
    BY <2>2 DEF WireStart
  <2>4. WireStart(b, t + 2) \in Context
    BY <2>3 DEF Context
  <2>5. WireStart(b, t + 2).clientStart # EmptyContext.clientStart
    BY <2>3 DEF EmptyContext
  <2>6. QED BY <2>1, <2>4, <2>5
<1>3. QED BY <1>1, <1>2

\* The streams that have a connection are finitely many.
LEMMA InUseCounts ==
    /\ IsFiniteSet(InUse) /\ IsFiniteSet(InUse')
    /\ Cardinality(InUse) \in Nat
    /\ \A s \in Streams :
          /\ s \notin InUse => Cardinality(InUse \union {s}) = Cardinality(InUse) + 1
          /\ s \in InUse => Cardinality(InUse \ {s}) = Cardinality(InUse) - 1
<1>1. IsFiniteSet(InUse) /\ IsFiniteSet(InUse')
  BY CompositeAssumption, FS_Subset DEF InUse
<1>2. QED BY <1>1, FS_CardinalityType, FS_AddElement, FS_RemoveElement

\* An item that is a stream belongs to one stream and one place in it.
LEMMA OneParent ==
    ASSUME NestedItems(items), NEW s \in Streams, NEW t \in Streams, NEW i, NEW j,
           Forks(s, i), Forks(t, j), items[s][i].key = items[t][j].key
    PROVE  s = t /\ i = j
<1>. DEFINE M == [type : STRING, key : STRING]
<1>1. /\ items[s] \in Seq(M) /\ items[t] \in Seq(M)
      /\ i \in 1..Len(items[s]) /\ j \in 1..Len(items[t])
  BY DEF NestedItems, Forks
<1>2. items[s][i] \in M /\ items[t][j] \in M
  <2>. HIDE DEF M
  <2>1. QED BY <1>1
<1>3. items[s][i] = items[t][j]
  BY <1>2 DEF Forks
<1>4. QED BY <1>1, <1>3 DEF NestedItems, Forks

\* The initial state.
LEMMA InitComposite ==
    ASSUME Init
    PROVE  CompositeInv
<1>1. CompositeInit /\ RunnersInit
  BY DEF Init
<1>2. CompositeTypes
  BY <1>1, CompositeAssumption, ContextTypes DEF CompositeInit, CompositeTypes
<1>3. \A s \in Streams : items[s] = <<>> /\ ~Measuring(s)
  BY <1>1 DEF CompositeInit, Measuring
<1>4. \A s \in Streams : Spawned(s) /\ Connected(s)
  BY <1>1, <1>3 DEF CompositeInit, Spawned, Forks, Connected
<1>5. NestedItems(items)
  <2>. DEFINE M == [type : STRING, key : STRING]
  <2>1. items \in [Streams -> Seq(M)]
    <3>. HIDE DEF M
    <3>1. QED BY <1>1 DEF CompositeInit
  <2>2. QED BY <1>3, <2>1 DEF NestedItems
<1>6. permits + Cardinality(InUse) = MaxConnections
  <2>1. InUse = {}
    BY <1>3 DEF InUse
  <2>2. QED BY <1>1, <2>1, FS_EmptySet, CompositeAssumption DEF CompositeInit
<1>7. FirstOperation
  BY <1>1 DEF CompositeInit, RunnersInit, FirstOperation, Unstarted
<1>8. QED BY <1>2, <1>4, <1>5, <1>6, <1>7 DEF CompositeInv

\* Steps of the client outside its composite.
LEMMA CompositeFrame ==
    ASSUME CompositeInv, UNCHANGED compositeVars, FirstOperation'
    PROVE  CompositeInv'
<1>1. UNCHANGED <<items, stream, at, children, permits, nested, now>>
  BY DEF compositeVars
<1>2. CompositeTypes' /\ NestedItems(items)'
  BY <1>1 DEF CompositeInv, CompositeTypes, NestedItems
<1>3. InUse' = InUse
  BY <1>1 DEF InUse, Measuring
<1>4. \A s \in Streams : Spawned(s)' /\ Connected(s)'
  BY <1>1 DEF CompositeInv, Spawned, Forks, Connected, Measuring, AtOp, AtEnd, Item
<1>5. QED BY <1>1, <1>2, <1>3, <1>4 DEF CompositeInv

\* A step of stream s that leaves its place alone and at most cancels tasks
\* that it waits for.
LEMMA SpawnedFrame ==
    ASSUME CompositeInv, NEW s \in Streams,
           UNCHANGED <<items, at>>, stream[s] \notin {"none", "done"},
           stream'[s] = "holding" => children[s] = {} /\ AtOp(s),
           \A t \in Streams \ {s} :
              \/ stream'[t] = stream[t]
              \/ t \in children[s] /\ stream[t] \notin Ended /\ stream'[t] = "cancelling",
           children' = children
    PROVE  \A t \in Streams : Spawned(t)'
<1>0. NestedItems(items) /\ \A t \in Streams : Spawned(t)
  BY DEF CompositeInv
<1>1. ASSUME NEW t \in Streams, NEW i \in 1..Len(items[t]), Forks(t, i)
      PROVE  /\ items[t][i].key \in Streams
             /\ i >= at[t] => stream'[items[t][i].key] = "none"
             /\ i < at[t] => \/ items[t][i].key \in children[t]
                             \/ stream'[items[t][i].key] = "done"
  <2>1. items[t][i].key \in Streams
    BY <1>0, <1>1 DEF NestedItems, Forks
  <2>2. ASSUME i >= at[t] PROVE stream'[items[t][i].key] = "none"
    <3>1. stream[items[t][i].key] = "none"
      BY <1>0, <1>1, <2>2 DEF Spawned
    <3>2. items[t][i].key # s
      BY <3>1
    <3>3. items[t][i].key \notin children[s]
      <4>1. SUFFICES ASSUME items[t][i].key \in children[s] PROVE FALSE
        OBVIOUS
      <4>2. PICK j \in 1..Len(items[s]) :
                    Forks(s, j) /\ j < at[s] /\ items[s][j].key = items[t][i].key
        BY <1>0, <4>1 DEF Spawned
      <4>3. s = t /\ j = i
        BY <1>0, <1>1, <4>2, OneParent
      <4>4. at[t] \in Nat /\ i \in Nat
        BY DEF CompositeInv, CompositeTypes
      <4>5. QED BY <2>2, <4>2, <4>3, <4>4
    <3>4. QED BY <2>1, <3>1, <3>2, <3>3
  <2>3. ASSUME i < at[t], stream[items[t][i].key] = "done"
        PROVE  stream'[items[t][i].key] = "done"
    BY <2>1, <2>3 DEF Ended
  <2>4. QED BY <1>0, <1>1, <2>1, <2>2, <2>3 DEF Spawned
<1>2. ASSUME NEW t \in Streams PROVE Spawned(t)'
  <2>1. /\ at'[t] <= Len(items'[t]) + 1
        /\ \A k \in children'[t] :
             \E i \in 1..Len(items'[t]) : Forks(t, i)' /\ i < at'[t] /\ items'[t][i].key = k
    BY <1>0 DEF Spawned, Forks
  <2>2. \A i \in 1..Len(items'[t]) : Forks(t, i)' =>
          /\ i >= at'[t] => stream'[items'[t][i].key] = "none"
          /\ i < at'[t] => \/ items'[t][i].key \in children'[t]
                           \/ stream'[items'[t][i].key] = "done"
    BY <1>1 DEF Forks
  <2>3. stream'[t] = "holding" => children'[t] = {} /\ AtOp(t)'
    <3>1. t # s => (stream'[t] = "holding" => stream[t] = "holding")
      OBVIOUS
    <3>2. AtOp(t)' <=> AtOp(t)
      BY DEF AtOp, AtEnd, Item
    <3>3. CASE t = s
      BY <3>2, <3>3
    <3>4. CASE t # s
      BY <1>0, <3>1, <3>2, <3>4 DEF Spawned
    <3>5. QED BY <3>3, <3>4
  <2>4. QED BY <2>1, <2>2, <2>3 DEF Spawned
<1>3. QED BY <1>2

\* The connections after a step of stream s: it has got one, given one back,
\* or neither.
LEMMA ConnectionsFrame ==
    ASSUME CompositeInv, NEW s \in Streams,
           \A t \in Streams \ {s} : /\ nested'[t] = nested[t]
                                    /\ stream'[t] # stream[t] => stream'[t] = "cancelling"
                                                                 \/ (~Measuring(t) /\ stream'[t] # "holding"),
           stream'[s] = "holding" <=> Measuring(s)',
           \/ Measuring(s)' /\ ~Measuring(s) /\ permits' = permits - 1
           \/ ~Measuring(s)' /\ Measuring(s) /\ permits' = permits + 1
           \/ (Measuring(s)' <=> Measuring(s)) /\ permits' = permits
    PROVE  /\ \A t \in Streams : Connected(t)'
           /\ permits' + Cardinality(InUse') = MaxConnections
<1>1. \A t \in Streams \ {s} : Measuring(t)' <=> Measuring(t)
  BY DEF Measuring
<1>2. \A t \in Streams : Connected(t)
  BY DEF CompositeInv
<1>3. ASSUME NEW t \in Streams PROVE Connected(t)'
  <2>1. CASE t = s
    BY <2>1 DEF Connected
  <2>2. CASE t # s
    BY <1>1, <1>2, <2>2 DEF Connected
  <2>3. QED BY <2>1, <2>2
<1>4. /\ Cardinality(InUse) \in Nat /\ permits \in Int /\ MaxConnections \in Nat
      /\ permits + Cardinality(InUse) = MaxConnections
  BY InUseCounts, CompositeAssumption DEF CompositeInv, CompositeTypes
<1>5. CASE Measuring(s)' /\ ~Measuring(s) /\ permits' = permits - 1
  <2>1. InUse' = InUse \union {s} /\ s \notin InUse
    BY <1>1, <1>5 DEF InUse
  <2>2. Cardinality(InUse') = Cardinality(InUse) + 1
    BY <2>1, InUseCounts
  <2>3. QED BY <1>3, <1>4, <1>5, <2>2
<1>6. CASE ~Measuring(s)' /\ Measuring(s) /\ permits' = permits + 1
  <2>1. InUse' = InUse \ {s} /\ s \in InUse
    BY <1>1, <1>6 DEF InUse
  <2>2. Cardinality(InUse') = Cardinality(InUse) - 1
    BY <2>1, InUseCounts
  <2>3. QED BY <1>3, <1>4, <1>6, <2>2
<1>7. CASE (Measuring(s)' <=> Measuring(s)) /\ permits' = permits
  <2>1. InUse' = InUse
    BY <1>1, <1>7 DEF InUse
  <2>2. QED BY <1>3, <1>4, <1>7, <2>1
<1>8. QED BY <1>5, <1>6, <1>7

\* What a cancellation does to the streams.
LEMMA CancelTypes ==
    ASSUME CompositeTypes, NEW ts, NEW s \in Streams, NEW x \in {"failed", "cancelled"}
    PROVE  LET d == [Cancel(ts) EXCEPT ![s] = x]
           IN  /\ d \in [Streams -> {"none", "running", "holding", "cancelling", "done",
                                     "failed", "cancelled"}]
               /\ d[s] = x
               /\ \A t \in Streams \ {s} :
                     \/ d[t] = stream[t]
                     \/ t \in ts /\ stream[t] \notin Ended /\ d[t] = "cancelling"
BY DEF CompositeTypes, Cancel

\* Steps of the streams that leave items, places and waiting lists alone.
LEMMA StayingSteps ==
    ASSUME CompositeInv, NEW s \in Streams,
           GatherFails(s) \/ Acquire(s) \/ Fail(s) \/ Cancelled(s) \/ End(s)
    PROVE  /\ CompositeTypes' /\ permits' + Cardinality(InUse') = MaxConnections
           /\ \A t \in Streams : Spawned(t)' /\ Connected(t)'
<1>0. /\ CompositeTypes /\ Spawned(s) /\ Connected(s) /\ UNCHANGED <<items, at, children>>
      /\ permits \in Int /\ now \in Nat /\ nested \in [Streams -> Context]
      /\ stream \in [Streams -> {"none", "running", "holding", "cancelling", "done",
                                 "failed", "cancelled"}]
      /\ children[s] \subseteq Streams
  BY DEF CompositeInv, CompositeTypes, GatherFails, Acquire, Fail, Cancelled, End
<1>1. ASSUME CompositeTypes', stream[s] \notin {"none", "done"},
             stream'[s] = "holding" => children[s] = {} /\ AtOp(s),
             \A t \in Streams \ {s} :
                \/ stream'[t] = stream[t]
                \/ t \in children[s] /\ stream[t] \notin Ended /\ stream'[t] = "cancelling",
             \A t \in Streams \ {s} : nested'[t] = nested[t],
             stream'[s] = "holding" <=> Measuring(s)',
             \/ Measuring(s)' /\ ~Measuring(s) /\ permits' = permits - 1
             \/ ~Measuring(s)' /\ Measuring(s) /\ permits' = permits + 1
             \/ (Measuring(s)' <=> Measuring(s)) /\ permits' = permits
      PROVE  /\ CompositeTypes' /\ permits' + Cardinality(InUse') = MaxConnections
             /\ \A t \in Streams : Spawned(t)' /\ Connected(t)'
  <2>1. \A t \in Streams : Spawned(t)'
    BY <1>0, <1>1, SpawnedFrame
  <2>2. \A t \in Streams \ {s} : stream'[t] # stream[t] => stream'[t] = "cancelling"
    BY <1>1
  <2>3. (\A t \in Streams : Connected(t)') /\ permits' + Cardinality(InUse') = MaxConnections
    BY <1>1, <2>2, ConnectionsFrame
  <2>4. QED BY <1>1, <2>1, <2>3
<1>2. CASE GatherFails(s)
  <2>1. /\ stream' = [Cancel(children[s]) EXCEPT ![s] = "failed"]
           \/ stream' = [stream EXCEPT ![s] = "failed"]
        /\ stream[s] = "running" /\ UNCHANGED <<permits, nested, now>>
    BY <1>2 DEF GatherFails
  <2>2. /\ stream' \in [Streams -> {"none", "running", "holding", "cancelling", "done",
                                    "failed", "cancelled"}]
        /\ stream'[s] = "failed"
        /\ \A t \in Streams \ {s} :
              \/ stream'[t] = stream[t]
              \/ t \in children[s] /\ stream[t] \notin Ended /\ stream'[t] = "cancelling"
    <3>1. CASE stream' = [Cancel(children[s]) EXCEPT ![s] = "failed"]
      <4>1. "failed" \in {"failed", "cancelled"}
        OBVIOUS
      <4>2. QED BY <1>0, <3>1, <4>1, CancelTypes
    <3>2. CASE stream' = [stream EXCEPT ![s] = "failed"]
      BY <1>0, <3>2
    <3>3. QED BY <2>1, <3>1, <3>2
  <2>3. CompositeTypes'
    BY <1>0, <2>1, <2>2 DEF CompositeTypes
  <2>4. ~Measuring(s) /\ ~Measuring(s)'
    BY <1>0, <2>1 DEF Connected, Measuring
  <2>5. QED BY <1>1, <2>1, <2>2, <2>3, <2>4
<1>3. CASE Cancelled(s)
  <2>1. /\ stream' = [Cancel(children[s]) EXCEPT ![s] = "cancelled"]
        /\ stream[s] = "cancelling"
        /\ permits' = IF Measuring(s) THEN permits + 1 ELSE permits
        /\ nested' = [nested EXCEPT ![s] = EmptyContext] /\ now' = now
    BY <1>3 DEF Cancelled
  <2>2. /\ stream' \in [Streams -> {"none", "running", "holding", "cancelling", "done",
                                    "failed", "cancelled"}]
        /\ stream'[s] = "cancelled"
        /\ \A t \in Streams \ {s} :
              \/ stream'[t] = stream[t]
              \/ t \in children[s] /\ stream[t] \notin Ended /\ stream'[t] = "cancelling"
    <3>1. "cancelled" \in {"failed", "cancelled"}
      OBVIOUS
    <3>2. QED BY <1>0, <2>1, <3>1, CancelTypes
  <2>3. CompositeTypes'
    BY <1>0, <2>1, <2>2, ContextTypes DEF CompositeTypes
  <2>4. ~Measuring(s)' /\ \A t \in Streams \ {s} : nested'[t] = nested[t]
    BY <1>0, <2>1 DEF Measuring
  <2>5. QED BY <1>1, <2>1, <2>2, <2>3, <2>4
<1>4. CASE Fail(s)
  <2>1. /\ stream' = [stream EXCEPT ![s] = "failed"]
        /\ stream[s] \in {"running", "holding"}
        /\ permits' = IF stream[s] = "holding" THEN permits + 1 ELSE permits
        /\ nested' = [nested EXCEPT ![s] = EmptyContext] /\ now' = now
    BY <1>4 DEF Fail
  <2>2. CompositeTypes'
    BY <1>0, <2>1, ContextTypes DEF CompositeTypes
  <2>3. /\ ~Measuring(s)' /\ \A t \in Streams \ {s} : nested'[t] = nested[t]
        /\ Measuring(s) <=> stream[s] = "holding"
    BY <1>0, <2>1 DEF Measuring, Connected
  <2>4. QED BY <1>0, <1>1, <2>1, <2>2, <2>3
<1>5. CASE End(s)
  <2>1. /\ stream' = [stream EXCEPT ![s] = "done"] /\ stream[s] = "running"
        /\ UNCHANGED <<permits, nested, now>>
    BY <1>5 DEF End
  <2>2. CompositeTypes'
    BY <1>0, <2>1 DEF CompositeTypes
  <2>3. ~Measuring(s) /\ ~Measuring(s)'
    BY <1>0, <2>1 DEF Connected, Measuring
  <2>4. QED BY <1>0, <1>1, <2>1, <2>2, <2>3
<1>6. CASE Acquire(s)
  <2>1. /\ stream' = [stream EXCEPT ![s] = "holding"] /\ stream[s] = "running"
        /\ AtOp(s) /\ children[s] = {} /\ permits' = permits - 1 /\ now' = now + 2
        /\ nested' = [nested EXCEPT ![s] =
                        WireStart(ClientStart(EmptyContext, now + 1), now + 2)]
    BY <1>6 DEF Acquire
  <2>2. PICK c \in Context : c # EmptyContext /\ nested' = [nested EXCEPT ![s] = c]
    BY <1>0, <2>1, ContextTypes
  <2>3. CompositeTypes'
    BY <1>0, <2>1, <2>2 DEF CompositeTypes
  <2>4. /\ Measuring(s)' /\ ~Measuring(s) /\ \A t \in Streams \ {s} : nested'[t] = nested[t]
    BY <1>0, <2>1, <2>2 DEF Measuring, Connected
  <2>5. QED BY <1>0, <1>1, <2>1, <2>3, <2>4
<1>7. QED BY <1>2, <1>3, <1>4, <1>5, <1>6

\* A stream collects the tasks it waits for.
LEMMA GatherStep ==
    ASSUME CompositeInv, NEW s \in Streams, Gather(s)
    PROVE  /\ CompositeTypes' /\ permits' + Cardinality(InUse') = MaxConnections
           /\ \A t \in Streams : Spawned(t)' /\ Connected(t)'
<1>1. /\ CompositeTypes /\ children' = [children EXCEPT ![s] = {}]
      /\ \A t \in children[s] : stream[t] = "done"
      /\ UNCHANGED <<items, stream, at, permits, nested, now>>
  BY DEF CompositeInv, Gather
<1>2. /\ children \in [Streams -> SUBSET Streams] /\ children'[s] = {}
      /\ \A t \in Streams \ {s} : children'[t] = children[t]
  BY <1>1 DEF CompositeTypes
<1>3. CompositeTypes'
  BY <1>1, <1>2 DEF CompositeTypes
<1>4. InUse' = InUse /\ \A t \in Streams : Connected(t)'
  BY <1>1 DEF InUse, Measuring, CompositeInv, Connected
<1>5. ASSUME NEW t \in Streams PROVE Spawned(t)'
  <2>1. Spawned(t) /\ (AtOp(t)' <=> AtOp(t)) /\ \A i : Forks(t, i)' <=> Forks(t, i)
    BY <1>1 DEF CompositeInv, AtOp, AtEnd, Item, Forks
  <2>2. CASE t = s
    BY <1>1, <1>2, <2>1, <2>2 DEF Spawned
  <2>3. CASE t # s
    BY <1>1, <1>2, <2>1, <2>3 DEF Spawned
  <2>4. QED BY <2>2, <2>3
<1>6. QED BY <1>1, <1>3, <1>4, <1>5 DEF CompositeInv

\* An operation of a stream has returned.
LEMMA FinishStep ==
    ASSUME CompositeInv, NEW s \in Streams, Finish(s)
    PROVE  /\ CompositeTypes' /\ permits' + Cardinality(InUse') = MaxConnections
           /\ \A t \in Streams : Spawned(t)' /\ Connected(t)'
<1>1. /\ CompositeTypes /\ stream[s] = "holding"
      /\ nested' = [nested EXCEPT ![s] = EmptyContext]
      /\ now' = now + 2 /\ permits' = permits + 1
      /\ stream' = [stream EXCEPT ![s] = "running"]
      /\ at' = [at EXCEPT ![s] = @ + 1]
      /\ UNCHANGED <<items, children>>
  BY DEF CompositeInv, Finish
<1>2. CompositeTypes'
  BY <1>1, ContextTypes DEF CompositeTypes
<1>3. /\ stream'[s] = "running" /\ \A t \in Streams \ {s} : stream'[t] = stream[t]
      /\ at'[s] = at[s] + 1 /\ \A t \in Streams \ {s} : at'[t] = at[t]
      /\ nested'[s] = EmptyContext /\ \A t \in Streams \ {s} : nested'[t] = nested[t]
      /\ at[s] \in Nat
  BY <1>1 DEF CompositeTypes
<1>4. (\A t \in Streams : Connected(t)') /\ permits' + Cardinality(InUse') = MaxConnections
  <2>1. Measuring(s) /\ ~Measuring(s)'
    BY <1>1, <1>3 DEF CompositeInv, Connected, Measuring
  <2>2. QED BY <1>1, <1>3, <2>1, ConnectionsFrame
<1>5. /\ \A t \in Streams : items[t] = items'[t] /\ Len(items[t]) \in Nat
      /\ \A t, i : Forks(t, i)' <=> Forks(t, i)
  <2>. DEFINE M == [type : STRING, key : STRING]
  <2>1. items \in [Streams -> Seq(M)]
    BY DEF CompositeInv, NestedItems
  <2>2. \A t \in Streams : Len(items[t]) \in Nat
    <3>. HIDE DEF M
    <3>1. QED BY <2>1
  <2>3. QED BY <1>1, <2>2 DEF Forks
<1>6. ASSUME NEW t \in Streams, NEW i \in 1..Len(items[t]), Forks(t, i)
      PROVE  /\ items[t][i].key \in Streams
             /\ stream[items[t][i].key] \in {"none", "done"} =>
                   stream'[items[t][i].key] = stream[items[t][i].key]
  <2>1. items[t][i].key \in Streams
    BY <1>6 DEF CompositeInv, NestedItems, Forks
  <2>2. QED BY <1>1, <1>3, <2>1
<1>7. Spawned(s) /\ AtOp(s) /\ children[s] = {}
  BY <1>1 DEF CompositeInv, Spawned
<1>8. ~Forks(s, at[s]) /\ at[s] <= Len(items[s])
  BY <1>3, <1>5, <1>7 DEF AtOp, AtEnd, Item, Forks
<1>9. ASSUME NEW t \in Streams PROVE Spawned(t)'
  <2>1. Spawned(t)
    BY DEF CompositeInv
  <2>2. CASE t = s
    <3>1. \A i \in 1..Len(items[s]) : Forks(s, i) =>
             /\ i >= at[s] + 1 => stream'[items[s][i].key] = "none"
             /\ i < at[s] + 1 => \/ items[s][i].key \in children[s]
                                 \/ stream'[items[s][i].key] = "done"
      BY <1>3, <1>5, <1>6, <1>7, <1>8 DEF Spawned
    <3>2. at[s] + 1 <= Len(items[s]) + 1
      BY <1>3, <1>5, <1>8
    <3>3. QED BY <1>1, <1>3, <1>5, <1>7, <2>2, <3>1, <3>2 DEF Spawned
  <2>3. CASE t # s
    <3>1. stream'[t] = stream[t] /\ at'[t] = at[t]
      BY <1>3, <2>3
    <3>2. AtOp(t)' <=> AtOp(t)
      BY <1>1, <3>1 DEF AtOp, AtEnd, Item
    <3>3. QED BY <1>1, <1>5, <1>6, <2>1, <3>1, <3>2 DEF Spawned
  <2>4. QED BY <2>2, <2>3
<1>10. QED BY <1>2, <1>4, <1>9

\* An item that is a stream becomes a task.
LEMMA SpawnStep ==
    ASSUME CompositeInv, NEW s \in Streams, Spawn(s)
    PROVE  /\ CompositeTypes' /\ permits' + Cardinality(InUse') = MaxConnections
           /\ \A t \in Streams : Spawned(t)' /\ Connected(t)'
<1>0. /\ NestedItems(items) /\ CompositeTypes /\ \A t \in Streams : Spawned(t) /\ Connected(t)
  BY DEF CompositeInv
<1>1. PICK k : k = items[s][at[s]].key
  OBVIOUS
<1>2. /\ stream[s] = "running" /\ AtStream(s)
      /\ stream' = [stream EXCEPT ![k] = "running"]
      /\ children' = [children EXCEPT ![s] = @ \union {k}]
      /\ at' = [at EXCEPT ![s] = @ + 1]
      /\ UNCHANGED <<items, permits, nested, now>>
  BY <1>1 DEF Spawn, Item
<1>3. /\ \A t \in Streams : Len(items[t]) \in Nat /\ at[t] \in Nat \ {0}
      /\ \A t, i : Forks(t, i)' <=> Forks(t, i)
  <2>. DEFINE M == [type : STRING, key : STRING]
  <2>1. items \in [Streams -> Seq(M)]
    BY DEF CompositeInv, NestedItems
  <2>2. \A t \in Streams : Len(items[t]) \in Nat
    <3>. HIDE DEF M
    <3>1. QED BY <2>1
  <2>3. QED BY <1>0, <1>2, <2>2 DEF Forks, CompositeTypes
<1>4. Forks(s, at[s]) /\ at[s] \in 1..Len(items[s])
  BY <1>2, <1>3 DEF AtStream, AtEnd, Item, Forks
<1>5. k \in Streams /\ stream[k] = "none" /\ k # s
  <2>1. k \in Streams
    BY <1>0, <1>1, <1>4 DEF NestedItems, Forks
  <2>2. stream[k] = "none"
    BY <1>0, <1>1, <1>3, <1>4 DEF Spawned
  <2>3. QED BY <1>2, <2>1, <2>2
<1>6. CompositeTypes'
  BY <1>0, <1>2, <1>5 DEF CompositeTypes
<1>7. /\ stream'[k] = "running" /\ \A t \in Streams \ {k} : stream'[t] = stream[t]
      /\ at'[s] = at[s] + 1 /\ \A t \in Streams \ {s} : at'[t] = at[t]
      /\ children'[s] = children[s] \union {k}
      /\ \A t \in Streams \ {s} : children'[t] = children[t]
  BY <1>0, <1>2, <1>5 DEF CompositeTypes
<1>8. (\A t \in Streams : Connected(t)') /\ permits' + Cardinality(InUse') = MaxConnections
  <2>1. ~Measuring(k) /\ ~Measuring(k)'
    BY <1>0, <1>2, <1>5 DEF Connected, Measuring
  <2>2. QED BY <1>2, <1>5, <1>7, <2>1, ConnectionsFrame
<1>9. ASSUME NEW t \in Streams, NEW i \in 1..Len(items[t]), Forks(t, i)
      PROVE  /\ i >= at'[t] => stream'[items[t][i].key] = "none"
             /\ i < at'[t] => \/ items[t][i].key \in children'[t]
                              \/ stream'[items[t][i].key] = "done"
  <2>1. items[t][i].key \in Streams
    BY <1>0, <1>9 DEF NestedItems, Forks
  <2>2. CASE items[t][i].key = k
    <3>1. t = s /\ i = at[s]
      BY <1>0, <1>1, <1>4, <1>9, <2>2, OneParent
    <3>2. QED BY <1>3, <1>7, <2>2, <3>1
  <2>3. CASE items[t][i].key # k
    <3>1. stream'[items[t][i].key] = stream[items[t][i].key]
      BY <1>7, <2>1, <2>3
    <3>2. t = s => i # at[s]
      BY <1>1, <2>3
    <3>3. /\ i >= at[t] => stream[items[t][i].key] = "none"
          /\ i < at[t] => items[t][i].key \in children[t] \/ stream[items[t][i].key] = "done"
      BY <1>0, <1>9 DEF Spawned
    <3>4. CASE t = s
      BY <1>3, <1>7, <3>1, <3>2, <3>3, <3>4
    <3>5. CASE t # s
      BY <1>7, <3>1, <3>3, <3>5
    <3>6. QED BY <3>4, <3>5
  <2>4. QED BY <2>2, <2>3
<1>10. ASSUME NEW t \in Streams PROVE Spawned(t)'
  <2>1. /\ at[t] <= Len(items[t]) + 1
        /\ \A j \in children[t] :
             \E i \in 1..Len(items[t]) : Forks(t, i) /\ i < at[t] /\ items[t][i].key = j
        /\ stream[t] = "holding" => children[t] = {} /\ AtOp(t)
    BY <1>0 DEF Spawned
  <2>2. at'[t] <= Len(items[t]) + 1
    BY <1>3, <1>4, <1>7, <2>1
  <2>3. \A j \in children'[t] :
             \E i \in 1..Len(items[t]) : Forks(t, i) /\ i < at'[t] /\ items[t][i].key = j
    <3>1. CASE t = s
      BY <1>1, <1>3, <1>4, <1>7, <2>1, <3>1
    <3>2. CASE t # s
      BY <1>7, <2>1, <3>2
    <3>3. QED BY <3>1, <3>2
  <2>4. stream'[t] = "holding" => children'[t] = {} /\ AtOp(t)'
    <3>1. stream'[t] = "holding" => stream[t] = "holding" /\ t # s
      BY <1>2, <1>5, <1>7
    <3>2. t # s => (AtOp(t)' <=> AtOp(t)) /\ children'[t] = children[t]
      BY <1>2, <1>7 DEF AtOp, AtEnd, Item
    <3>3. QED BY <2>1, <3>1, <3>2
  <2>5. QED BY <1>2, <1>3, <1>9, <2>2, <2>3, <2>4 DEF Spawned
<1>11. QED BY <1>6, <1>8, <1>10

\* handle_benchmark gives up on the composite.
LEMMA GiveUpStep ==
    ASSUME CompositeInv, GiveUpComposite
    PROVE  /\ CompositeTypes' /\ permits' + Cardinality(InUse') = MaxConnections
           /\ \A t \in Streams : Spawned(t)' /\ Connected(t)'
<1>1. /\ "top" \in Streams /\ stream["top"] \in {"running", "holding"}
      /\ stream' = [stream EXCEPT !["top"] = "cancelling"]
      /\ UNCHANGED <<items, at, children, permits, nested, now>>
      /\ CompositeTypes
  BY CompositeAssumption DEF GiveUpComposite, CompositeInv
<1>2. CompositeTypes'
  BY <1>1 DEF CompositeTypes
<1>3. /\ stream'["top"] = "cancelling"
      /\ \A t \in Streams \ {"top"} : stream'[t] = stream[t]
  BY <1>1 DEF CompositeTypes
<1>4. \A t \in Streams : Spawned(t)'
  BY <1>1, <1>3, SpawnedFrame
<1>5. InUse' = InUse /\ \A t \in Streams : Measuring(t)' <=> Measuring(t)
  BY <1>1 DEF InUse, Measuring
<1>6. ASSUME NEW t \in Streams PROVE Connected(t)'
  <2>1. Connected(t)
    BY DEF CompositeInv
  <2>2. CASE t = "top"
    BY <1>1, <1>3, <1>5, <2>1, <2>2 DEF Connected
  <2>3. CASE t # "top"
    BY <1>3, <1>5, <2>1, <2>3 DEF Connected
  <2>4. QED BY <2>2, <2>3
<1>7. QED BY <1>1, <1>2, <1>4, <1>5, <1>6 DEF CompositeInv

\* Before the first operation no stream can take a step.
LEMMA CompositeNeedsStart ==
    ASSUME FirstOperation, CompositeNext, CompositeTypes
    PROVE  performed # 0
<1>1. SUFFICES ASSUME Unstarted PROVE FALSE
  BY DEF FirstOperation
<1>2. CASE GiveUpComposite
  BY <1>1, <1>2, CompositeAssumption DEF Unstarted, GiveUpComposite
<1>3. ASSUME NEW s \in Streams, Step(s) PROVE FALSE
  BY <1>1, <1>3 DEF Unstarted, Step, Spawn, Gather, GatherFails, Acquire, Finish, Fail,
                    Cancelled, End
<1>4. QED BY <1>2, <1>3 DEF CompositeNext

\* A step of the streams.
LEMMA NextComposite ==
    ASSUME CompositeInv, CompositeNext, UNCHANGED runnerVars
    PROVE  CompositeInv'
<1>1. /\ CompositeTypes' /\ permits' + Cardinality(InUse') = MaxConnections
      /\ \A t \in Streams : Spawned(t)' /\ Connected(t)'
  <2>1. CASE GiveUpComposite
    BY <2>1, GiveUpStep
  <2>2. ASSUME NEW s \in Streams, Step(s)
        PROVE  /\ CompositeTypes' /\ permits' + Cardinality(InUse') = MaxConnections
               /\ \A t \in Streams : Spawned(t)' /\ Connected(t)'
    <3>1. CASE Spawn(s)
      BY <3>1, SpawnStep
    <3>2. CASE Gather(s)
      BY <3>2, GatherStep
    <3>3. CASE Finish(s)
      BY <3>3, FinishStep
    <3>4. CASE GatherFails(s) \/ Acquire(s) \/ Fail(s) \/ Cancelled(s) \/ End(s)
      BY <3>4, StayingSteps
    <3>5. QED BY <2>2, <3>1, <3>2, <3>3, <3>4 DEF Step
  <2>3. QED BY <2>1, <2>2 DEF CompositeNext
<1>2. items' = items
  BY DEF CompositeNext, GiveUpComposite, Step, Spawn, Gather, GatherFails, Acquire, Finish,
         Fail, Cancelled, End
<1>3. NestedItems(items)'
  BY <1>2 DEF CompositeInv, NestedItems
<1>4. FirstOperation'
  <2>1. performed # 0 /\ performed \in Nat /\ performed' = performed
    BY CompositeNeedsStart DEF CompositeInv, FirstOperation, runnerVars
  <2>2. QED BY <2>1 DEF FirstOperation
<1>5. QED BY <1>1, <1>3, <1>4 DEF CompositeInv

\* The client turns to a composite.
LEMMA NextStartComposite ==
    ASSUME CompositeInv, StartComposite
    PROVE  CompositeInv'
<1>1. /\ "top" \in Streams /\ performed = 0 /\ performed' = MaxOperations
      /\ items' \in Composites /\ stream' = [stream EXCEPT !["top"] = "running"]
      /\ UNCHANGED <<at, children, permits, nested, now>>
      /\ CompositeTypes /\ Unstarted
  BY CompositeAssumption DEF StartComposite, CompositeInv, FirstOperation
<1>2. NestedItems(items)' /\ NestedItems(items')
  BY <1>1, CompositeAssumption DEF NestedItems
<1>3. CompositeTypes'
  BY <1>1 DEF CompositeTypes
<1>4. FirstOperation'
  BY <1>1, RunnersAssumption DEF FirstOperation
<1>5. /\ stream'["top"] = "running"
      /\ \A t \in Streams \ {"top"} : stream'[t] = "none"
  BY <1>1 DEF CompositeTypes, Unstarted
<1>6. InUse' = InUse /\ \A t \in Streams : Connected(t)'
  BY <1>1, <1>5 DEF InUse, Measuring, Connected, Unstarted
<1>7. ASSUME NEW t \in Streams PROVE Spawned(t)'
  <2>1. Len(items'[t]) \in Nat
    <3>. DEFINE M == [type : STRING, key : STRING]
    <3>1. items' \in [Streams -> Seq(M)]
      BY <1>2 DEF NestedItems
    <3>2. QED
      <4>. HIDE DEF M
      <4>1. QED BY <3>1
  <2>2. at'[t] = 1 /\ children'[t] = {} /\ stream'[t] # "holding"
    BY <1>1, <1>5 DEF Unstarted
  <2>3. \A i \in 1..Len(items'[t]) : Forks(t, i)' => stream'[items'[t][i].key] = "none"
    BY <1>2, <1>5 DEF NestedItems, Forks
  <2>4. QED BY <2>1, <2>2, <2>3 DEF Spawned
<1>8. QED BY <1>1, <1>2, <1>3, <1>4, <1>6, <1>7 DEF CompositeInv

\* A step of the runners counts the operations it starts.
LEMMA RunnersCount ==
    ASSUME FirstOperation, RunnersNext, UNCHANGED compositeVars
    PROVE  FirstOperation'
<1>1. performed \in Nat /\ (performed = 0 => phase = "idle" /\ Unstarted)
  BY DEF FirstOperation
<1>2. Unstarted' <=> Unstarted
  BY DEF Unstarted, compositeVars
<1>3. ASSUME NEW o \in Operations, Start(o) PROVE FirstOperation'
  <2>1. performed' = performed + 1
    BY <1>3 DEF Start
  <2>2. QED BY <1>1, <2>1 DEF FirstOperation
<1>4. CASE Due
  <2>1. performed # 0
    BY <1>1, <1>4 DEF Due
  <2>2. QED
    BY <1>1, <2>1 DEF FirstOperation, RunnersNext, Start, Answered, SkipStop, RunnerRaises, AnswerLost,
           ConnectionRefused, Rejected, Fails, Return, TimedOut, ReadTimings, JobEnds
<1>5. CASE Return \/ TimedOut \/ ReadTimings \/ JobEnds
  <2>1. performed # 0 /\ performed' = performed
    BY <1>1, <1>5 DEF Return, TimedOut, ReadTimings, JobEnds
  <2>2. QED BY <1>1, <2>1 DEF FirstOperation
<1>6. QED
  BY <1>3, <1>4, <1>5 DEF RunnersNext, Answered, SkipStop, RunnerRaises, AnswerLost,
                          ConnectionRefused, Rejected

\* The invariant of the composite operation.
THEOREM CompositeInvariant == Spec => []CompositeInv
<1>1. Init => CompositeInv
  BY InitComposite
<1>2. CompositeInv /\ [Next]_vars => CompositeInv'
  <2>1. SUFFICES ASSUME CompositeInv, [Next]_vars PROVE CompositeInv'
    OBVIOUS
  <2>0. FirstOperation
    BY <2>1 DEF CompositeInv
  <2>2. CASE /\ calls = "none" /\ vtask = NoVectors
             /\ RunnersNext
             /\ UNCHANGED <<compositeVars, searchVars, vectorVars>>
    <3>1. FirstOperation'
      BY <2>0, <2>2, RunnersCount
    <3>2. QED BY <2>1, <2>2, <3>1, CompositeFrame
  <2>3. CASE CompositeNext /\ UNCHANGED <<runnerVars, searchVars, vectorVars>>
    BY <2>1, <2>3, NextComposite
  <2>4. CASE StartComposite
    BY <2>1, <2>4, NextStartComposite
  <2>5. CASE EndComposite
    <3>1. UNCHANGED compositeVars /\ performed # 0 /\ performed' = performed
      BY <2>0, <2>5 DEF EndComposite, FirstOperation
    <3>2. FirstOperation'
      BY <2>0, <3>1 DEF FirstOperation
    <3>3. QED BY <2>1, <3>1, <3>2, CompositeFrame
  <2>6. CASE UNCHANGED <<runnerVars, compositeVars>>
    <3>1. FirstOperation'
      BY <2>0, <2>6 DEF FirstOperation, runnerVars, Unstarted, compositeVars
    <3>2. QED BY <2>1, <2>6, <3>1, CompositeFrame
  <2>7. CASE Searching \/ Vectors \/ UNCHANGED vars
    <3>1. UNCHANGED <<runnerVars, compositeVars>>
      BY <2>7 DEF Searching, Vectors, vars
    <3>2. QED BY <2>6, <3>1
  <2>8. QED BY <2>1, <2>2, <2>3, <2>4, <2>5, <2>7 DEF Next
<1>3. QED BY <1>1, <1>2, PTL DEF Spec

\* An operation of a composite is sent only when every stream before it in
\* its sequence is done: asyncio.gather is awaited before each operation, and
\* no interleaving of the tasks, failure or cancellation lets one through.
THEOREM StreamsBeforeOperations == Spec => []PriorStreamsFirst
<1>1. CompositeInv => PriorStreamsFirst
  <2>1. SUFFICES ASSUME CompositeInv, NEW s \in Streams, stream[s] = "holding",
                        NEW i \in 1..(at[s] - 1), items[s][i].type = "stream"
                 PROVE  stream[items[s][i].key] = "done"
    BY DEF PriorStreamsFirst
  <2>2. Spawned(s) /\ children[s] = {} /\ at[s] \in Nat
    BY <2>1 DEF CompositeInv, Spawned, CompositeTypes
  <2>3. Len(items[s]) \in Nat
    <3>. DEFINE M == [type : STRING, key : STRING]
    <3>1. items \in [Streams -> Seq(M)]
      BY <2>1 DEF CompositeInv, NestedItems
    <3>2. QED
      <4>. HIDE DEF M
      <4>1. QED BY <3>1
  <2>4. i \in 1..Len(items[s]) /\ i < at[s] /\ Forks(s, i)
    BY <2>1, <2>2, <2>3 DEF Spawned, Forks
  <2>5. QED BY <2>2, <2>4 DEF Spawned
<1>2. QED BY <1>1, CompositeInvariant, PTL

\* When no stream of a composite is left, its semaphore has all its
\* connections again, whether the streams completed, failed or were cancelled.
THEOREM SemaphoreRestored == Spec => []ConnectionsReturned
<1>1. CompositeInv => ConnectionsReturned
  <2>1. SUFFICES ASSUME CompositeInv, \A s \in Streams : stream[s] \in Ended \union {"none"}
                 PROVE  permits = MaxConnections
    BY DEF ConnectionsReturned
  <2>2. InUse = {}
    BY <2>1 DEF CompositeInv, Connected, InUse, Ended
  <2>3. QED BY <2>1, <2>2, FS_EmptySet DEF CompositeInv, CompositeTypes
<1>2. QED BY <1>1, CompositeInvariant, PTL

-----------------------------------------------------------------------------
(* Searches with vectors.                                                    *)

\* A partition, as far as searching uses it: its two data sets are read side
\* by side.
SideBySide(s) ==
    /\ {"offset", "end", "current", "data_set", "beside", "rep"} \subseteq DOMAIN s
    /\ s.data_set = s.beside

\* What a client has asked is in query_params as long as no other client has
\* put its own there.
NeighborsInv ==
    /\ DOMAIN source = VClients(vtask) /\ DOMAIN asked = VClients(vtask)
    /\ DOMAIN inquiry = VClients(vtask) /\ DOMAIN vstate = VClients(vtask)
    /\ query.vector = query.neighbors
    /\ \A c \in VClients(vtask) :
          /\ SideBySide(source[c])
          /\ vstate[c] \in {"waiting", "request"} /\ c \notin overtaken =>
                asked[c] = query.vector
          /\ vstate[c] = "request" /\ c \notin overtaken => inquiry[c] = asked[c]
    /\ NeighborsMatch

\* A read or a rewind moves both data sets alike.
LEMMA ReadsAlike ==
    ASSUME NEW s, SideBySide(s), NEW n
    PROVE  /\ SideBySide(Rewind(s))
           /\ SideBySide([s EXCEPT !.data_set = @ + n, !.beside = @ + n, !.current = @ + n])
           /\ \A x, y, z : SideBySide([s EXCEPT !.data_set = @ + n, !.beside = @ + n,
                                                !.current = x, !.buffer = y, !.parent = z])
BY DEF SideBySide, Rewind

\* A new partition has both data sets at its offset.
LEMMA PartitionsAlike ==
    ASSUME NEW t, NEW c
    PROVE  SideBySide(SourceInit(t, c))
<1>1. PICK o, e : SourceInit(t, c) =
                    [offset |-> o, end |-> e, current |-> o, data_set |-> o, beside |-> o,
                     rep |-> 1, buffer |-> {}, parent |-> -1]
  BY DEF SourceInit
<1>2. QED BY <1>1 DEF SideBySide

\* The steps of a task on a vector data set.
LEMMA NextNeighbors ==
    ASSUME NeighborsInv, VectorsNext
    PROVE  NeighborsInv'
<1>1. CASE StartVectors
  <2>1. /\ vstate' = [c \in VClients(vtask') |-> "ready"]
        /\ source' = [c \in VClients(vtask') |-> SourceInit(vtask', c)]
        /\ inquiry' = [c \in VClients(vtask') |-> -1]
        /\ asked' = inquiry' /\ query' = query /\ recalled' = recalled
    BY <1>1 DEF StartVectors
  <2>2. \A c \in VClients(vtask') : SideBySide(source'[c])
    BY <2>1, PartitionsAlike
  <2>3. \A c \in VClients(vtask)' : SideBySide(source[c])'
    BY <2>2 DEF SideBySide, VClients
  <2>4. QED BY <2>1, <2>3 DEF NeighborsInv, NeighborsMatch, VClients
<1>2. ASSUME NEW c \in VClients(vtask), VectorStep(c) PROVE NeighborsInv'
  <2>0. vtask' = vtask /\ VClients(vtask)' = VClients(vtask)
    BY <1>2 DEF VectorStep, SourceEnds, QueryParams, SendQuery, AnswerQuery, BulkVectors, VClients
  <2>1. CASE SourceEnds(c)
    BY <2>0, <2>1 DEF SourceEnds, NeighborsInv, NeighborsMatch, SideBySide
  <2>2. CASE QueryParams(c)
    <3>1. PICK s : /\ s = IF Exhausted(c) THEN Rewind(source[c]) ELSE source[c]
                   /\ query' = [vector |-> s.data_set, neighbors |-> s.beside]
                   /\ asked' = [asked EXCEPT ![c] = s.data_set]
                   /\ source' = [source EXCEPT ![c] =
                        [s EXCEPT !.data_set = @ + 1, !.beside = @ + 1, !.current = @ + 1]]
      BY <2>2 DEF QueryParams
    <3>2. SideBySide(s)
      BY <3>1, ReadsAlike DEF NeighborsInv
    <3>3. SideBySide(source'[c])
      BY <3>1, <3>2, ReadsAlike DEF NeighborsInv
    <3>4. /\ vstate' = [vstate EXCEPT ![c] = "waiting"]
          /\ \A d \in VClients(vtask) : d # c /\ d \notin overtaken' =>
                vstate[d] \notin {"waiting", "request"} /\ d \notin overtaken
          /\ inquiry' = inquiry /\ recalled' = recalled
      BY <2>2 DEF QueryParams
    <3>5. query'.vector = s.data_set /\ query'.neighbors = s.data_set
      BY <3>1, <3>2 DEF SideBySide
    <3>6. DOMAIN source' = VClients(vtask) /\ DOMAIN asked' = VClients(vtask)
          /\ DOMAIN vstate' = VClients(vtask)
      BY <3>1, <3>4 DEF NeighborsInv
    <3>7. ASSUME NEW d \in VClients(vtask)
          PROVE  /\ SideBySide(source'[d])
                 /\ vstate'[d] \in {"waiting", "request"} /\ d \notin overtaken' =>
                       asked'[d] = query'.vector
                 /\ vstate'[d] = "request" /\ d \notin overtaken' => inquiry'[d] = asked'[d]
      <4>1. CASE d = c
        BY <3>1, <3>3, <3>4, <3>5, <4>1 DEF NeighborsInv
      <4>2. CASE d # c
        BY <3>1, <3>4, <4>2 DEF NeighborsInv
      <4>3. QED BY <4>1, <4>2
    <3>8. NeighborsMatch'
      BY <3>4 DEF NeighborsInv, NeighborsMatch
    <3>9. \A d \in VClients(vtask) : SideBySide(source[d])'
      BY <3>7 DEF SideBySide
    <3>10. QED BY <2>0, <3>4, <3>5, <3>6, <3>7, <3>8, <3>9 DEF NeighborsInv
  <2>3. CASE SendQuery(c)
    BY <2>0, <2>3 DEF SendQuery, NeighborsInv, NeighborsMatch, SideBySide
  <2>4. CASE AnswerQuery(c)
    <3>1. NeighborsMatch'
      <4>1. CASE recalled' = recalled
        BY <4>1 DEF NeighborsInv, NeighborsMatch
      <4>2. CASE recalled' = [asked |-> asked[c], answered |-> inquiry[c],
                              neighbors |-> query.neighbors, alone |-> c \notin overtaken]
        <5>1. /\ recalled'.asked = asked[c] /\ recalled'.answered = inquiry[c]
              /\ recalled'.neighbors = query.neighbors /\ recalled'.alone = (c \notin overtaken)
          BY <4>2
        <5>2. vstate[c] = "request" /\ c \in VClients(vtask)
          BY <1>2, <2>4 DEF AnswerQuery
        <5>3. QED BY <5>1, <5>2 DEF NeighborsInv, NeighborsMatch
      <4>3. QED BY <2>4, <4>1, <4>2 DEF AnswerQuery
    <3>2. QED BY <2>0, <2>4, <3>1 DEF AnswerQuery, NeighborsInv, SideBySide
  <2>5. CASE BulkVectors(c)
    <3>1. PICK n, x, y, z : source' = [source EXCEPT ![c] =
             [source[c] EXCEPT !.data_set = @ + n, !.beside = @ + n,
                               !.current = x, !.buffer = y, !.parent = z]]
      BY <2>5 DEF BulkVectors
    <3>2. \A d \in VClients(vtask) : SideBySide(source'[d])
      BY <3>1, ReadsAlike DEF NeighborsInv
    <3>3. \A d \in VClients(vtask) : SideBySide(source[d])'
      BY <3>2 DEF SideBySide
    <3>4. DOMAIN source' = VClients(vtask) /\ UNCHANGED <<vstate, query, inquiry, asked, overtaken, recalled>>
      BY <2>5, <3>1 DEF BulkVectors, NeighborsInv
    <3>5. QED BY <2>0, <3>3, <3>4 DEF NeighborsInv, NeighborsMatch
  <2>6. QED BY <1>2, <2>1, <2>2, <2>3, <2>4, <2>5 DEF VectorStep
<1>3. QED BY <1>1, <1>2 DEF VectorsNext

\* An answer is compared with the neighbours of the vector that was asked,
\* in every repetition and partition, unless another client of the worker has
\* asked its source meanwhile: for any number of clients, of vectors and of
\* repetitions.
THEOREM ComparedWithOwnNeighbors == Spec => []NeighborsMatch
<1>1. Init => NeighborsInv
  <2>1. ASSUME Init PROVE NeighborsInv
    <3>1. /\ source = <<>> /\ asked = <<>> /\ inquiry = <<>> /\ vstate = <<>>
          /\ VClients(vtask) = {} /\ DOMAIN <<>> = {}
      BY <2>1 DEF Init, VectorsInit, VClients, NoVectors
    <3>2. query.vector = query.neighbors /\ NeighborsMatch
      BY <2>1 DEF Init, VectorsInit, NotCompared, NeighborsMatch
    <3>3. QED BY <3>1, <3>2 DEF NeighborsInv
  <2>2. QED BY <2>1
<1>2. NeighborsInv /\ [Next]_vars => NeighborsInv'
  <2>1. SUFFICES ASSUME NeighborsInv, [Next]_vars PROVE NeighborsInv'
    OBVIOUS
  <2>2. CASE VectorsNext
    BY <2>1, <2>2, NextNeighbors
  <2>3. CASE UNCHANGED vectorVars
    BY <2>1, <2>3 DEF NeighborsInv, NeighborsMatch, SideBySide, VClients, vectorVars
  <2>4. QED
    BY <2>1, <2>2, <2>3 DEF Next, StartComposite, EndComposite, Searching, Vectors, vars
<1>3. NeighborsInv => NeighborsMatch
  BY DEF NeighborsInv
<1>4. QED BY <1>1, <1>2, <1>3, PTL DEF Spec

-----------------------------------------------------------------------------
(* Searches of several pages.                                                *)

\* The largest of consecutive numbers.
LEMMA LargestOfInterval ==
    ASSUME NEW a \in Nat, NEW b \in Nat, a <= b
    PROVE  Max(a..b) = b
<1>1. b \in a..b /\ \A y \in a..b : b >= y
  OBVIOUS
<1>2. \A x \in a..b : (\A y \in a..b : x >= y) => x = b
  BY <1>1
<1>3. QED BY <1>1, <1>2 DEF Max

\* The larger of one and a number.
LEMMA LargestOfTwo ==
    ASSUME NEW n \in Nat
    PROVE  Max({1, n}) = IF n > 1 THEN n ELSE 1
<1>1. CASE n > 1
  <2>1. \A x \in {1, n} : (\A y \in {1, n} : x >= y) <=> x = n
    BY <1>1
  <2>2. QED BY <1>1, <2>1 DEF Max
<1>2. CASE ~(n > 1)
  <2>1. \A x \in {1, n} : (\A y \in {1, n} : x >= y) <=> x = 1
    BY <1>2
  <2>2. QED BY <1>2, <2>1 DEF Max
<1>3. QED BY <1>1, <1>2

\* The number of pages that hold h hits: one more than the m full pages
\* before the last.
OnLastPage(h, z, m, p) ==
    p = m * z /\ (h > 0 => p < h) /\ (h = 0 => m = 0) /\ h <= p + z

\* The last page is the number that the runner computes.
LEMMA PagesOfHits ==
    ASSUME NEW h \in Nat, NEW z \in Nat \ {0}, NEW m \in Nat, NEW p \in Nat,
           OnLastPage(h, z, m, p)
    PROVE  /\ Max({1, (h + z - 1) \div z}) = m + 1
           /\ h > 0 => (h + z - 1) \div z = m + 1
<1>0. p = m * z /\ (h > 0 => p < h) /\ (h = 0 => m = 0) /\ h <= p + z
  BY DEF OnLastPage
<1>1. (m + 1) * z = p + z
  BY <1>0
<1>2. CASE h > 0
  <2>1. (h + z - 1) \in Nat /\ p + z <= h + z - 1 /\ h + z - 1 < p + z + z
    BY <1>0, <1>2
  <2>2. (h + z - 1) \div z = m + 1
    <3>1. PICK a \in Nat, q \in Nat : a = h + z - 1 /\ q = m + 1
      BY <2>1
    <3>2. q * z <= a /\ a < q * z + z
      BY ONLY <1>1, <2>1, <3>1
    <3>3. QED BY <3>1, <3>2, QuotientBounds
  <2>3. QED BY <2>2, LargestOfTwo
<1>3. CASE h = 0
  <2>1. 0 * z <= h + z - 1 /\ h + z - 1 < 0 * z + z /\ h + z - 1 \in Nat
    BY <1>3
  <2>2. (h + z - 1) \div z = 0
    BY <2>1, QuotientBounds
  <2>3. QED BY <1>0, <1>3, <2>2, LargestOfTwo
<1>4. QED BY <1>2, <1>3

\* Where a call stands: a paginated search at the end of its last full page,
\* unless an earlier call has left its position in the body, a scroll there or
\* at the last hit.
Paginated ==
    /\ after = page * search.size /\ seen = 1..after
    /\ page > 0 => page * search.size < search.hits

Scrolled ==
    /\ scrolled = IF page * search.size < search.hits THEN page * search.size ELSE search.hits
    /\ seen = 1..scrolled
    /\ page > 0 => (page - 1) * search.size < search.hits /\ search.size <= search.hits

SearchInv ==
    /\ calls \in {"none", "open", "returned", "failed"} /\ page \in Nat
    /\ calls # "none" => search \in Searches
    /\ calls # "open" /\ ~kept => after = 0
    /\ calls = "open" =>
          /\ search.kind = "paginated-search" /\ ~kept => Paginated
          /\ search.kind = "scroll-search" => Scrolled /\ (~kept => after = 0)
    /\ AllPages

\* The documents of a page are consecutive.
LEMMA PagesConsecutive ==
    ASSUME search \in Searches, NEW n \in Nat
    PROVE  PageAfter(n) = (n + 1)..(IF n + search.size < search.hits THEN n + search.size
                                    ELSE search.hits)
<1>1. search.hits \in Nat /\ search.size \in Nat
  BY SearchesAssumption
<1>2. QED BY <1>1 DEF PageAfter

\* A page of a paginated search.
LEMMA NextSearchAfter ==
    ASSUME SearchInv, SearchAfterPage
    PROVE  SearchInv'
<1>1. /\ calls = "open" /\ search.kind = "paginated-search" /\ search' = search
      /\ search \in Searches /\ page \in Nat /\ page' = page + 1
      /\ kept' = (kept \/ (MoreHits /\ LastPage))
      /\ calls' = IF MoreHits /\ ~LastPage THEN "open" ELSE "returned"
      /\ seen' = seen \union PageAfter(after)
      /\ after' = IF MoreHits /\ PageAfter(after) # {} THEN Max(PageAfter(after)) ELSE 0
  BY DEF SearchInv, SearchAfterPage
<1>2. search.hits \in Nat /\ search.size \in Nat \ {0} /\ search.kind # "scroll-search"
  BY <1>1, SearchesAssumption
<1>3. PICK z \in Nat \ {0}, h \in Nat : z = search.size /\ h = search.hits
  BY <1>2
<1>4. calls' \in {"none", "open", "returned", "failed"} /\ page' \in Nat /\ search' \in Searches
  BY <1>1
<1>5. CASE kept'
  BY <1>1, <1>2, <1>4, <1>5 DEF SearchInv, AllPages
<1>6. CASE ~kept'
  <2>1. ~kept /\ ~(MoreHits /\ LastPage) /\ Paginated
    BY <1>1, <1>6 DEF SearchInv
  <2>2. PICK p \in Nat : p = page * z
    BY <1>1, <1>3
  <2>3. (page + 1) * z = p + z
    BY <1>1, <2>2
  <2>4. after = p /\ seen = 1..p /\ (page > 0 => p < h) /\ (MoreHits <=> h > p + z)
    BY <1>1, <1>3, <2>1, <2>2, <2>3 DEF Paginated, MoreHits
  <2>5. PageAfter(p) = (p + 1)..(IF p + z < h THEN p + z ELSE h)
    BY <1>1, <1>3, PagesConsecutive
  <2>6. CASE MoreHits
    <3>1. PageAfter(p) = (p + 1)..(p + z) /\ PageAfter(p) # {}
      BY <2>4, <2>5, <2>6
    <3>2. Max(PageAfter(p)) = p + z
      BY <3>1, LargestOfInterval
    <3>3. calls' = "open" /\ after' = p + z /\ seen' = 1..(p + z)
      BY <1>1, <2>1, <2>4, <2>6, <3>1, <3>2
    <3>4. Paginated'
      BY <1>1, <1>3, <2>3, <2>4, <2>6, <3>3 DEF Paginated
    <3>5. QED BY <1>1, <1>2, <1>4, <3>3, <3>4 DEF SearchInv, AllPages
  <2>7. CASE ~MoreHits
    <3>1. calls' = "returned" /\ after' = 0
      BY <1>1, <2>7
    <3>2. h <= p + z
      BY <2>4, <2>7
    <3>3. p <= h
      <4>1. page = 0 => p = 0
        BY <2>2
      <4>2. QED BY <1>1, <2>4, <4>1
    <3>4. seen' = 1..h
      BY <1>1, <2>4, <2>5, <3>2, <3>3
    <3>5. page' = Max({1, (h + z - 1) \div z})
      <4>1. (h > 0 => p < h) /\ (h = 0 => page = 0)
        BY <1>1, <2>2, <2>4
      <4>2. page \in Nat /\ p = page * z
        BY <1>1, <2>2
      <4>3. Max({1, (h + z - 1) \div z}) = page + 1
        <5>1. OnLastPage(h, z, page, p)
          BY ONLY <3>2, <4>1, <4>2 DEF OnLastPage
        <5>2. QED BY <4>2, <5>1, PagesOfHits
      <4>4. QED BY <1>1, <4>3
    <3>6. AllPages'
      BY <1>1, <1>3, <3>4, <3>5 DEF AllPages
    <3>7. QED BY <1>4, <3>1, <3>6 DEF SearchInv
  <2>8. QED BY <2>6, <2>7
<1>7. QED BY <1>5, <1>6

\* A page of a scroll.
LEMMA NextScroll ==
    ASSUME SearchInv, ScrollPage
    PROVE  SearchInv'
<1>1. /\ calls = "open" /\ search.kind = "scroll-search" /\ search' = search
      /\ search \in Searches /\ page \in Nat /\ page' = page + 1
      /\ UNCHANGED <<after, kept>> /\ Scrolled /\ (~kept => after = 0)
      /\ seen' = seen \union PageAfter(scrolled)
      /\ scrolled' = scrolled + Cardinality(PageAfter(scrolled))
  BY DEF SearchInv, ScrollPage
<1>. DEFINE col == IF page = 0 THEN search.hits < search.size \/ search.hits = 0
                   ELSE PageAfter(scrolled) = {}
<1>2. calls' = IF col \/ LastPage THEN "returned" ELSE "open"
  BY DEF ScrollPage
<1>3. PICK z \in Nat \ {0}, h \in Nat : z = search.size /\ h = search.hits
  BY <1>1, SearchesAssumption
<1>4. /\ calls' \in {"none", "open", "returned", "failed"} /\ page' \in Nat
      /\ search' \in Searches /\ search'.kind # "paginated-search"
  BY <1>1, <1>2
<1>5. PICK p \in Nat : p = page * z
  BY <1>1, <1>3
<1>6. (page + 1) * z = p + z /\ (page = 0 => p = 0) /\ (page > 0 => (page - 1) * z = p - z)
  <2>1. (page + 1) * z = p + z /\ (page = 0 => p = 0)
    BY <1>1, <1>5
  <2>2. ASSUME page > 0 PROVE (page - 1) * z = p - z
    <3>1. PICK m \in Nat : m = page - 1
      BY <1>1, <2>2
    <3>2. (m + 1) * z = m * z + z /\ m * z \in Nat /\ page = m + 1
      BY <1>1, <3>1
    <3>3. QED BY <1>5, <3>1, <3>2
  <2>3. QED BY <2>1, <2>2
<1>7. PICK n \in Nat : n = scrolled
  BY <1>1, <1>3, <1>5 DEF Scrolled
<1>8. /\ n = IF p < h THEN p ELSE h
      /\ seen = 1..n
      /\ page > 0 => p - z < h /\ z <= h
  BY <1>1, <1>3, <1>5, <1>6, <1>7 DEF Scrolled
<1>9. PICK m \in Nat : m = IF p + z < h THEN p + z ELSE h
  OBVIOUS
<1>10. PageAfter(n) = (n + 1)..m /\ n <= m
  <2>1. PageAfter(n) = (n + 1)..(IF n + z < h THEN n + z ELSE h)
    BY <1>1, <1>3, PagesConsecutive
  <2>2. CASE p < h
    BY <1>8, <1>9, <2>1, <2>2
  <2>3. CASE p >= h
    <3>1. n = h /\ m = h
      BY <1>8, <1>9, <2>3
    <3>2. QED BY <2>1, <3>1
  <2>4. QED BY <2>2, <2>3
<1>11. scrolled' = m /\ seen' = 1..m
  <2>1. Cardinality((n + 1)..m) = m - n
    <3>1. n + 1 \in Int /\ m \in Int
      OBVIOUS
    <3>2. Cardinality((n + 1)..m) = IF n + 1 > m THEN 0 ELSE m - (n + 1) + 1
      BY <3>1, FS_Interval
    <3>3. QED BY <1>10, <3>2
  <2>2. QED BY <1>1, <1>7, <1>8, <1>10, <2>1
<1>12. CASE calls' = "open"
  <2>1. ~col
    BY <1>2, <1>12
  <2>2. p < h /\ z <= h
    <3>1. CASE page = 0
      BY <1>2, <1>3, <1>6, <2>1, <3>1
    <3>2. CASE page > 0
      <4>1. (n + 1)..m # {}
        <5>1. page # 0 /\ ~(PageAfter(scrolled) = {})
          BY <1>1, <2>1, <3>2
        <5>2. QED BY <1>7, <1>10, <5>1
      <4>2. n < m
        BY <4>1
      <4>3. QED BY <1>8, <1>9, <3>2, <4>2
    <3>3. QED BY <1>1, <3>1, <3>2
  <2>3. page' - 1 = page
    BY <1>1
  <2>4. Scrolled'
    BY <1>1, <1>3, <1>5, <1>6, <1>9, <1>11, <2>2, <2>3 DEF Scrolled
  <2>5. QED BY <1>1, <1>4, <1>12, <2>4 DEF SearchInv, AllPages
<1>13. CASE calls' = "returned"
  <2>1. ASSUME search.pages = 0 PROVE col
    BY <1>2, <1>13, <2>1 DEF LastPage
  <2>2. ASSUME col, page = 0
        PROVE  h < z /\ seen' = 1..h /\ page' = Max({1, (h + z - 1) \div z})
    <3>1. h < z /\ p = 0 /\ page' = 1
      BY <1>1, <1>2, <1>3, <1>6, <2>2
    <3>2. Max({1, (h + z - 1) \div z}) = 0 + 1
      <4>1. OnLastPage(h, z, 0, 0)
        BY <3>1 DEF OnLastPage
      <4>2. QED BY <4>1, PagesOfHits
    <3>3. QED BY <1>9, <1>11, <3>1, <3>2
  <2>3. ASSUME col, page > 0
        PROVE  ~(h < z) /\ seen' = 1..h /\ page' = (h + z - 1) \div z + 1
    <3>1. (n + 1)..m = {}
      BY <1>1, <1>2, <1>7, <1>10, <2>3
    <3>2. m <= n
      BY <3>1
    <3>3. h <= p /\ m = h /\ z <= h
      BY <1>8, <1>9, <2>3, <3>2
    <3>4. PICK k \in Nat : k = page - 1
      BY <1>1, <2>3
    <3>5. k * z = p - z /\ p - z \in Nat
      <4>1. k * z \in Nat
        BY <3>4
      <4>2. QED BY <1>6, <2>3, <3>4, <4>1
    <3>6. (h + z - 1) \div z = k + 1
      <4>1. OnLastPage(h, z, k, p - z) /\ h > 0
        BY <1>8, <2>3, <3>3, <3>5 DEF OnLastPage
      <4>2. QED BY <3>5, <4>1, PagesOfHits
    <3>7. QED BY <1>1, <1>11, <3>3, <3>4, <3>6
  <2>4. AllPages'
    BY <1>1, <1>3, <2>1, <2>2, <2>3 DEF AllPages
  <2>5. QED BY <1>1, <1>4, <1>13, <2>4 DEF SearchInv
<1>14. QED BY <1>2, <1>12, <1>13

\* A multi-page search without a page limit returns every document that
\* matches, and as many pages as it reports, for any number of hits and any
\* page size - unless an earlier call has left its position in the body.
THEOREM EveryPageRetrieved == Spec => []AllPages
<1>1. Init => SearchInv
  BY DEF Init, SearchesInit, SearchInv, AllPages
<1>2. SearchInv /\ [Next]_vars => SearchInv'
  <2>1. SUFFICES ASSUME SearchInv, [Next]_vars PROVE SearchInv'
    OBVIOUS
  <2>2. CASE StartSearch
    <3>1. /\ search' \in Searches /\ calls' = "open" /\ page' = 0 /\ seen' = {}
          /\ scrolled' = 0 /\ UNCHANGED <<after, kept>> /\ (~kept => after = 0)
      BY <2>1, <2>2 DEF StartSearch, SearchInv
    <3>2. PICK z \in Nat \ {0}, h \in Nat : z = search'.size /\ h = search'.hits
      BY <3>1, SearchesAssumption
    <3>3. 0 * z = 0 /\ 1..0 = {}
      OBVIOUS
    <3>4. Scrolled'
      BY <3>1, <3>2, <3>3 DEF Scrolled
    <3>5. ~kept => Paginated'
      BY <3>1, <3>2, <3>3 DEF Paginated
    <3>6. QED BY <3>1, <3>4, <3>5 DEF SearchInv, AllPages
  <2>3. CASE SearchFails
    BY <2>1, <2>3 DEF SearchFails, SearchInv, AllPages
  <2>4. CASE SearchesNext
    BY <2>1, <2>2, <2>3, <2>4, NextSearchAfter, NextScroll DEF SearchesNext
  <2>5. CASE UNCHANGED searchVars
    BY <2>1, <2>5 DEF SearchInv, AllPages, Paginated, Scrolled, searchVars
  <2>6. QED
    BY <2>1, <2>4, <2>5 DEF Next, StartComposite, EndComposite, Searching, Vectors, vars
<1>3. SearchInv => AllPages
  BY DEF SearchInv
<1>4. QED BY <1>1, <1>2, <1>3, PTL DEF Spec

-----------------------------------------------------------------------------
(* Single runners: the timings of their request contexts.                    *)

\* The readings of context c up to time t: a request on the wire is recorded
\* inside a bracket, and with it an end after its start.
Fits(c, t) ==
    /\ c \in Context
    /\ c.clientStart <= t /\ c.start <= t /\ c.clientEnd <= t
    /\ \A e \in c.ends : e <= t
    /\ c.start # 0 => /\ c.clientStart # 0 /\ c.clientStart < c.start
                      /\ \E e \in c.ends : c.start < e

\* A bracket has been closed after the end of a request.
Closed(c) == c.start # 0 /\ \E e \in c.ends : c.start < e /\ e < c.clientEnd

\* A set of numbers that has an upper bound has a largest one.
LEMMA LargestNumber ==
    ASSUME NEW S, NEW b \in Nat, S \in SUBSET (0..b), S # {}
    PROVE  Max(S) \in S /\ \A y \in S : Max(S) >= y
<1>1. PICK T : T = {n \in Nat : b - n \in S}
  OBVIOUS
<1>2. T \in SUBSET Nat /\ T # {}
  <2>1. PICK s \in S : TRUE
    OBVIOUS
  <2>2. s \in 0..b /\ b - s \in Nat /\ b - (b - s) = s
    OBVIOUS
  <2>3. QED BY <1>1, <2>2
<1>3. PICK n \in T : \A m \in T : n <= m
  BY <1>2, LeastNumber
<1>4. b - n \in S /\ n \in Nat
  BY <1>1, <1>3
<1>5. ASSUME NEW y \in S PROVE b - n >= y
  <2>1. y \in 0..b /\ b - y \in Nat /\ b - (b - y) = y
    OBVIOUS
  <2>2. b - y \in T
    BY <1>1, <2>1
  <2>3. n <= b - y
    BY <1>3, <2>2
  <2>4. QED BY <1>4, <2>1, <2>3
<1>6. \E x \in S : \A y \in S : x >= y
  BY <1>4, <1>5
<1>7. QED BY <1>6 DEF Max

\* What the sample reads from such a context.
LEMMA ClosedReadable ==
    ASSUME NEW c, NEW t \in Nat, Fits(c, t), Closed(c)
    PROVE  Readable(c) /\ c.clientStart < c.start /\ c.start < RequestEnd(c)
<1>1. /\ c \in Context /\ c.start # 0 /\ c.clientStart # 0 /\ c.clientStart < c.start
      /\ c.start \in Nat /\ c.clientEnd \in Nat /\ c.ends \in SUBSET Nat /\ c.clientStart \in Nat
  BY DEF Fits, Closed, Context
<1>2. PICK e \in c.ends : c.start < e /\ e < c.clientEnd
  BY DEF Closed
<1>3. e \in CoveredEnds(c) /\ e \in Nat
  BY <1>1, <1>2 DEF CoveredEnds
<1>4. CoveredEnds(c) \in SUBSET (0..c.clientEnd)
  BY <1>1 DEF CoveredEnds
<1>5. RequestEnd(c) \in CoveredEnds(c) /\ RequestEnd(c) >= e
  BY <1>1, <1>3, <1>4, LargestNumber DEF RequestEnd
<1>6. RequestEnd(c) \in Nat
  BY <1>1, <1>5 DEF CoveredEnds
<1>7. c.clientEnd # 0
  BY <1>1, <1>2, <1>3
<1>8. QED BY <1>1, <1>2, <1>3, <1>5, <1>6, <1>7 DEF Readable

\* on_client_request_start, when no earlier reading is above t.
LEMMA StartFits ==
    ASSUME NEW c, NEW t \in Nat, NEW u \in Nat, Fits(c, t), t < u
    PROVE  /\ Fits(ClientStart(c, u), u)
           /\ ClientStart(c, u).clientStart # 0 /\ ClientStart(c, u).start = c.start
           /\ ClientStart(c, u).ends = c.ends /\ ClientStart(c, u).clientEnd = c.clientEnd
<1>1. /\ c \in Context /\ c.clientStart \in Nat /\ c.start \in Nat /\ c.clientEnd \in Nat
      /\ c.ends \in SUBSET Nat
  BY DEF Fits, Context
<1>2. CASE c.clientStart = 0
  <2>1. PICK d : d = [c EXCEPT !.clientStart = u]
    OBVIOUS
  <2>2. /\ d \in Context /\ d.clientStart = u /\ d.start = c.start /\ d.ends = c.ends
        /\ d.clientEnd = c.clientEnd
    BY <1>1, <2>1 DEF Context
  <2>3. c.start = 0
    BY <1>2 DEF Fits
  <2>4. Fits(d, u)
    BY <1>1, <2>2, <2>3 DEF Fits
  <2>5. QED BY <1>2, <2>1, <2>2, <2>4 DEF ClientStart
<1>3. CASE c.clientStart # 0
  <2>1. Fits(c, u)
    BY <1>1 DEF Fits
  <2>2. QED BY <1>3, <2>1 DEF ClientStart
<1>4. QED BY <1>2, <1>3

\* on_client_request_end: a bracket that is closed covers what has ended.
LEMMA EndFits ==
    ASSUME NEW c, NEW t \in Nat, NEW u \in Nat, Fits(c, t), t < u
    PROVE  /\ Fits(ClientEnd(c, u), u)
           /\ ClientEnd(c, u).start = c.start /\ ClientEnd(c, u).clientStart = c.clientStart
           /\ c.start # 0 => Closed(ClientEnd(c, u))
<1>1. /\ c \in Context /\ c.clientStart \in Nat /\ c.start \in Nat /\ c.clientEnd \in Nat
      /\ c.ends \in SUBSET Nat
  BY DEF Fits, Context
<1>2. PICK d : d = ClientEnd(c, u)
  OBVIOUS
<1>3. /\ d \in Context /\ d.clientStart = c.clientStart /\ d.start = c.start /\ d.ends = c.ends
      /\ d.clientEnd = u
  BY <1>1, <1>2 DEF Context, ClientEnd
<1>4. Fits(d, u)
  BY <1>1, <1>3 DEF Fits
<1>5. ASSUME c.start # 0 PROVE Closed(d)
  <2>1. PICK e \in c.ends : c.start < e /\ e <= t
    BY <1>5 DEF Fits
  <2>2. e < u
    BY <1>1, <2>1
  <2>3. QED BY <1>3, <1>5, <2>1, <2>2 DEF Closed
<1>6. QED BY <1>2, <1>3, <1>4, <1>5

\* A request on the wire: on_request_start and on_request_end of its hooks.
LEMMA WireFits ==
    ASSUME NEW c, NEW t \in Nat, NEW u \in Nat, Fits(c, t), t < u
    PROVE  LET d == WireEnd(WireStart(c, u), u + 1)
           IN  /\ Fits(d, u + 1) /\ (c.clientStart # 0 => d.start # 0)
               /\ d.clientStart = c.clientStart
               /\ c.start # 0 => d.start = c.start /\ c.ends \subseteq d.ends
               /\ d.clientEnd = c.clientEnd
<1>1. /\ c \in Context /\ c.clientStart \in Nat /\ c.start \in Nat /\ c.clientEnd \in Nat
      /\ c.ends \in SUBSET Nat
  BY DEF Fits, Context
<1>2. PICK b : b = WireStart(c, u)
  OBVIOUS
<1>3. /\ b \in Context /\ b.clientStart = c.clientStart /\ b.ends = c.ends
      /\ b.clientEnd = c.clientEnd
      /\ b.start = IF c.start = 0 /\ c.clientStart # 0 THEN u ELSE c.start
  BY <1>1, <1>2 DEF Context, WireStart
<1>4. PICK d : d = WireEnd(b, u + 1)
  OBVIOUS
<1>5. /\ d \in Context /\ d.clientStart = b.clientStart /\ d.start = b.start
      /\ d.ends = b.ends \union {u + 1} /\ d.clientEnd = b.clientEnd
  <2>1. b.ends \union {u + 1} \in SUBSET Nat
    BY <1>1, <1>3
  <2>2. QED BY <1>3, <1>4, <2>1 DEF WireEnd, Context
<1>6. Fits(d, u + 1)
  <2>1. /\ d.clientStart <= u + 1 /\ d.start <= u + 1 /\ d.clientEnd <= u + 1
        /\ \A e \in d.ends : e <= u + 1
    BY <1>1, <1>3, <1>5 DEF Fits
  <2>2. ASSUME d.start # 0
        PROVE  d.clientStart # 0 /\ d.clientStart < d.start /\ u + 1 \in d.ends /\ d.start < u + 1
    BY <1>1, <1>3, <1>5, <2>2 DEF Fits
  <2>3. QED BY <1>5, <2>1, <2>2 DEF Fits
<1>7. QED BY <1>1, <1>2, <1>3, <1>4, <1>5, <1>6

\* The context of the runner after its next request, before a bracket closes.
LEMMA SentFits ==
    ASSUME NEW r, clock \in Nat, Fits(ctx, clock)
    PROVE  /\ Fits(Sent(r), clock + 3)
           /\ OnWire(r) /\ (ctx.clientStart # 0 \/ "open" \in r.bracket) => Sent(r).start # 0
           /\ ctx.clientStart # 0 => Sent(r).clientStart # 0
           /\ ctx.start # 0 => Sent(r).start # 0
           /\ Closed(ctx) => Closed(Sent(r))
<1>1. CASE Local(r) /\ r.verb # "sleep"
  <2>1. Sent(r) = ctx /\ ~OnWire(r)
    BY <1>1 DEF Sent, OnWire
  <2>2. Fits(ctx, clock + 3)
    BY DEF Fits, Context
  <2>3. QED BY <2>1, <2>2
<1>2. CASE ~(Local(r) /\ r.verb # "sleep")
  <2>1. PICK c : c = IF "open" \in r.bracket THEN ClientStart(ctx, clock + 1) ELSE ctx
    OBVIOUS
  <2>2. /\ Fits(c, clock + 1)
        /\ ctx.clientStart # 0 \/ "open" \in r.bracket => c.clientStart # 0
        /\ c.start = ctx.start /\ c.ends = ctx.ends /\ c.clientEnd = ctx.clientEnd
    <3>1. CASE "open" \in r.bracket
      BY <2>1, <3>1, StartFits
    <3>2. CASE "open" \notin r.bracket
      <4>1. Fits(ctx, clock + 1)
        BY DEF Fits, Context
      <4>2. QED BY <2>1, <3>2, <4>1
    <3>3. QED BY <3>1, <3>2
  <2>3. PICK d : d = WireEnd(WireStart(c, clock + 2), clock + 3)
    OBVIOUS
  <2>4. clock + 1 \in Nat /\ clock + 2 \in Nat /\ (clock + 2) + 1 = clock + 3 /\ clock + 1 < clock + 2
    OBVIOUS
  <2>5. /\ Fits(d, clock + 3) /\ (c.clientStart # 0 => d.start # 0)
        /\ d.clientStart = c.clientStart
        /\ c.start # 0 => d.start = c.start /\ c.ends \subseteq d.ends
        /\ d.clientEnd = c.clientEnd
    <3>1. PICK u : u = clock + 2
      OBVIOUS
    <3>2. d = WireEnd(WireStart(c, u), u + 1) /\ u \in Nat /\ clock + 1 < u /\ u + 1 = clock + 3
      BY <2>3, <2>4, <3>1
    <3>3. QED BY <2>2, <2>4, <3>2, WireFits
  <2>6. Sent(r) = d
    BY <1>2, <2>1, <2>3 DEF Sent
  <2>7. ctx.start # 0 => d.start # 0
    <3>1. ctx.start # 0 => c.start # 0 /\ d.start = c.start
      BY <2>2, <2>5
    <3>2. QED BY <3>1
  <2>8. Closed(ctx) => Closed(d)
    <3>1. SUFFICES ASSUME Closed(ctx) PROVE Closed(d)
      OBVIOUS
    <3>2. ctx.start # 0 /\ d.start = ctx.start /\ ctx.ends \subseteq d.ends /\ d.clientEnd = ctx.clientEnd
      BY <2>2, <2>5, <3>1 DEF Closed
    <3>3. QED BY <3>1, <3>2 DEF Closed
  <2>9. QED BY <2>2, <2>5, <2>6, <2>7, <2>8
<1>3. QED BY <1>1, <1>2

\* Where the runner is: its request has been sent, its bracket has been
\* opened, its measurement has begun and has been closed.
Stamped ==
    /\ op.timed => ctx.clientStart # 0
    /\ \A k \in DOMAIN op.requests :
          /\ Inevitable(op, k) /\ OnWire(op.requests[k]) /\ (op.timed \/ k = 1) =>
                pc <= k \/ ctx.start # 0
          /\ ~op.timed /\ Inevitable(op, k) /\ "close" \in op.requests[k].bracket =>
                pc <= k \/ Closed(ctx)

RunnerInv ==
    /\ phase # "composite"
    /\ clock \in Nat /\ pc \in Nat \ {0}
    /\ phase \in {"running", "returned", "failed"} => op \in Operations /\ Fits(ctx, clock)
    /\ phase = "running" /\ Instrumented(op) => Stamped
    /\ phase \in {"returned", "failed"} /\ Instrumented(op) => Closed(ctx)

\* The requests of a runner are numbered from 1.
LEMMA RequestNumbers ==
    ASSUME NEW o \in Operations
    PROVE  /\ Len(o.requests) \in Nat /\ DOMAIN o.requests = 1..Len(o.requests)
           /\ \A i \in DOMAIN o.requests :
                 o.requests[i].skip[1] \in Nat /\ o.requests[i].skip[2] \in Nat
           /\ o.timed \in BOOLEAN
<1>1. WellFormedRunner(o)
  BY OperationsAssumption
<1>2. PICK S : S = ToSet(o.requests)
  OBVIOUS
<1>3. o.requests \in Seq(S)
  BY <1>1, <1>2 DEF WellFormedRunner
<1>4. QED BY <1>1, <1>3 DEF WellFormedRunner

\* A request that is answered: the runner passes a request that every call
\* sends only when it is its turn.
LEMMA PassesInTurn ==
    ASSUME RunnerInv, Answered, NEW k, Inevitable(op, k), pc <= k, pc' > k
    PROVE  pc = k /\ ~Waiting(op.requests[pc])
<1>1. /\ phase = "running" /\ pc \in Nat \ {0} /\ op \in Operations /\ pc <= Len(op.requests)
      /\ pc' = IF Waiting(op.requests[pc]) THEN pc
               ELSE pc + 1 + op.requests[pc].skip[IF Present(op.requests[pc]) THEN 1 ELSE 2]
  BY DEF RunnerInv, Answered, Due
<1>2. k \in Nat /\ k \in DOMAIN op.requests
  BY <1>1, RequestNumbers DEF Inevitable
<1>3. ~Waiting(op.requests[pc])
  BY <1>1, <1>2
<1>4. CASE pc < k
  <2>1. pc \in 1..(k - 1)
    BY <1>1, <1>2, <1>4
  <2>2. op.requests[pc].skip = <<0, 0>>
    BY <2>1 DEF Inevitable
  <2>3. op.requests[pc].skip[1] = 0 /\ op.requests[pc].skip[2] = 0
    BY <2>2
  <2>4. pc' = pc + 1 + 0
    BY <1>1, <1>3, <2>3
  <2>5. QED BY <1>1, <1>2, <1>4, <2>4
<1>5. QED BY <1>1, <1>2, <1>3, <1>4

\* The request that begins the measurement of an instrumented runner.
LEMMA FirstStamp ==
    ASSUME NEW o \in Operations, Instrumented(o), ~o.timed
    PROVE  /\ 1 \in DOMAIN o.requests /\ Inevitable(o, 1) /\ OnWire(o.requests[1])
           /\ "open" \in o.requests[1].bracket
<1>1. ClosesBracket(o)
  BY OperationsAssumption DEF WellFormedRunner
<1>2. QED BY <1>1 DEF ClosesBracket, Instrumented

\* A request on the wire is recorded, whichever it is.
LEMMA SentMeasured ==
    ASSUME RunnerInv, phase = "running", Instrumented(op), pc \in DOMAIN op.requests,
           OnWire(op.requests[pc])
    PROVE  Sent(op.requests[pc]).start # 0
<1>1. /\ clock \in Nat /\ Fits(ctx, clock) /\ op \in Operations /\ Stamped /\ pc \in Nat \ {0}
  BY DEF RunnerInv
<1>2. CASE op.timed
  BY <1>1, <1>2, SentFits DEF Stamped
<1>3. CASE ~op.timed
  <2>1. /\ 1 \in DOMAIN op.requests /\ Inevitable(op, 1) /\ OnWire(op.requests[1])
        /\ "open" \in op.requests[1].bracket
    BY <1>1, <1>3, FirstStamp
  <2>2. CASE pc = 1
    <3>1. "open" \in op.requests[pc].bracket
      BY <2>1, <2>2
    <3>2. QED BY <1>1, <3>1, SentFits
  <2>3. CASE pc # 1
    <3>1. pc <= 1 \/ ctx.start # 0
      BY <1>1, <2>1 DEF Stamped
    <3>2. ctx.start # 0
      BY <1>1, <2>3, <3>1
    <3>3. QED BY <1>1, <3>2, SentFits
  <2>4. QED BY <2>2, <2>3
<1>4. QED BY <1>2, <1>3

\* The request is answered.
LEMMA AnsweredStamps ==
    ASSUME RunnerInv, Answered
    PROVE  RunnerInv'
<1>1. /\ clock \in Nat /\ Fits(ctx, clock) /\ op \in Operations /\ pc \in Nat \ {0}
      /\ phase = "running" /\ pc <= Len(op.requests) /\ clock' = clock + 4
      /\ op' = op /\ phase' = phase
  BY DEF RunnerInv, Answered, Due
<1>2. PICK r : r = op.requests[pc]
  OBVIOUS
<1>3. /\ ctx' = IF ClosesNow(r) THEN ClientEnd(Sent(r), clock + 4) ELSE Sent(r)
      /\ pc' = IF Waiting(r) THEN pc ELSE pc + 1 + r.skip[IF Present(r) THEN 1 ELSE 2]
  BY <1>2 DEF Answered
<1>4. pc \in DOMAIN op.requests /\ r.skip[1] \in Nat /\ r.skip[2] \in Nat
  BY <1>1, <1>2, RequestNumbers
<1>5. pc' \in Nat \ {0} /\ pc' >= pc
  <2>1. CASE Waiting(r)
    BY <1>1, <1>3, <2>1
  <2>2. CASE ~Waiting(r) /\ Present(r)
    <3>1. pc' = pc + 1 + r.skip[1]
      BY <1>3, <2>2
    <3>2. QED BY <1>1, <1>4, <3>1
  <2>3. CASE ~Waiting(r) /\ ~Present(r)
    <3>1. pc' = pc + 1 + r.skip[2]
      BY <1>3, <2>3
    <3>2. QED BY <1>1, <1>4, <3>1
  <2>4. QED BY <2>1, <2>2, <2>3
<1>6. PICK s : s = Sent(r)
  OBVIOUS
<1>7. /\ Fits(s, clock + 3)
      /\ ctx.clientStart # 0 => s.clientStart # 0
      /\ ctx.start # 0 => s.start # 0
      /\ Closed(ctx) => Closed(s)
  BY <1>1, <1>6, SentFits
<1>8. /\ Fits(ctx', clock + 4) /\ ctx'.clientStart = s.clientStart /\ ctx'.start = s.start
      /\ ClosesNow(r) /\ s.start # 0 => Closed(ctx')
      /\ Closed(s) => Closed(ctx')
  <2>1. clock + 3 \in Nat /\ clock + 4 \in Nat /\ clock + 3 < clock + 4
    BY <1>1
  <2>2. CASE ClosesNow(r)
    <3>1. ctx' = ClientEnd(s, clock + 4)
      BY <1>3, <1>6, <2>2
    <3>2. s.start # 0 => Closed(ctx')
      BY <1>7, <2>1, <3>1, EndFits
    <3>3. Fits(ctx', clock + 4) /\ ctx'.clientStart = s.clientStart /\ ctx'.start = s.start
      BY <1>7, <2>1, <3>1, EndFits
    <3>4. Closed(s) => s.start # 0
      BY DEF Closed
    <3>5. QED BY <3>2, <3>3, <3>4
  <2>3. CASE ~ClosesNow(r)
    <3>1. ctx' = s
      BY <1>3, <1>6, <2>3
    <3>2. Fits(s, clock + 4)
      BY <1>1, <1>7 DEF Fits, Context
    <3>3. QED BY <2>3, <3>1, <3>2
  <2>4. QED BY <2>2, <2>3
<1>9. ASSUME Instrumented(op) PROVE Stamped'
  <2>1. Stamped
    BY <1>1, <1>9 DEF RunnerInv
  <2>2. op.timed => ctx'.clientStart # 0
    BY <1>7, <1>8, <2>1 DEF Stamped
  <2>3. ASSUME NEW k \in DOMAIN op.requests, Inevitable(op, k), OnWire(op.requests[k]),
               op.timed \/ k = 1, pc' > k
        PROVE  ctx'.start # 0
    <3>1. CASE pc <= k
      <4>1. pc = k
        BY <2>3, <3>1, PassesInTurn
      <4>2. s.start # 0
        BY <1>1, <1>2, <1>4, <1>6, <1>9, <2>3, <4>1, SentMeasured
      <4>3. QED BY <1>8, <4>2
    <3>2. CASE ~(pc <= k)
      BY <1>7, <1>8, <2>1, <2>3, <3>2 DEF Stamped
    <3>3. QED BY <3>1, <3>2
  <2>4. ASSUME NEW k \in DOMAIN op.requests, ~op.timed, Inevitable(op, k),
               "close" \in op.requests[k].bracket, pc' > k
        PROVE  Closed(ctx')
    <3>1. CASE pc <= k
      <4>1. pc = k /\ ~Waiting(r)
        BY <1>2, <2>4, <3>1, PassesInTurn
      <4>2. ClosesNow(r)
        BY <1>2, <2>4, <4>1 DEF ClosesNow
      <4>3. s.start # 0
        <5>1. CASE pc = 1
          <6>1. OnWire(op.requests[pc])
            BY <1>1, <1>9, <2>4, <5>1, FirstStamp
          <6>2. QED BY <1>1, <1>2, <1>4, <1>6, <1>9, <6>1, SentMeasured
        <5>2. CASE pc # 1
          <6>1. /\ 1 \in DOMAIN op.requests /\ Inevitable(op, 1) /\ OnWire(op.requests[1])
            BY <1>1, <1>9, <2>4, FirstStamp
          <6>2. pc <= 1 \/ ctx.start # 0
            BY <2>1, <6>1 DEF Stamped
          <6>3. ctx.start # 0
            BY <1>1, <5>2, <6>2
          <6>4. QED BY <1>7, <6>3
        <5>3. QED BY <5>1, <5>2
      <4>4. QED BY <1>8, <4>2, <4>3
    <3>2. CASE ~(pc <= k)
      BY <1>7, <1>8, <2>1, <2>4, <3>2 DEF Stamped
    <3>3. QED BY <3>1, <3>2
  <2>5. ASSUME NEW k \in DOMAIN op.requests PROVE ~(pc' > k) <=> pc' <= k
    BY <1>1, <1>5, RequestNumbers
  <2>6. QED BY <1>1, <2>2, <2>3, <2>4, <2>5 DEF Stamped, Inevitable, OnWire, Local
<1>10. QED
  <2>1. phase' # "composite" /\ clock' \in Nat /\ Fits(ctx', clock') /\ op' \in Operations
    BY <1>1, <1>8
  <2>2. Instrumented(op') <=> Instrumented(op)
    BY <1>1
  <2>3. QED BY <1>1, <1>5, <1>9, <2>1, <2>2 DEF RunnerInv, Instrumented

\* Retry calls the runner again: the readings so far stay.
LEMMA AgainStamps ==
    ASSUME op \in Operations, op' = op, phase = "running", NEW c, NEW u \in Nat, NEW t \in Nat,
           Fits(c, u), u < t, op.timed => c.clientStart # 0,
           CallAgain(c, t), clock' = t
    PROVE  RunnerInv'
<1>1. pc' = 1 /\ phase' = "running"
      /\ ctx' = IF op.timed THEN ClientStart(ClientEnd(c, t), t) ELSE c
  BY DEF CallAgain
<1>2. Fits(ctx', t) /\ (op.timed => ctx'.clientStart # 0)
  <2>1. CASE op.timed
    <3>1. PICK d : d = ClientEnd(c, t)
      OBVIOUS
    <3>2. Fits(d, t) /\ d.clientStart = c.clientStart
      BY <3>1, EndFits
    <3>3. d.clientStart # 0
      BY <2>1, <3>2
    <3>4. ctx' = d
      BY <1>1, <2>1, <3>1, <3>3 DEF ClientStart
    <3>5. QED BY <3>2, <3>3, <3>4
  <2>2. CASE ~op.timed
    <3>1. Fits(c, t)
      BY DEF Fits, Context
    <3>2. QED BY <1>1, <2>2, <3>1
  <2>3. QED BY <2>1, <2>2
<1>3. \A k \in DOMAIN op'.requests : pc' <= k
  BY <1>1, RequestNumbers
<1>4. Stamped'
  BY <1>2, <1>3 DEF Stamped
<1>5. QED BY <1>1, <1>2, <1>4 DEF RunnerInv

\* A request that ends in an exception: Retry and the error handler of
\* execute_single.
LEMMA FailsStamps ==
    ASSUME RunnerInv, Due, NEW error, ~Local(op.requests[pc]), Fails(op.requests[pc], error)
    PROVE  RunnerInv'
<1>1. /\ clock \in Nat /\ Fits(ctx, clock) /\ op \in Operations /\ pc \in Nat \ {0}
      /\ phase = "running" /\ pc <= Len(op.requests) /\ clock' = clock + 4 /\ op' = op
  BY DEF RunnerInv, Due, Fails
<1>2. PICK r, s : r = op.requests[pc] /\ s = Sent(r)
  OBVIOUS
<1>3. /\ pc \in DOMAIN op.requests /\ OnWire(r)
  BY <1>1, <1>2, RequestNumbers DEF OnWire
<1>4. /\ Fits(s, clock + 3)
      /\ ctx.clientStart # 0 => s.clientStart # 0
      /\ ctx.start # 0 => s.start # 0
      /\ Closed(ctx) => Closed(s)
  BY <1>1, <1>2, SentFits
<1>5. /\ Instrumented(op) => s.start # 0
      /\ op.timed => s.clientStart # 0
  <2>1. Instrumented(op) => s.start # 0
    BY <1>1, <1>2, <1>3, SentMeasured
  <2>2. op.timed => s.clientStart # 0
    BY <1>1, <1>4 DEF RunnerInv, Stamped, Instrumented
  <2>3. QED BY <2>1, <2>2
<1>6. clock + 3 \in Nat /\ clock + 4 \in Nat /\ clock + 3 < clock + 4
  BY <1>1
<1>7. CASE CallAgain(s, clock + 4)
  BY <1>1, <1>4, <1>5, <1>6, <1>7, AgainStamps
<1>8. CASE GiveUp(error, s, clock + 4)
  <2>1. /\ phase' \in {"aborted", "failed"} /\ ctx' = ClientEnd(s, clock + 4) /\ pc' = pc
    BY <1>8 DEF GiveUp
  <2>2. Fits(ctx', clock + 4) /\ (s.start # 0 => Closed(ctx'))
    BY <1>4, <1>6, <2>1, EndFits
  <2>3. Instrumented(op') <=> Instrumented(op)
    BY <1>1
  <2>4. Instrumented(op') => Closed(ctx')
    BY <1>5, <2>2, <2>3
  <2>5. QED BY <1>1, <1>6, <2>1, <2>2, <2>4 DEF RunnerInv
<1>9. CASE ctx' = s /\ UNCHANGED <<pc, attempt, success, phase>>
  <2>1. Fits(ctx', clock + 4)
    BY <1>1, <1>4, <1>9 DEF Fits, Context
  <2>2. Instrumented(op) => Stamped'
    BY <1>1, <1>4, <1>5, <1>9 DEF Stamped, RunnerInv, Inevitable, OnWire, Local
  <2>3. Instrumented(op') <=> Instrumented(op)
    BY <1>1
  <2>4. Instrumented(op') => Stamped'
    BY <2>2, <2>3
  <2>5. QED BY <1>1, <1>6, <1>9, <2>1, <2>4 DEF RunnerInv
<1>10. QED BY <1>2, <1>7, <1>8, <1>9 DEF Fails

\* The runner returns.
LEMMA ReturnStamps ==
    ASSUME RunnerInv, Return
    PROVE  RunnerInv'
<1>1. /\ clock \in Nat /\ Fits(ctx, clock) /\ op \in Operations /\ pc \in Nat \ {0}
      /\ phase = "running" /\ pc > Len(op.requests) /\ clock' = clock + 1 /\ op' = op
  BY DEF RunnerInv, Return
<1>2. clock + 1 \in Nat /\ clock < clock + 1
  BY <1>1
<1>3. CASE CallAgain(ctx, clock + 1)
  <2>1. op.timed => ctx.clientStart # 0
    BY <1>1 DEF RunnerInv, Stamped, Instrumented
  <2>2. QED BY <1>1, <1>2, <1>3, <2>1, AgainStamps
<1>4. CASE /\ phase' \in {"returned", "aborted", "failed"} /\ UNCHANGED <<pc, attempt, success>>
           /\ ctx' = IF op.timed THEN ClientEnd(ctx, clock + 1) ELSE ctx
  <2>1. Fits(ctx', clock + 1)
    <3>1. CASE op.timed
      <4>1. ctx' = ClientEnd(ctx, clock + 1)
        BY <1>4, <3>1
      <4>2. QED BY <1>1, <1>2, <4>1, EndFits
    <3>2. CASE ~op.timed
      <4>1. Fits(ctx, clock + 1)
        BY <1>1 DEF Fits, Context
      <4>2. QED BY <1>4, <3>2, <4>1
    <3>3. QED BY <3>1, <3>2
  <2>2. ASSUME Instrumented(op) PROVE Closed(ctx')
    <3>1. Stamped /\ ClosesBracket(op)
      BY <1>1, <2>2, OperationsAssumption DEF RunnerInv, WellFormedRunner
    <3>2. \A k \in DOMAIN op.requests : ~(pc <= k)
      BY <1>1, RequestNumbers
    <3>3. CASE op.timed
      <4>1. ctx.start # 0
        BY <2>2, <3>1, <3>2, <3>3 DEF Stamped, ClosesBracket
      <4>2. ctx' = ClientEnd(ctx, clock + 1)
        BY <1>4, <3>3
      <4>3. QED BY <1>1, <1>2, <4>1, <4>2, EndFits
    <3>4. CASE ~op.timed
      <4>1. Closed(ctx)
        BY <2>2, <3>1, <3>2, <3>4 DEF Stamped, ClosesBracket
      <4>2. QED BY <1>4, <3>4, <4>1
    <3>5. QED BY <3>3, <3>4
  <2>3. Instrumented(op') <=> Instrumented(op)
    BY <1>1
  <2>4. Instrumented(op') => Closed(ctx')
    BY <2>2, <2>3
  <2>5. QED BY <1>1, <1>2, <1>4, <2>1, <2>4 DEF RunnerInv
<1>5. QED BY <1>3, <1>4 DEF Return

\* The steps that leave the request context alone.
LEMMA QuietStamps ==
    ASSUME RunnerInv,
           \/ UNCHANGED <<op, pc, phase, ctx, clock>>
           \/ SkipStop \/ RunnerRaises \/ TimedOut \/ ReadTimings
    PROVE  RunnerInv'
<1>1. CASE UNCHANGED <<op, pc, phase, ctx, clock>>
  BY <1>1 DEF RunnerInv, Stamped, Instrumented, Inevitable, OnWire, Local
<1>2. CASE phase' \in {"aborted", "idle"} /\ UNCHANGED <<op, pc, ctx, clock>>
  BY <1>2 DEF RunnerInv
<1>3. CASE SkipStop
  <2>1. /\ clock \in Nat /\ Fits(ctx, clock) /\ op \in Operations /\ pc \in Nat \ {0}
        /\ phase = "running" /\ op.requests[pc].verb = "stop" /\ pc' = pc + 1
        /\ UNCHANGED <<op, phase, ctx, clock>>
    BY <1>3 DEF RunnerInv, SkipStop, Due, AlreadyStopped
  <2>2. ASSUME NEW k \in DOMAIN op.requests, Inevitable(op, k) PROVE pc <= k => pc' <= k
    <3>1. k \in Nat /\ k # pc
      BY <2>1, <2>2, RequestNumbers DEF Inevitable
    <3>2. QED BY <2>1, <3>1
  <2>3. Instrumented(op) => Stamped'
    <3>1. Instrumented(op) => Stamped
      BY <2>1 DEF RunnerInv
    <3>2. Stamped => Stamped'
      BY <2>1, <2>2 DEF Stamped
    <3>3. QED BY <3>1, <3>2
  <2>4. Instrumented(op') <=> Instrumented(op)
    BY <2>1
  <2>5. Instrumented(op') => Stamped'
    BY <2>3, <2>4
  <2>6. QED BY <2>1, <2>5 DEF RunnerInv
<1>4. QED BY <1>1, <1>2, <1>3 DEF RunnerRaises, TimedOut, ReadTimings

\* The next operation begins with an empty context.
LEMMA StartStamps ==
    ASSUME NEW o \in Operations, Start(o)
    PROVE  RunnerInv'
<1>1. /\ op' = o /\ pc' = 1 /\ clock' = 1 /\ phase' = "running"
      /\ ctx' = IF o.timed THEN ClientStart(EmptyContext, 1) ELSE EmptyContext
  BY DEF Start
<1>2. Fits(EmptyContext, 0) /\ Fits(EmptyContext, 1)
  BY ContextTypes DEF Fits, EmptyContext
<1>3. Fits(ctx', 1) /\ (o.timed => ctx'.clientStart # 0)
  <2>1. CASE o.timed
    <3>1. ctx' = ClientStart(EmptyContext, 1)
      BY <1>1, <2>1
    <3>2. QED BY <1>2, <3>1, StartFits
  <2>2. CASE ~o.timed
    <3>1. ctx' = EmptyContext
      BY <1>1, <2>2
    <3>2. QED BY <1>2, <2>2, <3>1
  <2>3. QED BY <2>1, <2>2
<1>4. \A k \in DOMAIN o.requests : 1 <= k
  BY RequestNumbers
<1>5. Stamped'
  BY <1>1, <1>3, <1>4 DEF Stamped
<1>6. QED BY <1>1, <1>3, <1>5 DEF RunnerInv

\* A step of the client with a single runner.
LEMMA NextRunner ==
    ASSUME RunnerInv, RunnersNext
    PROVE  RunnerInv'
<1>1. ASSUME NEW o \in Operations, Start(o) PROVE RunnerInv'
  BY <1>1, StartStamps
<1>2. CASE Answered
  BY <1>2, AnsweredStamps
<1>3. CASE AnswerLost \/ ConnectionRefused
  <2>1. Due /\ ~Local(op.requests[pc])
        /\ (Fails(op.requests[pc], "timeout") \/ Fails(op.requests[pc], "connection"))
    BY <1>3 DEF AnswerLost, ConnectionRefused
  <2>2. QED BY <2>1, FailsStamps
<1>4. CASE Rejected
  <2>1. Due /\ ~Local(op.requests[pc]) /\ Fails(op.requests[pc], "transport")
    BY <1>4 DEF Rejected, Rejects, Local
  <2>2. QED BY <2>1, FailsStamps
<1>5. CASE Return
  BY <1>5, ReturnStamps
<1>6. CASE SkipStop \/ RunnerRaises \/ TimedOut \/ ReadTimings
  BY <1>6, QuietStamps
<1>7. CASE JobEnds
  BY <1>7, QuietStamps DEF JobEnds
<1>8. QED BY <1>1, <1>2, <1>3, <1>4, <1>5, <1>6, <1>7 DEF RunnersNext

\* A composite that has begun is not taken back.
LEMMA StaysInComposite ==
    ASSUME CompositeInv, InComposite, CompositeNext \/ UNCHANGED compositeVars \/ StartComposite
    PROVE  InComposite'
<1>1. "top" \in Streams /\ DOMAIN stream = Streams /\ stream["top"] # "none"
  BY CompositeAssumption DEF CompositeInv, CompositeTypes, InComposite
<1>2. CASE GiveUpComposite \/ UNCHANGED compositeVars \/ StartComposite
  BY <1>1, <1>2 DEF GiveUpComposite, InComposite, StartComposite, compositeVars
<1>3. ASSUME NEW s \in Streams, Step(s) PROVE stream'["top"] # "none"
  <2>1. CASE Spawn(s)
    <3>1. PICK k : stream' = [stream EXCEPT ![k] = "running"]
      BY <2>1 DEF Spawn
    <3>2. QED BY <1>1, <3>1
  <2>2. CASE GatherFails(s) \/ Cancelled(s)
    <3>1. \A ts : DOMAIN Cancel(ts) = Streams /\ Cancel(ts)["top"] # "none"
      BY <1>1 DEF Cancel
    <3>2. PICK f : /\ GatherFails(s) => f = IF AtOp(s) THEN Cancel(children[s]) ELSE stream
                   /\ ~GatherFails(s) => f = Cancel(children[s])
      OBVIOUS
    <3>3. DOMAIN f = Streams /\ f["top"] # "none"
      BY <1>1, <3>1, <3>2
    <3>4. stream' = [f EXCEPT ![s] = "failed"] \/ stream' = [f EXCEPT ![s] = "cancelled"]
      BY <2>2, <3>2 DEF GatherFails, Cancelled
    <3>5. QED BY <1>1, <3>3, <3>4
  <2>3. CASE Gather(s) \/ Acquire(s) \/ Finish(s) \/ Fail(s) \/ End(s)
    <3>1. PICK v \in {"running", "holding", "failed", "done"} :
             stream' = stream \/ stream' = [stream EXCEPT ![s] = v]
      BY <2>3 DEF Gather, Acquire, Finish, Fail, End
    <3>2. QED BY <1>1, <3>1
  <2>4. QED BY <1>3, <2>1, <2>2, <2>3 DEF Step
<1>4. QED BY <1>2, <1>3 DEF CompositeNext, InComposite

\* Outside the composite, the single runners' invariant holds.
THEOREM RunnerInvariant == Spec => [](InComposite \/ RunnerInv)
<1>1. Init => InComposite \/ RunnerInv
  BY DEF Init, RunnersInit, RunnerInv
<1>2. ASSUME CompositeInv, InComposite \/ RunnerInv, [Next]_vars
      PROVE  (InComposite \/ RunnerInv)'
  <2>1. CASE UNCHANGED runnerVars /\ RunnerInv
    BY <2>1, QuietStamps DEF runnerVars
  <2>2. CASE InComposite /\ (CompositeNext \/ UNCHANGED compositeVars \/ StartComposite)
    BY <1>2, <2>2, StaysInComposite
  <2>3. CASE RunnerInv /\ RunnersNext
    BY <2>3, NextRunner
  <2>4. CASE StartComposite /\ RunnerInv
    <3>1. stream' = [stream EXCEPT !["top"] = "running"] /\ "top" \in DOMAIN stream
      BY <1>2, <2>4, CompositeAssumption DEF StartComposite, CompositeInv, CompositeTypes
    <3>2. QED BY <3>1 DEF InComposite
  <2>5. CASE EndComposite /\ RunnerInv
    BY <2>5 DEF EndComposite, RunnerInv
  <2>6. CASE EndComposite
    <3>1. UNCHANGED compositeVars
      BY <2>6 DEF EndComposite
    <3>2. QED BY <1>2, <2>2, <2>5, <2>6, <3>1
  <2>7. CASE Searching \/ Vectors \/ UNCHANGED vars
    <3>1. UNCHANGED <<runnerVars, compositeVars>>
      BY <2>7 DEF Searching, Vectors, vars
    <3>2. QED BY <1>2, <2>1, <2>2, <3>1
  <2>8. QED BY <1>2, <2>1, <2>2, <2>3, <2>4, <2>6, <2>7 DEF Next
<1>3. QED BY <1>1, <1>2, CompositeInvariant, PTL DEF Spec

\* Whatever answers are lost and however often Retry repeats a call, an
\* operation of an instrumented runner that returns or fails with a tolerated
\* error leaves the four timings that handle_benchmark reads, in their order:
\* time_func, the runner's own brackets and the error handler of
\* execute_single close what was opened.
THEOREM TimingsComplete == Spec => []TimingsReadable
<1>1. InComposite \/ RunnerInv => TimingsReadable
  <2>1. SUFFICES ASSUME RunnerInv, phase \in {"returned", "failed"}, Instrumented(op)
                 PROVE  /\ Readable(ctx) /\ ctx.clientStart < ctx.start
                        /\ ctx.start < RequestEnd(ctx)
    BY DEF TimingsReadable
  <2>2. clock \in Nat /\ Fits(ctx, clock) /\ Closed(ctx)
    BY <2>1 DEF RunnerInv
  <2>3. QED BY <2>2, ClosedReadable
<1>2. QED BY <1>1, RunnerInvariant, PTL

-----------------------------------------------------------------------------
(* Single runners: their effect on the cluster.                              *)

\* Request q of runner o has had its effect, or there was nothing to wait for.
Done(o, q) ==
    /\ Adds(q) => Target(q) \in store
    /\ Removes(q) => Target(q) \notin store
    /\ Awaits(q) /\ o.requests[1].skip[1] = 0 => job[q.name] = "done"
    /\ q.verb = "settle" /\ o.requests[1].skip[2] = 0 => job[q.name] # "running"

\* The requests before the one that is due have had their effect.
DoneSoFar == \A i \in DOMAIN op.requests : i < pc => Done(op, op.requests[i])

EffectsInv ==
    /\ RunnerInv
    /\ DOMAIN job = Jobs
    /\ phase = "running" => DoneSoFar
    /\ phase = "returned" => \A i \in DOMAIN op.requests : Done(op, op.requests[i])

\* What the assumption on the operations says of two requests of one.
LEMMA TwoRequests ==
    ASSUME NEW o \in Operations, NEW i \in DOMAIN o.requests, NEW j \in DOMAIN o.requests,
           NEW q, NEW r, q = o.requests[i], r = o.requests[j]
    PROVE  /\ j < i /\ i <= j + r.skip[1] => Skippable(o, r, q, TRUE)
           /\ j < i /\ i <= j + r.skip[2] => Skippable(o, r, q, FALSE)
           /\ r.skip # <<0, 0>> => r.verb = "exists"
           /\ Awaits(q) \/ q.verb = "settle" => q.name \in Jobs
<1>1. WellFormedRunner(o)
  BY OperationsAssumption
<1>2. SkipsDone(o) /\ (Awaits(q) \/ q.verb = "settle" => q.name \in Jobs)
  BY <1>1 DEF WellFormedRunner
<1>3. QED BY <1>2 DEF SkipsDone

\* What a request does to the cluster leaves the effect of another request of
\* the runner that precedes it.
LEMMA AppliedKeeps ==
    ASSUME op \in Operations, NEW i \in DOMAIN op.requests, NEW j \in DOMAIN op.requests,
           i < j, Applied(op.requests[j]), Done(op, op.requests[i]), op' = op
    PROVE  Done(op, op.requests[i])'
<1>1. op \in Operations /\ i \in DOMAIN op.requests /\ j \in DOMAIN op.requests /\ i < j
  OBVIOUS
<1>2. PICK q, r : q = op.requests[i] /\ r = op.requests[j]
  OBVIOUS
<1>3. /\ Adds(q) /\ Removes(r) => Target(q) # Target(r)
      /\ Removes(q) /\ Adds(r) => Target(q) # Target(r)
      /\ Awaits(q) \/ q.verb = "settle" => r.verb # "start"
  <2>1. Consistent(op)
    BY <1>1, OperationsAssumption DEF WellFormedRunner
  <2>2. QED BY <1>1, <1>2, <2>1 DEF Consistent
<1>4. /\ Adds(q) => Target(q) \in store
      /\ Removes(q) => Target(q) \notin store
      /\ Awaits(q) /\ op.requests[1].skip[1] = 0 => job[q.name] = "done"
      /\ q.verb = "settle" /\ op.requests[1].skip[2] = 0 => job[q.name] # "running"
  BY <1>2 DEF Done
<1>5. /\ store' = IF Adds(r) THEN store \union {Target(r)}
                  ELSE IF Removes(r) THEN store \ {Target(r)} ELSE store
      /\ r.verb # "start" => job' = job
  BY <1>2 DEF Applied, Adds, Removes
<1>6. Adds(q) => Target(q) \in store'
  BY <1>3, <1>4, <1>5
<1>7. Removes(q) => Target(q) \notin store'
  BY <1>3, <1>4, <1>5
<1>8. /\ Awaits(q) /\ op.requests[1].skip[1] = 0 => job'[q.name] = "done"
      /\ q.verb = "settle" /\ op.requests[1].skip[2] = 0 => job'[q.name] # "running"
  BY <1>3, <1>4, <1>5
<1>9. QED BY <1>2, <1>6, <1>7, <1>8 DEF Done, Target, Adds, Removes, Awaits

\* A request that is answered, and what the runner skips because of the
\* answer, has had its effect.
LEMMA AnsweredDone ==
    ASSUME EffectsInv, Answered
    PROVE  DoneSoFar'
<1>1. /\ op \in Operations /\ pc \in Nat \ {0} /\ op' = op /\ pc <= Len(op.requests)
      /\ DoneSoFar
  BY DEF EffectsInv, RunnerInv, Answered, Due
<1>2. PICK r : r = op.requests[pc]
  OBVIOUS
<1>3. /\ Applied(r) /\ ~Rejects(r)
      /\ pc' = IF Waiting(r) THEN pc ELSE pc + 1 + r.skip[IF Present(r) THEN 1 ELSE 2]
  BY <1>2 DEF Answered
<1>4. /\ pc \in DOMAIN op.requests /\ r.skip[1] \in Nat /\ r.skip[2] \in Nat
      /\ DOMAIN op.requests \subseteq Nat
  BY <1>1, <1>2, RequestNumbers
<1>5. /\ store' = IF Adds(r) THEN store \union {Target(r)}
                  ELSE IF Removes(r) THEN store \ {Target(r)} ELSE store
      /\ r.verb # "start" => job' = job
  BY <1>3 DEF Applied, Adds, Removes
<1>6. SUFFICES ASSUME NEW i \in DOMAIN op.requests, i < pc' PROVE Done(op, op.requests[i])'
  BY <1>1 DEF DoneSoFar
<1>7. CASE i < pc
  <2>1. Done(op, op.requests[i])
    BY <1>1, <1>7 DEF DoneSoFar
  <2>2. QED BY <1>1, <1>2, <1>3, <1>4, <1>7, <2>1, AppliedKeeps
<1>8. CASE i = pc
  <2>1. ~Waiting(r)
    BY <1>3, <1>4, <1>6, <1>8
  <2>2. /\ Adds(r) => Target(r) \in store'
        /\ Removes(r) => Target(r) \notin store'
    BY <1>5 DEF Adds, Removes
  <2>3. Awaits(r) \/ r.verb = "settle" => job' = job
    BY <1>5 DEF Awaits
  <2>4. /\ Awaits(r) => job'[r.name] = "done"
        /\ r.verb = "settle" => job'[r.name] # "running"
    BY <2>1, <2>3 DEF Waiting, Awaits
  <2>5. QED BY <1>1, <1>2, <1>8, <2>2, <2>4 DEF Done, Target, Adds, Removes, Awaits
<1>9. CASE i > pc
  <2>1. PICK q : q = op.requests[i]
    OBVIOUS
  <2>2. ~Waiting(r)
    BY <1>1, <1>3, <1>4, <1>6, <1>9
  <2>3. PICK there \in BOOLEAN : there <=> Present(r)
    OBVIOUS
  <2>4. (there => i <= pc + r.skip[1]) /\ (~there => i <= pc + r.skip[2])
    <3>1. CASE Present(r)
      <4>1. pc' = pc + 1 + r.skip[1]
        BY <1>3, <2>2, <3>1
      <4>2. QED BY <1>1, <1>4, <1>6, <2>3, <3>1, <4>1
    <3>2. CASE ~Present(r)
      <4>1. pc' = pc + 1 + r.skip[2]
        BY <1>3, <2>2, <3>2
      <4>2. QED BY <1>1, <1>4, <1>6, <2>3, <3>2, <4>1
    <3>3. QED BY <3>1, <3>2
  <2>5. Skippable(op, r, q, there)
    <3>1. CASE there = TRUE
      BY <1>1, <1>2, <1>4, <1>9, <2>1, <2>4, <3>1, TwoRequests
    <3>2. CASE there = FALSE
      BY <1>1, <1>2, <1>4, <1>9, <2>1, <2>4, <3>2, TwoRequests
    <3>3. QED BY <3>1, <3>2
  <2>6. r.verb = "exists"
    <3>1. r.skip[1] # 0 \/ r.skip[2] # 0
      BY <1>1, <1>4, <1>9, <2>4
    <3>2. r.skip # <<0, 0>>
      BY <3>1
    <3>3. QED BY <1>1, <1>2, <1>4, <3>2, TwoRequests
  <2>7. store' = store
    BY <1>5, <2>6 DEF Adds, Removes
  <2>8. /\ Adds(q) => Target(q) \in store'
        /\ Removes(q) => Target(q) \notin store'
    BY <2>3, <2>5, <2>7 DEF Skippable, Present
  <2>9. /\ Awaits(q) => op.requests[1].skip[1] # 0
        /\ q.verb = "settle" => op.requests[1].skip[2] # 0
    BY <2>5 DEF Skippable
  <2>10. QED BY <1>1, <2>1, <2>8, <2>9 DEF Done, Target, Adds, Removes, Awaits
<1>10. QED BY <1>1, <1>4, <1>6, <1>7, <1>8, <1>9

\* A call that ends in an exception starts again from its first request, or
\* is given up; only the endless retry of "require" stays where it is.
LEMMA FailsDone ==
    ASSUME EffectsInv, Due, NEW error, Fails(op.requests[pc], error),
           UNCHANGED <<store, job>> \/ Applied(op.requests[pc])
    PROVE  (phase' = "running" => DoneSoFar') /\ phase' \in {"running", "failed", "aborted"}
<1>1. /\ op \in Operations /\ op' = op /\ phase = "running" /\ DoneSoFar
  BY DEF EffectsInv, RunnerInv, Due, Fails
<1>2. CASE pc' = 1 /\ phase' = phase
  <2>1. \A i \in DOMAIN op.requests : ~(i < 1)
    BY <1>1, RequestNumbers
  <2>2. QED BY <1>1, <1>2, <2>1 DEF DoneSoFar
<1>3. CASE phase' \in {"aborted", "failed"}
  BY <1>3
<1>4. CASE op.requests[pc].verb = "require" /\ UNCHANGED <<pc, phase>>
  <2>1. UNCHANGED <<store, job>>
    BY <1>4 DEF Applied
  <2>2. DoneSoFar'
    BY <1>1, <1>4, <2>1 DEF DoneSoFar, Done, Target, Adds, Removes, Awaits
  <2>3. QED BY <1>1, <1>4, <2>2
<1>5. QED BY <1>2, <1>3, <1>4 DEF Fails, CallAgain, GiveUp

\* A job that ends was running: nobody has counted on its end.
LEMMA JobEndsDone ==
    ASSUME EffectsInv, JobEnds
    PROVE  DoneSoFar'
<1>1. /\ op \in Operations /\ op' = op /\ pc' = pc /\ store' = store /\ DoneSoFar
      /\ DOMAIN job = Jobs
  BY DEF EffectsInv, RunnerInv, JobEnds
<1>2. PICK j \in Jobs, s \in {"done", "failed"} :
         job[j] = "running" /\ job' = [job EXCEPT ![j] = s]
  BY DEF JobEnds
<1>3. SUFFICES ASSUME NEW i \in DOMAIN op.requests, i < pc PROVE Done(op, op.requests[i])'
  BY <1>1 DEF DoneSoFar
<1>4. PICK q : q = op.requests[i]
  OBVIOUS
<1>5. Done(op, q)
  BY <1>1, <1>3, <1>4 DEF DoneSoFar
<1>6. Awaits(q) \/ q.verb = "settle" => q.name \in Jobs
  BY <1>1, <1>4, TwoRequests
<1>7. Awaits(q) /\ op.requests[1].skip[1] = 0 => job'[q.name] = "done"
  BY <1>1, <1>2, <1>5, <1>6 DEF Done
<1>8. q.verb = "settle" /\ op.requests[1].skip[2] = 0 => job'[q.name] # "running"
  BY <1>1, <1>2, <1>5, <1>6 DEF Done
<1>9. (Adds(q) => Target(q) \in store') /\ (Removes(q) => Target(q) \notin store')
  BY <1>1, <1>5 DEF Done
<1>10. QED BY <1>1, <1>4, <1>7, <1>8, <1>9 DEF Done, Target, Adds, Removes, Awaits

\* The jobs stay the same.
LEMMA JobsStay ==
    ASSUME DOMAIN job = Jobs, RunnersNext
    PROVE  DOMAIN job' = Jobs
<1>1. CASE UNCHANGED job
  BY <1>1
<1>2. ASSUME NEW n, NEW s, job' = [job EXCEPT ![n] = s] PROVE DOMAIN job' = Jobs
  BY <1>2
<1>3. ASSUME NEW r, Applied(r) PROVE DOMAIN job' = Jobs
  BY <1>1, <1>2, <1>3 DEF Applied
<1>4. CASE JobEnds
  BY <1>2, <1>4 DEF JobEnds
<1>5. CASE Answered
  BY <1>3, <1>5 DEF Answered
<1>6. CASE AnswerLost
  BY <1>1, <1>3, <1>6 DEF AnswerLost
<1>7. QED
  BY <1>1, <1>4, <1>5, <1>6 DEF RunnersNext, Start, SkipStop, RunnerRaises, ConnectionRefused,
                                Rejected, Return, TimedOut, ReadTimings

\* A step of the client with a single runner.
LEMMA NextEffects ==
    ASSUME EffectsInv, RunnersNext
    PROVE  EffectsInv'
<1>1. RunnerInv' /\ DOMAIN job' = Jobs
  BY NextRunner, JobsStay DEF EffectsInv
<1>2. CASE phase' \in {"idle", "failed", "aborted"}
  BY <1>1, <1>2 DEF EffectsInv
<1>3. ASSUME phase' = "running", DoneSoFar' PROVE EffectsInv'
  BY <1>1, <1>3 DEF EffectsInv
<1>4. ASSUME NEW o \in Operations, Start(o) PROVE EffectsInv'
  <2>1. op' = o /\ pc' = 1 /\ phase' = "running"
    BY <1>4 DEF Start
  <2>2. \A i \in DOMAIN o.requests : ~(i < 1)
    BY RequestNumbers
  <2>3. DoneSoFar'
    BY <2>1, <2>2 DEF DoneSoFar
  <2>4. QED BY <1>3, <2>1, <2>3
<1>5. CASE Answered
  <2>1. phase' = "running"
    BY <1>5 DEF Answered, Due
  <2>2. QED BY <1>3, <1>5, <2>1, AnsweredDone
<1>6. CASE AnswerLost \/ ConnectionRefused \/ Rejected
  <2>1. PICK error : /\ Due /\ Fails(op.requests[pc], error)
                     /\ UNCHANGED <<store, job>> \/ Applied(op.requests[pc])
    BY <1>6 DEF AnswerLost, ConnectionRefused, Rejected
  <2>2. QED BY <1>2, <1>3, <2>1, FailsDone
<1>7. CASE JobEnds
  <2>1. phase' = "running"
    BY <1>7 DEF JobEnds
  <2>2. QED BY <1>3, <1>7, <2>1, JobEndsDone
<1>8. CASE SkipStop
  <2>1. /\ phase = "running" /\ phase' = phase /\ pc' = pc + 1 /\ op.requests[pc].verb = "stop"
        /\ UNCHANGED <<op, store, job>> /\ pc \in Nat \ {0} /\ op \in Operations /\ DoneSoFar
    BY <1>8 DEF SkipStop, Due, AlreadyStopped, EffectsInv, RunnerInv
  <2>2. ASSUME NEW i \in DOMAIN op.requests, i < pc + 1 PROVE Done(op, op.requests[i])
    <3>1. i \in Nat
      BY <2>1, RequestNumbers
    <3>2. CASE i < pc
      BY <2>1, <3>2 DEF DoneSoFar
    <3>3. CASE i = pc
      BY <2>1, <3>3 DEF Done, Adds, Removes, Awaits
    <3>4. QED BY <2>1, <2>2, <3>1, <3>2, <3>3
  <2>3. DoneSoFar'
    BY <2>1, <2>2 DEF DoneSoFar, Done, Target, Adds, Removes, Awaits
  <2>4. QED BY <1>3, <2>1, <2>3
<1>9. CASE Return
  <2>1. /\ phase = "running" /\ pc > Len(op.requests) /\ UNCHANGED <<store, job, op>>
        /\ pc \in Nat /\ op \in Operations /\ DoneSoFar
    BY <1>9 DEF Return, EffectsInv, RunnerInv
  <2>2. CASE pc' = 1 /\ phase' = phase
    <3>1. \A i \in DOMAIN op.requests : ~(i < 1)
      BY <2>1, RequestNumbers
    <3>2. DoneSoFar'
      BY <2>1, <2>2, <3>1 DEF DoneSoFar
    <3>3. QED BY <1>3, <2>1, <2>2, <3>2
  <2>3. CASE phase' = "returned"
    <3>1. \A i \in DOMAIN op.requests : i < pc
      BY <2>1, RequestNumbers
    <3>2. \A i \in DOMAIN op.requests : Done(op, op.requests[i])
      BY <2>1, <3>1 DEF DoneSoFar
    <3>3. \A i \in DOMAIN op'.requests : Done(op, op.requests[i])'
      BY <2>1, <3>2 DEF Done, Target, Adds, Removes, Awaits
    <3>4. QED BY <1>1, <2>3, <3>3 DEF EffectsInv
  <2>4. CASE phase' \in {"aborted", "failed"}
    BY <1>2, <2>4
  <2>5. QED BY <1>9, <2>2, <2>3, <2>4 DEF Return, CallAgain
<1>10. CASE RunnerRaises \/ TimedOut \/ ReadTimings
  BY <1>2, <1>10 DEF RunnerRaises, TimedOut, ReadTimings
<1>11. QED BY <1>4, <1>5, <1>6, <1>7, <1>8, <1>9, <1>10 DEF RunnersNext

\* An operation that returns successfully has had the effect it was sent for:
\* a retried call repeats all its requests, and what the runner skips was done
\* or gone already - whichever answers were lost after the cluster had acted.
THEOREM SuccessHadEffect == Spec => []SuccessMeansDone
<1>1. Init => InComposite \/ EffectsInv
  BY DEF Init, RunnersInit, RunnerInv, EffectsInv
<1>2. ASSUME CompositeInv, InComposite \/ EffectsInv, [Next]_vars
      PROVE  (InComposite \/ EffectsInv)'
  <2>1. CASE UNCHANGED runnerVars /\ EffectsInv
    <3>1. RunnerInv' /\ UNCHANGED <<store, job, op, pc, phase>>
      BY <2>1, QuietStamps DEF runnerVars, EffectsInv
    <3>2. QED
      BY <2>1, <3>1 DEF EffectsInv, DoneSoFar, Done, Target, Adds, Removes, Awaits
  <2>2. CASE InComposite /\ (CompositeNext \/ UNCHANGED compositeVars \/ StartComposite)
    BY <1>2, <2>2, StaysInComposite
  <2>3. CASE EffectsInv /\ RunnersNext
    BY <2>3, NextEffects
  <2>4. CASE StartComposite /\ EffectsInv
    <3>1. stream' = [stream EXCEPT !["top"] = "running"] /\ "top" \in DOMAIN stream
      BY <1>2, <2>4, CompositeAssumption DEF StartComposite, CompositeInv, CompositeTypes
    <3>2. QED BY <3>1 DEF InComposite
  <2>5. CASE EndComposite
    <3>1. UNCHANGED compositeVars /\ phase = "composite"
      BY <2>5 DEF EndComposite
    <3>2. InComposite
      BY <1>2, <3>1 DEF EffectsInv, RunnerInv
    <3>3. QED BY <2>2, <3>1, <3>2
  <2>6. CASE Searching \/ Vectors \/ UNCHANGED vars
    <3>1. UNCHANGED <<runnerVars, compositeVars>>
      BY <2>6 DEF Searching, Vectors, vars
    <3>2. QED BY <1>2, <2>1, <2>2, <3>1
  <2>7. QED BY <1>2, <2>1, <2>2, <2>3, <2>4, <2>5, <2>6 DEF Next
<1>3. InComposite \/ EffectsInv => SuccessMeansDone
  BY DEF EffectsInv, SuccessMeansDone, Done, Adds, Removes, Awaits
<1>4. QED BY <1>1, <1>2, <1>3, CompositeInvariant, PTL DEF Spec

-----------------------------------------------------------------------------
(* The runners have the shape that OperationsAssumption asks for, whatever   *)
(* names they are given.                                                     *)

\* A request without a condition, which names the job that it awaits.
Plain(r) ==
    /\ r.skip = <<0, 0>>
    /\ Awaits(r) \/ r.verb = "settle" => r.name \in Jobs

\* A runner of n requests without conditions: nothing is both added and
\* removed, what is awaited is not started after, and a bracket is closed.
NothingUndone(o, n) ==
    \/ \A i \in 1..n : ~Removes(o.requests[i])
    \/ \A i \in 1..n : ~Adds(o.requests[i])

StartedFirst(o, n) ==
    \A i \in 1..n : o.requests[i].verb = "start" =>
        \A j \in 1..n : Awaits(o.requests[j]) \/ o.requests[j].verb = "settle" => i < j

Bracketed(o, n) ==
    /\ \E k \in 1..n : OnWire(o.requests[k]) /\ o.requests[k].verb # "stop" /\ (o.timed \/ k = 1)
    /\ o.timed \/ \E k \in 1..n : "close" \in o.requests[k].bracket /\ o.requests[k].verb # "stop"

Straight(o, n) ==
    /\ o.timed \in BOOLEAN
    /\ o.requests \in Seq(ToSet(o.requests)) /\ Len(o.requests) = n
    /\ \A i \in 1..n : Plain(o.requests[i])
    /\ NothingUndone(o, n) /\ StartedFirst(o, n)
    /\ Instrumented(o) => Bracketed(o, n)

\* A runner without conditions is well formed.
LEMMA PlainRunner ==
    ASSUME NEW o, NEW n \in Nat \ {0}, Straight(o, n)
    PROVE  WellFormedRunner(o)
<1>a. o.timed \in BOOLEAN /\ o.requests \in Seq(ToSet(o.requests)) /\ Len(o.requests) = n
  BY DEF Straight
<1>b. \A i \in 1..n : Plain(o.requests[i])
  BY DEF Straight
<1>1. DOMAIN o.requests = 1..n
  <2>1. PICK S : S = ToSet(o.requests)
    OBVIOUS
  <2>2. QED BY <1>a, <2>1
<1>2. \A i \in 1..n : /\ o.requests[i].skip = <<0, 0>>
                      /\ o.requests[i].skip[1] = 0 /\ o.requests[i].skip[2] = 0
                      /\ o.requests[i].skip \in Nat \X Nat
  <2>1. ASSUME NEW i \in 1..n PROVE o.requests[i].skip = <<0, 0>>
    BY <1>b DEF Plain
  <2>2. <<0, 0>>[1] = 0 /\ <<0, 0>>[2] = 0 /\ <<0, 0>> \in Nat \X Nat
    OBVIOUS
  <2>3. QED BY <2>1, <2>2
<1>3. \A k \in 1..n : o.requests[k].verb # "stop" => Inevitable(o, k)
  BY <1>1, <1>2 DEF Inevitable
<1>4. ClosesBracket(o)
  BY <1>1, <1>3 DEF ClosesBracket, Straight, Bracketed
<1>5. Consistent(o)
  <2>1. SUFFICES ASSUME NEW i \in 1..n, NEW j \in 1..n
        PROVE  /\ ~(Adds(o.requests[i]) /\ Removes(o.requests[j]))
               /\ i < j /\ (Awaits(o.requests[i]) \/ o.requests[i].verb = "settle") =>
                    o.requests[j].verb # "start"
    BY <1>1 DEF Consistent
  <2>2. QED BY <2>1 DEF Straight, NothingUndone, StartedFirst
<1>6. SkipsDone(o)
  <2>1. SUFFICES ASSUME NEW i \in 1..n, NEW j \in 1..n, i < j
                 PROVE  ~(j <= i + o.requests[i].skip[1]) /\ ~(j <= i + o.requests[i].skip[2])
    BY <1>1, <1>2 DEF SkipsDone
  <2>2. o.requests[i].skip[1] = 0 /\ o.requests[i].skip[2] = 0 /\ ~(j <= i + 0)
    BY <1>2, <2>1
  <2>3. QED BY <2>2
<1>7. \A i \in 1..n : Awaits(o.requests[i]) \/ o.requests[i].verb = "settle" =>
                         o.requests[i].name \in Jobs
  BY <1>b DEF Plain
<1>8. QED BY <1>a, <1>1, <1>2, <1>4, <1>5, <1>6, <1>7 DEF WellFormedRunner

\* A sequence is one of its elements.
LEMMA OwnElements ==
    ASSUME NEW T, NEW q \in Seq(T)
    PROVE  q \in Seq(ToSet(q))
BY DEF ToSet

\* A function of the numbers up to n is a sequence.
LEMMA FunctionSeq ==
    ASSUME NEW T, NEW n \in Nat, NEW q \in [1..n -> T]
    PROVE  q \in Seq(T) /\ Len(q) = n
<1>1. q \in Seq(T)
  BY DEF Seq
<1>2. DOMAIN q = 1..Len(q) /\ DOMAIN q = 1..n /\ Len(q) \in Nat
  BY <1>1
<1>3. QED BY <1>1, <1>2

\* A runner that sends one request.
LEMMA OneRequest ==
    ASSUME NEW type, NEW timed \in BOOLEAN, NEW r, Plain(r), OnWire(r), r.verb # "stop",
           timed \/ ("open" \in r.bracket => "close" \in r.bracket)
    PROVE  WellFormedRunner(Runner(type, timed, <<r>>))
<1>1. PICK o : o = Runner(type, timed, <<r>>)
  OBVIOUS
<1>2. /\ o.timed = timed /\ o.requests = <<r>>
  BY <1>1 DEF Runner
<1>3. /\ o.requests \in Seq({r}) /\ Len(o.requests) = 1 /\ o.requests[1] = r
      /\ \A i \in 1..1 : i = 1 /\ o.requests[i] = r
  BY <1>2
<1>4. ~Removes(r) \/ ~Adds(r)
  BY DEF Removes, Adds
<1>5. WellFormedRunner(o)
  <2>1. Instrumented(o) => Bracketed(o, 1)
    BY <1>2, <1>3 DEF Instrumented, Bracketed
  <2>2. StartedFirst(o, 1)
    BY <1>3 DEF StartedFirst, Awaits
  <2>3. \A i \in 1..1 : Plain(o.requests[i])
    BY <1>3
  <2>4. NothingUndone(o, 1)
    BY <1>3, <1>4 DEF NothingUndone
  <2>5. 1 \in Nat \ {0}
    OBVIOUS
  <2>6. Straight(o, 1)
    BY <1>2, <1>3, <2>1, <2>2, <2>3, <2>4, OwnElements DEF Straight
  <2>7. QED BY <2>5, <2>6, PlainRunner
<1>6. QED BY <1>1, <1>5

\* The runners that send one request.
LEMMA SingleRequestRunners ==
    ASSUME NEW n
    PROVE  /\ WellFormedRunner(BulkIndex(n)) /\ WellFormedRunner(BulkVectorDataSet(n))
           /\ \A b \in BOOLEAN : WellFormedRunner(DeleteKnnModel(n, b))
           /\ WellFormedRunner(ForceMerge(n, FALSE)) /\ WellFormedRunner(IndicesStats(n))
           /\ WellFormedRunner(NodeStats) /\ WellFormedRunner(ClusterHealth(n))
           /\ WellFormedRunner(PutPipeline(n)) /\ WellFormedRunner(DeletePipeline(n))
           /\ WellFormedRunner(CreateSearchPipeline(n)) /\ WellFormedRunner(Refresh(n))
           /\ WellFormedRunner(RawRequest(n)) /\ WellFormedRunner(Sleep)
           /\ WellFormedRunner(DeleteSnapshotRepository(n))
           /\ WellFormedRunner(CreateSnapshotRepository(n))
           /\ WellFormedRunner(CreateSnapshot(n)) /\ WellFormedRunner(RestoreSnapshot(n))
           /\ n \in Jobs => WellFormedRunner(WaitForSnapshotCreate(n))
           /\ n \in Jobs => WellFormedRunner(IndicesRecovery(n))
           /\ WellFormedRunner(PutSettings(n))
           /\ WellFormedRunner(UpdateConcurrentSegmentSearchSettings)
           /\ WellFormedRunner(CreateTransform(n)) /\ WellFormedRunner(StartTransform(n))
           /\ WellFormedRunner(DeleteTransform(n)) /\ WellFormedRunner(ProduceStreamMessage(n))
<1>1. ASSUME NEW type, NEW verb \in {"judge", "put", "read", "check", "delete", "remove", "linger"},
             NEW kind, verb = "linger" => n \in Jobs
      PROVE  WellFormedRunner(Runner(type, FALSE, <<Own(R(verb, kind, n))>>))
  <2>1. PICK r : r = Own(R(verb, kind, n))
    OBVIOUS
  <2>2. r.verb = verb /\ r.name = n /\ r.skip = <<0, 0>> /\ r.bracket = {"open", "close"}
    BY <2>1 DEF R, Own
  <2>3. Plain(r) /\ OnWire(r) /\ r.verb # "stop" /\ "close" \in r.bracket
    BY <1>1, <2>2 DEF Plain, OnWire, Local, Awaits
  <2>4. QED BY <2>1, <2>3, OneRequest
<1>2. ASSUME NEW type, NEW verb \in {"put", "read", "start", "create", "delete", "sleep"},
             NEW kind, NEW m, NEW r \in {R(verb, kind, m), Tolerant(R(verb, kind, m))}
      PROVE  WellFormedRunner(Runner(type, TRUE, <<r>>))
  <2>1. r.verb = verb /\ r.name = m /\ r.skip = <<0, 0>>
    <3>1. CASE r = R(verb, kind, m)
      BY <3>1 DEF R
    <3>2. CASE r = Tolerant(R(verb, kind, m))
      BY <3>2 DEF R, Tolerant
    <3>3. QED BY <3>1, <3>2
  <2>2. Plain(r) /\ OnWire(r) /\ r.verb # "stop"
    BY <2>1 DEF Plain, OnWire, Local, Awaits
  <2>3. QED BY <2>2, OneRequest
<1>3. /\ WellFormedRunner(BulkIndex(n)) /\ WellFormedRunner(BulkVectorDataSet(n))
      /\ WellFormedRunner(ForceMerge(n, FALSE)) /\ WellFormedRunner(IndicesStats(n))
      /\ WellFormedRunner(ClusterHealth(n)) /\ WellFormedRunner(RawRequest(n))
      /\ n \in Jobs => WellFormedRunner(IndicesRecovery(n))
  BY <1>1 DEF BulkIndex, BulkVectorDataSet, ForceMerge, IndicesStats, ClusterHealth, RawRequest,
              IndicesRecovery
<1>4. ASSUME NEW b \in BOOLEAN PROVE WellFormedRunner(DeleteKnnModel(n, b))
  <2>1. PICK verb \in {"delete", "remove"} : verb = IF b THEN "delete" ELSE "remove"
    OBVIOUS
  <2>2. PICK r : r = Own([R(verb, "knn", n) EXCEPT !.tolerant = TRUE])
    OBVIOUS
  <2>3. r.verb = verb /\ r.skip = <<0, 0>> /\ r.bracket = {"open", "close"}
    BY <2>2 DEF R, Own
  <2>4. Plain(r) /\ OnWire(r) /\ r.verb # "stop" /\ "close" \in r.bracket
    BY <2>1, <2>3 DEF Plain, OnWire, Local, Awaits
  <2>5. WellFormedRunner(Runner("delete-knn-model", FALSE, <<r>>))
    BY <2>4, OneRequest
  <2>6. QED BY <2>1, <2>2, <2>5 DEF DeleteKnnModel
<1>5. /\ WellFormedRunner(NodeStats) /\ WellFormedRunner(PutPipeline(n))
      /\ WellFormedRunner(DeletePipeline(n)) /\ WellFormedRunner(CreateSearchPipeline(n))
      /\ WellFormedRunner(Refresh(n)) /\ WellFormedRunner(Sleep)
      /\ WellFormedRunner(DeleteSnapshotRepository(n))
      /\ WellFormedRunner(CreateSnapshotRepository(n))
  BY <1>2 DEF NodeStats, PutPipeline, DeletePipeline, CreateSearchPipeline, Refresh, Sleep,
              DeleteSnapshotRepository, CreateSnapshotRepository
<1>6. /\ WellFormedRunner(CreateSnapshot(n)) /\ WellFormedRunner(RestoreSnapshot(n))
      /\ WellFormedRunner(PutSettings(n))
      /\ WellFormedRunner(UpdateConcurrentSegmentSearchSettings)
      /\ WellFormedRunner(CreateTransform(n)) /\ WellFormedRunner(StartTransform(n))
      /\ WellFormedRunner(DeleteTransform(n)) /\ WellFormedRunner(ProduceStreamMessage(n))
  BY <1>2 DEF CreateSnapshot, RestoreSnapshot, PutSettings, UpdateConcurrentSegmentSearchSettings,
              CreateTransform, StartTransform, DeleteTransform, ProduceStreamMessage
<1>7. ASSUME n \in Jobs PROVE WellFormedRunner(WaitForSnapshotCreate(n))
  <2>1. PICK r : r = R("await", "job", n)
    OBVIOUS
  <2>2. r.verb = "await" /\ r.name = n /\ r.skip = <<0, 0>> /\ r.bracket = {}
    BY <2>1 DEF R
  <2>3. Plain(r) /\ OnWire(r) /\ r.verb # "stop" /\ "open" \notin r.bracket
    BY <1>7, <2>2 DEF Plain, OnWire, Local, Awaits
  <2>4. WellFormedRunner(Runner("wait-for-snapshot-create", FALSE, <<r>>))
    BY <2>3, OneRequest
  <2>5. QED BY <2>1, <2>4 DEF WaitForSnapshotCreate
<1>8. QED BY <1>3, <1>4, <1>5, <1>6, <1>7

\* The request of a loop over names.
Loop(verb, kind, bracket, tolerant) ==
    [verb |-> verb, kind |-> kind, name |-> Unnamed, bracket |-> bracket, skip |-> <<0, 0>>,
     tolerant |-> tolerant]

\* A request that its own runner brackets is one of a loop.
LEMMA OwnLoop ==
    ASSUME NEW verb, NEW kind, NEW e, e = {"open", "close"}, NEW r,
           r = Own(R(verb, kind, Unnamed))
    PROVE  r = Loop(verb, kind, e, r.tolerant)
<1>1. PICK q, f : q = R(verb, kind, Unnamed) /\ f = FALSE
  OBVIOUS
<1>2. q = Loop(verb, kind, {}, f)
  BY <1>1 DEF R, Loop
<1>3. [q EXCEPT !.bracket = e] = Loop(verb, kind, e, f)
  BY <1>2 DEF Loop
<1>4. r = [q EXCEPT !.bracket = e]
  BY <1>1 DEF Own
<1>5. Loop(verb, kind, e, f).tolerant = f
  BY DEF Loop
<1>6. QED BY <1>3, <1>4, <1>5

\* So is one that tolerates a missing target.
LEMMA TolerantLoop ==
    ASSUME NEW verb, NEW kind, NEW e, e = {"open", "close"}, NEW t, NEW r,
           r = [Own(R(verb, kind, Unnamed)) EXCEPT !.tolerant = t]
    PROVE  r = Loop(verb, kind, e, t)
<1>1. PICK q : q = Own(R(verb, kind, Unnamed))
  OBVIOUS
<1>2. q = Loop(verb, kind, e, q.tolerant)
  BY <1>1, OwnLoop
<1>3. \A f : [Loop(verb, kind, e, f) EXCEPT !.tolerant = t] = Loop(verb, kind, e, t)
  BY DEF Loop
<1>4. QED BY <1>1, <1>2, <1>3

\* The runners that send one request per name.
LEMMA LoopRunners ==
    ASSUME NEW ns, NEW N, ns \in Seq(N), ns # <<>>, NEW type, NEW timed \in BOOLEAN,
           NEW verb \in {"create", "put", "delete"}, NEW kind,
           NEW bracket \in {{}, {"open", "close"}}, NEW tolerant, NEW r,
           r = Loop(verb, kind, bracket, tolerant)
    PROVE  WellFormedRunner(Runner(type, timed, Each(ns, r)))
<1>1. PICK o : o = Runner(type, timed, Each(ns, r))
  OBVIOUS
<1>2. /\ o.timed = timed /\ o.requests = Each(ns, r)
  BY <1>1 DEF Runner
<1>3. PICK n : n = Len(ns)
  OBVIOUS
<1>4. n \in Nat \ {0} /\ DOMAIN ns = 1..n
  BY <1>3
<1>5. \A i \in 1..n : /\ o.requests[i].verb = verb /\ o.requests[i].skip = <<0, 0>>
                      /\ o.requests[i].bracket = bracket
  <2>1. SUFFICES ASSUME NEW i \in 1..n
                 PROVE  /\ o.requests[i].verb = verb /\ o.requests[i].skip = <<0, 0>>
                        /\ o.requests[i].bracket = bracket
    OBVIOUS
  <2>2. o.requests[i] = [r EXCEPT !.name = ns[i]]
    BY <1>2, <1>4 DEF Each
  <2>3. QED BY <2>2 DEF Loop
<1>6. o.requests \in Seq(ToSet(o.requests)) /\ Len(o.requests) = n
  <2>1. PICK T : T = {[r EXCEPT !.name = ns[i]] : i \in 1..n}
    OBVIOUS
  <2>2. o.requests \in [1..n -> T]
    BY <1>2, <1>4, <2>1 DEF Each
  <2>3. o.requests \in Seq(T) /\ Len(o.requests) = n
    BY <1>4, <2>2, FunctionSeq
  <2>4. QED BY <2>3, OwnElements
<1>7. \A i \in 1..n : /\ Plain(o.requests[i]) /\ OnWire(o.requests[i])
                      /\ o.requests[i].verb \notin {"stop", "start"}
  BY <1>5 DEF Plain, OnWire, Local, Awaits
<1>8. NothingUndone(o, n) /\ StartedFirst(o, n)
  BY <1>5 DEF NothingUndone, StartedFirst, Adds, Removes
<1>9. Instrumented(o) => Bracketed(o, n)
  <2>1. 1 \in 1..n
    BY <1>4
  <2>2. "open" \in o.requests[1].bracket => "close" \in o.requests[1].bracket
    BY <1>5, <2>1
  <2>3. QED BY <1>7, <2>1, <2>2 DEF Instrumented, Bracketed
<1>10. WellFormedRunner(o)
  <2>1. Straight(o, n)
    BY <1>2, <1>6, <1>7, <1>8, <1>9 DEF Straight
  <2>2. QED BY <1>4, <2>1, PlainRunner
<1>11. QED BY <1>1, <1>10

\* The runners that ask for each name whether it exists before they delete it.
LEMMA AskingRunners ==
    ASSUME NEW ns, NEW N, ns \in Seq(N), ns # <<>>, NEW type, NEW timed \in BOOLEAN,
           NEW kind, NEW bracket, NEW tolerant, NEW r, r = Loop("delete", kind, bracket, tolerant)
    PROVE  WellFormedRunner(Runner(type, timed, DeleteEach(kind, ns, TRUE, r)))
<1>1. PICK o : o = Runner(type, timed, DeleteEach(kind, ns, TRUE, r))
  OBVIOUS
<1>2. PICK n : n = 2 * Len(ns)
  OBVIOUS
<1>3. /\ n \in Nat /\ n >= 2 /\ Len(ns) \in Nat
  BY <1>2
<1>4. /\ o.timed = timed
      /\ o.requests = [i \in 1..n |->
             IF i % 2 = 1 THEN Exists(kind, ns[(i + 1) \div 2])
                          ELSE [r EXCEPT !.name = ns[i \div 2]]]
  BY <1>1, <1>2 DEF Runner, DeleteEach
<1>5. o.requests \in Seq(ToSet(o.requests)) /\ DOMAIN o.requests = 1..n
  <2>1. PICK T : T = {o.requests[i] : i \in 1..n}
    OBVIOUS
  <2>2. o.requests \in [1..n -> T]
    BY <1>4, <2>1
  <2>3. QED BY <1>3, <2>2, FunctionSeq, OwnElements
<1>6. ASSUME NEW i \in 1..n, i % 2 = 1
      PROVE  /\ o.requests[i].verb = "exists" /\ o.requests[i].skip = <<0, 1>>
             /\ o.requests[i].kind = kind /\ o.requests[i].bracket = {}
             /\ o.requests[i].name = ns[(i + 1) \div 2]
  <2>1. PICK m : m = ns[(i + 1) \div 2]
    OBVIOUS
  <2>2. o.requests[i] = Exists(kind, m)
    BY <1>4, <1>6, <2>1
  <2>3. QED BY <2>1, <2>2 DEF Exists, R
<1>7. ASSUME NEW i \in 1..n, i % 2 # 1
      PROVE  /\ o.requests[i].verb = "delete" /\ o.requests[i].skip = <<0, 0>>
             /\ o.requests[i].kind = kind /\ o.requests[i].name = ns[i \div 2]
  <2>1. o.requests[i] = [r EXCEPT !.name = ns[i \div 2]]
    BY <1>4, <1>7
  <2>2. QED BY <2>1 DEF Loop
<1>8. \A i \in 1..n : /\ o.requests[i].verb \in {"exists", "delete"}
                      /\ o.requests[i].skip \in {<<0, 0>>, <<0, 1>>}
  BY <1>6, <1>7
<1>9. \A i \in 1..n : /\ ~Adds(o.requests[i]) /\ ~Awaits(o.requests[i])
                      /\ o.requests[i].verb \notin {"settle", "start", "stop"}
                      /\ o.requests[i].skip \in Nat \X Nat
                      /\ OnWire(o.requests[i])
  BY <1>8 DEF Adds, Awaits, OnWire, Local
<1>10. Consistent(o)
  BY <1>5, <1>9 DEF Consistent
<1>11. ClosesBracket(o)
  <2>1. 1 \in 1..n /\ 1 % 2 = 1
    BY <1>3
  <2>2. "open" \notin o.requests[1].bracket
    BY <1>6, <2>1
  <2>3. Inevitable(o, 1)
    BY <1>5, <1>9, <2>1 DEF Inevitable
  <2>4. QED BY <1>4, <1>5, <1>9, <2>1, <2>2, <2>3 DEF ClosesBracket, Instrumented
<1>12. SkipsDone(o)
  <2>1. ASSUME NEW i \in 1..n, NEW j \in 1..n, i < j
        PROVE  /\ ~(j <= i + o.requests[i].skip[1])
               /\ j <= i + o.requests[i].skip[2] =>
                     Skippable(o, o.requests[i], o.requests[j], FALSE)
    <3>1. CASE i % 2 # 1
      <4>1. o.requests[i].skip[1] = 0 /\ o.requests[i].skip[2] = 0
        BY <1>7, <3>1
      <4>2. ~(j <= i + 0)
        BY <2>1
      <4>3. QED BY <4>1, <4>2
    <3>2. CASE i % 2 = 1
      <4>1. o.requests[i].skip[1] = 0 /\ o.requests[i].skip[2] = 1
        BY <1>6, <3>2
      <4>2. ~(j <= i + 0)
        BY <2>1
      <4>3. ASSUME j <= i + 1 PROVE Skippable(o, o.requests[i], o.requests[j], FALSE)
        <5>1. j = i + 1
          BY <2>1, <4>3
        <5>2. j % 2 # 1 /\ j \div 2 = (i + 1) \div 2
          BY <3>2, <5>1
        <5>3. Target(o.requests[j]) = Target(o.requests[i])
          BY <1>6, <1>7, <3>2, <5>2 DEF Target
        <5>4. QED BY <1>9, <5>3 DEF Skippable
      <4>4. QED BY <4>1, <4>2, <4>3
    <3>3. QED BY <3>1, <3>2
  <2>2. ASSUME NEW i \in 1..n, o.requests[i].skip # <<0, 0>> PROVE o.requests[i].verb = "exists"
    BY <1>6, <1>7, <2>2
  <2>3. QED BY <1>5, <2>1, <2>2 DEF SkipsDone
<1>13. QED BY <1>1, <1>4, <1>5, <1>9, <1>10, <1>11, <1>12 DEF WellFormedRunner

\* The runners with a list of names.
LEMMA ListRunners ==
    ASSUME NEW ns, NEW N, ns \in Seq(N), ns # <<>>
    PROVE  /\ WellFormedRunner(CreateIndex(ns)) /\ WellFormedRunner(CreateDataStream(ns))
           /\ WellFormedRunner(CreateComponentTemplate(ns))
           /\ WellFormedRunner(CreateComposableTemplate(ns))
           /\ WellFormedRunner(CreateIndexTemplate(ns))
           /\ \A b \in BOOLEAN : /\ WellFormedRunner(DeleteIndex(ns, b))
                                 /\ WellFormedRunner(DeleteDataStream(ns, b))
                                 /\ WellFormedRunner(DeleteComponentTemplate(ns, b))
<1>1. ASSUME NEW type, NEW verb \in {"create", "put"}, NEW kind
      PROVE  WellFormedRunner(Runner(type, FALSE, Each(ns, Own(R(verb, kind, Unnamed)))))
  <2>0. PICK e, r : e = {"open", "close"} /\ r = Own(R(verb, kind, Unnamed))
    OBVIOUS
  <2>1. r = Loop(verb, kind, e, r.tolerant)
    <3>1. \A v, k, q : q = Own(R(v, k, Unnamed)) =>
                         q = Loop(v, k, {"open", "close"}, q.tolerant)
      BY OwnLoop
    <3>2. QED BY <2>0, <3>1
  <2>2. e \in {{}, {"open", "close"}}
    BY <2>0
  <2>3. WellFormedRunner(Runner(type, FALSE, Each(ns, r)))
    BY <2>1, <2>2, LoopRunners
  <2>4. QED BY <2>0, <2>3
<1>2. ASSUME NEW type, NEW timed \in BOOLEAN, NEW kind, NEW b \in BOOLEAN,
             NEW bracket \in {{}, {"open", "close"}}, NEW tolerant, NEW r,
             r = Loop("delete", kind, bracket, tolerant)
      PROVE  WellFormedRunner(Runner(type, timed, DeleteEach(kind, ns, b, r)))
  <2>1. CASE b = TRUE
    BY <1>2, <2>1, AskingRunners
  <2>2. CASE b = FALSE
    <3>1. DeleteEach(kind, ns, b, r) = Each(ns, r)
      BY <2>2 DEF DeleteEach
    <3>2. QED BY <1>2, <3>1, LoopRunners
  <2>3. QED BY <2>1, <2>2
<1>3. /\ WellFormedRunner(CreateIndex(ns)) /\ WellFormedRunner(CreateDataStream(ns))
      /\ WellFormedRunner(CreateComponentTemplate(ns))
      /\ WellFormedRunner(CreateComposableTemplate(ns))
      /\ WellFormedRunner(CreateIndexTemplate(ns))
  BY <1>1 DEF CreateIndex, CreateDataStream, CreateComponentTemplate, CreateComposableTemplate,
              CreateIndexTemplate
<1>4. ASSUME NEW b \in BOOLEAN
      PROVE  /\ WellFormedRunner(DeleteIndex(ns, b)) /\ WellFormedRunner(DeleteDataStream(ns, b))
             /\ WellFormedRunner(DeleteComponentTemplate(ns, b))
  <2>1. WellFormedRunner(DeleteIndex(ns, b))
    <3>1. R("delete", "index", Unnamed) = Loop("delete", "index", {}, FALSE)
      BY DEF R, Loop
    <3>2. QED BY <1>2, <3>1 DEF DeleteIndex
  <2>2. ASSUME NEW kind, NEW type
        PROVE  WellFormedRunner(Runner(type, FALSE, DeleteEach(kind, ns, b,
                     [Own(R("delete", kind, Unnamed)) EXCEPT !.tolerant = ~b])))
    <3>1. PICK e, t : e = {"open", "close"} /\ t = ~b
      OBVIOUS
    <3>2. PICK r : r = [Own(R("delete", kind, Unnamed)) EXCEPT !.tolerant = t]
      OBVIOUS
    <3>3. r = Loop("delete", kind, e, t)
      BY <3>1, <3>2, TolerantLoop
    <3>4. e \in {{}, {"open", "close"}}
      BY <3>1
    <3>5. WellFormedRunner(Runner(type, FALSE, DeleteEach(kind, ns, b, r)))
      BY <1>2, <3>3, <3>4
    <3>6. QED BY <3>1, <3>2, <3>5
  <2>3. QED BY <2>2, <2>1 DEF DeleteDataStream, DeleteComponentTemplate
<1>5. QED BY <1>3, <1>4

\* create-ml-connector.
LEMMA CreateMlConnectorShape ==
    ASSUME NEW n
    PROVE  WellFormedRunner(CreateMlConnector(n))
<1>1. PICK o, a, b :
         /\ o = CreateMlConnector(n)
         /\ a = R("put", "connector", n)
         /\ b = R("write", "file", "connector_id.json")
  OBVIOUS
<1>0. o.timed = TRUE
  BY <1>1 DEF CreateMlConnector, Runner
<1>2. o.requests = <<a, b>>
  BY <1>1 DEF CreateMlConnector, Runner
<1>3. /\ a.verb = "put" /\ a.skip = <<0, 0>>
      /\ b.verb = "write" /\ b.skip = <<0, 0>>
  BY <1>1 DEF R
<1>4. o.requests \in Seq(ToSet(o.requests)) /\ Len(o.requests) = 2
  <2>1. PICK q : q = <<a, b>>
    OBVIOUS
  <2>2. q \in Seq({a, b}) /\ Len(q) = 2
    BY <2>1
  <2>3. q \in Seq(ToSet(q))
    BY <2>2, OwnElements
  <2>4. QED BY <1>2, <2>1, <2>2, <2>3
<1>5. \A i \in 1..2 : i = 1 \/ i = 2
  OBVIOUS
<1>6. o.requests[1] = a /\ o.requests[2] = b
  BY <1>2
<1>7. \A r \in {a, b} : Plain(r) /\ ~Removes(r)
  BY <1>3 DEF Plain, Awaits, Removes
<1>8. (\A i \in 1..2 : Plain(o.requests[i])) /\ NothingUndone(o, 2)
  BY <1>5, <1>6, <1>7 DEF NothingUndone
<1>9. StartedFirst(o, 2)
  BY <1>3, <1>5, <1>6 DEF StartedFirst, Awaits
<1>10. Instrumented(o) => Bracketed(o, 2)
  <2>1. OnWire(o.requests[1]) /\ o.requests[1].verb # "stop" /\ 1 \in 1..2
    BY <1>3, <1>6 DEF OnWire, Local
  <2>2. QED BY <1>0, <2>1 DEF Bracketed
<1>11. o.timed \in BOOLEAN
  BY <1>0, Zenon
<1>12. Straight(o, 2) /\ 2 \in Nat \ {0}
  BY <1>11, <1>4, <1>8, <1>9, <1>10 DEF Straight
<1>13. QED BY <1>1, <1>12, PlainRunner

\* register-remote-ml-model.
LEMMA RegisterRemoteMlModelShape ==
    ASSUME NEW n \in Jobs
    PROVE  WellFormedRunner(RegisterRemoteMlModel(n))
<1>1. PICK o, a, b, c, d, e :
         /\ o = RegisterRemoteMlModel(n)
         /\ a = R("need", "file", "connector_id.json")
         /\ b = R("start", "job", n)
         /\ c = R("await", "job", n)
         /\ d = R("write", "model", n)
         /\ e = R("write", "file", "model_id.json")
  OBVIOUS
<1>0. o.timed = TRUE
  BY <1>1 DEF RegisterRemoteMlModel, Runner
<1>2. o.requests = <<a, b, c, d, e>>
  BY <1>1 DEF RegisterRemoteMlModel, Runner
<1>3. /\ a.verb = "need" /\ a.skip = <<0, 0>>
      /\ b.verb = "start" /\ b.skip = <<0, 0>>
      /\ c.verb = "await" /\ c.skip = <<0, 0>> /\ c.name = n
      /\ d.verb = "write" /\ d.skip = <<0, 0>>
      /\ e.verb = "write" /\ e.skip = <<0, 0>>
  BY <1>1 DEF R
<1>4. o.requests \in Seq(ToSet(o.requests)) /\ Len(o.requests) = 5
  <2>1. PICK q : q = <<a, b, c, d, e>>
    OBVIOUS
  <2>2. q \in Seq({a, b, c, d, e}) /\ Len(q) = 5
    BY <2>1
  <2>3. q \in Seq(ToSet(q))
    BY <2>2, OwnElements
  <2>4. QED BY <1>2, <2>1, <2>2, <2>3
<1>5. \A i \in 1..5 : i = 1 \/ i = 2 \/ i = 3 \/ i = 4 \/ i = 5
  OBVIOUS
<1>6. /\ o.requests[1] = a /\ o.requests[2] = b /\ o.requests[3] = c
      /\ o.requests[4] = d /\ o.requests[5] = e
  BY <1>2
<1>7. \A r \in {a, b, c, d, e} : Plain(r) /\ ~Removes(r)
  BY <1>3 DEF Plain, Awaits, Removes
<1>8. (\A i \in 1..5 : Plain(o.requests[i])) /\ NothingUndone(o, 5)
  BY <1>5, <1>6, <1>7 DEF NothingUndone
<1>9. StartedFirst(o, 5)
  BY <1>3, <1>5, <1>6 DEF StartedFirst, Awaits
<1>10. Instrumented(o) => Bracketed(o, 5)
  <2>1. OnWire(o.requests[2]) /\ o.requests[2].verb # "stop" /\ 2 \in 1..5
    BY <1>3, <1>6 DEF OnWire, Local
  <2>2. QED BY <1>0, <2>1 DEF Bracketed
<1>11. o.timed \in BOOLEAN
  BY <1>0, Zenon
<1>12. Straight(o, 5) /\ 5 \in Nat \ {0}
  BY <1>11, <1>4, <1>8, <1>9, <1>10 DEF Straight
<1>13. QED BY <1>1, <1>12, PlainRunner

\* train-knn-model.
LEMMA TrainKnnModelShape ==
    ASSUME NEW n \in Jobs
    PROVE  WellFormedRunner(TrainKnnModel(n))
<1>1. PICK o, a, b :
         /\ o = TrainKnnModel(n)
         /\ a = Opens(R("start", "job", n))
         /\ b = Closes(R("await", "job", n))
  OBVIOUS
<1>0. o.timed = FALSE
  BY <1>1 DEF TrainKnnModel, Runner
<1>2. o.requests = <<a, b>>
  BY <1>1 DEF TrainKnnModel, Runner
<1>3. /\ a.verb = "start" /\ a.skip = <<0, 0>> /\ a.bracket = {"open"}
      /\ b.verb = "await" /\ b.skip = <<0, 0>> /\ b.bracket = {"close"} /\ b.name = n
  BY <1>1 DEF R, Opens, Closes
<1>4. o.requests \in Seq(ToSet(o.requests)) /\ Len(o.requests) = 2
  <2>1. PICK q : q = <<a, b>>
    OBVIOUS
  <2>2. q \in Seq({a, b}) /\ Len(q) = 2
    BY <2>1
  <2>3. q \in Seq(ToSet(q))
    BY <2>2, OwnElements
  <2>4. QED BY <1>2, <2>1, <2>2, <2>3
<1>5. \A i \in 1..2 : i = 1 \/ i = 2
  OBVIOUS
<1>6. o.requests[1] = a /\ o.requests[2] = b
  BY <1>2
<1>7. \A r \in {a, b} : Plain(r) /\ ~Removes(r)
  BY <1>3 DEF Plain, Awaits, Removes
<1>8. (\A i \in 1..2 : Plain(o.requests[i])) /\ NothingUndone(o, 2)
  BY <1>5, <1>6, <1>7 DEF NothingUndone
<1>9. StartedFirst(o, 2)
  BY <1>3, <1>5, <1>6 DEF StartedFirst, Awaits
<1>10. Instrumented(o) => Bracketed(o, 2)
  <2>1. /\ OnWire(o.requests[1]) /\ o.requests[1].verb # "stop" /\ 1 \in 1..2
        /\ "close" \in o.requests[2].bracket /\ o.requests[2].verb # "stop" /\ 2 \in 1..2
    BY <1>3, <1>6 DEF OnWire, Local
  <2>2. QED BY <2>1 DEF Bracketed
<1>11. o.timed \in BOOLEAN
  BY <1>0, Zenon
<1>12. Straight(o, 2) /\ 2 \in Nat \ {0}
  BY <1>11, <1>4, <1>8, <1>9, <1>10 DEF Straight
<1>13. QED BY <1>1, <1>12, PlainRunner

\* force-merge that polls the tasks of the cluster.
LEMMA ForceMergeShape ==
    ASSUME NEW n \in Jobs
    PROVE  WellFormedRunner(ForceMerge(n, TRUE))
<1>1. PICK o, a, b :
         /\ o = ForceMerge(n, TRUE)
         /\ a = Opens(R("start", "job", n))
         /\ b = Closes(R("settle", "job", n))
  OBVIOUS
<1>0. o.timed = FALSE
  BY <1>1 DEF ForceMerge, Runner
<1>2. o.requests = <<a, b>>
  BY <1>1 DEF ForceMerge, Runner
<1>3. /\ a.verb = "start" /\ a.skip = <<0, 0>> /\ a.bracket = {"open"}
      /\ b.verb = "settle" /\ b.skip = <<0, 0>> /\ b.bracket = {"close"} /\ b.name = n
  BY <1>1 DEF R, Opens, Closes
<1>4. o.requests \in Seq(ToSet(o.requests)) /\ Len(o.requests) = 2
  <2>1. PICK q : q = <<a, b>>
    OBVIOUS
  <2>2. q \in Seq({a, b}) /\ Len(q) = 2
    BY <2>1
  <2>3. q \in Seq(ToSet(q))
    BY <2>2, OwnElements
  <2>4. QED BY <1>2, <2>1, <2>2, <2>3
<1>5. \A i \in 1..2 : i = 1 \/ i = 2
  OBVIOUS
<1>6. o.requests[1] = a /\ o.requests[2] = b
  BY <1>2
<1>7. \A r \in {a, b} : Plain(r) /\ ~Removes(r)
  BY <1>3 DEF Plain, Awaits, Removes
<1>8. (\A i \in 1..2 : Plain(o.requests[i])) /\ NothingUndone(o, 2)
  BY <1>5, <1>6, <1>7 DEF NothingUndone
<1>9. StartedFirst(o, 2)
  BY <1>3, <1>5, <1>6 DEF StartedFirst, Awaits
<1>10. Instrumented(o) => Bracketed(o, 2)
  <2>1. /\ OnWire(o.requests[1]) /\ o.requests[1].verb # "stop" /\ 1 \in 1..2
        /\ "close" \in o.requests[2].bracket /\ o.requests[2].verb # "stop" /\ 2 \in 1..2
    BY <1>3, <1>6 DEF OnWire, Local
  <2>2. QED BY <2>1 DEF Bracketed
<1>11. o.timed \in BOOLEAN
  BY <1>0, Zenon
<1>12. Straight(o, 2) /\ 2 \in Nat \ {0}
  BY <1>11, <1>4, <1>8, <1>9, <1>10 DEF Straight
<1>13. QED BY <1>1, <1>12, PlainRunner

\* wait-for-transform.
LEMMA WaitForTransformShape ==
    ASSUME NEW n \in Jobs
    PROVE  WellFormedRunner(WaitForTransform(n))
<1>1. PICK o, a, b :
         /\ o = WaitForTransform(n)
         /\ a = R("stop", "job", n)
         /\ b = R("await", "job", n)
  OBVIOUS
<1>0. o.timed = FALSE
  BY <1>1 DEF WaitForTransform, Runner
<1>2. o.requests = <<a, b>>
  BY <1>1 DEF WaitForTransform, Runner
<1>3. /\ a.verb = "stop" /\ a.skip = <<0, 0>> /\ a.bracket = {}
      /\ b.verb = "await" /\ b.skip = <<0, 0>> /\ b.name = n
  BY <1>1 DEF R
<1>4. o.requests \in Seq(ToSet(o.requests)) /\ Len(o.requests) = 2
  <2>1. PICK q : q = <<a, b>>
    OBVIOUS
  <2>2. q \in Seq({a, b}) /\ Len(q) = 2
    BY <2>1
  <2>3. q \in Seq(ToSet(q))
    BY <2>2, OwnElements
  <2>4. QED BY <1>2, <2>1, <2>2, <2>3
<1>5. \A i \in 1..2 : i = 1 \/ i = 2
  OBVIOUS
<1>6. o.requests[1] = a /\ o.requests[2] = b
  BY <1>2
<1>7. \A r \in {a, b} : Plain(r) /\ ~Removes(r)
  BY <1>3 DEF Plain, Awaits, Removes
<1>8. (\A i \in 1..2 : Plain(o.requests[i])) /\ NothingUndone(o, 2)
  BY <1>5, <1>6, <1>7 DEF NothingUndone
<1>9. StartedFirst(o, 2)
  BY <1>3, <1>5, <1>6 DEF StartedFirst, Awaits
<1>10. Instrumented(o) => Bracketed(o, 2)
  BY <1>0, <1>3, <1>6 DEF Instrumented
<1>11. o.timed \in BOOLEAN
  BY <1>0, Zenon
<1>12. Straight(o, 2) /\ 2 \in Nat \ {0}
  BY <1>11, <1>4, <1>8, <1>9, <1>10 DEF Straight
<1>13. QED BY <1>1, <1>12, PlainRunner

\* deploy-ml-model.
LEMMA DeployMlModelShape ==
    ASSUME NEW n \in Jobs
    PROVE  WellFormedRunner(DeployMlModel(n))
<1>1. PICK o, a, b, c :
         /\ o = DeployMlModel(n)
         /\ a = R("need", "file", "model_id.json")
         /\ b = R("start", "job", n)
         /\ c = R("await", "job", n)
  OBVIOUS
<1>0. o.timed = TRUE
  BY <1>1 DEF DeployMlModel, Runner
<1>2. o.requests = <<a, b, c>>
  BY <1>1 DEF DeployMlModel, Runner
<1>3. /\ a.verb = "need" /\ a.skip = <<0, 0>>
      /\ b.verb = "start" /\ b.skip = <<0, 0>>
      /\ c.verb = "await" /\ c.skip = <<0, 0>> /\ c.name = n
  BY <1>1 DEF R
<1>4. o.requests \in Seq(ToSet(o.requests)) /\ Len(o.requests) = 3
  <2>1. PICK q : q = <<a, b, c>>
    OBVIOUS
  <2>2. q \in Seq({a, b, c}) /\ Len(q) = 3
    BY <2>1
  <2>3. q \in Seq(ToSet(q))
    BY <2>2, OwnElements
  <2>4. QED BY <1>2, <2>1, <2>2, <2>3
<1>5. \A i \in 1..3 : i = 1 \/ i = 2 \/ i = 3
  OBVIOUS
<1>6. o.requests[1] = a /\ o.requests[2] = b /\ o.requests[3] = c
  BY <1>2
<1>7. \A r \in {a, b, c} : Plain(r) /\ ~Removes(r)
  BY <1>3 DEF Plain, Awaits, Removes
<1>8. (\A i \in 1..3 : Plain(o.requests[i])) /\ NothingUndone(o, 3)
  BY <1>5, <1>6, <1>7 DEF NothingUndone
<1>9. StartedFirst(o, 3)
  BY <1>3, <1>5, <1>6 DEF StartedFirst, Awaits
<1>10. Instrumented(o) => Bracketed(o, 3)
  <2>1. OnWire(o.requests[2]) /\ o.requests[2].verb # "stop" /\ 2 \in 1..3
    BY <1>3, <1>6 DEF OnWire, Local
  <2>2. QED BY <1>0, <2>1 DEF Bracketed
<1>11. o.timed \in BOOLEAN
  BY <1>0, Zenon
<1>12. Straight(o, 3) /\ 3 \in Nat \ {0}
  BY <1>11, <1>4, <1>8, <1>9, <1>10 DEF Straight
<1>13. QED BY <1>1, <1>12, PlainRunner

\* shrink-index.
LEMMA ShrinkIndexShape ==
    ASSUME NEW n, NEW target
    PROVE  WellFormedRunner(ShrinkIndex(n, target))
<1>1. PICK o, a, b, c, d, e, f :
         /\ o = ShrinkIndex(n, target)
         /\ a = R("read", "index", n)
         /\ b = R("read", "node", "info")
         /\ c = R("start", "job", n)
         /\ d = Own(R("require", "job", n))
         /\ e = Own(R("create", "index", target))
         /\ f = Own(R("require", "job", n))
  OBVIOUS
<1>0. o.timed = FALSE
  BY <1>1 DEF ShrinkIndex, Runner
<1>2. o.requests = <<a, b, c, d, e, f>>
  BY <1>1 DEF ShrinkIndex, Runner
<1>3. /\ a.verb = "read" /\ a.skip = <<0, 0>> /\ a.bracket = {}
      /\ b.verb = "read" /\ b.skip = <<0, 0>>
      /\ c.verb = "start" /\ c.skip = <<0, 0>>
      /\ d.verb = "require" /\ d.skip = <<0, 0>>
      /\ e.verb = "create" /\ e.skip = <<0, 0>>
      /\ f.verb = "require" /\ f.skip = <<0, 0>>
  BY <1>1 DEF R, Own
<1>4. o.requests \in Seq(ToSet(o.requests)) /\ Len(o.requests) = 6
  <2>1. PICK q : q = <<a, b, c, d, e, f>>
    OBVIOUS
  <2>2. q \in Seq({a, b, c, d, e, f}) /\ Len(q) = 6
    BY <2>1
  <2>3. q \in Seq(ToSet(q))
    BY <2>2, OwnElements
  <2>4. QED BY <1>2, <2>1, <2>2, <2>3
<1>5. \A i \in 1..6 : i = 1 \/ i = 2 \/ i = 3 \/ i = 4 \/ i = 5 \/ i = 6
  OBVIOUS
<1>6. /\ o.requests[1] = a /\ o.requests[2] = b /\ o.requests[3] = c
      /\ o.requests[4] = d /\ o.requests[5] = e /\ o.requests[6] = f
  BY <1>2
<1>7. \A r \in {a, b, c, d, e, f} : Plain(r) /\ ~Removes(r)
  BY <1>3 DEF Plain, Awaits, Removes
<1>8. (\A i \in 1..6 : Plain(o.requests[i])) /\ NothingUndone(o, 6)
  BY <1>5, <1>6, <1>7 DEF NothingUndone
<1>9. StartedFirst(o, 6)
  BY <1>3, <1>5, <1>6 DEF StartedFirst, Awaits
<1>10. Instrumented(o) => Bracketed(o, 6)
  BY <1>0, <1>3, <1>6 DEF Instrumented
<1>11. o.timed \in BOOLEAN
  BY <1>0, Zenon
<1>12. Straight(o, 6) /\ 6 \in Nat \ {0}
  BY <1>11, <1>4, <1>8, <1>9, <1>10 DEF Straight
<1>13. QED BY <1>1, <1>12, PlainRunner

\* A runner whose first request asks whether the target exists and may skip
\* some of the others.
SkipsRest(o, n) ==
    \A i \in 2..n :
        /\ i <= 1 + o.requests[1].skip[1] => Skippable(o, o.requests[1], o.requests[i], TRUE)
        /\ i <= 1 + o.requests[1].skip[2] => Skippable(o, o.requests[1], o.requests[i], FALSE)

AsksFirst(o, n) ==
    /\ o.timed \in BOOLEAN
    /\ o.requests \in Seq(ToSet(o.requests)) /\ Len(o.requests) = n
    /\ o.requests[1].verb = "exists" /\ o.requests[1].bracket = {}
    /\ o.requests[1].skip \in Nat \X Nat
    /\ \A i \in 2..n : Plain(o.requests[i])
    /\ NothingUndone(o, n) /\ StartedFirst(o, n) /\ SkipsRest(o, n)

\* A runner whose first request decides on the others is well formed.
LEMMA AskingRunner ==
    ASSUME NEW o, NEW n \in Nat \ {0}, AsksFirst(o, n)
    PROVE  WellFormedRunner(o)
<1>1. /\ o.timed \in BOOLEAN /\ o.requests \in Seq(ToSet(o.requests)) /\ Len(o.requests) = n
      /\ o.requests[1].verb = "exists" /\ o.requests[1].bracket = {}
      /\ o.requests[1].skip \in Nat \X Nat
  BY DEF AsksFirst
<1>2. DOMAIN o.requests = 1..n /\ 1 \in 1..n
  <2>1. PICK S : S = ToSet(o.requests)
    OBVIOUS
  <2>2. QED BY <1>1, <2>1
<1>3. ASSUME NEW i \in 1..n, i # 1
      PROVE  /\ i \in 2..n /\ o.requests[i].skip = <<0, 0>>
             /\ o.requests[i].skip[1] = 0 /\ o.requests[i].skip[2] = 0
             /\ o.requests[i].skip \in Nat \X Nat
             /\ Awaits(o.requests[i]) \/ o.requests[i].verb = "settle" => o.requests[i].name \in Jobs
  <2>1. i \in 2..n
    BY <1>3
  <2>2. Plain(o.requests[i])
    BY <2>1 DEF AsksFirst
  <2>3. <<0, 0>>[1] = 0 /\ <<0, 0>>[2] = 0 /\ <<0, 0>> \in Nat \X Nat
    OBVIOUS
  <2>4. QED BY <2>1, <2>2, <2>3 DEF Plain
<1>4. ClosesBracket(o)
  <2>1. Inevitable(o, 1)
    BY <1>1, <1>2 DEF Inevitable
  <2>2. OnWire(o.requests[1])
    BY <1>1 DEF OnWire, Local
  <2>3. QED BY <1>1, <1>2, <2>1, <2>2 DEF ClosesBracket, Instrumented
<1>5. Consistent(o)
  <2>1. SUFFICES ASSUME NEW i \in 1..n, NEW j \in 1..n
        PROVE  /\ ~(Adds(o.requests[i]) /\ Removes(o.requests[j]))
               /\ i < j /\ (Awaits(o.requests[i]) \/ o.requests[i].verb = "settle") =>
                    o.requests[j].verb # "start"
    BY <1>2 DEF Consistent
  <2>2. QED BY <2>1 DEF AsksFirst, NothingUndone, StartedFirst
<1>6. SkipsDone(o)
  <2>1. ASSUME NEW i \in 1..n, o.requests[i].skip # <<0, 0>> PROVE o.requests[i].verb = "exists"
    BY <1>1, <1>3, <2>1
  <2>2. ASSUME NEW i \in 1..n, NEW j \in 1..n, i < j
        PROVE  /\ j <= i + o.requests[i].skip[1] => Skippable(o, o.requests[i], o.requests[j], TRUE)
               /\ j <= i + o.requests[i].skip[2] => Skippable(o, o.requests[i], o.requests[j], FALSE)
    <3>1. CASE i = 1
      <4>1. j \in 2..n
        BY <2>2, <3>1
      <4>2. QED BY <3>1, <4>1 DEF AsksFirst, SkipsRest
    <3>2. CASE i # 1
      <4>1. o.requests[i].skip[1] = 0 /\ o.requests[i].skip[2] = 0 /\ ~(j <= i + 0)
        BY <1>3, <2>2, <3>2
      <4>2. QED BY <4>1
    <3>3. QED BY <3>1, <3>2
  <2>3. QED BY <1>2, <2>1, <2>2 DEF SkipsDone
<1>7. \A i \in 1..n : /\ o.requests[i].skip \in Nat \X Nat
                      /\ Awaits(o.requests[i]) \/ o.requests[i].verb = "settle" =>
                            o.requests[i].name \in Jobs
  <2>1. ~Awaits(o.requests[1])
    BY <1>1 DEF Awaits
  <2>2. QED BY <1>1, <1>3, <2>1
<1>8. QED BY <1>1, <1>2, <1>4, <1>5, <1>6, <1>7 DEF WellFormedRunner

\* delete-ml-connector.
LEMMA DeleteMlConnectorShape ==
    ASSUME NEW n
    PROVE  WellFormedRunner(DeleteMlConnector(n))
<1>1. PICK o, a, b :
         /\ o = DeleteMlConnector(n)
         /\ a = Exists("connector", n)
         /\ b = R("delete", "connector", n)
  OBVIOUS
<1>2. o.timed = TRUE
  BY <1>1 DEF DeleteMlConnector, Runner
<1>3. o.requests = <<a, b>>
  BY <1>1 DEF DeleteMlConnector, Runner
<1>4. /\ a.verb = "exists" /\ a.kind = "connector" /\ a.name = n /\ a.skip = <<0, 1>> /\ a.bracket = {}
      /\ b.verb = "delete" /\ b.kind = "connector" /\ b.name = n /\ b.skip = <<0, 0>>
  BY <1>1 DEF R, Exists
<1>5. o.requests \in Seq(ToSet(o.requests)) /\ Len(o.requests) = 2
  <2>1. PICK q : q = <<a, b>>
    OBVIOUS
  <2>2. q \in Seq({a, b}) /\ Len(q) = 2
    BY <2>1
  <2>3. q \in Seq(ToSet(q))
    BY <2>2, OwnElements
  <2>4. QED BY <1>3, <2>1, <2>2, <2>3
<1>6. /\ \A i \in 1..2 : i = 1 \/ i = 2
      /\ \A i \in 2..2 : i = 2
  OBVIOUS
<1>7. o.requests[1] = a /\ o.requests[2] = b
  BY <1>3
<1>8. \A i \in 2..2 : Plain(o.requests[i])
  BY <1>4, <1>6, <1>7 DEF Plain, Awaits
<1>9. NothingUndone(o, 2)
  BY <1>4, <1>6, <1>7 DEF NothingUndone, Adds
<1>10. StartedFirst(o, 2)
  BY <1>4, <1>6, <1>7 DEF StartedFirst, Awaits
<1>11. a.skip[1] = 0 /\ a.skip[2] = 1 /\ a.skip \in Nat \X Nat
  BY <1>4
<1>12. \A r \in {b} : Skippable(o, a, r, FALSE)
  BY <1>4, <1>7, <1>11 DEF Skippable, Adds, Removes, Awaits, Target
<1>13. SkipsRest(o, 2)
  <2>0. SUFFICES ASSUME NEW i \in 2..2
        PROVE  /\ i <= 1 + o.requests[1].skip[1] => Skippable(o, o.requests[1], o.requests[i], TRUE)
               /\ i <= 1 + o.requests[1].skip[2] => Skippable(o, o.requests[1], o.requests[i], FALSE)
    BY DEF SkipsRest
  <2>1. i <= 1 + 1 => o.requests[i] \in {b}
    BY <1>6, <1>7
  <2>2. ~(i <= 1 + 0)
    OBVIOUS
  <2>3. QED BY <1>7, <1>11, <1>12, <2>1, <2>2
<1>14. o.timed \in BOOLEAN
  BY <1>2, Zenon
<1>15. /\ o.requests[1].verb = "exists" /\ o.requests[1].bracket = {}
       /\ o.requests[1].skip \in Nat \X Nat
  BY <1>4, <1>7, <1>11
<1>16. AsksFirst(o, 2) /\ 2 \in Nat \ {0}
  BY <1>5, <1>8, <1>9, <1>10, <1>13, <1>14, <1>15 DEF AsksFirst
<1>17. QED BY <1>1, <1>16, AskingRunner

\* delete-ml-model.
LEMMA DeleteMlModelShape ==
    ASSUME NEW n \in Jobs
    PROVE  WellFormedRunner(DeleteMlModel(n))
<1>1. PICK o, a, b, c, d :
         /\ o = DeleteMlModel(n)
         /\ a = [Exists("model", n) EXCEPT !.skip = <<0, 3>>]
         /\ b = R("read", "model", n)
         /\ c = R("settle", "job", n)
         /\ d = R("delete", "model", n)
  OBVIOUS
<1>2. o.timed = TRUE
  BY <1>1 DEF DeleteMlModel, Runner
<1>3. o.requests = <<a, b, c, d>>
  BY <1>1 DEF DeleteMlModel, Runner
<1>4. /\ a.verb = "exists" /\ a.kind = "model" /\ a.name = n /\ a.skip = <<0, 3>> /\ a.bracket = {}
      /\ b.verb = "read" /\ b.kind = "model" /\ b.name = n /\ b.skip = <<0, 0>>
      /\ c.verb = "settle" /\ c.kind = "job" /\ c.name = n /\ c.skip = <<0, 0>>
      /\ d.verb = "delete" /\ d.kind = "model" /\ d.name = n /\ d.skip = <<0, 0>>
  BY <1>1 DEF R, Exists
<1>5. o.requests \in Seq(ToSet(o.requests)) /\ Len(o.requests) = 4
  <2>1. PICK q : q = <<a, b, c, d>>
    OBVIOUS
  <2>2. q \in Seq({a, b, c, d}) /\ Len(q) = 4
    BY <2>1
  <2>3. q \in Seq(ToSet(q))
    BY <2>2, OwnElements
  <2>4. QED BY <1>3, <2>1, <2>2, <2>3
<1>6. /\ \A i \in 1..4 : i = 1 \/ i = 2 \/ i = 3 \/ i = 4
      /\ \A i \in 2..4 : i = 2 \/ i = 3 \/ i = 4
  OBVIOUS
<1>7. o.requests[1] = a /\ o.requests[2] = b /\ o.requests[3] = c /\ o.requests[4] = d
  BY <1>3
<1>8. \A i \in 2..4 : Plain(o.requests[i])
  BY <1>4, <1>6, <1>7 DEF Plain, Awaits
<1>9. NothingUndone(o, 4)
  BY <1>4, <1>6, <1>7 DEF NothingUndone, Adds
<1>10. StartedFirst(o, 4)
  BY <1>4, <1>6, <1>7 DEF StartedFirst, Awaits
<1>11. a.skip[1] = 0 /\ a.skip[2] = 3 /\ a.skip \in Nat \X Nat
  BY <1>4
<1>12. \A r \in {b, c, d} : Skippable(o, a, r, FALSE)
  BY <1>4, <1>7, <1>11 DEF Skippable, Adds, Removes, Awaits, Target
<1>13. SkipsRest(o, 4)
  <2>0. SUFFICES ASSUME NEW i \in 2..4
        PROVE  /\ i <= 1 + o.requests[1].skip[1] => Skippable(o, o.requests[1], o.requests[i], TRUE)
               /\ i <= 1 + o.requests[1].skip[2] => Skippable(o, o.requests[1], o.requests[i], FALSE)
    BY DEF SkipsRest
  <2>1. i <= 1 + 3 => o.requests[i] \in {b, c, d}
    BY <1>6, <1>7
  <2>2. ~(i <= 1 + 0)
    OBVIOUS
  <2>3. QED BY <1>7, <1>11, <1>12, <2>1, <2>2
<1>14. o.timed \in BOOLEAN
  BY <1>2, Zenon
<1>15. /\ o.requests[1].verb = "exists" /\ o.requests[1].bracket = {}
       /\ o.requests[1].skip \in Nat \X Nat
  BY <1>4, <1>7, <1>11
<1>16. AsksFirst(o, 4) /\ 4 \in Nat \ {0}
  BY <1>5, <1>8, <1>9, <1>10, <1>13, <1>14, <1>15 DEF AsksFirst
<1>17. QED BY <1>1, <1>16, AskingRunner

\* register-ml-model.
LEMMA RegisterMlModelShape ==
    ASSUME NEW n \in Jobs
    PROVE  WellFormedRunner(RegisterMlModel(n))
<1>1. PICK o, a, b, c, d, e :
         /\ o = RegisterMlModel(n)
         /\ a = [Exists("model", n) EXCEPT !.skip = <<3, 0>>]
         /\ b = R("start", "job", n)
         /\ c = R("await", "job", n)
         /\ d = R("write", "model", n)
         /\ e = R("write", "file", "model_id.json")
  OBVIOUS
<1>2. o.timed = TRUE
  BY <1>1 DEF RegisterMlModel, Runner
<1>3. o.requests = <<a, b, c, d, e>>
  BY <1>1 DEF RegisterMlModel, Runner
<1>4. /\ a.verb = "exists" /\ a.kind = "model" /\ a.name = n /\ a.skip = <<3, 0>> /\ a.bracket = {}
      /\ b.verb = "start" /\ b.kind = "job" /\ b.name = n /\ b.skip = <<0, 0>>
      /\ c.verb = "await" /\ c.kind = "job" /\ c.name = n /\ c.skip = <<0, 0>>
      /\ d.verb = "write" /\ d.kind = "model" /\ d.name = n /\ d.skip = <<0, 0>>
      /\ e.verb = "write" /\ e.kind = "file" /\ e.name = "model_id.json" /\ e.skip = <<0, 0>>
  BY <1>1 DEF R, Exists
<1>5. o.requests \in Seq(ToSet(o.requests)) /\ Len(o.requests) = 5
  <2>1. PICK q : q = <<a, b, c, d, e>>
    OBVIOUS
  <2>2. q \in Seq({a, b, c, d, e}) /\ Len(q) = 5
    BY <2>1
  <2>3. q \in Seq(ToSet(q))
    BY <2>2, OwnElements
  <2>4. QED BY <1>3, <2>1, <2>2, <2>3
<1>6. /\ \A i \in 1..5 : i = 1 \/ i = 2 \/ i = 3 \/ i = 4 \/ i = 5
      /\ \A i \in 2..5 : i = 2 \/ i = 3 \/ i = 4 \/ i = 5
  OBVIOUS
<1>7. /\ o.requests[1] = a /\ o.requests[2] = b /\ o.requests[3] = c
      /\ o.requests[4] = d /\ o.requests[5] = e
  BY <1>3
<1>8. \A i \in 2..5 : Plain(o.requests[i])
  BY <1>4, <1>6, <1>7 DEF Plain, Awaits
<1>9. NothingUndone(o, 5)
  BY <1>4, <1>6, <1>7 DEF NothingUndone, Removes
<1>10. StartedFirst(o, 5)
  BY <1>4, <1>6, <1>7 DEF StartedFirst, Awaits
<1>11. a.skip[1] = 3 /\ a.skip[2] = 0 /\ a.skip \in Nat \X Nat
  BY <1>4
<1>12. \A r \in {b, c, d} : Skippable(o, a, r, TRUE)
  BY <1>4, <1>7, <1>11 DEF Skippable, Adds, Removes, Awaits, Target
<1>13. SkipsRest(o, 5)
  <2>0. SUFFICES ASSUME NEW i \in 2..5
        PROVE  /\ i <= 1 + o.requests[1].skip[1] => Skippable(o, o.requests[1], o.requests[i], TRUE)
               /\ i <= 1 + o.requests[1].skip[2] => Skippable(o, o.requests[1], o.requests[i], FALSE)
    BY DEF SkipsRest
  <2>1. i <= 1 + 3 => o.requests[i] \in {b, c, d}
    BY <1>6, <1>7
  <2>2. ~(i <= 1 + 0)
    OBVIOUS
  <2>3. QED BY <1>7, <1>11, <1>12, <2>1, <2>2
<1>14. o.timed \in BOOLEAN
  BY <1>2, Zenon
<1>15. /\ o.requests[1].verb = "exists" /\ o.requests[1].bracket = {}
       /\ o.requests[1].skip \in Nat \X Nat
  BY <1>4, <1>7, <1>11
<1>16. AsksFirst(o, 5) /\ 5 \in Nat \ {0}
  BY <1>5, <1>8, <1>9, <1>10, <1>13, <1>14, <1>15 DEF AsksFirst
<1>17. QED BY <1>1, <1>16, AskingRunner

\* Two sequences after each other.
Joined(S, p, q, s) ==
    /\ s \in Seq(S) /\ Len(s) = Len(p) + Len(q)
    /\ \A i \in 1..Len(p) : s[i] = p[i]
    /\ \A i \in 1..Len(q) : s[Len(p) + i] = q[i]

\* Concatenation puts one sequence after the other.
LEMMA Concatenated ==
    ASSUME NEW S, NEW p \in Seq(S), NEW q \in Seq(S)
    PROVE  Joined(S, p, q, p \o q)
<1>0. PICK s : s = p \o q
  OBVIOUS
<1>1. s \in Seq(S) /\ Len(s) = Len(p) + Len(q)
  BY <1>0
<1>2. ASSUME NEW i \in 1..Len(p) PROVE s[i] = p[i]
  BY <1>0
<1>3. ASSUME NEW i \in 1..Len(q) PROVE s[Len(p) + i] = q[i]
  BY <1>0
<1>4. Joined(S, p, q, s)
  BY <1>1, <1>2, <1>3 DEF Joined
<1>5. QED BY <1>0, <1>4

\* One name, and one more request.
Named(r, n) == [r EXCEPT !.name = n]

IsLoopOfOne(asks, d, x, y, z) == d = IF asks THEN <<x, y, z>> ELSE <<y, z>>

\* A loop over one name is that name's request, after a question or without.
LEMMA LoopOfOne ==
    ASSUME NEW kind, NEW n, NEW r, NEW x, NEW y, NEW z, x = Exists(kind, n),
           y = Named(r, n), NEW asks \in BOOLEAN, NEW d,
           d = DeleteEach(kind, <<n>>, asks, r) \o <<z>>
    PROVE  IsLoopOfOne(asks, d, x, y, z)
<1>1. x = Exists(kind, n) /\ y = [r EXCEPT !.name = n]
  BY DEF Named
<1>2. DeleteEach(kind, <<n>>, TRUE, r) = <<x, y>>
  <2>1. PICK f : f = DeleteEach(kind, <<n>>, TRUE, r)
    OBVIOUS
  <2>2. f = [i \in 1..2 |-> IF i % 2 = 1 THEN Exists(kind, <<n>>[(i + 1) \div 2])
                                         ELSE [r EXCEPT !.name = <<n>>[i \div 2]]]
    BY <2>1 DEF DeleteEach
  <2>3. /\ 1 % 2 = 1 /\ 2 % 2 # 1 /\ (1 + 1) \div 2 = 1 /\ 2 \div 2 = 1 /\ <<n>>[1] = n
    OBVIOUS
  <2>4. f[1] = x /\ f[2] = y
    BY <1>1, <2>2, <2>3
  <2>5. PICK T : T = {f[i] : i \in 1..2}
    OBVIOUS
  <2>6. f \in [1..2 -> T]
    BY <2>2, <2>5
  <2>7. f \in Seq(T) /\ Len(f) = 2
    BY <2>6, FunctionSeq
  <2>8. f = <<x, y>>
    BY <2>4, <2>7
  <2>9. QED BY <2>1, <2>8
<1>3. DeleteEach(kind, <<n>>, FALSE, r) = <<y>>
  <2>1. PICK f : f = DeleteEach(kind, <<n>>, FALSE, r)
    OBVIOUS
  <2>2. f = [i \in 1..1 |-> [r EXCEPT !.name = <<n>>[i]]]
    BY <2>1 DEF DeleteEach, Each
  <2>3. <<n>>[1] = n /\ \A i \in 1..1 : i = 1
    OBVIOUS
  <2>4. f[1] = y
    BY <1>1, <2>2, <2>3
  <2>5. f \in [1..1 -> {y}]
    BY <1>1, <2>2, <2>3, <2>4
  <2>6. f \in Seq({y}) /\ Len(f) = 1
    BY <2>5, FunctionSeq
  <2>7. f = <<y>>
    BY <2>4, <2>6
  <2>8. QED BY <2>1, <2>7
<1>4. <<x, y>> \o <<z>> = <<x, y, z>> /\ <<y>> \o <<z>> = <<y, z>>
  <2>1. PICK S : S = {x, y, z}
    OBVIOUS
  <2>2. PICK p, q, e : p = <<x, y>> /\ q = <<y>> /\ e = <<z>>
    OBVIOUS
  <2>3. /\ p \in Seq(S) /\ Len(p) = 2 /\ p[1] = x /\ p[2] = y
        /\ q \in Seq(S) /\ Len(q) = 1 /\ q[1] = y
        /\ e \in Seq(S) /\ Len(e) = 1 /\ e[1] = z
    BY <2>1, <2>2
  <2>4. p \o e = <<x, y, z>>
    <3>1. PICK s : s = p \o e
      OBVIOUS
    <3>2. Joined(S, p, e, s)
      BY <2>3, <3>1, Concatenated
    <3>3. /\ s \in Seq(S) /\ Len(s) = 3
          /\ 1 \in 1..Len(p) /\ 2 \in 1..Len(p) /\ 1 \in 1..Len(e) /\ Len(p) + 1 = 3
      BY <2>3, <3>2 DEF Joined
    <3>4. s[1] = x /\ s[2] = y /\ s[3] = z
      BY <2>3, <3>2, <3>3 DEF Joined
    <3>5. s = <<x, y, z>>
      BY <3>3, <3>4
    <3>6. QED BY <3>1, <3>5
  <2>5. q \o e = <<y, z>>
    <3>1. PICK s : s = q \o e
      OBVIOUS
    <3>2. Joined(S, q, e, s)
      BY <2>3, <3>1, Concatenated
    <3>3. s \in Seq(S) /\ Len(s) = 2 /\ 1 \in 1..Len(q) /\ 1 \in 1..Len(e) /\ Len(q) + 1 = 2
      BY <2>3, <3>2 DEF Joined
    <3>4. s[1] = y /\ s[2] = z
      BY <2>3, <3>2, <3>3 DEF Joined
    <3>5. s = <<y, z>>
      BY <3>3, <3>4
    <3>6. QED BY <3>1, <3>5
  <2>6. QED BY <2>2, <2>4, <2>5
<1>5. CASE asks = TRUE
  <2>1. d = <<x, y>> \o <<z>>
    BY <1>2, <1>5
  <2>2. QED BY <1>4, <1>5, <2>1 DEF IsLoopOfOne
<1>6. CASE asks = FALSE
  <2>1. d = <<y>> \o <<z>>
    BY <1>3, <1>6
  <2>2. QED BY <1>4, <1>6, <2>1 DEF IsLoopOfOne
<1>7. QED BY <1>5, <1>6

\* The runners that delete a template and the indices that match it.
LEMMA TemplateRunner ==
    ASSUME NEW type, NEW n, NEW t, NEW asks \in BOOLEAN, NEW r, NEW z, NEW brackets,
           brackets = {"open", "close"}, r = Loop("delete", "template", brackets, t),
           z = Tolerant(R("delete", "index", n))
    PROVE  WellFormedRunner(Runner(type, FALSE,
                                   DeleteEach("template", <<n>>, asks, r) \o <<z>>))
<1>1. PICK o, a, b : /\ o = Runner(type, FALSE, DeleteEach("template", <<n>>, asks, r) \o <<z>>)
                     /\ a = Exists("template", n) /\ b = Named(r, n)
  OBVIOUS
<1>2. o.timed \in BOOLEAN /\ ~o.timed
  <2>1. o.timed = FALSE
    BY <1>1 DEF Runner
  <2>2. QED BY <2>1, Zenon
<1>3. /\ a.verb = "exists" /\ a.kind = "template" /\ a.name = n /\ a.skip = <<0, 1>> /\ a.bracket = {}
      /\ b.verb = "delete" /\ b.kind = "template" /\ b.name = n /\ b.skip = <<0, 0>>
      /\ b.bracket = {"open", "close"}
      /\ z.verb = "delete" /\ z.skip = <<0, 0>>
  <2>1. a.verb = "exists" /\ a.kind = "template" /\ a.name = n /\ a.skip = <<0, 1>> /\ a.bracket = {}
    BY <1>1 DEF Exists, R
  <2>2. /\ b.verb = "delete" /\ b.kind = "template" /\ b.name = n /\ b.skip = <<0, 0>>
        /\ b.bracket = {"open", "close"}
    BY <1>1 DEF Named, Loop
  <2>3. z.verb = "delete" /\ z.skip = <<0, 0>>
    BY DEF Tolerant, R
  <2>4. QED BY <2>1, <2>2, <2>3
<1>4. CASE asks = TRUE
  <2>1. o.requests = <<a, b, z>>
    <3>1. PICK d : d = DeleteEach("template", <<n>>, asks, r) \o <<z>>
      OBVIOUS
    <3>2. d = <<a, b, z>>
      <4>1. IsLoopOfOne(asks, d, a, b, z)
        BY <1>1, <3>1, LoopOfOne
      <4>2. QED BY <1>4, <4>1 DEF IsLoopOfOne
    <3>3. QED BY <1>1, <3>1, <3>2 DEF Runner
  <2>2. o.requests \in Seq(ToSet(o.requests)) /\ Len(o.requests) = 3
    <3>1. PICK q : q = <<a, b, z>>
      OBVIOUS
    <3>2. q \in Seq({a, b, z}) /\ Len(q) = 3
      BY <3>1
    <3>3. q \in Seq(ToSet(q))
      BY <3>2, OwnElements
    <3>4. QED BY <2>1, <3>1, <3>2, <3>3
  <2>3. /\ \A i \in 1..3 : i = 1 \/ i = 2 \/ i = 3
        /\ \A i \in 2..3 : i = 2 \/ i = 3
    OBVIOUS
  <2>4. o.requests[1] = a /\ o.requests[2] = b /\ o.requests[3] = z
    BY <2>1
  <2>5. \A i \in 2..3 : Plain(o.requests[i])
    BY <1>3, <2>3, <2>4 DEF Plain, Awaits
  <2>6. NothingUndone(o, 3)
    BY <1>3, <2>3, <2>4 DEF NothingUndone, Adds
  <2>7. StartedFirst(o, 3)
    BY <1>3, <2>3, <2>4 DEF StartedFirst
  <2>8. a.skip[1] = 0 /\ a.skip[2] = 1 /\ a.skip \in Nat \X Nat
    BY <1>3
  <2>9. Skippable(o, a, b, FALSE)
    BY <1>3 DEF Skippable, Adds, Removes, Awaits, Target
  <2>10. SkipsRest(o, 3)
    <3>1. SUFFICES ASSUME NEW i \in 2..3
                   PROVE  /\ i <= 1 + o.requests[1].skip[1] =>
                               Skippable(o, o.requests[1], o.requests[i], TRUE)
                          /\ i <= 1 + o.requests[1].skip[2] =>
                               Skippable(o, o.requests[1], o.requests[i], FALSE)
      BY DEF SkipsRest
    <3>2. i <= 1 + 1 => o.requests[i] = b
      BY <2>3, <2>4
    <3>3. ~(i <= 1 + 0)
      OBVIOUS
    <3>4. QED BY <2>4, <2>8, <2>9, <3>2, <3>3
  <2>11. /\ o.requests[1].verb = "exists" /\ o.requests[1].bracket = {}
         /\ o.requests[1].skip \in Nat \X Nat
    BY <1>3, <2>4, <2>8
  <2>12. AsksFirst(o, 3) /\ 3 \in Nat \ {0}
    BY <1>2, <2>2, <2>5, <2>6, <2>7, <2>10, <2>11 DEF AsksFirst
  <2>13. QED BY <1>1, <2>12, AskingRunner
<1>5. CASE asks = FALSE
  <2>1. o.requests = <<b, z>>
    <3>1. PICK d : d = DeleteEach("template", <<n>>, asks, r) \o <<z>>
      OBVIOUS
    <3>2. d = <<b, z>>
      <4>1. IsLoopOfOne(asks, d, a, b, z)
        BY <1>1, <3>1, LoopOfOne
      <4>2. QED BY <1>5, <4>1 DEF IsLoopOfOne
    <3>3. QED BY <1>1, <3>1, <3>2 DEF Runner
  <2>2. o.requests \in Seq(ToSet(o.requests)) /\ Len(o.requests) = 2
    <3>1. PICK q : q = <<b, z>>
      OBVIOUS
    <3>2. q \in Seq({b, z}) /\ Len(q) = 2
      BY <3>1
    <3>3. q \in Seq(ToSet(q))
      BY <3>2, OwnElements
    <3>4. QED BY <2>1, <3>1, <3>2, <3>3
  <2>3. \A i \in 1..2 : i = 1 \/ i = 2
    OBVIOUS
  <2>4. o.requests[1] = b /\ o.requests[2] = z
    BY <2>1
  <2>5. \A i \in 1..2 : Plain(o.requests[i])
    BY <1>3, <2>3, <2>4 DEF Plain, Awaits
  <2>6. NothingUndone(o, 2)
    BY <1>3, <2>3, <2>4 DEF NothingUndone, Adds
  <2>7. StartedFirst(o, 2)
    BY <1>3, <2>3, <2>4 DEF StartedFirst
  <2>8. Bracketed(o, 2)
    <3>1. /\ OnWire(o.requests[1]) /\ o.requests[1].verb # "stop" /\ 1 \in 1..2
          /\ "close" \in o.requests[1].bracket
      BY <1>3, <2>4 DEF OnWire, Local
    <3>2. QED BY <3>1 DEF Bracketed
  <2>9. Straight(o, 2) /\ 2 \in Nat \ {0}
    BY <1>2, <2>2, <2>5, <2>6, <2>7, <2>8 DEF Straight
  <2>10. QED BY <1>1, <2>9, PlainRunner
<1>6. QED BY <1>4, <1>5

\* The two runners that delete a template and its index.
LEMMA TemplateRunners ==
    ASSUME NEW n, NEW asks \in BOOLEAN
    PROVE  /\ WellFormedRunner(DeleteComposableTemplate(n, asks))
           /\ WellFormedRunner(DeleteIndexTemplate(n, asks))
<1>1. PICK e, t, z : e = {"open", "close"} /\ t = ~asks /\ z = Tolerant(R("delete", "index", n))
  OBVIOUS
<1>2. WellFormedRunner(DeleteComposableTemplate(n, asks))
  <2>1. PICK r : r = [Own(R("delete", "template", Unnamed)) EXCEPT !.tolerant = t]
    OBVIOUS
  <2>2. r = Loop("delete", "template", e, t)
    BY <1>1, <2>1, TolerantLoop
  <2>3. WellFormedRunner(Runner("delete-composable-template", FALSE,
                                DeleteEach("template", <<n>>, asks, r) \o <<z>>))
    BY <1>1, <2>2, TemplateRunner
  <2>4. QED BY <1>1, <2>1, <2>3 DEF DeleteComposableTemplate
<1>3. WellFormedRunner(DeleteIndexTemplate(n, asks))
  <2>1. PICK r : r = Own(R("delete", "template", Unnamed))
    OBVIOUS
  <2>2. r = Loop("delete", "template", e, r.tolerant)
    BY <1>1, <2>1, OwnLoop
  <2>3. WellFormedRunner(Runner("delete-index-template", FALSE,
                                DeleteEach("template", <<n>>, asks, r) \o <<z>>))
    BY <1>1, <2>2, TemplateRunner
  <2>4. QED BY <1>1, <2>1, <2>3 DEF DeleteIndexTemplate
<1>4. QED BY <1>2, <1>3

\* Retry and AssertingRunner add nothing to what a runner sends.
LEMMA WrappedRunners ==
    ASSUME NEW type, NEW timed, NEW requests, NEW o, o = Runner(type, timed, requests),
           WellFormedRunner(o), NEW n
    PROVE  /\ WellFormedRunner(WithRetry(o, n)) /\ WellFormedRunner(UntilSuccess(o))
           /\ WellFormedRunner(Asserted(o))
<1>1. ASSUME NEW p, p.requests = o.requests, p.timed = o.timed PROVE WellFormedRunner(p)
  BY <1>1 DEF WellFormedRunner, ClosesBracket, Consistent, SkipsDone, Skippable, Inevitable,
              Instrumented
<1>2. WithRetry(o, n).requests = o.requests /\ WithRetry(o, n).timed = o.timed
  BY DEF WithRetry, Runner
<1>3. UntilSuccess(o).requests = o.requests /\ UntilSuccess(o).timed = o.timed
  BY DEF UntilSuccess, Runner
<1>4. Asserted(o).requests = o.requests /\ Asserted(o).timed = o.timed
  BY DEF Asserted, Runner
<1>5. QED BY <1>1, <1>2, <1>3, <1>4

\* Every runner that register_default_runners knows and the model has, for a
\* name n, a background job j, a list of names ns and the flag only-if-exists.
RunnerTable(n, j, ns, target, onlyIfExists) ==
    {BulkIndex(n), BulkVectorDataSet(n), DeleteKnnModel(n, onlyIfExists), ForceMerge(n, FALSE),
     IndicesStats(n), NodeStats, ClusterHealth(n), PutPipeline(n), DeletePipeline(n),
     CreateSearchPipeline(n), Refresh(n), RawRequest(n), Sleep, DeleteSnapshotRepository(n),
     CreateSnapshotRepository(n), CreateSnapshot(n), RestoreSnapshot(n), WaitForSnapshotCreate(j),
     IndicesRecovery(j), PutSettings(n), UpdateConcurrentSegmentSearchSettings,
     CreateTransform(n), StartTransform(n), DeleteTransform(n), ProduceStreamMessage(n)}
    \union
    {CreateIndex(ns), CreateDataStream(ns), CreateComponentTemplate(ns),
     CreateComposableTemplate(ns), CreateIndexTemplate(ns), DeleteIndex(ns, onlyIfExists),
     DeleteDataStream(ns, onlyIfExists), DeleteComponentTemplate(ns, onlyIfExists)}
    \union
    {CreateMlConnector(n), RegisterRemoteMlModel(j), TrainKnnModel(j), ForceMerge(j, TRUE),
     WaitForTransform(j), DeployMlModel(j), ShrinkIndex(n, target), DeleteMlConnector(n),
     DeleteMlModel(j), RegisterMlModel(j), DeleteComposableTemplate(n, onlyIfExists),
     DeleteIndexTemplate(n, onlyIfExists)}

\* The assumption on the operations holds of all of them: every runner of
\* runner.py closes the bracket it opens, undoes nothing that it has done, and
\* skips only what an earlier answer has shown to be done.
THEOREM EveryRunnerWellFormed ==
    ASSUME NEW n, NEW j \in Jobs, NEW N, NEW ns \in Seq(N), ns # <<>>, NEW target,
           NEW onlyIfExists \in BOOLEAN, NEW o \in RunnerTable(n, j, ns, target, onlyIfExists)
    PROVE  WellFormedRunner(o)
<1>1. CASE o \in {BulkIndex(n), BulkVectorDataSet(n), DeleteKnnModel(n, onlyIfExists),
                  ForceMerge(n, FALSE), IndicesStats(n), NodeStats, ClusterHealth(n),
                  PutPipeline(n), DeletePipeline(n), CreateSearchPipeline(n), Refresh(n),
                  RawRequest(n), Sleep, DeleteSnapshotRepository(n), CreateSnapshotRepository(n),
                  CreateSnapshot(n), RestoreSnapshot(n), PutSettings(n),
                  UpdateConcurrentSegmentSearchSettings, CreateTransform(n), StartTransform(n),
                  DeleteTransform(n), ProduceStreamMessage(n)}
  BY <1>1, SingleRequestRunners
<1>2. CASE o \in {WaitForSnapshotCreate(j), IndicesRecovery(j)}
  BY <1>2, SingleRequestRunners
<1>3. CASE o \in {CreateIndex(ns), CreateDataStream(ns), CreateComponentTemplate(ns),
                  CreateComposableTemplate(ns), CreateIndexTemplate(ns),
                  DeleteIndex(ns, onlyIfExists), DeleteDataStream(ns, onlyIfExists),
                  DeleteComponentTemplate(ns, onlyIfExists)}
  BY <1>3, ListRunners
<1>4. CASE o \in {CreateMlConnector(n), RegisterRemoteMlModel(j), TrainKnnModel(j),
                  ForceMerge(j, TRUE), WaitForTransform(j), DeployMlModel(j),
                  ShrinkIndex(n, target)}
  BY <1>4, CreateMlConnectorShape, RegisterRemoteMlModelShape, TrainKnnModelShape,
     ForceMergeShape, WaitForTransformShape, DeployMlModelShape, ShrinkIndexShape
<1>5. CASE o \in {DeleteMlConnector(n), DeleteMlModel(j), RegisterMlModel(j)}
  BY <1>5, DeleteMlConnectorShape, DeleteMlModelShape, RegisterMlModelShape
<1>6. CASE o \in {DeleteComposableTemplate(n, onlyIfExists), DeleteIndexTemplate(n, onlyIfExists)}
  BY <1>6, TemplateRunners
<1>7. QED BY <1>1, <1>2, <1>3, <1>4, <1>5, <1>6 DEF RunnerTable

-----------------------------------------------------------------------------
(* Indexing the vectors of a data set.                                       *)

\* The vectors of document id among those from position o up to d.
Group(p, o, d, id) == {v \in o..(d - 1) : p[v] = id}

Ids(p, o, d) == {p[v] : v \in o..(d - 1)}

Source == [offset : Nat, end : Nat, current : Nat, data_set : Nat, beside : Nat, rep : Nat,
           buffer : SUBSET Nat, parent : Int]

\* A document holds all vectors of its parent that were read, and only that of
\* the parent in the buffer may be missing or incomplete.
Documents(p, s, x) ==
    /\ x = [id \in DOMAIN x |-> x[id]]
    /\ DOMAIN x \subseteq Ids(p, s.offset, s.data_set)
    /\ \A id \in Ids(p, s.offset, s.data_set) \ {s.parent} :
          id \in DOMAIN x /\ x[id] = Group(p, s.offset, s.data_set, id)

\* The buffer is not sent yet: self.current is behind it, and a bulk is left.
Buffered(s, size) ==
    s.current + Cardinality(s.buffer) = s.data_set /\ s.data_set + size < s.end

\* The buffer was sent, and kept: what is left to read is at most a bulk.
Flushed(s, x, size) ==
    /\ s.data_set + size >= s.end
    /\ s.current = s.data_set \/ (s.current >= s.end /\ s.data_set = s.end)
    /\ s.parent \in DOMAIN x /\ x[s.parent] = s.buffer

Unread(s, x) ==
    /\ s.data_set = s.offset /\ s.current = s.offset /\ s.buffer = {} /\ s.parent = -1
    /\ x = [id \in {} |-> {}]

NestedRead(p, size, s, x) ==
    /\ s.offset < s.data_set /\ s.data_set <= s.end
    /\ s.parent = p[s.data_set - 1]
    /\ s.buffer = Group(p, s.offset, s.data_set, s.parent)
    /\ Buffered(s, size) \/ Flushed(s, x, size)
    /\ Documents(p, s, x)

PlainRead(s, x) ==
    /\ s.current = s.data_set /\ s.offset <= s.current /\ s.current <= s.end
    /\ x = [v \in s.offset..(s.current - 1) |-> {v}]

\* Where the partition of client c begins and ends.
From(t, c) == SourceInit(t, c).offset
UpToEnd(t, c) == SourceInit(t, c).end

\* Where the partition of client c is, x being the documents it has sent.
PartitionInv(t, c, s, x) ==
    /\ s \in Source
    /\ s.offset = From(t, c) /\ s.end = UpToEnd(t, c)
    /\ IF t.nested THEN Unread(s, x) \/ NestedRead(t.parents, t.bulk_size, s, x)
       ELSE PlainRead(s, x)

IndexedInv ==
    /\ vtask = NoVectors \/ vtask \in VectorTasks
    /\ vtask.kind = "index" =>
          /\ DOMAIN source = VClients(vtask) /\ DOMAIN vstate = VClients(vtask)
          /\ DOMAIN indexed = VClients(vtask)
          /\ \A c \in VClients(vtask) :
                /\ PartitionInv(vtask, c, source[c], indexed[c])
                /\ vstate[c] = "done" => Exhausted(c)

\* The partitions of a data set of n vectors: k - 1 of the size of the quotient.
LEMMA EvenParts ==
    ASSUME NEW n \in Nat, NEW k \in Nat \ {0}, NEW c \in 0..(k - 1), NEW q, q = n \div k
    PROVE  /\ q \in Nat /\ c * q \in Nat /\ c * q <= n
           /\ c < k - 1 => c * q + q <= n
           /\ \A d \in 0..(k - 1) : c < d => c * q + q <= d * q
<1>1. q \in Nat /\ q * k <= n
  <2>1. PICK r : r = n % k
    OBVIOUS
  <2>2. q \in Int /\ r \in 0..(k - 1) /\ n = k * q + r
    BY <2>1
  <2>3. q >= 0
    <3>1. q <= -1 => k * q <= 0 - k
      BY <2>2, SMT
    <3>2. QED BY <2>2, <3>1
  <2>4. QED BY <2>2, <2>3
<1>2. \A i, j \in Nat : i <= j => i * q <= j * q
  <2>1. ASSUME NEW i \in Nat, NEW j \in Nat, i <= j PROVE i * q <= j * q
    <3>1. PICK m \in Nat : j = i + m
      <4>1. j - i \in Nat /\ j = i + (j - i)
        BY <2>1
      <4>2. QED BY <4>1
    <3>2. (i + m) * q = i * q + m * q /\ i * q \in Nat
      BY <1>1
    <3>3. m * q \in Nat
      BY <1>1
    <3>4. QED BY <3>1, <3>2, <3>3
  <2>2. QED BY <2>1
<1>3. \A i \in Nat : (i + 1) * q = i * q + q /\ i * q \in Nat
  BY <1>1
<1>4. c \in Nat /\ c <= k /\ c * q \in Nat /\ k * q = q * k
  BY <1>1, <1>3
<1>5. c * q <= n
  <2>1. c * q <= k * q
    BY <1>2, <1>4
  <2>2. QED BY <1>1, <1>4, <2>1
<1>6. c < k - 1 => c * q + q <= n
  <2>1. ASSUME c < k - 1 PROVE c * q + q <= n
    <3>1. c + 1 \in Nat /\ c + 1 <= k
      BY <2>1
    <3>2. (c + 1) * q <= k * q
      BY <1>2, <3>1
    <3>3. QED BY <1>1, <1>3, <1>4, <3>2
  <2>2. QED BY <2>1
<1>7. ASSUME NEW d \in 0..(k - 1), c < d PROVE c * q + q <= d * q
  <2>1. c + 1 \in Nat /\ d \in Nat /\ c + 1 <= d
    BY <1>7
  <2>2. (c + 1) * q <= d * q
    BY <1>2, <2>1
  <2>3. QED BY <1>3, <1>4, <2>2
<1>8. QED BY <1>1, <1>4, <1>5, <1>6, <1>7

\* The bounds of a partition.
LEMMA PartitionBounds ==
    ASSUME NEW t \in VectorTasks, NEW c \in VClients(t), NEW n, n = TotalVectors(t), NEW q,
           q = n \div t.clients
    PROVE  /\ n \in Nat /\ n <= t.size /\ t.clients \in Nat \ {0} /\ c \in 0..(t.clients - 1)
           /\ From(t, c) = c * q /\ From(t, c) \in Nat
           /\ UpToEnd(t, c) = IF c = t.clients - 1 THEN n ELSE c * q + q
           /\ UpToEnd(t, c) \in Nat /\ From(t, c) <= UpToEnd(t, c) /\ UpToEnd(t, c) <= n
<1>1. /\ t.clients \in Nat \ {0} /\ t.size \in Nat /\ t.num_vectors \in Int
  BY VectorsAssumption
<1>2. n \in Nat /\ n <= t.size
  BY <1>1 DEF TotalVectors
<1>3. PICK k \in Nat \ {0} : k = t.clients
  BY <1>1
<1>4. c \in 0..(k - 1) /\ c \in Nat
  BY <1>1, <1>3 DEF VClients
<1>5. /\ q \in Nat /\ c * q \in Nat /\ c * q <= n
      /\ c < k - 1 => c * q + q <= n
  BY <1>2, <1>3, <1>4, EvenParts
<1>6. From(t, c) = c * q /\ UpToEnd(t, c) = c * q + Share(t, c)
  BY DEF From, UpToEnd, SourceInit
<1>7. Share(t, c) = IF c = k - 1 THEN n - q * c ELSE q
  BY <1>3 DEF Share
<1>8. c * q + (n - q * c) = n
  BY <1>2, <1>4, <1>5
<1>9. UpToEnd(t, c) = IF c = k - 1 THEN n ELSE c * q + q
  BY <1>6, <1>7, <1>8
<1>10. QED BY <1>1, <1>2, <1>3, <1>4, <1>5, <1>6, <1>9

\* The partitions hold every vector, once.
LEMMA PartitionsCover ==
    ASSUME NEW t \in VectorTasks
    PROVE  /\ UNION {From(t, c)..(UpToEnd(t, c) - 1) : c \in VClients(t)} =
                 0..(TotalVectors(t) - 1)
           /\ \A c, d \in VClients(t) : c # d =>
                 (From(t, c)..(UpToEnd(t, c) - 1)) \intersect (From(t, d)..(UpToEnd(t, d) - 1)) = {}
<1>1. PICK n, k, q : n = TotalVectors(t) /\ k = t.clients /\ q = n \div k
  OBVIOUS
<1>2. ASSUME NEW c \in VClients(t)
      PROVE  /\ n \in Nat /\ k \in Nat \ {0} /\ c \in 0..(k - 1) /\ From(t, c) = c * q
             /\ From(t, c) \in Nat /\ UpToEnd(t, c) \in Nat /\ UpToEnd(t, c) <= n
             /\ UpToEnd(t, c) = IF c = k - 1 THEN n ELSE c * q + q
  BY <1>1, PartitionBounds
<1>3. k \in Nat \ {0} /\ n \in Nat /\ VClients(t) = 0..(k - 1)
  BY <1>1, VectorsAssumption DEF VClients, TotalVectors
<1>4. q \in Nat /\ n < q * k + k
  <2>1. 0 \in 0..(k - 1)
    BY <1>3
  <2>2. q \in Nat
    BY <1>1, <1>3, <2>1, EvenParts
  <2>3. PICK r : r = n % k
    OBVIOUS
  <2>4. r \in 0..(k - 1) /\ n = k * q + r
    BY <1>1, <1>3, <2>3, SMTT(20)
  <2>5. k * q = q * k
    BY <1>3, <2>2
  <2>6. n = q * k + r /\ q * k \in Nat
    BY <1>3, <2>2, <2>4, <2>5
  <2>7. QED BY <1>3, <2>2, <2>4, <2>6
<1>5. ASSUME NEW c \in VClients(t), NEW d \in VClients(t), c < d
      PROVE  (From(t, c)..(UpToEnd(t, c) - 1)) \intersect (From(t, d)..(UpToEnd(t, d) - 1)) = {}
  <2>1. c \in 0..(k - 1) /\ d \in 0..(k - 1) /\ c # k - 1
    BY <1>3, <1>5
  <2>2. c * q + q <= d * q
    BY <1>1, <1>3, <1>5, <2>1, EvenParts
  <2>3. UpToEnd(t, c) <= From(t, d)
    BY <1>2, <2>1, <2>2
  <2>4. /\ UpToEnd(t, c) \in Nat /\ From(t, d) \in Nat /\ From(t, c) \in Nat
        /\ UpToEnd(t, d) \in Nat
    BY <1>2
  <2>5. QED BY <2>3, <2>4
<1>6. ASSUME NEW v \in 0..(n - 1) PROVE \E c \in VClients(t) : v \in From(t, c)..(UpToEnd(t, c) - 1)
  <2>. DEFINE T == {i \in Nat : v < i * q + q \/ i = k - 1}
  <2>1. T \in SUBSET Nat /\ k - 1 \in T
    BY <1>3
  <2>2. PICK c \in T : \A i \in T : c <= i
    <3>. HIDE DEF T
    <3>1. T # {}
      BY <2>1
    <3>2. QED BY <2>1, <3>1, LeastNumber
  <2>3. c \in Nat /\ c <= k - 1 /\ c \in VClients(t)
    BY <1>3, <2>1, <2>2
  <2>4. c * q <= v
    <3>1. CASE c = 0
      BY <1>4, <3>1
    <3>2. CASE c # 0
      <4>1. c - 1 \in Nat /\ c - 1 \notin T
        BY <2>2, <2>3, <3>2
      <4>2. ~(v < (c - 1) * q + q)
        BY <4>1
      <4>3. (c - 1) * q + q = c * q /\ c * q \in Nat
        BY <1>4, <2>3
      <4>4. QED BY <4>2, <4>3
    <3>3. QED BY <3>1, <3>2
  <2>5. c * q + q \in Nat
    BY <1>4, <2>3
  <2>6. v < UpToEnd(t, c)
    <3>1. v < n
      BY <1>3
    <3>2. v < c * q + q \/ c = k - 1
      BY <2>2
    <3>3. QED BY <1>2, <2>3, <3>1, <3>2
  <2>7. From(t, c) = c * q /\ From(t, c) \in Nat /\ UpToEnd(t, c) \in Nat
    BY <1>2, <2>3
  <2>8. v \in From(t, c)..(UpToEnd(t, c) - 1)
    BY <2>4, <2>6, <2>7
  <2>9. QED BY <2>3, <2>8
<1>7. ASSUME NEW c \in VClients(t) PROVE From(t, c)..(UpToEnd(t, c) - 1) \subseteq 0..(n - 1)
  BY <1>2
<1>8. ASSUME NEW c \in VClients(t), NEW d \in VClients(t), c # d PROVE c < d \/ d < c
  BY <1>3, <1>8
<1>9. QED BY <1>1, <1>5, <1>6, <1>7, <1>8

Doc == [id : Nat, vectors : SUBSET Nat]

Sends(docs, id) == \E i \in DOMAIN docs : docs[i].id = id

\* Documents of a bulk that have the same id are the same.
Unambiguous(docs) ==
    \A i, j \in DOMAIN docs : docs[i].id = docs[j].id => docs[i].vectors = docs[j].vectors

\* What a bulk leaves in the index.
LEMMA WrittenDocuments ==
    ASSUME NEW x, NEW docs \in Seq(Doc), Unambiguous(docs), NEW w, w = Written(x, docs)
    PROVE  /\ w = [id \in DOMAIN w |-> w[id]]
           /\ \A id : id \in DOMAIN w <=> id \in DOMAIN x \/ Sends(docs, id)
           /\ \A i \in DOMAIN docs : w[docs[i].id] = docs[i].vectors
           /\ \A id \in DOMAIN x : ~Sends(docs, id) => w[id] = x[id]
<1>. DEFINE last(id) == CHOOSE i \in DOMAIN docs :
                           docs[i].id = id /\ \A j \in DOMAIN docs : docs[j].id = id => j <= i
            all == DOMAIN x \union {docs[i].id : i \in DOMAIN docs}
<1>1. w = [id \in all |-> IF \E i \in DOMAIN docs : docs[i].id = id THEN docs[last(id)].vectors
                          ELSE x[id]]
  BY DEF Written
<1>2. ASSUME NEW i \in DOMAIN docs
      PROVE  last(docs[i].id) \in DOMAIN docs /\ docs[last(docs[i].id)].id = docs[i].id
  <2>1. PICK id, S : id = docs[i].id /\ S = {j \in DOMAIN docs : docs[j].id = id}
    OBVIOUS
  <2>2. DOMAIN docs = 1..Len(docs) /\ Len(docs) \in Nat
    OBVIOUS
  <2>3. S \in SUBSET (0..Len(docs)) /\ S # {}
    BY <2>1, <2>2
  <2>4. PICK m : m = Max(S)
    OBVIOUS
  <2>5. m \in S /\ \A j \in S : m >= j
    BY <2>2, <2>3, <2>4, LargestNumber
  <2>6. \A j \in S : m \in Int /\ j \in Int
    BY <2>2, <2>3, <2>5
  <2>7. m \in DOMAIN docs /\ docs[m].id = id /\ \A j \in DOMAIN docs : docs[j].id = id => j <= m
    BY <2>1, <2>5, <2>6
  <2>8. last(id) \in DOMAIN docs /\ docs[last(id)].id = id
    BY <2>7
  <2>9. QED BY <2>1, <2>8
<1>. HIDE DEF last
<1>3. ASSUME NEW i \in DOMAIN docs PROVE w[docs[i].id] = docs[i].vectors
  <2>1. w[docs[i].id] = docs[last(docs[i].id)].vectors
    BY <1>1
  <2>2. QED BY <1>2, <2>1 DEF Unambiguous
<1>4. DOMAIN w = all
  BY <1>1
<1>5. \A id : id \in DOMAIN w <=> id \in DOMAIN x \/ Sends(docs, id)
  BY <1>4 DEF Sends
<1>6. \A id \in DOMAIN x : ~Sends(docs, id) => w[id] = x[id]
  BY <1>1 DEF Sends
<1>7. w = [id \in DOMAIN w |-> w[id]]
  BY <1>1
<1>8. QED BY <1>3, <1>5, <1>6, <1>7

\* The position of the vector that decides on the parent in the buffer.
Latest(o, d) == IF d = o THEN o ELSE d - 1

FiniteSubsets == {B \in SUBSET Nat : IsFiniteSet(B)}

Bulk == [docs : Seq(Doc), buffer : FiniteSubsets, parent : Nat, current : Nat]

\* A bulk that has read from position e up to d of a partition that begins at
\* o; n counts what was there before.
CollectInv(p, o, e, d, n, b) ==
    /\ b \in Bulk
    /\ b.parent = p[Latest(o, d)]
    /\ b.buffer = Group(p, o, d, b.parent)
    /\ \A i \in DOMAIN b.docs : /\ b.docs[i].id \in Ids(p, o, d) \ {b.parent}
                                /\ b.docs[i].vectors = Group(p, o, d, b.docs[i].id)
    /\ \A v \in Latest(o, e)..(d - 1) : p[v] = b.parent \/ Sends(b.docs, p[v])
    /\ b.current + Cardinality(b.buffer) = n + (d - e)

\* Parents of the first z vectors, grouped.
Grouped(p, z) ==
    /\ p \in [0..(z - 1) -> Nat]
    /\ \A u, v, w \in 0..(z - 1) : u <= v /\ v <= w /\ p[u] = p[w] => p[v] = p[u]

\* One more vector, at position d.
OneMoreVector(p, o, d) ==
    /\ \A id : Group(p, o, d + 1, id) = IF p[d] = id THEN Group(p, o, d, id) \union {d}
                                        ELSE Group(p, o, d, id)
    /\ Ids(p, o, d + 1) = Ids(p, o, d) \union {p[d]}
    /\ \A id : Group(p, o, d, id) \in FiniteSubsets /\ d \notin Group(p, o, d, id)
    /\ p[d] \in Nat /\ p[Latest(o, d)] \in Nat
    /\ p[d] # p[Latest(o, d)] => p[d] \notin Ids(p, o, d)
    /\ p[d] \notin Ids(p, o, d) => Group(p, o, d, p[d]) = {}

\* A parent that is not that of the vector before has not been seen yet.
LEMMA GroupGrows ==
    ASSUME NEW p, NEW z \in Nat, Grouped(p, z), NEW o \in Nat, NEW d \in Nat, o <= d, d < z
    PROVE  OneMoreVector(p, o, d)
<1>1. o..((d + 1) - 1) = (o..(d - 1)) \union {d} /\ d \notin o..(d - 1)
  OBVIOUS
<1>2. \A id : Group(p, o, d + 1, id) = IF p[d] = id THEN Group(p, o, d, id) \union {d}
                                       ELSE Group(p, o, d, id)
  BY <1>1 DEF Group
<1>3. Ids(p, o, d + 1) = Ids(p, o, d) \union {p[d]}
  BY <1>1 DEF Ids
<1>4. ASSUME NEW id PROVE Group(p, o, d, id) \in FiniteSubsets /\ d \notin Group(p, o, d, id)
  <2>1. IsFiniteSet(o..(d - 1))
    BY FS_Interval
  <2>2. Group(p, o, d, id) \in SUBSET (o..(d - 1)) /\ o..(d - 1) \in SUBSET Nat
    BY DEF Group
  <2>3. IsFiniteSet(Group(p, o, d, id))
    BY <2>1, <2>2, FS_Subset
  <2>4. QED BY <1>1, <2>2, <2>3 DEF FiniteSubsets
<1>5. p[d] \in Nat /\ p[Latest(o, d)] \in Nat
  BY DEF Grouped, Latest
<1>6. ASSUME p[d] # p[Latest(o, d)], p[d] \in Ids(p, o, d) PROVE FALSE
  <2>1. PICK u \in o..(d - 1) : p[u] = p[d]
    BY <1>6 DEF Ids
  <2>2. /\ u \in 0..(z - 1) /\ d - 1 \in 0..(z - 1) /\ d \in 0..(z - 1) /\ u <= d - 1
        /\ d - 1 <= d /\ Latest(o, d) = d - 1
    BY <2>1 DEF Latest
  <2>3. p[d - 1] = p[d]
    BY <2>1, <2>2 DEF Grouped
  <2>4. QED BY <1>6, <2>2, <2>3
<1>7. p[d] \notin Ids(p, o, d) => Group(p, o, d, p[d]) = {}
  BY DEF Ids, Group
<1>8. QED BY <1>2, <1>3, <1>4, <1>5, <1>6, <1>7 DEF OneMoreVector

\* A vector is collected: its bulk is one still.
LEMMA CollectType ==
    ASSUME NEW b \in Bulk, NEW v \in Nat, vtask.parents[v] \in Nat
    PROVE  Collect(b, v) \in Bulk
<1>1. /\ b.docs \in Seq(Doc) /\ b.buffer \in FiniteSubsets /\ b.parent \in Nat
      /\ b.current \in Nat
  BY DEF Bulk
<1>2. b.buffer \in SUBSET Nat /\ IsFiniteSet(b.buffer) /\ Cardinality(b.buffer) \in Nat
  BY <1>1, FS_CardinalityType DEF FiniteSubsets
<1>3. CASE vtask.parents[v] = b.parent
  <2>1. b.buffer \union {v} \in FiniteSubsets
    BY <1>2, FS_AddElement DEF FiniteSubsets
  <2>2. [b EXCEPT !.buffer = @ \union {v}] \in Bulk
    BY <2>1 DEF Bulk
  <2>3. QED BY <1>3, <2>2 DEF Collect
<1>4. CASE vtask.parents[v] # b.parent
  <2>1. {v} \in FiniteSubsets
    BY FS_Singleton DEF FiniteSubsets
  <2>2. [id |-> b.parent, vectors |-> b.buffer] \in Doc
    BY <1>1, <1>2 DEF Doc
  <2>3. Append(b.docs, [id |-> b.parent, vectors |-> b.buffer]) \in Seq(Doc)
    BY <1>1, <2>2
  <2>4. b.current + Cardinality(b.buffer) \in Nat
    BY <1>1, <1>2
  <2>5. QED BY <1>4, <2>1, <2>3, <2>4 DEF Collect, Bulk
<1>5. QED BY <1>3, <1>4

\* What a bulk sends after one more document.
OneMoreDocument(docs, d, e) ==
    /\ e \in Seq(Doc)
    /\ \A i \in DOMAIN e : e[i] = d \/ (i \in DOMAIN docs /\ e[i] = docs[i])
    /\ Sends(e, d.id) /\ \A id : Sends(docs, id) => Sends(e, id)
    /\ \A id : Sends(e, id) => Sends(docs, id) \/ id = d.id

\* A document added to those of a bulk.
LEMMA SendsOneMore ==
    ASSUME NEW docs \in Seq(Doc), NEW d \in Doc, NEW e, e = Append(docs, d)
    PROVE  OneMoreDocument(docs, d, e)
<1>1. /\ e \in Seq(Doc) /\ DOMAIN e = 1..(Len(docs) + 1) /\ DOMAIN docs = 1..Len(docs)
      /\ Len(docs) \in Nat /\ e[Len(docs) + 1] = d
      /\ \A i \in 1..Len(docs) : e[i] = docs[i]
  OBVIOUS
<1>2. \A i \in 1..(Len(docs) + 1) : i = Len(docs) + 1 \/ i \in 1..Len(docs)
  BY <1>1
<1>3. Len(docs) + 1 \in DOMAIN e /\ \A i \in DOMAIN docs : i \in DOMAIN e
  BY <1>1
<1>4. \A i \in DOMAIN e : e[i] = d \/ (i \in DOMAIN docs /\ e[i] = docs[i])
  BY <1>1, <1>2
<1>5. Sends(e, d.id) /\ \A id : Sends(docs, id) => Sends(e, id)
  BY <1>1, <1>3 DEF Sends
<1>6. \A id : Sends(e, id) => Sends(docs, id) \/ id = d.id
  BY <1>4 DEF Sends
<1>7. QED BY <1>1, <1>4, <1>5, <1>6 DEF OneMoreDocument

\* The vector at position d is collected.
LEMMA CollectStep ==
    ASSUME NEW p, p = vtask.parents, NEW z \in Nat, Grouped(p, z), NEW o \in Nat, NEW e \in Nat,
           NEW d \in Nat, NEW n \in Nat, o <= e, e <= d, d < z, NEW b, CollectInv(p, o, e, d, n, b)
    PROVE  CollectInv(p, o, e, d + 1, n, Collect(b, d))
<1>1. o <= d /\ Latest(o, d + 1) = d
  BY DEF Latest
<1>2. PICK c : c = Collect(b, d)
  OBVIOUS
<1>0. OneMoreVector(p, o, d)
  BY <1>1, GroupGrows
<1>3. /\ \A id : Group(p, o, d + 1, id) = IF p[d] = id THEN Group(p, o, d, id) \union {d}
                                          ELSE Group(p, o, d, id)
      /\ Ids(p, o, d + 1) = Ids(p, o, d) \union {p[d]}
      /\ \A id : Group(p, o, d, id) \in FiniteSubsets /\ d \notin Group(p, o, d, id)
      /\ p[d] \in Nat
      /\ p[d] # p[Latest(o, d)] => p[d] \notin Ids(p, o, d)
      /\ p[d] \notin Ids(p, o, d) => Group(p, o, d, p[d]) = {}
  BY <1>0 DEF OneMoreVector
<1>4. /\ b \in Bulk /\ b.parent = p[Latest(o, d)] /\ b.buffer = Group(p, o, d, b.parent)
      /\ b.current + Cardinality(b.buffer) = n + (d - e)
  BY DEF CollectInv
<1>5. c \in Bulk
  BY <1>2, <1>3, <1>4, CollectType
<1>6. /\ b.docs \in Seq(Doc) /\ b.parent \in Nat /\ b.current \in Nat
      /\ b.buffer \in SUBSET Nat /\ IsFiniteSet(b.buffer) /\ Cardinality(b.buffer) \in Nat
  BY <1>4, FS_CardinalityType DEF Bulk, FiniteSubsets
<1>7. Latest(o, e)..((d + 1) - 1) \subseteq (Latest(o, e)..(d - 1)) \union {d}
  BY DEF Latest
<1>8. n + (d - e) \in Nat /\ n + ((d + 1) - e) = n + (d - e) + 1
  OBVIOUS
<1>9. CASE p[d] = b.parent
  <2>1. c = [b EXCEPT !.buffer = @ \union {d}]
    BY <1>2, <1>9 DEF Collect
  <2>2. /\ c.docs = b.docs /\ c.parent = b.parent /\ c.current = b.current
        /\ c.buffer = b.buffer \union {d}
    BY <1>4, <2>1 DEF Bulk
  <2>3. c.buffer = Group(p, o, d + 1, c.parent) /\ c.parent = p[Latest(o, d + 1)]
    BY <1>1, <1>3, <1>4, <1>9, <2>2
  <2>4. c.current + Cardinality(c.buffer) = n + ((d + 1) - e)
    <3>1. d \notin b.buffer
      BY <1>3, <1>4
    <3>2. Cardinality(c.buffer) = Cardinality(b.buffer) + 1
      BY <1>6, <2>2, <3>1, FS_AddElement
    <3>3. PICK m \in Nat, k \in Nat : m = Cardinality(b.buffer) /\ k = b.current
      BY <1>6
    <3>4. k + m = n + (d - e)
      BY <1>4, <3>3
    <3>5. k + (m + 1) = n + ((d + 1) - e)
      BY <3>4
    <3>6. QED BY <2>2, <3>2, <3>3, <3>5
  <2>5. ASSUME NEW i \in DOMAIN c.docs
        PROVE  /\ c.docs[i].id \in Ids(p, o, d + 1) \ {c.parent}
               /\ c.docs[i].vectors = Group(p, o, d + 1, c.docs[i].id)
    <3>1. /\ b.docs[i].id \in Ids(p, o, d) \ {b.parent}
          /\ b.docs[i].vectors = Group(p, o, d, b.docs[i].id)
      BY <2>2 DEF CollectInv
    <3>2. QED BY <1>3, <1>9, <2>2, <3>1
  <2>6. \A v \in Latest(o, e)..((d + 1) - 1) : p[v] = c.parent \/ Sends(c.docs, p[v])
    BY <1>7, <1>9, <2>2 DEF CollectInv
  <2>7. QED BY <1>2, <1>5, <2>3, <2>4, <2>5, <2>6 DEF CollectInv
<1>10. CASE p[d] # b.parent
  <2>1. PICK f \in Doc : f = [id |-> b.parent, vectors |-> b.buffer]
    BY <1>6 DEF Doc
  <2>2. c = [docs |-> Append(b.docs, f), buffer |-> {d}, parent |-> p[d],
             current |-> b.current + Cardinality(b.buffer)]
    BY <1>2, <1>10, <2>1 DEF Collect
  <2>3. /\ c.docs = Append(b.docs, f) /\ c.parent = p[d] /\ c.buffer = {d}
        /\ c.current = b.current + Cardinality(b.buffer)
    BY <2>2
  <2>4. p[d] \notin Ids(p, o, d) /\ Group(p, o, d, p[d]) = {}
    BY <1>3, <1>4, <1>10
  <2>5. c.buffer = Group(p, o, d + 1, c.parent) /\ c.parent = p[Latest(o, d + 1)]
    BY <1>1, <1>3, <2>3, <2>4
  <2>6. c.current + Cardinality(c.buffer) = n + ((d + 1) - e)
    <3>1. Cardinality(c.buffer) = 1
      BY <2>3, FS_Singleton
    <3>2. QED BY <1>4, <1>8, <2>3, <3>1
  <2>7. b.parent \in Ids(p, o, d)
    <3>1. d # o
      BY <1>4, <1>10 DEF Latest
    <3>2. Latest(o, d) = d - 1 /\ d - 1 \in o..(d - 1)
      BY <1>1, <3>1 DEF Latest
    <3>3. QED BY <1>4, <3>2 DEF Ids
  <2>8. /\ \A i \in DOMAIN c.docs : c.docs[i] = f \/ (i \in DOMAIN b.docs /\ c.docs[i] = b.docs[i])
        /\ Sends(c.docs, f.id) /\ \A id : Sends(b.docs, id) => Sends(c.docs, id)
    <3>1. OneMoreDocument(b.docs, f, c.docs)
      BY <1>6, <2>3, SendsOneMore
    <3>2. QED BY <3>1 DEF OneMoreDocument
  <2>9. f.id = b.parent /\ f.vectors = b.buffer
    BY <2>1
  <2>10. ASSUME NEW i \in DOMAIN c.docs
         PROVE  /\ c.docs[i].id \in Ids(p, o, d + 1) \ {c.parent}
                /\ c.docs[i].vectors = Group(p, o, d + 1, c.docs[i].id)
    <3>1. PICK g : g = c.docs[i]
      OBVIOUS
    <3>2. g.id \in Ids(p, o, d) /\ g.vectors = Group(p, o, d, g.id)
      <4>1. CASE g = f
        BY <1>4, <2>7, <2>9, <4>1
      <4>2. CASE i \in DOMAIN b.docs /\ g = b.docs[i]
        BY <4>2 DEF CollectInv
      <4>3. QED BY <2>8, <3>1, <4>1, <4>2
    <3>3. g.id # p[d]
      BY <2>4, <3>2
    <3>4. QED BY <1>3, <2>3, <3>1, <3>2, <3>3
  <2>11. ASSUME NEW v \in Latest(o, e)..((d + 1) - 1)
         PROVE  p[v] = c.parent \/ Sends(c.docs, p[v])
    <3>1. CASE v = d
      BY <2>3, <3>1
    <3>2. CASE v \in Latest(o, e)..(d - 1)
      <4>1. p[v] = b.parent \/ Sends(b.docs, p[v])
        BY <3>2 DEF CollectInv
      <4>2. QED BY <2>8, <2>9, <4>1
    <3>3. QED BY <1>7, <3>1, <3>2
  <2>12. QED BY <1>2, <1>5, <2>5, <2>6, <2>10, <2>11 DEF CollectInv
<1>11. QED BY <1>9, <1>10

\* The start of a bulk.
Begin(s, read) ==
    [docs |-> <<>>, buffer |-> s.buffer,
     parent |-> IF s.parent = -1 THEN vtask.parents[read[1]] ELSE s.parent,
     current |-> s.current]

\* The positions of m vectors from e on.
ReadsFrom(read, e, m) ==
    read \in Seq(Nat) /\ Len(read) = m /\ \A i \in 1..m : read[i] = e + i - 1

\* The loop of bulk_transform goes through the vectors in order.
LEMMA Collected ==
    ASSUME NEW p, p = vtask.parents, NEW z \in Nat, Grouped(p, z), NEW s, NEW o \in Nat,
           NEW e \in Nat, o <= e, NEW m \in Nat, e + m <= z, NEW n \in Nat, NEW read,
           ReadsFrom(read, e, m), CollectInv(p, o, e, e, n, Begin(s, read))
    PROVE  \E b : CollectInv(p, o, e, e + m, n, b) /\ NestedBulk(s, read) = FlushLast(b, s.end)
<1>a. read \in Seq(Nat) /\ Len(read) = m /\ \A i \in 1..m : read[i] = e + i - 1
  BY DEF ReadsFrom
<1>0. PICK A, a : A = Bulk /\ a = Begin(s, read)
  OBVIOUS
<1>b. CollectInv(p, o, e, e, n, a)
  BY <1>0
<1>1. a \in A
  BY <1>0, <1>b DEF CollectInv
<1>2. PICK g : g = [i \in 1..m |-> [b \in A |-> Collect(b, read[i])]]
  OBVIOUS
<1>3. Steps(g, m, A)
  <2>1. ASSUME NEW i \in 1..m, NEW b \in A PROVE Collect(b, read[i]) \in A
    <3>1. read[i] = e + i - 1 /\ e + i - 1 \in 0..(z - 1) /\ e + i - 1 \in Nat
      BY <1>a
    <3>2. vtask.parents[read[i]] \in Nat
      BY <3>1 DEF Grouped
    <3>3. QED BY <1>0, <3>1, <3>2, CollectType
  <2>2. \A i \in 1..m : [b \in A |-> Collect(b, read[i])] \in [A -> A]
    BY <2>1
  <2>3. QED BY <1>2, <2>2 DEF Steps
<1>4. PICK f \in [0..m -> A] : f[0] = a /\ \A i \in 1..m : f[i] = g[i][f[i - 1]]
  BY ONLY m \in Nat, <1>1, <1>3, Recursion
<1>5. ASSUME NEW i \in 1..m PROVE f[i] = Collect(f[i - 1], read[i])
  <2>1. i - 1 \in 0..m
    OBVIOUS
  <2>2. f[i - 1] \in A
    BY <1>4, <2>1
  <2>3. g[i] = [b \in A |-> Collect(b, read[i])]
    BY <1>2
  <2>4. QED BY <1>4, <2>2, <2>3
<1>6. DEFINE collected[k \in 0..m] == IF k = 0 THEN a ELSE Collect(collected[k - 1], read[k])
<1>7. PICK u : /\ u = [k \in 0..m |-> IF k = 0 THEN a ELSE Collect(u[k - 1], read[k])]
               /\ u = collected
  <2>1. f = [k \in 0..m |-> IF k = 0 THEN a ELSE Collect(f[k - 1], read[k])]
    <3>1. \A k \in 0..m : f[k] = IF k = 0 THEN a ELSE Collect(f[k - 1], read[k])
      <4>1. \A k \in 0..m : k # 0 => k \in 1..m
        OBVIOUS
      <4>2. QED BY <1>4, <1>5, <4>1
    <3>2. QED BY <1>4, <3>1
  <2>2. collected = CHOOSE h : h = [k \in 0..m |-> IF k = 0 THEN a ELSE Collect(h[k - 1], read[k])]
    BY DEF collected
  <2>3. QED BY <2>1, <2>2
<1>. HIDE DEF collected
<1>8. \A k \in 0..m : CollectInv(p, o, e, e + k, n, u[k])
  <2>. DEFINE T == {k \in 0..m : CollectInv(p, o, e, e + k, n, u[k])}
  <2>1. 0 \in T
    BY <1>b, <1>7
  <2>2. ASSUME NEW k \in 0..(m - 1), k \in T PROVE k + 1 \in T
    <3>1. /\ k + 1 \in 1..m /\ k + 1 \in 0..m /\ (k + 1) - 1 = k /\ k + 1 # 0
          /\ e + k \in Nat /\ e + k < z /\ e <= e + k /\ (e + k) + 1 = e + (k + 1)
      BY ONLY e \in Nat, m \in Nat, z \in Nat, e + m <= z, k \in 0..(m - 1)
    <3>2. read[k + 1] = e + k
      BY <1>a, <3>1
    <3>3. u[k + 1] = Collect(u[k], e + k)
      BY <1>7, <3>1, <3>2
    <3>4. CollectInv(p, o, e, (e + k) + 1, n, Collect(u[k], e + k))
      BY <2>2, <3>1, CollectStep
    <3>5. QED BY <3>1, <3>3, <3>4
  <2>3. \A k \in 0..m : k \in T
    <3>. HIDE DEF T
    <3>1. \A k \in 0..(m - 1) : k \in T => k + 1 \in T
      BY <2>2
    <3>2. QED BY <2>1, <3>1, UpTo
  <2>4. QED BY <2>3
<1>9. NestedBulk(s, read) = FlushLast(collected[m], s.end)
  BY <1>a, <1>0 DEF NestedBulk, Begin, collected
<1>10. m \in 0..m
  OBVIOUS
<1>11. CollectInv(p, o, e, e + m, n, u[m])
  BY <1>8, <1>10
<1>12. QED BY <1>7, <1>9, <1>11

\* How many vectors a partition reads at a time.
ReadSize(s, size) == IF s.end - s.current < size THEN s.end - s.current ELSE size

\* What HDF5DataSet.read returns: the positions after the last one, up to a bulk.
LEMMA ReadPositions ==
    ASSUME NEW s \in Source, s.current < s.end, vtask.bulk_size \in Nat \ {0},
           NEW m, m = ReadSize(s, vtask.bulk_size), NEW read, read = Positions(s)
    PROVE  /\ m \in Nat \ {0} /\ m <= s.end - s.current /\ m <= vtask.bulk_size
           /\ read \in Seq(Nat) /\ Len(read) = m /\ DOMAIN read = 1..m
           /\ \A i \in 1..m : read[i] = s.data_set + i - 1
<1>1. s.end \in Nat /\ s.current \in Nat /\ s.data_set \in Nat
  BY DEF Source
<1>2. m \in Nat \ {0} /\ m <= s.end - s.current /\ m <= vtask.bulk_size
  BY <1>1 DEF ReadSize
<1>3. read = [i \in 1..m |-> s.data_set + i - 1]
  BY DEF Positions, ReadSize
<1>4. \A i \in 1..m : s.data_set + i - 1 \in Nat
  BY <1>1, <1>2
<1>5. read \in [1..m -> Nat] /\ \A i \in 1..m : read[i] = s.data_set + i - 1
  BY <1>3, <1>4
<1>6. read \in Seq(Nat) /\ Len(read) = m
  BY <1>2, <1>5, FunctionSeq
<1>7. QED BY <1>2, <1>3, <1>5, <1>6

\* Where a nested partition starts to read, and how far it gets.
ReadsOn(s, m, n) ==
    /\ s.offset <= s.data_set /\ s.data_set + m <= s.end
    /\ n \in Nat /\ n = s.current + Cardinality(s.buffer)
    /\ n = s.data_set \/ (n >= s.data_set /\ s.data_set + m = s.end)

\* The first state of the loop, before anything of this bulk was collected.
LEMMA BulkBegins ==
    ASSUME NEW p, p = vtask.parents, NEW z \in Nat, Grouped(p, z), vtask.bulk_size \in Nat \ {0},
           NEW s \in Source, s.offset <= s.end, s.end <= z, s.current < s.end, NEW x,
           Unread(s, x) \/ NestedRead(p, vtask.bulk_size, s, x),
           NEW m, m = ReadSize(s, vtask.bulk_size), NEW read, read = Positions(s)
    PROVE  \E n : /\ ReadsOn(s, m, n)
                  /\ CollectInv(p, s.offset, s.data_set, s.data_set, n, Begin(s, read))
<1>1. /\ s.offset \in Nat /\ s.end \in Nat /\ s.current \in Nat /\ s.data_set \in Nat
      /\ s.buffer \in SUBSET Nat /\ s.parent \in Int
  BY DEF Source
<1>2. PICK k \in Nat \ {0} : k = vtask.bulk_size
  OBVIOUS
<1>3. m \in Nat \ {0} /\ m <= s.end - s.current /\ m <= k /\ read[1] = s.data_set + 1 - 1
  <2>1. /\ m \in Nat \ {0} /\ m <= s.end - s.current /\ m <= k
        /\ \A i \in 1..m : read[i] = s.data_set + i - 1
    BY <1>2, ReadPositions
  <2>2. 1 \in 1..m
    BY <2>1
  <2>3. QED BY <2>1, <2>2
<1>4. m = IF s.end - s.current < k THEN s.end - s.current ELSE k
  BY <1>2 DEF ReadSize
<1>5. PICK a : a = Begin(s, read)
  OBVIOUS
<1>6. /\ a.docs = <<>> /\ a.buffer = s.buffer /\ a.current = s.current
      /\ a.parent = IF s.parent = -1 THEN p[read[1]] ELSE s.parent
  BY <1>5 DEF Begin
<1>7. a = [docs |-> <<>>, buffer |-> a.buffer, parent |-> a.parent, current |-> a.current]
  BY <1>5 DEF Begin
<1>8. <<>> \in Seq(Doc) /\ DOMAIN <<>> = {}
  OBVIOUS
<1>9. CASE Unread(s, x)
  <2>1. /\ s.data_set = s.offset /\ s.current = s.offset /\ s.buffer = {} /\ s.parent = -1
    BY <1>9 DEF Unread
  <2>2. Cardinality(s.buffer) = 0 /\ IsFiniteSet(s.buffer)
    BY <2>1, FS_EmptySet
  <2>3. ReadsOn(s, m, s.offset)
    BY <1>1, <1>3, <2>1, <2>2 DEF ReadsOn
  <2>4. Latest(s.offset, s.data_set) = s.offset /\ read[1] = s.offset /\ s.offset \in 0..(z - 1)
    BY <1>1, <1>3, <2>1 DEF Latest
  <2>5. a.parent = p[s.offset] /\ a.parent \in Nat
    BY <1>6, <2>1, <2>4 DEF Grouped
  <2>6. a \in Bulk
    BY <1>1, <1>6, <1>7, <1>8, <2>1, <2>2, <2>5 DEF Bulk, FiniteSubsets
  <2>7. a.buffer = Group(p, s.offset, s.data_set, a.parent)
    <3>1. s.offset..(s.data_set - 1) = {}
      BY <1>1, <2>1
    <3>2. QED BY <1>6, <2>1, <3>1 DEF Group
  <2>8. Latest(s.offset, s.data_set)..(s.data_set - 1) = {}
    BY <1>1, <2>1, <2>4
  <2>9. a.current + Cardinality(a.buffer) = s.offset + (s.data_set - s.data_set)
    BY <1>1, <1>6, <2>1, <2>2
  <2>10. CollectInv(p, s.offset, s.data_set, s.data_set, s.offset, a)
    BY <1>6, <1>8, <2>4, <2>5, <2>6, <2>7, <2>8, <2>9 DEF CollectInv
  <2>11. QED BY <1>2, <1>5, <2>3, <2>10
<1>10. CASE NestedRead(p, k, s, x)
  <2>1. /\ s.offset < s.data_set /\ s.data_set <= s.end /\ s.parent = p[s.data_set - 1]
        /\ s.buffer = Group(p, s.offset, s.data_set, s.parent)
        /\ Buffered(s, k) \/ Flushed(s, x, k)
    BY <1>10 DEF NestedRead
  <2>2. s.data_set - 1 \in 0..(z - 1) /\ Latest(s.offset, s.data_set) = s.data_set - 1
    BY <1>1, <2>1 DEF Latest
  <2>3. s.parent \in Nat /\ s.parent # -1
    BY <2>1, <2>2 DEF Grouped
  <2>4. IsFiniteSet(s.buffer) /\ Cardinality(s.buffer) \in Nat
    <3>0. s.offset \in Int /\ s.data_set - 1 \in Int
      BY <1>1
    <3>1. IsFiniteSet(s.offset..(s.data_set - 1))
      BY <3>0, FS_Interval
    <3>2. s.buffer \in SUBSET (s.offset..(s.data_set - 1))
      BY <2>1 DEF Group
    <3>3. IsFiniteSet(s.buffer)
      BY <3>1, <3>2, FS_Subset
    <3>4. QED BY <3>3, FS_CardinalityType
  <2>5. PICK n \in Nat, j \in Nat : j = Cardinality(s.buffer) /\ n = s.current + j
    BY <1>1, <2>4
  <2>6. ReadsOn(s, m, n)
    <3>1. CASE Buffered(s, k)
      <4>1. s.current + j = s.data_set /\ s.data_set + k < s.end
        BY <2>5, <3>1 DEF Buffered
      <4>2. m = k
        BY <1>1, <1>4, <2>5, <4>1
      <4>3. QED BY <1>1, <2>1, <2>5, <4>1, <4>2 DEF ReadsOn
    <3>2. CASE Flushed(s, x, k)
      <4>1. s.data_set + k >= s.end /\ s.current = s.data_set
        BY <1>1, <3>2 DEF Flushed
      <4>2. m = s.end - s.current
        BY <1>1, <1>4, <4>1
      <4>3. QED BY <1>1, <2>1, <2>5, <4>1, <4>2 DEF ReadsOn
    <3>3. QED BY <2>1, <3>1, <3>2
  <2>7. a.parent = s.parent
    BY <1>6, <2>3
  <2>8. a \in Bulk
    BY <1>1, <1>6, <1>7, <1>8, <2>3, <2>4, <2>7 DEF Bulk, FiniteSubsets
  <2>9. \A v \in Latest(s.offset, s.data_set)..(s.data_set - 1) : v = s.data_set - 1
    BY <1>1, <2>2
  <2>10. a.current + Cardinality(a.buffer) = n + (s.data_set - s.data_set)
    BY <1>1, <1>6, <2>5
  <2>11. CollectInv(p, s.offset, s.data_set, s.data_set, n, a)
    BY <1>6, <1>8, <2>1, <2>2, <2>7, <2>8, <2>9, <2>10 DEF CollectInv
  <2>12. QED BY <1>2, <1>5, <2>6, <2>11
<1>11. QED BY <1>2, <1>9, <1>10

\* The end of a bulk: the documents it sends, of the vectors up to position d.
Bulked(p, o, e, d, b) ==
    /\ b.docs \in Seq(Doc) /\ b.buffer \in SUBSET Nat /\ b.parent \in Nat /\ b.current \in Nat
    /\ b.parent = p[Latest(o, d)] /\ b.buffer = Group(p, o, d, b.parent)
    /\ \A i \in DOMAIN b.docs : /\ b.docs[i].id \in Ids(p, o, d)
                                /\ b.docs[i].vectors = Group(p, o, d, b.docs[i].id)
    /\ \A v \in Latest(o, e)..(d - 1) : p[v] = b.parent \/ Sends(b.docs, p[v])

\* x vectors are sent or in the buffer: a last flush, or none.
Outcome(b, x, size, end) ==
    IF x + size >= end THEN b.current = x /\ Sends(b.docs, b.parent)
    ELSE b.current + Cardinality(b.buffer) = x

\* What the last flush makes of what was collected.
LEMMA BulkEnds ==
    ASSUME NEW p, vtask.bulk_size \in Nat \ {0}, NEW o \in Nat, NEW e \in Nat,
           NEW d \in Nat, NEW n \in Nat, o <= e, e < d, NEW a, CollectInv(p, o, e, d, n, a),
           NEW end \in Nat, NEW b, b = FlushLast(a, end)
    PROVE  Bulked(p, o, e, d, b) /\ Outcome(b, n + (d - e), vtask.bulk_size, end)
<1>1. /\ a \in Bulk /\ a.parent = p[Latest(o, d)] /\ a.buffer = Group(p, o, d, a.parent)
      /\ a.current + Cardinality(a.buffer) = n + (d - e)
      /\ \A i \in DOMAIN a.docs : /\ a.docs[i].id \in Ids(p, o, d)
                                  /\ a.docs[i].vectors = Group(p, o, d, a.docs[i].id)
      /\ \A v \in Latest(o, e)..(d - 1) : p[v] = a.parent \/ Sends(a.docs, p[v])
  BY DEF CollectInv
<1>2. /\ a.docs \in Seq(Doc) /\ a.buffer \in SUBSET Nat /\ a.parent \in Nat /\ a.current \in Nat
  BY <1>1 DEF Bulk, FiniteSubsets
<1>3. PICK x \in Nat, k \in Nat \ {0} : x = n + (d - e) /\ k = vtask.bulk_size
  <2>1. n + (d - e) \in Nat
    BY ONLY n \in Nat, d \in Nat, e \in Nat, e < d
  <2>2. QED BY <2>1
<1>4. CASE x + k >= end
  <2>1. PICK f \in Doc : f = [id |-> a.parent, vectors |-> a.buffer]
    BY <1>2 DEF Doc
  <2>2. b = [a EXCEPT !.current = x, !.docs = Append(@, f)]
    BY <1>1, <1>3, <1>4, <2>1 DEF FlushLast
  <2>3. /\ b.current = x /\ b.docs = Append(a.docs, f) /\ b.parent = a.parent
        /\ b.buffer = a.buffer
    BY <1>1, <2>2 DEF Bulk
  <2>4. OneMoreDocument(a.docs, f, b.docs)
    BY <1>2, <2>3, SendsOneMore
  <2>5. /\ b.docs \in Seq(Doc) /\ Sends(b.docs, f.id)
        /\ \A i \in DOMAIN b.docs : b.docs[i] = f \/ (i \in DOMAIN a.docs /\ b.docs[i] = a.docs[i])
        /\ \A id : Sends(a.docs, id) => Sends(b.docs, id)
    BY <2>4 DEF OneMoreDocument
  <2>6. f.id = a.parent /\ f.vectors = a.buffer
    BY <2>1
  <2>7. a.parent \in Ids(p, o, d)
    <3>1. Latest(o, d) = d - 1 /\ d - 1 \in o..(d - 1)
      BY DEF Latest
    <3>2. QED BY <1>1, <3>1 DEF Ids
  <2>8. ASSUME NEW i \in DOMAIN b.docs
        PROVE  /\ b.docs[i].id \in Ids(p, o, d)
               /\ b.docs[i].vectors = Group(p, o, d, b.docs[i].id)
    <3>1. CASE b.docs[i] = f
      BY <1>1, <2>6, <2>7, <3>1
    <3>2. CASE i \in DOMAIN a.docs /\ b.docs[i] = a.docs[i]
      BY <1>1, <3>2
    <3>3. QED BY <2>5, <3>1, <3>2
  <2>9. \A v \in Latest(o, e)..(d - 1) : p[v] = b.parent \/ Sends(b.docs, p[v])
    BY <1>1, <2>3, <2>5
  <2>10. Bulked(p, o, e, d, b)
    BY <1>1, <1>2, <2>3, <2>5, <2>8, <2>9 DEF Bulked
  <2>11. QED BY <1>3, <1>4, <2>3, <2>5, <2>6, <2>10 DEF Outcome
<1>5. CASE x + k < end
  <2>1. b = a
    BY <1>1, <1>3, <1>5 DEF FlushLast
  <2>2. Bulked(p, o, e, d, b)
    BY <1>1, <1>2, <2>1 DEF Bulked
  <2>3. ~(x + k >= end)
    BY <1>5
  <2>4. QED BY <1>1, <1>3, <2>1, <2>2, <2>3 DEF Outcome
<1>6. QED BY <1>3, <1>4, <1>5

\* The documents of a client after a bulk.
LEMMA BulkWritten ==
    ASSUME NEW p, NEW z \in Nat, Grouped(p, z), NEW o \in Nat, NEW e \in Nat, NEW d \in Nat,
           o <= e, e < d, d <= z, NEW b, Bulked(p, o, e, d, b), NEW x,
           x = [id \in DOMAIN x |-> x[id]], DOMAIN x \subseteq Ids(p, o, e),
           \A id \in Ids(p, o, e) : o < e /\ id # p[e - 1] => id \in DOMAIN x /\ x[id] = Group(p, o, e, id),
           NEW y, y = Written(x, b.docs)
    PROVE  /\ y = [id \in DOMAIN y |-> y[id]] /\ DOMAIN y \subseteq Ids(p, o, d)
           /\ \A id \in Ids(p, o, d) \ {b.parent} : id \in DOMAIN y /\ y[id] = Group(p, o, d, id)
           /\ Sends(b.docs, b.parent) => b.parent \in DOMAIN y /\ y[b.parent] = b.buffer
<1>1. /\ b.docs \in Seq(Doc) /\ b.buffer = Group(p, o, d, b.parent)
      /\ \A i \in DOMAIN b.docs : /\ b.docs[i].id \in Ids(p, o, d)
                                  /\ b.docs[i].vectors = Group(p, o, d, b.docs[i].id)
      /\ \A v \in Latest(o, e)..(d - 1) : p[v] = b.parent \/ Sends(b.docs, p[v])
  BY DEF Bulked
<1>2. Unambiguous(b.docs)
  BY <1>1 DEF Unambiguous
<1>3. /\ y = [id \in DOMAIN y |-> y[id]]
      /\ \A id : id \in DOMAIN y <=> id \in DOMAIN x \/ Sends(b.docs, id)
      /\ \A i \in DOMAIN b.docs : y[b.docs[i].id] = b.docs[i].vectors
      /\ \A id \in DOMAIN x : ~Sends(b.docs, id) => y[id] = x[id]
  BY <1>1, <1>2, WrittenDocuments
<1>4. ASSUME NEW id, Sends(b.docs, id)
      PROVE  id \in DOMAIN y /\ id \in Ids(p, o, d) /\ y[id] = Group(p, o, d, id)
  BY <1>1, <1>3, <1>4 DEF Sends
<1>5. o..(e - 1) \subseteq o..(d - 1) /\ \A v \in o..(d - 1) : v \in o..(e - 1) \/ v \in e..(d - 1)
  OBVIOUS
<1>6. Ids(p, o, e) \subseteq Ids(p, o, d)
  BY <1>5 DEF Ids
<1>7. DOMAIN y \subseteq Ids(p, o, d)
  BY <1>3, <1>4, <1>6
<1>8. ASSUME NEW id \in Ids(p, o, d) \ {b.parent}, ~Sends(b.docs, id)
      PROVE  id \in DOMAIN y /\ y[id] = Group(p, o, d, id)
  <2>1. \A v \in Latest(o, e)..(d - 1) : p[v] # id
    BY <1>1, <1>8
  <2>2. \A v \in e..(d - 1) : v \in Latest(o, e)..(d - 1)
    BY DEF Latest
  <2>3. PICK v \in o..(d - 1) : p[v] = id
    BY <1>8 DEF Ids
  <2>4. v \in o..(e - 1) /\ o < e
    BY <1>5, <2>1, <2>2, <2>3
  <2>5. Latest(o, e) = e - 1 /\ e - 1 \in Latest(o, e)..(d - 1)
    BY <2>4 DEF Latest
  <2>6. id # p[e - 1] /\ id \in Ids(p, o, e)
    BY <2>1, <2>3, <2>4, <2>5 DEF Ids
  <2>7. id \in DOMAIN x /\ x[id] = Group(p, o, e, id)
    BY <2>4, <2>6
  <2>8. Group(p, o, e, id) = Group(p, o, d, id)
    BY <1>5, <2>1, <2>2 DEF Group
  <2>9. QED BY <1>3, <1>8, <2>7, <2>8
<1>9. QED BY <1>1, <1>3, <1>4, <1>7, <1>8

\* The partition after a bulk b of n vectors.
Moved(s, n, b) ==
    [s EXCEPT !.data_set = @ + n, !.beside = @ + n, !.current = b.current,
              !.buffer = b.buffer, !.parent = b.parent]

\* The state of a partition after a bulk.
LEMMA PartitionMoved ==
    ASSUME NEW s \in Source, NEW n \in Nat, NEW b, b.current \in Nat, b.buffer \in SUBSET Nat,
           b.parent \in Int, NEW r, r = Moved(s, n, b)
    PROVE  /\ r \in Source /\ r.offset = s.offset /\ r.end = s.end
           /\ r.data_set = s.data_set + n /\ r.current = b.current
           /\ r.buffer = b.buffer /\ r.parent = b.parent
<1>1. s.data_set \in Nat /\ s.beside \in Nat
  BY DEF Source
<1>2. s.data_set + n \in Nat /\ s.beside + n \in Nat
  BY <1>1
<1>3. QED BY <1>2 DEF Source, Moved

\* A bulk of nested vectors.
LEMMA NestedRound ==
    ASSUME NEW p, p = vtask.parents, NEW z \in Nat, Grouped(p, z), NEW k \in Nat \ {0},
           k = vtask.bulk_size, NEW s \in Source, s.offset <= s.end, s.end <= z,
           s.current < s.end, NEW x, Unread(s, x) \/ NestedRead(p, k, s, x),
           NEW read, read = Positions(s), NEW b, b = NestedBulk(s, read),
           NEW r, r = Moved(s, Len(read), b), NEW y, y = Written(x, b.docs)
    PROVE  r \in Source /\ r.offset = s.offset /\ r.end = s.end /\ NestedRead(p, k, r, y)
<1>1. PICK o \in Nat, end \in Nat, e \in Nat : o = s.offset /\ end = s.end /\ e = s.data_set
  BY DEF Source
<1>2. PICK m : m = ReadSize(s, k)
  OBVIOUS
<1>3. /\ m \in Nat \ {0} /\ read \in Seq(Nat) /\ Len(read) = m
      /\ \A i \in 1..m : read[i] = e + i - 1
  BY <1>1, <1>2, ReadPositions
<1>4. PICK n : ReadsOn(s, m, n) /\ CollectInv(p, o, e, e, n, Begin(s, read))
  BY <1>1, <1>2, BulkBegins
<1>5. /\ o <= e /\ e + m <= end /\ e + m <= z /\ n \in Nat
      /\ n = e \/ (n >= e /\ e + m = end)
  <2>1. /\ o <= e /\ e + m <= end /\ n \in Nat /\ (n = e \/ (n >= e /\ e + m = end))
    BY <1>1, <1>4 DEF ReadsOn
  <2>2. QED BY <1>1, <1>3, <2>1
<1>6. PICK a : CollectInv(p, o, e, e + m, n, a) /\ b = FlushLast(a, s.end)
  <2>1. m \in Nat /\ e + m <= z /\ n \in Nat /\ o <= e /\ ReadsFrom(read, e, m)
    BY <1>3, <1>5 DEF ReadsFrom
  <2>2. \E g : CollectInv(p, o, e, e + m, n, g) /\ NestedBulk(s, read) = FlushLast(g, s.end)
    BY ONLY p = vtask.parents, z \in Nat, Grouped(p, z), o \in Nat, e \in Nat,
       <1>4, <2>1, Collected
  <2>3. QED BY <2>2
<1>7. PICK d \in Nat : d = e + m /\ e < d /\ d - e = m /\ o < d /\ d <= end /\ d <= z
  <2>1. e + m \in Nat /\ e < e + m /\ (e + m) - e = m /\ o < e + m
    BY ONLY e \in Nat, o \in Nat, <1>3, <1>5
  <2>2. QED BY <1>5, <2>1
<1>8. /\ Bulked(p, o, e, d, b)
      /\ \/ n + m + k >= end /\ b.current = n + m /\ Sends(b.docs, b.parent)
         \/ n + m + k < end /\ b.current + Cardinality(b.buffer) = n + m
  <2>1. CollectInv(p, o, e, d, n, a) /\ b = FlushLast(a, end)
    BY <1>1, <1>6, <1>7
  <2>2. Bulked(p, o, e, d, b) /\ Outcome(b, n + (d - e), vtask.bulk_size, end)
    BY <1>5, <1>7, <2>1, BulkEnds
  <2>3. Outcome(b, n + m, k, end)
    BY <1>7, <2>2
  <2>4. n + m + k \in Nat
    BY <1>3, <1>5
  <2>5. QED BY <2>2, <2>3, <2>4 DEF Outcome
<1>9. /\ b.buffer \in SUBSET Nat /\ b.parent \in Nat /\ b.current \in Nat
      /\ b.parent = p[Latest(o, d)] /\ b.buffer = Group(p, o, d, b.parent)
  BY <1>8 DEF Bulked
<1>10. Latest(o, d) = d - 1
  BY <1>7 DEF Latest
<1>11. b.parent \in Int
  BY <1>9
<1>12. /\ r \in Source /\ r.offset = o /\ r.end = end /\ r.data_set = d
       /\ r.current = b.current /\ r.buffer = b.buffer /\ r.parent = b.parent
  <2>1. Len(read) \in Nat /\ b.current \in Nat /\ b.buffer \in SUBSET Nat
    BY <1>3, <1>9
  <2>2. /\ r \in Source /\ r.offset = s.offset /\ r.end = s.end
        /\ r.data_set = s.data_set + Len(read) /\ r.current = b.current
        /\ r.buffer = b.buffer /\ r.parent = b.parent
    BY ONLY s \in Source, r = Moved(s, Len(read), b), <1>11, <2>1, PartitionMoved
  <2>3. QED BY <1>1, <1>3, <1>7, <2>2
<1>13. /\ x = [id \in DOMAIN x |-> x[id]] /\ DOMAIN x \subseteq Ids(p, o, e)
       /\ \A id \in Ids(p, o, e) : o < e /\ id # p[e - 1] =>
             id \in DOMAIN x /\ x[id] = Group(p, o, e, id)
  <2>1. CASE Unread(s, x)
    BY <1>1, <2>1 DEF Unread
  <2>2. CASE NestedRead(p, k, s, x)
    BY <1>1, <2>2 DEF NestedRead, Documents
  <2>3. QED BY <2>1, <2>2
<1>14. /\ y = [id \in DOMAIN y |-> y[id]] /\ DOMAIN y \subseteq Ids(p, o, d)
       /\ \A id \in Ids(p, o, d) \ {b.parent} : id \in DOMAIN y /\ y[id] = Group(p, o, d, id)
       /\ Sends(b.docs, b.parent) => b.parent \in DOMAIN y /\ y[b.parent] = b.buffer
  <2>1. o <= e /\ e < d /\ d <= z /\ Bulked(p, o, e, d, b)
    BY <1>5, <1>7, <1>8
  <2>2. Grouped(p, z) /\ y = Written(x, b.docs)
    OBVIOUS
  <2>3. QED
    BY ONLY z \in Nat, o \in Nat, e \in Nat, d \in Nat, <1>13, <2>1, <2>2, BulkWritten
<1>15. Documents(p, r, y)
  BY <1>12, <1>14 DEF Documents
<1>16. n + m = d \/ (d = end /\ n + m >= end)
  BY <1>3, <1>5, <1>7
<1>17. Buffered(r, k) \/ Flushed(r, y, k)
  <2>1. CASE n + m + k >= end /\ b.current = n + m /\ Sends(b.docs, b.parent)
    <3>1. d + k >= end
      BY <1>16, <2>1
    <3>2. b.current = d \/ (b.current >= end /\ d = end)
      BY <1>16, <2>1
    <3>3. Flushed(r, y, k)
      BY <1>12, <1>14, <2>1, <3>1, <3>2 DEF Flushed
    <3>4. QED BY <3>3
  <2>2. CASE n + m + k < end /\ b.current + Cardinality(b.buffer) = n + m
    <3>1. n + m = d
      BY <1>3, <1>5, <1>16, <2>2
    <3>2. QED BY <1>12, <2>2, <3>1 DEF Buffered
  <2>3. QED BY <1>8, <2>1, <2>2
<1>18. r.parent = p[r.data_set - 1] /\ r.buffer = Group(p, r.offset, r.data_set, r.parent)
  BY <1>9, <1>10, <1>12
<1>19. QED BY <1>1, <1>7, <1>12, <1>15, <1>17, <1>18 DEF NestedRead

\* A bulk of plain vectors.
LEMMA PlainRound ==
    ASSUME vtask.bulk_size \in Nat \ {0}, NEW s \in Source, s.current < s.end,
           NEW x, PlainRead(s, x), NEW read, read = Positions(s),
           NEW b, b = PlainBulk(s, read),
           NEW r, r = Moved(s, Len(read), b), NEW y, y = Written(x, b.docs)
    PROVE  r \in Source /\ r.offset = s.offset /\ r.end = s.end /\ PlainRead(r, y)
<1>1. PICK o \in Nat, end \in Nat, e \in Nat : o = s.offset /\ end = s.end /\ e = s.current
  BY DEF Source
<1>2. s.data_set = e /\ o <= e /\ e < end /\ x = [v \in o..(e - 1) |-> {v}]
  BY <1>1 DEF PlainRead
<1>3. PICK m \in Nat \ {0} : /\ m <= end - e /\ Len(read) = m /\ DOMAIN read = 1..m
                             /\ \A i \in 1..m : read[i] = e + i - 1
  <2>1. PICK m : m = ReadSize(s, vtask.bulk_size)
    OBVIOUS
  <2>2. /\ m \in Nat \ {0} /\ m <= end - e /\ Len(read) = m /\ DOMAIN read = 1..m
        /\ \A i \in 1..m : read[i] = e + i - 1
    BY <1>1, <1>2, <2>1, ReadPositions
  <2>3. QED BY <2>2
<1>4. /\ b.docs = [i \in 1..m |-> [id |-> e + i - 1, vectors |-> {read[i]}]]
      /\ b.buffer = {} /\ b.parent = -1 /\ b.current = e + m
  BY <1>1, <1>3 DEF PlainBulk
<1>5. \A i \in 1..m : /\ e + i - 1 \in e..((e + m) - 1) /\ e + i - 1 \in Nat
                      /\ b.docs[i].id = e + i - 1 /\ b.docs[i].vectors = {e + i - 1}
  BY <1>3, <1>4
<1>6. b.docs \in Seq(Doc) /\ DOMAIN b.docs = 1..m
  <2>1. \A i \in 1..m : [id |-> e + i - 1, vectors |-> {read[i]}] \in Doc
    BY <1>3, <1>5 DEF Doc
  <2>2. b.docs \in [1..m -> Doc]
    BY <1>4, <2>1
  <2>3. QED BY <2>2, FunctionSeq
<1>7. Unambiguous(b.docs)
  BY <1>5, <1>6 DEF Unambiguous
<1>8. /\ y = [id \in DOMAIN y |-> y[id]]
      /\ \A id : id \in DOMAIN y <=> id \in DOMAIN x \/ Sends(b.docs, id)
      /\ \A i \in DOMAIN b.docs : y[b.docs[i].id] = b.docs[i].vectors
      /\ \A id \in DOMAIN x : ~Sends(b.docs, id) => y[id] = x[id]
  BY <1>6, <1>7, WrittenDocuments
<1>9. \A id : Sends(b.docs, id) <=> id \in e..((e + m) - 1)
  <2>1. ASSUME NEW id \in e..((e + m) - 1) PROVE Sends(b.docs, id)
    <3>1. (id - e) + 1 \in 1..m /\ e + ((id - e) + 1) - 1 = id
      OBVIOUS
    <3>2. QED BY <1>5, <1>6, <3>1 DEF Sends
  <2>2. ASSUME NEW id, Sends(b.docs, id) PROVE id \in e..((e + m) - 1)
    <3>1. PICK i \in 1..m : b.docs[i].id = id
      BY <1>6, <2>2 DEF Sends
    <3>2. QED BY <1>5, <3>1
  <2>3. QED BY <2>1, <2>2
<1>10. DOMAIN y = o..((e + m) - 1)
  <2>1. \A id : id \in o..((e + m) - 1) <=> id \in o..(e - 1) \/ id \in e..((e + m) - 1)
    BY <1>2
  <2>2. DOMAIN x = o..(e - 1)
    BY <1>2
  <2>3. QED BY <1>8, <1>9, <2>1, <2>2
<1>11. ASSUME NEW v \in o..((e + m) - 1) PROVE y[v] = {v}
  <2>1. CASE Sends(b.docs, v)
    <3>1. PICK i \in 1..m : b.docs[i].id = v
      BY <1>6, <2>1 DEF Sends
    <3>2. QED BY <1>5, <1>6, <1>8, <3>1
  <2>2. CASE ~Sends(b.docs, v)
    <3>1. v \in o..(e - 1)
      BY <1>9, <2>2
    <3>2. QED BY <1>2, <1>8, <2>2, <3>1
  <2>3. QED BY <2>1, <2>2
<1>12. y = [v \in o..((e + m) - 1) |-> {v}]
  BY <1>8, <1>10, <1>11
<1>13. /\ r \in Source /\ r.offset = o /\ r.end = end /\ r.data_set = e + m /\ r.current = e + m
  <2>1. b.current \in Nat /\ b.buffer \in SUBSET Nat /\ b.parent \in Int
    BY <1>4
  <2>2. Len(read) \in Nat
    BY <1>3
  <2>3. /\ r \in Source /\ r.offset = s.offset /\ r.end = s.end
        /\ r.data_set = s.data_set + Len(read) /\ r.current = b.current
    BY ONLY s \in Source, r = Moved(s, Len(read), b), <2>1, <2>2, PartitionMoved
  <2>4. QED BY <1>1, <1>2, <1>3, <1>4, <2>3
<1>14. o <= e + m /\ e + m <= end
  BY <1>2, <1>3
<1>15. QED BY <1>1, <1>12, <1>13, <1>14 DEF PlainRead

\* A partition before anything was read.
LEMMA NewPartition ==
    ASSUME NEW t \in VectorTasks, NEW c \in VClients(t), NEW s, s = SourceInit(t, c), NEW x,
           x = [id \in {} |-> {}]
    PROVE  PartitionInv(t, c, s, x)
<1>1. PICK o, e : o = From(t, c) /\ e = UpToEnd(t, c)
  OBVIOUS
<1>2. o \in Nat /\ e \in Nat /\ o <= e
  <2>1. PICK n, q : n = TotalVectors(t) /\ q = n \div t.clients
    OBVIOUS
  <2>2. QED BY <1>1, <2>1, PartitionBounds
<1>3. s = [offset |-> o, end |-> e, current |-> o, data_set |-> o, beside |-> o, rep |-> 1,
           buffer |-> {}, parent |-> -1]
  BY <1>1 DEF SourceInit, From, UpToEnd
<1>4. /\ s.offset = o /\ s.end = e /\ s.current = o /\ s.data_set = o /\ s.buffer = {}
      /\ s.parent = -1
  BY <1>3
<1>5. s \in Source
  BY <1>2, <1>3 DEF Source
<1>6. Unread(s, x)
  BY <1>4 DEF Unread
<1>7. PlainRead(s, x)
  <2>1. o..(o - 1) = {}
    BY <1>2
  <2>2. x = [v \in o..(o - 1) |-> {v}]
    BY <2>1
  <2>3. QED BY <1>2, <1>4, <2>2 DEF PlainRead
<1>8. QED BY <1>1, <1>4, <1>5, <1>6, <1>7 DEF PartitionInv

\* One bulk of client c.
LEMMA BulkIndexed ==
    ASSUME vtask \in VectorTasks, NEW c \in VClients(vtask), NEW s, NEW x,
           PartitionInv(vtask, c, s, x), s.current < s.end, NEW read, read = Positions(s), NEW b,
           b = IF vtask.nested THEN NestedBulk(s, read) ELSE PlainBulk(s, read)
    PROVE  PartitionInv(vtask, c, Moved(s, Len(read), b), Written(x, b.docs))
<1>1. s \in Source /\ s.offset = From(vtask, c) /\ s.end = UpToEnd(vtask, c)
  BY DEF PartitionInv
<1>2. PICK r, y : r = Moved(s, Len(read), b) /\ y = Written(x, b.docs)
  OBVIOUS
<1>3. vtask.bulk_size \in Nat \ {0} /\ vtask.size \in Nat
  BY VectorsAssumption
<1>4. s.offset <= s.end /\ s.end <= vtask.size
  <2>1. PICK n, q : n = TotalVectors(vtask) /\ q = n \div vtask.clients
    OBVIOUS
  <2>2. /\ n \in Nat /\ n <= vtask.size /\ UpToEnd(vtask, c) \in Nat
        /\ From(vtask, c) <= UpToEnd(vtask, c) /\ UpToEnd(vtask, c) <= n
    BY <2>1, PartitionBounds
  <2>3. QED BY <1>1, <1>3, <2>2
<1>5. CASE vtask.nested = TRUE
  <2>1. PICK p : p = vtask.parents
    OBVIOUS
  <2>2. Grouped(p, vtask.size)
    BY <1>5, <2>1, VectorsAssumption DEF Grouped, GroupedByParent
  <2>3. Unread(s, x) \/ NestedRead(p, vtask.bulk_size, s, x)
    BY <1>5, <2>1 DEF PartitionInv
  <2>4. b = NestedBulk(s, read)
    BY <1>5
  <2>5. r \in Source /\ r.offset = s.offset /\ r.end = s.end /\ NestedRead(p, vtask.bulk_size, r, y)
    BY <1>1, <1>2, <1>3, <1>4, <2>1, <2>2, <2>3, <2>4, NestedRound
  <2>6. QED BY <1>1, <1>2, <1>5, <2>1, <2>5 DEF PartitionInv
<1>6. CASE vtask.nested = FALSE
  <2>1. b = PlainBulk(s, read) /\ PlainRead(s, x)
    BY <1>6 DEF PartitionInv
  <2>2. r \in Source /\ r.offset = s.offset /\ r.end = s.end /\ PlainRead(r, y)
    BY <1>1, <1>2, <1>3, <2>1, PlainRound
  <2>3. QED BY <1>1, <1>2, <1>6, <2>2 DEF PartitionInv
<1>7. vtask.nested \in BOOLEAN
  BY VectorsAssumption
<1>8. QED BY <1>5, <1>6, <1>7

\* The steps of a task on a vector data set.
LEMMA NextIndexed ==
    ASSUME IndexedInv, VectorsNext
    PROVE  IndexedInv'
<1>1. CASE StartVectors
  <2>1. /\ vtask' \in VectorTasks /\ vstate' = [c \in VClients(vtask') |-> "ready"]
        /\ source' = [c \in VClients(vtask') |-> SourceInit(vtask', c)]
        /\ indexed' = [c \in VClients(vtask') |-> [id \in {} |-> {}]]
    BY <1>1 DEF StartVectors
  <2>2. \A c \in VClients(vtask') : PartitionInv(vtask', c, source'[c], indexed'[c])
    BY <2>1, NewPartition
  <2>3. QED BY <2>1, <2>2 DEF IndexedInv
<1>2. ASSUME NEW c \in VClients(vtask), VectorStep(c) PROVE IndexedInv'
  <2>1. vtask' = vtask
    BY <1>2 DEF VectorStep, SourceEnds, QueryParams, SendQuery, AnswerQuery, BulkVectors
  <2>2. CASE vtask.kind # "index"
    BY <2>1, <2>2 DEF IndexedInv
  <2>3. CASE vtask.kind = "index"
    <3>1. /\ vtask \in VectorTasks /\ DOMAIN source = VClients(vtask)
          /\ DOMAIN vstate = VClients(vtask) /\ DOMAIN indexed = VClients(vtask)
          /\ \A d \in VClients(vtask) :
                /\ PartitionInv(vtask, d, source[d], indexed[d])
                /\ vstate[d] = "done" => source[d].current >= source[d].end
      BY <2>3 DEF IndexedInv, NoVectors, Exhausted
    <3>2. SUFFICES /\ DOMAIN source' = VClients(vtask) /\ DOMAIN vstate' = VClients(vtask)
                   /\ DOMAIN indexed' = VClients(vtask)
                   /\ \A d \in VClients(vtask) :
                         /\ PartitionInv(vtask, d, source'[d], indexed'[d])
                         /\ vstate'[d] = "done" => source'[d].current >= source'[d].end
      BY <2>1, <3>1 DEF IndexedInv, Exhausted
    <3>3. CASE SourceEnds(c)
      <4>1. /\ source[c].current >= source[c].end /\ source' = source /\ indexed' = indexed
            /\ vstate' = [vstate EXCEPT ![c] = "done"]
        BY <3>3 DEF SourceEnds, Exhausted
      <4>2. QED BY <3>1, <4>1
    <3>4. CASE BulkVectors(c)
      <4>1. PICK s, x, read, b :
              /\ s = source[c] /\ x = indexed[c] /\ read = Positions(s)
              /\ b = IF vtask.nested THEN NestedBulk(s, read) ELSE PlainBulk(s, read)
        OBVIOUS
      <4>2. /\ source' = [source EXCEPT ![c] = Moved(s, Len(read), b)]
            /\ indexed' = [indexed EXCEPT ![c] = Written(x, b.docs)]
            /\ vstate' = vstate /\ vstate[c] = "ready" /\ ~(s.current >= s.end)
        BY <3>4, <4>1 DEF BulkVectors, Moved, Exhausted
      <4>3. s \in Source /\ PartitionInv(vtask, c, s, x)
        BY <3>1, <4>1 DEF PartitionInv
      <4>4. s.current < s.end
        <5>1. s.current \in Nat /\ s.end \in Nat
          BY <4>3 DEF Source
        <5>2. QED BY <4>2, <5>1
      <4>5. PartitionInv(vtask, c, Moved(s, Len(read), b), Written(x, b.docs))
        BY <3>1, <4>1, <4>3, <4>4, BulkIndexed
      <4>6. /\ source'[c] = Moved(s, Len(read), b) /\ indexed'[c] = Written(x, b.docs)
            /\ \A d \in VClients(vtask) \ {c} : source'[d] = source[d] /\ indexed'[d] = indexed[d]
        BY <3>1, <4>2
      <4>7. \A d \in VClients(vtask) : PartitionInv(vtask, d, source'[d], indexed'[d])
        BY <3>1, <4>5, <4>6
      <4>8. \A d \in VClients(vtask) : vstate'[d] = "done" => source'[d].current >= source'[d].end
        BY <3>1, <4>2, <4>6
      <4>9. QED BY <3>1, <4>2, <4>7, <4>8
    <3>5. QED BY <1>2, <2>3, <3>3, <3>4 DEF VectorStep, QueryParams, SendQuery, AnswerQuery
  <2>4. QED BY <2>2, <2>3
<1>3. QED BY <1>1, <1>2 DEF VectorsNext

\* What a partition has sent when it is exhausted.
LEMMA PartitionIndexed ==
    ASSUME vtask \in VectorTasks, NEW c \in VClients(vtask),
           PartitionInv(vtask, c, source[c], indexed[c]), source[c].current >= source[c].end
    PROVE  /\ PartOf(c) = From(vtask, c)..(UpToEnd(vtask, c) - 1)
           /\ indexed[c] = [id \in {DocumentOf(v) : v \in PartOf(c)} |->
                               {v \in PartOf(c) : DocumentOf(v) = id}]
<1>1. PICK s, x : s = source[c] /\ x = indexed[c]
  OBVIOUS
<1>2. s \in Source /\ s.offset = From(vtask, c) /\ s.end = UpToEnd(vtask, c)
  BY <1>1 DEF PartitionInv
<1>3. /\ s.offset \in Nat /\ s.end \in Nat /\ s.current \in Nat /\ s.data_set \in Nat
      /\ s.current >= s.end
  BY <1>1, <1>2 DEF Source
<1>4. PartOf(c) = s.offset..(s.end - 1)
  BY <1>1 DEF PartOf
<1>5. s.offset <= s.end
  <2>1. PICK n, q : n = TotalVectors(vtask) /\ q = n \div vtask.clients
    OBVIOUS
  <2>2. QED BY <1>2, <2>1, PartitionBounds
<1>6. CASE vtask.nested = TRUE
  <2>1. PICK p : p = vtask.parents
    OBVIOUS
  <2>2. \A v : DocumentOf(v) = p[v]
    BY <1>6, <2>1 DEF DocumentOf
  <2>3. SUFFICES x = [id \in Ids(p, s.offset, s.end) |-> Group(p, s.offset, s.end, id)]
    <3>1. {DocumentOf(v) : v \in PartOf(c)} = Ids(p, s.offset, s.end)
      BY <1>4, <2>2 DEF Ids
    <3>2. \A id : {v \in PartOf(c) : DocumentOf(v) = id} = Group(p, s.offset, s.end, id)
      BY <1>4, <2>2 DEF Group
    <3>3. [id \in {DocumentOf(v) : v \in PartOf(c)} |-> {v \in PartOf(c) : DocumentOf(v) = id}] =
             [id \in Ids(p, s.offset, s.end) |-> Group(p, s.offset, s.end, id)]
      BY <3>1, <3>2
    <3>4. QED BY <1>1, <1>2, <1>4, <3>3
  <2>4. CASE Unread(s, x)
    <3>1. s.current = s.offset /\ x = [id \in {} |-> {}]
      BY <2>4 DEF Unread
    <3>2. s.offset..(s.end - 1) = {}
      BY <1>3, <1>5, <3>1
    <3>3. Ids(p, s.offset, s.end) = {}
      BY <3>2 DEF Ids
    <3>4. QED BY <3>1, <3>3
  <2>5. CASE NestedRead(p, vtask.bulk_size, s, x)
    <3>1. /\ s.offset < s.data_set /\ s.data_set <= s.end /\ s.parent = p[s.data_set - 1]
          /\ s.buffer = Group(p, s.offset, s.data_set, s.parent)
          /\ Buffered(s, vtask.bulk_size) \/ Flushed(s, x, vtask.bulk_size)
          /\ Documents(p, s, x)
      BY <2>5 DEF NestedRead
    <3>2. Flushed(s, x, vtask.bulk_size)
      <4>1. ASSUME Buffered(s, vtask.bulk_size) PROVE FALSE
        <5>1. s.current + Cardinality(s.buffer) = s.data_set /\ s.data_set + vtask.bulk_size < s.end
          BY <4>1 DEF Buffered
        <5>2. s.offset \in Int /\ s.data_set - 1 \in Int
          BY <1>3
        <5>3. IsFiniteSet(s.offset..(s.data_set - 1))
          BY <5>2, FS_Interval
        <5>4. s.buffer \in SUBSET (s.offset..(s.data_set - 1))
          BY <3>1 DEF Group
        <5>5. Cardinality(s.buffer) \in Nat
          BY <5>3, <5>4, FS_Subset, FS_CardinalityType
        <5>6. vtask.bulk_size \in Nat
          BY VectorsAssumption
        <5>7. QED BY <1>3, <5>1, <5>5, <5>6
      <4>2. QED BY <3>1, <4>1
    <3>3. s.data_set = s.end /\ s.parent \in DOMAIN x /\ x[s.parent] = s.buffer
      <4>1. s.current = s.data_set \/ s.data_set = s.end
        BY <3>2 DEF Flushed
      <4>2. s.data_set = s.end
        BY <1>3, <3>1, <4>1
      <4>3. QED BY <3>2, <4>2 DEF Flushed
    <3>4. /\ x = [id \in DOMAIN x |-> x[id]] /\ DOMAIN x \subseteq Ids(p, s.offset, s.end)
          /\ \A id \in Ids(p, s.offset, s.end) \ {s.parent} :
                id \in DOMAIN x /\ x[id] = Group(p, s.offset, s.end, id)
      BY <3>1, <3>3 DEF Documents
    <3>5. DOMAIN x = Ids(p, s.offset, s.end)
      BY <3>3, <3>4
    <3>6. \A id \in DOMAIN x : x[id] = Group(p, s.offset, s.end, id)
      BY <3>1, <3>3, <3>4, <3>5
    <3>7. QED BY <3>4, <3>5, <3>6
  <2>6. QED BY <1>1, <1>6, <2>1, <2>4, <2>5 DEF PartitionInv
<1>7. CASE vtask.nested = FALSE
  <2>1. /\ s.current <= s.end /\ x = [v \in s.offset..(s.current - 1) |-> {v}]
    BY <1>1, <1>7 DEF PartitionInv, PlainRead
  <2>2. s.current = s.end
    BY <1>3, <2>1
  <2>3. \A v : DocumentOf(v) = v
    BY <1>7 DEF DocumentOf
  <2>4. {DocumentOf(v) : v \in PartOf(c)} = PartOf(c)
    BY <2>3
  <2>5. \A id \in PartOf(c) : {v \in PartOf(c) : DocumentOf(v) = id} = {id}
    BY <2>3
  <2>6. x = [id \in PartOf(c) |-> {id}]
    BY <1>4, <2>1, <2>2
  <2>7. x = [id \in PartOf(c) |-> {v \in PartOf(c) : DocumentOf(v) = id}]
    BY <2>5, <2>6
  <2>8. QED BY <1>1, <1>2, <1>4, <2>4, <2>7
<1>8. vtask.nested \in BOOLEAN
  BY VectorsAssumption
<1>9. QED BY <1>6, <1>7, <1>8

\* Once all clients of an index task are done, every vector that was asked for
\* is in the part of exactly one client, and the documents of each client hold
\* the vectors of its part that belong to them: for any number of clients and
\* vectors, any bulk size and any parents, as long as the vectors of a parent
\* are next to each other.
THEOREM EveryVectorIndexed == Spec => []VectorsIndexed
<1>1. Init => IndexedInv
  BY DEF Init, VectorsInit, IndexedInv, NoVectors
<1>2. IndexedInv /\ [Next]_vars => IndexedInv'
  <2>1. SUFFICES ASSUME IndexedInv, [Next]_vars PROVE IndexedInv'
    OBVIOUS
  <2>2. CASE VectorsNext
    BY <2>1, <2>2, NextIndexed
  <2>3. CASE UNCHANGED vectorVars
    BY <2>1, <2>3 DEF IndexedInv, Exhausted, vectorVars
  <2>4. QED
    BY <2>1, <2>2, <2>3 DEF Next, StartComposite, EndComposite, Searching, Vectors, vars
<1>3. IndexedInv => VectorsIndexed
  <2>1. SUFFICES ASSUME IndexedInv, vtask.kind = "index",
                        \A c \in VClients(vtask) : vstate[c] = "done"
                 PROVE  VectorsIndexed
    BY DEF VectorsIndexed
  <2>2. vtask \in VectorTasks
    BY <2>1 DEF IndexedInv, NoVectors
  <2>3. \A c \in VClients(vtask) :
          /\ PartOf(c) = From(vtask, c)..(UpToEnd(vtask, c) - 1)
          /\ indexed[c] = [id \in {DocumentOf(v) : v \in PartOf(c)} |->
                              {v \in PartOf(c) : DocumentOf(v) = id}]
    <3>1. \A c \in VClients(vtask) : /\ PartitionInv(vtask, c, source[c], indexed[c])
                                     /\ source[c].current >= source[c].end
      BY <2>1 DEF IndexedInv, Exhausted
    <3>2. QED BY <2>2, <3>1, PartitionIndexed
  <2>4. /\ UNION {From(vtask, c)..(UpToEnd(vtask, c) - 1) : c \in VClients(vtask)} =
              0..(TotalVectors(vtask) - 1)
        /\ \A c, d \in VClients(vtask) : c # d =>
              (From(vtask, c)..(UpToEnd(vtask, c) - 1))
                 \intersect (From(vtask, d)..(UpToEnd(vtask, d) - 1)) = {}
    BY <2>2, PartitionsCover
  <2>5. UNION {PartOf(c) : c \in VClients(vtask)} = 0..(TotalVectors(vtask) - 1)
    <3>1. \A c \in VClients(vtask) : PartOf(c) = From(vtask, c)..(UpToEnd(vtask, c) - 1)
      BY <2>3
    <3>2. {PartOf(c) : c \in VClients(vtask)} =
             {From(vtask, c)..(UpToEnd(vtask, c) - 1) : c \in VClients(vtask)}
      BY <3>1
    <3>3. QED BY <2>4, <3>2
  <2>6. \A c, d \in VClients(vtask) : c # d => PartOf(c) \intersect PartOf(d) = {}
    BY <2>3, <2>4
  <2>7. QED BY <2>3, <2>5, <2>6 DEF VectorsIndexed
<1>4. QED BY <1>1, <1>2, <1>3, PTL DEF Spec
===============================================================================
