---------------------------- MODULE VectorSources ----------------------------
(***************************************************************************)
(* Vector data sets (params.py, utils/dataset.py): the clients of one      *)
(* worker index the vectors of a data set, plain or nested in the document *)
(* of their parent, or search with them and compare the answers with the   *)
(* known neighbours.                                                       *)
(*                                                                         *)
(* Each client has its own partition of the source, with data sets of its  *)
(* own.  The partitions are shallow copies, so the parameters of searches  *)
(* (query_params) are one object for all clients of the worker.  A vector  *)
(* is its position in the data set; its neighbours, its parent and its     *)
(* attributes are at the same position of another data set.                *)
(***************************************************************************)
EXTENDS Integers, FiniteSets, SequencesExt

CONSTANT
    VectorTasks  \* records [kind, clients, cores, num_vectors, size, bulk_size, nested,
                 \* parents, repetitions]; parents: position -> parent id

\* The vectors of one parent are next to each other: bulk_transform sends the
\* document of a parent as soon as a vector of another one comes.
GroupedByParent(t) ==
    /\ t.parents \in [0..(t.size - 1) -> Nat]
    /\ \A u, v, w \in 0..(t.size - 1) :
          u <= v /\ v <= w /\ t.parents[u] = t.parents[w] => t.parents[v] = t.parents[u]

ASSUME VectorsAssumption ==
    \A t \in VectorTasks :
        /\ t.clients \in Nat \ {0} /\ t.bulk_size \in Nat \ {0}
        /\ t.size \in Nat /\ t.num_vectors \in Int
        /\ t.nested \in BOOLEAN /\ (t.nested => GroupedByParent(t))

VARIABLES
    vtask,      \* the task, None before it is chosen
    vstate,     \* client -> "ready", "waiting", "request" or "done"
    source,     \* client -> its partition, see SourceInit
    query,      \* query_params: positions of its vector and its neighbors
    inquiry,    \* client -> the position of the vector in the request under way
    asked,      \* history: client -> the vector its source read for this request
    overtaken,  \* history: clients that share query_params with a later call
    recalled,   \* the last comparison: [asked, answered, neighbors, alone]
    indexed     \* history: client -> document id -> vectors in the last document sent

vectorVars == <<vtask, vstate, source, query, inquiry, asked, overtaken, recalled, indexed>>

NoVectors == [kind |-> "none", clients |-> 0, cores |-> 0, num_vectors |-> 0, size |-> 0,
              bulk_size |-> 1, nested |-> FALSE, parents |-> <<>>, repetitions |-> 1]

VClients(t) == 0..(t.clients - 1)

\* -1, or more than there are, stands for all vectors of the set.
TotalVectors(t) ==
    IF t.num_vectors < 0 \/ t.num_vectors > t.size THEN t.size ELSE t.num_vectors

\* Mutant: what does not divide evenly is left over.
EqualShare(t, c) == TotalVectors(t) \div t.clients

\* num_vectors of a partition: the last one takes what is left over.
Share(t, c) ==
    LET least == TotalVectors(t) \div t.clients
    IN  IF c = t.clients - 1 THEN TotalVectors(t) - least * c ELSE least

\* A partition: every data set of it is opened anew and put to its offset.
SourceInit(t, c) ==
    LET offset == c * (TotalVectors(t) \div t.clients)
    IN  [offset |-> offset, end |-> offset + Share(t, c), current |-> offset,
         data_set |-> offset, beside |-> offset, rep |-> 1,
         buffer |-> {}, parent |-> -1]

NotCompared == [asked |-> -1, answered |-> -1, neighbors |-> -1, alone |-> TRUE]

VectorsInit ==
    /\ vtask = NoVectors
    /\ vstate = <<>> /\ source = <<>> /\ inquiry = <<>> /\ asked = <<>> /\ indexed = <<>>
    /\ query = [vector |-> -1, neighbors |-> -1]
    /\ overtaken = {} /\ recalled = NotCompared

StartVectors ==
    /\ vtask = NoVectors
    /\ vtask' \in VectorTasks
    /\ vstate' = [c \in VClients(vtask') |-> "ready"]
    /\ source' = [c \in VClients(vtask') |-> SourceInit(vtask', c)]
    /\ inquiry' = [c \in VClients(vtask') |-> -1]
    /\ asked' = inquiry'
    /\ indexed' = [c \in VClients(vtask') |-> [id \in {} |-> {}]]
    /\ UNCHANGED <<query, overtaken, recalled>>

Exhausted(c) == source[c].current >= source[c].end

\* params() raises StopIteration: a search has had all its repetitions.
SourceEnds(c) ==
    /\ vstate[c] = "ready" /\ Exhausted(c)
    /\ vtask.kind = "index" \/ source[c].rep >= vtask.repetitions
    /\ vstate' = [vstate EXCEPT ![c] = "done"]
    /\ UNCHANGED <<vtask, source, query, inquiry, asked, overtaken, recalled, indexed>>

-----------------------------------------------------------------------------
(* Searching.                                                              *)

\* Mutant: only the vectors are read from the beginning again.
RewindVectors(s) ==
    [s EXCEPT !.data_set = s.offset, !.current = s.offset, !.rep = @ + 1]

\* Another repetition starts at the offset of the partition.
Rewind(s) ==
    [s EXCEPT !.data_set = s.offset, !.beside = s.offset, !.current = s.offset, !.rep = @ + 1]

\* params(): the next vector and its neighbours go into query_params, also in
\* that of the clients that have theirs in hand.  A throttled client sleeps
\* before it sends the request.
QueryParams(c) ==
    /\ vtask.kind = "search" /\ vstate[c] = "ready"
    /\ Exhausted(c) => source[c].rep < vtask.repetitions
    /\ LET s == IF Exhausted(c) THEN Rewind(source[c]) ELSE source[c]
       IN  /\ query' = [vector |-> s.data_set, neighbors |-> s.beside]
           /\ asked' = [asked EXCEPT ![c] = s.data_set]
           /\ source' = [source EXCEPT ![c] =
                 [s EXCEPT !.data_set = @ + 1, !.beside = @ + 1, !.current = @ + 1]]
    /\ vstate' = [vstate EXCEPT ![c] = "waiting"]
    /\ overtaken' = {d \in VClients(vtask) : d # c /\ vstate[d] \in {"waiting", "request"}}
                       \union overtaken
    /\ UNCHANGED <<vtask, inquiry, recalled, indexed>>

\* The runner takes the body out of params and sends it.
SendQuery(c) ==
    /\ vtask.kind = "search" /\ vstate[c] = "waiting"
    /\ inquiry' = [inquiry EXCEPT ![c] = query.vector]
    /\ vstate' = [vstate EXCEPT ![c] = "request"]
    /\ UNCHANGED <<vtask, source, query, asked, overtaken, recalled, indexed>>

\* Recall is left out when there are more clients than cores.
CalculatesRecall(t) == t.clients <= t.cores

\* The answer, if it has hits, is compared with params["neighbors"] as they
\* are now; a failed request or an empty answer is not.
AnswerQuery(c) ==
    /\ vtask.kind = "search" /\ vstate[c] = "request"
    /\ \/ UNCHANGED recalled
       \/ /\ CalculatesRecall(vtask)
          /\ recalled' = [asked |-> asked[c], answered |-> inquiry[c],
                          neighbors |-> query.neighbors, alone |-> c \notin overtaken]
    /\ vstate' = [vstate EXCEPT ![c] = "ready"]
    /\ inquiry' = [inquiry EXCEPT ![c] = -1]
    /\ asked' = [asked EXCEPT ![c] = -1]
    /\ overtaken' = overtaken \ {c}
    /\ UNCHANGED <<vtask, source, query, indexed>>

-----------------------------------------------------------------------------
(* Indexing.                                                               *)

\* bulk_transform of a nested field: vectors of one parent are collected until
\* one of another parent comes.  b holds the documents of the bulk, the buffer
\* with its parent, and self.current.
Collect(b, v) ==
    IF vtask.parents[v] = b.parent THEN [b EXCEPT !.buffer = @ \union {v}]
    ELSE [docs |-> Append(b.docs, [id |-> b.parent, vectors |-> b.buffer]),
          buffer |-> {v}, parent |-> vtask.parents[v],
          current |-> b.current + Cardinality(b.buffer)]

\* The last flush: when no full bulk is left to read behind the buffer.  The
\* buffer is kept as it is.
FlushLast(b, end) ==
    LET current == b.current + Cardinality(b.buffer)
    IN  IF current + vtask.bulk_size >= end
        THEN [b EXCEPT !.current = current,
                       !.docs = Append(@, [id |-> b.parent, vectors |-> b.buffer])]
        ELSE b

\* The vectors, and beside them parents or attributes, of one read.
Positions(s) ==
    LET left == s.end - s.current
        bulk_size == IF left < vtask.bulk_size THEN left ELSE vtask.bulk_size
    IN  [i \in 1..bulk_size |-> s.data_set + i - 1]

\* Plain vectors, with attributes or without, get their position as id.
PlainBulk(s, read) ==
    [docs |-> [i \in DOMAIN read |-> [id |-> s.current + i - 1, vectors |-> {read[i]}]],
     buffer |-> {}, parent |-> -1, current |-> s.current + Len(read)]

NestedBulk(s, read) ==
    LET parent == IF s.parent = -1 THEN vtask.parents[read[1]] ELSE s.parent
        start == [docs |-> <<>>, buffer |-> s.buffer, parent |-> parent, current |-> s.current]
        collected[n \in 0..Len(read)] ==
            IF n = 0 THEN start ELSE Collect(collected[n - 1], read[n])
    IN  FlushLast(collected[Len(read)], s.end)

\* The documents of one bulk replace those with the same id.
Written(documents, docs) ==
    LET ids == DOMAIN documents \union {docs[i].id : i \in DOMAIN docs}
        last(id) == docs[CHOOSE i \in DOMAIN docs :
                            docs[i].id = id /\ \A j \in DOMAIN docs : docs[j].id = id => j <= i]
    IN  [id \in ids |-> IF \E i \in DOMAIN docs : docs[i].id = id THEN last(id).vectors
                        ELSE documents[id]]

\* params(): one bulk.
BulkVectors(c) ==
    /\ vtask.kind = "index" /\ vstate[c] = "ready" /\ ~Exhausted(c)
    /\ LET s == source[c]
           read == Positions(s)
           b == IF vtask.nested THEN NestedBulk(s, read) ELSE PlainBulk(s, read)
       IN  /\ source' = [source EXCEPT ![c] =
                 [s EXCEPT !.data_set = @ + Len(read), !.beside = @ + Len(read),
                           !.current = b.current, !.buffer = b.buffer, !.parent = b.parent]]
           /\ indexed' = [indexed EXCEPT ![c] = Written(@, b.docs)]
    /\ UNCHANGED <<vtask, vstate, query, inquiry, asked, overtaken, recalled>>

VectorStep(c) ==
    SourceEnds(c) \/ QueryParams(c) \/ SendQuery(c) \/ AnswerQuery(c) \/ BulkVectors(c)

VectorsNext == StartVectors \/ \E c \in VClients(vtask) : VectorStep(c)

-----------------------------------------------------------------------------
\* The document that a vector belongs to.
DocumentOf(v) == IF vtask.nested THEN vtask.parents[v] ELSE v

PartOf(c) == source[c].offset .. (source[c].end - 1)

\* When all clients are through, the partitions have covered the vectors that
\* were asked for, without overlap; and the last document each client has sent
\* for an id holds all vectors of its part that belong there and no others,
\* although the buffer of a parent lives on across bulks and may be sent before
\* it is complete.
VectorsIndexed ==
    vtask.kind = "index" /\ (\A c \in VClients(vtask) : vstate[c] = "done") =>
        /\ UNION {PartOf(c) : c \in VClients(vtask)} = 0 .. (TotalVectors(vtask) - 1)
        /\ \A c, d \in VClients(vtask) : c # d => PartOf(c) \intersect PartOf(d) = {}
        /\ \A c \in VClients(vtask) :
              indexed[c] = [id \in {DocumentOf(v) : v \in PartOf(c)} |->
                               {v \in PartOf(c) : DocumentOf(v) = id}]

\* An answer is compared with the neighbours of the vector that was asked for,
\* in every repetition and partition - as long as no other client of the worker
\* asks its source meanwhile.
NeighborsMatch ==
    recalled.alone =>
        recalled.answered = recalled.asked /\ recalled.neighbors = recalled.asked

\* Every search uses the vector its source has read for it, and recall is
\* calculated from that vector's neighbours.
RecallOfOwnQuery ==
    recalled.answered = recalled.asked /\ recalled.neighbors = recalled.asked
=============================================================================
