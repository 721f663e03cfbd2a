----------------------------- MODULE BulkParams -----------------------------
(***************************************************************************)
(* The parameter source of bulk indexing: the part of every document set   *)
(* that falls to a range of clients, the readers of these parts chained    *)
(* one after the other, and the bulks they are cut into.                   *)
(*                                                                         *)
(* A document is its number in its set.  Batches, which only read several  *)
(* bulks ahead and are flattened again, are left out.                      *)
(***************************************************************************)
EXTENDS DocumentFiles

CONSTANTS
    BulkSize,
    IngestPercentage

ASSUME BulkAssumption ==
    /\ BulkSize \in Nat \ {0}
    /\ IngestPercentage \in 1..100
    \* conflicts need generated ids (checked when the source is created)
    /\ \A s \in DOMAIN DocumentSets :
          ~(DocumentSets[s].meta /\ DocumentSets[s].conflicts)

VARIABLES
    partitions,     \* partition indices of the source that is read, or {}
    current_bulk,
    set,            \* the reader that is open: index of its document set
    current_line,   \* lines its slice has read
    id_up_to,       \* fresh ids its GenerateActionMetaData has issued
    sent,           \* history: set -> document -> how often it was sent
    issued          \* history: set -> id -> how often it was issued as fresh

bulks == <<partitions, current_bulk, set, current_line, id_up_to, sent, issued>>

CeilDiv(n, d) == (n + d - 1) \div d

\* round(n / d): half to even.
Round(n, d) ==
    LET q == n \div d
        r == 2 * (n % d)
    IN  IF r > d \/ (r = d /\ q % 2 = 1) THEN q + 1 ELSE q

\* bounds: what the clients first..last of a task read of set s.
Bounds(s, first, last, clients) ==
    LET start == Round(DocumentSets[s].docs * first, clients)
        end == Round(DocumentSets[s].docs * (last + 1), clients)
    IN  [offset |-> start * LinesPerDoc(s), docs |-> end - start,
         lines |-> (end - start) * LinesPerDoc(s)]

\* partitions = sorted(partitions): a continuous range of client ids.
FirstPartition == CHOOSE p \in partitions : \A q \in partitions : p <= q
LastPartition == CHOOSE p \in partitions : \A q \in partitions : p >= q

Slice(s, clients) == Bounds(s, FirstPartition, LastPartition, clients)

NumberOfBulks(clients) ==
    LET upTo[s \in 0..Len(DocumentSets)] ==
            IF s = 0 THEN 0
            ELSE upTo[s - 1] + CeilDiv(Slice(s, clients).docs, BulkSize)
    IN  upTo[Len(DocumentSets)]

TotalBulks(clients) == CeilDiv(NumberOfBulks(clients) * IngestPercentage, 100)

BulkInit ==
    /\ partitions = {}
    /\ current_bulk = 0
    /\ set = 0
    /\ current_line = 0
    /\ id_up_to = 0
    /\ sent = [s \in DOMAIN DocumentSets |-> [d \in 1..DocumentSets[s].docs |-> 0]]
    /\ issued = sent

\* The clients of one worker that run the task register their partitions,
\* and the first call of params() creates the readers.
OpenSource(ps) ==
    /\ partitions = {}
    /\ partitions' = ps
    /\ current_bulk' = 0
    /\ set' = 1
    /\ current_line' = 0
    /\ id_up_to' = 0
    /\ UNCHANGED <<sent, issued>>

\* Position of the open slice in its file.
Position(clients) == SkipLines(set, Slice(set, clients).offset) + current_line

\* Lines the open slice returns next, at most a bulk, and none behind the end
\* of the file.
LinesInBulk(clients) ==
    LET left == Slice(set, clients).lines - current_line
        rest == file[set].doc - Position(clients)
        size == BulkSize * LinesPerDoc(set)
    IN  IF rest <= 0 THEN 0
        ELSE CHOOSE n \in {left, rest, size} : n <= left /\ n <= rest /\ n <= size

Reading(clients) ==
    partitions # {} /\ current_bulk < TotalBulks(clients) /\ set <= Len(DocumentSets)

\* The open reader has nothing (more) for these clients: chain goes on.
NextReader(clients) ==
    /\ Reading(clients)
    /\ LinesInBulk(clients) = 0
    /\ set' = set + 1
    /\ current_line' = 0
    /\ id_up_to' = 0
    /\ UNCHANGED <<partitions, current_bulk, sent, issued>>

\* params(): the next bulk.  With conflicts a document gets the next fresh id
\* or one issued before; the first one of a reader has no choice.
NextBulk(clients) ==
    /\ Reading(clients)
    /\ LinesInBulk(clients) > 0
    /\ LET start == Position(clients)
           docs == LinesInBulk(clients) \div LinesPerDoc(set)
           firstDoc == start \div LinesPerDoc(set) + 1
       IN  /\ sent' = [sent EXCEPT ![set] = [d \in DOMAIN @ |->
                  IF d \in firstDoc..(firstDoc + docs - 1) THEN @[d] + 1 ELSE @[d]]]
           /\ \E fresh \in (IF id_up_to = 0 THEN 1 ELSE 0)..docs :
                 IF DocumentSets[set].conflicts
                 THEN LET id == Slice(set, clients).offset + id_up_to
                      IN  /\ id_up_to' = id_up_to + fresh
                          /\ issued' = [issued EXCEPT ![set] = [d \in DOMAIN @ |->
                                IF d \in (id + 1)..(id + fresh) THEN @[d] + 1 ELSE @[d]]]
                 ELSE fresh = docs /\ UNCHANGED <<id_up_to, issued>>
    /\ current_bulk' = current_bulk + 1
    /\ current_line' = current_line + LinesInBulk(clients)
    /\ UNCHANGED <<partitions, set>>

\* params() raises StopIteration: the source is exhausted.
CloseSource(clients) ==
    /\ partitions # {}
    /\ ~Reading(clients)
    /\ partitions' = {}
    /\ UNCHANGED <<current_bulk, set, current_line, id_up_to, sent, issued>>
=============================================================================
