-------------------------- MODULE Ingestion_proofs --------------------------
(***************************************************************************)
(* Theorems about the way from the schedule to the documents: the files    *)
(* of the document sets, the assignment of clients to workers, the         *)
(* allocation matrix, and the documents the sources of a task read.        *)
(***************************************************************************)
EXTENDS Ingestion, Induction

-----------------------------------------------------------------------------
(* The files of the document sets.                                           *)

\* What a benchmark has done for a set before it looks at it again.
Downloaded == {<<"download", 0>>}
Extracted == {<<"decompress", 0>>}
DownloadedAndExtracted == {<<"download", 0>>, <<"decompress", 1>>}

Stages == {"look", "download", "concatenate", "decompress", "extract", "table", "count",
           "failed"}

IsFile(f) ==
    /\ f = [doc |-> f.doc, archive |-> f.archive, table |-> f.table, fresh |-> f.fresh]
    /\ f.doc \in Int /\ f.archive \in Int

TrueTable(f) == \A e \in f.table : e[1] = e[2]

\* What the downloads write.
Target(f) == IF Current.packed THEN f.archive ELSE f.doc

\* Types, tables that lead to their lines, and sets that are prepared.
FileTypes ==
    /\ preparing \in 1..(Len(DocumentSets) + 1)
    /\ DOMAIN file = DOMAIN DocumentSets
    /\ \A s \in DOMAIN DocumentSets : IsFile(file[s])
    /\ counted \subseteq 1..(preparing - 1)

TablesTrue == \A s \in DOMAIN DocumentSets : s \notin torn => TrueTable(file[s])

Behind ==
    \A s \in 1..(preparing - 1) :
        /\ Verified(s) => file[s].doc = NumberOfLines(s)
        /\ s \notin torn => HasTable(file[s])

Kept == FileTypes /\ TablesTrue /\ Behind

\* The set that is being prepared: what was fetched for it, and what its files are good
\* for, when it comes to a stage.
StageInv ==
    /\ stage \in Stages
    /\ fetched \in {{}, Downloaded, Extracted, DownloadedAndExtracted}
    /\ stage = "look" =>
          \/ fetched = {}
          \/ fetched = Downloaded /\ Target(file[preparing]) = NumberOfLines(preparing)
          \/ Expected(file[preparing].doc)
    /\ stage = "download" => fetched = {}
    /\ stage = "concatenate" => fetched = Downloaded
    /\ stage \in {"decompress", "extract"} => fetched = {} \/ fetched = Downloaded
    /\ stage \in {"table", "count"} => Expected(file[preparing].doc)

FilesInv == Kept /\ (IF AllPrepared THEN fetched = {} ELSE StageInv)

\* What is known of the constants.
LEMMA SetFacts ==
    ASSUME NEW s \in DOMAIN DocumentSets
    PROVE  /\ Len(DocumentSets) \in Nat /\ DOMAIN DocumentSets = 1..Len(DocumentSets)
           /\ NumberOfLines(s) \in Nat
<1>1. PICK Q : Q = [docs : Nat, meta : BOOLEAN, conflicts : BOOLEAN, packed : BOOLEAN,
                    sized : BOOLEAN, parts : BOOLEAN, bundled : BOOLEAN,
                    source_url : BOOLEAN]
  OBVIOUS
<1>2. DocumentSets \in Seq(Q)
  BY <1>1, FilesAssumption
<1>3. Len(DocumentSets) \in Nat /\ DOMAIN DocumentSets = 1..Len(DocumentSets) /\ DocumentSets[s] \in Q
  BY <1>2
<1>4. DocumentSets[s].docs \in Nat
  BY <1>1, <1>3
<1>5. LinesPerDoc(s) \in Nat
  BY DEF LinesPerDoc
<1>6. NumberOfLines(s) \in Nat
  BY <1>4, <1>5 DEF NumberOfLines
<1>7. QED BY <1>3, <1>6

\* The set that is being prepared is one of the sets.
LEMMA CurrentSet ==
    ASSUME FileTypes, ~AllPrepared
    PROVE  /\ preparing \in DOMAIN DocumentSets /\ preparing \in Nat
           /\ preparing + 1 \in 1..(Len(DocumentSets) + 1)
           /\ IsFile(file[preparing])
           /\ NumberOfLines(preparing) \in Nat
<1>1. Len(DocumentSets) \in Nat /\ DOMAIN DocumentSets = 1..Len(DocumentSets)
  <2>1. PICK Q : DocumentSets \in Seq(Q)
    BY FilesAssumption
  <2>2. QED BY <2>1
<1>2. preparing \in 1..Len(DocumentSets)
  BY <1>1 DEF FileTypes, AllPrepared
<1>3. QED BY <1>1, <1>2, SetFacts DEF FileTypes

\* A step on the set that is being prepared, after which it goes on with it, with the
\* next one, or starts from the first.
LEMMA SetChanged ==
    ASSUME Kept, ~AllPrepared,
           NEW g, IsFile(g), preparing \notin torn' => TrueTable(g),
           DOMAIN file' = DOMAIN file, file'[preparing] = g,
           \A s \in DOMAIN file : s # preparing => file'[s] = file[s],
           \A s : s # preparing => (s \in torn' <=> s \in torn),
           \/ preparing' = preparing /\ counted' = counted
           \/ preparing' = 1 /\ counted' = {}
           \/ /\ preparing' = preparing + 1
              /\ counted' = counted \/ counted' = counted \union {preparing}
              /\ DocumentSets[preparing].sized \/ preparing \in counted' =>
                    g.doc = NumberOfLines(preparing)
              /\ preparing \notin torn' => HasTable(g)
    PROVE  Kept'
<1>1. /\ preparing \in DOMAIN DocumentSets /\ preparing \in Nat /\ preparing >= 1
      /\ preparing + 1 \in 1..(Len(DocumentSets) + 1)
      /\ Len(DocumentSets) \in Nat /\ DOMAIN DocumentSets = 1..Len(DocumentSets)
  BY CurrentSet, SetFacts DEF Kept
<1>2. preparing' \in 1..(Len(DocumentSets) + 1)
  BY <1>1
<1>3. counted' \subseteq 1..(preparing' - 1)
  <2>1. \A s \in counted : s \in Nat /\ 1 <= s /\ s < preparing
    BY <1>1 DEF Kept, FileTypes
  <2>2. \A s \in counted' : s \in Nat /\ 1 <= s /\ s < preparing'
    BY <1>1, <2>1
  <2>3. QED BY <1>1, <1>2, <2>2
<1>4. FileTypes'
  BY <1>2, <1>3 DEF Kept, FileTypes
<1>5. TablesTrue'
  BY <1>1 DEF Kept, FileTypes, TablesTrue
<1>6. ASSUME NEW s \in 1..(preparing - 1)
      PROVE  /\ Verified(s) => file'[s].doc = NumberOfLines(s)
             /\ s \notin torn' => HasTable(file'[s])
  <2>1. s \in DOMAIN file /\ s # preparing
    BY <1>1 DEF Kept, FileTypes
  <2>2. file'[s] = file[s] /\ (s \in torn' <=> s \in torn)
    BY <2>1
  <2>3. QED BY <2>2 DEF Kept, Behind
<1>7. CASE preparing' = preparing /\ counted' = counted
  BY <1>4, <1>5, <1>6, <1>7 DEF Kept, Behind, Verified
<1>8. CASE preparing' = 1 /\ counted' = {}
  BY <1>4, <1>5, <1>8 DEF Kept, Behind
<1>9. CASE /\ preparing' = preparing + 1
           /\ counted' = counted \/ counted' = counted \union {preparing}
           /\ DocumentSets[preparing].sized \/ preparing \in counted' =>
                 g.doc = NumberOfLines(preparing)
           /\ preparing \notin torn' => HasTable(g)
  <2>1. ASSUME NEW s \in 1..(preparing' - 1)
        PROVE  /\ DocumentSets[s].sized \/ s \in counted' => file'[s].doc = NumberOfLines(s)
               /\ s \notin torn' => HasTable(file'[s])
    <3>1. CASE s = preparing
      BY <1>9, <3>1
    <3>2. CASE s # preparing
      <4>1. s \in 1..(preparing - 1)
        BY <1>1, <1>9, <3>2
      <4>2. s \in counted' => s \in counted
        BY <1>9, <3>2
      <4>3. QED BY <1>6, <4>1, <4>2 DEF Verified
    <3>3. QED BY <3>1, <3>2
  <2>2. QED BY <1>4, <1>5, <2>1 DEF Kept, Behind, Verified
<1>10. QED BY <1>7, <1>8, <1>9

\* The document file is written.
LEMMA WrittenFile ==
    ASSUME NEW f, IsFile(f), NEW n \in Int
    PROVE  /\ IsFile(Written(f, n)) /\ Written(f, n).doc = n
           /\ Written(f, n).archive = f.archive /\ Written(f, n).table = f.table
<1>1. PICK d, a, u, b : /\ d = f.doc /\ a = f.archive /\ u = f.table /\ b = f.fresh
                        /\ f = [doc |-> d, archive |-> a, table |-> u, fresh |-> b]
                        /\ d \in Int /\ a \in Int
  BY DEF IsFile
<1>2. Written(f, n) = [doc |-> n, archive |-> a, table |-> u, fresh |-> FALSE]
  <2>1. PICK x : x = FALSE
    OBVIOUS
  <2>2. Written(f, n) = [f EXCEPT !.doc = n, !.fresh = x]
    BY <2>1 DEF Written
  <2>3. [f EXCEPT !.doc = n, !.fresh = x] = [doc |-> n, archive |-> a, table |-> u, fresh |-> x]
    <3>1. PICK g : g = [f EXCEPT !.doc = n]
      OBVIOUS
    <3>2. g = [doc |-> n, archive |-> a, table |-> u, fresh |-> b]
      BY <1>1, <3>1
    <3>3. [f EXCEPT !.doc = n, !.fresh = x] = [g EXCEPT !.fresh = x]
      BY <3>1
    <3>4. [g EXCEPT !.fresh = x] = [doc |-> n, archive |-> a, table |-> u, fresh |-> x]
      BY <3>2
    <3>5. QED BY <3>3, <3>4
  <2>4. QED BY <2>1, <2>2, <2>3
<1>3. \A x, y \in Int : \A v, w :
         /\ IsFile([doc |-> x, archive |-> y, table |-> v, fresh |-> w])
  BY DEF IsFile
<1>4. QED BY <1>1, <1>2, <1>3

\* The archive is written.
LEMMA RecordOfArchive ==
    ASSUME NEW f, IsFile(f), NEW n \in Int
    PROVE  /\ IsFile([f EXCEPT !.archive = n]) /\ [f EXCEPT !.archive = n].archive = n
           /\ [f EXCEPT !.archive = n].table = f.table
<1>1. PICK d, a, u, b : /\ d = f.doc /\ a = f.archive /\ u = f.table /\ b = f.fresh
                        /\ f = [doc |-> d, archive |-> a, table |-> u, fresh |-> b]
                        /\ d \in Int /\ a \in Int
  BY DEF IsFile
<1>2. [f EXCEPT !.archive = n] = [doc |-> d, archive |-> n, table |-> u, fresh |-> b]
  BY <1>1
<1>8. \A x, y \in Int : \A v, w :
         IsFile([doc |-> x, archive |-> y, table |-> v, fresh |-> w])
  BY DEF IsFile
<1>9. QED BY <1>1, <1>2, <1>8

\* The document file is cut off.
LEMMA RecordOfDoc ==
    ASSUME NEW f, IsFile(f), NEW n \in Int
    PROVE  IsFile([f EXCEPT !.doc = n]) /\ [f EXCEPT !.doc = n].table = f.table
<1>1. PICK d, a, u, b : /\ d = f.doc /\ a = f.archive /\ u = f.table /\ b = f.fresh
                        /\ f = [doc |-> d, archive |-> a, table |-> u, fresh |-> b]
                        /\ d \in Int /\ a \in Int
  BY DEF IsFile
<1>2. [f EXCEPT !.doc = n] = [doc |-> n, archive |-> a, table |-> u, fresh |-> b]
  BY <1>1
<1>8. \A x, y \in Int : \A v, w :
         IsFile([doc |-> x, archive |-> y, table |-> v, fresh |-> w])
  BY DEF IsFile
<1>9. QED BY <1>1, <1>2, <1>8

\* The table is written.
LEMMA RecordOfTable ==
    ASSUME NEW f, IsFile(f), NEW t
    PROVE  /\ IsFile([f EXCEPT !.table = t]) /\ [f EXCEPT !.table = t].table = t
           /\ [f EXCEPT !.table = t].doc = f.doc
           /\ IsFile([f EXCEPT !.table = t, !.fresh = TRUE])
           /\ [f EXCEPT !.table = t, !.fresh = TRUE].table = t
           /\ [f EXCEPT !.table = t, !.fresh = TRUE].doc = f.doc
<1>1. PICK d, a, u, b : /\ d = f.doc /\ a = f.archive /\ u = f.table /\ b = f.fresh
                        /\ f = [doc |-> d, archive |-> a, table |-> u, fresh |-> b]
                        /\ d \in Int /\ a \in Int
  BY DEF IsFile
<1>2. [f EXCEPT !.table = t] = [doc |-> d, archive |-> a, table |-> t, fresh |-> b]
  BY <1>1
<1>6. [f EXCEPT !.table = t, !.fresh = TRUE]
         = [doc |-> d, archive |-> a, table |-> t, fresh |-> TRUE]
  <2>1. PICK x : x = TRUE
    OBVIOUS
  <2>2. [f EXCEPT !.table = t, !.fresh = x]
         = [doc |-> d, archive |-> a, table |-> t, fresh |-> x]
    <3>1. PICK g : g = [f EXCEPT !.table = t]
      OBVIOUS
    <3>2. g = [doc |-> d, archive |-> a, table |-> t, fresh |-> b]
      BY <1>1, <3>1
    <3>3. [f EXCEPT !.table = t, !.fresh = x] = [g EXCEPT !.fresh = x]
      BY <3>1
    <3>4. [g EXCEPT !.fresh = x] = [doc |-> d, archive |-> a, table |-> t, fresh |-> x]
      BY <3>2
    <3>5. QED BY <3>3, <3>4
  <2>3. QED BY <2>1, <2>2
<1>8. \A x, y \in Int : \A v, w :
         IsFile([doc |-> x, archive |-> y, table |-> v, fresh |-> w])
  BY DEF IsFile
<1>9. QED BY <1>1, <1>2, <1>6, <1>8

\* The entries of a table that was written lead to their lines.
LEMMA TableFacts ==
    ASSUME NEW n
    PROVE  /\ \A e \in TableEntries(n) : e[1] = e[2]
           /\ TableEntries(n) # NoTable
           /\ {} # NoTable
<1>1. \A e \in TableEntries(n) : \E k \in 1..n : e = <<k, k>>
  BY DEF TableEntries
<1>2. \A e \in TableEntries(n) : e[1] = e[2]
  BY <1>1
<1>3. <<Absent, Absent>> \in NoTable
  BY DEF NoTable
<1>4. <<Absent, Absent>> \notin TableEntries(n)
  <2>1. SUFFICES ASSUME <<Absent, Absent>> \in TableEntries(n) PROVE FALSE
    OBVIOUS
  <2>2. PICK k \in 1..n : <<Absent, Absent>> = <<k, k>>
    BY <1>1, <2>1
  <2>3. k = -1
    BY <2>2 DEF Absent
  <2>4. QED BY <2>2, <2>3
<1>5. QED BY <1>2, <1>3, <1>4

\* The size check.
LEMMA Checked ==
    ASSUME FileTypes, ~AllPrepared
    PROVE  /\ Expected(NumberOfLines(preparing))
           /\ \A n : Expected(n) /\ DocumentSets[preparing].sized => n = NumberOfLines(preparing)
BY CurrentSet DEF Expected, Absent, Current

\* A step of the preparation that leaves the files of the other sets alone.
LEMMA OneSetStep ==
    ASSUME FileTypes, ~AllPrepared, NEW g, file' = [file EXCEPT ![preparing] = g]
    PROVE  /\ DOMAIN file' = DOMAIN file /\ file'[preparing] = g
           /\ \A s \in DOMAIN file : s # preparing => file'[s] = file[s]
BY CurrentSet DEF FileTypes

\* The set that is prepared stays, and nothing is counted.
LEMMA SameSetStep ==
    ASSUME Kept, ~AllPrepared, NEW g, file' = [file EXCEPT ![preparing] = g],
           IsFile(g), TrueTable(g) \/ g.table = file[preparing].table,
           torn' = torn, preparing' = preparing, counted' = counted
    PROVE  Kept' /\ file'[preparing] = g
<1>1. FileTypes /\ preparing \in DOMAIN DocumentSets
  BY CurrentSet DEF Kept
<1>2. preparing \notin torn' => TrueTable(g)
  BY <1>1 DEF Kept, TablesTrue, TrueTable
<1>3. /\ DOMAIN file' = DOMAIN file /\ file'[preparing] = g
      /\ \A s \in DOMAIN file : s # preparing => file'[s] = file[s]
  BY <1>1, OneSetStep
<1>4. QED BY <1>2, <1>3, SetChanged

\* Only what was fetched and the stage change.
LEMMA SameFilesStep ==
    ASSUME Kept, UNCHANGED <<file, torn, preparing, counted>>
    PROVE  Kept'
BY DEF Kept, FileTypes, TablesTrue, Behind, Verified

\* Downloads write the archive or the document file.
LEMMA TargetWritten ==
    ASSUME FileTypes, ~AllPrepared, NEW n \in Int, WriteTarget(n)
    PROVE  \E g : /\ file' = [file EXCEPT ![preparing] = g]
                  /\ IsFile(g) /\ Target(g) = n /\ g.table = file[preparing].table
<1>1. preparing \in DOMAIN file /\ IsFile(file[preparing])
  BY CurrentSet DEF FileTypes
<1>2. CASE Current.packed
  <2>1. PICK g : g = [file[preparing] EXCEPT !.archive = n]
    OBVIOUS
  <2>2. file' = [file EXCEPT ![preparing] = g]
    BY <1>1, <1>2, <2>1 DEF WriteTarget
  <2>3. IsFile(g) /\ g.archive = n /\ g.table = file[preparing].table
    BY <1>1, <2>1, RecordOfArchive
  <2>4. QED BY <1>2, <2>2, <2>3 DEF Target
<1>3. CASE ~Current.packed
  <2>1. PICK f, g : f = file[preparing] /\ g = Written(f, n)
    OBVIOUS
  <2>2. file' = [file EXCEPT ![preparing] = g]
    BY <1>1, <1>3, <2>1 DEF WriteTarget
  <2>3. IsFile(f)
    BY <1>1, <2>1
  <2>5. IsFile(g) /\ g.doc = n /\ g.table = f.table
    BY <2>1, <2>3, WrittenFile
  <2>6. QED BY <1>3, <2>1, <2>2, <2>5 DEF Target
<1>4. QED BY <1>2, <1>3

\* Whoever looks at a set first has fetched nothing for it.
LEMMA StartsLooking ==
    ASSUME Kept', stage' = "look", fetched' = {}
    PROVE  FilesInv'
BY DEF FilesInv, StageInv, Stages

\* A stage of the same set.
LEMMA StaysAtSet ==
    ASSUME ~AllPrepared, preparing' = preparing, Kept', StageInv'
    PROVE  FilesInv'
BY DEF FilesInv, AllPrepared

\* The numbers of the fetched files.
LEMMA FetchedSizes ==
    /\ Cardinality({}) = 0
    /\ \A x : Cardinality({x}) = 1
    /\ \A x, y : x # y => Cardinality({x, y}) = 2
<1>1. Cardinality({}) = 0 /\ IsFiniteSet({})
  BY FS_EmptySet
<1>2. \A x : Cardinality({x}) = 1 /\ IsFiniteSet({x})
  BY FS_Singleton
<1>3. ASSUME NEW x, NEW y, x # y PROVE Cardinality({x, y}) = 2
  <2>1. {x, y} = {x} \union {y} /\ y \notin {x}
    BY <1>3
  <2>2. Cardinality({x} \union {y}) = Cardinality({x}) + 1
    BY <1>2, <2>1, FS_AddElement
  <2>3. QED BY <1>2, <2>1, <2>2
<1>4. QED BY <1>1, <1>2, <1>3

\* At most a download and a decompression.
LEMMA FetchedAtMostTwo ==
    ASSUME fetched \in {{}, Downloaded, Extracted, DownloadedAndExtracted}
    PROVE  Cardinality(fetched) <= 2
<1>1. CASE fetched = {}
  BY <1>1, FetchedSizes
<1>2. CASE fetched = Downloaded \/ fetched = Extracted
  <2>1. PICK x : fetched = {x}
    BY <1>2 DEF Downloaded, Extracted
  <2>2. Cardinality({x}) = 1
    BY FetchedSizes
  <2>3. QED BY <2>1, <2>2
<1>3. CASE fetched = DownloadedAndExtracted
  <2>1. <<"download", 0>> # <<"decompress", 1>>
    OBVIOUS
  <2>2. Cardinality({<<"download", 0>>, <<"decompress", 1>>}) = 2
    BY <2>1, FetchedSizes
  <2>3. QED BY <1>3, <2>2 DEF DownloadedAndExtracted
<1>4. QED BY <1>1, <1>2, <1>3

\* prepare_document_set looks at the files.
LEMMA LookStep ==
    ASSUME FilesInv, Look
    PROVE  FilesInv'
<1>1. ~AllPrepared /\ stage = "look" /\ Kept /\ StageInv /\ FileTypes
  BY DEF Look, At, FilesInv, Kept
<1>2. UNCHANGED <<file, torn, preparing, counted, fetched>>
  BY DEF Look, GoTo
<1>3. Kept'
  BY <1>1, <1>2, SameFilesStep
<1>4. Expected(NumberOfLines(preparing))
  BY <1>1, Checked
<1>5. CASE Expected(file[preparing].doc) /\ stage' = "table"
  <2>1. StageInv'
    BY <1>1, <1>2, <1>5 DEF StageInv, Stages, Expected, Current
  <2>2. QED BY <1>1, <1>2, <1>3, <2>1, StaysAtSet
<1>6. CASE ~Expected(file[preparing].doc) /\ stage' \in {"decompress", "failed"}
  <2>1. StageInv'
    BY <1>1, <1>2, <1>6 DEF StageInv, Stages
  <2>2. QED BY <1>1, <1>2, <1>3, <2>1, StaysAtSet
<1>7. CASE /\ ~Expected(file[preparing].doc) /\ stage' = "download"
           /\ ~(Current.packed /\ Expected(file[preparing].archive))
  <2>1. fetched = {}
    BY <1>1, <1>4, <1>7 DEF StageInv, Target
  <2>2. StageInv'
    BY <1>2, <1>7, <2>1 DEF StageInv, Stages
  <2>3. QED BY <1>1, <1>2, <1>3, <2>2, StaysAtSet
<1>8. QED BY <1>5, <1>6, <1>7 DEF Look, GoTo

\* A download is complete, or its parts are there.
LEMMA DownloadStep ==
    ASSUME FilesInv, Download \/ DownloadParts
    PROVE  FilesInv'
<1>1. /\ ~AllPrepared /\ stage = "download" /\ Kept /\ StageInv /\ FileTypes
      /\ UNCHANGED <<torn, preparing, counted>>
  BY DEF Download, DownloadParts, At, FilesInv, Kept, GoTo
<1>2. PICK n : /\ n \in Nat /\ WriteTarget(n)
               /\ \/ n = NumberOfLines(preparing) /\ stage' = "look"
                  \/ stage' = "concatenate"
  BY <1>1, CurrentSet DEF Download, DownloadParts, GoTo
<1>3. fetched' = Downloaded
  <2>1. fetched = {}
    BY <1>1 DEF StageInv
  <2>2. fetched' = {} \union {<<"download", Cardinality({})>>}
    BY <2>1 DEF Download, DownloadParts
  <2>3. QED BY <2>2, FetchedSizes DEF Downloaded
<1>4. PICK g : /\ file' = [file EXCEPT ![preparing] = g]
               /\ IsFile(g) /\ Target(g) = n /\ g.table = file[preparing].table
  BY <1>1, <1>2, TargetWritten
<1>5. Kept' /\ file'[preparing] = g
  BY <1>1, <1>4, SameSetStep
<1>6. Target(file[preparing])' = n
  BY <1>1, <1>4, <1>5 DEF Target, Current
<1>7. StageInv'
  BY <1>1, <1>2, <1>3, <1>6 DEF StageInv, Stages
<1>8. QED BY <1>1, <1>5, <1>7, StaysAtSet

\* The parts are put together.
LEMMA ConcatenateStep ==
    ASSUME FilesInv, Concatenate
    PROVE  FilesInv'
<1>1. /\ ~AllPrepared /\ stage = "concatenate" /\ Kept /\ StageInv /\ FileTypes
      /\ UNCHANGED <<torn, preparing, counted, fetched>>
  BY DEF Concatenate, At, FilesInv, Kept, GoTo
<1>2. NumberOfLines(preparing) \in Nat /\ NumberOfLines(preparing) \div 2 \in Int
  BY <1>1, CurrentSet
<1>3. PICK n : /\ n \in Int /\ WriteTarget(n)
               /\ \/ n = NumberOfLines(preparing) /\ stage' = "look"
                  \/ stage' = "concatenate"
  BY <1>1, <1>2 DEF Concatenate, GoTo
<1>4. fetched' = Downloaded
  BY <1>1 DEF StageInv
<1>5. PICK g : /\ file' = [file EXCEPT ![preparing] = g]
               /\ IsFile(g) /\ Target(g) = n /\ g.table = file[preparing].table
  BY <1>1, <1>3, TargetWritten
<1>6. Kept' /\ file'[preparing] = g
  BY <1>1, <1>5, SameSetStep
<1>7. Target(file[preparing])' = n
  BY <1>1, <1>5, <1>6 DEF Target, Current
<1>8. StageInv'
  BY <1>1, <1>3, <1>4, <1>7 DEF StageInv, Stages
<1>9. QED BY <1>1, <1>6, <1>8, StaysAtSet

\* The document file is created, then the archive extracted into it.
LEMMA ExtractStep ==
    ASSUME FilesInv, OpenArchive \/ Extract
    PROVE  FilesInv'
<1>1. /\ ~AllPrepared /\ stage \in {"decompress", "extract"} /\ Kept /\ StageInv /\ FileTypes
      /\ UNCHANGED <<torn, preparing, counted>>
  BY DEF OpenArchive, Extract, At, FilesInv, Kept, GoTo
<1>2. preparing \in DOMAIN file /\ IsFile(file[preparing])
  BY <1>1, CurrentSet DEF FileTypes
<1>3. file[preparing].archive \in Int
  BY <1>2 DEF IsFile
<1>4. PICK f, n, g : /\ f = file[preparing] /\ n \in Int /\ g = Written(f, n)
                     /\ file' = [file EXCEPT ![preparing] = g]
                     /\ OpenArchive \/ n = file[preparing].archive
  <2>1. CASE OpenArchive
    <3>1. file' = [file EXCEPT ![preparing] = Written(file[preparing], 0)] /\ 0 \in Int
      BY <2>1, <1>2 DEF OpenArchive
    <3>2. QED BY <2>1, <3>1
  <2>2. CASE Extract
    BY <2>2, <1>2, <1>3 DEF Extract
  <2>3. QED BY <2>1, <2>2
<1>5. IsFile(g) /\ g.doc = n /\ g.table = file[preparing].table
  BY <1>2, <1>4, WrittenFile
<1>6. Kept' /\ file'[preparing] = g
  BY <1>1, <1>4, <1>5, SameSetStep
<1>7. CASE OpenArchive
  <2>1. stage' = "extract" /\ fetched' = fetched /\ (fetched = {} \/ fetched = Downloaded)
    BY <1>1, <1>7 DEF OpenArchive, GoTo, StageInv
  <2>2. StageInv'
    BY <1>1, <2>1 DEF StageInv, Stages
  <2>3. QED BY <1>1, <1>6, <2>2, StaysAtSet
<1>8. CASE Extract
  <2>1. fetched = {} \/ fetched = Downloaded
    BY <1>1 DEF StageInv
  <2>2. fetched' = fetched \union {<<"decompress", Cardinality(fetched)>>}
    BY <1>8 DEF Extract
  <2>3. fetched' = Extracted \/ fetched' = DownloadedAndExtracted
    <3>1. CASE fetched = {}
      BY <2>2, <3>1, FetchedSizes DEF Extracted
    <3>2. CASE fetched = Downloaded
      BY <2>2, <3>2, FetchedSizes DEF Downloaded, DownloadedAndExtracted
    <3>3. QED BY <2>1, <3>1, <3>2
  <2>4. \/ stage' = "failed"
        \/ stage' = "look" /\ Expected(file[preparing].archive)
    BY <1>8 DEF Extract, GoTo
  <2>5. file'[preparing].doc = file[preparing].archive
    <3>1. file' = [file EXCEPT ![preparing] = Written(@, file[preparing].archive)]
      BY <1>8 DEF Extract
    <3>2. file'[preparing] = Written(file[preparing], file[preparing].archive)
      BY <1>2, <3>1
    <3>3. QED BY <1>2, <1>3, <3>2, WrittenFile
  <2>6. stage' = "look" => Expected(file[preparing].doc)'
    BY <1>1, <2>4, <2>5 DEF Expected, Current
  <2>7. StageInv'
    BY <1>1, <2>3, <2>4, <2>6 DEF StageInv, Stages
  <2>8. QED BY <1>1, <1>6, <2>7, StaysAtSet
<1>9. QED BY <1>7, <1>8

\* An offset table that is there, offered, or to be written.
LEMMA TableStep ==
    ASSUME FilesInv, TableValid \/ DownloadTable \/ OpenTable \/ CountLines
    PROVE  FilesInv'
<1>1. /\ ~AllPrepared /\ stage \in {"table", "count"} /\ Kept /\ StageInv /\ FileTypes
  BY DEF TableValid, DownloadTable, OpenTable, CountLines, At, FilesInv, Kept
<1>2. /\ preparing \in DOMAIN file /\ preparing \in DOMAIN DocumentSets /\ preparing \in Nat
      /\ IsFile(file[preparing])
  BY <1>1, CurrentSet DEF FileTypes
<1>3. DocumentSets[preparing].sized => file[preparing].doc = NumberOfLines(preparing)
  <2>1. Expected(file[preparing].doc)
    BY <1>1 DEF StageInv
  <2>2. QED BY <1>1, <2>1, Checked
<1>4. preparing \notin counted
  BY <1>1, <1>2 DEF FileTypes
<1>5. CASE TableValid
  <2>1. /\ preparing' = preparing + 1 /\ stage' = "look" /\ fetched' = {}
        /\ UNCHANGED <<file, torn, counted>> /\ HasTable(file[preparing])
    BY <1>5 DEF TableValid, NextSet
  <2>2. preparing \notin torn' => TrueTable(file[preparing])
    BY <1>1, <1>2, <2>1 DEF Kept, TablesTrue
  <2>3. DocumentSets[preparing].sized \/ preparing \in counted' =>
           file[preparing].doc = NumberOfLines(preparing)
    BY <1>3, <1>4, <2>1
  <2>4. Kept'
    BY <1>1, <1>2, <2>1, <2>2, <2>3, SetChanged
  <2>5. QED BY <2>1, <2>4, StartsLooking
<1>6. CASE DownloadTable
  <2>1. PICK t : t = TableEntries(NumberOfLines(preparing))
    OBVIOUS
  <2>2. PICK g : g = [file[preparing] EXCEPT !.table = t, !.fresh = TRUE]
    OBVIOUS
  <2>3. /\ preparing' = preparing + 1 /\ stage' = "look" /\ fetched' = {} /\ counted' = counted
        /\ torn' = torn \ {preparing} /\ file' = [file EXCEPT ![preparing] = g]
    BY <1>2, <1>6, <2>1, <2>2 DEF DownloadTable, NextSet
  <2>4. IsFile(g) /\ g.table = t /\ g.doc = file[preparing].doc
    BY <1>2, <2>2, RecordOfTable
  <2>5. TrueTable(g) /\ HasTable(g)
    BY <2>1, <2>4, TableFacts DEF TrueTable, HasTable
  <2>6. /\ DOMAIN file' = DOMAIN file /\ file'[preparing] = g
        /\ \A s \in DOMAIN file : s # preparing => file'[s] = file[s]
    BY <1>1, <2>3, OneSetStep
  <2>7. Kept'
    BY <1>1, <1>3, <1>4, <2>3, <2>4, <2>5, <2>6, SetChanged
  <2>8. QED BY <2>3, <2>7, StartsLooking
<1>7. CASE OpenTable
  <2>1. PICK t : t = {}
    OBVIOUS
  <2>2. PICK g : g = [file[preparing] EXCEPT !.table = t, !.fresh = TRUE]
    OBVIOUS
  <2>3. /\ preparing' = preparing /\ stage' = "count" /\ UNCHANGED <<fetched, counted>>
        /\ torn' = torn \ {preparing} /\ file' = [file EXCEPT ![preparing] = g]
    BY <1>2, <1>7, <2>1, <2>2 DEF OpenTable, GoTo
  <2>4. IsFile(g) /\ g.table = t /\ g.doc = file[preparing].doc
    BY <1>2, <2>2, RecordOfTable
  <2>5. TrueTable(g)
    BY <2>1, <2>4 DEF TrueTable
  <2>6. /\ DOMAIN file' = DOMAIN file /\ file'[preparing] = g
        /\ \A s \in DOMAIN file : s # preparing => file'[s] = file[s]
    BY <1>1, <2>3, OneSetStep
  <2>7. Kept'
    BY <1>1, <2>3, <2>4, <2>5, <2>6, SetChanged
  <2>8. Expected(file[preparing].doc)'
    BY <1>1, <2>3, <2>4, <2>6 DEF StageInv, Expected, Current
  <2>9. StageInv'
    BY <1>1, <2>3, <2>8 DEF StageInv, Stages
  <2>10. QED BY <1>1, <2>3, <2>7, <2>9, StaysAtSet
<1>8. CASE CountLines
  <2>1. PICK n : n = file[preparing].doc
    OBVIOUS
  <2>2. CASE n = 0 \/ n = NumberOfLines(preparing)
    <3>1. PICK t : t = TableEntries(n)
      OBVIOUS
    <3>2. PICK g : g = [file[preparing] EXCEPT !.table = t]
      OBVIOUS
    <3>3. /\ preparing' = preparing + 1 /\ stage' = "look" /\ fetched' = {} /\ torn' = torn
          /\ counted' = IF n = 0 THEN counted ELSE counted \union {preparing}
          /\ file' = [file EXCEPT ![preparing] = g]
      BY <1>2, <1>8, <2>1, <2>2, <3>1, <3>2 DEF CountLines, NextSet
    <3>4. IsFile(g) /\ g.table = t /\ g.doc = n
      BY <1>2, <2>1, <3>2, RecordOfTable
    <3>5. TrueTable(g) /\ HasTable(g)
      BY <3>1, <3>4, TableFacts DEF TrueTable, HasTable
    <3>6. /\ DOMAIN file' = DOMAIN file /\ file'[preparing] = g
          /\ \A s \in DOMAIN file : s # preparing => file'[s] = file[s]
      BY <1>1, <3>3, OneSetStep
    <3>7. DocumentSets[preparing].sized \/ preparing \in counted' =>
             g.doc = NumberOfLines(preparing)
      BY <1>3, <1>4, <2>1, <2>2, <3>3, <3>4
    <3>8. Kept'
      BY <1>1, <3>3, <3>4, <3>5, <3>6, <3>7, SetChanged
    <3>9. QED BY <3>3, <3>8, StartsLooking
  <2>3. CASE ~(n = 0 \/ n = NumberOfLines(preparing))
    <3>1. PICK g : g = [file[preparing] EXCEPT !.table = NoTable]
      OBVIOUS
    <3>2. /\ preparing' = preparing /\ stage' = "failed" /\ UNCHANGED <<fetched, counted, torn>>
          /\ file' = [file EXCEPT ![preparing] = g]
      BY <1>2, <1>8, <2>1, <2>3, <3>1 DEF CountLines, GoTo
    <3>3. IsFile(g) /\ g.table = NoTable
      BY <1>2, <3>1, RecordOfTable
    <3>4. TrueTable(g)
      BY <3>3 DEF TrueTable, NoTable
    <3>5. Kept'
      BY <1>1, <3>2, <3>3, <3>4, SameSetStep
    <3>6. StageInv'
      BY <1>1, <3>2 DEF StageInv, Stages
    <3>7. QED BY <1>1, <3>2, <3>5, <3>6, StaysAtSet
  <2>4. QED BY <2>2, <2>3
<1>9. QED BY <1>5, <1>6, <1>7, <1>8

\* What an interruption leaves of a set.
LEMMA InterruptedFile ==
    ASSUME Kept, ~AllPrepared, NEW f, f \in Interrupted(file[preparing])
    PROVE  IsFile(f) /\ (TrueTable(f) \/ f.table = file[preparing].table)
<1>1. IsFile(file[preparing]) /\ NumberOfLines(preparing) \in Nat
  BY CurrentSet DEF Kept
<1>2. CASE stage = "extract"
  <2>1. PICK n \in Beginnings(preparing) : f = [file[preparing] EXCEPT !.doc = n]
    BY <1>2 DEF Interrupted
  <2>2. n \in Int
    BY <1>1, <2>1 DEF Beginnings
  <2>3. QED BY <1>1, <2>1, <2>2, RecordOfDoc
<1>3. CASE stage = "count"
  <2>1. PICK n : f = [file[preparing] EXCEPT !.table = TableEntries(n)]
    BY <1>3 DEF Interrupted
  <2>2. PICK t : t = TableEntries(n)
    OBVIOUS
  <2>3. IsFile(f) /\ f.table = t
    BY <1>1, <2>1, <2>2, RecordOfTable
  <2>4. QED BY <2>2, <2>3, TableFacts DEF TrueTable
<1>4. CASE stage \notin {"extract", "count"}
  BY <1>1, <1>4 DEF Interrupted
<1>5. QED BY <1>2, <1>3, <1>4

\* A failure ends the preparation.
LEMMA PreparationFailsStep ==
    ASSUME FilesInv, PreparationFails
    PROVE  FilesInv'
<1>1. /\ ~AllPrepared /\ Kept /\ StageInv
      /\ UNCHANGED <<torn, preparing, counted, fetched>> /\ stage' = "failed"
  BY DEF PreparationFails, FilesInv, GoTo
<1>2. PICK f \in Interrupted(file[preparing]) : file' = [file EXCEPT ![preparing] = f]
  BY DEF PreparationFails
<1>3. IsFile(f) /\ (TrueTable(f) \/ f.table = file[preparing].table)
  BY <1>1, <1>2, InterruptedFile
<1>4. Kept'
  BY <1>1, <1>2, <1>3, SameSetStep
<1>5. StageInv'
  BY <1>1 DEF StageInv, Stages
<1>6. QED BY <1>1, <1>4, <1>5, StaysAtSet

\* The next benchmark starts from the files it finds.
LEMMA AgainStep ==
    ASSUME FilesInv, Killed \/ StartAgain
    PROVE  FilesInv'
<1>1. /\ ~AllPrepared /\ Kept /\ FileTypes
      /\ preparing' = 1 /\ stage' = "look" /\ fetched' = {} /\ counted' = {}
  BY DEF Killed, StartAgain, At, Again, FilesInv, Kept
<1>2. preparing \in DOMAIN file /\ preparing \in DOMAIN DocumentSets /\ IsFile(file[preparing])
  BY <1>1, CurrentSet DEF FileTypes
<1>3. CASE StartAgain
  <2>1. UNCHANGED <<file, torn>>
    BY <1>3 DEF StartAgain
  <2>2. preparing \notin torn' => TrueTable(file[preparing])
    BY <1>1, <1>2, <2>1 DEF Kept, TablesTrue
  <2>3. Kept'
    BY <1>1, <1>2, <2>1, <2>2, SetChanged
  <2>4. QED BY <1>1, <2>3, StartsLooking
<1>4. CASE Killed
  <2>1. PICK f \in Interrupted(file[preparing]) :
           \/ file' = [file EXCEPT ![preparing] = f] /\ UNCHANGED torn
           \/ /\ file' = [file EXCEPT ![preparing] = Tear(f)]
              /\ torn' = torn \union {preparing}
    BY <1>4 DEF Killed
  <2>2. IsFile(f) /\ (TrueTable(f) \/ f.table = file[preparing].table)
    BY <1>1, <2>1, InterruptedFile
  <2>3. CASE file' = [file EXCEPT ![preparing] = f] /\ UNCHANGED torn
    <3>1. preparing \notin torn' => TrueTable(f)
      BY <1>1, <1>2, <2>2, <2>3 DEF Kept, TablesTrue, TrueTable
    <3>2. /\ DOMAIN file' = DOMAIN file /\ file'[preparing] = f
          /\ \A s \in DOMAIN file : s # preparing => file'[s] = file[s]
      BY <1>1, <2>3, OneSetStep
    <3>3. Kept'
      BY <1>1, <2>2, <2>3, <3>1, <3>2, SetChanged
    <3>4. QED BY <1>1, <3>3, StartsLooking
  <2>4. CASE /\ file' = [file EXCEPT ![preparing] = Tear(f)]
             /\ torn' = torn \union {preparing}
    <3>1. PICK t : Tear(f) = [f EXCEPT !.table = t]
      BY DEF Tear
    <3>2. PICK g : g = Tear(f)
      OBVIOUS
    <3>3. IsFile(g)
      <4>1. IsFile([f EXCEPT !.table = t])
        BY <2>2, RecordOfTable
      <4>2. QED BY <3>1, <3>2, <4>1
    <3>4. /\ DOMAIN file' = DOMAIN file /\ file'[preparing] = g
          /\ \A s \in DOMAIN file : s # preparing => file'[s] = file[s]
      BY <1>1, <2>4, <3>2, OneSetStep
    <3>5. Kept'
      BY <1>1, <2>4, <3>3, <3>4, SetChanged
    <3>6. QED BY <1>1, <3>5, StartsLooking
  <2>5. QED BY <2>1, <2>3, <2>4
<1>5. QED BY <1>3, <1>4

\* The files of the other modules' steps.
LEMMA FilesInvStep ==
    ASSUME FilesInv, [IngestionNext]_all
    PROVE  FilesInv'
<1>1. CASE UNCHANGED files
  <2>1. Kept'
    BY <1>1, SameFilesStep DEF FilesInv, files
  <2>2. QED BY <1>1, <2>1 DEF FilesInv, files, AllPrepared, StageInv, Expected, Target, Current
<1>2. CASE Prepare
  BY <1>2, LookStep, DownloadStep, ConcatenateStep, ExtractStep, TableStep,
     PreparationFailsStep, AgainStep DEF Prepare
<1>3. QED BY <1>1, <1>2 DEF IngestionNext, PrepareFiles, Allocate, StartAssign, Assign,
                            ChooseBulkTask, StartColumn, Read, all

\* The first benchmark finds no files, or bundled ones.
LEMMA FilesInvInit ==
    ASSUME IngestionInit
    PROVE  FilesInv
<1>1. FilesInit
  BY DEF IngestionInit
<1>2. Len(DocumentSets) \in Nat
  <2>1. PICK Q : DocumentSets \in Seq(Q)
    BY FilesAssumption
  <2>2. QED BY <2>1
<1>3. DOMAIN file = DOMAIN DocumentSets
  BY <1>1 DEF FilesInit
<1>4. ASSUME NEW s \in DOMAIN DocumentSets PROVE IsFile(file[s]) /\ TrueTable(file[s])
  <2>1. NumberOfLines(s) \in Nat
    BY SetFacts
  <2>2. \E d, a \in Int : file[s] = Files(d, a)
    <3>1. Absent \in Int /\ NumberOfLines(s) \in Int
      BY <2>1 DEF Absent
    <3>2. \/ file[s] = Files(Absent, Absent) \/ file[s] = Files(Absent, NumberOfLines(s))
          \/ file[s] = Files(NumberOfLines(s), Absent)
      BY <1>1 DEF FilesInit
    <3>3. QED BY <3>1, <3>2
  <2>3. QED BY <2>2 DEF Files, IsFile, TrueTable, NoTable
<1>5. preparing = 1 /\ counted = {} /\ stage = "look" /\ fetched = {}
  BY <1>1 DEF FilesInit
<1>6. Kept
  BY <1>2, <1>3, <1>4, <1>5 DEF Kept, FileTypes, TablesTrue, Behind
<1>7. QED BY <1>5, <1>6 DEF FilesInv, StageInv, Stages

\* A set counts as prepared only with its complete document file and an offset table that
\* leads to the lines it names, whatever failed, was killed or was left by earlier
\* benchmarks, for any document sets; and each set is downloaded and decompressed at most
\* once (prepare_document_set, prepare_bundled_document_set, prepare_file_offset_table).
THEOREM FilesComplete == IngestionSpec => []PreparedIsComplete
<1>1. IngestionInit => FilesInv
  BY FilesInvInit
<1>2. FilesInv /\ [IngestionNext]_all => FilesInv'
  BY FilesInvStep
<1>3. FilesInv => PreparedIsComplete
  <2>1. SUFFICES ASSUME FilesInv PROVE PreparedIsComplete
    OBVIOUS
  <2>2. fetched \in {{}, Downloaded, Extracted, DownloadedAndExtracted}
    BY <2>1 DEF FilesInv, StageInv
  <2>3. Cardinality(fetched) <= 2
    BY <2>2, FetchedAtMostTwo
  <2>4. ASSUME NEW s \in 1..(preparing - 1)
        PROVE  /\ Verified(s) => file[s].doc = NumberOfLines(s)
               /\ s \notin torn => HasTable(file[s]) /\ \A e \in file[s].table : e[1] = e[2]
    <3>1. s \in DOMAIN DocumentSets
      <4>1. PICK Q : DocumentSets \in Seq(Q)
        BY FilesAssumption
      <4>2. QED BY <2>1, <4>1 DEF FilesInv, Kept, FileTypes
    <3>2. QED BY <2>1, <3>1 DEF FilesInv, Kept, Behind, TablesTrue, TrueTable
  <2>5. QED BY <2>3, <2>4 DEF PreparedIsComplete
<1>4. QED BY <1>1, <1>2, <1>3, PTL DEF IngestionSpec

-----------------------------------------------------------------------------
(* The assignment of clients to workers.                                     *)

\* The schedule is one the loader can build, all the way to the matrix.
ScheduleInv == WellFormedSchedule(schedule)

\* Nothing is assigned before the matrix is there.
BeforeAssignment ==
    pc # "assign" =>
        client_count = 0 /\ remaining_clients = 0 /\ client_idx = 0 /\ assignments = <<>>

\* The clients below idx are dealt out, each to one worker.
Covered(a, idx) ==
    \A x \in 0..(idx - 1) : \E h \in DOMAIN a : \E j \in DOMAIN a[h] : x \in a[h][j]

Inside(a, idx) == \A h \in DOMAIN a : \A j \in DOMAIN a[h] : a[h][j] \subseteq 0..(idx - 1)

Apart(a) ==
    \A g, h \in DOMAIN a : \A i \in DOMAIN a[g], j \in DOMAIN a[h] :
        a[g][i] \intersect a[h][j] # {} => g = h /\ i = j

Even(a) ==
    \A h \in DOMAIN a : \A i, j \in DOMAIN a[h] :
        Cardinality(a[h][i]) <= Cardinality(a[h][j]) + 1

\* Who runs on one worker is next to each other.
Intervals(a) ==
    \A h \in DOMAIN a : \A j \in DOMAIN a[h] : \E low, high \in Int : a[h][j] = low..high

Dealt(a, idx) == Covered(a, idx) /\ Inside(a, idx) /\ Apart(a) /\ Even(a) /\ Intervals(a)

\* The hosts that are left can take the clients that are left.
AssignInv ==
    /\ cores \in HostConfigs
    /\ client_count \in Nat /\ remaining_clients \in Nat /\ client_idx \in Nat
    /\ client_count = client_idx + remaining_clients
    /\ assignments \in Seq(Seq(SUBSET Nat)) /\ Len(assignments) <= HostCount
    /\ remaining_clients <= (HostCount - Len(assignments)) * ClientsPerHost
    /\ Dealt(assignments, client_idx)

RowsInv == ScheduleInv /\ BeforeAssignment /\ AssignInv

\* The clients that are dealt to worker j, and how many they are when n is
\* a * w + b.
Turns(n, w, j) == {c \in 0..(n - 1) : c % w = j - 1}
Share(j, a, b) == IF j - 1 < b THEN a + 1 ELSE a

DealtOut(n, w, a, b) ==
    /\ n = a * w + b
    /\ \A j \in 1..w : IsFiniteSet(Turns(n, w, j)) /\ Cardinality(Turns(n, w, j)) = Share(j, a, b)

\* Whose turn it is.
LEMMA Remainder ==
    ASSUME NEW m \in Nat, NEW w \in Nat \ {0}, NEW a \in Nat, NEW b \in 0..(w - 1),
           m = a * w + b
    PROVE  m % w = b
<1>1. PICK q \in Nat : q = a * w
  OBVIOUS
<1>2. m \div w = a
  <2>1. a * w <= m /\ m < a * w + w
    BY <1>1
  <2>2. QED BY <2>1, QuotientBounds
<1>3. PICK d, r : d = m \div w /\ r = m % w
  OBVIOUS
<1>4. r \in 0..(w - 1) /\ m = w * d + r
  BY <1>3
<1>5. w * d = q
  BY <1>1, <1>2, <1>3
<1>6. QED BY <1>1, <1>3, <1>4, <1>5

\* One more client.
LEMMA DealOneMore ==
    ASSUME NEW m \in Nat, NEW w \in Nat \ {0}, NEW a \in Nat, NEW b \in 0..(w - 1),
           DealtOut(m, w, a, b)
    PROVE  \E c \in Nat, d \in 0..(w - 1) : DealtOut(m + 1, w, c, d)
<1>1. m = a * w + b /\ m % w = b
  BY Remainder DEF DealtOut
<1>2. ASSUME NEW j \in 1..w
      PROVE  /\ IsFiniteSet(Turns(m + 1, w, j))
             /\ Cardinality(Turns(m + 1, w, j)) = IF j - 1 <= b THEN a + 1 ELSE a
  <2>1. PICK S : S = Turns(m, w, j) /\ IsFiniteSet(S) /\ Cardinality(S) = Share(j, a, b)
    BY DEF DealtOut
  <2>2. 0..((m + 1) - 1) = 0..(m - 1) \cup {m} /\ m \notin 0..(m - 1)
    OBVIOUS
  <2>3. m \notin S
    BY <2>1, <2>2 DEF Turns
  <2>4. CASE j - 1 = b
    <3>1. Turns(m + 1, w, j) = S \cup {m}
      BY <1>1, <2>1, <2>2, <2>4 DEF Turns
    <3>2. IsFiniteSet(S \cup {m}) /\ Cardinality(S \cup {m}) = Cardinality(S) + 1
      BY <2>1, <2>3, FS_AddElement
    <3>3. Cardinality(S) = a
      BY <2>1, <2>4 DEF Share
    <3>4. QED BY <2>4, <3>1, <3>2, <3>3
  <2>5. CASE j - 1 # b
    <3>1. Turns(m + 1, w, j) = S
      BY <1>1, <2>1, <2>2, <2>5 DEF Turns
    <3>2. Cardinality(S) = IF j - 1 <= b THEN a + 1 ELSE a
      BY <2>1, <2>5 DEF Share
    <3>3. QED BY <2>1, <3>1, <3>2
  <2>6. QED BY <2>4, <2>5
<1>3. CASE b + 1 < w
  <2>1. b + 1 \in 0..(w - 1) /\ m + 1 = a * w + (b + 1)
    <3>1. PICK q \in Nat : q = a * w
      OBVIOUS
    <3>2. QED BY <1>1, <1>3, <3>1
  <2>2. \A j \in 1..w : Share(j, a, b + 1) = IF j - 1 <= b THEN a + 1 ELSE a
    BY DEF Share
  <2>3. DealtOut(m + 1, w, a, b + 1)
    BY <1>2, <2>1, <2>2 DEF DealtOut
  <2>4. QED BY <2>1, <2>3
<1>4. CASE ~(b + 1 < w)
  <2>1. b + 1 = w /\ 0 \in 0..(w - 1)
    BY <1>4
  <2>2. m + 1 = (a + 1) * w + 0
    <3>1. PICK q \in Nat : q = a * w
      OBVIOUS
    <3>2. (a + 1) * w = q + w
      BY <3>1
    <3>3. QED BY <1>1, <2>1, <3>1, <3>2
  <2>3. \A j \in 1..w : /\ Share(j, a + 1, 0) = a + 1
                        /\ a + 1 = IF j - 1 <= b THEN a + 1 ELSE a
    BY <2>1 DEF Share
  <2>4. DealtOut(m + 1, w, a + 1, 0)
    BY <1>2, <2>2, <2>3 DEF DealtOut
  <2>5. a + 1 \in Nat
    OBVIOUS
  <2>6. QED BY <2>1, <2>4, <2>5
<1>5. QED BY <1>3, <1>4

\* Every number of clients is dealt out evenly.
LEMMA EvenlyDealt ==
    ASSUME NEW n \in Nat, NEW w \in Nat \ {0}
    PROVE  \E a \in Nat, b \in 0..(w - 1) : DealtOut(n, w, a, b)
<1>. DEFINE T == {m \in 0..n : \E a \in Nat, b \in 0..(w - 1) : DealtOut(m, w, a, b)}
<1>1. 0 \in T
  <2>1. \A j \in 1..w : Turns(0, w, j) = {} /\ Share(j, 0, 0) = 0
    BY DEF Turns, Share
  <2>2. 0 = 0 * w + 0 /\ 0 \in 0..(w - 1) /\ 0 \in 0..n
    OBVIOUS
  <2>3. DealtOut(0, w, 0, 0)
    BY <2>1, <2>2, FS_EmptySet DEF DealtOut
  <2>4. QED BY <2>2, <2>3
<1>2. ASSUME NEW m \in 0..(n - 1), m \in T PROVE m + 1 \in T
  <2>1. PICK a \in Nat, b \in 0..(w - 1) : DealtOut(m, w, a, b)
    BY <1>2
  <2>2. m \in Nat /\ m + 1 \in 0..n
    OBVIOUS
  <2>3. \E c \in Nat, d \in 0..(w - 1) : DealtOut(m + 1, w, c, d)
    BY <2>1, <2>2, DealOneMore
  <2>4. QED BY <2>2, <2>3
<1>3. \A m \in 0..n : m \in T
  <2>. HIDE DEF T
  <2>1. \A m \in 0..(n - 1) : m \in T => m + 1 \in T
    BY <1>2
  <2>2. QED BY <1>1, <2>1, UpTo
<1>4. n \in T
  BY <1>3
<1>5. QED BY <1>4

\* What is dealt to the workers of a host: counts and the sums of the first of
\* them, the last of which is n.
LEMMA CountsOfHost ==
    ASSUME NEW n \in Nat, NEW w \in Nat \ {0}
    PROVE  \E c, u : /\ c = ClientsPerWorker(n, w) /\ Len(c) = w
                     /\ Partial(u, c) /\ u[w] = n
                     /\ \A i, j \in 1..w : c[i] <= c[j] + 1
<1>1. PICK a \in Nat, b \in 0..(w - 1) : DealtOut(n, w, a, b)
  BY EvenlyDealt
<1>2. PICK c : c = ClientsPerWorker(n, w)
  OBVIOUS
<1>3. ASSUME NEW j \in 1..w PROVE c[j] = Share(j, a, b) /\ c[j] \in Nat
  <2>1. c[j] = Cardinality(Turns(n, w, j))
    BY <1>2 DEF ClientsPerWorker, Turns
  <2>2. QED BY <1>1, <2>1 DEF DealtOut, Share
<1>4. c \in Seq(Nat) /\ Len(c) = w /\ c = [j \in 1..w |-> c[j]]
  <2>1. c = [j \in 1..w |-> c[j]]
    BY <1>2 DEF ClientsPerWorker
  <2>2. QED BY <1>3, <2>1
<1>5. PICK u : Partial(u, c)
  BY <1>4, SumSteps
<1>6. u \in [0..w -> Nat] /\ u[0] = 0 /\ \A i \in 1..w : u[i] = u[i - 1] + c[i]
  BY <1>4, <1>5 DEF Partial
<1>. DEFINE T == {i \in 0..w : u[i] = i * a + (IF i < b THEN i ELSE b)}
<1>7. 0 \in T
  <2>1. 0 * a = 0
    OBVIOUS
  <2>2. QED BY <1>6, <2>1
<1>8. ASSUME NEW i \in 0..(w - 1), i \in T PROVE i + 1 \in T
  <2>1. i + 1 \in 1..w /\ (i + 1) - 1 = i /\ i + 1 \in 0..w
    OBVIOUS
  <2>2. PICK q \in Nat : q = i * a
    OBVIOUS
  <2>3. (i + 1) * a = q + a
    BY <2>2
  <2>4. u[i + 1] = u[i] + Share(i + 1, a, b)
    BY <1>3, <1>6, <2>1
  <2>5. u[i] = q + (IF i < b THEN i ELSE b)
    BY <1>8, <2>2
  <2>6. u[i + 1] = (q + a) + (IF i + 1 < b THEN i + 1 ELSE b)
    BY <2>1, <2>2, <2>4, <2>5 DEF Share
  <2>7. QED BY <2>1, <2>3, <2>6
<1>9. \A i \in 0..w : i \in T
  <2>. HIDE DEF T
  <2>1. \A i \in 0..(w - 1) : i \in T => i + 1 \in T
    BY <1>8
  <2>2. QED BY <1>7, <2>1, UpTo
<1>10. u[w] = n
  <2>1. w \in T
    BY <1>9
  <2>2. u[w] = w * a + b
    BY <2>1
  <2>3. w * a = a * w
    OBVIOUS
  <2>4. QED BY <1>1, <2>2, <2>3 DEF DealtOut
<1>11. \A i, j \in 1..w : c[i] <= c[j] + 1
  BY <1>3 DEF Share
<1>12. QED BY <1>2, <1>4, <1>5, <1>10, <1>11

\* Where each worker's clients begin.
LEMMA FirstOfWorker ==
    ASSUME NEW c, NEW u, Partial(u, c), Len(c) > 0, client_idx \in Nat
    PROVE  \A j \in 1..Len(c) : FirstClient(c)[j] = client_idx + u[j - 1]
<1>1. PICK n \in Nat : n = Len(c) /\ n > 0
  BY DEF Partial
<1>2. u \in [0..n -> Nat] /\ u[0] = 0 /\ \A i \in 1..n : u[i] = u[i - 1] + c[i]
  BY <1>1 DEF Partial
<1>3. \A i \in 1..n : c[i] \in Nat
  BY <1>1 DEF Partial
<1>4. PICK f : f = [j \in 1..n |-> client_idx + u[j - 1]]
  OBVIOUS
<1>5. f = [j \in 1..n |-> IF j = 1 THEN client_idx ELSE f[j - 1] + c[j - 1]]
  <2>1. ASSUME NEW j \in 1..n
        PROVE  client_idx + u[j - 1] = IF j = 1 THEN client_idx ELSE f[j - 1] + c[j - 1]
    <3>1. CASE j = 1
      BY <1>2, <3>1
    <3>2. CASE j # 1
      <4>1. j - 1 \in 1..n /\ (j - 1) - 1 \in 0..n
        BY <3>2
      <4>2. f[j - 1] = client_idx + u[(j - 1) - 1] /\ u[j - 1] = u[(j - 1) - 1] + c[j - 1]
        BY <1>2, <1>4, <4>1
      <4>3. u[(j - 1) - 1] \in Nat /\ c[j - 1] \in Nat
        BY <1>2, <1>3, <4>1
      <4>4. QED BY <3>2, <4>2, <4>3
    <3>3. QED BY <3>1, <3>2
  <2>2. QED BY <1>4, <2>1
<1>6. PICK g : /\ g = [j \in 1..n |-> IF j = 1 THEN client_idx ELSE g[j - 1] + c[j - 1]]
               /\ FirstClient(c) = g
  BY <1>1, <1>5 DEF FirstClient
<1>. DEFINE T == {i \in 0..n : i # 0 => g[i] = f[i]}
<1>7. 0 \in T
  OBVIOUS
<1>8. ASSUME NEW i \in 0..(n - 1), i \in T PROVE i + 1 \in T
  <2>1. i + 1 \in 1..n /\ (i + 1) - 1 = i /\ i + 1 \in 0..n
    OBVIOUS
  <2>2. CASE i = 0
    BY <1>5, <1>6, <2>1, <2>2
  <2>3. CASE i # 0
    <3>1. g[i + 1] = g[i] + c[i] /\ f[i + 1] = f[i] + c[i]
      BY <1>5, <1>6, <2>1, <2>3
    <3>2. QED BY <1>8, <2>1, <2>3, <3>1
  <2>4. QED BY <2>2, <2>3
<1>9. \A i \in 0..n : i \in T
  <2>. HIDE DEF T
  <2>1. \A i \in 0..(n - 1) : i \in T => i + 1 \in T
    BY <1>8
  <2>2. QED BY <1>7, <2>1, UpTo
<1>10. \A j \in 1..n : g[j] = f[j]
  BY <1>9
<1>11. QED BY <1>1, <1>4, <1>6, <1>10

\* The clients of the workers of a host, from idx on.
Ranges(r, u, c, idx) ==
    Partial(u, c) /\ r = [j \in 1..Len(c) |-> (idx + u[j - 1])..(idx + u[j] - 1)]

\* Sums grow.
LEMMA Ascending ==
    ASSUME NEW c, NEW u, Partial(u, c)
    PROVE  /\ Len(c) \in Nat /\ \A i \in 0..Len(c) : u[i] \in Nat
           /\ \A i, j \in 0..Len(c) : i <= j => u[i] <= u[j]
<1>1. PICK n \in Nat : n = Len(c)
  BY DEF Partial
<1>2. /\ u \in [0..n -> Nat] /\ \A i \in 1..n : u[i] = u[i - 1] + c[i]
      /\ \A i \in 1..n : c[i] \in Nat
  BY <1>1 DEF Partial
<1>. DEFINE T == {j \in 0..n : \A i \in 0..j : u[i] <= u[j]}
<1>3. 0 \in T
  <2>1. 0..0 = {0} /\ u[0] \in Nat /\ 0 \in 0..n
    BY <1>2
  <2>2. QED BY <2>1
<1>4. ASSUME NEW j \in 0..(n - 1), j \in T PROVE j + 1 \in T
  <2>1. j + 1 \in 1..n /\ (j + 1) - 1 = j /\ j + 1 \in 0..n /\ j \in 0..n
    OBVIOUS
  <2>2. u[j + 1] = u[j] + c[j + 1] /\ c[j + 1] \in Nat /\ u[j] \in Nat
    BY <1>2, <2>1
  <2>3. ASSUME NEW i \in 0..(j + 1) PROVE u[i] <= u[j + 1]
    <3>1. CASE i = j + 1
      BY <2>2, <3>1
    <3>2. CASE i # j + 1
      <4>1. i \in 0..j /\ i \in 0..n
        BY <3>2
      <4>2. u[i] <= u[j] /\ u[i] \in Nat
        BY <1>2, <1>4, <4>1
      <4>3. QED BY <2>2, <4>2
    <3>3. QED BY <3>1, <3>2
  <2>4. QED BY <2>1, <2>3
<1>5. \A j \in 0..n : j \in T
  <2>. HIDE DEF T
  <2>1. \A j \in 0..(n - 1) : j \in T => j + 1 \in T
    BY <1>4
  <2>2. QED BY <1>3, <2>1, UpTo
<1>6. ASSUME NEW i \in 0..n, NEW j \in 0..n, i <= j PROVE u[i] <= u[j]
  BY <1>5, <1>6
<1>7. QED BY <1>1, <1>2, <1>6

\* What a worker's range is.
LEMMA RangeOfWorker ==
    ASSUME NEW c, NEW u, NEW r, NEW idx \in Nat, Ranges(r, u, c, idx), NEW j \in 1..Len(c)
    PROVE  /\ j \in 0..Len(c) /\ j - 1 \in 0..Len(c) /\ u[j] \in Nat /\ u[j - 1] \in Nat
           /\ u[j] = u[j - 1] + c[j] /\ c[j] \in Nat
           /\ r[j] = (idx + u[j - 1])..(idx + u[j] - 1)
<1>1. Partial(u, c) /\ Len(c) \in Nat
  BY Ascending DEF Ranges
<1>2. j \in 0..Len(c) /\ j - 1 \in 0..Len(c)
  BY <1>1
<1>3. u[j] = u[j - 1] + c[j] /\ c[j] \in Nat
  BY <1>1 DEF Partial
<1>4. r[j] = (idx + u[j - 1])..(idx + u[j] - 1)
  BY DEF Ranges
<1>5. QED BY <1>1, <1>2, <1>3, <1>4, Ascending

\* The ranges are apart.
LEMMA RangesApart ==
    ASSUME NEW c, NEW u, NEW r, NEW idx \in Nat, Ranges(r, u, c, idx),
           NEW i \in 1..Len(c), NEW j \in 1..Len(c), r[i] \intersect r[j] # {}
    PROVE  i = j
<1>0. Partial(u, c) /\ Len(c) \in Nat
  BY Ascending DEF Ranges
<1>1. ASSUME NEW k \in 1..Len(c), NEW l \in 1..Len(c), k < l, NEW x, x \in r[k], x \in r[l]
      PROVE  FALSE
  <2>1. k \in 0..Len(c) /\ l - 1 \in 0..Len(c) /\ k <= l - 1
    BY <1>0, <1>1
  <2>2. u[k] <= u[l - 1] /\ u[k] \in Nat /\ u[l - 1] \in Nat
    BY <1>0, <2>1, Ascending
  <2>3. r[k] = (idx + u[k - 1])..(idx + u[k] - 1) /\ r[l] = (idx + u[l - 1])..(idx + u[l] - 1)
    BY RangeOfWorker
  <2>4. x \in Int /\ x <= idx + u[k] - 1 /\ x >= idx + u[l - 1]
    BY <1>1, <2>2, <2>3, RangeOfWorker
  <2>5. PICK p \in Nat, q \in Nat : p = u[k] /\ q = u[l - 1]
    BY <2>2
  <2>6. p <= q /\ x \in Int /\ x <= idx + p - 1 /\ x >= idx + q
    BY <2>2, <2>4, <2>5
  <2>7. QED BY ONLY idx \in Nat, p \in Nat, q \in Nat, <2>6
<1>2. PICK x : x \in r[i] /\ x \in r[j]
  OBVIOUS
<1>3. ~(i < j) /\ ~(j < i)
  BY <1>1, <1>2
<1>4. QED BY <1>0, <1>3

\* And together they are all from idx on.
LEMMA RangesTogether ==
    ASSUME NEW c, NEW u, NEW r, NEW idx \in Nat, Ranges(r, u, c, idx)
    PROVE  /\ \A j \in 1..Len(c) : r[j] \subseteq idx..(idx + u[Len(c)] - 1)
           /\ \A x \in idx..(idx + u[Len(c)] - 1) : \E j \in 1..Len(c) : x \in r[j]
           /\ \A j \in 1..Len(c) : Cardinality(r[j]) = c[j]
<1>0. PICK n \in Nat : n = Len(c) /\ Partial(u, c) /\ u[0] = 0 /\ u[n] \in Nat
  <2>1. Partial(u, c) /\ Len(c) \in Nat
    BY Ascending DEF Ranges
  <2>2. Len(c) \in 0..Len(c)
    BY <2>1
  <2>3. u[Len(c)] \in Nat
    BY <2>1, <2>2, Ascending
  <2>4. QED BY <2>1, <2>3 DEF Partial
<1>1. ASSUME NEW j \in 1..n PROVE r[j] \subseteq idx..(idx + u[n] - 1)
  <2>1. j \in 0..Len(c) /\ n \in 0..Len(c) /\ j <= n
    BY <1>0
  <2>2. u[j] <= u[n]
    BY <1>0, <2>1, Ascending
  <2>3. r[j] = (idx + u[j - 1])..(idx + u[j] - 1) /\ u[j] \in Nat /\ u[j - 1] \in Nat
    BY <1>0, RangeOfWorker
  <2>4. PICK p \in Nat, q \in Nat, m \in Nat : p = u[j - 1] /\ q = u[j] /\ m = u[n]
    BY <1>0, <2>3
  <2>5. (idx + p)..(idx + q - 1) \subseteq idx..(idx + m - 1)
    BY <2>2, <2>4
  <2>6. QED BY <2>3, <2>4, <2>5
<1>. DEFINE T == {k \in 0..n : \A x \in idx..(idx + u[k] - 1) : \E j \in 1..n : x \in r[j]}
<1>2. 0 \in T
  <2>1. idx..(idx + u[0] - 1) = {}
    BY <1>0
  <2>2. QED BY <1>0, <2>1
<1>3. ASSUME NEW k \in 0..(n - 1), k \in T PROVE k + 1 \in T
  <2>1. k + 1 \in 1..n /\ (k + 1) - 1 = k /\ k + 1 \in 0..n
    BY <1>0
  <2>2. /\ u[k] \in Nat /\ u[k + 1] \in Nat
        /\ r[k + 1] = (idx + u[k])..(idx + u[k + 1] - 1)
    BY <1>0, <2>1, RangeOfWorker
  <2>3. ASSUME NEW x \in idx..(idx + u[k + 1] - 1) PROVE \E j \in 1..n : x \in r[j]
    <3>1. CASE x < idx + u[k]
      <4>1. x \in idx..(idx + u[k] - 1)
        BY <2>2, <3>1
      <4>2. QED BY <1>3, <4>1
    <3>2. CASE ~(x < idx + u[k])
      <4>1. x \in r[k + 1]
        BY <2>2, <3>2
      <4>2. QED BY <2>1, <4>1
    <3>3. QED BY <3>1, <3>2
  <2>4. QED BY <2>1, <2>3
<1>4. \A k \in 0..n : k \in T
  <2>. HIDE DEF T
  <2>1. \A k \in 0..(n - 1) : k \in T => k + 1 \in T
    BY <1>3
  <2>2. QED BY <1>0, <1>2, <2>1, UpTo
<1>5. \A x \in idx..(idx + u[n] - 1) : \E j \in 1..n : x \in r[j]
  BY <1>0, <1>4
<1>6. ASSUME NEW j \in 1..n PROVE Cardinality(r[j]) = c[j]
  <2>1. PICK a \in Nat, b \in Nat : a = u[j - 1] /\ b = c[j]
    BY <1>0, RangeOfWorker
  <2>2. u[j] = a + b /\ r[j] = (idx + a)..(idx + (a + b) - 1)
    BY <1>0, <2>1, RangeOfWorker
  <2>3. Cardinality((idx + a)..(idx + (a + b) - 1)) = b
    BY FS_Interval
  <2>4. QED BY <2>1, <2>2, <2>3
<1>7. QED BY <1>0, <1>1, <1>5, <1>6

\* One host more, with the clients from idx on.
LEMMA HostDealt ==
    ASSUME NEW a, NEW idx \in Nat, a \in Seq(Seq(SUBSET Nat)), Dealt(a, idx),
           NEW c, NEW u, NEW r, Ranges(r, u, c, idx), \A i, j \in 1..Len(c) : c[i] <= c[j] + 1
    PROVE  /\ Append(a, r) \in Seq(Seq(SUBSET Nat)) /\ Len(Append(a, r)) = Len(a) + 1
           /\ Dealt(Append(a, r), idx + u[Len(c)])
<1>1. PICK n \in Nat, w \in Nat, m \in Nat :
          n = Len(a) /\ w = Len(c) /\ m = u[w]
  <2>1. Partial(u, c)
    BY DEF Ranges
  <2>2. Len(c) \in Nat /\ u[Len(c)] \in Nat /\ Len(a) \in Nat
    BY <2>1, Ascending
  <2>3. QED BY <2>2
<1>2. /\ \A j \in 1..w : r[j] \subseteq idx..(idx + m - 1)
      /\ \A x \in idx..(idx + m - 1) : \E j \in 1..w : x \in r[j]
      /\ \A j \in 1..w : Cardinality(r[j]) = c[j]
  BY <1>1, RangesTogether
<1>3. r = [j \in 1..w |-> r[j]] /\ DOMAIN r = 1..w /\ r \in Seq(SUBSET Nat)
  <2>1. r = [j \in 1..w |-> r[j]] /\ DOMAIN r = 1..w
    BY <1>1 DEF Ranges
  <2>2. \A j \in 1..w : r[j] \in SUBSET Nat
    BY <1>2
  <2>3. QED BY <2>1, <2>2
<1>4. PICK b : b = Append(a, r)
  OBVIOUS
<1>5. /\ b \in Seq(Seq(SUBSET Nat)) /\ Len(b) = n + 1 /\ DOMAIN b = 1..(n + 1)
      /\ DOMAIN a = 1..n /\ b[n + 1] = r /\ \A h \in 1..n : b[h] = a[h]
  <2>1. PICK S : S = Seq(SUBSET Nat)
    OBVIOUS
  <2>2. a \in Seq(S) /\ r \in S
    BY <1>3, <2>1
  <2>3. /\ b \in Seq(S) /\ Len(b) = n + 1 /\ DOMAIN b = 1..(n + 1)
        /\ DOMAIN a = 1..n /\ b[n + 1] = r /\ \A h \in 1..n : b[h] = a[h]
    BY <1>1, <1>4, <2>2
  <2>4. QED BY <2>1, <2>3
<1>6. \A h \in 1..(n + 1) : h = n + 1 \/ h \in 1..n
  OBVIOUS
<1>7. Inside(b, idx + m)
  <2>1. ASSUME NEW h \in 1..n, NEW j \in DOMAIN a[h] PROVE a[h][j] \subseteq 0..((idx + m) - 1)
    <3>1. a[h][j] \subseteq 0..(idx - 1)
      BY <1>5 DEF Dealt, Inside
    <3>2. QED BY <3>1
  <2>2. \A j \in 1..w : r[j] \subseteq 0..((idx + m) - 1)
    BY <1>2
  <2>3. QED BY <1>3, <1>5, <1>6, <2>1, <2>2 DEF Inside
<1>8. Covered(b, idx + m)
  <2>1. ASSUME NEW x \in 0..((idx + m) - 1)
        PROVE  \E h \in DOMAIN b : \E j \in DOMAIN b[h] : x \in b[h][j]
    <3>1. CASE x < idx
      <4>1. x \in 0..(idx - 1)
        BY <3>1
      <4>2. PICK h \in 1..n : \E j \in DOMAIN a[h] : x \in a[h][j]
        BY <1>5, <4>1 DEF Dealt, Covered
      <4>3. h \in DOMAIN b /\ b[h] = a[h]
        BY <1>5
      <4>4. QED BY <4>2, <4>3
    <3>2. CASE ~(x < idx)
      <4>1. x \in idx..(idx + m - 1)
        BY <3>2
      <4>2. PICK j \in 1..w : x \in r[j]
        BY <1>2, <4>1
      <4>3. n + 1 \in DOMAIN b /\ b[n + 1] = r
        BY <1>5
      <4>4. QED BY <1>3, <4>2, <4>3
    <3>3. QED BY <3>1, <3>2
  <2>2. QED BY <2>1 DEF Covered
<1>9. Apart(b)
  <2>0. ASSUME NEW h \in 1..n, NEW i \in DOMAIN a[h], NEW j \in 1..w
        PROVE  a[h][i] \intersect r[j] = {}
    <3>1. a[h][i] \subseteq 0..(idx - 1) /\ r[j] \subseteq idx..(idx + m - 1)
      BY <1>2, <1>5 DEF Dealt, Inside
    <3>2. (0..(idx - 1)) \intersect (idx..(idx + m - 1)) = {}
      OBVIOUS
    <3>3. QED BY <3>1, <3>2
  <2>1. ASSUME NEW g \in DOMAIN b, NEW h \in DOMAIN b, NEW i \in DOMAIN b[g],
               NEW j \in DOMAIN b[h], b[g][i] \intersect b[h][j] # {}
        PROVE  g = h /\ i = j
    <3>1. CASE g = n + 1 /\ h = n + 1
      <4>1. i \in 1..Len(c) /\ j \in 1..Len(c) /\ r[i] \intersect r[j] # {}
        BY <1>1, <1>3, <1>5, <2>1, <3>1
      <4>2. QED BY <3>1, <4>1, RangesApart
    <3>2. CASE g = n + 1 /\ h \in 1..n
      BY <1>3, <1>5, <2>0, <2>1, <3>2
    <3>3. CASE g \in 1..n /\ h = n + 1
      BY <1>3, <1>5, <2>0, <2>1, <3>3
    <3>4. CASE g \in 1..n /\ h \in 1..n
      BY <1>5, <2>1, <3>4 DEF Dealt, Apart
    <3>5. QED BY <1>5, <1>6, <3>1, <3>2, <3>3, <3>4
  <2>2. QED BY <2>1 DEF Apart
<1>10. Even(b)
  <2>1. ASSUME NEW h \in DOMAIN b, NEW i \in DOMAIN b[h], NEW j \in DOMAIN b[h]
        PROVE  Cardinality(b[h][i]) <= Cardinality(b[h][j]) + 1
    <3>1. CASE h = n + 1
      BY <1>1, <1>2, <1>3, <1>5, <3>1
    <3>2. CASE h \in 1..n
      BY <1>5, <3>2 DEF Dealt, Even
    <3>3. QED BY <1>5, <1>6, <3>1, <3>2
  <2>2. QED BY <2>1 DEF Even
<1>11. Intervals(b)
  <2>1. ASSUME NEW j \in 1..w PROVE \E low, high \in Int : r[j] = low..high
    <3>1. PICK p \in Nat, q \in Nat : p = u[j - 1] /\ q = u[j] /\ r[j] = (idx + p)..(idx + q - 1)
      <4>1. j \in 1..Len(c)
        BY <1>1
      <4>2. u[j] \in Nat /\ u[j - 1] \in Nat /\ r[j] = (idx + u[j - 1])..(idx + u[j] - 1)
        BY <4>1, RangeOfWorker
      <4>3. QED BY <4>2
    <3>2. idx + p \in Int /\ idx + q - 1 \in Int
      OBVIOUS
    <3>3. QED BY <3>1, <3>2
  <2>2. ASSUME NEW h \in DOMAIN b, NEW j \in DOMAIN b[h]
        PROVE  \E low, high \in Int : b[h][j] = low..high
    <3>1. CASE h = n + 1
      BY <1>3, <1>5, <2>1, <3>1
    <3>2. CASE h \in 1..n
      BY <1>5, <3>2 DEF Dealt, Intervals
    <3>3. QED BY <1>5, <1>6, <3>1, <3>2
  <2>3. QED BY <2>2 DEF Intervals
<1>12. Dealt(b, idx + m)
  BY <1>7, <1>8, <1>9, <1>10, <1>11 DEF Dealt
<1>13. QED BY <1>1, <1>4, <1>5, <1>12

\* The step of the host loop.
LEMMA AssignHostStep ==
    ASSUME AssignInv, client_count > 0, AssignHost
    PROVE  AssignInv'
<1>1. PICK n \in Nat, rem \in Nat, idx \in Nat, k \in Nat, H \in Nat \ {0}, w \in Nat \ {0} :
          /\ n = client_count /\ rem = remaining_clients /\ idx = client_idx
          /\ k = Len(assignments) /\ H = HostCount /\ w = cores[k + 1] /\ k < H
          /\ n = idx + rem
  <2>1. cores \in Seq(Nat \ {0}) /\ Len(cores) > 0
    BY HostAssumption DEF AssignInv
  <2>2. Len(assignments) \in Nat /\ Len(assignments) < Len(cores) /\ Len(cores) \in Nat
    <3>1. PICK S : S = Seq(SUBSET Nat)
      OBVIOUS
    <3>2. assignments \in Seq(S) /\ Len(assignments) < Len(cores)
      BY <3>1 DEF AssignInv, AssignHost, HostCount
    <3>3. QED BY <2>1, <3>2
  <2>3. cores[Len(assignments) + 1] \in Nat \ {0}
    BY <2>1, <2>2
  <2>4. /\ client_count \in Nat /\ remaining_clients \in Nat /\ client_idx \in Nat
        /\ client_count = client_idx + remaining_clients /\ HostCount = Len(cores)
        /\ HostCount \in Nat \ {0}
    BY <2>1, <2>2 DEF AssignInv, HostCount
  <2>5. QED BY ONLY <2>2, <2>3, <2>4
<1>2. PICK q \in Nat : q = ClientsPerHost
  <2>1. (n + H - 1) \div H \in Nat
    OBVIOUS
  <2>2. QED BY <1>1, <2>1 DEF ClientsPerHost
<1>3. PICK m \in Nat : m = ClientsOnThisHost /\ m = (IF q < rem THEN q ELSE rem)
  BY <1>1, <1>2 DEF ClientsOnThisHost
<1>4. PICK c, u : /\ c = ClientsPerWorker(m, w) /\ Len(c) = w
                  /\ Partial(u, c) /\ u[w] = m
                  /\ \A i, j \in 1..w : c[i] <= c[j] + 1
  BY CountsOfHost
<1>5. PICK first : first = FirstClient(c) /\ \A j \in 1..w : first[j] = idx + u[j - 1]
  BY <1>1, <1>4, FirstOfWorker
<1>6. /\ assignments' = Append(assignments,
             [j \in DOMAIN c |-> first[j]..(first[j] + c[j] - 1)])
      /\ client_idx' = first[w] + c[w]
      /\ remaining_clients' = rem - m
      /\ UNCHANGED <<cores, client_count>>
  BY <1>1, <1>3, <1>4, <1>5 DEF AssignHost
<1>7. DOMAIN c = 1..w /\ u \in [0..w -> Nat] /\ \A j \in 1..w : u[j] = u[j - 1] + c[j] /\ c[j] \in Nat
  <2>1. /\ c \in Seq(Nat) /\ Len(c) = w /\ u \in [0..Len(c) -> Nat]
        /\ \A j \in 1..Len(c) : u[j] = u[j - 1] + c[j]
    BY <1>4 DEF Partial
  <2>2. DOMAIN c = 1..w /\ \A j \in 1..w : c[j] \in Nat
    <3>1. c \in Seq(Nat) /\ Len(c) = w
      BY <2>1
    <3>2. DOMAIN c = 1..Len(c) /\ \A j \in 1..Len(c) : c[j] \in Nat
      BY ONLY <3>1
    <3>3. QED BY ONLY <3>1, <3>2
  <2>3. QED BY ONLY <2>1, <2>2
<1>8. PICK r : r = [j \in 1..w |-> (idx + u[j - 1])..(idx + u[j] - 1)]
  OBVIOUS
<1>9. [j \in DOMAIN c |-> first[j]..(first[j] + c[j] - 1)] = r
  <2>1. ASSUME NEW j \in 1..w
        PROVE  first[j]..(first[j] + c[j] - 1) = (idx + u[j - 1])..(idx + u[j] - 1)
    <3>1. PICK p \in Nat, s \in Nat : p = u[j - 1] /\ s = c[j]
      <4>1. j - 1 \in 0..w
        OBVIOUS
      <4>2. QED BY <1>7, <4>1
    <3>2. u[j] = p + s /\ first[j] = idx + p
      BY <1>5, <1>7, <3>1
    <3>3. (idx + p) + s - 1 = idx + (p + s) - 1
      OBVIOUS
    <3>4. QED BY <3>1, <3>2, <3>3
  <2>2. QED BY <1>7, <1>8, <2>1
<1>10. client_idx' = idx + m
  <2>1. w \in 1..w /\ w - 1 \in 0..w
    OBVIOUS
  <2>2. PICK p \in Nat, s \in Nat : p = u[w - 1] /\ s = c[w]
    BY <1>7, <2>1
  <2>3. u[w] = p + s /\ first[w] = idx + p
    BY <1>5, <1>7, <2>1, <2>2
  <2>4. p + s = m
    BY <1>4, <2>3
  <2>5. client_idx' = (idx + p) + s
    BY <1>6, <2>2, <2>3
  <2>6. QED BY ONLY idx \in Nat, p \in Nat, s \in Nat, <2>4, <2>5
<1>11. Ranges(r, u, c, idx)
  BY <1>4, <1>8 DEF Ranges
<1>12. /\ assignments' \in Seq(Seq(SUBSET Nat)) /\ Len(assignments') = k + 1
       /\ Dealt(assignments', idx + m)
  <2>1. assignments \in Seq(Seq(SUBSET Nat)) /\ Dealt(assignments, idx)
    BY <1>1 DEF AssignInv
  <2>2. PICK a : a = assignments /\ a \in Seq(Seq(SUBSET Nat)) /\ Dealt(a, idx)
    BY <2>1
  <2>3. \A i, j \in 1..Len(c) : c[i] <= c[j] + 1
    BY <1>4
  <2>4. /\ Append(a, r) \in Seq(Seq(SUBSET Nat)) /\ Len(Append(a, r)) = Len(a) + 1
        /\ Dealt(Append(a, r), idx + u[Len(c)])
    BY ONLY idx \in Nat, <1>11, <2>2, <2>3, HostDealt
  <2>5. assignments' = Append(a, r) /\ u[Len(c)] = m /\ k = Len(a)
    BY <1>1, <1>4, <1>6, <1>9, <2>2
  <2>6. QED BY ONLY <2>4, <2>5
<1>13. rem - m \in Nat /\ idx + m \in Nat /\ n = (idx + m) + (rem - m) /\ k + 1 <= H
  BY <1>1, <1>3
<1>14. rem - m <= (H - (k + 1)) * q
  <2>1. PICK t \in Nat : t = H - (k + 1)
    BY ONLY H \in Nat \ {0}, k \in Nat, <1>13
  <2>2. rem <= (t + 1) * q
    <3>1. H - k = t + 1
      BY <1>1, <2>1
    <3>2. QED BY <1>1, <1>2, <3>1 DEF AssignInv
  <2>3. PICK z \in Nat : z = t * q
    OBVIOUS
  <2>4. (t + 1) * q = z + q
    BY <2>3
  <2>5. rem - m <= z
    BY <1>3, <2>2, <2>4
  <2>6. QED BY <2>1, <2>3, <2>5
<1>15. HostCount' = H /\ ClientsPerHost' = q
  BY <1>1, <1>2, <1>6 DEF HostCount, ClientsPerHost
<1>16. cores' \in HostConfigs /\ client_count' = n
  BY <1>1, <1>6 DEF AssignInv
<1>17. QED BY <1>6, <1>10, <1>12, <1>13, <1>14, <1>15, <1>16 DEF AssignInv

\* The hosts can take all clients: their share is rounded up.
LEMMA StartAssignmentStep ==
    ASSUME AssignInv, client_idx = 0, assignments = <<>>, NEW n \in Nat, StartAssignment(n)
    PROVE  AssignInv'
<1>1. cores \in Seq(Nat \ {0}) /\ Len(cores) > 0
  BY HostAssumption DEF AssignInv
<1>2. PICK H \in Nat \ {0} : H = Len(cores)
  BY <1>1
<1>3. /\ HostCount' = H /\ ClientsPerHost' = (n + H - 1) \div H
      /\ client_count' = n /\ remaining_clients' = n /\ client_idx' = 0 /\ assignments' = <<>>
      /\ cores' \in HostConfigs
  BY <1>2 DEF StartAssignment, HostCount, ClientsPerHost, AssignInv
<1>4. n <= H * ((n + H - 1) \div H)
  <2>1. PICK a \in Nat : a = n + H - 1
    OBVIOUS
  <2>2. PICK d, e : d = a \div H /\ e = a % H
    OBVIOUS
  <2>3. d \in Int /\ e \in 0..(H - 1) /\ a = H * d + e
    BY <2>2
  <2>4. n <= H * d
    BY <2>1, <2>3
  <2>5. QED BY <2>1, <2>2, <2>4
<1>5. Len(assignments') = 0 /\ assignments' \in Seq(Seq(SUBSET Nat)) /\ DOMAIN assignments' = {}
  BY <1>3
<1>6. Dealt(assignments', 0)
  <2>1. 0..(0 - 1) = {}
    OBVIOUS
  <2>2. QED BY <1>5, <2>1 DEF Dealt, Covered, Inside, Apart, Even, Intervals
<1>7. n <= (H - 0) * ((n + H - 1) \div H)
  <2>1. H - 0 = H
    BY <1>2
  <2>2. QED BY <1>4, <2>1
<1>8. QED BY <1>3, <1>5, <1>6, <1>7 DEF AssignInv

\* What the loader puts into a schedule.
IsTask(t) == t \in [name : {t.name}, clients : Nat \ {0}, completes_parent : BOOLEAN]

IsElement(e) ==
    /\ e = [nested |-> e.nested, clients |-> e.clients, tasks |-> e.tasks]
    /\ e.nested \in BOOLEAN /\ e.clients \in Nat
    /\ IsSeq(e.tasks) /\ \A j \in DOMAIN e.tasks : IsTask(e.tasks[j])

LEMMA ScheduleParts ==
    ASSUME NEW s
    PROVE  WellFormedSchedule(s) <=> IsSeq(s) /\ \A i \in DOMAIN s : IsElement(s[i])
<1>1. ASSUME NEW e
      PROVE  /\ e \in [nested : BOOLEAN, clients : Nat, tasks : Seq(ToSet(e.tasks))]
                 => e = [nested |-> e.nested, clients |-> e.clients, tasks |-> e.tasks]
             /\ (e \in [nested : BOOLEAN, clients : Nat, tasks : Seq(ToSet(e.tasks))]
                 /\ \A j \in DOMAIN e.tasks :
                       LET t == e.tasks[j]
                       IN  t \in [name : {t.name}, clients : Nat \ {0},
                                  completes_parent : BOOLEAN])
                <=> IsElement(e)
  BY DEF IsElement, IsTask, IsSeq
<1>2. QED BY <1>1 DEF WellFormedSchedule, IsSeq

\* What a filter leaves of a sequence.
LEMMA RemainingEntries ==
    ASSUME NEW s, IsSeq(s), NEW kept
    PROVE  /\ IsSeq(Remaining(s, kept))
           /\ \A m \in DOMAIN Remaining(s, kept) :
                 \E i \in DOMAIN s : i \in kept /\ Remaining(s, kept)[m] = s[i]
<1>1. PICK q : q = [i \in DOMAIN s |-> IF i \in kept THEN <<s[i]>> ELSE <<>>]
  OBVIOUS
<1>2. DOMAIN q = DOMAIN s /\ q = [i \in DOMAIN s |-> q[i]]
  BY <1>1
<1>3. IsSeqOfSeqs(q)
  <2>1. IsSeq(q)
    BY <1>2, MappedSeq
  <2>2. \A i \in DOMAIN q : IsSeq(q[i])
    BY <1>1, ShortSeqs
  <2>3. QED BY <2>1, <2>2 DEF IsSeqOfSeqs
<1>4. PICK f : f = FlattenSeq(q) /\ IsSeq(f) /\ SameElements(f, q)
  BY <1>3, FlattenedElements
<1>5. f = Remaining(s, kept)
  BY <1>1, <1>4 DEF Remaining
<1>6. ASSUME NEW m \in DOMAIN f PROVE \E i \in DOMAIN s : i \in kept /\ f[m] = s[i]
  <2>1. PICK i \in DOMAIN q : \E j \in DOMAIN q[i] : f[m] = q[i][j]
    BY <1>4 DEF SameElements
  <2>2. PICK j \in DOMAIN q[i] : f[m] = q[i][j]
    BY <2>1
  <2>3. i \in DOMAIN s /\ q[i] = IF i \in kept THEN <<s[i]>> ELSE <<>>
    BY <1>1, <1>2, <2>1
  <2>4. q[i] = <<s[i]>> /\ j = 1 /\ i \in kept
    BY <2>2, <2>3, ShortSeqs
  <2>5. QED BY <2>2, <2>3, <2>4, ShortSeqs
<1>7. QED BY <1>4, <1>5, <1>6

\* An element with other sub-tasks.
LEMMA OtherTasks ==
    ASSUME NEW e, IsElement(e), NEW ts, IsSeq(ts), \A j \in DOMAIN ts : IsTask(ts[j])
    PROVE  IsElement([e EXCEPT !.tasks = ts])
<1>1. PICK a, b, c : e = [nested |-> a, clients |-> b, tasks |-> c] /\ a \in BOOLEAN /\ b \in Nat
  BY DEF IsElement
<1>2. PICK d : d = [e EXCEPT !.tasks = ts]
  OBVIOUS
<1>3. d = [nested |-> a, clients |-> b, tasks |-> ts]
  BY <1>1, <1>2
<1>4. d.nested = a /\ d.clients = b /\ d.tasks = ts
  BY <1>3
<1>5. QED BY <1>1, <1>2, <1>3, <1>4 DEF IsElement

\* The task filter keeps the schedule well-formed.
LEMMA FilteredWellFormed ==
    ASSUME NEW mode, NEW names, WellFormedSchedule(schedule)
    PROVE  WellFormedSchedule(FilteredSchedule(mode, names))
<1>1. IsSeq(schedule) /\ \A i \in DOMAIN schedule : IsElement(schedule[i])
  BY ScheduleParts
<1>2. PICK K : K = {i \in DOMAIN schedule : ~FilterOut(schedule[i], mode, names)}
  OBVIOUS
<1>3. PICK kept : /\ kept = Remaining(schedule, K) /\ IsSeq(kept)
                  /\ \A m \in DOMAIN kept : \E i \in DOMAIN schedule : kept[m] = schedule[i]
  BY <1>1, RemainingEntries
<1>4. PICK f : f = [i \in DOMAIN kept |-> Filtered(kept[i], mode, names)]
  OBVIOUS
<1>5. f = FilteredSchedule(mode, names)
  BY <1>2, <1>3, <1>4 DEF FilteredSchedule
<1>6. IsSeq(f)
  <2>1. DOMAIN f = DOMAIN kept /\ f = [i \in DOMAIN kept |-> f[i]]
    BY <1>4
  <2>2. QED BY <1>3, <2>1, MappedSeq
<1>7. ASSUME NEW m \in DOMAIN f PROVE IsElement(f[m])
  <2>1. PICK e : e = kept[m] /\ f[m] = Filtered(e, mode, names) /\ m \in DOMAIN kept
    BY <1>4
  <2>2. IsElement(e)
    BY <1>1, <1>3, <2>1
  <2>3. PICK L : L = {j \in DOMAIN e.tasks : ~FilterOutTask(e.tasks[j], mode, names)}
    OBVIOUS
  <2>4. PICK ts : /\ ts = Remaining(e.tasks, L) /\ IsSeq(ts)
                  /\ \A k \in DOMAIN ts : \E i \in DOMAIN e.tasks : ts[k] = e.tasks[i]
    BY <2>2, RemainingEntries DEF IsElement
  <2>5. f[m] = [e EXCEPT !.tasks = ts]
    BY <2>1, <2>2, <2>3, <2>4 DEF Filtered, IsElement
  <2>6. \A k \in DOMAIN ts : IsTask(ts[k])
    BY <2>2, <2>4 DEF IsElement
  <2>7. QED BY <2>2, <2>4, <2>5, <2>6, OtherTasks
<1>8. QED BY <1>5, <1>6, <1>7, ScheduleParts

\* The client override keeps it well-formed.
LEMMA OverrideWellFormed ==
    ASSUME WellFormedSchedule(schedule), NEW n \in Nat \ {0}
    PROVE  WellFormedSchedule([i \in DOMAIN schedule |->
               [schedule[i] EXCEPT !.tasks =
                  [j \in DOMAIN @ |-> [@[j] EXCEPT !.clients = n]]]])
<1>1. IsSeq(schedule) /\ \A i \in DOMAIN schedule : IsElement(schedule[i])
  BY ScheduleParts
<1>2. PICK f : f = [i \in DOMAIN schedule |->
                      [schedule[i] EXCEPT !.tasks =
                         [j \in DOMAIN @ |-> [@[j] EXCEPT !.clients = n]]]]
  OBVIOUS
<1>3. IsSeq(f)
  <2>1. DOMAIN f = DOMAIN schedule /\ f = [i \in DOMAIN schedule |-> f[i]]
    BY <1>2
  <2>2. QED BY <1>1, <2>1, MappedSeq
<1>4. ASSUME NEW i \in DOMAIN f PROVE IsElement(f[i])
  <2>1. PICK e : /\ e = schedule[i] /\ IsElement(e)
                 /\ f[i] = [e EXCEPT !.tasks = [j \in DOMAIN @ |-> [@[j] EXCEPT !.clients = n]]]
    BY <1>1, <1>2
  <2>2. PICK ts : ts = [j \in DOMAIN e.tasks |-> [e.tasks[j] EXCEPT !.clients = n]]
    OBVIOUS
  <2>3. f[i] = [e EXCEPT !.tasks = ts]
    BY <2>1, <2>2 DEF IsElement
  <2>4. IsSeq(ts)
    <3>1. DOMAIN ts = DOMAIN e.tasks /\ ts = [j \in DOMAIN e.tasks |-> ts[j]]
      BY <2>2
    <3>2. QED BY <2>1, <3>1, MappedSeq DEF IsElement
  <2>5. ASSUME NEW j \in DOMAIN ts PROVE IsTask(ts[j])
    <3>1. PICK t : t = e.tasks[j] /\ IsTask(t) /\ ts[j] = [t EXCEPT !.clients = n]
      BY <2>1, <2>2 DEF IsElement
    <3>2. PICK x, y, z : t = [name |-> x, clients |-> y, completes_parent |-> z] /\ z \in BOOLEAN
      BY <3>1 DEF IsTask
    <3>3. PICK v : v = ts[j] /\ v = [name |-> x, clients |-> n, completes_parent |-> z]
      BY <3>1, <3>2
    <3>4. IsTask(v)
      BY <3>2, <3>3 DEF IsTask
    <3>5. QED BY <3>3, <3>4
  <2>6. QED BY <2>1, <2>3, <2>4, <2>5, OtherTasks
<1>5. QED BY <1>2, <1>3, <1>4, ScheduleParts

\* The clients of an element.
LEMMA ElementClients ==
    ASSUME NEW e, IsElement(e)
    PROVE  ClientsOf(e) \in Nat
<1>1. PICK s : s = e.tasks /\ IsSeq(s) /\ \A j \in DOMAIN s : IsTask(s[j])
  BY DEF IsElement
<1>2. DOMAIN s = 1..Len(s) /\ Len(s) \in Nat
  BY <1>1 DEF IsSeq
<1>3. PICK c : c = [j \in DOMAIN s |-> s[j].clients]
  OBVIOUS
<1>4. \A j \in 1..Len(s) : c[j] \in Nat
  BY <1>1, <1>2, <1>3 DEF IsTask
<1>5. c \in Seq(Nat)
  BY <1>2, <1>3, <1>4
<1>6. SumOf(c) \in Nat
  BY <1>5, SumType
<1>7. QED BY <1>1, <1>3, <1>6 DEF ClientsOf, IsElement

\* The largest of a sequence of numbers and one.
LEMMA LargestOf ==
    ASSUME NEW n \in Nat, NEW f, \A i \in 1..n : f[i] \in Nat
    PROVE  \E m \in {1} \union {f[i] : i \in 1..n} :
               m \in Nat \ {0} /\ \A x \in {1} \union {f[i] : i \in 1..n} : x <= m
<1>. DEFINE All(k) == {1} \union {f[i] : i \in 1..k}
            T == {k \in 0..n : \E m \in All(k) : m \in Nat \ {0} /\ \A x \in All(k) : x <= m}
<1>1. 0 \in T
  <2>1. All(0) = {1} /\ 0 \in 0..n
    OBVIOUS
  <2>2. QED BY <2>1
<1>2. ASSUME NEW k \in 0..(n - 1), k \in T PROVE k + 1 \in T
  <2>1. PICK m \in All(k) : m \in Nat \ {0} /\ \A x \in All(k) : x <= m
    BY <1>2
  <2>2. 1..(k + 1) = (1..k) \union {k + 1} /\ k + 1 \in 0..n /\ k + 1 \in 1..n
    OBVIOUS
  <2>3. All(k + 1) = All(k) \union {f[k + 1]} /\ f[k + 1] \in Nat
    BY <2>2
  <2>. HIDE DEF All
  <2>4. CASE f[k + 1] > m
    <3>1. f[k + 1] \in All(k + 1) /\ f[k + 1] \in Nat \ {0}
      BY <2>1, <2>3, <2>4
    <3>2. \A x \in All(k) : x \in Nat
      BY <2>2, <2>3 DEF All
    <3>3. \A x \in All(k + 1) : x <= f[k + 1]
      BY <2>1, <2>3, <2>4, <3>2
    <3>4. QED BY <2>2, <3>1, <3>3
  <2>5. CASE ~(f[k + 1] > m)
    <3>1. \A x \in All(k + 1) : x <= m
      BY <2>1, <2>3, <2>5
    <3>2. QED BY <2>1, <2>2, <2>3, <3>1
  <2>6. QED BY <2>4, <2>5
<1>3. \A k \in 0..n : k \in T
  <2>. HIDE DEF T
  <2>1. \A k \in 0..(n - 1) : k \in T => k + 1 \in T
    BY <1>2
  <2>2. QED BY <1>1, <2>1, UpTo
<1>4. n \in T
  BY <1>3
<1>5. QED BY <1>4

\* The number of rows of the matrix.
MostClients(s) ==
    LET numbers == {1} \union {ClientsOf(s[i]) : i \in DOMAIN s}
    IN  CHOOSE m \in numbers : \A n \in numbers : n <= m

LEMMA MostClientsPositive ==
    ASSUME NEW s, WellFormedSchedule(s)
    PROVE  MostClients(s) \in Nat \ {0}
<1>1. IsSeq(s) /\ \A i \in DOMAIN s : IsElement(s[i])
  BY ScheduleParts
<1>2. PICK n \in Nat : n = Len(s) /\ DOMAIN s = 1..n
  BY <1>1 DEF IsSeq
<1>3. PICK f : f = [i \in 1..n |-> ClientsOf(s[i])]
  OBVIOUS
<1>4. \A i \in 1..n : f[i] = ClientsOf(s[i]) /\ f[i] \in Nat
  BY <1>1, <1>2, <1>3, ElementClients
<1>5. PICK A : A = {1} \union {ClientsOf(s[i]) : i \in DOMAIN s}
  OBVIOUS
<1>6. A = {1} \union {f[i] : i \in 1..n}
  BY <1>2, <1>4, <1>5
<1>7. \A x \in A : x \in Nat
  BY <1>4, <1>6
<1>8. \E m \in A : m \in Nat \ {0} /\ \A x \in A : x <= m
  BY <1>4, <1>6, LargestOf
<1>9. MostClients(s) = CHOOSE m \in A : \A x \in A : x <= m
  BY <1>5 DEF MostClients
<1>10. MostClients(s) \in A /\ \A x \in A : x <= MostClients(s)
  BY <1>8, <1>9
<1>11. 1 \in A
  BY <1>6
<1>12. QED BY <1>7, <1>10, <1>11

LEMMA MaxClientsPositive ==
    ASSUME WellFormedSchedule(schedule)
    PROVE  MaxClients \in Nat \ {0}
<1>1. MaxClients = MostClients(schedule)
  BY DEF MaxClients, MostClients
<1>2. QED BY <1>1, MostClientsPositive

\* The invariant from step to step.
LEMMA RowsInvStep ==
    ASSUME RowsInv, [IngestionNext]_all
    PROVE  RowsInv'
<1>1. WellFormedSchedule(schedule) /\ AssignInv /\ BeforeAssignment
  BY DEF RowsInv, ScheduleInv
<1>2. ASSUME UNCHANGED assignment PROVE AssignInv'
  BY <1>1, <1>2 DEF AssignInv, assignment, HostCount, ClientsPerHost
<1>3. ASSUME UNCHANGED <<vars, assignment>> PROVE RowsInv'
  <2>1. ScheduleInv' /\ BeforeAssignment'
    BY <1>1, <1>3 DEF vars, assignment, ScheduleInv, BeforeAssignment
  <2>2. QED BY <1>2, <1>3, <2>1 DEF RowsInv
<1>4. CASE Allocate
  <2>1. UNCHANGED assignment /\ Next /\ pc' # "assign" /\ pc # "assign"
    BY <1>4 DEF Allocate, Next, FilterTasks, StartBenchmark, AllocateClient, NextSubTask,
       FinishElement, Return, Allocating
  <2>2. WellFormedSchedule(schedule')
    <3>1. CASE FilterTasks
      BY <1>1, <3>1, FilteredWellFormed DEF FilterTasks
    <3>2. CASE StartBenchmark
      <4>1. PICK n \in Overrides :
                schedule' = IF n = 0 THEN schedule
                            ELSE [i \in DOMAIN schedule |->
                                    [schedule[i] EXCEPT !.tasks =
                                       [j \in DOMAIN @ |-> [@[j] EXCEPT !.clients = n]]]]
        BY <3>2 DEF StartBenchmark
      <4>2. n \in Nat
        BY AllocatorAssumption
      <4>3. CASE n = 0
        BY <1>1, <4>1, <4>3
      <4>4. CASE n # 0
        BY <1>1, <4>1, <4>2, <4>4, OverrideWellFormed
      <4>5. QED BY <4>3, <4>4
    <3>3. CASE AllocateClient \/ NextSubTask \/ FinishElement \/ Return
      BY <1>1, <3>3 DEF AllocateClient, NextSubTask, FinishElement, Return
    <3>4. QED BY <2>1, <3>1, <3>2, <3>3 DEF Next
  <2>3. BeforeAssignment'
    BY <1>1, <2>1 DEF BeforeAssignment, assignment
  <2>4. QED BY <1>2, <2>1, <2>2, <2>3 DEF RowsInv, ScheduleInv
<1>5. CASE StartAssign
  <2>1. /\ client_idx = 0 /\ assignments = <<>> /\ StartAssignment(MaxClients)
        /\ pc' = "assign" /\ schedule' = schedule
    BY <1>1, <1>5 DEF StartAssign, BeforeAssignment
  <2>2. MaxClients \in Nat
    BY <1>1, MaxClientsPositive
  <2>3. AssignInv'
    BY <1>1, <2>1, <2>2, StartAssignmentStep
  <2>4. QED BY <1>1, <2>1, <2>3 DEF RowsInv, ScheduleInv, BeforeAssignment
<1>6. CASE Assign
  <2>1. client_count > 0 /\ AssignHost /\ UNCHANGED vars
    BY <1>6 DEF Assign
  <2>2. AssignInv'
    BY <1>1, <2>1, AssignHostStep
  <2>3. pc = "assign"
    BY <1>1, <2>1 DEF BeforeAssignment
  <2>4. QED BY <1>1, <2>1, <2>2, <2>3 DEF RowsInv, ScheduleInv, BeforeAssignment, vars
<1>7. CASE PrepareFiles \/ ChooseBulkTask \/ StartColumn \/ Read \/ UNCHANGED all
  <2>1. UNCHANGED <<vars, assignment>>
    BY <1>7 DEF PrepareFiles, ChooseBulkTask, StartColumn, Read, all
  <2>2. QED BY <1>3, <2>1
<1>8. QED BY <1>4, <1>5, <1>6, <1>7 DEF IngestionNext

\* It says what the property says.
LEMMA DealtToWorkers ==
    ASSUME AssignInv
    PROVE  EachClientOnOneWorker
<1>1. PICK a, idx : /\ a = assignments /\ idx = client_idx /\ Dealt(a, idx)
                    /\ idx = client_count - remaining_clients
  BY DEF AssignInv
<1>2. \A w \in Workers : w[1] \in DOMAIN a /\ w[2] \in DOMAIN a[w[1]] /\ w = <<w[1], w[2]>>
  BY <1>1 DEF Workers
<1>3. \A h \in DOMAIN a : \A j \in DOMAIN a[h] :
          <<h, j>> \in Workers /\ ClientsOfWorker(<<h, j>>) = a[h][j]
  BY <1>1 DEF Workers, ClientsOfWorker
<1>4. \A w \in Workers : ClientsOfWorker(w) = a[w[1]][w[2]]
  BY <1>1 DEF ClientsOfWorker
<1>5. ASSUME NEW v \in Workers, NEW w \in Workers,
             ClientsOfWorker(v) \intersect ClientsOfWorker(w) # {}
      PROVE  v = w
  <2>1. v[1] = w[1] /\ v[2] = w[2]
    BY <1>1, <1>2, <1>4, <1>5 DEF Dealt, Apart
  <2>2. QED BY <1>2, <2>1
<1>6. UNION {ClientsOfWorker(w) : w \in Workers} = 0..(idx - 1)
  <2>1. ASSUME NEW w \in Workers PROVE ClientsOfWorker(w) \subseteq 0..(idx - 1)
    BY <1>1, <1>2, <1>4 DEF Dealt, Inside
  <2>2. ASSUME NEW x \in 0..(idx - 1) PROVE \E w \in Workers : x \in ClientsOfWorker(w)
    <3>1. PICK h \in DOMAIN a : \E j \in DOMAIN a[h] : x \in a[h][j]
      BY <1>1 DEF Dealt, Covered
    <3>2. PICK j \in DOMAIN a[h] : x \in a[h][j]
      BY <3>1
    <3>3. QED BY <1>3, <3>2
  <2>3. QED BY <2>1, <2>2
<1>7. AllAssigned => remaining_clients = 0
  <2>1. SUFFICES ASSUME Len(assignments) = HostCount PROVE remaining_clients = 0
    BY DEF AllAssigned
  <2>2. HostCount \in Nat /\ HostCount # 0 /\ client_count \in Nat
    BY HostAssumption DEF HostCount, AssignInv
  <2>3. PICK q \in Nat : q = ClientsPerHost
    <3>1. PICK H \in Nat \ {0}, n \in Nat : H = HostCount /\ n = client_count
      BY <2>2
    <3>2. (n + H - 1) \div H \in Nat
      OBVIOUS
    <3>3. QED BY <3>1, <3>2 DEF ClientsPerHost
  <2>4. HostCount - Len(assignments) = 0 /\ 0 * q = 0
    BY <2>1, <2>2
  <2>5. remaining_clients <= 0 /\ remaining_clients \in Nat
    BY <2>3, <2>4 DEF AssignInv
  <2>6. QED BY <2>5
<1>8. ASSUME NEW v \in Workers, NEW w \in Workers, v[1] = w[1]
      PROVE  Cardinality(ClientsOfWorker(v)) <= Cardinality(ClientsOfWorker(w)) + 1
  BY <1>1, <1>2, <1>4, <1>8 DEF Dealt, Even
<1>9. 0..(idx - 1) = 0..(client_count - remaining_clients - 1)
  BY <1>1
<1>10. QED BY <1>5, <1>6, <1>7, <1>8, <1>9 DEF EachClientOnOneWorker

\* Before the assignment.
LEMMA RowsInvInit ==
    ASSUME IngestionInit
    PROVE  RowsInv
<1>1. /\ schedule \in Schedules /\ pc = "filter" /\ cores \in HostConfigs
      /\ client_count = 0 /\ remaining_clients = 0 /\ client_idx = 0 /\ assignments = <<>>
  BY DEF IngestionInit, Init, AssignmentInit
<1>2. PICK H \in Nat \ {0} : H = HostCount
  BY <1>1, HostAssumption DEF HostCount
<1>3. (0 + H - 1) \div H \in Nat
  OBVIOUS
<1>4. PICK q \in Nat : q = ClientsPerHost
  BY <1>1, <1>2, <1>3 DEF ClientsPerHost
<1>5. Len(assignments) = 0 /\ assignments \in Seq(Seq(SUBSET Nat)) /\ DOMAIN assignments = {}
  BY <1>1
<1>6. Dealt(assignments, 0)
  <2>1. 0..(0 - 1) = {}
    OBVIOUS
  <2>2. QED BY <1>5, <2>1 DEF Dealt, Covered, Inside, Apart, Even, Intervals
<1>7. 0 <= (H - 0) * q
  OBVIOUS
<1>8. AssignInv
  BY <1>1, <1>2, <1>4, <1>5, <1>6, <1>7 DEF AssignInv
<1>9. QED BY <1>1, <1>8, AllocatorAssumption DEF RowsInv, ScheduleInv, BeforeAssignment

\* Whatever the schedule, its filter and override, and whatever the hosts and their
\* cores: each client of the matrix is run by exactly one worker, none is left over, and
\* the workers of a host get the same number of clients up to one
\* (calculate_worker_assignments, its closing assertion included).
THEOREM ClientsAssigned == IngestionSpec => []EachClientOnOneWorker
<1>1. IngestionInit => RowsInv
  BY RowsInvInit
<1>2. RowsInv /\ [IngestionNext]_all => RowsInv'
  BY RowsInvStep
<1>3. RowsInv => EachClientOnOneWorker
  BY DealtToWorkers DEF RowsInv
<1>4. QED BY <1>1, <1>2, <1>3, PTL DEF IngestionSpec

-----------------------------------------------------------------------------
(* The allocation matrix.                                                    *)

\* Client k of sub-task j of element i has its entry when client n of sub-task
\* u of element e comes next.
Allotted(i, j, k, e, u, n) == i < e \/ (i = e /\ (j < u \/ (j = u /\ k < n)))

\* Column c is between the join points i - 1 and i; col has the columns of the
\* join points before element e.
Between(col, i, e, c) == col[i - 1] < c /\ (i < e => c < col[i])

\* The rows of M clients; the first r have one entry more than the others.
RowsOf(a, M, r) ==
    /\ DOMAIN a = 0..(M - 1)
    /\ \A p \in 0..(M - 1) :
          IsSeq(a[p]) /\ Len(a[p]) = IF p < r THEN Len(a[M - 1]) + 1 ELSE Len(a[M - 1])

\* The join points are in the same columns of all rows.
JoinsAt(a, M, col, e) ==
    /\ col \in [0..(e - 1) -> Nat \ {0}]
    /\ \A i, k \in 0..(e - 1) : i < k => col[i] < col[k]
    /\ \A p \in 0..(M - 1) :
          /\ \A i \in 0..(e - 1) :
                /\ col[i] \in DOMAIN a[p] /\ a[p][col[i]] = a[0][col[i]]
                /\ a[p][col[i]].kind = "join" /\ a[p][col[i]].id = i
          /\ \A c \in DOMAIN a[p] : a[p][c].kind = "join" => \E i \in 0..(e - 1) : c = col[i]

\* The task entries of the rows, as triples of row, column and entry.
TaskCells(a, M) ==
    {x \in UNION {{<<p, c, a[p][c]>> : c \in DOMAIN a[p]} : p \in 0..(M - 1)} :
        x[3].kind = "task"}

\* A task in the columns of element i is a client of a sub-task of i that has
\* its entry.
InItsStep(cells, s, col, e, u, n) ==
    \A x \in cells : \E i \in 1..e :
        /\ i <= Len(s) /\ Between(col, i, e, x[2])
        /\ \E j \in DOMAIN s[i].tasks :
              /\ x[3].name = s[i].tasks[j].name
              /\ x[3].client_index_in_task \in 0..(s[i].tasks[j].clients - 1)
              /\ Allotted(i, j, x[3].client_index_in_task, e, u, n)

HasEntry(cells, s, e, u, n) ==
    \A i \in DOMAIN s : \A j \in DOMAIN s[i].tasks : \A k \in 0..(s[i].tasks[j].clients - 1) :
        Allotted(i, j, k, e, u, n) =>
            \E x \in cells : x[3].name = s[i].tasks[j].name /\ x[3].client_index_in_task = k

NoneTwice(cells) ==
    \A x, y \in cells :
        x[3].name = y[3].name /\ x[3].client_index_in_task = y[3].client_index_in_task => x = y

\* The clients that execute a completing sub-task of element i.
CompletingNames(el) ==
    {el.tasks[j].name : j \in {n \in DOMAIN el.tasks : el.tasks[n].completes_parent}}

Completers(cells, s, col, e, i) ==
    {x[1] : x \in {y \in cells : /\ Between(col, i, e, y[2])
                                 /\ y[3].name \in CompletingNames(s[i])}}

Named(a, M, s, col, e, cs) ==
    /\ \A i \in 1..(e - 1) :
          Entries(a[0][col[i]].clients) = Completers(TaskCells(a, M), s, col, e, i)
    /\ IsSeq(cs)
    /\ e <= Len(s) => Entries(cs) = Completers(TaskCells(a, M), s, col, e, e)

\* The rows when client n of sub-task u of element e comes next.
MatrixUpTo(a, M, s, col, e, u, n, cs) ==
    /\ JoinsAt(a, M, col, e)
    /\ InItsStep(TaskCells(a, M), s, col, e, u, n)
    /\ HasEntry(TaskCells(a, M), s, e, u, n)
    /\ NoneTwice(TaskCells(a, M))
    /\ Named(a, M, s, col, e, cs)

NextClient(s, e, u, n, start) ==
    /\ e \in 1..(Len(s) + 1) /\ u \in Nat \ {0} /\ n \in Nat /\ start \in Nat
    /\ e > Len(s) => u = 1 /\ n = 0 /\ start = 0
    /\ e <= Len(s) => /\ u <= Len(s[e].tasks) + 1
                      /\ u <= Len(s[e].tasks) => n <= s[e].tasks[u].clients
                      /\ u > Len(s[e].tasks) => n = 0

NothingAllotted ==
    element = 1 /\ sub = 1 /\ client = 0 /\ start_client_index = 0 /\ completing = <<>>

MatrixInv ==
    /\ WellFormedSchedule(schedule) /\ NamesUnique(schedule)
    /\ "exclude" \notin FilterModes => NoElementEmpty(schedule)
    /\ pc \in {"filter", "override", "allocate", "done", "assign"}
    /\ pc \in {"filter", "override"} => NothingAllotted
    /\ pc \in {"allocate", "done", "assign"} =>
          /\ NextClient(schedule, element, sub, client, start_client_index)
          /\ RowsOf(allocations, MaxClients, (start_client_index + client) % MaxClients)
          /\ \E col : MatrixUpTo(allocations, MaxClients, schedule, col, element, sub, client,
                                 completing)
    /\ pc \in {"done", "assign"} => element = Len(schedule) + 1

\* The number of the entries that the next row has more.
LEMMA NextRemainder ==
    ASSUME NEW n \in Nat, NEW M \in Nat \ {0}
    PROVE  /\ n % M \in 0..(M - 1)
           /\ (n + 1) % M = IF n % M = M - 1 THEN 0 ELSE (n % M) + 1
           /\ (n + 1) \div M = IF n % M = M - 1 THEN (n \div M) + 1 ELSE n \div M
           /\ n \div M \in Nat
<1>1. PICK d, r : d = n \div M /\ r = n % M
  OBVIOUS
<1>2. d \in Int /\ r \in 0..(M - 1) /\ n = M * d + r
  BY <1>1
<1>3. d \in Nat
  <2>1. CASE d <= -1
    <3>1. M * d <= 0 - M
      BY <1>2, <2>1, SMTT(20)
    <3>2. QED BY <1>2, <3>1
  <2>2. QED BY <1>2, <2>1
<1>4. M * d = d * M /\ (d + 1) * M = d * M + M /\ d * M \in Nat
  BY <1>2, <1>3
<1>5. CASE r = M - 1
  <2>1. n + 1 = (d + 1) * M + 0 /\ 0 \in 0..(M - 1) /\ d + 1 \in Nat
    BY <1>2, <1>3, <1>4, <1>5
  <2>2. (n + 1) % M = 0
    BY <2>1, Remainder
  <2>3. (n + 1) \div M = d + 1
    <3>1. (d + 1) * M <= n + 1 /\ n + 1 < (d + 1) * M + M
      BY <2>1
    <3>2. QED BY <2>1, <3>1, QuotientBounds
  <2>4. QED BY <1>1, <1>2, <1>3, <1>5, <2>2, <2>3
<1>6. CASE r # M - 1
  <2>1. n + 1 = d * M + (r + 1) /\ r + 1 \in 0..(M - 1)
    BY <1>2, <1>4, <1>6
  <2>2. (n + 1) % M = r + 1
    <3>1. PICK m \in Nat, e \in 0..(M - 1) : m = n + 1 /\ e = r + 1 /\ m = d * M + e
      BY <2>1
    <3>2. m % M = e
      BY ONLY m \in Nat, M \in Nat \ {0}, e \in 0..(M - 1), <1>3, <3>1, Remainder
    <3>3. QED BY <3>1, <3>2
  <2>3. (n + 1) \div M = d
    <3>1. d * M <= n + 1 /\ n + 1 < d * M + M
      BY <1>4, <2>1
    <3>2. QED BY <1>3, <3>1, QuotientBounds
  <2>4. QED BY <1>1, <1>2, <1>3, <1>6, <2>2, <2>3
<1>7. QED BY <1>5, <1>6

\* A row with one more entry.
OneMoreEntry(r, x, t) ==
    /\ IsSeq(t) /\ Len(r) \in Nat /\ Len(t) = Len(r) + 1
    /\ DOMAIN r = 1..Len(r) /\ DOMAIN t = 1..(Len(r) + 1)
    /\ t[Len(r) + 1] = x /\ \A c \in DOMAIN r : t[c] = r[c]
    /\ Entries(t) = Entries(r) \union {x}

LEMMA RowAppended ==
    ASSUME NEW r, IsSeq(r), NEW x, NEW t, t = Append(r, x)
    PROVE  OneMoreEntry(r, x, t)
<1>1. PICK S : S = ToSet(r) \union {x}
  OBVIOUS
<1>2. r \in Seq(S) /\ x \in S
  <2>1. PICK Q : Q = ToSet(r) /\ r \in Seq(Q) /\ Q \subseteq S
    BY <1>1 DEF IsSeq
  <2>2. QED BY <1>1, <2>1
<1>3. /\ t \in Seq(S) /\ Len(r) \in Nat /\ Len(t) = Len(r) + 1
      /\ DOMAIN r = 1..Len(r) /\ DOMAIN t = 1..(Len(r) + 1)
      /\ t[Len(r) + 1] = x /\ \A c \in 1..Len(r) : t[c] = r[c]
  BY <1>2
<1>4. IsSeq(t)
  <2>1. PICK Q : Q = ToSet(t)
    OBVIOUS
  <2>2. \A c \in 1..Len(t) : t[c] \in Q
    BY <1>3, <2>1 DEF ToSet
  <2>4. t \in Seq(Q)
    BY <1>3, <2>2
  <2>5. QED BY <2>1, <2>4 DEF IsSeq
<1>5. Entries(t) = Entries(r) \union {x}
  <2>0. PICK l \in Nat : l = Len(r)
    BY <1>3
  <2>a. \A c \in 1..(l + 1) : c = l + 1 \/ c \in 1..l
    OBVIOUS
  <2>b. 1..l \subseteq 1..(l + 1) /\ l + 1 \in 1..(l + 1)
    OBVIOUS
  <2>1. \A c \in 1..(Len(r) + 1) : c = Len(r) + 1 \/ c \in 1..Len(r)
    BY <2>0, <2>a
  <2>2. 1..Len(r) \subseteq 1..(Len(r) + 1) /\ Len(r) + 1 \in 1..(Len(r) + 1)
    BY <2>0, <2>b
  <2>3. QED BY <1>3, <2>1, <2>2 DEF Entries
<1>6. QED BY <1>3, <1>4, <1>5 DEF OneMoreEntry

\* The next client gets an entry: rows.
LEMMA RowsOneMore ==
    ASSUME NEW M \in Nat \ {0}, NEW a, NEW n \in Nat, RowsOf(a, M, n % M), NEW x, NEW b,
           b = [a EXCEPT ![n % M] = Append(@, x)]
    PROVE  RowsOf(b, M, (n + 1) % M)
<1>1. PICK r \in 0..(M - 1) : r = n % M
  BY NextRemainder
<1>2. (n + 1) % M = IF r = M - 1 THEN 0 ELSE r + 1
  BY <1>1, NextRemainder
<1>3. /\ DOMAIN b = 0..(M - 1) /\ b[r] = Append(a[r], x)
      /\ \A p \in 0..(M - 1) : p # r => b[p] = a[p]
  BY <1>1 DEF RowsOf
<1>4. /\ IsSeq(b[r]) /\ Len(b[r]) = Len(a[r]) + 1
  <2>1. IsSeq(a[r])
    BY <1>1 DEF RowsOf
  <2>2. OneMoreEntry(a[r], x, b[r])
    BY <1>3, <2>1, RowAppended
  <2>3. QED BY <2>2 DEF OneMoreEntry
<1>5. M - 1 \in 0..(M - 1) /\ Len(a[M - 1]) \in Nat
  <2>1. M - 1 \in 0..(M - 1)
    OBVIOUS
  <2>2. IsSeq(a[M - 1])
    BY <2>1 DEF RowsOf
  <2>3. QED BY <2>1, <2>2 DEF IsSeq
<1>6. PICK l \in Nat : /\ l = Len(a[M - 1])
                       /\ \A p \in 0..(M - 1) : p < r => Len(a[p]) = l + 1
                       /\ \A p \in 0..(M - 1) : ~(p < r) => Len(a[p]) = l
                       /\ \A p \in 0..(M - 1) : IsSeq(a[p])
  <2>1. PICK l \in Nat : l = Len(a[M - 1])
    BY <1>5
  <2>2. \A p \in 0..(M - 1) : IsSeq(a[p]) /\ Len(a[p]) = IF p < r THEN l + 1 ELSE l
    BY <1>1, <2>1 DEF RowsOf
  <2>3. \A p \in 0..(M - 1) : p < r => Len(a[p]) = l + 1
    BY <2>2
  <2>4. \A p \in 0..(M - 1) : ~(p < r) => Len(a[p]) = l
    BY <2>2
  <2>6. QED BY <2>1, <2>2, <2>3, <2>4
<1>7. ASSUME NEW p \in 0..(M - 1)
      PROVE  IsSeq(b[p]) /\ Len(b[p]) = IF p < (n + 1) % M THEN Len(b[M - 1]) + 1 ELSE Len(b[M - 1])
  <2>1. IsSeq(b[p])
    BY <1>3, <1>4, <1>6
  <2>2. Len(b[r]) = l + 1
    BY <1>4, <1>6
  <2>3. CASE r = M - 1
    <3>1. Len(b[p]) = l + 1 /\ Len(b[M - 1]) = l + 1
      BY <1>3, <1>6, <2>2, <2>3
    <3>2. (n + 1) % M = 0
      BY <1>2, <2>3
    <3>3. QED BY <2>1, <3>1, <3>2
  <2>4. CASE r # M - 1
    <3>1. Len(b[M - 1]) = l
      BY <1>3, <1>5, <1>6, <2>4
    <3>2. (n + 1) % M = r + 1
      BY <1>2, <2>4
    <3>3. CASE p < r + 1
      <4>1. Len(b[p]) = l + 1
        <5>1. p = r \/ p < r
          BY <3>3
        <5>2. QED BY <1>3, <1>6, <2>2, <5>1
      <4>2. QED BY <2>1, <3>1, <3>2, <3>3, <4>1
    <3>4. CASE ~(p < r + 1)
      <4>1. Len(b[p]) = l
        BY <1>3, <1>6, <3>4
      <4>2. QED BY <2>1, <3>1, <3>2, <3>4, <4>1
    <3>5. QED BY <3>3, <3>4
  <2>5. QED BY <2>3, <2>4
<1>8. QED BY <1>3, <1>7 DEF RowsOf

\* One more task cell.
OneMoreCell(a, b, M, y) == TaskCells(b, M) = TaskCells(a, M) \union {y}

\* The next client gets an entry: task cells.
LEMMA CellsOneMore ==
    ASSUME NEW M \in Nat \ {0}, NEW a, NEW f, RowsOf(a, M, f), NEW p \in 0..(M - 1), NEW x,
           x.kind = "task", NEW b, b = [a EXCEPT ![p] = Append(@, x)]
    PROVE  OneMoreCell(a, b, M, <<p, Len(a[p]) + 1, x>>)
<1>1. /\ DOMAIN a = 0..(M - 1) /\ IsSeq(a[p]) /\ b[p] = Append(a[p], x)
      /\ \A q \in 0..(M - 1) : q # p => b[q] = a[q]
  BY DEF RowsOf
<1>2. PICK l : l = Len(a[p])
  OBVIOUS
<1>3. /\ DOMAIN a[p] = 1..l /\ DOMAIN b[p] = 1..(l + 1) /\ l \in Nat
      /\ b[p][l + 1] = x /\ \A c \in 1..l : b[p][c] = a[p][c]
  <2>1. OneMoreEntry(a[p], x, b[p])
    BY <1>1, RowAppended
  <2>2. QED BY <1>2, <2>1 DEF OneMoreEntry
<1>4. ASSUME NEW y PROVE y \in TaskCells(b, M) <=> y \in TaskCells(a, M) \/ y = <<p, l + 1, x>>
  <2>1. y \in TaskCells(b, M) <=> \E q \in 0..(M - 1) : \E c \in DOMAIN b[q] :
                                     y = <<q, c, b[q][c]>> /\ y[3].kind = "task"
    BY DEF TaskCells
  <2>2. y \in TaskCells(a, M) <=> \E q \in 0..(M - 1) : \E c \in DOMAIN a[q] :
                                     y = <<q, c, a[q][c]>> /\ y[3].kind = "task"
    BY DEF TaskCells
  <2>3. ASSUME y \in TaskCells(b, M) PROVE y \in TaskCells(a, M) \/ y = <<p, l + 1, x>>
    <3>0. PICK q \in 0..(M - 1) : \E c \in DOMAIN b[q] :
                                     y = <<q, c, b[q][c]>> /\ y[3].kind = "task"
      BY <2>1, <2>3
    <3>1. PICK c \in DOMAIN b[q] : y = <<q, c, b[q][c]>> /\ y[3].kind = "task"
      BY <3>0
    <3>2. CASE q # p
      BY <1>1, <2>2, <3>1, <3>2
    <3>3. CASE q = p /\ c = l + 1
      BY <1>3, <3>1, <3>3
    <3>4. CASE q = p /\ c # l + 1
      <4>1. c \in 1..l
        BY <1>3, <3>4
      <4>2. QED BY <1>3, <2>2, <3>1, <3>4, <4>1
    <3>5. QED BY <3>2, <3>3, <3>4
  <2>4. ASSUME y \in TaskCells(a, M) PROVE y \in TaskCells(b, M)
    <3>0. PICK q \in 0..(M - 1) : \E c \in DOMAIN a[q] :
                                     y = <<q, c, a[q][c]>> /\ y[3].kind = "task"
      BY <2>2, <2>4
    <3>1. PICK c \in DOMAIN a[q] : y = <<q, c, a[q][c]>> /\ y[3].kind = "task"
      BY <3>0
    <3>2. c \in DOMAIN b[q] /\ b[q][c] = a[q][c]
      BY <1>1, <1>3
    <3>3. QED BY <2>1, <3>1, <3>2
  <2>5. ASSUME y = <<p, l + 1, x>> PROVE y \in TaskCells(b, M)
    <3>1. l + 1 \in DOMAIN b[p] /\ b[p][l + 1] = x /\ y[3] = x
      BY <1>3, <2>5
    <3>2. QED BY <2>1, <2>5, <3>1
  <2>6. QED BY <2>3, <2>4, <2>5
<1>5. QED BY <1>2, <1>4 DEF OneMoreCell

\* The rows b go on where the rows a end, and the new entries satisfy nothing
\* but what is said of them.
GoesOn(a, b, M) ==
    \A p \in 0..(M - 1) : \A c \in DOMAIN a[p] : c \in DOMAIN b[p] /\ b[p][c] = a[p][c]

\* A row that gets one more entry.
Longer(a, b, M, p, x) ==
    /\ Len(a[p]) \in Nat /\ DOMAIN a[p] = 1..Len(a[p])
    /\ DOMAIN b[p] = 1..(Len(a[p]) + 1) /\ b[p][Len(a[p]) + 1] = x
    /\ \A q \in 0..(M - 1) : \A c \in DOMAIN b[q] :
          c \in DOMAIN a[q] \/ (q = p /\ c = Len(a[p]) + 1)

LEMMA OneRowGrows ==
    ASSUME NEW M \in Nat \ {0}, NEW a, NEW f, RowsOf(a, M, f), NEW p \in 0..(M - 1), NEW x,
           NEW b, b = [a EXCEPT ![p] = Append(@, x)]
    PROVE  GoesOn(a, b, M) /\ Longer(a, b, M, p, x)
<1>1. /\ DOMAIN a = 0..(M - 1) /\ IsSeq(a[p]) /\ b[p] = Append(a[p], x)
      /\ \A q \in 0..(M - 1) : q # p => b[q] = a[q]
  BY DEF RowsOf
<1>2. PICK l : l = Len(a[p])
  OBVIOUS
<1>3. /\ DOMAIN a[p] = 1..l /\ DOMAIN b[p] = 1..(l + 1) /\ l \in Nat
      /\ b[p][l + 1] = x /\ \A c \in 1..l : b[p][c] = a[p][c]
  <2>1. OneMoreEntry(a[p], x, b[p])
    BY <1>1, RowAppended
  <2>2. QED BY <1>2, <2>1 DEF OneMoreEntry
<1>4. GoesOn(a, b, M)
  BY <1>1, <1>3 DEF GoesOn
<1>5. ASSUME NEW q \in 0..(M - 1), NEW c \in DOMAIN b[q]
      PROVE  c \in DOMAIN a[q] \/ (q = p /\ c = l + 1)
  BY <1>1, <1>3
<1>6. QED BY <1>2, <1>3, <1>4, <1>5 DEF Longer

\* The rows when an element is finished with the join point x.
Closed(a, M, r, x) ==
    [p \in 0..(M - 1) |->
        Append(IF r > 0 /\ p >= r THEN Append(a[p], None) ELSE a[p], x)]

ClosedAt(a, b, M, l, x) ==
    \A p \in 0..(M - 1) :
        /\ DOMAIN b[p] = 1..(l + 1) /\ b[p][l + 1] = x
        /\ \A c \in DOMAIN a[p] : c \in Nat /\ c <= l
        /\ \A c \in 1..l : c \in DOMAIN a[p] \/ b[p][c].kind = "none"

LEMMA RowsClosed ==
    ASSUME NEW M \in Nat \ {0}, NEW a, NEW r \in 0..(M - 1), RowsOf(a, M, r), NEW x,
           x.kind = "join", NEW b, b = Closed(a, M, r, x)
    PROVE  /\ RowsOf(b, M, 0) /\ GoesOn(a, b, M)
           /\ \E l \in Nat : ClosedAt(a, b, M, l, x)
<1>1. M - 1 \in 0..(M - 1)
  OBVIOUS
<1>2. PICK k \in Nat : /\ k = Len(a[M - 1])
                       /\ \A p \in 0..(M - 1) :
                             IsSeq(a[p]) /\ Len(a[p]) = IF p < r THEN k + 1 ELSE k
  <2>1. IsSeq(a[M - 1])
    BY <1>1 DEF RowsOf
  <2>2. Len(a[M - 1]) \in Nat
    BY <2>1 DEF IsSeq
  <2>3. QED BY <2>2 DEF RowsOf
<1>3. PICK l \in Nat : l = IF r > 0 THEN k + 1 ELSE k
  OBVIOUS
<1>4. PICK e : e = None /\ e.kind = "none"
  <2>1. None.kind = "none"
    BY DEF None
  <2>2. QED BY <2>1
<1>5. ASSUME NEW p \in 0..(M - 1)
      PROVE  /\ IsSeq(b[p]) /\ Len(b[p]) = l + 1 /\ DOMAIN b[p] = 1..(l + 1) /\ b[p][l + 1] = x
             /\ \A c \in DOMAIN a[p] : c \in 1..l /\ b[p][c] = a[p][c]
             /\ \A c \in 1..l : c \in DOMAIN a[p] \/ b[p][c].kind = "none"
  <2>1. PICK s, t : /\ s = (IF r > 0 /\ p >= r THEN Append(a[p], e) ELSE a[p])
                    /\ t = Append(s, x) /\ b[p] = t
    BY <1>4 DEF Closed
  <2>2. /\ IsSeq(s) /\ Len(s) = l /\ DOMAIN s = 1..l
        /\ \A c \in DOMAIN a[p] : c \in 1..l /\ s[c] = a[p][c]
        /\ \A c \in 1..l : c \in DOMAIN a[p] \/ s[c] = e
    <3>1. CASE r > 0 /\ p >= r
      <4>1. Len(a[p]) = k /\ l = k + 1 /\ s = Append(a[p], e) /\ IsSeq(a[p])
        BY <1>2, <1>3, <2>1, <3>1
      <4>2. /\ IsSeq(s) /\ Len(s) = k + 1 /\ DOMAIN a[p] = 1..k /\ DOMAIN s = 1..(k + 1)
            /\ s[k + 1] = e /\ \A c \in DOMAIN a[p] : s[c] = a[p][c]
        <5>1. PICK u : u = a[p] /\ IsSeq(u) /\ s = Append(u, e) /\ Len(u) = k
          BY <4>1
        <5>2. OneMoreEntry(u, e, s)
          BY <5>1, RowAppended
        <5>3. QED BY <5>1, <5>2 DEF OneMoreEntry
      <4>3. \A c \in 1..(k + 1) : c \in 1..k \/ c = k + 1
        OBVIOUS
      <4>4. 1..k \subseteq 1..(k + 1)
        OBVIOUS
      <4>5. QED BY <4>1, <4>2, <4>3, <4>4
    <3>2. CASE ~(r > 0 /\ p >= r)
      <4>1. Len(a[p]) = l /\ s = a[p] /\ IsSeq(a[p])
        BY <1>2, <1>3, <2>1, <3>2
      <4>2. DOMAIN a[p] = 1..l
        BY <4>1 DEF IsSeq
      <4>3. QED BY <4>1, <4>2
    <3>3. QED BY <3>1, <3>2
  <2>3. /\ IsSeq(t) /\ Len(t) = l + 1 /\ DOMAIN t = 1..(l + 1) /\ t[l + 1] = x
        /\ \A c \in 1..l : t[c] = s[c]
    <3>1. OneMoreEntry(s, x, t)
      BY <2>1, <2>2, RowAppended
    <3>2. QED BY <2>2, <3>1 DEF OneMoreEntry
  <2>4. QED BY <1>4, <2>1, <2>2, <2>3
<1>6. RowsOf(b, M, 0)
  <2>1. DOMAIN b = 0..(M - 1)
    BY DEF Closed
  <2>2. \A p \in 0..(M - 1) : ~(p < 0)
    OBVIOUS
  <2>3. QED BY <1>1, <1>5, <2>1, <2>2 DEF RowsOf
<1>7. GoesOn(a, b, M)
  <2>1. 1..l \subseteq 1..(l + 1)
    OBVIOUS
  <2>2. QED BY <1>5, <2>1 DEF GoesOn
<1>8. ClosedAt(a, b, M, l, x)
  BY <1>5 DEF ClosedAt
<1>9. QED BY <1>6, <1>7, <1>8

\* Entries that are no tasks do not change what there is of tasks.
LEMMA SameCells ==
    ASSUME NEW M \in Nat \ {0}, NEW a, NEW b, GoesOn(a, b, M),
           \A p \in 0..(M - 1) : \A c \in DOMAIN b[p] :
               c \in DOMAIN a[p] \/ b[p][c].kind # "task"
    PROVE  TaskCells(b, M) = TaskCells(a, M)
<1>1. ASSUME NEW y \in TaskCells(b, M) PROVE y \in TaskCells(a, M)
  <2>1. PICK q \in 0..(M - 1) : \E c \in DOMAIN b[q] : y = <<q, c, b[q][c]>> /\ y[3].kind = "task"
    BY DEF TaskCells
  <2>2. PICK c \in DOMAIN b[q] : y = <<q, c, b[q][c]>> /\ y[3].kind = "task"
    BY <2>1
  <2>3. c \in DOMAIN a[q] /\ b[q][c] = a[q][c]
    BY <2>2 DEF GoesOn
  <2>4. QED BY <2>2, <2>3 DEF TaskCells
<1>2. ASSUME NEW y \in TaskCells(a, M) PROVE y \in TaskCells(b, M)
  <2>1. PICK q \in 0..(M - 1) : \E c \in DOMAIN a[q] : y = <<q, c, a[q][c]>> /\ y[3].kind = "task"
    BY DEF TaskCells
  <2>2. PICK c \in DOMAIN a[q] : y = <<q, c, a[q][c]>> /\ y[3].kind = "task"
    BY <2>1
  <2>3. c \in DOMAIN b[q] /\ b[q][c] = a[q][c]
    BY <2>2 DEF GoesOn
  <2>4. QED BY <2>2, <2>3 DEF TaskCells
<1>3. QED BY <1>1, <1>2

\* What a task cell is.
LEMMA CellFacts ==
    ASSUME NEW a, NEW M, NEW x \in TaskCells(a, M)
    PROVE  /\ x = <<x[1], x[2], x[3]>> /\ x[1] \in 0..(M - 1) /\ x[2] \in DOMAIN a[x[1]]
           /\ x[3] = a[x[1]][x[2]] /\ x[3].kind = "task"
<1>1. PICK q \in 0..(M - 1) : \E c \in DOMAIN a[q] : x = <<q, c, a[q][c]>> /\ x[3].kind = "task"
  BY DEF TaskCells
<1>2. QED BY <1>1

\* The join points stay where they are when a client gets an entry.
LEMMA JoinsStay ==
    ASSUME NEW M \in Nat \ {0}, NEW a, NEW f, RowsOf(a, M, f), NEW p \in 0..(M - 1), NEW x,
           x.kind = "task", NEW b, b = [a EXCEPT ![p] = Append(@, x)], NEW col, NEW e \in Nat \ {0},
           JoinsAt(a, M, col, e)
    PROVE  JoinsAt(b, M, col, e)
<1>1. GoesOn(a, b, M)
  BY OneRowGrows
<1>2. \A q \in 0..(M - 1) : \A c \in DOMAIN b[q] : c \in DOMAIN a[q] \/ b[q][c] = x
  <2>1. Longer(a, b, M, p, x)
    BY OneRowGrows
  <2>2. QED BY <2>1 DEF Longer
<1>3. 0 \in 0..(M - 1)
  OBVIOUS
<1>4. ASSUME NEW q \in 0..(M - 1), NEW i \in 0..(e - 1)
      PROVE  /\ col[i] \in DOMAIN b[q] /\ b[q][col[i]] = b[0][col[i]]
             /\ b[q][col[i]].kind = "join" /\ b[q][col[i]].id = i
  <2>1. /\ col[i] \in DOMAIN a[q] /\ a[q][col[i]] = a[0][col[i]] /\ col[i] \in DOMAIN a[0]
        /\ a[q][col[i]].kind = "join" /\ a[q][col[i]].id = i
    BY <1>3 DEF JoinsAt
  <2>2. col[i] \in DOMAIN b[q] /\ b[q][col[i]] = a[q][col[i]] /\ b[0][col[i]] = a[0][col[i]]
    BY <1>1, <1>3, <2>1 DEF GoesOn
  <2>3. QED BY <2>1, <2>2
<1>5. ASSUME NEW q \in 0..(M - 1), NEW c \in DOMAIN b[q], b[q][c].kind = "join"
      PROVE  \E i \in 0..(e - 1) : c = col[i]
  <2>1. c \in DOMAIN a[q] /\ b[q][c] = a[q][c]
    BY <1>1, <1>2, <1>5 DEF GoesOn
  <2>2. QED BY <1>5, <2>1, SMTT(30) DEF JoinsAt
<1>6. QED BY <1>4, <1>5 DEF JoinsAt

\* A finished element adds its join point.
LEMMA JoinAdded ==
    ASSUME NEW M \in Nat \ {0}, NEW a, NEW r \in 0..(M - 1), RowsOf(a, M, r), NEW x,
           NEW e \in Nat \ {0}, x.kind = "join", x.id = e, NEW b, b = Closed(a, M, r, x),
           NEW col, JoinsAt(a, M, col, e)
    PROVE  \E last \in Nat \ {0} : \E new :
               /\ new = [i \in 0..e |-> IF i = e THEN last ELSE col[i]]
               /\ JoinsAt(b, M, new, e + 1)
               /\ \A p \in 0..(M - 1) : \A c \in DOMAIN a[p] : c \in Nat /\ c < last
<1>1. PICK l \in Nat : \A p \in 0..(M - 1) :
                 /\ DOMAIN b[p] = 1..(l + 1) /\ b[p][l + 1] = x
                 /\ \A c \in DOMAIN a[p] : c \in Nat /\ c <= l
                 /\ \A c \in 1..l : c \in DOMAIN a[p] \/ b[p][c].kind = "none"
  <2>1. PICK l \in Nat : ClosedAt(a, b, M, l, x)
    BY RowsClosed
  <2>2. QED BY <2>1 DEF ClosedAt
<1>2. GoesOn(a, b, M)
  BY RowsClosed
<1>a. PICK last \in Nat \ {0} : last = l + 1
  OBVIOUS
<1>3. PICK new : last = l + 1 /\ new = [i \in 0..e |-> IF i = e THEN last ELSE col[i]]
  BY <1>a
<1>4. /\ (e + 1) - 1 = e /\ 0..(e - 1) \subseteq 0..e /\ e \in 0..e
      /\ \A i \in 0..e : i = e \/ (i \in 0..(e - 1) /\ i # e)
  OBVIOUS
<1>5. 0 \in 0..(M - 1) /\ last \in 1..(l + 1)
  BY <1>3
<1>6. \A i \in 0..(e - 1) : col[i] \in Nat \ {0} /\ new[i] = col[i]
  BY <1>3, <1>4 DEF JoinsAt
<1>7. new[e] = last
  BY <1>3, <1>4
<1>8. new \in [0..e -> Nat \ {0}]
  BY <1>3, <1>4, <1>6, <1>7
<1>9. ASSUME NEW i \in 0..(e - 1) PROVE col[i] < last
  <2>1. col[i] \in DOMAIN a[0]
    BY <1>5 DEF JoinsAt
  <2>2. col[i] \in Nat /\ col[i] <= l
    BY <1>1, <1>5, <2>1
  <2>3. QED BY <1>3, <2>2
<1>10. ASSUME NEW i \in 0..e, NEW k \in 0..e, i < k PROVE new[i] < new[k]
  <2>1. i \in 0..(e - 1) /\ (k = e \/ k \in 0..(e - 1))
    BY <1>10
  <2>2. CASE k = e
    BY <1>6, <1>7, <1>9, <2>1, <2>2
  <2>3. CASE k \in 0..(e - 1)
    BY <1>6, <1>10, <2>1, <2>3 DEF JoinsAt
  <2>4. QED BY <2>1, <2>2, <2>3
<1>11. ASSUME NEW p \in 0..(M - 1), NEW i \in 0..e
       PROVE  /\ new[i] \in DOMAIN b[p] /\ b[p][new[i]] = b[0][new[i]]
              /\ b[p][new[i]].kind = "join" /\ b[p][new[i]].id = i
  <2>1. CASE i = e
    BY <1>1, <1>3, <1>5, <1>7, <2>1
  <2>2. CASE i \in 0..(e - 1)
    <3>1. /\ col[i] \in DOMAIN a[p] /\ a[p][col[i]] = a[0][col[i]] /\ col[i] \in DOMAIN a[0]
          /\ a[p][col[i]].kind = "join" /\ a[p][col[i]].id = i
      BY <1>5, <2>2 DEF JoinsAt
    <3>2. col[i] \in DOMAIN b[p] /\ b[p][col[i]] = a[p][col[i]] /\ b[0][col[i]] = a[0][col[i]]
      BY <1>2, <1>5, <3>1 DEF GoesOn
    <3>3. new[i] = col[i]
      BY <1>6, <2>2
    <3>4. QED BY <3>1, <3>2, <3>3
  <2>3. QED BY <1>4, <2>1, <2>2
<1>12. ASSUME NEW p \in 0..(M - 1), NEW c \in DOMAIN b[p], b[p][c].kind = "join"
       PROVE  \E i \in 0..e : c = new[i]
  <2>1. c = l + 1 \/ c \in 1..l
    BY <1>1
  <2>2. CASE c = l + 1
    BY <1>3, <1>4, <1>7, <2>2
  <2>3. CASE c \in 1..l
    <3>1. c \in DOMAIN a[p]
      BY <1>1, <1>12, <2>3
    <3>2. a[p][c].kind = "join"
      BY <1>2, <1>12, <3>1 DEF GoesOn
    <3>3. PICK i \in 0..(e - 1) : c = col[i]
      BY <3>1, <3>2 DEF JoinsAt
    <3>4. QED BY <1>4, <1>6, <3>3
  <2>4. QED BY <2>1, <2>2, <2>3
<1>13. JoinsAt(b, M, new, e + 1)
  BY <1>4, <1>8, <1>10, <1>11, <1>12 DEF JoinsAt
<1>14. \A p \in 0..(M - 1) : \A c \in DOMAIN a[p] : c \in Nat /\ c < last
  BY <1>1, <1>3
<1>15. QED BY <1>3, <1>13, <1>14

\* What is known of a place in the schedule.
LEMMA SubTaskFacts ==
    ASSUME NEW s, WellFormedSchedule(s), NEW i \in DOMAIN s
    PROVE  /\ Len(s) \in Nat /\ DOMAIN s = 1..Len(s)
           /\ Len(s[i].tasks) \in Nat /\ DOMAIN s[i].tasks = 1..Len(s[i].tasks)
           /\ \A j \in DOMAIN s[i].tasks :
                 /\ s[i].tasks[j].clients \in Nat \ {0}
                 /\ s[i].tasks[j].completes_parent \in BOOLEAN
<1>1. IsSeq(s) /\ IsElement(s[i])
  BY ScheduleParts
<1>2. Len(s) \in Nat /\ DOMAIN s = 1..Len(s)
  BY <1>1 DEF IsSeq
<1>3. PICK q : q = s[i].tasks /\ IsSeq(q) /\ \A j \in DOMAIN q : IsTask(q[j])
  BY <1>1 DEF IsElement
<1>4. Len(q) \in Nat /\ DOMAIN q = 1..Len(q)
  BY <1>3 DEF IsSeq
<1>5. \A j \in DOMAIN q : q[j].clients \in Nat \ {0} /\ q[j].completes_parent \in BOOLEAN
  BY <1>3 DEF IsTask
<1>6. QED BY <1>2, <1>3, <1>4, <1>5

\* The cell y is the one of client n of sub-task u of element e.
NewCell(y, s, e, u, n) ==
    y[3].name = s[e].tasks[u].name /\ y[3].client_index_in_task = n

\* Client n of sub-task u of element e gets its entry in a column behind the
\* last join point.
LEMMA ClientAllotted ==
    ASSUME NEW s, WellFormedSchedule(s), NamesUnique(s), NEW e \in DOMAIN s,
           NEW u \in DOMAIN s[e].tasks, NEW n \in 0..(s[e].tasks[u].clients - 1),
           NEW cells, NEW col, InItsStep(cells, s, col, e, u, n), HasEntry(cells, s, e, u, n),
           NoneTwice(cells), NEW y, NewCell(y, s, e, u, n), Between(col, e, e, y[2]),
           NEW more, more = cells \union {y}
    PROVE  /\ InItsStep(more, s, col, e, u, n + 1) /\ HasEntry(more, s, e, u, n + 1)
           /\ NoneTwice(more)
<1>1. /\ Len(s) \in Nat /\ DOMAIN s = 1..Len(s) /\ e \in 1..Len(s) /\ e \in 1..e
      /\ s[e].tasks[u].clients \in Nat /\ n \in Nat /\ u \in Nat
  BY SubTaskFacts
<1>2. \A i, j : \A k \in Nat :
         Allotted(i, j, k, e, u, n + 1) <=> Allotted(i, j, k, e, u, n) \/ (i = e /\ j = u /\ k = n)
  BY <1>1 DEF Allotted
<1>3. ASSUME NEW x \in cells PROVE ~NewCell(x, s, e, u, n)
  <2>1. PICK i \in 1..e : i <= Len(s) /\ \E j \in DOMAIN s[i].tasks :
              /\ x[3].name = s[i].tasks[j].name
              /\ Allotted(i, j, x[3].client_index_in_task, e, u, n)
    BY DEF InItsStep
  <2>2. PICK j \in DOMAIN s[i].tasks :
              /\ x[3].name = s[i].tasks[j].name
              /\ Allotted(i, j, x[3].client_index_in_task, e, u, n)
    BY <2>1
  <2>3. SUFFICES ASSUME NewCell(x, s, e, u, n) PROVE FALSE
    OBVIOUS
  <2>4. i \in DOMAIN s
    BY <1>1, <2>1
  <2>5. i = e /\ j = u
    <3>1. s[i].tasks[j].name = s[e].tasks[u].name
      BY <2>2, <2>3 DEF NewCell
    <3>2. \A k \in DOMAIN s : \A v \in DOMAIN s[i].tasks, z \in DOMAIN s[k].tasks :
              s[i].tasks[v].name = s[k].tasks[z].name => i = k /\ v = z
      BY <2>4 DEF NamesUnique
    <3>3. \A v \in DOMAIN s[i].tasks, z \in DOMAIN s[e].tasks :
              s[i].tasks[v].name = s[e].tasks[z].name => i = e /\ v = z
      BY <3>2
    <3>4. QED BY <2>2, <3>1, <3>3
  <2>6. Allotted(e, u, n, e, u, n)
    BY <2>2, <2>3, <2>5 DEF NewCell
  <2>7. QED BY <1>1, <2>6 DEF Allotted
<1>4. InItsStep(more, s, col, e, u, n + 1)
  <2>1. ASSUME NEW x \in more
        PROVE  \E i \in 1..e :
                  /\ i <= Len(s) /\ Between(col, i, e, x[2])
                  /\ \E j \in DOMAIN s[i].tasks :
                        /\ x[3].name = s[i].tasks[j].name
                        /\ x[3].client_index_in_task \in 0..(s[i].tasks[j].clients - 1)
                        /\ Allotted(i, j, x[3].client_index_in_task, e, u, n + 1)
    <3>1. CASE x \in cells
      <4>1. PICK i \in 1..e :
                  /\ i <= Len(s) /\ Between(col, i, e, x[2])
                  /\ \E j \in DOMAIN s[i].tasks :
                        /\ x[3].name = s[i].tasks[j].name
                        /\ x[3].client_index_in_task \in 0..(s[i].tasks[j].clients - 1)
                        /\ Allotted(i, j, x[3].client_index_in_task, e, u, n)
        BY <3>1 DEF InItsStep
      <4>2. PICK j \in DOMAIN s[i].tasks :
                        /\ x[3].name = s[i].tasks[j].name
                        /\ x[3].client_index_in_task \in 0..(s[i].tasks[j].clients - 1)
                        /\ Allotted(i, j, x[3].client_index_in_task, e, u, n)
        BY <4>1
      <4>3. Allotted(i, j, x[3].client_index_in_task, e, u, n + 1)
        BY <1>2, <4>2
      <4>4. QED BY <4>1, <4>2, <4>3
    <3>2. CASE x = y
      <4>1. Allotted(e, u, n, e, u, n + 1)
        BY <1>1, <1>2
      <4>2. x[3].name = s[e].tasks[u].name /\ x[3].client_index_in_task = n
        BY <3>2 DEF NewCell
      <4>3. e \in 1..e /\ e <= Len(s) /\ Between(col, e, e, x[2])
        BY <1>1, <3>2
      <4>4. QED BY <4>1, <4>2, <4>3
    <3>3. QED BY <3>1, <3>2
  <2>2. QED BY <2>1 DEF InItsStep
<1>5. HasEntry(more, s, e, u, n + 1)
  <2>1. ASSUME NEW i \in DOMAIN s, NEW j \in DOMAIN s[i].tasks,
               NEW k \in 0..(s[i].tasks[j].clients - 1), Allotted(i, j, k, e, u, n + 1)
        PROVE  \E x \in more : x[3].name = s[i].tasks[j].name /\ x[3].client_index_in_task = k
    <3>1. k \in Nat
      BY SubTaskFacts
    <3>2. CASE Allotted(i, j, k, e, u, n)
      <4>1. \E x \in cells : x[3].name = s[i].tasks[j].name /\ x[3].client_index_in_task = k
        BY <3>2 DEF HasEntry
      <4>2. QED BY <4>1
    <3>3. CASE i = e /\ j = u /\ k = n
      BY <3>3 DEF NewCell
    <3>4. QED BY <1>2, <2>1, <3>1, <3>2, <3>3
  <2>2. QED BY <2>1 DEF HasEntry
<1>6. NoneTwice(more)
  BY <1>3 DEF NoneTwice, NewCell
<1>7. QED BY <1>4, <1>5, <1>6

\* What is allotted stays so when the counters move to the next sub-task or
\* element.
LEMMA SameAllotted ==
    ASSUME NEW s, WellFormedSchedule(s), NEW cells, NEW col, NEW new, NEW e \in DOMAIN s,
           NEW u, NEW n, NEW f \in Nat, NEW v, NEW m, e <= f,
           \A i \in DOMAIN s : \A j \in DOMAIN s[i].tasks :
              \A k \in 0..(s[i].tasks[j].clients - 1) :
                 Allotted(i, j, k, e, u, n) <=> Allotted(i, j, k, f, v, m),
           \A x \in cells : \A i \in 1..e : Between(col, i, e, x[2]) => Between(new, i, f, x[2]),
           InItsStep(cells, s, col, e, u, n), HasEntry(cells, s, e, u, n)
    PROVE  InItsStep(cells, s, new, f, v, m) /\ HasEntry(cells, s, f, v, m)
<1>1. ASSUME NEW x \in cells
      PROVE  \E i \in 1..f :
                  /\ i <= Len(s) /\ Between(new, i, f, x[2])
                  /\ \E j \in DOMAIN s[i].tasks :
                        /\ x[3].name = s[i].tasks[j].name
                        /\ x[3].client_index_in_task \in 0..(s[i].tasks[j].clients - 1)
                        /\ Allotted(i, j, x[3].client_index_in_task, f, v, m)
  <2>1. PICK i \in 1..e :
                  /\ i <= Len(s) /\ Between(col, i, e, x[2])
                  /\ \E j \in DOMAIN s[i].tasks :
                        /\ x[3].name = s[i].tasks[j].name
                        /\ x[3].client_index_in_task \in 0..(s[i].tasks[j].clients - 1)
                        /\ Allotted(i, j, x[3].client_index_in_task, e, u, n)
    BY DEF InItsStep
  <2>2. i \in DOMAIN s /\ i \in 1..f
    BY <2>1, SubTaskFacts
  <2>3. Between(new, i, f, x[2])
    BY <2>1
  <2>4. QED BY <2>1, <2>2, <2>3
<1>2. HasEntry(cells, s, f, v, m)
  BY DEF HasEntry
<1>3. QED BY <1>1, <1>2 DEF InItsStep

\* The name of a completing sub-task.
LEMMA CompletingName ==
    ASSUME NEW s, NamesUnique(s), NEW e \in DOMAIN s, NEW u \in DOMAIN s[e].tasks
    PROVE  s[e].tasks[u].name \in CompletingNames(s[e]) <=> s[e].tasks[u].completes_parent
<1>1. ASSUME s[e].tasks[u].name \in CompletingNames(s[e]) PROVE s[e].tasks[u].completes_parent
  <2>1. PICK j \in DOMAIN s[e].tasks :
            s[e].tasks[j].completes_parent /\ s[e].tasks[u].name = s[e].tasks[j].name
    BY <1>1 DEF CompletingNames
  <2>2. u = j
    BY <2>1, ZenonT(30) DEF NamesUnique
  <2>3. QED BY <2>1, <2>2
<1>2. ASSUME s[e].tasks[u].completes_parent PROVE s[e].tasks[u].name \in CompletingNames(s[e])
  BY <1>2 DEF CompletingNames
<1>3. QED BY <1>1, <1>2

\* The cell y is behind the last join point.
BehindLast(col, e, y) == y[2] \in Nat /\ col[e - 1] < y[2]

\* Client p of sub-task u of element e may have to be waited for.
Noted(s, e, u, p, cs, ds) ==
    ds = IF s[e].tasks[u].completes_parent THEN Append(cs, p) ELSE cs

\* The join points name the clients of the tasks before them when a client gets its entry.
LEMMA ClientNamed ==
    ASSUME NEW s, WellFormedSchedule(s), NamesUnique(s), NEW e \in DOMAIN s,
           NEW u \in DOMAIN s[e].tasks, NEW n,
           NEW M \in Nat \ {0}, NEW a, NEW b, GoesOn(a, b, M), NEW col, JoinsAt(a, M, col, e),
           NEW y, NewCell(y, s, e, u, n), BehindLast(col, e, y), OneMoreCell(a, b, M, y),
           NEW cs, Named(a, M, s, col, e, cs), NEW ds, Noted(s, e, u, y[1], cs, ds)
    PROVE  Named(b, M, s, col, e, ds)
<1>1. Len(s) \in Nat /\ DOMAIN s = 1..Len(s) /\ e \in Nat \ {0} /\ e <= Len(s)
  BY SubTaskFacts
<1>2. PICK A, B : A = TaskCells(a, M) /\ B = TaskCells(b, M) /\ B = A \union {y}
  BY DEF OneMoreCell
<1>3. Between(col, e, e, y[2]) /\ y[2] \in Nat /\ col[e - 1] < y[2]
  BY <1>1 DEF Between, BehindLast
<1>4. ASSUME NEW i \in 1..(e - 1) PROVE ~Between(col, i, e, y[2])
  <2>1. i \in 0..(e - 1) /\ e - 1 \in 0..(e - 1) /\ i < e
    BY <1>1
  <2>2. col[i] \in Nat /\ col[e - 1] \in Nat /\ (i < e - 1 => col[i] < col[e - 1])
    BY <2>1 DEF JoinsAt
  <2>3. col[i] <= col[e - 1]
    BY <1>1, <2>1, <2>2
  <2>4. QED BY <1>3, <2>1, <2>2, <2>3 DEF Between
<1>5. ASSUME NEW i \in 1..(e - 1)
      PROVE  Entries(b[0][col[i]].clients) = Completers(B, s, col, e, i)
  <2>1. i \in 0..(e - 1) /\ 0 \in 0..(M - 1)
    BY <1>1
  <2>2. b[0][col[i]] = a[0][col[i]]
    BY <2>1 DEF GoesOn, JoinsAt
  <2>3. Completers(B, s, col, e, i) = Completers(A, s, col, e, i)
    BY <1>2, <1>4 DEF Completers
  <2>4. QED BY <1>2, <2>2, <2>3 DEF Named
<1>6. PICK N : N = CompletingNames(s[e])
  OBVIOUS
<1>7. y[3].name \in N <=> s[e].tasks[u].completes_parent
  BY <1>6, CompletingName DEF NewCell
<1>8. IsSeq(cs) /\ Entries(cs) = Completers(A, s, col, e, e)
  BY <1>1, <1>2 DEF Named
<1>d. ds = IF s[e].tasks[u].completes_parent THEN Append(cs, y[1]) ELSE cs
  BY DEF Noted
<1>9. IsSeq(ds) /\ Entries(ds) = Completers(B, s, col, e, e)
  <2>1. CASE s[e].tasks[u].completes_parent
    <3>1. OneMoreEntry(cs, y[1], ds)
      BY <1>8, <1>d, <2>1, RowAppended
    <3>2. IsSeq(ds) /\ Entries(ds) = Entries(cs) \union {y[1]}
      BY <3>1 DEF OneMoreEntry
    <3>3. Completers(B, s, col, e, e) = Completers(A, s, col, e, e) \union {y[1]}
      BY <1>2, <1>3, <1>6, <1>7, <2>1 DEF Completers
    <3>4. QED BY <1>8, <3>2, <3>3
  <2>2. CASE ~s[e].tasks[u].completes_parent
    <3>1. Completers(B, s, col, e, e) = Completers(A, s, col, e, e)
      BY <1>2, <1>6, <1>7, <2>2 DEF Completers
    <3>2. QED BY <1>8, <1>d, <2>2, <3>1
  <2>3. QED BY <2>1, <2>2
<1>10. QED BY <1>2, <1>5, <1>9 DEF Named

\* Before the new join point nothing changes.
LEMMA BetweenClosed ==
    ASSUME NEW e \in Nat \ {0}, NEW col, NEW last, NEW new,
           new = [i \in 0..e |-> IF i = e THEN last ELSE col[i]],
           NEW c, c < last, NEW i \in 1..e
    PROVE  Between(new, i, e + 1, c) <=> Between(col, i, e, c)
<1>1. i - 1 \in 0..e /\ i - 1 # e /\ i \in 0..e /\ i < e + 1 /\ (i = e \/ i < e) /\ ~(e < e)
  OBVIOUS
<1>2. new[i - 1] = col[i - 1] /\ new[i] = IF i = e THEN last ELSE col[i]
  BY <1>1
<1>3. QED BY <1>1, <1>2 DEF Between

\* The join point of a finished element names its completing clients.
LEMMA ElementNamed ==
    ASSUME NEW s, WellFormedSchedule(s), NEW e \in DOMAIN s,
           NEW M \in Nat \ {0}, NEW a, NEW b, GoesOn(a, b, M), NEW col, JoinsAt(a, M, col, e),
           NEW cs, Named(a, M, s, col, e, cs), TaskCells(b, M) = TaskCells(a, M),
           NEW last \in Nat, NEW new, new = [i \in 0..e |-> IF i = e THEN last ELSE col[i]],
           \A p \in 0..(M - 1) : \A c \in DOMAIN a[p] : c \in Nat /\ c < last,
           b[0][last].clients = cs
    PROVE  Named(b, M, s, new, e + 1, <<>>)
<1>1. Len(s) \in Nat /\ DOMAIN s = 1..Len(s) /\ e \in Nat \ {0} /\ e <= Len(s)
  BY SubTaskFacts
<1>2. PICK A : A = TaskCells(a, M) /\ A = TaskCells(b, M)
  OBVIOUS
<1>3. ASSUME NEW x \in A PROVE x[2] \in Nat /\ x[2] < last
  BY <1>2, CellFacts
<1>4. ASSUME NEW i \in 1..e PROVE Completers(A, s, new, e + 1, i) = Completers(A, s, col, e, i)
  <2>1. ASSUME NEW x \in A PROVE Between(new, i, e + 1, x[2]) <=> Between(col, i, e, x[2])
    BY <1>1, <1>3, BetweenClosed
  <2>2. QED BY <2>1 DEF Completers
<1>5. ASSUME NEW i \in 1..e
      PROVE  Entries(b[0][new[i]].clients) = Completers(A, s, new, e + 1, i)
  <2>1. CASE i = e
    <3>1. e \in 0..e /\ new[e] = last
      BY <1>1
    <3>2. QED BY <1>1, <1>2, <1>4, <2>1, <3>1 DEF Named
  <2>2. CASE i # e
    <3>1. i \in 0..(e - 1) /\ i \in 1..(e - 1) /\ 0 \in 0..(M - 1) /\ i \in 0..e
      BY <1>1, <2>2
    <3>2. new[i] = col[i]
      BY <2>2, <3>1
    <3>3. b[0][col[i]] = a[0][col[i]]
      BY <3>1 DEF GoesOn, JoinsAt
    <3>4. QED BY <1>2, <1>4, <3>1, <3>2, <3>3 DEF Named
  <2>3. QED BY <2>1, <2>2
<1>6. Entries(<<>>) = Completers(A, s, new, e + 1, e + 1)
  <2>1. (e + 1) - 1 = e /\ e \in 0..e
    BY <1>1
  <2>2. new[e] = last
    BY <2>1
  <2>3. ASSUME NEW x \in A PROVE ~Between(new, e + 1, e + 1, x[2])
    BY <1>3, <2>1, <2>2 DEF Between
  <2>4. Completers(A, s, new, e + 1, e + 1) = {}
    BY <2>3 DEF Completers
  <2>5. QED BY <2>4, ShortSeqs DEF Entries
<1>7. (e + 1) - 1 = e
  BY <1>1
<1>8. QED BY <1>2, <1>5, <1>6, <1>7, ShortSeqs DEF Named

\* The next client gets its entry.
LEMMA AllocateClientStep ==
    ASSUME NEW s, WellFormedSchedule(s), NamesUnique(s), NEW e \in DOMAIN s,
           NEW u \in DOMAIN s[e].tasks, NEW n \in Nat, n < s[e].tasks[u].clients,
           NEW M \in Nat \ {0}, NEW g \in Nat, NEW a, RowsOf(a, M, g % M),
           NEW col, NEW cs, MatrixUpTo(a, M, s, col, e, u, n, cs),
           NEW x, x.kind = "task", x.name = s[e].tasks[u].name, x.client_index_in_task = n,
           NEW b, b = [a EXCEPT ![g % M] = Append(@, x)],
           NEW ds, ds = IF s[e].tasks[u].completes_parent THEN Append(cs, g % M) ELSE cs
    PROVE  RowsOf(b, M, (g + 1) % M) /\ MatrixUpTo(b, M, s, col, e, u, n + 1, ds)
<1>1. PICK p \in 0..(M - 1) : p = g % M
  BY NextRemainder
<1>2. RowsOf(b, M, (g + 1) % M)
  BY RowsOneMore
<1>3. /\ JoinsAt(a, M, col, e) /\ InItsStep(TaskCells(a, M), s, col, e, u, n)
      /\ HasEntry(TaskCells(a, M), s, e, u, n) /\ NoneTwice(TaskCells(a, M))
      /\ Named(a, M, s, col, e, cs)
  BY DEF MatrixUpTo
<1>4. RowsOf(a, M, p) /\ b = [a EXCEPT ![p] = Append(@, x)]
  BY <1>1
<1>5. GoesOn(a, b, M) /\ Longer(a, b, M, p, x)
  BY <1>4, OneRowGrows
<1>6. PICK y : y = <<p, Len(a[p]) + 1, x>>
  OBVIOUS
<1>7. TaskCells(b, M) = TaskCells(a, M) \union {y}
  <2>1. OneMoreCell(a, b, M, <<p, Len(a[p]) + 1, x>>)
    BY <1>4, CellsOneMore
  <2>2. QED BY <1>6, <2>1 DEF OneMoreCell
<1>8. y[1] = p /\ y[2] = Len(a[p]) + 1 /\ y[3] = x
  BY <1>6
<1>9. NewCell(y, s, e, u, n)
  BY <1>8 DEF NewCell
<1>10. Len(s) \in Nat /\ e \in Nat \ {0} /\ s[e].tasks[u].clients \in Nat
  BY SubTaskFacts
<1>11. col[e - 1] < y[2] /\ y[2] \in Nat
  <2>1. e - 1 \in 0..(e - 1)
    BY <1>10
  <2>2. col[e - 1] \in DOMAIN a[p]
    BY <1>3, <2>1 DEF JoinsAt
  <2>3. Len(a[p]) \in Nat /\ DOMAIN a[p] = 1..Len(a[p])
    BY <1>5 DEF Longer
  <2>4. QED BY <1>8, <2>2, <2>3
<1>12. Between(col, e, e, y[2])
  BY <1>10, <1>11 DEF Between
<1>13. n \in 0..(s[e].tasks[u].clients - 1)
  BY <1>10
<1>14. /\ InItsStep(TaskCells(b, M), s, col, e, u, n + 1)
       /\ HasEntry(TaskCells(b, M), s, e, u, n + 1) /\ NoneTwice(TaskCells(b, M))
  BY <1>3, <1>7, <1>9, <1>12, <1>13, ClientAllotted
<1>15. JoinsAt(b, M, col, e)
  BY <1>3, <1>4, <1>10, JoinsStay
<1>16. Named(b, M, s, col, e, ds)
  <2>1. Noted(s, e, u, y[1], cs, ds) /\ BehindLast(col, e, y) /\ OneMoreCell(a, b, M, y)
    BY <1>1, <1>7, <1>8, <1>11 DEF Noted, BehindLast, OneMoreCell
  <2>2. JoinsAt(a, M, col, e) /\ Named(a, M, s, col, e, cs) /\ GoesOn(a, b, M)
    BY <1>3, <1>5
  <2>3. QED BY ONLY WellFormedSchedule(s), NamesUnique(s), e \in DOMAIN s,
               u \in DOMAIN s[e].tasks, M \in Nat \ {0}, <1>9, <2>1, <2>2,
               ClientNamed
<1>17. QED BY <1>2, <1>14, <1>15, <1>16 DEF MatrixUpTo

\* The next sub-task.
LEMMA NextSubTaskStep ==
    ASSUME NEW s, WellFormedSchedule(s), NEW e \in DOMAIN s, NEW u \in DOMAIN s[e].tasks,
           NEW M, NEW a, NEW col, NEW cs,
           MatrixUpTo(a, M, s, col, e, u, s[e].tasks[u].clients, cs)
    PROVE  MatrixUpTo(a, M, s, col, e, u + 1, 0, cs)
<1>1. PICK n : n = s[e].tasks[u].clients /\ n \in Nat /\ e \in Nat /\ u \in Nat
  BY SubTaskFacts
<1>2. ASSUME NEW i \in DOMAIN s, NEW j \in DOMAIN s[i].tasks,
             NEW k \in 0..(s[i].tasks[j].clients - 1)
      PROVE  Allotted(i, j, k, e, u, n) <=> Allotted(i, j, k, e, u + 1, 0)
  <2>1. i \in Nat /\ j \in Nat /\ k \in Nat /\ s[i].tasks[j].clients \in Nat
    BY SubTaskFacts
  <2>2. i = e /\ j = u => k < n
    BY <1>1, <2>1
  <2>3. QED BY <1>1, <2>1, <2>2 DEF Allotted
<1>3. PICK cells : cells = TaskCells(a, M)
  OBVIOUS
<1>4. InItsStep(cells, s, col, e, u, n) /\ HasEntry(cells, s, e, u, n)
  BY <1>1, <1>3 DEF MatrixUpTo
<1>5. InItsStep(cells, s, col, e, u + 1, 0) /\ HasEntry(cells, s, e, u + 1, 0)
  BY <1>1, <1>2, <1>4, SameAllotted
<1>6. QED BY <1>3, <1>5 DEF MatrixUpTo

\* The element is finished.
LEMMA FinishElementStep ==
    ASSUME NEW s, WellFormedSchedule(s), NEW e \in DOMAIN s, NEW u \in Nat,
           u > Len(s[e].tasks), NEW M \in Nat \ {0}, NEW r \in 0..(M - 1),
           NEW a, RowsOf(a, M, r), NEW col, NEW cs, MatrixUpTo(a, M, s, col, e, u, 0, cs),
           NEW x, x.kind = "join", x.id = e, x.clients = cs,
           NEW b, b = Closed(a, M, r, x)
    PROVE  RowsOf(b, M, 0) /\ \E new : MatrixUpTo(b, M, s, new, e + 1, 1, 0, <<>>)
<1>1. Len(s) \in Nat /\ DOMAIN s = 1..Len(s) /\ e \in Nat \ {0}
  BY SubTaskFacts
<1>2. /\ JoinsAt(a, M, col, e) /\ InItsStep(TaskCells(a, M), s, col, e, u, 0)
      /\ HasEntry(TaskCells(a, M), s, e, u, 0) /\ NoneTwice(TaskCells(a, M))
      /\ Named(a, M, s, col, e, cs)
  BY DEF MatrixUpTo
<1>3. RowsOf(b, M, 0) /\ GoesOn(a, b, M) /\ \E l \in Nat : ClosedAt(a, b, M, l, x)
  BY RowsClosed
<1>4. PICK last \in Nat \ {0} : \E new :
               /\ new = [i \in 0..e |-> IF i = e THEN last ELSE col[i]]
               /\ JoinsAt(b, M, new, e + 1)
               /\ \A p \in 0..(M - 1) : \A c \in DOMAIN a[p] : c \in Nat /\ c < last
  BY <1>1, <1>2, JoinAdded, SMTT(30)
<1>5. PICK new : /\ new = [i \in 0..e |-> IF i = e THEN last ELSE col[i]]
                 /\ JoinsAt(b, M, new, e + 1)
                 /\ \A p \in 0..(M - 1) : \A c \in DOMAIN a[p] : c \in Nat /\ c < last
  BY <1>4
<1>6. PICK l \in Nat : ClosedAt(a, b, M, l, x)
  BY <1>3
<1>7. TaskCells(b, M) = TaskCells(a, M)
  <2>1. ASSUME NEW p \in 0..(M - 1), NEW c \in DOMAIN b[p]
        PROVE  c \in DOMAIN a[p] \/ b[p][c].kind # "task"
    <3>1. c \in 1..(l + 1) /\ b[p][l + 1] = x
      BY <1>6 DEF ClosedAt
    <3>2. CASE c = l + 1
      BY <3>1, <3>2
    <3>3. CASE c # l + 1
      <4>1. c \in 1..l
        BY <3>1, <3>3
      <4>2. QED BY <1>6, <4>1 DEF ClosedAt
    <3>4. QED BY <3>2, <3>3
  <2>2. QED BY <1>3, <2>1, SameCells
<1>8. b[0][last] = x
  <2>1. 0 \in 0..(M - 1) /\ e \in 0..e /\ (e + 1) - 1 = e
    BY <1>1
  <2>2. new[e] = last
    BY <1>5, <2>1
  <2>3. last \in DOMAIN b[0] /\ b[0][last].kind = "join"
    <3>1. \A i \in 0..e : new[i] \in DOMAIN b[0] /\ b[0][new[i]].kind = "join"
      BY <1>5, <2>1, ZenonT(40) DEF JoinsAt
    <3>2. QED BY <2>1, <2>2, <3>1
  <2>4. last = l + 1
    <3>1. last \in 1..(l + 1)
      BY <1>6, <2>1, <2>3 DEF ClosedAt
    <3>2. ASSUME last \in 1..l PROVE FALSE
      <4>1. last \in DOMAIN a[0]
        BY <1>6, <2>1, <2>3, <3>2 DEF ClosedAt
      <4>2. last < last
        BY <1>5, <2>1, <4>1
      <4>3. QED BY <4>2
    <3>3. QED BY <3>1, <3>2
  <2>5. QED BY <1>6, <2>1, <2>4 DEF ClosedAt
<1>9. PICK cells : cells = TaskCells(a, M)
  OBVIOUS
<1>10. ASSUME NEW i \in DOMAIN s, NEW j \in DOMAIN s[i].tasks,
              NEW k \in 0..(s[i].tasks[j].clients - 1)
       PROVE  Allotted(i, j, k, e, u, 0) <=> Allotted(i, j, k, e + 1, 1, 0)
  <2>1. /\ i \in Nat /\ j \in Nat \ {0} /\ k \in Nat
        /\ (i = e => j <= Len(s[e].tasks)) /\ Len(s[e].tasks) \in Nat
    BY SubTaskFacts
  <2>2. i = e => j < u
    BY <2>1
  <2>3. QED BY <1>1, <2>1, <2>2 DEF Allotted
<1>11. ASSUME NEW y \in cells, NEW i \in 1..e, Between(col, i, e, y[2])
       PROVE  Between(new, i, e + 1, y[2])
  <2>1. y[2] < last
    BY <1>5, <1>9, CellFacts
  <2>2. QED BY <1>1, <1>5, <1>11, <2>1, BetweenClosed
<1>12. InItsStep(cells, s, new, e + 1, 1, 0) /\ HasEntry(cells, s, e + 1, 1, 0)
  <2>1. e + 1 \in Nat /\ e <= e + 1
    BY <1>1
  <2>2. InItsStep(cells, s, col, e, u, 0) /\ HasEntry(cells, s, e, u, 0)
    BY <1>2, <1>9
  <2>3. PICK f \in Nat : f = e + 1
    BY <2>1
  <2>4. /\ \A i \in DOMAIN s : \A j \in DOMAIN s[i].tasks :
              \A k \in 0..(s[i].tasks[j].clients - 1) :
                 Allotted(i, j, k, e, u, 0) <=> Allotted(i, j, k, f, 1, 0)
        /\ \A y \in cells : \A i \in 1..e : Between(col, i, e, y[2]) => Between(new, i, f, y[2])
    BY <1>10, <1>11, <2>3
  <2>5. e <= f
    BY <2>1, <2>3
  <2>6. InItsStep(cells, s, new, f, 1, 0) /\ HasEntry(cells, s, f, 1, 0)
    BY ONLY WellFormedSchedule(s), e \in DOMAIN s, f \in Nat, <2>2, <2>4, <2>5, SameAllotted
  <2>7. QED BY <2>3, <2>6
<1>13. Named(b, M, s, new, e + 1, <<>>)
  <2>1. b[0][last].clients = cs
    BY <1>8
  <2>2. last \in Nat
    BY <1>4
  <2>3. QED BY <1>2, <1>3, <1>5, <1>7, <2>1, <2>2, ElementNamed
<1>14. MatrixUpTo(b, M, s, new, e + 1, 1, 0, <<>>)
  BY <1>2, <1>5, <1>7, <1>9, <1>12, <1>13 DEF MatrixUpTo
<1>15. QED BY <1>3, <1>14

\* A filter keeps the order.
LEMMA RemainingInOrder ==
    ASSUME NEW s, IsSeq(s), NEW kept, NEW D, InOrder(s, D)
    PROVE  InOrder(Remaining(s, kept), D)
<1>1. PICK q : q = [i \in DOMAIN s |-> IF i \in kept THEN <<s[i]>> ELSE <<>>]
  OBVIOUS
<1>2. DOMAIN q = DOMAIN s /\ q = [i \in DOMAIN s |-> q[i]]
  BY <1>1
<1>3. IsSeqOfSeqs(q)
  <2>1. IsSeq(q)
    BY <1>2, MappedSeq
  <2>2. \A i \in DOMAIN q : IsSeq(q[i])
    BY <1>1, ShortSeqs
  <2>3. QED BY <2>1, <2>2 DEF IsSeqOfSeqs
<1>4. PICK S : q \in Seq(Seq(S)) /\ DOMAIN q = 1..Len(q)
  BY <1>3, SeqOfSeqs
<1>5. \A i \in DOMAIN q : \A j \in DOMAIN q[i] : j = 1 /\ q[i][j] = s[i]
  BY <1>1, ShortSeqs
<1>6. ASSUME NEW i \in 1..Len(q) PROVE InOrder(q[i], D)
  <2>1. \A m, k \in DOMAIN q[i] : m = 1 /\ k = 1
    BY <1>4, <1>5
  <2>2. QED BY <2>1 DEF InOrder
<1>7. ASSUME NEW i \in 1..Len(q), NEW k \in 1..Len(q), i < k
      PROVE  \A j \in DOMAIN q[i], l \in DOMAIN q[k] : <<q[i][j], q[k][l]>> \in D
  BY <1>2, <1>4, <1>5, <1>7 DEF InOrder
<1>8. PICK f : f = FlattenSeq(q)
  OBVIOUS
<1>9. InOrder(f, D)
  BY <1>4, <1>6, <1>7, <1>8, FlattenedPairs
<1>10. f = Remaining(s, kept)
  BY <1>1, <1>8 DEF Remaining
<1>11. QED BY <1>9, <1>10

\* What is kept is there.
LEMMA KeptEntry ==
    ASSUME NEW s, IsSeq(s), NEW kept, NEW i \in DOMAIN s, i \in kept
    PROVE  DOMAIN Remaining(s, kept) # {}
<1>1. PICK q : q = [k \in DOMAIN s |-> IF k \in kept THEN <<s[k]>> ELSE <<>>]
  OBVIOUS
<1>2. DOMAIN q = DOMAIN s /\ q = [k \in DOMAIN s |-> q[k]]
  BY <1>1
<1>3. IsSeqOfSeqs(q)
  <2>1. IsSeq(q)
    BY <1>2, MappedSeq
  <2>2. \A k \in DOMAIN q : IsSeq(q[k])
    BY <1>1, ShortSeqs
  <2>3. QED BY <2>1, <2>2 DEF IsSeqOfSeqs
<1>4. PICK f : f = FlattenSeq(q) /\ SameElements(f, q)
  BY <1>3, FlattenedElements
<1>5. i \in DOMAIN q /\ 1 \in DOMAIN q[i]
  BY <1>1, ShortSeqs
<1>6. DOMAIN f # {}
  BY <1>4, <1>5 DEF SameElements
<1>7. f = Remaining(s, kept)
  BY <1>1, <1>4 DEF Remaining
<1>8. QED BY <1>6, <1>7

\* Names are unique when they are so for the earlier and the later ones.
NamesApart(f) ==
    /\ \A i, k \in DOMAIN f : i < k => NamesOf(f[i]) \intersect NamesOf(f[k]) = {}
    /\ \A i \in DOMAIN f : \A j, l \in DOMAIN f[i].tasks :
          j < l => f[i].tasks[j].name # f[i].tasks[l].name

LEMMA UniqueByPairs ==
    ASSUME NEW f, WellFormedSchedule(f)
    PROVE  NamesUnique(f) <=> NamesApart(f)
<1>1. /\ DOMAIN f \subseteq Nat /\ \A i \in DOMAIN f : DOMAIN f[i].tasks \subseteq Nat
  BY SubTaskFacts
<1>2. ASSUME NamesUnique(f) PROVE NamesApart(f)
  <2>1. ASSUME NEW i \in DOMAIN f, NEW k \in DOMAIN f, i < k,
               NEW x \in NamesOf(f[i]) \intersect NamesOf(f[k])
        PROVE  FALSE
    <3>1. PICK j \in DOMAIN f[i].tasks : x = f[i].tasks[j].name
      BY DEF NamesOf
    <3>2. PICK l \in DOMAIN f[k].tasks : x = f[k].tasks[l].name
      BY DEF NamesOf
    <3>3. i = k
      BY <1>2, <3>1, <3>2 DEF NamesUnique
    <3>4. QED BY <1>1, <2>1, <3>3
  <2>2. ASSUME NEW i \in DOMAIN f, NEW j \in DOMAIN f[i].tasks, NEW l \in DOMAIN f[i].tasks,
               j < l, f[i].tasks[j].name = f[i].tasks[l].name
        PROVE  FALSE
    <3>1. j = l
      BY <1>2, <2>2 DEF NamesUnique
    <3>2. QED BY <1>1, <2>2, <3>1
  <2>3. QED BY <2>1, <2>2 DEF NamesApart
<1>3. ASSUME NamesApart(f) PROVE NamesUnique(f)
  <2>1. ASSUME NEW i \in DOMAIN f, NEW k \in DOMAIN f, NEW j \in DOMAIN f[i].tasks,
               NEW l \in DOMAIN f[k].tasks, f[i].tasks[j].name = f[k].tasks[l].name
        PROVE  i = k /\ j = l
    <3>1. f[i].tasks[j].name \in NamesOf(f[i]) /\ f[i].tasks[j].name \in NamesOf(f[k])
      BY <2>1 DEF NamesOf
    <3>2. ~(i < k) /\ ~(k < i)
      BY <1>3, <3>1 DEF NamesApart
    <3>3. i = k
      BY <1>1, <3>2
    <3>4. ~(j < l) /\ ~(l < j)
      BY <1>3, <2>1, <3>3 DEF NamesApart
    <3>5. QED BY <1>1, <3>3, <3>4
  <2>2. QED BY <2>1 DEF NamesUnique
<1>4. QED BY <1>2, <1>3

\* The task filter keeps the names unique, and one that includes tasks leaves no element
\* without tasks.
LEMMA FilteredNames ==
    ASSUME NEW mode, NEW names, WellFormedSchedule(schedule), NamesUnique(schedule)
    PROVE  /\ NamesUnique(FilteredSchedule(mode, names))
           /\ mode = "include" => NoElementEmpty(FilteredSchedule(mode, names))
<1>1. IsSeq(schedule) /\ \A i \in DOMAIN schedule : IsElement(schedule[i])
  BY ScheduleParts
<1>2. PICK K : K = {i \in DOMAIN schedule : ~FilterOut(schedule[i], mode, names)}
  OBVIOUS
<1>3. PICK S : S = {schedule[i] : i \in DOMAIN schedule}
  OBVIOUS
<1>4. PICK D : D = {x \in S \X S : NamesOf(x[1]) \intersect NamesOf(x[2]) = {}}
  OBVIOUS
<1>5. NamesApart(schedule)
  BY UniqueByPairs
<1>6. InOrder(schedule, D)
  BY <1>3, <1>4, <1>5 DEF InOrder, NamesApart
<1>7. PICK kept : /\ kept = Remaining(schedule, K) /\ IsSeq(kept) /\ InOrder(kept, D)
                  /\ \A m \in DOMAIN kept :
                        \E i \in DOMAIN schedule : i \in K /\ kept[m] = schedule[i]
  BY <1>1, <1>6, RemainingEntries, RemainingInOrder
<1>8. PICK f : f = [i \in DOMAIN kept |-> Filtered(kept[i], mode, names)]
  OBVIOUS
<1>9. f = FilteredSchedule(mode, names)
  BY <1>2, <1>7, <1>8 DEF FilteredSchedule
<1>10. WellFormedSchedule(f)
  BY <1>9, FilteredWellFormed
<1>11. ASSUME NEW m \in DOMAIN f
       PROVE  /\ NamesOf(f[m]) \subseteq NamesOf(kept[m])
              /\ \A j, l \in DOMAIN f[m].tasks : j < l => f[m].tasks[j].name # f[m].tasks[l].name
              /\ mode = "include" /\ NamesOf(kept[m]) \intersect names # {}
                    => DOMAIN f[m].tasks # {}
  <2>1. PICK i \in DOMAIN schedule : kept[m] = schedule[i]
    BY <1>7, <1>8
  <2>2. PICK e : e = kept[m] /\ IsElement(e) /\ f[m] = Filtered(e, mode, names)
    BY <1>1, <1>8, <2>1
  <2>3. PICK L : L = {j \in DOMAIN e.tasks : ~FilterOutTask(e.tasks[j], mode, names)}
    OBVIOUS
  <2>4. PICK R : R = {e.tasks[j] : j \in DOMAIN e.tasks}
    OBVIOUS
  <2>5. PICK O : O = {x \in R \X R : x[1].name # x[2].name}
    OBVIOUS
  <2>6. InOrder(e.tasks, O)
    BY <1>5, <2>1, <2>2, <2>4, <2>5 DEF InOrder, NamesApart
  <2>7. PICK ts : /\ ts = Remaining(e.tasks, L) /\ IsSeq(ts) /\ InOrder(ts, O)
                  /\ \A k \in DOMAIN ts : \E j \in DOMAIN e.tasks : ts[k] = e.tasks[j]
    BY <2>2, <2>6, RemainingEntries, RemainingInOrder DEF IsElement
  <2>8. f[m] = [e EXCEPT !.tasks = ts]
    BY <2>2, <2>3, <2>7 DEF Filtered, IsElement
  <2>9. f[m].tasks = ts
    BY <2>2, <2>8 DEF IsElement
  <2>10. NamesOf(f[m]) \subseteq NamesOf(e)
    BY <2>7, <2>9 DEF NamesOf
  <2>11. \A j, l \in DOMAIN ts : j < l => ts[j].name # ts[l].name
    BY <2>5, <2>7 DEF InOrder
  <2>12. ASSUME mode = "include", NamesOf(e) \intersect names # {} PROVE DOMAIN ts # {}
    <3>1. PICK j \in DOMAIN e.tasks : e.tasks[j].name \in names
      BY <2>12 DEF NamesOf
    <3>2. j \in L
      BY <2>3, <2>12, <3>1 DEF FilterOutTask
    <3>3. QED BY <2>2, <2>7, <3>1, <3>2, KeptEntry DEF IsElement
  <2>13. QED BY <2>2, <2>9, <2>10, <2>11, <2>12
<1>12. NamesUnique(f)
  <2>1. ASSUME NEW i \in DOMAIN f, NEW k \in DOMAIN f, i < k
        PROVE  NamesOf(f[i]) \intersect NamesOf(f[k]) = {}
    <3>1. i \in DOMAIN kept /\ k \in DOMAIN kept
      BY <1>8
    <3>2. <<kept[i], kept[k]>> \in D
      BY <1>7, <2>1, <3>1 DEF InOrder
    <3>3. NamesOf(kept[i]) \intersect NamesOf(kept[k]) = {}
      BY <1>4, <3>2
    <3>4. QED BY <1>11, <3>3
  <2>2. NamesApart(f)
    BY <1>11, <2>1 DEF NamesApart
  <2>3. QED BY <1>10, <2>2, UniqueByPairs
<1>13. ASSUME mode = "include" PROVE NoElementEmpty(f)
  <2>1. ASSUME NEW m \in DOMAIN kept PROVE NamesOf(kept[m]) \intersect names # {}
    <3>1. PICK i \in DOMAIN schedule : i \in K /\ kept[m] = schedule[i]
      BY <1>7
    <3>2. ~FilterOut(schedule[i], mode, names)
      BY <1>2, <3>1
    <3>3. Matches(schedule[i], names)
      BY <1>13, <3>2 DEF FilterOut
    <3>4. QED BY <3>1, <3>3 DEF Matches
  <2>2. QED BY <1>8, <1>11, <1>13, <2>1 DEF NoElementEmpty
<1>14. QED BY <1>9, <1>12, <1>13

\* Other clients leave the names as they are.
LEMMA OverrideNames ==
    ASSUME NamesUnique(schedule), WellFormedSchedule(schedule), NEW n, NEW f,
           f = [i \in DOMAIN schedule |->
                  [schedule[i] EXCEPT !.tasks =
                     [j \in DOMAIN @ |-> [@[j] EXCEPT !.clients = n]]]]
    PROVE  NamesUnique(f) /\ (NoElementEmpty(schedule) => NoElementEmpty(f))
<1>1. \A i \in DOMAIN schedule : IsElement(schedule[i])
  BY ScheduleParts
<1>2. ASSUME NEW i \in DOMAIN schedule
      PROVE  /\ DOMAIN f[i].tasks = DOMAIN schedule[i].tasks
             /\ \A j \in DOMAIN schedule[i].tasks : f[i].tasks[j].name = schedule[i].tasks[j].name
  <2>1. PICK e : /\ e = schedule[i] /\ IsElement(e)
                 /\ f[i] = [e EXCEPT !.tasks = [j \in DOMAIN @ |-> [@[j] EXCEPT !.clients = n]]]
    BY <1>1
  <2>2. f[i].tasks = [j \in DOMAIN e.tasks |-> [e.tasks[j] EXCEPT !.clients = n]]
    BY <2>1 DEF IsElement
  <2>3. ASSUME NEW j \in DOMAIN e.tasks PROVE f[i].tasks[j].name = e.tasks[j].name
    <3>1. PICK t : t = e.tasks[j] /\ IsTask(t) /\ f[i].tasks[j] = [t EXCEPT !.clients = n]
      BY <2>1, <2>2 DEF IsElement
    <3>2. QED BY <3>1 DEF IsTask
  <2>4. QED BY <2>1, <2>2, <2>3
<1>3. DOMAIN f = DOMAIN schedule
  OBVIOUS
<1>4. NamesUnique(f)
  <2>1. ASSUME NEW i \in DOMAIN f, NEW k \in DOMAIN f, NEW j \in DOMAIN f[i].tasks,
               NEW l \in DOMAIN f[k].tasks, f[i].tasks[j].name = f[k].tasks[l].name
        PROVE  i = k /\ j = l
    <3>1. j \in DOMAIN schedule[i].tasks /\ l \in DOMAIN schedule[k].tasks
      BY <1>2, <1>3
    <3>2. schedule[i].tasks[j].name = schedule[k].tasks[l].name
      BY <1>2, <1>3, <2>1, <3>1
    <3>3. QED BY <1>3, <3>1, <3>2 DEF NamesUnique
  <2>2. QED BY <2>1 DEF NamesUnique
<1>5. QED BY <1>2, <1>3, <1>4 DEF NoElementEmpty

\* The matrix starts with a join point.
LEMMA FirstJoin ==
    ASSUME NEW M \in Nat \ {0}, NEW s, WellFormedSchedule(s),
           NEW a, a = [p \in 0..(M - 1) |-> <<JoinPoint(0, <<>>)>>]
    PROVE  /\ NextClient(s, 1, 1, 0, 0) /\ RowsOf(a, M, (0 + 0) % M)
           /\ \E col : MatrixUpTo(a, M, s, col, 1, 1, 0, <<>>)
<1>1. Len(s) \in Nat /\ DOMAIN s = 1..Len(s)
  BY ScheduleParts DEF IsSeq
<1>2. NextClient(s, 1, 1, 0, 0)
  <2>1. 1 <= Len(s) =>
            /\ Len(s[1].tasks) \in Nat
            /\ 1 <= Len(s[1].tasks) => 0 <= s[1].tasks[1].clients
    <3>1. SUFFICES ASSUME 1 <= Len(s)
                   PROVE  /\ Len(s[1].tasks) \in Nat
                          /\ 1 <= Len(s[1].tasks) => 0 <= s[1].tasks[1].clients
      OBVIOUS
    <3>2. 1 \in DOMAIN s
      BY <1>1, <3>1
    <3>3. /\ Len(s[1].tasks) \in Nat /\ DOMAIN s[1].tasks = 1..Len(s[1].tasks)
          /\ \A j \in DOMAIN s[1].tasks : s[1].tasks[j].clients \in Nat \ {0}
      BY <3>2, SubTaskFacts
    <3>4. 1 <= Len(s[1].tasks) => 1 \in DOMAIN s[1].tasks
      BY <3>3
    <3>5. QED BY <3>3, <3>4
  <2>2. QED BY <1>1, <2>1 DEF NextClient
<1>3. PICK x : x = JoinPoint(0, <<>>) /\ x.kind = "join" /\ x.id = 0 /\ x.clients = <<>>
  BY DEF JoinPoint
<1>4. \A p \in 0..(M - 1) : /\ a[p] = <<x>> /\ IsSeq(a[p]) /\ DOMAIN a[p] = {1}
                            /\ a[p][1] = x /\ Len(a[p]) = 1
  <2>1. \A p \in 0..(M - 1) : a[p] = <<x>>
    BY <1>3
  <2>2. IsSeq(<<x>>) /\ DOMAIN <<x>> = {1} /\ <<x>>[1] = x /\ Len(<<x>>) = 1
    BY ShortSeqs
  <2>3. QED BY <2>1, <2>2
<1>5. RowsOf(a, M, (0 + 0) % M)
  <2>1. PICK z \in Nat : z = 0
    OBVIOUS
  <2>2. z % M = z
    <3>1. z \in 0..(M - 1) /\ z = z * M + z
      BY <2>1
    <3>2. QED BY <3>1, Remainder
  <2>3. (0 + 0) % M = 0
    BY <2>1, <2>2
  <2>4. DOMAIN a = 0..(M - 1) /\ M - 1 \in 0..(M - 1)
    OBVIOUS
  <2>5. QED BY <1>4, <2>3, <2>4 DEF RowsOf
<1>6. TaskCells(a, M) = {}
  <2>1. ASSUME NEW y \in TaskCells(a, M) PROVE FALSE
    <3>1. y[1] \in 0..(M - 1) /\ y[2] \in DOMAIN a[y[1]] /\ y[3] = a[y[1]][y[2]] /\ y[3].kind = "task"
      BY CellFacts
    <3>2. y[3] = x
      BY <1>4, <3>1
    <3>3. QED BY <1>3, <3>1, <3>2
  <2>2. QED BY <2>1
<1>7. PICK col : col = [i \in 0..0 |-> 1]
  OBVIOUS
<1>8. JoinsAt(a, M, col, 1)
  <2>1. 1 - 1 = 0 /\ \A i \in 0..0 : i = 0
    OBVIOUS
  <2>2. 0 \in 0..0 /\ col[0] = 1 /\ 0 \in 0..(M - 1)
    BY <1>7
  <2>3. col \in [0..0 -> Nat \ {0}]
    BY <1>7
  <2>4. \A i, k \in 0..0 : i < k => col[i] < col[k]
    OBVIOUS
  <2>5. ASSUME NEW p \in 0..(M - 1), NEW i \in 0..0
        PROVE  /\ col[i] \in DOMAIN a[p] /\ a[p][col[i]] = a[0][col[i]]
               /\ a[p][col[i]].kind = "join" /\ a[p][col[i]].id = i
    BY <1>3, <1>4, <2>1, <2>2
  <2>6. ASSUME NEW p \in 0..(M - 1), NEW c \in DOMAIN a[p] PROVE \E i \in 0..0 : c = col[i]
    BY <1>4, <2>2
  <2>7. QED BY <2>1, <2>3, <2>4, <2>5, <2>6 DEF JoinsAt
<1>9. Named(a, M, s, col, 1, <<>>)
  <2>1. 1..(1 - 1) = {}
    OBVIOUS
  <2>2. Completers(TaskCells(a, M), s, col, 1, 1) = {}
    BY <1>6 DEF Completers
  <2>3. Entries(<<>>) = {}
    BY ShortSeqs DEF Entries
  <2>4. QED BY <2>1, <2>2, <2>3, ShortSeqs DEF Named
<1>10. HasEntry(TaskCells(a, M), s, 1, 1, 0)
  <2>1. ASSUME NEW i \in DOMAIN s, NEW j \in DOMAIN s[i].tasks,
               NEW k \in 0..(s[i].tasks[j].clients - 1)
        PROVE  ~Allotted(i, j, k, 1, 1, 0)
    <3>1. i \in Nat \ {0} /\ j \in Nat \ {0} /\ k \in Nat
      BY SubTaskFacts
    <3>2. QED BY <3>1 DEF Allotted
  <2>2. QED BY <2>1 DEF HasEntry
<1>11. MatrixUpTo(a, M, s, col, 1, 1, 0, <<>>)
  BY <1>6, <1>8, <1>9, <1>10 DEF MatrixUpTo, InItsStep, NoneTwice
<1>12. QED BY <1>2, <1>5, <1>11

\* The rows hold what is allotted when client n of sub-task u of element e comes next.
RowsUpTo(a, M, s, e, u, n, start, cs) ==
    /\ NextClient(s, e, u, n, start)
    /\ RowsOf(a, M, (start + n) % M)
    /\ \E col : MatrixUpTo(a, M, s, col, e, u, n, cs)

\* The invariant, action by action.
LEMMA AllocateClientInv ==
    ASSUME MatrixInv, AllocateClient
    PROVE  MatrixInv'
<1>1. /\ pc = "allocate" /\ pc' = pc /\ element <= Len(schedule) /\ sub <= Len(schedule[element].tasks)
      /\ client < schedule[element].tasks[sub].clients
      /\ schedule' = schedule /\ element' = element /\ sub' = sub /\ client' = client + 1
      /\ start_client_index' = start_client_index
  BY DEF AllocateClient, Allocating, Element, SubTask
<1>2. PICK s, e, u, n, g, a, M, cs :
          /\ s = schedule /\ e = element /\ u = sub /\ n = client /\ g = start_client_index
          /\ a = allocations /\ M = MaxClients /\ cs = completing
  OBVIOUS
<1>3. WellFormedSchedule(s) /\ NamesUnique(s) /\ RowsUpTo(a, M, s, e, u, n, g, cs)
  BY <1>1, <1>2 DEF MatrixInv, RowsUpTo
<1>4. M \in Nat \ {0} /\ MaxClients' = M
  BY <1>1, <1>2, <1>3, MaxClientsPositive DEF MaxClients
<1>5. PICK x : /\ x = TaskAllocation(SubTask.name, client, start_client_index + client,
                                     ClientsOf(Element))
               /\ x.kind = "task" /\ x.name = s[e].tasks[u].name /\ x.client_index_in_task = n
  <2>1. \A y, m, k, i, t : y = TaskAllocation(m, k, i, t) =>
            y.kind = "task" /\ y.name = m /\ y.client_index_in_task = k
    BY DEF TaskAllocation
  <2>2. SubTask.name = s[e].tasks[u].name
    BY <1>2 DEF SubTask, Element
  <2>3. PICK z : z = TaskAllocation(SubTask.name, client, start_client_index + client,
                                    ClientsOf(Element))
    OBVIOUS
  <2>4. z.kind = "task" /\ z.name = SubTask.name /\ z.client_index_in_task = client
    BY <2>1, <2>3
  <2>5. QED BY <1>2, <2>2, <2>3, <2>4
<1>6. PICK b : b = allocations' /\ b = [a EXCEPT ![(g + n) % M] = Append(@, x)]
  BY <1>2, <1>5 DEF AllocateClient
<1>7. PICK ds : /\ ds = completing'
                /\ ds = IF s[e].tasks[u].completes_parent THEN Append(cs, (g + n) % M) ELSE cs
  BY <1>2 DEF AllocateClient, SubTask, Element
<1>8. /\ e \in 1..(Len(s) + 1) /\ u \in Nat \ {0} /\ n \in Nat /\ g \in Nat
  BY <1>3 DEF RowsUpTo, NextClient
<1>9. e \in DOMAIN s /\ Len(s) \in Nat
  <2>1. Len(s) \in Nat /\ DOMAIN s = 1..Len(s)
    BY <1>3, ScheduleParts DEF IsSeq
  <2>2. QED BY <1>1, <1>2, <1>8, <2>1
<1>10. /\ u \in DOMAIN s[e].tasks /\ Len(s[e].tasks) \in Nat
       /\ s[e].tasks[u].clients \in Nat \ {0} /\ n < s[e].tasks[u].clients
  <2>1. Len(s[e].tasks) \in Nat /\ DOMAIN s[e].tasks = 1..Len(s[e].tasks)
    BY <1>3, <1>9, SubTaskFacts
  <2>2. u \in DOMAIN s[e].tasks
    BY <1>1, <1>2, <1>8, <2>1
  <2>3. QED BY <1>1, <1>2, <1>3, <1>9, <2>1, <2>2, SubTaskFacts
<1>11. PICK h \in Nat : h = g + n
  BY <1>8
<1>12. PICK col : MatrixUpTo(a, M, s, col, e, u, n, cs)
  BY <1>3 DEF RowsUpTo
<1>13. RowsOf(b, M, (h + 1) % M) /\ MatrixUpTo(b, M, s, col, e, u, n + 1, ds)
  <2>1. RowsOf(a, M, h % M) /\ b = [a EXCEPT ![h % M] = Append(@, x)]
    BY <1>3, <1>6, <1>11 DEF RowsUpTo
  <2>2. ds = IF s[e].tasks[u].completes_parent THEN Append(cs, h % M) ELSE cs
    BY <1>7, <1>11
  <2>3. M \in Nat \ {0} /\ x.kind = "task" /\ x.name = s[e].tasks[u].name /\ x.client_index_in_task = n
    BY <1>4, <1>5
  <2>4. QED BY <1>3, <1>8, <1>9, <1>10, <1>11, <1>12, <2>1, <2>2, <2>3, AllocateClientStep
<1>14. NextClient(s, e, u, n + 1, g)
  BY <1>3, <1>8, <1>9, <1>10 DEF RowsUpTo, NextClient
<1>15. g + (n + 1) = h + 1
  BY <1>8, <1>11
<1>16. RowsUpTo(b, M, s, e, u, n + 1, g, ds)
  BY <1>13, <1>14, <1>15 DEF RowsUpTo
<1>17. /\ s = schedule' /\ e = element' /\ u = sub' /\ n + 1 = client' /\ g = start_client_index'
       /\ b = allocations' /\ ds = completing' /\ pc' = "allocate"
  BY <1>1, <1>2, <1>6, <1>7
<1>18. QED BY <1>1, <1>3, <1>4, <1>16, <1>17 DEF MatrixInv, RowsUpTo

LEMMA NextSubTaskInv ==
    ASSUME MatrixInv, NextSubTask
    PROVE  MatrixInv'
<1>1. /\ pc = "allocate" /\ pc' = pc /\ element <= Len(schedule) /\ sub <= Len(schedule[element].tasks)
      /\ client = schedule[element].tasks[sub].clients
      /\ schedule' = schedule /\ element' = element /\ sub' = sub + 1 /\ client' = 0
      /\ start_client_index' = start_client_index + client
      /\ completing' = completing /\ allocations' = allocations
  BY DEF NextSubTask, Allocating, Element, SubTask
<1>2. PICK s, e, u, n, g, a, M, cs :
          /\ s = schedule /\ e = element /\ u = sub /\ n = client /\ g = start_client_index
          /\ a = allocations /\ M = MaxClients /\ cs = completing
  OBVIOUS
<1>3. WellFormedSchedule(s) /\ NamesUnique(s) /\ RowsUpTo(a, M, s, e, u, n, g, cs)
  BY <1>1, <1>2 DEF MatrixInv, RowsUpTo
<1>4. MaxClients' = M
  BY <1>1, <1>2 DEF MaxClients
<1>5. /\ e \in 1..(Len(s) + 1) /\ u \in Nat \ {0} /\ n \in Nat /\ g \in Nat
  BY <1>3 DEF RowsUpTo, NextClient
<1>6. e \in DOMAIN s /\ Len(s) \in Nat
  <2>1. Len(s) \in Nat /\ DOMAIN s = 1..Len(s)
    BY <1>3, ScheduleParts DEF IsSeq
  <2>2. QED BY <1>1, <1>2, <1>5, <2>1
<1>7. /\ u \in DOMAIN s[e].tasks /\ Len(s[e].tasks) \in Nat /\ u <= Len(s[e].tasks)
      /\ \A j \in 1..Len(s[e].tasks) : s[e].tasks[j].clients \in Nat \ {0}
  <2>1. /\ Len(s[e].tasks) \in Nat /\ DOMAIN s[e].tasks = 1..Len(s[e].tasks)
        /\ \A j \in DOMAIN s[e].tasks : s[e].tasks[j].clients \in Nat \ {0}
    BY <1>3, <1>6, SubTaskFacts
  <2>2. QED BY <1>1, <1>2, <1>5, <2>1
<1>8. PICK col : MatrixUpTo(a, M, s, col, e, u, s[e].tasks[u].clients, cs)
  BY <1>1, <1>2, <1>3 DEF RowsUpTo
<1>9. MatrixUpTo(a, M, s, col, e, u + 1, 0, cs)
  BY <1>3, <1>6, <1>7, <1>8, NextSubTaskStep
<1>10. NextClient(s, e, u + 1, 0, g + n)
  <2>1. u + 1 <= Len(s[e].tasks) => 0 <= s[e].tasks[u + 1].clients
    BY <1>5, <1>7
  <2>2. ~(e > Len(s)) /\ e \in 1..(Len(s) + 1) /\ u + 1 \in Nat \ {0} /\ g + n \in Nat
    <3>1. e <= Len(s)
      BY <1>1, <1>2
    <3>2. u + 1 \in Nat \ {0} /\ g + n \in Nat
      BY <1>5
    <3>3. QED BY <1>5, <1>6, <3>1, <3>2
  <2>3. u + 1 <= Len(s[e].tasks) + 1
    BY <1>5, <1>7
  <2>4. QED BY <2>1, <2>2, <2>3 DEF NextClient
<1>11. (g + n) + 0 = g + n
  BY <1>5
<1>12. RowsUpTo(a, M, s, e, u + 1, 0, g + n, cs)
  BY <1>3, <1>9, <1>10, <1>11 DEF RowsUpTo
<1>13. /\ s = schedule' /\ e = element' /\ u + 1 = sub' /\ 0 = client' /\ g + n = start_client_index'
       /\ a = allocations' /\ cs = completing' /\ pc' = "allocate"
  BY <1>1, <1>2
<1>14. QED BY <1>1, <1>3, <1>4, <1>12, <1>13 DEF MatrixInv, RowsUpTo

LEMMA FinishElementInv ==
    ASSUME MatrixInv, FinishElement
    PROVE  MatrixInv'
<1>1. /\ pc = "allocate" /\ pc' = pc /\ element <= Len(schedule) /\ sub > Len(schedule[element].tasks)
      /\ schedule' = schedule /\ element' = element + 1 /\ sub' = 1 /\ client' = client
      /\ start_client_index' = 0 /\ completing' = <<>>
  BY DEF FinishElement, Allocating, Element
<1>2. PICK s, e, u, n, g, a, M, cs :
          /\ s = schedule /\ e = element /\ u = sub /\ n = client /\ g = start_client_index
          /\ a = allocations /\ M = MaxClients /\ cs = completing
  OBVIOUS
<1>3. WellFormedSchedule(s) /\ NamesUnique(s) /\ RowsUpTo(a, M, s, e, u, n, g, cs)
  BY <1>1, <1>2 DEF MatrixInv, RowsUpTo
<1>4. M \in Nat \ {0} /\ MaxClients' = M
  BY <1>1, <1>2, <1>3, MaxClientsPositive DEF MaxClients
<1>5. /\ e \in 1..(Len(s) + 1) /\ u \in Nat \ {0} /\ n = 0 /\ g \in Nat
  BY <1>1, <1>2, <1>3 DEF RowsUpTo, NextClient
<1>6. e \in DOMAIN s /\ Len(s) \in Nat /\ DOMAIN s = 1..Len(s)
  <2>1. Len(s) \in Nat /\ DOMAIN s = 1..Len(s)
    BY <1>3, ScheduleParts DEF IsSeq
  <2>2. QED BY <1>1, <1>2, <1>5, <2>1
<1>7. PICK x : /\ x = JoinPoint(e, cs) /\ x.kind = "join" /\ x.id = e /\ x.clients = cs
  <2>1. \A y, i, c : y = JoinPoint(i, c) => y.kind = "join" /\ y.id = i /\ y.clients = c
    BY DEF JoinPoint
  <2>2. PICK z : z = JoinPoint(e, cs)
    OBVIOUS
  <2>3. QED BY <2>1, <2>2
<1>8. PICK r \in 0..(M - 1) : r = g % M
  BY <1>4, <1>5, NextRemainder
<1>9. PICK b : b = allocations' /\ b = Closed(a, M, r, x)
  BY <1>2, <1>7, <1>8 DEF FinishElement, Closed, Padded, Physical
<1>10. RowsOf(a, M, r)
  <2>1. g + n = g
    BY <1>5
  <2>2. QED BY <1>3, <1>8, <2>1 DEF RowsUpTo
<1>11. PICK col : MatrixUpTo(a, M, s, col, e, u, 0, cs)
  BY <1>3, <1>5 DEF RowsUpTo
<1>12. RowsOf(b, M, 0) /\ \E new : MatrixUpTo(b, M, s, new, e + 1, 1, 0, <<>>)
  <2>1. u > Len(s[e].tasks) /\ u \in Nat
    BY <1>1, <1>2, <1>5
  <2>2. QED BY <1>3, <1>4, <1>6, <1>7, <1>9, <1>10, <1>11, <2>1, FinishElementStep
<1>13. NextClient(s, e + 1, 1, 0, 0)
  <2>1. e + 1 <= Len(s) =>
            /\ Len(s[e + 1].tasks) \in Nat
            /\ 1 <= Len(s[e + 1].tasks) => 0 <= s[e + 1].tasks[1].clients
    <3>1. SUFFICES ASSUME e + 1 <= Len(s)
                   PROVE  /\ Len(s[e + 1].tasks) \in Nat
                          /\ 1 <= Len(s[e + 1].tasks) => 0 <= s[e + 1].tasks[1].clients
      OBVIOUS
    <3>2. PICK f \in DOMAIN s : f = e + 1
      BY <1>5, <1>6, <3>1
    <3>3. /\ Len(s[f].tasks) \in Nat /\ DOMAIN s[f].tasks = 1..Len(s[f].tasks)
          /\ \A j \in DOMAIN s[f].tasks : s[f].tasks[j].clients \in Nat \ {0}
      BY <1>3, <3>2, SubTaskFacts
    <3>4. 1 <= Len(s[f].tasks) => 1 \in DOMAIN s[f].tasks
      BY <3>3
    <3>5. QED BY <3>2, <3>3, <3>4
  <2>2. e + 1 \in 1..(Len(s) + 1)
    BY <1>5, <1>6
  <2>3. QED BY <2>1, <2>2, <1>5, <1>6 DEF NextClient
<1>14. (0 + 0) % M = 0
  <2>1. PICK z \in 0..(M - 1) : z = 0
    BY <1>4
  <2>2. z \in Nat /\ z = z * M + z
    BY <1>4, <2>1
  <2>3. z % M = z
    BY <1>4, <2>2, Remainder
  <2>4. QED BY <2>1, <2>3
<1>15. RowsUpTo(b, M, s, e + 1, 1, 0, 0, <<>>)
  BY <1>12, <1>13, <1>14 DEF RowsUpTo
<1>16. /\ s = schedule' /\ e + 1 = element' /\ 1 = sub' /\ 0 = client' /\ 0 = start_client_index'
       /\ b = allocations' /\ <<>> = completing' /\ pc' = "allocate"
  BY <1>1, <1>2, <1>5, <1>9
<1>17. QED BY <1>1, <1>3, <1>4, <1>15, <1>16 DEF MatrixInv, RowsUpTo

LEMMA StartBenchmarkInv ==
    ASSUME MatrixInv, StartBenchmark
    PROVE  MatrixInv'
<1>1. /\ pc = "override" /\ pc' = "allocate" /\ NothingAllotted
      /\ allocations' = [p \in Physical' |-> <<JoinPoint(0, <<>>)>>]
      /\ UNCHANGED <<element, sub, client, start_client_index, completing>>
  BY DEF StartBenchmark, MatrixInv
<1>2. /\ WellFormedSchedule(schedule') /\ NamesUnique(schedule')
      /\ NoElementEmpty(schedule) => NoElementEmpty(schedule')
  <2>0. WellFormedSchedule(schedule) /\ NamesUnique(schedule)
    BY DEF MatrixInv
  <2>1. PICK n \in Overrides :
                schedule' = IF n = 0 THEN schedule
                            ELSE [i \in DOMAIN schedule |->
                                    [schedule[i] EXCEPT !.tasks =
                                       [j \in DOMAIN @ |-> [@[j] EXCEPT !.clients = n]]]]
    BY DEF StartBenchmark
  <2>2. n \in Nat
    BY AllocatorAssumption
  <2>3. CASE n = 0
    BY <2>0, <2>1, <2>3
  <2>4. CASE n # 0
    <3>1. PICK f : f = [i \in DOMAIN schedule |->
                          [schedule[i] EXCEPT !.tasks =
                             [j \in DOMAIN @ |-> [@[j] EXCEPT !.clients = n]]]]
      OBVIOUS
    <3>2. schedule' = f
      BY <2>1, <2>4, <3>1
    <3>3. WellFormedSchedule(f)
      BY <2>0, <2>2, <2>4, <3>1, OverrideWellFormed
    <3>4. NamesUnique(f) /\ (NoElementEmpty(schedule) => NoElementEmpty(f))
      BY <2>0, <3>1, OverrideNames
    <3>5. QED BY <3>2, <3>3, <3>4
  <2>5. QED BY <2>3, <2>4
<1>3. PICK s, M, a : s = schedule' /\ M = MaxClients' /\ a = allocations'
  OBVIOUS
<1>4. M \in Nat \ {0}
  <2>1. M = MostClients(s)
    BY <1>3 DEF MaxClients, MostClients
  <2>2. QED BY <1>2, <1>3, <2>1, MostClientsPositive
<1>5. a = [p \in 0..(M - 1) |-> <<JoinPoint(0, <<>>)>>]
  BY <1>1, <1>3 DEF Physical
<1>6. RowsUpTo(a, M, s, 1, 1, 0, 0, <<>>)
  BY <1>2, <1>3, <1>4, <1>5, FirstJoin DEF RowsUpTo
<1>7. /\ element' = 1 /\ sub' = 1 /\ client' = 0 /\ start_client_index' = 0 /\ completing' = <<>>
  BY <1>1 DEF NothingAllotted
<1>8. "exclude" \notin FilterModes => NoElementEmpty(schedule')
  BY <1>2 DEF MatrixInv
<1>9. QED BY <1>1, <1>2, <1>3, <1>6, <1>7, <1>8 DEF MatrixInv, RowsUpTo

LEMMA FilterTasksInv ==
    ASSUME MatrixInv, FilterTasks
    PROVE  MatrixInv'
<1>1. pc = "filter" /\ pc' = "override" /\ NothingAllotted /\ UNCHANGED loop
  BY DEF FilterTasks, MatrixInv
<1>2. /\ WellFormedSchedule(schedule) /\ NamesUnique(schedule)
      /\ "exclude" \notin FilterModes => NoElementEmpty(schedule)
  BY DEF MatrixInv
<1>3. PICK mode \in FilterModes : \E names \in SUBSET AllNames(schedule) :
          schedule' = IF mode = "none" THEN schedule ELSE FilteredSchedule(mode, names)
  BY DEF FilterTasks
<1>4. PICK names : schedule' = IF mode = "none" THEN schedule ELSE FilteredSchedule(mode, names)
  BY <1>3
<1>5. /\ WellFormedSchedule(schedule') /\ NamesUnique(schedule')
      /\ "exclude" \notin FilterModes => NoElementEmpty(schedule')
  <2>1. CASE mode = "none"
    BY <1>2, <1>4, <2>1
  <2>2. CASE mode # "none"
    <3>1. schedule' = FilteredSchedule(mode, names)
      BY <1>4, <2>2
    <3>2. mode \in {"include", "exclude"}
      BY <2>2, AllocatorAssumption
    <3>3. QED BY <1>2, <3>1, <3>2, FilteredWellFormed, FilteredNames
  <2>3. QED BY <2>1, <2>2
<1>6. NothingAllotted'
  BY <1>1 DEF NothingAllotted, loop
<1>7. QED BY <1>1, <1>5, <1>6 DEF MatrixInv

\* The matrix changes in no other step.
LEMMA MatrixInvStep ==
    ASSUME MatrixInv, [IngestionNext]_all
    PROVE  MatrixInv'
<1>1. ASSUME UNCHANGED <<schedule, loop>>,
             pc' = pc \/ (pc = "allocate" /\ pc' = "done" /\ element > Len(schedule))
                      \/ (pc = "done" /\ pc' = "assign")
      PROVE  MatrixInv'
  <2>1. /\ schedule' = schedule /\ element' = element /\ sub' = sub /\ client' = client
        /\ start_client_index' = start_client_index /\ completing' = completing
        /\ allocations' = allocations /\ MaxClients' = MaxClients
    BY <1>1 DEF loop, MaxClients
  <2>2. NothingAllotted' <=> NothingAllotted
    BY <2>1 DEF NothingAllotted
  <2>3. pc = "allocate" /\ element > Len(schedule) => element = Len(schedule) + 1
    <3>1. Len(schedule) \in Nat
      BY ScheduleParts DEF MatrixInv, IsSeq
    <3>2. pc = "allocate" => element \in 1..(Len(schedule) + 1)
      BY DEF MatrixInv, NextClient
    <3>3. QED BY <3>1, <3>2
  <2>4. QED BY <1>1, <2>1, <2>2, <2>3 DEF MatrixInv
<1>2. CASE Allocate
  <2>1. Next
    BY <1>2 DEF Allocate
  <2>2. CASE Return
    BY <1>1, <2>2 DEF Return
  <2>3. QED BY <2>1, <2>2, FilterTasksInv, StartBenchmarkInv, AllocateClientInv, NextSubTaskInv,
        FinishElementInv DEF Next
<1>3. CASE StartAssign
  BY <1>1, <1>3 DEF StartAssign
<1>4. CASE PrepareFiles \/ Assign \/ ChooseBulkTask \/ StartColumn \/ Read \/ UNCHANGED all
  BY <1>1, <1>4 DEF PrepareFiles, Assign, ChooseBulkTask, StartColumn, Read, all, vars
<1>5. QED BY <1>2, <1>3, <1>4 DEF IngestionNext

\* A column is between the join points of one step only.
LEMMA ApartSteps ==
    ASSUME NEW a, NEW M, NEW col, NEW L \in Nat, JoinsAt(a, M, col, L + 1), NEW c \in Nat,
           NEW i \in 1..L, NEW j \in 1..L, Between(col, i, L + 1, c), Between(col, j, L + 1, c)
    PROVE  i = j
<1>1. /\ (L + 1) - 1 = L /\ col \in [0..L -> Nat \ {0}]
      /\ \A x, y \in 0..L : x < y => col[x] < col[y]
  BY DEF JoinsAt
<1>2. ASSUME NEW x \in 1..L, NEW y \in 1..L, Between(col, x, L + 1, c), Between(col, y, L + 1, c)
      PROVE  ~(x < y)
  <2>1. SUFFICES ASSUME x < y PROVE FALSE
    OBVIOUS
  <2>2. c < col[x] /\ col[y - 1] < c
    BY <1>2 DEF Between
  <2>3. x \in 0..L /\ y - 1 \in 0..L /\ (x = y - 1 \/ x < y - 1)
    BY <2>1
  <2>4. col[x] \in Nat /\ col[y - 1] \in Nat /\ col[x] <= col[y - 1]
    <3>1. col[x] \in Nat /\ col[y - 1] \in Nat
      BY <1>1, <2>3
    <3>2. x = y - 1 \/ col[x] < col[y - 1]
      BY <1>1, <2>3
    <3>3. QED BY <3>1, <3>2
  <2>5. QED BY <2>2, <2>4
<1>3. ~(i < j) /\ ~(j < i)
  BY <1>2
<1>4. QED BY <1>3

\* The finished matrix: its rows have the same number of entries, and what the properties
\* say of it is in its cells.
MatrixDone(col, l) ==
    /\ l \in Nat /\ RowCount = l
    /\ \A p \in Physical : DOMAIN allocations[p] = 1..l
    /\ MatrixUpTo(allocations, MaxClients, schedule, col, Len(schedule) + 1, 1, 0, completing)
    /\ \A p \in Physical : \A i \in 0..Len(schedule) : JoinRow(p, i) = col[i]

LEMMA MatrixIsDone ==
    ASSUME MatrixInv, pc \in {"done", "assign"}
    PROVE  /\ MaxClients \in Nat \ {0} /\ WellFormedSchedule(schedule) /\ NamesUnique(schedule)
           /\ \E col : \E l : MatrixDone(col, l)
<1>1. WellFormedSchedule(schedule) /\ NamesUnique(schedule)
  BY DEF MatrixInv
<1>2. PICK M \in Nat \ {0} : M = MaxClients
  BY <1>1, MaxClientsPositive
<1>3. PICK L \in Nat : L = Len(schedule)
  BY <1>1, ScheduleParts DEF IsSeq
<1>4. /\ element = L + 1 /\ NextClient(schedule, element, sub, client, start_client_index)
      /\ RowsOf(allocations, M, (start_client_index + client) % M)
      /\ \E col : MatrixUpTo(allocations, M, schedule, col, element, sub, client, completing)
  BY <1>2, <1>3 DEF MatrixInv
<1>5. sub = 1 /\ client = 0 /\ start_client_index = 0
  BY <1>3, <1>4 DEF NextClient
<1>6. RowsOf(allocations, M, 0)
  <2>1. PICK z \in 0..(M - 1) : z = 0
    OBVIOUS
  <2>2. z \in Nat /\ z = z * M + z
    BY <2>1
  <2>3. z % M = z
    BY <2>2, Remainder
  <2>4. (0 + 0) % M = 0
    BY <2>1, <2>3
  <2>5. QED BY <1>4, <1>5, <2>4
<1>7. PICK col : MatrixUpTo(allocations, M, schedule, col, L + 1, 1, 0, completing)
  BY <1>4, <1>5
<1>8. PICK l : l = Len(allocations[M - 1])
  OBVIOUS
<1>9. /\ \A p \in 0..(M - 1) : DOMAIN allocations[p] = 1..l
      /\ l \in Nat /\ RowCount = l
  <2>1. \A p \in 0..(M - 1) : IsSeq(allocations[p]) /\ Len(allocations[p]) = l
    BY <1>6, <1>8 DEF RowsOf
  <2>2. 0 \in 0..(M - 1)
    OBVIOUS
  <2>3. ASSUME NEW p \in 0..(M - 1) PROVE DOMAIN allocations[p] = 1..l /\ l \in Nat
    <3>1. PICK r : r = allocations[p] /\ IsSeq(r) /\ Len(r) = l
      BY <2>1
    <3>2. QED BY <3>1 DEF IsSeq
  <2>4. QED BY <2>1, <2>2, <2>3 DEF RowCount
<1>10. JoinsAt(allocations, M, col, L + 1) /\ (L + 1) - 1 = L
  BY <1>7 DEF MatrixUpTo
<1>11. ASSUME NEW p \in 0..(M - 1), NEW i \in 0..L PROVE JoinRow(p, i) = col[i]
  <2>1. /\ col[i] \in 1..l /\ allocations[p][col[i]].kind = "join" /\ allocations[p][col[i]].id = i
    BY <1>9, <1>10 DEF JoinsAt
  <2>2. ASSUME NEW r \in 1..l, allocations[p][r].kind = "join", allocations[p][r].id = i
        PROVE  r = col[i]
    <3>1. PICK k \in 0..L : r = col[k]
      BY <1>9, <1>10, <2>2 DEF JoinsAt
    <3>2. allocations[p][col[k]].id = k
      BY <1>10 DEF JoinsAt
    <3>3. QED BY <2>2, <3>1, <3>2
  <2>3. QED BY <1>9, <2>1, <2>2 DEF JoinRow
<1>12. MatrixDone(col, l)
  BY <1>2, <1>3, <1>7, <1>9, <1>11 DEF MatrixDone, Physical
<1>13. QED BY <1>1, <1>2, <1>12

\* The tasks between two join points.
LEMMA TasksBetween ==
    ASSUME NEW col, NEW l, MatrixDone(col, l), NEW p \in Physical, NEW j \in DOMAIN schedule,
           WellFormedSchedule(schedule)
    PROVE  Tasks(p, j) = {x[3] : x \in {y \in TaskCells(allocations, MaxClients) :
                              y[1] = p /\ Between(col, j, Len(schedule) + 1, y[2])}}
<1>1. PICK L \in Nat : L = Len(schedule) /\ DOMAIN schedule = 1..L
  BY ScheduleParts DEF IsSeq
<1>2. j \in 0..L /\ j - 1 \in 0..L /\ j < L + 1 /\ (L + 1) - 1 = L
  BY <1>1
<1>3. PICK f, g : f = col[j - 1] /\ g = col[j] /\ JoinRow(p, j - 1) = f /\ JoinRow(p, j) = g
  BY <1>1, <1>2 DEF MatrixDone
<1>4. f \in 1..l /\ g \in 1..l /\ l \in Nat /\ DOMAIN allocations[p] = 1..l
  <2>1. JoinsAt(allocations, MaxClients, col, L + 1) /\ l \in Nat /\ DOMAIN allocations[p] = 1..l
    BY <1>1 DEF MatrixDone, MatrixUpTo
  <2>2. col[j - 1] \in DOMAIN allocations[p] /\ col[j] \in DOMAIN allocations[p]
    BY <1>2, <2>1 DEF JoinsAt, Physical
  <2>3. QED BY <1>3, <2>1, <2>2
<1>5. \A c \in 1..l : c \in (f + 1)..(g - 1) <=> Between(col, j, L + 1, c)
  BY <1>2, <1>3, <1>4 DEF Between
<1>6. (f + 1)..(g - 1) \subseteq 1..l
  BY <1>4
<1>7. ASSUME NEW t \in Tasks(p, j)
      PROVE  \E y \in TaskCells(allocations, MaxClients) :
                y[1] = p /\ Between(col, j, L + 1, y[2]) /\ t = y[3]
  <2>1. PICK c \in (f + 1)..(g - 1) : allocations[p][c].kind = "task" /\ t = allocations[p][c]
    BY <1>3 DEF Tasks
  <2>2. PICK y : y = <<p, c, allocations[p][c]>>
    OBVIOUS
  <2>3. c \in DOMAIN allocations[p] /\ y[1] = p /\ y[2] = c /\ y[3] = t
    BY <1>4, <1>6, <2>1, <2>2
  <2>4. y \in TaskCells(allocations, MaxClients)
    BY <2>1, <2>2, <2>3 DEF TaskCells, Physical
  <2>5. QED BY <1>5, <1>6, <2>1, <2>3, <2>4
<1>8. ASSUME NEW y \in TaskCells(allocations, MaxClients), y[1] = p, Between(col, j, L + 1, y[2])
      PROVE  y[3] \in Tasks(p, j)
  <2>1. y[2] \in 1..l /\ y[3] = allocations[p][y[2]] /\ y[3].kind = "task"
    BY <1>4, <1>8, CellFacts
  <2>2. y[2] \in (f + 1)..(g - 1)
    BY <1>5, <1>8, <2>1
  <2>3. QED BY <1>3, <2>1, <2>2 DEF Tasks
<1>9. QED BY <1>1, <1>7, <1>8

\* Every client of every task once.
LEMMA EachTaskOnce ==
    ASSUME MatrixInv
    PROVE  EveryTaskOnce
<1>1. SUFFICES ASSUME Done PROVE EveryTaskOnce
  BY DEF EveryTaskOnce
<1>2. MaxClients \in Nat \ {0} /\ WellFormedSchedule(schedule) /\ NamesUnique(schedule)
  BY <1>1, MatrixIsDone DEF Done
<1>3. PICK col : \E l : MatrixDone(col, l)
  BY <1>1, MatrixIsDone DEF Done
<1>4. PICK l : MatrixDone(col, l)
  BY <1>3
<1>5. PICK L \in Nat : L = Len(schedule) /\ DOMAIN schedule = 1..L
  BY <1>2, ScheduleParts DEF IsSeq
<1>6. PICK cells : cells = TaskCells(allocations, MaxClients)
  OBVIOUS
<1>7. /\ InItsStep(cells, schedule, col, L + 1, 1, 0) /\ HasEntry(cells, schedule, L + 1, 1, 0)
      /\ NoneTwice(cells) /\ JoinsAt(allocations, MaxClients, col, L + 1)
      /\ RowCount = l /\ \A p \in Physical : DOMAIN allocations[p] = 1..l
  BY <1>4, <1>5, <1>6 DEF MatrixDone, MatrixUpTo
<1>8. ASSUME NEW j \in DOMAIN schedule, NEW i \in DOMAIN schedule[j].tasks,
             NEW k \in 0..(schedule[j].tasks[i].clients - 1)
      PROVE  Cardinality({x \in Physical \X (1..RowCount) :
                   LET entry == allocations[x[1]][x[2]]
                   IN  /\ entry.kind = "task"
                       /\ entry.name = schedule[j].tasks[i].name
                       /\ entry.client_index_in_task = k}) = 1
  <2>1. Allotted(j, i, k, L + 1, 1, 0)
    BY <1>5 DEF Allotted
  <2>2. PICK w \in cells : w[3].name = schedule[j].tasks[i].name /\ w[3].client_index_in_task = k
    BY <1>7, <2>1 DEF HasEntry
  <2>3. /\ w = <<w[1], w[2], w[3]>> /\ w[1] \in Physical /\ w[2] \in 1..RowCount
        /\ w[3] = allocations[w[1]][w[2]] /\ w[3].kind = "task"
    <3>1. /\ w[1] \in 0..(MaxClients - 1) /\ w[2] \in DOMAIN allocations[w[1]]
          /\ w = <<w[1], w[2], w[3]>> /\ w[3] = allocations[w[1]][w[2]] /\ w[3].kind = "task"
      BY <1>6, CellFacts
    <3>2. QED BY <1>7, <3>1 DEF Physical
  <2>4. PICK H : H = {x \in Physical \X (1..RowCount) :
                   LET entry == allocations[x[1]][x[2]]
                   IN  /\ entry.kind = "task"
                       /\ entry.name = schedule[j].tasks[i].name
                       /\ entry.client_index_in_task = k}
    OBVIOUS
  <2>5. <<w[1], w[2]>> \in H
    BY <2>2, <2>3, <2>4
  <2>6. ASSUME NEW x \in H PROVE x = <<w[1], w[2]>>
    <3>1. /\ x \in Physical \X (1..RowCount) /\ x = <<x[1], x[2]>>
          /\ x[1] \in Physical /\ x[2] \in 1..RowCount
          /\ allocations[x[1]][x[2]].kind = "task"
          /\ allocations[x[1]][x[2]].name = schedule[j].tasks[i].name
          /\ allocations[x[1]][x[2]].client_index_in_task = k
      BY <2>4
    <3>2. PICK y : y = <<x[1], x[2], allocations[x[1]][x[2]]>>
      OBVIOUS
    <3>3. y[1] = x[1] /\ y[2] = x[2] /\ y[3] = allocations[x[1]][x[2]]
      BY <3>2
    <3>4. x[2] \in DOMAIN allocations[x[1]]
      BY <1>7, <3>1
    <3>5. y \in cells
      BY <1>6, <3>1, <3>2, <3>3, <3>4 DEF TaskCells, Physical
    <3>6. y = w
      BY <1>7, <2>2, <3>1, <3>3, <3>5 DEF NoneTwice
    <3>7. QED BY <3>1, <3>3, <3>6
  <2>7. H = {<<w[1], w[2]>>}
    BY <2>5, <2>6
  <2>8. Cardinality(H) = 1
    BY <2>7, FS_Singleton
  <2>9. QED BY <2>4, <2>8
<1>9. ASSUME NEW j \in DOMAIN schedule, NEW p \in Physical, NEW t \in Tasks(p, j)
      PROVE  \E i \in DOMAIN schedule[j].tasks :
                /\ t.name = schedule[j].tasks[i].name
                /\ t.client_index_in_task < schedule[j].tasks[i].clients
  <2>1. PICK x \in cells : Between(col, j, L + 1, x[2]) /\ t = x[3] /\ x[1] = p
    BY <1>2, <1>4, <1>5, <1>6, TasksBetween
  <2>2. PICK i \in 1..(L + 1) :
            /\ i <= L /\ Between(col, i, L + 1, x[2])
            /\ \E k \in DOMAIN schedule[i].tasks :
                  /\ t.name = schedule[i].tasks[k].name
                  /\ t.client_index_in_task \in 0..(schedule[i].tasks[k].clients - 1)
    BY <1>5, <1>7, <2>1 DEF InItsStep
  <2>3. x[2] \in Nat
    <3>1. x[1] \in 0..(MaxClients - 1) /\ x[2] \in DOMAIN allocations[x[1]]
      BY <1>6, CellFacts
    <3>2. x[2] \in 1..l /\ l \in Nat
      BY <1>4, <3>1 DEF MatrixDone, Physical
    <3>3. QED BY <3>2
  <2>4. i = j
    BY <1>5, <1>7, <2>1, <2>2, <2>3, ApartSteps
  <2>5. PICK k \in DOMAIN schedule[j].tasks :
                  /\ t.name = schedule[j].tasks[k].name
                  /\ t.client_index_in_task \in 0..(schedule[j].tasks[k].clients - 1)
    BY <2>2, <2>4
  <2>6. schedule[j].tasks[k].clients \in Nat
    BY <1>2, SubTaskFacts
  <2>7. QED BY <2>5, <2>6
<1>10. QED BY <1>8, <1>9 DEF EveryTaskOnce

\* The join points name the clients to wait for.
LEMMA ClientsNamed ==
    ASSUME MatrixInv
    PROVE  CompletingClientsNamed
<1>1. SUFFICES ASSUME Done PROVE CompletingClientsNamed
  BY DEF CompletingClientsNamed
<1>2. MaxClients \in Nat \ {0} /\ WellFormedSchedule(schedule) /\ NamesUnique(schedule)
  BY <1>1, MatrixIsDone DEF Done
<1>3. PICK col : \E l : MatrixDone(col, l)
  BY <1>1, MatrixIsDone DEF Done
<1>4. PICK l : MatrixDone(col, l)
  BY <1>3
<1>5. PICK L \in Nat : L = Len(schedule) /\ DOMAIN schedule = 1..L
  BY <1>2, ScheduleParts DEF IsSeq
<1>6. PICK cells : cells = TaskCells(allocations, MaxClients)
  OBVIOUS
<1>7. /\ JoinsAt(allocations, MaxClients, col, L + 1)
      /\ Named(allocations, MaxClients, schedule, col, L + 1, completing)
      /\ (L + 1) - 1 = L /\ 0 \in 0..(MaxClients - 1)
  BY <1>2, <1>4, <1>5, <1>6 DEF MatrixDone, MatrixUpTo
<1>8. ASSUME NEW j \in DOMAIN schedule
      PROVE  Entries((CHOOSE a \in Entries(allocations[0]) : a.kind = "join" /\ a.id = j).clients)
                = {p \in Physical : \E a \in Tasks(p, j) : a.name \in CompletingNames(schedule[j])}
  <2>1. j \in 0..L /\ j \in 1..L
    BY <1>5
  <2>2. PICK x : /\ x = allocations[0][col[j]] /\ x \in Entries(allocations[0])
                 /\ x.kind = "join" /\ x.id = j
    <3>1. /\ col[j] \in DOMAIN allocations[0] /\ allocations[0][col[j]].kind = "join"
          /\ allocations[0][col[j]].id = j
      BY <1>7, <2>1 DEF JoinsAt
    <3>2. allocations[0][col[j]] \in Entries(allocations[0])
      BY <3>1 DEF Entries
    <3>3. QED BY <3>1, <3>2
  <2>3. ASSUME NEW a \in Entries(allocations[0]), a.kind = "join", a.id = j PROVE a = x
    <3>1. PICK c \in DOMAIN allocations[0] : a = allocations[0][c]
      BY DEF Entries
    <3>2. PICK i \in 0..L : c = col[i]
      BY <1>7, <2>3, <3>1 DEF JoinsAt
    <3>3. allocations[0][col[i]].id = i
      BY <1>7, <3>2 DEF JoinsAt
    <3>4. QED BY <2>2, <2>3, <3>1, <3>2, <3>3
  <2>4. x = CHOOSE a \in Entries(allocations[0]) : a.kind = "join" /\ a.id = j
    BY <2>2, <2>3
  <2>5. Entries(x.clients) = Completers(cells, schedule, col, L + 1, j)
    BY <1>6, <1>7, <2>1, <2>2 DEF Named
  <2>6. PICK N : N = CompletingNames(schedule[j])
    OBVIOUS
  <2>7. ASSUME NEW p
        PROVE  p \in Completers(cells, schedule, col, L + 1, j)
                  <=> p \in Physical /\ \E a \in Tasks(p, j) : a.name \in N
    <3>1. ASSUME p \in Completers(cells, schedule, col, L + 1, j)
          PROVE  p \in Physical /\ \E a \in Tasks(p, j) : a.name \in N
      <4>1. PICK y \in cells : p = y[1] /\ Between(col, j, L + 1, y[2]) /\ y[3].name \in N
        BY <2>6, <3>1 DEF Completers
      <4>2. p \in Physical
        BY <1>6, <4>1, CellFacts DEF Physical
      <4>3. y[3] \in Tasks(p, j)
        BY <1>2, <1>4, <1>5, <1>6, <4>1, <4>2, TasksBetween
      <4>4. QED BY <4>1, <4>2, <4>3
    <3>2. ASSUME p \in Physical, NEW a \in Tasks(p, j), a.name \in N
          PROVE  p \in Completers(cells, schedule, col, L + 1, j)
      <4>1. PICK y \in cells : y[1] = p /\ Between(col, j, L + 1, y[2]) /\ a = y[3]
        BY <1>2, <1>4, <1>5, <1>6, <3>2, TasksBetween
      <4>2. QED BY <2>6, <3>2, <4>1 DEF Completers
    <3>3. QED BY <3>1, <3>2
  <2>8. QED BY <2>4, <2>5, <2>6, <2>7
<1>9. QED BY <1>8 DEF CompletingClientsNamed, CompletingNames

\* The number of join points.
LEMMA JoinPointsCounted ==
    ASSUME NEW L \in Nat, NEW col, NEW J, NEW a, NEW M \in Nat \ {0}, JoinsAt(a, M, col, L + 1),
           J = {r \in DOMAIN a[0] : a[0][r].kind = "join"}
    PROVE  Cardinality(J) = L + 1
<1>1. /\ (L + 1) - 1 = L /\ col \in [0..L -> Nat \ {0}] /\ 0 \in 0..(M - 1)
      /\ \A x, y \in 0..L : x < y => col[x] < col[y]
  BY DEF JoinsAt
<1>2. \A i \in 0..L : col[i] \in J
  BY <1>1 DEF JoinsAt
<1>3. \A r \in J : \E i \in 0..L : col[i] = r
  BY <1>1 DEF JoinsAt
<1>4. ASSUME NEW x \in 0..L, NEW y \in 0..L, col[x] = col[y] PROVE x = y
  <2>1. col[x] \in Nat /\ ~(col[x] < col[y]) /\ ~(col[y] < col[x])
    BY <1>1, <1>4
  <2>2. ~(x < y) /\ ~(y < x)
    BY <1>1, <2>1
  <2>3. QED BY <2>2
<1>5. DOMAIN col = 0..L /\ col \in [0..L -> J]
  BY <1>1, <1>2
<1>6. col \in Bijection(0..L, J)
  BY <1>3, <1>4, <1>5 DEF Bijection, Injection, Surjection, IsInjective
<1>7. ExistsBijection(0..L, J)
  BY <1>6 DEF ExistsBijection
<1>8. IsFiniteSet(0..L) /\ Cardinality(0..L) = L + 1
  BY FS_Interval
<1>9. QED BY <1>7, <1>8, FS_Bijection

\* The names of the tasks between the join points of a step.
CellsOfSteps(s, L, a, M, col, cells) ==
    /\ WellFormedSchedule(s) /\ NamesUnique(s) /\ L = Len(s)
    /\ JoinsAt(a, M, col, L + 1) /\ \A x \in cells : x[2] \in Nat
    /\ InItsStep(cells, s, col, L + 1, 1, 0) /\ HasEntry(cells, s, L + 1, 1, 0)

NamesIn(cells, col, k, e) == {x[3].name : x \in {y \in cells : Between(col, k, e, y[2])}}

LEMMA NamesOfStep ==
    ASSUME NEW s, NEW L \in Nat, NEW a, NEW M, NEW col, NEW cells,
           CellsOfSteps(s, L, a, M, col, cells), NEW k \in DOMAIN s
    PROVE  NamesIn(cells, col, k, L + 1) = NamesOf(s[k])
<1>. /\ WellFormedSchedule(s) /\ NamesUnique(s) /\ L = Len(s)
     /\ JoinsAt(a, M, col, L + 1) /\ \A x \in cells : x[2] \in Nat
     /\ InItsStep(cells, s, col, L + 1, 1, 0) /\ HasEntry(cells, s, L + 1, 1, 0)
  BY DEF CellsOfSteps
<1>1. DOMAIN s = 1..L
  BY ScheduleParts DEF IsSeq
<1>2. ASSUME NEW x \in cells
      PROVE  \E i \in 1..L : /\ Between(col, i, L + 1, x[2])
                             /\ \E j \in DOMAIN s[i].tasks : x[3].name = s[i].tasks[j].name
  <2>1. PICK i \in 1..(L + 1) : /\ i <= L /\ Between(col, i, L + 1, x[2])
                                /\ \E j \in DOMAIN s[i].tasks : x[3].name = s[i].tasks[j].name
    BY DEF InItsStep
  <2>2. i \in 1..L
    BY <2>1
  <2>3. QED BY <2>1, <2>2
<1>3. ASSUME NEW x \in cells, Between(col, k, L + 1, x[2]) PROVE x[3].name \in NamesOf(s[k])
  <2>1. PICK i \in 1..L : /\ Between(col, i, L + 1, x[2])
                          /\ \E j \in DOMAIN s[i].tasks : x[3].name = s[i].tasks[j].name
    BY <1>2
  <2>2. i = k
    BY <1>1, <1>3, <2>1, ApartSteps
  <2>3. QED BY <2>1, <2>2 DEF NamesOf
<1>4. ASSUME NEW n \in NamesOf(s[k])
      PROVE  \E x \in cells : Between(col, k, L + 1, x[2]) /\ n = x[3].name
  <2>1. PICK j \in DOMAIN s[k].tasks : n = s[k].tasks[j].name
    BY DEF NamesOf
  <2>2. s[k].tasks[j].clients \in Nat \ {0}
    BY SubTaskFacts
  <2>3. 0 \in 0..(s[k].tasks[j].clients - 1) /\ Allotted(k, j, 0, L + 1, 1, 0)
    BY <1>1, <2>2 DEF Allotted
  <2>4. PICK x \in cells : x[3].name = n
    BY <2>1, <2>3 DEF HasEntry
  <2>5. PICK i \in 1..L : /\ Between(col, i, L + 1, x[2])
                          /\ \E h \in DOMAIN s[i].tasks : x[3].name = s[i].tasks[h].name
    BY <1>2
  <2>6. PICK h \in DOMAIN s[i].tasks : x[3].name = s[i].tasks[h].name
    BY <2>5
  <2>7. i = k
    <3>1. i \in DOMAIN s /\ s[i].tasks[h].name = s[k].tasks[j].name
      BY <1>1, <2>1, <2>4, <2>6
    <3>2. \A v \in DOMAIN s[i].tasks, z \in DOMAIN s[k].tasks :
              s[i].tasks[v].name = s[k].tasks[z].name => i = k
      BY <3>1 DEF NamesUnique
    <3>3. QED BY <2>1, <2>6, <3>1, <3>2
  <2>8. QED BY <2>4, <2>5, <2>7
<1>5. QED BY <1>3, <1>4 DEF NamesIn

\* The pass of tasks_per_joinpoint: after q rows of cells and r cells of the next it has
\* seen column c of client p.
Seen(q, r, p, c) == c <= q \/ (c = q + 1 /\ p < r)

\* The names seen behind a column.
NamesSince(cells, q, r, from) ==
    {x[3].name : x \in {y \in cells : Seen(q, r, y[1], y[2]) /\ from < y[2]}}

\* What the pass has: the tasks of the steps whose join points it has come to, and the
\* names since the last of them.
LastSeen(J, L, col, q, r) == \A i \in 1..L : i <= J <=> Seen(q, r, 0, col[i])

Collected(v, J, F, names) == v = [tasks |-> [i \in 1..J |-> F[i]], current |-> names]

PassAt(v, q, r, L, col, cells, F) ==
    \E J \in 0..L : LastSeen(J, L, col, q, r) /\ Collected(v, J, F, NamesSince(cells, q, r, col[J]))

\* The matrix the pass goes over; F has the names of the steps.
PassedOver(a, M, l, L, col, cells, F) ==
    /\ JoinsAt(a, M, col, L + 1)
    /\ \A p \in 0..(M - 1) : DOMAIN a[p] = 1..l
    /\ cells = TaskCells(a, M)
    /\ \A x \in cells : \E i \in 1..L : Between(col, i, L + 1, x[2])
    /\ \A k \in 1..L : F[k] # {} /\ NamesIn(cells, col, k, L + 1) = F[k]

\* Which join point is the last.
LEMMA TheLastSeen ==
    ASSUME NEW L \in Nat, NEW J \in 0..L, NEW col, NEW q, NEW r, LastSeen(J, L, col, q, r),
           NEW k \in 0..L, k # 0 => Seen(q, r, 0, col[k]), k < L => ~Seen(q, r, 0, col[k + 1])
    PROVE  J = k
<1>1. k # 0 => k <= J
  BY DEF LastSeen
<1>2. k < L => ~(k + 1 <= J)
  <2>1. SUFFICES ASSUME k < L PROVE ~(k + 1 <= J)
    OBVIOUS
  <2>2. k + 1 \in 1..L
    BY <2>1
  <2>3. QED BY <2>1, <2>2 DEF LastSeen
<1>3. QED BY <1>1, <1>2

\* One more entry is appended.
LEMMA OneMoreStep ==
    ASSUME NEW F, NEW k \in Nat \ {0}
    PROVE  Append([i \in 1..(k - 1) |-> F[i]], F[k]) = [i \in 1..k |-> F[i]]
<1>1. PICK T : T = {F[i] : i \in 1..k}
  OBVIOUS
<1>2. PICK s, t : s = [i \in 1..(k - 1) |-> F[i]] /\ t = [i \in 1..k |-> F[i]]
  OBVIOUS
<1>3. /\ s \in Seq(T) /\ Len(s) = k - 1 /\ t \in Seq(T) /\ Len(t) = k
      /\ \A i \in 1..(k - 1) : s[i] = t[i]
      /\ t[k] = F[k] /\ F[k] \in T
  BY <1>1, <1>2
<1>4. PICK x : x = F[k]
  OBVIOUS
<1>5. Append(s, x) \in Seq(T) /\ Len(Append(s, x)) = k
  BY <1>3, <1>4
<1>6. \A i \in 1..k : Append(s, x)[i] = t[i]
  <2>1. \A i \in 1..k : i \in 1..(k - 1) \/ i = k
    OBVIOUS
  <2>2. (\A i \in 1..(k - 1) : Append(s, x)[i] = s[i]) /\ Append(s, x)[k] = x
    BY <1>3, <1>4
  <2>3. QED BY <1>3, <1>4, <2>1, <2>2
<1>7. Append(s, x) = t
  BY <1>3, <1>5, <1>6
<1>8. QED BY <1>2, <1>4, <1>7

\* The next entry.
LEMMA PassStep ==
    ASSUME NEW M \in Nat \ {0}, NEW l \in Nat, NEW L \in Nat, NEW a, NEW col, NEW cells, NEW F,
           PassedOver(a, M, l, L, col, cells, F), NEW q \in Nat, NEW r \in 0..(M - 1), q < l,
           NEW u \in Nat, NEW w \in Nat,
           \A p \in 0..(M - 1) : \A c \in Nat :
               Seen(u, w, p, c) <=> Seen(q, r, p, c) \/ (c = q + 1 /\ p = r),
           NEW v, PassAt(v, q, r, L, col, cells, F)
    PROVE  PassAt(Collect(v, a[r][q + 1]), u, w, L, col, cells, F)
<1>1. PICK c \in 1..l : c = q + 1
  <2>1. q + 1 \in 1..l
    OBVIOUS
  <2>2. QED BY <2>1
<1>2. PICK e : e = a[r][c]
  OBVIOUS
<1>3. PICK J \in 0..L : /\ LastSeen(J, L, col, q, r)
                        /\ Collected(v, J, F, NamesSince(cells, q, r, col[J]))
  BY DEF PassAt
<1>4. /\ JoinsAt(a, M, col, L + 1) /\ cells = TaskCells(a, M) /\ (L + 1) - 1 = L
      /\ c \in DOMAIN a[r] /\ c \in Nat
  BY <1>1 DEF PassedOver
<1>5. /\ \A i \in 0..L : col[i] \in Nat
      /\ \A i, k \in 0..L : i < k => col[i] < col[k]
      /\ \A i \in 0..L : a[r][col[i]].kind = "join"
  BY <1>4 DEF JoinsAt
<1>6. 0 \in 0..(M - 1)
  OBVIOUS
<1>7. ASSUME NEW x \in cells
      PROVE  /\ x[1] \in 0..(M - 1) /\ x[2] \in Nat
             /\ Seen(u, w, x[1], x[2]) <=> Seen(q, r, x[1], x[2]) \/ (x[2] = c /\ x[1] = r)
             /\ x[2] = c /\ x[1] = r => e.kind = "task" /\ x[3] = e
  <2>1. /\ x = <<x[1], x[2], x[3]>> /\ x[1] \in 0..(M - 1) /\ x[2] \in DOMAIN a[x[1]]
        /\ x[3] = a[x[1]][x[2]] /\ x[3].kind = "task"
    BY <1>4, CellFacts
  <2>2. x[2] \in Nat
    BY <2>1 DEF PassedOver
  <2>3. QED BY <1>1, <1>2, <2>1, <2>2
<1>8. \A i \in 1..L : Seen(u, w, 0, col[i]) <=> Seen(q, r, 0, col[i]) \/ (col[i] = c /\ 0 = r)
  BY <1>1, <1>5, <1>6
<1>9. CASE e.kind = "task"
  <2>1. PICK y : y = <<r, c, e>> /\ y[1] = r /\ y[2] = c /\ y[3] = e
    <3>1. PICK z : z = <<r, c, e>>
      OBVIOUS
    <3>2. QED BY <3>1
  <2>2. y \in cells
    BY <1>2, <1>4, <1>9, <2>1 DEF TaskCells
  <2>3. PICK i \in 1..L : Between(col, i, L + 1, c)
    BY <2>1, <2>2 DEF PassedOver
  <2>4. PICK k \in 0..L : k = i - 1 /\ i = k + 1
    BY <2>3
  <2>5. col[k] < c /\ c < col[k + 1]
    BY <2>3, <2>4 DEF Between
  <2>6. J = k
    <3>1. Seen(q, r, 0, col[k])
      BY <1>1, <1>5, <2>4, <2>5 DEF Seen
    <3>2. col[k + 1] \in Nat
      BY <1>5, <2>4
    <3>3. ~Seen(q, r, 0, col[k + 1])
      BY <1>1, <2>5, <3>2 DEF Seen
    <3>4. QED BY <1>3, <3>1, <3>3, TheLastSeen
  <2>7. LastSeen(J, L, col, u, w)
    <3>1. \A h \in 1..L : col[h] # c
      <4>1. \A h \in 1..L : h \in 0..L
        OBVIOUS
      <4>2. QED BY <1>2, <1>5, <1>9, <4>1
    <3>2. QED BY <1>3, <1>8, <3>1 DEF LastSeen
  <2>8. NamesSince(cells, u, w, col[J]) = NamesSince(cells, q, r, col[J]) \union {e.name}
    <3>1. ASSUME NEW n \in NamesSince(cells, u, w, col[J])
          PROVE  n \in NamesSince(cells, q, r, col[J]) \union {e.name}
      <4>1. PICK x \in cells : Seen(u, w, x[1], x[2]) /\ col[J] < x[2] /\ n = x[3].name
        BY DEF NamesSince
      <4>2. CASE Seen(q, r, x[1], x[2])
        BY <4>1, <4>2 DEF NamesSince
      <4>3. CASE ~Seen(q, r, x[1], x[2])
        BY <1>7, <4>1, <4>3
      <4>4. QED BY <4>2, <4>3
    <3>2. ASSUME NEW n \in NamesSince(cells, q, r, col[J]) PROVE n \in NamesSince(cells, u, w, col[J])
      <4>1. PICK x \in cells : Seen(q, r, x[1], x[2]) /\ col[J] < x[2] /\ n = x[3].name
        BY DEF NamesSince
      <4>2. QED BY <1>7, <4>1 DEF NamesSince
    <3>3. e.name \in NamesSince(cells, u, w, col[J])
      BY <1>7, <2>1, <2>2, <2>5, <2>6 DEF NamesSince
    <3>4. QED BY <3>1, <3>2, <3>3
  <2>9. Collected(Collect(v, e), J, F, NamesSince(cells, u, w, col[J]))
    BY <1>3, <1>9, <2>8 DEF Collected, Collect
  <2>10. QED BY <1>1, <1>2, <2>7, <2>9 DEF PassAt
<1>10. ASSUME e.kind # "task", NEW from
       PROVE  NamesSince(cells, u, w, from) = NamesSince(cells, q, r, from)
  <2>1. \A x \in cells : Seen(u, w, x[1], x[2]) <=> Seen(q, r, x[1], x[2])
    BY <1>7, <1>10
  <2>2. QED BY <2>1 DEF NamesSince
<1>11. CASE e.kind # "task" /\ e.kind # "join"
  <2>1. LastSeen(J, L, col, u, w)
    <3>1. \A h \in 1..L : col[h] # c
      <4>1. \A h \in 1..L : h \in 0..L
        OBVIOUS
      <4>2. QED BY <1>2, <1>5, <1>11, <4>1
    <3>2. QED BY <1>3, <1>8, <3>1 DEF LastSeen
  <2>2. Collect(v, e) = v
    BY <1>11 DEF Collect
  <2>3. QED BY <1>1, <1>2, <1>3, <1>10, <1>11, <2>1, <2>2 DEF PassAt
<1>12. CASE e.kind = "join"
  <2>1. PICK k \in 0..L : c = col[k]
    BY <1>2, <1>4, <1>12 DEF JoinsAt
  <2>2. NamesSince(cells, q, r, c) = {}
    <3>1. \A x \in cells : ~(Seen(q, r, x[1], x[2]) /\ c < x[2])
      BY <1>1, <1>7 DEF Seen
    <3>2. QED BY <3>1 DEF NamesSince
  <2>3. ASSUME NEW i \in 0..L, i > k PROVE col[i] \in Nat /\ c < col[i] /\ ~Seen(q, r, 0, col[i])
    <3>1. col[i] \in Nat /\ c < col[i]
      BY <1>5, <2>1, <2>3
    <3>2. QED BY <1>1, <3>1 DEF Seen
  <2>4. CASE k = 0 \/ r # 0
    <3>1. J = k
      <4>1. k # 0 => Seen(q, r, 0, col[k])
        BY <1>1, <2>1, <2>4 DEF Seen
      <4>2. k < L => ~Seen(q, r, 0, col[k + 1])
        <5>1. SUFFICES ASSUME k < L PROVE ~Seen(q, r, 0, col[k + 1])
          OBVIOUS
        <5>2. k + 1 \in 0..L /\ k + 1 > k
          BY <5>1
        <5>3. QED BY <2>3, <5>2
      <4>3. QED BY <1>3, <4>1, <4>2, TheLastSeen
    <3>2. LastSeen(k, L, col, u, w)
      <4>1. ASSUME NEW i \in 1..L PROVE ~(col[i] = c /\ 0 = r)
        <5>1. SUFFICES ASSUME col[i] = c, r = 0 PROVE FALSE
          OBVIOUS
        <5>2. k = 0 /\ i \in 0..L /\ i > k
          BY <2>4, <5>1
        <5>3. QED BY <1>1, <2>3, <5>1, <5>2
      <4>2. QED BY <1>3, <1>8, <3>1, <4>1 DEF LastSeen
    <3>3. v.current = {}
      BY <1>3, <2>1, <2>2, <3>1 DEF Collected
    <3>4. Collect(v, e) = v
      BY <1>12, <3>3 DEF Collect
    <3>5. Collected(v, k, F, NamesSince(cells, u, w, col[k]))
      BY <1>3, <1>10, <1>12, <3>1
    <3>6. QED BY <1>1, <1>2, <3>2, <3>4, <3>5 DEF PassAt
  <2>5. CASE k # 0 /\ r = 0
    <3>1. PICK h \in 0..L : h = k - 1 /\ k = h + 1
      BY <2>5
    <3>2. k \in 1..L
      BY <2>5
    <3>3. col[h] \in Nat /\ col[h] < c
      BY <1>5, <2>1, <3>1
    <3>4. J = h
      <4>1. Seen(q, r, 0, col[h])
        BY <1>1, <3>3 DEF Seen
      <4>2. ~Seen(q, r, 0, col[h + 1])
        BY <1>1, <2>1, <2>5, <3>1 DEF Seen
      <4>3. QED BY <1>3, <4>1, <4>2, TheLastSeen
    <3>5. NamesSince(cells, q, r, col[h]) = F[k]
      <4>1. \A x \in cells : Seen(q, r, x[1], x[2]) /\ col[h] < x[2] <=> Between(col, k, L + 1, x[2])
        <5>1. k < L + 1 /\ k - 1 = h
          BY <3>1, <3>2
        <5>2. ASSUME NEW x \in cells
              PROVE  Seen(q, r, x[1], x[2]) /\ col[h] < x[2] <=> Between(col, k, L + 1, x[2])
          <6>1. Seen(q, r, x[1], x[2]) <=> x[2] < c
            BY <1>1, <1>7, <2>5 DEF Seen
          <6>2. Between(col, k, L + 1, x[2]) <=> col[h] < x[2] /\ x[2] < c
            BY <2>1, <5>1 DEF Between
          <6>3. QED BY <6>1, <6>2
        <5>3. QED BY <5>2
      <4>2. {x[3].name : x \in {y \in cells : Between(col, k, L + 1, y[2])}} = F[k]
        BY <3>2 DEF PassedOver, NamesIn
      <4>3. QED BY <4>1, <4>2 DEF NamesSince
    <3>6. F[k] # {}
      BY <3>2 DEF PassedOver
    <3>7. v = [tasks |-> [i \in 1..(k - 1) |-> F[i]], current |-> F[k]]
      BY <1>3, <3>1, <3>4, <3>5 DEF Collected
    <3>8. Append([i \in 1..(k - 1) |-> F[i]], F[k]) = [i \in 1..k |-> F[i]]
      BY <3>2, OneMoreStep
    <3>9. Collect(v, e) = [tasks |-> [i \in 1..k |-> F[i]], current |-> {}]
      <4>1. v.tasks = [i \in 1..(k - 1) |-> F[i]] /\ v.current = F[k]
        BY <3>7
      <4>2. QED BY <1>12, <3>6, <3>8, <4>1 DEF Collect
    <3>10. NamesSince(cells, u, w, col[k]) = {}
      BY <1>10, <1>12, <2>1, <2>2
    <3>11. LastSeen(k, L, col, u, w)
      <4>1. ASSUME NEW i \in 1..L PROVE i <= k <=> Seen(u, w, 0, col[i])
        <5>1. i <= h <=> Seen(q, r, 0, col[i])
          BY <1>3, <3>4 DEF LastSeen
        <5>2. col[i] = c <=> i = k
          <6>1. i \in 0..L /\ k \in 0..L
            OBVIOUS
          <6>2. i < k \/ i = k \/ k < i
            OBVIOUS
          <6>3. QED BY <1>1, <1>5, <2>1, <6>1, <6>2
        <5>3. i <= k <=> i <= h \/ i = k
          BY <3>1
        <5>4. QED BY <1>8, <2>5, <5>1, <5>2, <5>3
      <4>2. QED BY <4>1 DEF LastSeen
    <3>12. Collected(Collect(v, e), k, F, NamesSince(cells, u, w, col[k]))
      BY <3>9, <3>10 DEF Collected
    <3>13. QED BY <1>1, <1>2, <3>11, <3>12 DEF PassAt
  <2>6. QED BY <2>4, <2>5
<1>13. QED BY <1>9, <1>11, <1>12

\* One entry further.
LEMMA SeenNext ==
    ASSUME NEW m \in Nat, NEW M \in Nat \ {0}, NEW p \in 0..(M - 1), NEW c \in Nat
    PROVE  Seen((m + 1) \div M, (m + 1) % M, p, c)
              <=> Seen(m \div M, m % M, p, c) \/ (c = m \div M + 1 /\ p = m % M)
<1>1. PICK q \in Nat, r \in 0..(M - 1) : q = m \div M /\ r = m % M
  BY NextRemainder
<1>2. PICK u, w : u = (m + 1) \div M /\ w = (m + 1) % M
  OBVIOUS
<1>3. /\ w = IF r = M - 1 THEN 0 ELSE r + 1
      /\ u = IF r = M - 1 THEN q + 1 ELSE q
  BY <1>1, <1>2, NextRemainder
<1>4. Seen(u, w, p, c) <=> Seen(q, r, p, c) \/ (c = q + 1 /\ p = r)
  BY <1>3 DEF Seen
<1>5. QED BY <1>1, <1>2, <1>4

\* The pass over the entries: what it has after n of them.
NothingCollected == [tasks |-> <<>>, current |-> {}]

Pass(u, N, entry) ==
    u = [n \in 0..N |-> IF n = 0 THEN NothingCollected ELSE Collect(u[n - 1], entry[n])]

LEMMA PassExists ==
    ASSUME NEW N \in Nat, NEW entry
    PROVE  \E u : Pass(u, N, entry)
<1>1. PICK U : U = {entry[n].name : n \in 1..N}
  OBVIOUS
<1>2. PICK S : S = [tasks : Seq(SUBSET U), current : SUBSET U]
  OBVIOUS
<1>3. NothingCollected \in S
  BY <1>2 DEF NothingCollected
<1>4. ASSUME NEW n \in 1..N, NEW v \in S PROVE Collect(v, entry[n]) \in S
  <2>1. PICK t \in Seq(SUBSET U), c \in SUBSET U : v = [tasks |-> t, current |-> c]
    BY <1>2
  <2>2. PICK e : e = entry[n] /\ e.name \in U
    BY <1>1
  <2>3. CASE e.kind = "task"
    <3>1. Collect(v, e) = [tasks |-> t, current |-> c \union {e.name}]
      BY <2>1, <2>3 DEF Collect
    <3>2. c \union {e.name} \in SUBSET U
      BY <2>2
    <3>3. QED BY <1>2, <2>2, <3>1, <3>2
  <2>4. CASE e.kind = "join" /\ c # {}
    <3>1. Collect(v, e) = [tasks |-> Append(t, c), current |-> {}]
      BY <2>1, <2>4 DEF Collect
    <3>2. Append(t, c) \in Seq(SUBSET U)
      BY <2>1
    <3>3. QED BY <1>2, <2>2, <3>1, <3>2
  <2>5. CASE e.kind # "task" /\ ~(e.kind = "join" /\ c # {})
    <3>1. Collect(v, e) = v
      BY <2>1, <2>5 DEF Collect
    <3>2. QED BY <2>2, <3>1
  <2>6. QED BY <2>3, <2>4, <2>5
<1>5. PICK g : g = [n \in 1..N |-> [v \in S |-> Collect(v, entry[n])]]
  OBVIOUS
<1>6. Steps(g, N, S)
  BY <1>4, <1>5 DEF Steps
<1>7. PICK z : z = NothingCollected /\ z \in S
  BY <1>3
<1>8. PICK f \in [0..N -> S] : f[0] = z /\ \A i \in 1..N : f[i] = g[i][f[i - 1]]
  <2>1. \E f \in [0..N -> S] : f[0] = z /\ \A i \in 1..N : f[i] = g[i][f[i - 1]]
    BY ONLY N \in Nat, <1>6, <1>7, Recursion
  <2>2. QED BY <2>1
<1>9. ASSUME NEW n \in 0..N
      PROVE  f[n] = IF n = 0 THEN NothingCollected ELSE Collect(f[n - 1], entry[n])
  <2>1. CASE n = 0
    BY <1>7, <1>8, <2>1
  <2>2. CASE n # 0
    <3>1. n \in 1..N /\ n - 1 \in 0..N
      BY <2>2
    <3>2. f[n - 1] \in S /\ f[n] = g[n][f[n - 1]]
      BY <1>8, <3>1
    <3>3. g[n][f[n - 1]] = Collect(f[n - 1], entry[n])
      BY <1>5, <3>1, <3>2
    <3>4. QED BY <2>2, <3>2, <3>3
  <2>3. QED BY <2>1, <2>2
<1>10. f = [n \in 0..N |-> f[n]]
  BY <1>8
<1>11. f = [n \in 0..N |-> IF n = 0 THEN NothingCollected ELSE Collect(f[n - 1], entry[n])]
  BY <1>9, <1>10
<1>12. QED BY <1>11 DEF Pass

\* When the pass is over it has the names of every step in its place.
MatrixEntries(entry, a, M, l, N) ==
    /\ N \in Nat /\ N = l * M
    /\ entry = [n \in 1..N |-> a[(n - 1) % M][(n - 1) \div M + 1]]

Tabulated(t, L, F) == t = [i \in 1..L |-> F[i]]

LEMMA PassOver ==
    ASSUME NEW M \in Nat \ {0}, NEW l \in Nat, NEW L \in Nat, NEW a, NEW col, NEW cells, NEW F,
           PassedOver(a, M, l, L, col, cells, F),
           NEW N, NEW entry, MatrixEntries(entry, a, M, l, N), NEW u, Pass(u, N, entry)
    PROVE  Tabulated(u[N].tasks, L, F)
<1>. N \in Nat /\ N = l * M /\ entry = [n \in 1..N |-> a[(n - 1) % M][(n - 1) \div M + 1]]
  BY DEF MatrixEntries
<1>1. /\ JoinsAt(a, M, col, L + 1) /\ cells = TaskCells(a, M) /\ (L + 1) - 1 = L
      /\ \A p \in 0..(M - 1) : DOMAIN a[p] = 1..l
  BY DEF PassedOver
<1>2. 0 \in 0..(M - 1)
  OBVIOUS
<1>3. \A i \in 0..L : col[i] \in 1..l
  BY <1>1, <1>2 DEF JoinsAt
<1>4. \A x \in cells : x[1] \in 0..(M - 1) /\ x[2] \in Nat /\ x[2] >= 1
  <2>1. ASSUME NEW x \in cells PROVE x[1] \in 0..(M - 1) /\ x[2] \in Nat /\ x[2] >= 1
    <3>1. x[1] \in 0..(M - 1) /\ x[2] \in DOMAIN a[x[1]]
      BY <1>1, CellFacts
    <3>2. x[2] \in 1..l
      BY <1>1, <3>1
    <3>3. QED BY <3>1, <3>2
  <2>2. QED BY <2>1
<1>. DEFINE T == {n \in 0..N : PassAt(u[n], n \div M, n % M, L, col, cells, F)}
<1>5. 0 \in T
  <2>1. 0 \div M = 0
    <3>1. PICK z \in Nat : z = 0
      OBVIOUS
    <3>2. z * M <= z /\ z < z * M + M
      BY <3>1
    <3>3. z \div M = z
      BY <3>2, QuotientBounds
    <3>4. QED BY <3>1, <3>3
  <2>2. 0 % M = 0
    <3>1. PICK z \in 0..(M - 1) : z = 0
      BY <1>2
    <3>2. z \in Nat /\ z = z * M + z
      BY <3>1
    <3>3. z % M = z
      BY <3>2, Remainder
    <3>4. QED BY <3>1, <3>3
  <2>3. 0 \in 0..N /\ u[0] = NothingCollected
    BY DEF Pass
  <2>4. LastSeen(0, L, col, 0, 0)
    <3>1. \A i \in 1..L : ~(i <= 0) /\ ~Seen(0, 0, 0, col[i])
      <4>1. \A i \in 1..L : i \in 0..L /\ ~(i <= 0)
        OBVIOUS
      <4>2. QED BY <1>3, <4>1 DEF Seen
    <3>2. QED BY <3>1 DEF LastSeen
  <2>5. NamesSince(cells, 0, 0, col[0]) = {}
    <3>1. \A x \in cells : ~Seen(0, 0, x[1], x[2])
      BY <1>4 DEF Seen
    <3>2. QED BY <3>1 DEF NamesSince
  <2>6. [i \in 1..0 |-> F[i]] = <<>>
    OBVIOUS
  <2>7. Collected(u[0], 0, F, NamesSince(cells, 0, 0, col[0]))
    BY <2>3, <2>5, <2>6 DEF Collected, NothingCollected
  <2>8. PassAt(u[0], 0, 0, L, col, cells, F)
    <3>1. 0 \in 0..L
      OBVIOUS
    <3>2. QED BY <2>4, <2>7, <3>1 DEF PassAt
  <2>9. QED BY <2>1, <2>2, <2>3, <2>8
<1>6. ASSUME NEW n \in 0..(N - 1), n \in T PROVE n + 1 \in T
  <2>1. n \in Nat /\ n + 1 \in 0..N /\ n + 1 \in 1..N /\ (n + 1) - 1 = n /\ n + 1 # 0 /\ n < N
    OBVIOUS
  <2>2. PICK q \in Nat, r \in 0..(M - 1) : q = n \div M /\ r = n % M
    BY <2>1, NextRemainder
  <2>3. PICK x \in Nat, w \in Nat : x = (n + 1) \div M /\ w = (n + 1) % M
    <3>1. PICK k \in Nat : k = n + 1
      OBVIOUS
    <3>2. k % M \in 0..(M - 1) /\ k \div M \in Nat
      BY <3>1, NextRemainder
    <3>3. k % M \in Nat
      BY <3>2
    <3>4. QED BY <3>1, <3>2, <3>3
  <2>4. q < l
    <3>1. n = M * q + r
      BY ONLY n \in Nat, M \in Nat \ {0}, <2>2
    <3>2. M * q < l * M /\ M * q = q * M
      <4>1. PICK k : k = M * q
        OBVIOUS
      <4>2. k = q * M /\ k \in Int
        BY <4>1
      <4>3. PICK h : h = l * M /\ n < h
        BY <2>1
      <4>4. k < h
        <5>1. k \in Int /\ r \in Nat /\ n = k + r /\ n < h /\ h \in Nat
          BY <3>1, <4>1, <4>2, <4>3
        <5>2. QED BY ONLY <5>1
      <4>5. QED BY <4>1, <4>2, <4>3, <4>4
    <3>3. CASE q >= l
      <4>1. PICK k \in Nat : k = q - l /\ q = k + l
        BY <3>3
      <4>2. q * M = k * M + l * M /\ k * M >= 0
        BY <4>1
      <4>3. QED BY <3>2, <4>2
    <3>4. QED BY <3>3
  <2>5. PICK v : v = u[n] /\ PassAt(v, q, r, L, col, cells, F)
    BY <1>6, <2>2
  <2>6. u[n + 1] = Collect(v, a[r][q + 1])
    <3>1. u[n + 1] = Collect(u[(n + 1) - 1], entry[n + 1])
      BY <2>1 DEF Pass
    <3>2. entry[n + 1] = a[n % M][n \div M + 1]
      BY <2>1
    <3>3. QED BY <2>1, <2>2, <2>5, <3>1, <3>2
  <2>7. \A p \in 0..(M - 1) : \A c \in Nat :
            Seen(x, w, p, c) <=> Seen(q, r, p, c) \/ (c = q + 1 /\ p = r)
    BY <2>1, <2>2, <2>3, SeenNext
  <2>8. PassAt(Collect(v, a[r][q + 1]), x, w, L, col, cells, F)
    BY <2>3, <2>4, <2>5, <2>7, PassStep
  <2>9. QED BY <2>1, <2>3, <2>6, <2>8
<1>7. N \in T
  <2>. HIDE DEF T
  <2>1. \A n \in 0..(N - 1) : n \in T => n + 1 \in T
    BY <1>6
  <2>2. \A n \in 0..N : n \in T
    BY <1>5, <2>1, UpTo
  <2>3. QED BY <2>2
<1>8. N \div M = l /\ N % M = 0
  <2>1. PICK b \in 0..(M - 1) : b = 0
    BY <1>2
  <2>2. N = l * M + b
    BY <2>1
  <2>3. N % M = b
    BY <2>2, Remainder
  <2>4. l * M <= N /\ N < l * M + M
    OBVIOUS
  <2>5. N \div M = l
    BY <2>4, QuotientBounds
  <2>6. QED BY <2>1, <2>3, <2>5
<1>9. PICK J \in 0..L : /\ LastSeen(J, L, col, l, 0)
                        /\ Collected(u[N], J, F, NamesSince(cells, l, 0, col[J]))
  BY <1>7, <1>8 DEF PassAt
<1>10. J = L
  <2>1. CASE L = 0
    BY <2>1
  <2>2. CASE L # 0
    <3>1. L \in 1..L /\ L \in 0..L
      BY <2>2
    <3>2. Seen(l, 0, 0, col[L])
      BY <1>3, <3>1 DEF Seen
    <3>3. L <= J
      BY <1>9, <3>1, <3>2 DEF LastSeen
    <3>4. QED BY <3>3
  <2>3. QED BY <2>1, <2>2
<1>11. QED BY <1>9, <1>10 DEF Collected, Tabulated

\* tasks_per_joinpoint is the end of the pass over the matrix.
LEMMA PassOfMatrix ==
    ASSUME NEW N, NEW entry, MatrixEntries(entry, allocations, MaxClients, RowCount, N)
    PROVE  \E u : Pass(u, N, entry) /\ TasksPerJoinPoint = u[N].tasks
<1>1. /\ N \in Nat /\ N = RowCount * MaxClients
      /\ entry = [n \in 1..N |-> allocations[(n - 1) % MaxClients][(n - 1) \div MaxClients + 1]]
  BY DEF MatrixEntries
<1>2. ASSUME NEW h
      PROVE  [n \in 0..N |-> IF n = 0 THEN NothingCollected ELSE Collect(h[n - 1], entry[n])] =
             [n \in 0..(RowCount * MaxClients) |->
                 IF n = 0 THEN [tasks |-> <<>>, current |-> {}]
                 ELSE Collect(h[n - 1], allocations[(n - 1) % MaxClients][(n - 1) \div MaxClients + 1])]
  <2>1. \A n \in 0..N : n # 0 => n \in 1..N
    BY <1>1
  <2>2. \A n \in 1..N : entry[n] = allocations[(n - 1) % MaxClients][(n - 1) \div MaxClients + 1]
    BY <1>1
  <2>3. QED BY <1>1, <2>1, <2>2 DEF NothingCollected
<1>3. PICK f : Pass(f, N, entry)
  BY <1>1, PassExists
<1>4. f = [n \in 0..(RowCount * MaxClients) |->
              IF n = 0 THEN [tasks |-> <<>>, current |-> {}]
              ELSE Collect(f[n - 1], allocations[(n - 1) % MaxClients][(n - 1) \div MaxClients + 1])]
  BY <1>2, <1>3 DEF Pass
<1>5. PICK u : /\ u = [n \in 0..(RowCount * MaxClients) |->
                          IF n = 0 THEN [tasks |-> <<>>, current |-> {}]
                          ELSE Collect(u[n - 1],
                                       allocations[(n - 1) % MaxClients][(n - 1) \div MaxClients + 1])]
               /\ TasksPerJoinPoint = u[RowCount * MaxClients].tasks
  BY <1>4 DEF TasksPerJoinPoint
<1>6. Pass(u, N, entry)
  BY <1>2, <1>5 DEF Pass
<1>7. QED BY <1>1, <1>5, <1>6

\* Every step has its tasks when no element is empty.
LEMMA TasksInTheirSteps ==
    ASSUME MatrixInv, NoElementEmpty(schedule)
    PROVE  TasksOfEveryStep
<1>1. SUFFICES ASSUME Done PROVE TasksOfEveryStep
  BY DEF TasksOfEveryStep
<1>2. MaxClients \in Nat \ {0} /\ WellFormedSchedule(schedule) /\ NamesUnique(schedule)
  BY <1>1, MatrixIsDone DEF Done
<1>3. PICK col, l : MatrixDone(col, l)
  BY <1>1, MatrixIsDone DEF Done
<1>4. PICK L \in Nat : L = Len(schedule) /\ DOMAIN schedule = 1..L
  BY <1>2, ScheduleParts DEF IsSeq
<1>5. PICK M \in Nat \ {0} : M = MaxClients
  BY <1>2
<1>6. PICK cells, a, s : cells = TaskCells(a, M) /\ a = allocations /\ s = schedule
  OBVIOUS
<1>7. /\ l \in Nat /\ RowCount = l /\ \A p \in 0..(M - 1) : DOMAIN a[p] = 1..l
      /\ JoinsAt(a, M, col, L + 1) /\ InItsStep(cells, s, col, L + 1, 1, 0)
      /\ HasEntry(cells, s, L + 1, 1, 0)
  BY <1>3, <1>4, <1>5, <1>6 DEF MatrixDone, MatrixUpTo, Physical
<1>8. \A x \in cells : x[2] \in Nat
  <2>1. ASSUME NEW x \in cells PROVE x[2] \in Nat
    <3>1. x[1] \in 0..(M - 1) /\ x[2] \in DOMAIN a[x[1]]
      BY <1>6, CellFacts
    <3>2. QED BY <1>7, <3>1
  <2>2. QED BY <2>1
<1>9. PICK F : F = [k \in 1..L |-> NamesOf(s[k])]
  OBVIOUS
<1>10. PassedOver(a, M, l, L, col, cells, F)
  <2>1. ASSUME NEW x \in cells PROVE \E i \in 1..L : Between(col, i, L + 1, x[2])
    <3>1. PICK i \in 1..(L + 1) : i <= L /\ Between(col, i, L + 1, x[2])
      BY <1>4, <1>6, <1>7 DEF InItsStep
    <3>2. i \in 1..L
      BY <3>1
    <3>3. QED BY <3>1, <3>2
  <2>2. ASSUME NEW k \in 1..L
        PROVE  F[k] # {} /\ NamesIn(cells, col, k, L + 1) = F[k]
    <3>1. F[k] = NamesOf(s[k]) /\ k \in DOMAIN s
      BY <1>4, <1>6, <1>9
    <3>2. DOMAIN s[k].tasks # {}
      BY <1>6, <3>1 DEF NoElementEmpty
    <3>3. NamesOf(s[k]) # {}
      BY <3>2 DEF NamesOf
    <3>4. CellsOfSteps(s, L, a, M, col, cells)
      BY <1>2, <1>4, <1>6, <1>7, <1>8 DEF CellsOfSteps
    <3>5. NamesIn(cells, col, k, L + 1) = NamesOf(s[k])
      BY <3>1, <3>4, NamesOfStep
    <3>6. QED BY <3>1, <3>3, <3>5
  <2>3. QED BY <1>6, <1>7, <2>1, <2>2 DEF PassedOver
<1>11. PICK N, entry : MatrixEntries(entry, a, M, l, N)
  <2>1. PICK n \in Nat : n = l * M
    BY <1>7
  <2>2. PICK t : t = [k \in 1..n |-> a[(k - 1) % M][(k - 1) \div M + 1]]
    OBVIOUS
  <2>3. MatrixEntries(t, a, M, l, n)
    BY <2>1, <2>2 DEF MatrixEntries
  <2>4. QED BY <2>3
<1>12. MatrixEntries(entry, allocations, MaxClients, RowCount, N)
  BY <1>5, <1>6, <1>7, <1>11
<1>13. PICK u : Pass(u, N, entry) /\ TasksPerJoinPoint = u[N].tasks
  BY <1>12, PassOfMatrix
<1>14. TasksPerJoinPoint = [i \in 1..L |-> F[i]]
  <2>1. l \in Nat
    BY <1>7
  <2>2. Tabulated(u[N].tasks, L, F)
    BY <2>1, <1>10, <1>11, <1>13, PassOver
  <2>3. QED BY <1>13, <2>2 DEF Tabulated
<1>15. NumberOfSteps = L
  <2>1. PICK J : J = {r \in DOMAIN a[0] : a[0][r].kind = "join"}
    OBVIOUS
  <2>2. Cardinality(J) = L + 1
    BY <1>7, <2>1, JoinPointsCounted
  <2>3. NumberOfSteps = Cardinality(J) - 1
    BY <1>6, <2>1 DEF NumberOfSteps
  <2>4. QED BY <2>2, <2>3
<1>16. Len(TasksPerJoinPoint) = L /\ \A j \in 1..L : TasksPerJoinPoint[j] = F[j]
  BY <1>14
<1>17. QED BY <1>4, <1>6, <1>9, <1>15, <1>16 DEF TasksOfEveryStep

LEMMA MatrixInvInit ==
    ASSUME IngestionInit
    PROVE  MatrixInv
<1>1. /\ schedule \in Schedules /\ pc = "filter" /\ element = 1 /\ sub = 1 /\ client = 0
      /\ start_client_index = 0 /\ completing = <<>>
  BY DEF IngestionInit, Init
<1>2. WellFormedSchedule(schedule) /\ NamesUnique(schedule) /\ NoElementEmpty(schedule)
  BY <1>1, AllocatorAssumption
<1>3. QED BY <1>1, <1>2 DEF MatrixInv, NothingAllotted

\* Whatever the schedule, its filter and override: the matrix has each client of each
\* task once, in the step of its element and nothing else, and the join point of an
\* element names the clients of its completing tasks (Allocator.allocations).
THEOREM TasksAllocated == IngestionSpec => [](EveryTaskOnce /\ CompletingClientsNamed)
<1>1. IngestionInit => MatrixInv
  BY MatrixInvInit
<1>2. MatrixInv /\ [IngestionNext]_all => MatrixInv'
  BY MatrixInvStep
<1>3. MatrixInv => EveryTaskOnce /\ CompletingClientsNamed
  BY EachTaskOnce, ClientsNamed
<1>4. QED BY <1>1, <1>2, <1>3, PTL DEF IngestionSpec

\* Where no element is left without tasks, as it is without an exclude filter, the matrix
\* says all that the schedule says: tasks_per_joinpoint also has the tasks of every step
\* in its place (Allocator.tasks_per_joinpoint and number_of_steps).
THEOREM MatrixFollowsSchedule ==
    ASSUME "exclude" \notin FilterModes
    PROVE  IngestionSpec => []MatrixCorrect
<1>1. IngestionInit => MatrixInv
  BY MatrixInvInit
<1>2. MatrixInv /\ [IngestionNext]_all => MatrixInv'
  BY MatrixInvStep
<1>3. MatrixInv => MatrixCorrect
  BY EachTaskOnce, ClientsNamed, TasksInTheirSteps DEF MatrixInv, MatrixCorrect
<1>4. QED BY <1>1, <1>2, <1>3, PTL DEF IngestionSpec

-----------------------------------------------------------------------------
(* The documents of the clients of a task.                                   *)

\* Quotient and remainder.
LEMMA Divided ==
    ASSUME NEW n \in Nat, NEW d \in Nat \ {0}
    PROVE  /\ n \div d \in Nat /\ n % d \in 0..(d - 1)
           /\ n = (n \div d) * d + (n % d)
<1>1. PICK q, r : q = n \div d /\ r = n % d
  OBVIOUS
<1>2. q \in Nat
  BY <1>1, NextRemainder
<1>3. r \in 0..(d - 1) /\ n = d * q + r
  BY <1>1
<1>4. d * q = q * d
  BY <1>2
<1>5. n = q * d + r
  BY <1>3, <1>4
<1>6. QED BY <1>1, <1>2, <1>3, <1>5

\* Rounding keeps the order, and numbers that need none.
LEMMA RoundUp ==
    ASSUME NEW a \in Nat, NEW b \in Nat, NEW d \in Nat \ {0}, a <= b
    PROVE  Round(a, d) \in Nat /\ Round(a, d) <= Round(b, d)
<1>1. PICK q \in Nat, r \in 0..(d - 1) : q = a \div d /\ r = a % d /\ a = q * d + r
  BY Divided
<1>2. PICK u \in Nat, w \in 0..(d - 1) : u = b \div d /\ w = b % d /\ b = u * d + w
  BY Divided
<1>3. Round(a, d) = IF 2 * r > d \/ (2 * r = d /\ q % 2 = 1) THEN q + 1 ELSE q
  BY <1>1 DEF Round
<1>4. Round(b, d) = IF 2 * w > d \/ (2 * w = d /\ u % 2 = 1) THEN u + 1 ELSE u
  BY <1>2 DEF Round
<1>5. q <= u
  <2>1. SUFFICES ASSUME u < q PROVE FALSE
    BY <1>1, <1>2
  <2>2. PICK k \in Nat : q = u + 1 + k
    <3>1. q - u - 1 \in Nat /\ q = u + 1 + (q - u - 1)
      BY <2>1
    <3>2. QED BY <3>1
  <2>3. q * d = u * d + d + k * d /\ k * d >= 0 /\ u * d \in Nat
    BY <2>2
  <2>4. QED BY <1>1, <1>2, <2>3
<1>6. CASE q < u
  BY <1>3, <1>4, <1>6
<1>7. CASE q = u
  <2>1. r <= w
    <3>1. PICK h \in Int : h = q * d
      OBVIOUS
    <3>2. a = h + r /\ b = h + w
      BY <1>1, <1>2, <1>7, <3>1
    <3>3. QED BY <3>2
  <2>2. PICK z : z = (q % 2 = 1)
    OBVIOUS
  <2>3. QED BY <1>3, <1>4, <1>7, <2>1
<1>8. QED BY <1>3, <1>5, <1>6, <1>7

LEMMA RoundExact ==
    ASSUME NEW k \in Nat, NEW d \in Nat \ {0}
    PROVE  Round(k * d, d) = k
<1>1. PICK a \in Nat, b \in 0..(d - 1) : a = k * d /\ b = 0 /\ a = k * d + b
  OBVIOUS
<1>2. a \div d = k
  <2>1. k * d <= a /\ a < k * d + d
    BY <1>1
  <2>2. QED BY <2>1, QuotientBounds
<1>3. a % d = 0
  BY <1>1, Remainder
<1>4. QED BY <1>1, <1>2, <1>3 DEF Round

\* The number of bulks of n documents.
LEMMA BulksOf ==
    ASSUME NEW n \in Nat, NEW d \in Nat \ {0}
    PROVE  /\ CeilDiv(n, d) \in Nat /\ n <= CeilDiv(n, d) * d
           /\ \A k \in Nat : k * d < n => k + 1 <= CeilDiv(n, d)
<1>1. PICK m \in Nat : m = n + d - 1
  OBVIOUS
<1>2. PICK c \in Nat, r \in 0..(d - 1) : c = m \div d /\ m = c * d + r
  BY Divided
<1>3. CeilDiv(n, d) = c
  BY <1>1, <1>2 DEF CeilDiv
<1>4. PICK h \in Nat : h = c * d
  OBVIOUS
<1>5. n <= h
  BY <1>1, <1>2, <1>4
<1>6. ASSUME NEW k \in Nat, k * d < n PROVE k + 1 <= c
  <2>1. SUFFICES ASSUME c <= k PROVE FALSE
    OBVIOUS
  <2>2. PICK j \in Nat : k = c + j
    <3>1. k - c \in Nat /\ k = c + (k - c)
      BY <2>1
    <3>2. QED BY <3>1
  <2>3. k * d = h + j * d /\ j * d >= 0
    BY <1>4, <2>2
  <2>4. QED BY <1>5, <1>6, <2>3
<1>7. QED BY <1>3, <1>4, <1>5, <1>6

LEMMA AllOfThem ==
    ASSUME NEW n \in Nat
    PROVE  CeilDiv(n * 100, 100) = n
<1>1. PICK m \in Nat : m = n * 100 + 100 - 1
  OBVIOUS
<1>2. n * 100 <= m /\ m < n * 100 + 100
  BY <1>1
<1>3. m \div 100 = n
  BY <1>2, QuotientBounds
<1>4. QED BY <1>1, <1>3 DEF CeilDiv

\* The last of n documents that N clients share before those of client k.
Edge(n, N, k) == Round(n * k, N)

LEMMA EdgesUp ==
    ASSUME NEW n \in Nat, NEW N \in Nat \ {0}, NEW i \in Nat, NEW k \in Nat, i <= k
    PROVE  Edge(n, N, i) \in Nat /\ Edge(n, N, i) <= Edge(n, N, k)
<1>1. PICK j \in Nat : k = i + j
  <2>1. k - i \in Nat /\ k = i + (k - i)
    OBVIOUS
  <2>2. QED BY <2>1
<1>2. PICK a \in Nat, b \in Nat : a = n * i /\ b = n * k
  OBVIOUS
<1>3. b = a + n * j /\ n * j >= 0
  BY <1>1, <1>2
<1>4. a <= b
  BY <1>2, <1>3
<1>5. Round(a, N) \in Nat /\ Round(a, N) <= Round(b, N)
  BY <1>4, RoundUp
<1>6. QED BY <1>2, <1>5 DEF Edge

\* A document that falls to a client of ks.
Falls(n, N, ks, d) == \E k \in ks : Edge(n, N, k) < d /\ d <= Edge(n, N, k + 1)

\* It falls to one client,
LEMMA FallsToOne ==
    ASSUME NEW n \in Nat, NEW N \in Nat \ {0}, NEW i \in Nat, NEW k \in Nat, NEW d \in Nat,
           Falls(n, N, {i}, d), Falls(n, N, {k}, d)
    PROVE  i = k
<1>1. ASSUME NEW x \in Nat, NEW y \in Nat, Falls(n, N, {x}, d), Falls(n, N, {y}, d) PROVE ~(x < y)
  <2>1. SUFFICES ASSUME x < y PROVE FALSE
    OBVIOUS
  <2>2. d <= Edge(n, N, x + 1) /\ Edge(n, N, y) < d
    BY <1>1 DEF Falls
  <2>3. PICK z \in Nat : z = x + 1 /\ z <= y
    BY <2>1
  <2>4. Edge(n, N, z) \in Nat /\ Edge(n, N, z) <= Edge(n, N, y) /\ Edge(n, N, y) \in Nat
    BY <2>3, EdgesUp
  <2>5. QED BY <2>2, <2>3, <2>4
<1>2. ~(i < k) /\ ~(k < i)
  BY <1>1
<1>3. QED BY <1>2

\* and one of the N clients has it.
LEMMA FallsToSome ==
    ASSUME NEW n \in Nat, NEW N \in Nat \ {0}, NEW d \in 1..n
    PROVE  \E k \in 0..(N - 1) : Falls(n, N, {k}, d)
<1>1. PICK T : T = {k \in 0..N : d <= Edge(n, N, k)}
  OBVIOUS
<1>2. Edge(n, N, 0) = 0 /\ Edge(n, N, N) = n
  <2>1. n * 0 = 0 * N /\ 0 \in Nat
    OBVIOUS
  <2>2. Round(0 * N, N) = 0 /\ Round(n * N, N) = n
    BY <2>1, RoundExact
  <2>3. QED BY <2>1, <2>2 DEF Edge
<1>3. T \in SUBSET Nat /\ N \in T /\ 0 \notin T
  BY <1>1, <1>2
<1>4. PICK m \in T : \A k \in T : m <= k
  BY <1>3, LeastNumber
<1>5. m \in 1..N /\ d <= Edge(n, N, m)
  BY <1>1, <1>3, <1>4
<1>6. PICK k \in 0..(N - 1) : m = k + 1 /\ k \notin T
  <2>1. m - 1 \in 0..(N - 1) /\ m = (m - 1) + 1
    BY <1>5
  <2>2. m - 1 \notin T
    BY <1>4, <1>5
  <2>3. QED BY <2>1, <2>2
<1>7. k \in 0..N /\ k \in Nat
  OBVIOUS
<1>8. Edge(n, N, k) \in Nat /\ ~(d <= Edge(n, N, k))
  BY <1>1, <1>6, <1>7, EdgesUp
<1>9. Edge(n, N, k) < d
  BY <1>8
<1>10. QED BY <1>5, <1>6, <1>9 DEF Falls

\* What falls to the clients a..b.
LEMMA FallsToRange ==
    ASSUME NEW n \in Nat, NEW N \in Nat \ {0}, NEW a \in Nat, NEW b \in Nat, a <= b, NEW d \in Nat
    PROVE  Falls(n, N, a..b, d) <=> Edge(n, N, a) < d /\ d <= Edge(n, N, b + 1)
<1>1. ASSUME Falls(n, N, a..b, d) PROVE Edge(n, N, a) < d /\ d <= Edge(n, N, b + 1)
  <2>1. PICK k \in a..b : Edge(n, N, k) < d /\ d <= Edge(n, N, k + 1)
    BY <1>1 DEF Falls
  <2>2. k \in Nat /\ a <= k /\ k + 1 \in Nat /\ b + 1 \in Nat /\ k + 1 <= b + 1
    BY <2>1
  <2>3. Edge(n, N, a) \in Nat /\ Edge(n, N, a) <= Edge(n, N, k)
    BY <2>2, EdgesUp
  <2>a. Edge(n, N, k) \in Nat
    BY <2>2, EdgesUp
  <2>4. PICK j \in Nat, h \in Nat : j = k + 1 /\ h = b + 1 /\ j <= h
    BY <2>2
  <2>5. Edge(n, N, j) \in Nat /\ Edge(n, N, j) <= Edge(n, N, h)
    BY <2>4, EdgesUp
  <2>b. Edge(n, N, h) \in Nat
    BY <2>4, EdgesUp
  <2>6. QED BY <2>1, <2>3, <2>a, <2>4, <2>5, <2>b
<1>2. ASSUME Edge(n, N, a) < d, d <= Edge(n, N, b + 1) PROVE Falls(n, N, a..b, d)
  <2>1. PICK T : T = {k \in Nat : a <= k /\ d <= Edge(n, N, k + 1)}
    OBVIOUS
  <2>2. T \in SUBSET Nat /\ b \in T
    BY <1>2, <2>1
  <2>3. PICK k \in T : \A j \in T : k <= j
    BY <2>2, LeastNumber
  <2>4. k \in a..b /\ k \in Nat /\ d <= Edge(n, N, k + 1)
    BY <2>1, <2>2, <2>3
  <2>5. Edge(n, N, k) < d
    <3>1. CASE k = a
      BY <1>2, <3>1
    <3>2. CASE k # a
      <4>1. PICK j \in Nat : k = j + 1 /\ a <= j
        <5>1. k - 1 \in Nat /\ a <= k - 1 /\ k = (k - 1) + 1
          BY <2>4, <3>2
        <5>2. QED BY <5>1
      <4>2. j \notin T
        BY <2>3, <2>4, <4>1
      <4>3. ~(d <= Edge(n, N, k))
        BY <2>1, <4>1, <4>2
      <4>4. Edge(n, N, k) \in Nat
        BY <2>4, EdgesUp
      <4>5. QED BY <4>3, <4>4
    <3>3. QED BY <3>1, <3>2
  <2>6. QED BY <2>4, <2>5 DEF Falls
<1>3. QED BY <1>1, <1>2
-----------------------------------------------------------------------------
(* The clients of a task are next to each other.                             *)

\* The places of the matrix in the order they are filled.
Place(x, M) == x[2] * M + x[1]
IndexOf(x) == x[3].client_index_in_task

\* The clients of a task follow each other.
InTurn(cells, M) ==
    \A x, y \in cells : x[3].name = y[3].name => Place(x, M) + IndexOf(y) = Place(y, M) + IndexOf(x)

\* Those of one task from the place z on.
TurnsFrom(cells, M, name, z) ==
    \A x \in cells : x[3].name = name => Place(x, M) = z + IndexOf(x)

Placed(cells, M) ==
    \A x \in cells : Place(x, M) \in Nat /\ IndexOf(x) \in Nat /\ x[2] \in Nat /\ x[1] \in 0..(M - 1)

\* The next client comes base rows behind the beginning of the element.
NextTurn(a, M, s, e, u, n, start, base) ==
    /\ base \in Nat /\ Len(a[M - 1]) = base + ((start + n) \div M)
    /\ e <= Len(s) /\ u <= Len(s[e].tasks) =>
          TurnsFrom(TaskCells(a, M), M, s[e].tasks[u].name, (base + 1) * M + start)

OrderInv ==
    /\ pc \in {"allocate", "done", "assign"} =>
          InTurn(TaskCells(allocations, MaxClients), MaxClients)
    /\ pc = "allocate" =>
          \E base : NextTurn(allocations, MaxClients, schedule, element, sub, client,
                             start_client_index, base)

\* What the cells are made of.
LEMMA CellsPlaced ==
    ASSUME NEW M \in Nat \ {0}, NEW a, NEW f, RowsOf(a, M, f), NEW s, WellFormedSchedule(s),
           NEW col, NEW e \in Nat, NEW u, NEW n, InItsStep(TaskCells(a, M), s, col, e, u, n)
    PROVE  Placed(TaskCells(a, M), M)
<1>1. ASSUME NEW x \in TaskCells(a, M)
      PROVE  Place(x, M) \in Nat /\ IndexOf(x) \in Nat /\ x[2] \in Nat /\ x[1] \in 0..(M - 1)
  <2>1. x[1] \in 0..(M - 1) /\ x[2] \in DOMAIN a[x[1]]
    BY CellFacts
  <2>2. PICK r : r = a[x[1]] /\ IsSeq(r)
    BY <2>1 DEF RowsOf
  <2>3. x[2] \in Nat
    BY <2>1, <2>2 DEF IsSeq
  <2>4. PICK i \in 1..e : /\ i <= Len(s)
                          /\ \E j \in DOMAIN s[i].tasks :
                                IndexOf(x) \in 0..(s[i].tasks[j].clients - 1)
    BY DEF InItsStep, IndexOf
  <2>5. i \in DOMAIN s
    <3>1. Len(s) \in Nat /\ DOMAIN s = 1..Len(s)
      BY ScheduleParts DEF IsSeq
    <3>2. QED BY <2>4, <3>1
  <2>6. PICK j \in DOMAIN s[i].tasks : IndexOf(x) \in 0..(s[i].tasks[j].clients - 1)
    BY <2>4
  <2>7. s[i].tasks[j].clients \in Nat
    BY <2>5, SubTaskFacts
  <2>8. IndexOf(x) \in Nat
    BY <2>6, <2>7
  <2>9. PICK c \in Nat, p \in 0..(M - 1) : c = x[2] /\ p = x[1]
    BY <2>1, <2>3
  <2>10. c * M + p \in Nat
    OBVIOUS
  <2>11. Place(x, M) \in Nat
    BY <2>9, <2>10 DEF Place
  <2>12. QED BY <2>1, <2>3, <2>8, <2>11
<1>2. QED BY <1>1 DEF Placed

\* One more client of a task.
LEMMA OneMoreInTurn ==
    ASSUME NEW M, NEW cells, Placed(cells, M), InTurn(cells, M), NEW name, NEW z \in Nat,
           TurnsFrom(cells, M, name, z), NEW y, y[3].name = name, IndexOf(y) \in Nat,
           Place(y, M) = z + IndexOf(y), NEW more, more = cells \union {y}
    PROVE  InTurn(more, M) /\ TurnsFrom(more, M, name, z)
<1>1. TurnsFrom(more, M, name, z)
  BY DEF TurnsFrom
<1>2. ASSUME NEW x \in cells, x[3].name = name
      PROVE  Place(x, M) + IndexOf(y) = Place(y, M) + IndexOf(x)
  <2>1. Place(x, M) = z + IndexOf(x) /\ IndexOf(x) \in Nat
    BY <1>2 DEF TurnsFrom, Placed
  <2>2. PICK i \in Nat, k \in Nat : i = IndexOf(x) /\ k = IndexOf(y)
    BY <2>1
  <2>3. (z + i) + k = (z + k) + i
    OBVIOUS
  <2>4. QED BY <2>1, <2>2, <2>3
<1>3. ASSUME NEW v \in more, NEW w \in more, v[3].name = w[3].name
      PROVE  Place(v, M) + IndexOf(w) = Place(w, M) + IndexOf(v)
  <2>1. CASE v \in cells /\ w \in cells
    BY <1>3, <2>1 DEF InTurn
  <2>2. CASE v \in cells /\ w = y
    BY <1>2, <1>3, <2>2
  <2>3. CASE v = y /\ w \in cells
    BY <1>2, <1>3, <2>3
  <2>4. CASE v = y /\ w = y
    BY <2>4
  <2>5. QED BY <2>1, <2>2, <2>3, <2>4
<1>4. QED BY <1>1, <1>3 DEF InTurn

\* The place of the next client.
LEMMA NextPlace ==
    ASSUME NEW M \in Nat \ {0}, NEW base \in Nat, NEW g \in Nat, NEW n \in Nat,
           NEW l, l = base + ((g + n) \div M)
    PROVE  (l + 1) * M + ((g + n) % M) = ((base + 1) * M + g) + n
<1>1. PICK h \in Nat : h = g + n
  OBVIOUS
<1>2. PICK q \in Nat, r \in 0..(M - 1) : q = h \div M /\ r = h % M /\ h = q * M + r
  BY Divided
<1>3. l = base + q
  BY <1>1, <1>2
<1>4. (l + 1) * M = (base + 1) * M + q * M
  BY <1>3
<1>5. PICK i \in Nat, k \in Nat : i = (base + 1) * M /\ k = q * M
  OBVIOUS
<1>6. (i + k) + r = (i + g) + n
  BY <1>1, <1>2, <1>5
<1>7. QED BY <1>1, <1>2, <1>4, <1>5, <1>6

\* A client gets its entry.
LEMMA AllocateClientOrder ==
    ASSUME NEW M \in Nat \ {0}, NEW a, NEW g \in Nat, NEW n \in Nat, NEW base,
           RowsOf(a, M, (g + n) % M), NEW s, NEW e, NEW u, e <= Len(s), u <= Len(s[e].tasks),
           NextTurn(a, M, s, e, u, n, g, base), Placed(TaskCells(a, M), M),
           InTurn(TaskCells(a, M), M), NEW x, x.kind = "task", x.name = s[e].tasks[u].name,
           x.client_index_in_task = n, NEW b, b = [a EXCEPT ![(g + n) % M] = Append(@, x)]
    PROVE  InTurn(TaskCells(b, M), M) /\ NextTurn(b, M, s, e, u, n + 1, g, base)
<1>1. PICK h \in Nat, p \in 0..(M - 1), q \in Nat :
          h = g + n /\ p = h % M /\ q = h \div M /\ p = (g + n) % M /\ q = (g + n) \div M
  <2>1. g + n \in Nat
    OBVIOUS
  <2>2. QED BY <2>1, NextRemainder
<1>2. PICK l \in Nat : l = Len(a[M - 1]) /\ l = base + q /\ base \in Nat /\ l = Len(a[p])
  <2>1. base \in Nat /\ Len(a[M - 1]) = base + q
    BY <1>1 DEF NextTurn
  <2>2. Len(a[p]) = Len(a[M - 1])
    <3>1. RowsOf(a, M, p)
      BY <1>1
    <3>2. ~(p < p)
      OBVIOUS
    <3>3. QED BY <3>1, <3>2 DEF RowsOf
  <2>3. QED BY <2>1, <2>2
<1>3. PICK y : y = <<p, l + 1, x>> /\ TaskCells(b, M) = TaskCells(a, M) \union {y}
  <2>1. b = [a EXCEPT ![p] = Append(@, x)]
    BY <1>1
  <2>2. OneMoreCell(a, b, M, <<p, Len(a[p]) + 1, x>>)
    BY <2>1, CellsOneMore
  <2>3. QED BY <1>2, <2>2 DEF OneMoreCell
<1>4. PICK z \in Nat : z = (base + 1) * M + g /\ TurnsFrom(TaskCells(a, M), M, x.name, z)
  <2>0. base \in Nat
    BY <1>2
  <2>1. (base + 1) * M + g \in Nat
    BY ONLY <2>0, M \in Nat \ {0}, g \in Nat
  <2>2. QED BY <2>1 DEF NextTurn
<1>5. y[3].name = x.name /\ IndexOf(y) = n /\ Place(y, M) = z + n
  <2>1. y[1] = p /\ y[2] = l + 1 /\ y[3] = x
    BY <1>3
  <2>0. l = base + ((g + n) \div M)
    BY <1>1, <1>2
  <2>a. (l + 1) * M + ((g + n) % M) = ((base + 1) * M + g) + n
    <3>1. base \in Nat
      BY <1>2
    <3>2. QED BY ONLY M \in Nat \ {0}, g \in Nat, n \in Nat, <2>0, <3>1, NextPlace
  <2>2. (l + 1) * M + p = z + n
    BY <1>1, <1>4, <2>a
  <2>3. QED BY <2>1, <2>2 DEF IndexOf, Place
<1>6. InTurn(TaskCells(b, M), M) /\ TurnsFrom(TaskCells(b, M), M, x.name, z)
  <2>1. y[3].name = x.name /\ IndexOf(y) \in Nat /\ z \in Nat /\ Place(y, M) = z + IndexOf(y)
    BY <1>4, <1>5
  <2>2. TurnsFrom(TaskCells(a, M), M, x.name, z)
    BY <1>4
  <2>3. QED BY ONLY <1>3, <2>1, <2>2, Placed(TaskCells(a, M), M), InTurn(TaskCells(a, M), M),
           OneMoreInTurn, Zenon
<1>7. Len(b[M - 1]) = base + ((g + (n + 1)) \div M)
  <2>1. g + (n + 1) = h + 1
    BY <1>1
  <2>2. (h + 1) \div M = IF p = M - 1 THEN q + 1 ELSE q
    <3>1. (h + 1) \div M = IF h % M = M - 1 THEN (h \div M) + 1 ELSE h \div M
      BY ONLY M \in Nat \ {0}, h \in Nat, NextRemainder, Zenon
    <3>2. p = h % M /\ q = h \div M
      BY <1>1
    <3>3. QED BY ONLY <3>1, <3>2, Zenon
  <2>3. IsSeq(a[p]) /\ DOMAIN a = 0..(M - 1) /\ M - 1 \in 0..(M - 1)
    BY DEF RowsOf
  <2>4. CASE p = M - 1
    <3>1. b[M - 1] = Append(a[p], x)
      BY <1>1, <2>3, <2>4
    <3>2. OneMoreEntry(a[p], x, b[M - 1])
      BY <2>3, <3>1, RowAppended
    <3>3. Len(b[M - 1]) = l + 1
      BY <1>2, <3>2 DEF OneMoreEntry
    <3>4. (g + (n + 1)) \div M = q + 1
      BY ONLY <2>1, <2>2, <2>4
    <3>5. l + 1 = base + (q + 1)
      <4>1. q \in Nat /\ l = base + q /\ base \in Nat
        BY <1>2
      <4>2. QED BY ONLY <4>1
    <3>6. QED BY ONLY <3>3, <3>4, <3>5
  <2>5. CASE p # M - 1
    <3>1. b[M - 1] = a[M - 1]
      BY <1>1, <2>3, <2>5
    <3>2. (g + (n + 1)) \div M = q
      BY ONLY <2>1, <2>2, <2>5
    <3>3. Len(b[M - 1]) = base + q
      BY <1>2, <3>1
    <3>4. QED BY ONLY <3>2, <3>3
  <2>6. QED BY <2>4, <2>5
<1>8. QED BY <1>2, <1>4, <1>6, <1>7 DEF NextTurn

\* No client of a later sub-task has an entry.
LEMMA NoneOfTheNext ==
    ASSUME NEW s, WellFormedSchedule(s), NamesUnique(s), NEW f \in DOMAIN s,
           NEW v \in DOMAIN s[f].tasks, NEW cells, NEW col, NEW e \in Nat, NEW u \in Nat, NEW n,
           InItsStep(cells, s, col, e, u, n), e < f \/ (e = f /\ u < v), NEW M, NEW z
    PROVE  TurnsFrom(cells, M, s[f].tasks[v].name, z)
<1>1. SUFFICES ASSUME NEW x \in cells, x[3].name = s[f].tasks[v].name PROVE FALSE
  BY DEF TurnsFrom
<1>2. PICK i \in 1..e : i <= Len(s) /\ \E j \in DOMAIN s[i].tasks :
              /\ x[3].name = s[i].tasks[j].name
              /\ Allotted(i, j, x[3].client_index_in_task, e, u, n)
  BY DEF InItsStep
<1>3. PICK j \in DOMAIN s[i].tasks :
              /\ x[3].name = s[i].tasks[j].name
              /\ Allotted(i, j, x[3].client_index_in_task, e, u, n)
  BY <1>2
<1>4. DOMAIN s = 1..Len(s) /\ Len(s) \in Nat /\ v \in Nat /\ f \in Nat
  BY SubTaskFacts
<1>5. i \in DOMAIN s
  BY <1>2, <1>4
<1>6. i = f /\ j = v
  <2>1. s[i].tasks[j].name = s[f].tasks[v].name
    BY <1>1, <1>3
  <2>2. \A k \in DOMAIN s : \A m \in DOMAIN s[i].tasks, w \in DOMAIN s[k].tasks :
            s[i].tasks[m].name = s[k].tasks[w].name => i = k /\ m = w
    BY <1>5 DEF NamesUnique
  <2>3. \A m \in DOMAIN s[i].tasks, w \in DOMAIN s[f].tasks :
            s[i].tasks[m].name = s[f].tasks[w].name => i = f /\ m = w
    BY <2>2
  <2>4. QED BY <2>1, <2>3
<1>7. Allotted(f, v, x[3].client_index_in_task, e, u, n)
  BY <1>3, <1>6
<1>8. QED BY <1>4, <1>7 DEF Allotted

\* An element is finished without more tasks.
LEMMA ClosedCells ==
    ASSUME NEW M \in Nat \ {0}, NEW a, NEW r \in 0..(M - 1), RowsOf(a, M, r), NEW x,
           x.kind = "join", NEW b, b = Closed(a, M, r, x)
    PROVE  TaskCells(b, M) = TaskCells(a, M)
<1>1. GoesOn(a, b, M) /\ \E l \in Nat : ClosedAt(a, b, M, l, x)
  BY RowsClosed
<1>2. PICK l \in Nat : ClosedAt(a, b, M, l, x)
  BY <1>1
<1>3. ASSUME NEW p \in 0..(M - 1), NEW c \in DOMAIN b[p]
      PROVE  c \in DOMAIN a[p] \/ b[p][c].kind # "task"
  <2>1. c \in 1..(l + 1) /\ b[p][l + 1] = x
    BY <1>2 DEF ClosedAt
  <2>2. CASE c = l + 1
    BY <2>1, <2>2
  <2>3. CASE c # l + 1
    <3>1. c \in 1..l
      BY <2>1, <2>3
    <3>2. QED BY <1>2, <3>1 DEF ClosedAt
  <2>4. QED BY <2>2, <2>3
<1>4. QED BY <1>1, <1>3, SameCells

\* What the steps of the allocator start from.
LEMMA AllocatingFacts ==
    ASSUME MatrixInv, OrderInv, Allocating
    PROVE  \E M, base, col :
             /\ M \in Nat \ {0} /\ M = MaxClients /\ DOMAIN schedule = 1..Len(schedule) /\ Len(schedule) \in Nat
             /\ WellFormedSchedule(schedule) /\ NamesUnique(schedule) /\ element \in DOMAIN schedule
             /\ element \in Nat /\ sub \in Nat \ {0} /\ client \in Nat /\ start_client_index \in Nat
             /\ RowsOf(allocations, M, (start_client_index + client) % M)
             /\ Placed(TaskCells(allocations, M), M) /\ InTurn(TaskCells(allocations, M), M)
             /\ InItsStep(TaskCells(allocations, M), schedule, col, element, sub, client)
             /\ NextTurn(allocations, M, schedule, element, sub, client, start_client_index, base)
<1>1. pc = "allocate" /\ element <= Len(schedule)
  BY DEF Allocating
<1>2. WellFormedSchedule(schedule) /\ NamesUnique(schedule)
  BY DEF MatrixInv
<1>3. PICK M \in Nat \ {0} : M = MaxClients
  BY <1>2, MaxClientsPositive
<1>4. DOMAIN schedule = 1..Len(schedule) /\ Len(schedule) \in Nat
  BY <1>2, ScheduleParts DEF IsSeq
<1>5. /\ NextClient(schedule, element, sub, client, start_client_index)
      /\ RowsOf(allocations, M, (start_client_index + client) % M)
      /\ \E col : MatrixUpTo(allocations, M, schedule, col, element, sub, client, completing)
  BY <1>1, <1>3 DEF MatrixInv
<1>6. /\ element \in DOMAIN schedule /\ element \in Nat /\ sub \in Nat \ {0} /\ client \in Nat
      /\ start_client_index \in Nat
  BY <1>1, <1>4, <1>5 DEF NextClient
<1>7. PICK col : InItsStep(TaskCells(allocations, M), schedule, col, element, sub, client)
  BY <1>5 DEF MatrixUpTo
<1>8. Placed(TaskCells(allocations, M), M)
  BY <1>2, <1>5, <1>6, <1>7, CellsPlaced
<1>9. InTurn(TaskCells(allocations, M), M)
  BY <1>1, <1>3 DEF OrderInv
<1>10. PICK base : NextTurn(allocations, M, schedule, element, sub, client, start_client_index, base)
  BY <1>1, <1>3 DEF OrderInv
<1>11. QED BY <1>2, <1>3, <1>4, <1>5, <1>6, <1>7, <1>8, <1>9, <1>10

\* The order, action by action.
LEMMA AllocateClientOrdered ==
    ASSUME MatrixInv, OrderInv, AllocateClient
    PROVE  OrderInv'
<1>1. /\ Allocating /\ pc' = pc /\ sub <= Len(schedule[element].tasks)
      /\ element <= Len(schedule) /\ pc = "allocate"
      /\ schedule' = schedule /\ element' = element /\ sub' = sub /\ client' = client + 1
      /\ start_client_index' = start_client_index /\ MaxClients' = MaxClients
  BY DEF AllocateClient, Allocating, Element, SubTask, MaxClients
<1>2. PICK M, base, col :
             /\ M \in Nat \ {0} /\ M = MaxClients /\ element \in Nat /\ client \in Nat /\ start_client_index \in Nat
             /\ RowsOf(allocations, M, (start_client_index + client) % M)
             /\ Placed(TaskCells(allocations, M), M) /\ InTurn(TaskCells(allocations, M), M)
             /\ NextTurn(allocations, M, schedule, element, sub, client, start_client_index, base)
  BY <1>1, AllocatingFacts
<1>3. PICK x : /\ x = TaskAllocation(SubTask.name, client, start_client_index + client,
                                     ClientsOf(Element))
               /\ x.kind = "task" /\ x.name = schedule[element].tasks[sub].name
               /\ x.client_index_in_task = client
  <2>1. \A y, m, k, i, t : y = TaskAllocation(m, k, i, t) =>
            y.kind = "task" /\ y.name = m /\ y.client_index_in_task = k
    BY DEF TaskAllocation
  <2>2. SubTask.name = schedule[element].tasks[sub].name
    BY DEF SubTask, Element
  <2>3. PICK z : z = TaskAllocation(SubTask.name, client, start_client_index + client,
                                    ClientsOf(Element))
    OBVIOUS
  <2>4. z.kind = "task" /\ z.name = SubTask.name /\ z.client_index_in_task = client
    BY <2>1, <2>3
  <2>5. QED BY <2>2, <2>3, <2>4
<1>4. PICK b : /\ b = allocations'
               /\ b = [allocations EXCEPT ![(start_client_index + client) % M] = Append(@, x)]
  BY <1>2, <1>3 DEF AllocateClient
<1>5. /\ InTurn(TaskCells(b, M), M)
      /\ NextTurn(b, M, schedule, element, sub, client + 1, start_client_index, base)
  BY <1>1, <1>2, <1>3, <1>4, AllocateClientOrder
<1>6. QED BY <1>1, <1>2, <1>4, <1>5 DEF OrderInv

LEMMA NextSubTaskOrdered ==
    ASSUME MatrixInv, OrderInv, NextSubTask
    PROVE  OrderInv'
<1>1. /\ Allocating /\ pc' = pc /\ pc = "allocate" /\ sub <= Len(schedule[element].tasks)
      /\ client = schedule[element].tasks[sub].clients
      /\ schedule' = schedule /\ element' = element /\ sub' = sub + 1 /\ client' = 0
      /\ start_client_index' = start_client_index + client
      /\ allocations' = allocations /\ MaxClients' = MaxClients
  BY DEF NextSubTask, Allocating, Element, SubTask, MaxClients
<1>2. PICK M, base, col :
             /\ M \in Nat \ {0} /\ M = MaxClients /\ DOMAIN schedule = 1..Len(schedule) /\ Len(schedule) \in Nat
             /\ WellFormedSchedule(schedule) /\ NamesUnique(schedule) /\ element \in DOMAIN schedule
             /\ element \in Nat /\ sub \in Nat \ {0} /\ client \in Nat /\ start_client_index \in Nat
             /\ InTurn(TaskCells(allocations, M), M)
             /\ InItsStep(TaskCells(allocations, M), schedule, col, element, sub, client)
             /\ NextTurn(allocations, M, schedule, element, sub, client, start_client_index, base)
  BY <1>1, AllocatingFacts
<1>3. base \in Nat
      /\ Len(allocations[M - 1]) = base + (((start_client_index + client) + 0) \div M)
  <2>1. (start_client_index + client) + 0 = start_client_index + client
    BY <1>2
  <2>2. QED BY <1>2, <2>1 DEF NextTurn
<1>4. ASSUME sub + 1 <= Len(schedule[element].tasks), NEW z
      PROVE  TurnsFrom(TaskCells(allocations, M), M, schedule[element].tasks[sub + 1].name, z)
  <2>1. PICK v \in Nat : v = sub + 1 /\ sub < v
    BY <1>2
  <2>2. v \in DOMAIN schedule[element].tasks
    <3>1. /\ Len(schedule[element].tasks) \in Nat
          /\ DOMAIN schedule[element].tasks = 1..Len(schedule[element].tasks)
      BY <1>2, SubTaskFacts
    <3>2. QED BY <1>2, <1>4, <2>1, <3>1
  <2>3. TurnsFrom(TaskCells(allocations, M), M, schedule[element].tasks[v].name, z)
    BY <1>2, <2>1, <2>2, NoneOfTheNext
  <2>4. QED BY <2>1, <2>3
<1>5. NextTurn(allocations, M, schedule, element, sub + 1, 0, start_client_index + client, base)
  BY <1>3, <1>4 DEF NextTurn
<1>6. QED BY <1>1, <1>2, <1>5 DEF OrderInv

LEMMA FinishElementOrdered ==
    ASSUME MatrixInv, OrderInv, FinishElement
    PROVE  OrderInv'
<1>1. /\ Allocating /\ pc' = pc /\ pc = "allocate" /\ sub > Len(schedule[element].tasks)
      /\ schedule' = schedule /\ element' = element + 1 /\ sub' = 1 /\ client' = client
      /\ start_client_index' = 0 /\ MaxClients' = MaxClients
  BY DEF FinishElement, Allocating, Element, MaxClients
<1>2. PICK M, base, col :
             /\ M \in Nat \ {0} /\ M = MaxClients /\ DOMAIN schedule = 1..Len(schedule) /\ Len(schedule) \in Nat
             /\ WellFormedSchedule(schedule) /\ NamesUnique(schedule) /\ element \in DOMAIN schedule
             /\ element \in Nat /\ sub \in Nat \ {0} /\ client \in Nat /\ start_client_index \in Nat
             /\ RowsOf(allocations, M, (start_client_index + client) % M)
             /\ InTurn(TaskCells(allocations, M), M)
             /\ InItsStep(TaskCells(allocations, M), schedule, col, element, sub, client)
  BY <1>1, AllocatingFacts
<1>3. client = 0
  BY <1>1, <1>2 DEF MatrixInv, NextClient, Allocating
<1>4. PICK x : x = JoinPoint(element, completing) /\ x.kind = "join"
  <2>1. \A y, i, c : y = JoinPoint(i, c) => y.kind = "join"
    BY DEF JoinPoint
  <2>2. PICK z : z = JoinPoint(element, completing)
    OBVIOUS
  <2>3. QED BY <2>1, <2>2
<1>5. PICK r \in 0..(M - 1) : r = start_client_index % M
  BY <1>2, NextRemainder
<1>6. PICK a, b : a = allocations /\ b = allocations' /\ b = Closed(a, M, r, x)
  BY <1>2, <1>4, <1>5 DEF FinishElement, Closed, Padded, Physical
<1>7. RowsOf(a, M, r)
  <2>1. start_client_index + client = start_client_index
    BY <1>2, <1>3
  <2>2. QED BY <1>2, <1>5, <1>6, <2>1
<1>8. TaskCells(b, M) = TaskCells(a, M)
  BY <1>2, <1>4, <1>6, <1>7, ClosedCells
<1>9. PICK l \in Nat : l = Len(b[M - 1])
  <2>1. RowsOf(b, M, 0) /\ M - 1 \in 0..(M - 1)
    BY <1>2, <1>4, <1>6, <1>7, RowsClosed
  <2>2. IsSeq(b[M - 1])
    BY <2>1 DEF RowsOf
  <2>3. QED BY <2>2 DEF IsSeq
<1>10. (0 + 0) \div M = 0
  <2>0. M \in Nat \ {0}
    BY <1>2
  <2>1. 0 * M <= 0 /\ 0 < 0 * M + M /\ 0 \in Nat
    BY ONLY <2>0
  <2>2. QED BY ONLY <2>0, <2>1, QuotientBounds
<1>11. ASSUME element + 1 <= Len(schedule), 1 <= Len(schedule[element + 1].tasks), NEW z
       PROVE  TurnsFrom(TaskCells(a, M), M, schedule[element + 1].tasks[1].name, z)
  <2>1. PICK f \in Nat : f = element + 1 /\ element < f /\ f \in DOMAIN schedule
    BY <1>2, <1>11
  <2>2. 1 \in DOMAIN schedule[f].tasks
    <3>1. /\ Len(schedule[f].tasks) \in Nat
          /\ DOMAIN schedule[f].tasks = 1..Len(schedule[f].tasks)
      BY <1>2, <2>1, SubTaskFacts
    <3>2. QED BY <1>11, <2>1, <3>1
  <2>3. TurnsFrom(TaskCells(a, M), M, schedule[f].tasks[1].name, z)
    BY <1>2, <1>6, <2>1, <2>2, NoneOfTheNext
  <2>4. QED BY <2>1, <2>3
<1>12. NextTurn(b, M, schedule, element + 1, 1, 0, 0, l)
  BY <1>8, <1>9, <1>10, <1>11 DEF NextTurn
<1>13. InTurn(TaskCells(b, M), M)
  BY <1>2, <1>6, <1>8
<1>14. QED BY <1>1, <1>2, <1>3, <1>6, <1>12, <1>13 DEF OrderInv

LEMMA StartBenchmarkOrdered ==
    ASSUME MatrixInv, OrderInv, StartBenchmark
    PROVE  OrderInv'
<1>1. /\ pc' = "allocate" /\ allocations' = [p \in Physical' |-> <<JoinPoint(0, <<>>)>>]
      /\ client' = 0 /\ start_client_index' = 0
  BY DEF StartBenchmark, MatrixInv, NothingAllotted
<1>2. PICK M \in Nat \ {0} : M = MaxClients'
  <2>1. MatrixInv'
    BY StartBenchmarkInv
  <2>2. WellFormedSchedule(schedule')
    BY <2>1 DEF MatrixInv
  <2>3. MaxClients' = MostClients(schedule')
    BY DEF MaxClients, MostClients
  <2>4. QED BY <2>2, <2>3, MostClientsPositive
<1>3. PICK x : x = JoinPoint(0, <<>>) /\ x.kind = "join"
  <2>1. PICK z : z = JoinPoint(0, <<>>)
    OBVIOUS
  <2>2. z.kind = "join"
    BY <2>1 DEF JoinPoint
  <2>3. QED BY <2>1, <2>2
<1>4. PICK b : b = allocations' /\ b = [p \in 0..(M - 1) |-> <<x>>]
  BY <1>1, <1>2, <1>3 DEF Physical
<1>5. DOMAIN <<x>> = {1} /\ <<x>>[1] = x /\ Len(<<x>>) = 1
  BY ShortSeqs
<1>6. \A y : y \notin TaskCells(b, M)
  <2>1. SUFFICES ASSUME NEW y \in TaskCells(b, M) PROVE FALSE
    OBVIOUS
  <2>2. y[1] \in 0..(M - 1) /\ y[2] \in DOMAIN b[y[1]] /\ y[3] = b[y[1]][y[2]] /\ y[3].kind = "task"
    BY CellFacts
  <2>3. b[y[1]] = <<x>>
    BY <1>4, <2>2
  <2>4. QED BY <1>3, <1>5, <2>2, <2>3
<1>7. (0 + 0) \div M = 0
  <2>1. 0 * M <= 0 /\ 0 < 0 * M + M /\ 0 \in Nat
    OBVIOUS
  <2>2. QED BY <2>1, QuotientBounds
<1>8. Len(b[M - 1]) = 1
  BY <1>4, <1>5
<1>9. \A e, u, s : NextTurn(b, M, s, e, u, 0, 0, 1)
  BY <1>6, <1>7, <1>8 DEF NextTurn, TurnsFrom
<1>10. InTurn(TaskCells(b, M), M)
  BY <1>6 DEF InTurn
<1>11. QED BY <1>1, <1>2, <1>4, <1>9, <1>10 DEF OrderInv

LEMMA OrderInvStep ==
    ASSUME MatrixInv, OrderInv, [IngestionNext]_all
    PROVE  OrderInv'
<1>1. ASSUME UNCHANGED <<schedule, loop>>,
             pc' = pc \/ (pc = "allocate" /\ pc' = "done") \/ (pc = "done" /\ pc' = "assign")
      PROVE  OrderInv'
  <2>1. /\ schedule' = schedule /\ element' = element /\ sub' = sub /\ client' = client
        /\ start_client_index' = start_client_index
        /\ allocations' = allocations /\ MaxClients' = MaxClients
    BY <1>1 DEF loop, MaxClients
  <2>2. QED BY <1>1, <2>1 DEF OrderInv
<1>2. CASE Allocate
  <2>1. Next
    BY <1>2 DEF Allocate
  <2>2. CASE Return
    BY <1>1, <2>2 DEF Return
  <2>3. CASE FilterTasks
    BY <2>3 DEF FilterTasks, OrderInv
  <2>4. QED BY <2>1, <2>2, <2>3, StartBenchmarkOrdered, AllocateClientOrdered, NextSubTaskOrdered,
        FinishElementOrdered DEF Next
<1>3. CASE StartAssign
  BY <1>1, <1>3 DEF StartAssign
<1>4. CASE PrepareFiles \/ Assign \/ ChooseBulkTask \/ StartColumn \/ Read \/ UNCHANGED all
  BY <1>1, <1>4 DEF PrepareFiles, Assign, ChooseBulkTask, StartColumn, Read, all, vars
<1>5. QED BY <1>2, <1>3, <1>4 DEF IngestionNext

-----------------------------------------------------------------------------
(* The partitions of the clients that run a task.                            *)

\* Where a worker finds tasks, and the clients of a task it finds in a column.
Columns == Workers \X (1..RowCount)
PartOf(x, name) == Partitions(x[1], x[2], name)

Convex(S) == \A i, j \in S : \A k \in Nat : i <= k /\ k <= j => k \in S

\* The n clients of a task are shared out.
SharedOut(name, n) ==
    /\ n \in Nat \ {0}
    /\ \A x \in Columns : PartOf(x, name) \subseteq 0..(n - 1) /\ Convex(PartOf(x, name))
    /\ \A x, y \in Columns : PartOf(x, name) \intersect PartOf(y, name) # {} => x = y
    /\ \A k \in 0..(n - 1) : \E x \in Columns : k \in PartOf(x, name)

\* The matrix is assigned as a whole.
WholeMatrix == pc = "assign" => client_count = MaxClients

LEMMA WholeMatrixStep ==
    ASSUME WholeMatrix, [IngestionNext]_all
    PROVE  WholeMatrix'
<1>1. ASSUME UNCHANGED <<vars, client_count>> PROVE WholeMatrix'
  BY <1>1 DEF WholeMatrix, vars, MaxClients
<1>2. CASE Allocate
  <2>1. pc' # "assign"
    BY <1>2 DEF Allocate, Next, FilterTasks, StartBenchmark, AllocateClient, NextSubTask,
       FinishElement, Return, Allocating
  <2>2. QED BY <2>1 DEF WholeMatrix
<1>3. CASE StartAssign
  BY <1>3 DEF StartAssign, StartAssignment, WholeMatrix, MaxClients
<1>4. CASE PrepareFiles \/ Assign \/ ChooseBulkTask \/ StartColumn \/ Read \/ UNCHANGED all
  <2>1. UNCHANGED <<vars, client_count>>
    BY <1>4 DEF PrepareFiles, Assign, AssignHost, ChooseBulkTask, StartColumn, Read, all, assignment
  <2>2. QED BY <1>1, <2>1
<1>5. QED BY <1>2, <1>3, <1>4 DEF IngestionNext

\* Whom a worker runs.
LEMMA WorkersClients ==
    ASSUME AssignInv, WholeMatrix, pc = "assign", AllAssigned
    PROVE  /\ \A w \in Workers : /\ ClientsOfWorker(w) \subseteq 0..(MaxClients - 1)
                                 /\ Convex(ClientsOfWorker(w))
           /\ \A v, w \in Workers : ClientsOfWorker(v) \intersect ClientsOfWorker(w) # {} => v = w
           /\ \A p \in 0..(MaxClients - 1) : \E w \in Workers : p \in ClientsOfWorker(w)
<1>1. EachClientOnOneWorker
  BY DealtToWorkers
<1>2. client_count - remaining_clients = MaxClients
  <2>1. remaining_clients = 0 /\ client_count \in Nat
    BY <1>1 DEF EachClientOnOneWorker, AssignInv
  <2>2. QED BY <2>1 DEF WholeMatrix
<1>3. UNION {ClientsOfWorker(w) : w \in Workers} = 0..(MaxClients - 1)
  BY <1>1, <1>2 DEF EachClientOnOneWorker
<1>4. ASSUME NEW w \in Workers PROVE Convex(ClientsOfWorker(w))
  <2>1. w[1] \in DOMAIN assignments /\ w[2] \in DOMAIN assignments[w[1]]
    BY DEF Workers
  <2>2. PICK low \in Int, high \in Int : ClientsOfWorker(w) = low..high
    BY <2>1 DEF AssignInv, Dealt, Intervals, ClientsOfWorker
  <2>3. QED BY <2>2 DEF Convex
<1>5. QED BY <1>1, <1>3, <1>4 DEF EachClientOnOneWorker

\* Quotient and remainder are unique.
LEMMA SamePlace ==
    ASSUME NEW M \in Nat \ {0}, NEW c \in Nat, NEW d \in Nat, NEW p \in 0..(M - 1),
           NEW q \in 0..(M - 1), c * M + p = d * M + q
    PROVE  c = d /\ p = q
<1>1. ASSUME NEW i \in Nat, NEW j \in Nat, NEW v \in 0..(M - 1), NEW w \in 0..(M - 1),
             i * M + v = j * M + w
      PROVE  ~(i < j)
  <2>1. SUFFICES ASSUME i < j PROVE FALSE
    OBVIOUS
  <2>2. PICK k \in Nat : j = i + 1 + k
    <3>1. j - i - 1 \in Nat /\ j = i + 1 + (j - i - 1)
      BY <2>1
    <3>2. QED BY <3>1
  <2>3. PICK g \in Nat, h \in Nat : g = i * M /\ h = k * M
    OBVIOUS
  <2>4. j * M = g + M + h
    BY <2>2, <2>3
  <2>5. QED BY <1>1, <2>3, <2>4
<1>2. ~(c < d) /\ ~(d < c)
  BY <1>1
<1>3. c = d
  BY <1>2
<1>4. PICK g \in Nat : g = c * M
  OBVIOUS
<1>5. QED BY <1>3, <1>4

\* The n clients with the name have cells, one each.
CellsOfTask(cells, name, n) ==
    /\ \A x \in cells : x[3].name = name => IndexOf(x) \in 0..(n - 1)
    /\ \A k \in 0..(n - 1) : \E x \in cells : x[3].name = name /\ IndexOf(x) = k

LEMMA TaskHasCells ==
    ASSUME NEW s, WellFormedSchedule(s), NamesUnique(s), NEW L, L = Len(s), NEW col, NEW cells,
           InItsStep(cells, s, col, L + 1, 1, 0), HasEntry(cells, s, L + 1, 1, 0),
           NEW i \in DOMAIN s, NEW j \in DOMAIN s[i].tasks
    PROVE  CellsOfTask(cells, s[i].tasks[j].name, s[i].tasks[j].clients)
<1>1. L \in Nat /\ DOMAIN s = 1..L
  BY SubTaskFacts
<1>2. ASSUME NEW x \in cells, x[3].name = s[i].tasks[j].name
      PROVE  IndexOf(x) \in 0..(s[i].tasks[j].clients - 1)
  <2>1. PICK k \in 1..(L + 1) : k <= L /\ \E m \in DOMAIN s[k].tasks :
              /\ x[3].name = s[k].tasks[m].name
              /\ x[3].client_index_in_task \in 0..(s[k].tasks[m].clients - 1)
    BY DEF InItsStep
  <2>2. PICK m \in DOMAIN s[k].tasks :
              /\ x[3].name = s[k].tasks[m].name
              /\ x[3].client_index_in_task \in 0..(s[k].tasks[m].clients - 1)
    BY <2>1
  <2>3. k \in DOMAIN s
    BY <1>1, <2>1
  <2>4. k = i /\ m = j
    <3>1. s[k].tasks[m].name = s[i].tasks[j].name
      BY <1>2, <2>2
    <3>2. \A f \in DOMAIN s : \A v \in DOMAIN s[k].tasks, z \in DOMAIN s[f].tasks :
              s[k].tasks[v].name = s[f].tasks[z].name => k = f /\ v = z
      BY <2>3 DEF NamesUnique
    <3>3. \A v \in DOMAIN s[k].tasks, z \in DOMAIN s[i].tasks :
              s[k].tasks[v].name = s[i].tasks[z].name => k = i /\ v = z
      BY <3>2
    <3>4. QED BY <2>2, <3>1, <3>3
  <2>5. QED BY <2>2, <2>4 DEF IndexOf
<1>3. ASSUME NEW k \in 0..(s[i].tasks[j].clients - 1)
      PROVE  \E x \in cells : x[3].name = s[i].tasks[j].name /\ IndexOf(x) = k
  <2>1. Allotted(i, j, k, L + 1, 1, 0)
    BY <1>1 DEF Allotted
  <2>2. QED BY <2>1 DEF HasEntry, IndexOf
<1>4. QED BY <1>2, <1>3 DEF CellsOfTask

\* The clients of a task that a worker finds in a column are cells of the matrix.
LEMMA PartsAreCells ==
    ASSUME NEW M \in Nat \ {0}, M = MaxClients, NEW l \in Nat, RowCount = l,
           \A p \in 0..(M - 1) : DOMAIN allocations[p] = 1..l,
           NEW w \in Workers, ClientsOfWorker(w) \subseteq 0..(M - 1), NEW c \in 1..RowCount,
           NEW name, NEW k
    PROVE  k \in Partitions(w, c, name) <=>
             \E x \in TaskCells(allocations, M) :
                 x[1] \in ClientsOfWorker(w) /\ x[2] = c /\ x[3].name = name /\ IndexOf(x) = k
<1>1. ASSUME k \in Partitions(w, c, name)
      PROVE  \E x \in TaskCells(allocations, M) :
                 x[1] \in ClientsOfWorker(w) /\ x[2] = c /\ x[3].name = name /\ IndexOf(x) = k
  <2>1. PICK p \in ClientsOfWorker(w) :
            /\ allocations[p][c].kind = "task" /\ allocations[p][c].name = name
            /\ k = allocations[p][c].client_index_in_task
    BY <1>1 DEF Partitions
  <2>2. PICK x : x = <<p, c, allocations[p][c]>>
    OBVIOUS
  <2>3. x[1] = p /\ x[2] = c /\ x[3] = allocations[p][c]
    BY <2>2
  <2>4. p \in 0..(M - 1) /\ c \in DOMAIN allocations[p]
    BY <2>1
  <2>5. x \in TaskCells(allocations, M)
    BY <2>1, <2>2, <2>3, <2>4 DEF TaskCells
  <2>6. QED BY <2>1, <2>3, <2>5 DEF IndexOf
<1>2. ASSUME NEW x \in TaskCells(allocations, M), x[1] \in ClientsOfWorker(w), x[2] = c,
             x[3].name = name, IndexOf(x) = k
      PROVE  k \in Partitions(w, c, name)
  <2>1. x[3] = allocations[x[1]][c] /\ x[3].kind = "task"
    BY <1>2, CellFacts
  <2>2. QED BY <1>2, <2>1 DEF Partitions, IndexOf
<1>3. QED BY <1>1, <1>2

\* A client between two of the same part is in it.
LEMMA BetweenParts ==
    ASSUME NEW M \in Nat \ {0}, NEW cells, Placed(cells, M), InTurn(cells, M),
           NEW x \in cells, NEW y \in cells, NEW z \in cells, x[3].name = z[3].name,
           y[3].name = z[3].name, x[2] = y[2], IndexOf(x) <= IndexOf(z), IndexOf(z) <= IndexOf(y)
    PROVE  z[2] = x[2] /\ x[1] <= z[1] /\ z[1] <= y[1]
<1>1. PICK i \in Nat, j \in Nat, k \in Nat : i = IndexOf(x) /\ j = IndexOf(y) /\ k = IndexOf(z)
  BY DEF Placed
<1>2. PICK c \in Nat, d \in Nat : c = x[2] /\ d = z[2]
  BY DEF Placed
<1>3. PICK p \in 0..(M - 1), q \in 0..(M - 1), r \in 0..(M - 1) : p = x[1] /\ q = y[1] /\ r = z[1]
  BY DEF Placed
<1>4. PICK g \in Nat : g = c * M
  OBVIOUS
<1>5. PICK h \in Nat : h = d * M
  OBVIOUS
<1>6. Place(x, M) = g + p /\ Place(y, M) = g + q /\ Place(z, M) = h + r
  BY <1>2, <1>3, <1>4, <1>5 DEF Place
<1>7. (g + p) + k = (h + r) + i /\ (g + q) + k = (h + r) + j /\ i <= k /\ k <= j
  BY <1>1, <1>6 DEF InTurn
<1>8. PICK v \in 0..(M - 1) : v = p + (k - i) /\ p <= v /\ v <= q
  <2>1. p + (k - i) \in 0..(M - 1) /\ p <= p + (k - i) /\ p + (k - i) <= q
    BY <1>7
  <2>2. QED BY <2>1
<1>9. g + v = h + r
  BY <1>7, <1>8
<1>10. c = d /\ v = r
  BY <1>4, <1>5, <1>9, SamePlace
<1>11. QED BY <1>2, <1>3, <1>8, <1>10

\* When all clients are assigned, each client of a task is in one part of it.
LEMMA TaskSharedOut ==
    ASSUME MatrixInv, OrderInv, RowsInv, WholeMatrix, AllAssigned,
           NEW i \in DOMAIN schedule, NEW j \in DOMAIN schedule[i].tasks
    PROVE  SharedOut(schedule[i].tasks[j].name, schedule[i].tasks[j].clients)
<1>1. pc = "assign" /\ AssignInv
  BY DEF AllAssigned, RowsInv, BeforeAssignment, AssignInv
<1>2. MaxClients \in Nat \ {0} /\ WellFormedSchedule(schedule) /\ NamesUnique(schedule)
  BY <1>1, MatrixIsDone
<1>3. PICK col : \E m : MatrixDone(col, m)
  BY <1>1, MatrixIsDone
<1>4. PICK l : MatrixDone(col, l)
  BY <1>3
<1>5. PICK M, L, cells : M = MaxClients /\ L = Len(schedule) /\ cells = TaskCells(allocations, M)
  OBVIOUS
<1>6. /\ InItsStep(cells, schedule, col, L + 1, 1, 0) /\ HasEntry(cells, schedule, L + 1, 1, 0)
      /\ NoneTwice(cells) /\ M \in Nat \ {0} /\ l \in Nat /\ RowCount = l
      /\ \A p \in 0..(M - 1) : DOMAIN allocations[p] = 1..l
  BY <1>2, <1>4, <1>5 DEF MatrixDone, MatrixUpTo, Physical
<1>7. L \in Nat
  BY <1>2, <1>5, ScheduleParts DEF IsSeq
<1>8. InTurn(cells, M)
  BY <1>1, <1>5 DEF OrderInv
<1>9. Placed(cells, M)
  <2>1. RowsOf(allocations, M, (start_client_index + client) % M)
    BY <1>1, <1>5 DEF MatrixInv
  <2>2. L + 1 \in Nat
    BY <1>7
  <2>3. QED BY <1>2, <1>5, <1>6, <2>1, <2>2, CellsPlaced
<1>10. PICK name, n : name = schedule[i].tasks[j].name /\ n = schedule[i].tasks[j].clients
  OBVIOUS
<1>11. n \in Nat \ {0} /\ CellsOfTask(cells, name, n)
  BY <1>2, <1>5, <1>6, <1>10, SubTaskFacts, TaskHasCells
<1>12. /\ \A w \in Workers : ClientsOfWorker(w) \subseteq 0..(M - 1) /\ Convex(ClientsOfWorker(w))
       /\ \A v, w \in Workers : ClientsOfWorker(v) \intersect ClientsOfWorker(w) # {} => v = w
       /\ \A p \in 0..(M - 1) : \E w \in Workers : p \in ClientsOfWorker(w)
  BY <1>1, <1>5, WorkersClients
<1>13. ASSUME NEW x \in Columns, NEW k
       PROVE  /\ x = <<x[1], x[2]>> /\ x[1] \in Workers /\ x[2] \in 1..RowCount
              /\ k \in PartOf(x, name) <=>
                   \E y \in cells : y[1] \in ClientsOfWorker(x[1]) /\ y[2] = x[2]
                                    /\ y[3].name = name /\ IndexOf(y) = k
  <2>1. x = <<x[1], x[2]>> /\ x[1] \in Workers /\ x[2] \in 1..RowCount
    BY DEF Columns
  <2>2. PICK w \in Workers, c \in 1..RowCount : w = x[1] /\ c = x[2]
    BY <2>1
  <2>3. ClientsOfWorker(w) \subseteq 0..(M - 1)
    BY <1>12
  <2>4. k \in Partitions(w, c, name) <=>
             \E y \in cells :
                 y[1] \in ClientsOfWorker(w) /\ y[2] = c /\ y[3].name = name /\ IndexOf(y) = k
    BY <1>5, <1>6, <2>3, PartsAreCells
  <2>5. QED BY <2>1, <2>2, <2>4 DEF PartOf
<1>14. ASSUME NEW x \in Columns PROVE PartOf(x, name) \subseteq 0..(n - 1)
  BY <1>11, <1>13 DEF CellsOfTask
<1>15. ASSUME NEW x \in Columns PROVE Convex(PartOf(x, name))
  <2>1. SUFFICES ASSUME NEW g \in PartOf(x, name), NEW h \in PartOf(x, name), NEW k \in Nat,
                        g <= k, k <= h
                 PROVE  k \in PartOf(x, name)
    BY DEF Convex
  <2>2. PICK y \in cells : /\ y[1] \in ClientsOfWorker(x[1]) /\ y[2] = x[2]
                           /\ y[3].name = name /\ IndexOf(y) = g
    BY <1>13
  <2>3. PICK z \in cells : /\ z[1] \in ClientsOfWorker(x[1]) /\ z[2] = x[2]
                           /\ z[3].name = name /\ IndexOf(z) = h
    BY <1>13
  <2>4. k \in 0..(n - 1)
    <3>1. h \in 0..(n - 1)
      BY <1>14
    <3>2. QED BY <1>11, <2>1, <3>1
  <2>5. PICK v \in cells : v[3].name = name /\ IndexOf(v) = k
    BY <1>11, <2>4 DEF CellsOfTask
  <2>6. v[2] = y[2] /\ y[1] <= v[1] /\ v[1] <= z[1]
    BY <1>6, <1>8, <1>9, <2>1, <2>2, <2>3, <2>5, BetweenParts
  <2>7. v[1] \in Nat
    BY <1>6, <1>9 DEF Placed
  <2>8. v[1] \in ClientsOfWorker(x[1])
    <3>1. Convex(ClientsOfWorker(x[1]))
      BY <1>12, <1>13
    <3>2. QED BY <2>2, <2>3, <2>6, <2>7, <3>1 DEF Convex
  <2>9. QED BY <1>13, <2>2, <2>5, <2>6, <2>8
<1>16. ASSUME NEW x \in Columns, NEW y \in Columns,
              PartOf(x, name) \intersect PartOf(y, name) # {}
       PROVE  x = y
  <2>1. PICK k : k \in PartOf(x, name) /\ k \in PartOf(y, name)
    BY <1>16
  <2>2. PICK v \in cells : /\ v[1] \in ClientsOfWorker(x[1]) /\ v[2] = x[2]
                           /\ v[3].name = name /\ IndexOf(v) = k
    BY <1>13, <2>1
  <2>3. PICK z \in cells : /\ z[1] \in ClientsOfWorker(y[1]) /\ z[2] = y[2]
                           /\ z[3].name = name /\ IndexOf(z) = k
    BY <1>13, <2>1
  <2>4. v = z
    BY <1>6, <2>2, <2>3 DEF NoneTwice, IndexOf
  <2>5. x[1] = y[1]
    BY <1>12, <1>13, <2>2, <2>3, <2>4
  <2>6. x[2] = y[2]
    BY <2>2, <2>3, <2>4
  <2>7. QED BY <1>13, <2>5, <2>6
<1>17. ASSUME NEW k \in 0..(n - 1) PROVE \E x \in Columns : k \in PartOf(x, name)
  <2>1. PICK v \in cells : v[3].name = name /\ IndexOf(v) = k
    BY <1>11 DEF CellsOfTask
  <2>2. v[1] \in 0..(M - 1) /\ v[2] \in 1..RowCount
    <3>1. v[1] \in 0..(M - 1) /\ v[2] \in DOMAIN allocations[v[1]]
      BY <1>5, CellFacts
    <3>2. QED BY <1>6, <3>1
  <2>3. PICK w \in Workers : v[1] \in ClientsOfWorker(w)
    BY <1>12, <2>2
  <2>4. PICK x : x = <<w, v[2]>>
    OBVIOUS
  <2>5. x \in Columns /\ x[1] = w /\ x[2] = v[2]
    BY <2>2, <2>4 DEF Columns
  <2>6. QED BY <1>13, <2>1, <2>3, <2>5
<1>18. SharedOut(name, n)
  BY <1>11, <1>14, <1>15, <1>16, <1>17 DEF SharedOut
<1>19. QED BY <1>10, <1>18

-----------------------------------------------------------------------------
(* Reading from a line on.                                                   *)

\* The entries of the offset tables are numbers, also of those that are torn.
TypedTable(t) == \A e \in t : e[1] \in Int /\ e[2] \in Int
TablesTyped == \A s \in DOMAIN DocumentSets : TypedTable(file[s].table)

\* An entry that no other is behind.
LEMMA LastEntry ==
    ASSUME NEW t, TypedTable(t), NEW n \in Int, \A e \in t : e[1] <= n, t # {}
    PROVE  \E e \in t : \A x \in t : x[1] <= e[1]
<1>1. PICK T : T = {n - e[1] : e \in t}
  OBVIOUS
<1>2. T \in SUBSET Nat /\ T # {}
  BY <1>1 DEF TypedTable
<1>3. PICK k \in T : \A j \in T : k <= j
  BY <1>2, LeastNumber
<1>4. PICK e \in t : k = n - e[1]
  BY <1>1
<1>5. ASSUME NEW x \in t PROVE x[1] <= e[1]
  <2>1. n - x[1] \in T
    BY <1>1
  <2>2. n - e[1] <= n - x[1] /\ x[1] \in Int /\ e[1] \in Int
    BY <1>3, <1>4, <2>1 DEF TypedTable
  <2>3. QED BY <2>2
<1>6. QED BY <1>5

LEMMA EntriesTyped ==
    ASSUME NEW n \in Int
    PROVE  TypedTable(TableEntries(n)) /\ \A e \in TableEntries(n) : e[1] <= n
<1>1. \A e \in TableEntries(n) : \E k \in 1..n : e = <<k, k>>
  BY DEF TableEntries
<1>2. QED BY <1>1 DEF TypedTable

LEMMA NoTableTyped == TypedTable(NoTable) /\ TypedTable({})
BY DEF TypedTable, NoTable, Absent

\* The last entry of a table loses digits.
LEMMA TornTyped ==
    ASSUME NEW f, IsFile(f), NEW n \in Int, f.table = TableEntries(n), f.table # {}
    PROVE  TypedTable(Tear(f).table)
<1>1. PICK t : t = f.table /\ t # {} /\ TypedTable(t) /\ \A e \in t : e[1] <= n
  BY EntriesTyped
<1>2. PICK last : last = CHOOSE e \in t : \A x \in t : x[1] <= e[1]
  OBVIOUS
<1>3. last \in t
  BY <1>1, <1>2, LastEntry
<1>4. PICK i \in Int, k \in Int : i = last[1] /\ k = last[2]
  BY <1>1, <1>3 DEF TypedTable
<1>5. PICK d \in Int : d = k \div 10
  <2>1. k \div 10 \in Int
    OBVIOUS
  <2>2. QED BY <2>1
<1>6. PICK u : u = (t \ {last}) \union {<<i, d>>}
  OBVIOUS
<1>7. Tear(f) = [f EXCEPT !.table = u]
  BY <1>1, <1>2, <1>4, <1>5, <1>6 DEF Tear
<1>8. Tear(f).table = u
  <2>1. [f EXCEPT !.table = u].table = u
    BY RecordOfTable
  <2>2. QED BY ONLY <1>7, <2>1, Zenon
<1>9. TypedTable(u)
  <2>1. \A e \in u : e \in t \/ e = <<i, d>>
    BY <1>6
  <2>2. \A e \in u : e[1] \in Int /\ e[2] \in Int
    BY <1>1, <2>1 DEF TypedTable
  <2>3. QED BY <2>2 DEF TypedTable
<1>10. QED BY <1>8, <1>9

\* A step on one set.
LEMMA TypedStep ==
    ASSUME FileTypes, ~AllPrepared, TablesTyped, NEW g, file' = [file EXCEPT ![preparing] = g],
           TypedTable(g.table) \/ g.table = file[preparing].table
    PROVE  TablesTyped'
<1>1. /\ DOMAIN file = DOMAIN DocumentSets /\ preparing \in DOMAIN DocumentSets
      /\ file'[preparing] = g /\ \A s \in DOMAIN file : s # preparing => file'[s] = file[s]
  BY CurrentSet, OneSetStep DEF FileTypes
<1>2. TypedTable(g.table)
  BY <1>1 DEF TablesTyped
<1>3. \A s \in DOMAIN DocumentSets : TypedTable(file'[s].table)
  BY <1>1, <1>2 DEF TablesTyped
<1>4. QED BY <1>3 DEF TablesTyped

LEMMA TablesTypedStep ==
    ASSUME FilesInv, TablesTyped, [IngestionNext]_all
    PROVE  TablesTyped'
<1>0. FileTypes /\ Kept
  BY DEF FilesInv, Kept
<1>1. ASSUME UNCHANGED file PROVE TablesTyped'
  BY <1>1 DEF TablesTyped
<1>2. ASSUME ~AllPrepared
      PROVE  /\ preparing \in DOMAIN file /\ NumberOfLines(preparing) \in Int
             /\ NumberOfLines(preparing) \div 2 \in Int /\ IsFile(file[preparing])
  <2>1. preparing \in DOMAIN file /\ NumberOfLines(preparing) \in Nat /\ IsFile(file[preparing])
    BY <1>0, <1>2, CurrentSet DEF FileTypes
  <2>2. PICK n \in Nat : n = NumberOfLines(preparing)
    BY <2>1
  <2>3. n \div 2 \in Int
    OBVIOUS
  <2>4. QED BY <2>1, <2>2, <2>3
<1>3. CASE Look \/ TableValid \/ StartAgain
  BY <1>1, <1>3 DEF Look, TableValid, StartAgain
<1>4. CASE Download \/ DownloadParts \/ Concatenate
  <2>1. ~AllPrepared
    BY <1>4 DEF Download, DownloadParts, Concatenate, At
  <2>2. PICK n \in Int : WriteTarget(n)
    BY <1>2, <1>4, <2>1 DEF Download, DownloadParts, Concatenate
  <2>3. PICK g : file' = [file EXCEPT ![preparing] = g] /\ g.table = file[preparing].table
    BY <1>0, <2>1, <2>2, TargetWritten
  <2>4. QED BY <1>0, <2>1, <2>3, TypedStep
<1>5. CASE OpenArchive \/ Extract
  <2>1. ~AllPrepared
    BY <1>5 DEF OpenArchive, Extract, At
  <2>2. PICK n \in Int : file' = [file EXCEPT ![preparing] = Written(@, n)]
    BY <1>2, <1>5, <2>1 DEF OpenArchive, Extract, IsFile
  <2>3. PICK g : g = Written(file[preparing], n)
    OBVIOUS
  <2>4. file' = [file EXCEPT ![preparing] = g] /\ g.table = file[preparing].table
    BY <1>2, <2>1, <2>2, <2>3, WrittenFile
  <2>5. QED BY <1>0, <2>1, <2>4, TypedStep
<1>6. CASE DownloadTable \/ OpenTable \/ CountLines
  <2>1. ~AllPrepared
    BY <1>6 DEF DownloadTable, OpenTable, CountLines, At
  <2>2. PICK t : /\ TypedTable(t)
                 /\ \/ file' = [file EXCEPT ![preparing] = [@ EXCEPT !.table = t, !.fresh = TRUE]]
                    \/ file' = [file EXCEPT ![preparing].table = t]
    <3>1. CASE DownloadTable
      BY <1>2, <2>1, <3>1, EntriesTyped DEF DownloadTable
    <3>2. CASE OpenTable
      BY <3>2, NoTableTyped DEF OpenTable
    <3>3. CASE CountLines
      <4>1. file[preparing].doc \in Int
        BY <1>2, <2>1 DEF IsFile
      <4>2. TypedTable(TableEntries(file[preparing].doc))
        BY <4>1, EntriesTyped
      <4>3. QED BY <3>3, <4>2, NoTableTyped DEF CountLines
    <3>4. QED BY <1>6, <3>1, <3>2, <3>3
  <2>3. CASE file' = [file EXCEPT ![preparing] = [@ EXCEPT !.table = t, !.fresh = TRUE]]
    <3>1. PICK g : g = [file[preparing] EXCEPT !.table = t, !.fresh = TRUE]
      OBVIOUS
    <3>2. file' = [file EXCEPT ![preparing] = g]
      BY <1>2, <2>1, <2>3, <3>1
    <3>3. g.table = t
      BY <1>2, <2>1, <3>1, RecordOfTable
    <3>4. QED BY <1>0, <2>1, <2>2, <3>2, <3>3, TypedStep
  <2>4. CASE file' = [file EXCEPT ![preparing].table = t]
    <3>1. PICK g : g = [file[preparing] EXCEPT !.table = t]
      OBVIOUS
    <3>2. file' = [file EXCEPT ![preparing] = g]
      BY <1>2, <2>1, <2>4, <3>1
    <3>3. g.table = t
      BY <1>2, <2>1, <3>1, RecordOfTable
    <3>4. QED BY <1>0, <2>1, <2>2, <3>2, <3>3, TypedStep
  <2>5. QED BY <2>2, <2>3, <2>4
<1>7. CASE PreparationFails \/ Killed
  <2>1. ~AllPrepared
    BY <1>7 DEF PreparationFails, Killed
  <2>2. PICK f \in Interrupted(file[preparing]) :
            \/ file' = [file EXCEPT ![preparing] = f]
            \/ /\ stage = "count" /\ f.table # {}
               /\ file' = [file EXCEPT ![preparing] = Tear(f)]
    BY <1>7 DEF PreparationFails, Killed
  <2>3. IsFile(f)
    BY <1>0, <2>1, <2>2, InterruptedFile
  <2>4. CASE stage = "count"
    <3>1. PICK n \in Int : f = [file[preparing] EXCEPT !.table = TableEntries(n)]
      <4>1. file[preparing].doc \in Int
        BY <1>2, <2>1 DEF IsFile
      <4>2. PICK n \in 0..file[preparing].doc : f = [file[preparing] EXCEPT !.table = TableEntries(n)]
        BY <2>2, <2>4 DEF Interrupted
      <4>3. n \in Int
        BY <4>1
      <4>4. QED BY <4>2, <4>3
    <3>2. f.table = TableEntries(n)
      BY <1>2, <2>1, <3>1, RecordOfTable
    <3>3. TypedTable(f.table)
      BY <3>2, EntriesTyped
    <3>4. f.table # {} => TypedTable(Tear(f).table)
      BY <2>3, <3>2, TornTyped
    <3>5. QED BY <1>0, <2>1, <2>2, <3>3, <3>4, TypedStep
  <2>5. CASE stage # "count"
    <3>1. f.table = file[preparing].table
      <4>1. CASE stage = "extract"
        <5>1. PICK n \in Beginnings(preparing) : f = [file[preparing] EXCEPT !.doc = n]
          BY <2>2, <4>1 DEF Interrupted
        <5>2. n \in Int
          BY <1>2, <2>1, <5>1 DEF Beginnings
        <5>3. QED BY <1>2, <2>1, <5>1, <5>2, RecordOfDoc
      <4>2. CASE stage # "extract"
        BY <2>2, <2>5, <4>2 DEF Interrupted
      <4>3. QED BY <4>1, <4>2
    <3>2. QED BY <1>0, <2>1, <2>2, <2>5, <3>1, TypedStep
  <2>6. QED BY <2>4, <2>5
<1>8. CASE Allocate \/ StartAssign \/ Assign \/ ChooseBulkTask \/ StartColumn \/ Read
           \/ UNCHANGED all
  BY <1>1, <1>8 DEF Allocate, StartAssign, Assign, ChooseBulkTask, StartColumn, Read, all, files
<1>9. QED BY <1>3, <1>4, <1>5, <1>6, <1>7, <1>8 DEF IngestionNext, PrepareFiles, Prepare

\* The files stay as they are prepared.
PreparedFirst == pc # "filter" => AllPrepared

LEMMA PreparedFirstStep ==
    ASSUME PreparedFirst, [IngestionNext]_all
    PROVE  PreparedFirst' /\ (AllPrepared => UNCHANGED files)
<1>1. CASE PrepareFiles
  <2>1. ~AllPrepared /\ UNCHANGED vars
    BY <1>1 DEF PrepareFiles, Prepare, Look, Download, DownloadParts, Concatenate, OpenArchive,
       Extract, TableValid, DownloadTable, OpenTable, CountLines, PreparationFails, Killed,
       StartAgain, At
  <2>2. QED BY <2>1 DEF PreparedFirst, vars
<1>2. CASE Allocate
  BY <1>2 DEF Allocate, files, PreparedFirst, AllPrepared
<1>3. CASE StartAssign
  BY <1>3 DEF StartAssign, files, PreparedFirst, AllPrepared
<1>4. CASE Assign \/ ChooseBulkTask \/ StartColumn \/ Read \/ UNCHANGED all
  BY <1>4 DEF Assign, ChooseBulkTask, StartColumn, Read, all, files, vars, PreparedFirst,
     AllPrepared
<1>5. QED BY <1>1, <1>2, <1>3, <1>4 DEF IngestionNext

\* Where a client starts to read; with a true table, at its line.
LEMMA SkippedLines ==
    ASSUME TablesTyped, NEW s \in DOMAIN DocumentSets, NEW n \in Nat
    PROVE  /\ SkipLines(s, n) \in Int
           /\ TrueTable(file[s]) => SkipLines(s, n) = n
<1>1. PICK before : before = {e \in IF HasTable(file[s]) THEN file[s].table ELSE {} : e[1] <= n}
  OBVIOUS
<1>2. PICK none : none = <<0, 0>>
  OBVIOUS
<1>3. TypedTable(before) /\ \A e \in before : e[1] <= n
  BY <1>1 DEF TablesTyped, TypedTable
<1>4. \E e \in before \union {none} : \A x \in before : x[1] <= e[1]
  <2>1. CASE before = {}
    BY <2>1
  <2>2. CASE before # {}
    BY <1>3, <2>2, LastEntry
  <2>3. QED BY <2>1, <2>2
<1>5. PICK entry : entry = ClosestOffset(s, n) /\ entry \in before \union {none}
  <2>1. ClosestOffset(s, n) = CHOOSE e \in before \union {none} : \A x \in before : x[1] <= e[1]
    BY <1>1, <1>2 DEF ClosestOffset
  <2>2. QED BY <1>4, <2>1
<1>6. entry[1] \in Int /\ entry[2] \in Int
  BY <1>2, <1>3, <1>5 DEF TypedTable
<1>7. TrueTable(file[s]) => entry[2] = entry[1]
  BY <1>1, <1>2, <1>5 DEF TrueTable
<1>8. SkipLines(s, n) = entry[2] + (n - entry[1])
  BY <1>5 DEF SkipLines
<1>9. QED BY <1>6, <1>7, <1>8

-----------------------------------------------------------------------------
(* The part of a set that a source reads.                                    *)

\* The clients at the ends of a range.
LEMMA EndsOfRange ==
    ASSUME NEW a \in Nat, NEW b \in Nat, a <= b
    PROVE  /\ (CHOOSE p \in a..b : \A q \in a..b : p <= q) = a
           /\ (CHOOSE p \in a..b : \A q \in a..b : p >= q) = b
<1>1. a \in a..b /\ b \in a..b /\ \A q \in a..b : a <= q /\ b >= q
  OBVIOUS
<1>2. \A p \in a..b : (\A q \in a..b : p <= q) => p = a
  BY <1>1
<1>3. \A p \in a..b : (\A q \in a..b : p >= q) => p = b
  BY <1>1
<1>4. (CHOOSE p \in a..b : \A q \in a..b : p <= q) = a
  BY <1>1, <1>2
<1>5. (CHOOSE p \in a..b : \A q \in a..b : p >= q) = b
  BY <1>1, <1>3
<1>6. QED BY <1>4, <1>5

\* Clients next to each other are a range.
LEMMA RangeOfConvex ==
    ASSUME NEW N \in Nat, NEW S \in SUBSET (0..(N - 1)), S # {}, Convex(S)
    PROVE  \E a, b \in 0..(N - 1) : a <= b /\ S = a..b
<1>1. S \in SUBSET Nat
  OBVIOUS
<1>2. PICK a \in S : \A q \in S : a <= q
  BY <1>1, LeastNumber
<1>3. PICK T : T = {N - 1 - q : q \in S}
  OBVIOUS
<1>4. T \in SUBSET Nat /\ T # {}
  BY <1>3
<1>5. PICK t \in T : \A q \in T : t <= q
  BY <1>4, LeastNumber
<1>6. PICK b \in S : t = N - 1 - b
  BY <1>3, <1>5
<1>7. \A q \in S : q <= b
  <2>1. ASSUME NEW q \in S PROVE q <= b
    <3>1. N - 1 - q \in T
      BY <1>3
    <3>2. t <= N - 1 - q
      BY <1>5, <3>1
    <3>3. QED BY <1>6, <3>2
  <2>2. QED BY <2>1
<1>8. a \in 0..(N - 1) /\ b \in 0..(N - 1) /\ a <= b
  BY <1>2
<1>9. S = a..b
  <2>1. \A q \in S : q \in a..b
    BY <1>1, <1>2, <1>7, <1>8
  <2>2. \A q \in a..b : q \in S
    BY <1>8 DEF Convex
  <2>3. QED BY <2>1, <2>2
<1>10. QED BY <1>8, <1>9

\* The documents and lines of set s that the clients a..b of N read: x + 1 to y.
Sliced(s, a, b, N, x, y) ==
    /\ x \in Nat /\ y \in Nat /\ x <= y /\ y <= DocumentSets[s].docs
    /\ x = Edge(DocumentSets[s].docs, N, a)
    /\ Bounds(s, a, b, N).offset = x * LinesPerDoc(s)
    /\ Bounds(s, a, b, N).docs = y - x
    /\ Bounds(s, a, b, N).lines = (y - x) * LinesPerDoc(s)
    /\ \A d \in Nat : Falls(DocumentSets[s].docs, N, a..b, d) <=> x < d /\ d <= y

LEMMA DocsOfSet ==
    ASSUME NEW s \in DOMAIN DocumentSets
    PROVE  /\ DocumentSets[s].docs \in Nat /\ LinesPerDoc(s) \in {1, 2}
           /\ NumberOfLines(s) = DocumentSets[s].docs * LinesPerDoc(s)
           /\ DocumentSets[s].conflicts => LinesPerDoc(s) = 1
<1>1. PICK Q : Q = [docs : Nat, meta : BOOLEAN, conflicts : BOOLEAN, packed : BOOLEAN,
                    sized : BOOLEAN, parts : BOOLEAN, bundled : BOOLEAN,
                    source_url : BOOLEAN]
  OBVIOUS
<1>2. DocumentSets \in Seq(Q)
  BY <1>1, FilesAssumption
<1>3. DocumentSets[s] \in Q
  BY <1>2
<1>4. QED BY <1>1, <1>3, BulkAssumption DEF LinesPerDoc, NumberOfLines

LEMMA SliceOfSet ==
    ASSUME NEW s \in DOMAIN DocumentSets, NEW N \in Nat \ {0}, NEW a \in 0..(N - 1),
           NEW b \in 0..(N - 1), a <= b
    PROVE  \E x, y : Sliced(s, a, b, N, x, y)
<1>1. PICK n \in Nat : n = DocumentSets[s].docs
  BY DocsOfSet
<1>2. a \in Nat /\ b \in Nat /\ b + 1 \in Nat /\ a <= b + 1 /\ b + 1 <= N /\ N \in Nat
  OBVIOUS
<1>3. PICK x, y : x = Edge(n, N, a) /\ y = Edge(n, N, b + 1)
  OBVIOUS
<1>4. x \in Nat /\ x <= y
  BY <1>2, <1>3, EdgesUp
<1>5. y \in Nat /\ y <= Edge(n, N, N)
  BY <1>2, <1>3, EdgesUp
<1>6. Edge(n, N, N) = n
  BY RoundExact DEF Edge
<1>7. \A d \in Nat : Falls(n, N, a..b, d) <=> x < d /\ d <= y
  BY <1>2, <1>3, FallsToRange
<1>8. /\ Bounds(s, a, b, N).offset = x * LinesPerDoc(s)
      /\ Bounds(s, a, b, N).docs = y - x
      /\ Bounds(s, a, b, N).lines = (y - x) * LinesPerDoc(s)
  BY <1>1, <1>3 DEF Bounds, Edge
<1>9. QED BY <1>1, <1>3, <1>4, <1>5, <1>6, <1>7, <1>8 DEF Sliced

\* The bulks of the sets, and of all of them.
BulksOfSets(a, b, N) ==
    [s \in DOMAIN DocumentSets |-> CeilDiv(Bounds(s, a, b, N).docs, BulkSize)]

Total(a, b, N) ==
    LET upTo[s \in 0..Len(DocumentSets)] ==
            IF s = 0 THEN 0
            ELSE upTo[s - 1] + CeilDiv(Bounds(s, a, b, N).docs, BulkSize)
    IN  upTo[Len(DocumentSets)]

LEMMA BulksAddUp ==
    ASSUME NEW N \in Nat \ {0}, NEW a \in 0..(N - 1), NEW b \in 0..(N - 1), a <= b
    PROVE  \E u : /\ Partial(u, BulksOfSets(a, b, N)) /\ Len(BulksOfSets(a, b, N)) = Len(DocumentSets)
                  /\ Total(a, b, N) = u[Len(DocumentSets)]
<1>1. PICK n \in Nat : n = Len(DocumentSets) /\ DOMAIN DocumentSets = 1..n
  <2>1. PICK Q : DocumentSets \in Seq(Q)
    BY FilesAssumption
  <2>2. QED BY <2>1
<1>2. PICK c : c = BulksOfSets(a, b, N)
  OBVIOUS
<1>3. ASSUME NEW s \in 1..n PROVE c[s] = CeilDiv(Bounds(s, a, b, N).docs, BulkSize) /\ c[s] \in Nat
  <2>1. s \in DOMAIN DocumentSets
    BY <1>1
  <2>2. PICK x, y : Sliced(s, a, b, N, x, y)
    BY <2>1, SliceOfSet
  <2>3. Bounds(s, a, b, N).docs \in Nat
    BY <2>2 DEF Sliced
  <2>4. CeilDiv(Bounds(s, a, b, N).docs, BulkSize) \in Nat
    BY <2>3, BulksOf, BulkAssumption
  <2>5. QED BY <1>2, <2>1, <2>4 DEF BulksOfSets
<1>4. c \in Seq(Nat) /\ Len(c) = n
  <2>1. c = [s \in 1..n |-> CeilDiv(Bounds(s, a, b, N).docs, BulkSize)]
    BY <1>1, <1>2 DEF BulksOfSets
  <2>2. c \in [1..n -> Nat]
    <3>1. \A s \in 1..n : CeilDiv(Bounds(s, a, b, N).docs, BulkSize) \in Nat
      BY <1>3
    <3>2. QED BY <2>1, <3>1
  <2>3. QED BY <1>1, <2>2
<1>5. PICK f : Partial(f, c)
  BY <1>4, SumSteps
<1>6. f \in [0..n -> Nat] /\ f[0] = 0 /\ \A i \in 1..n : f[i] = f[i - 1] + c[i]
  BY <1>4, <1>5 DEF Partial
<1>7. PICK g : g = [i \in 1..n |-> CeilDiv(Bounds(i, a, b, N).docs, BulkSize)]
  OBVIOUS
<1>8. \A i \in 1..n : g[i] = c[i]
  BY <1>3, <1>7
<1>9. f = [i \in 0..n |-> IF i = 0 THEN 0 ELSE f[i - 1] + CeilDiv(Bounds(i, a, b, N).docs, BulkSize)]
  <2>1. \A i \in 0..n : f[i] = IF i = 0 THEN 0
                               ELSE f[i - 1] + CeilDiv(Bounds(i, a, b, N).docs, BulkSize)
    <3>1. ASSUME NEW i \in 0..n
          PROVE  f[i] = IF i = 0 THEN 0
                        ELSE f[i - 1] + CeilDiv(Bounds(i, a, b, N).docs, BulkSize)
      <4>1. CASE i = 0
        BY <1>6, <4>1
      <4>2. CASE i # 0
        <5>1. i \in 1..n
          BY <1>1, <4>2
        <5>2. QED BY <1>3, <1>6, <4>2, <5>1
      <4>3. QED BY <4>1, <4>2
    <3>2. QED BY <3>1
  <2>2. QED BY <1>6, <2>1
<1>10. PICK u : /\ u = [i \in 0..n |-> IF i = 0 THEN 0
                                 ELSE u[i - 1] + CeilDiv(Bounds(i, a, b, N).docs, BulkSize)]
                /\ Total(a, b, N) = u[n]
  BY <1>1, <1>9 DEF Total
<1>11. \A i \in 0..n : u[i] = f[i]
  <2>. DEFINE T == {i \in 0..n : u[i] = f[i]}
  <2>1. 0 \in T
    BY <1>1, <1>6, <1>10
  <2>2. ASSUME NEW i \in 0..(n - 1), i \in T PROVE i + 1 \in T
    <3>1. i + 1 \in 1..n /\ i + 1 \in 0..n /\ (i + 1) - 1 = i /\ i + 1 # 0
      BY <1>1
    <3>2. u[i + 1] = u[i] + CeilDiv(Bounds(i + 1, a, b, N).docs, BulkSize)
      BY <1>10, <3>1
    <3>3. f[i + 1] = f[i] + c[i + 1]
      BY <1>6, <3>1
    <3>4. c[i + 1] = CeilDiv(Bounds(i + 1, a, b, N).docs, BulkSize)
      BY <1>3, <3>1
    <3>5. u[i + 1] = f[i + 1]
      BY <2>2, <3>2, <3>3, <3>4
    <3>6. QED BY <3>1, <3>5
  <2>3. \A i \in 0..n : i \in T
    <3>. HIDE DEF T
    <3>1. \A i \in 0..(n - 1) : i \in T => i + 1 \in T
      BY <2>2
    <3>2. QED BY <1>1, <2>1, <3>1, UpTo
  <2>4. QED BY <2>3
<1>12. Total(a, b, N) = f[n]
  BY <1>1, <1>10, <1>11
<1>13. QED BY <1>1, <1>2, <1>4, <1>5, <1>12

-----------------------------------------------------------------------------
(* What a source has read.                                                   *)

\* The documents of lines that are read one after the other.
LEMMA DocsOfLines ==
    ASSUME NEW L \in {1, 2}, NEW x \in Nat, NEW c \in Nat, NEW n \in Nat
    PROVE  /\ (x * L + c) \div L = x + c \div L
           /\ c \div L \in Nat /\ n \div L \in Nat /\ c \div L + n \div L <= (c + n) \div L
           /\ \A q \in Nat : c = q * L => c \div L + n \div L = (c + n) \div L /\ c \div L = q
           /\ \A z \in Nat : c + n <= z * L => (c + n) \div L <= z
<1>1. CASE L = 1
  BY <1>1
<1>2. CASE L = 2
  BY <1>2
<1>3. QED BY <1>1, <1>2

\* n lines are as many as are left in the slice, in the file and in the bulk.
Cut(n, left, rest, size) ==
    /\ n \in Nat /\ n <= left /\ n <= size
    /\ IF rest <= 0 THEN n = 0 ELSE n <= rest /\ (n = left \/ n = rest \/ n = size)

LEMMA TheLeast ==
    ASSUME NEW left \in Nat, NEW rest \in Int, NEW size \in Nat, NEW n,
           n = IF rest <= 0 THEN 0
               ELSE CHOOSE i \in {left, rest, size} : i <= left /\ i <= rest /\ i <= size
    PROVE  Cut(n, left, rest, size)
<1>1. CASE rest <= 0
  BY <1>1 DEF Cut
<1>2. CASE ~(rest <= 0)
  <2>1. \E i \in {left, rest, size} : i <= left /\ i <= rest /\ i <= size
    <3>1. CASE left <= rest /\ left <= size
      BY <3>1
    <3>2. CASE rest <= left /\ rest <= size
      BY <3>2
    <3>3. CASE size <= left /\ size <= rest
      BY <3>3
    <3>4. QED BY <3>1, <3>2, <3>3
  <2>2. n \in {left, rest, size} /\ n <= left /\ n <= rest /\ n <= size
    BY <1>2, <2>1
  <2>3. QED BY <1>2, <2>2 DEF Cut
<1>3. QED BY <1>1, <1>2

\* Document d of set s is not behind e, where the source has come to.
Reached(s, d, e) == s < set \/ (s = set /\ d <= e)

ReadTo(s, N, a) == Edge(DocumentSets[s].docs, N, a) + (current_line \div LinesPerDoc(s))
IssuedTo(s, N, a) == Edge(DocumentSets[s].docs, N, a) + id_up_to

\* It falls to a source that is open or closed, and was reached there.
Taken(s, d, N, later, e) ==
    /\ ~Falls(DocumentSets[s].docs, N, later, d)
    /\ Falls(DocumentSets[s].docs, N, partitions, d) => Reached(s, d, e)

Missing(s, d, N, later, e) ==
    \/ Falls(DocumentSets[s].docs, N, later, d)
    \/ Falls(DocumentSets[s].docs, N, partitions, d) /\ ~Reached(s, d, e)

\* The documents that are sent, and no others, were reached; a is the first client of
\* the source, and the clients in later have still to read.
OnceInv(N, later, a) ==
    \A s \in DOMAIN DocumentSets : \A d \in 1..DocumentSets[s].docs :
        /\ s \notin torn =>
              sent[s][d] = 0 \/ (sent[s][d] = 1 /\ Taken(s, d, N, later, ReadTo(s, N, a)))
        /\ issued[s][d] = 0 \/ (issued[s][d] = 1 /\ Taken(s, d, N, later, IssuedTo(s, N, a)))
        /\ Sound(s) /\ IngestPercentage = 100 /\ sent[s][d] = 0 =>
              Missing(s, d, N, later, ReadTo(s, N, a))

\* The slice or the file that is read has come to its end.
Exhausted(a, b, N) ==
    \/ Bounds(set, a, b, N).lines <= current_line
    \/ file[set].doc <= SkipLines(set, Bounds(set, a, b, N).offset) + current_line

\* k bulks of the open slice were read, all of them full but the last.
Counted(a, b, N, u, k) ==
    /\ Partial(u, BulksOfSets(a, b, N)) /\ Len(BulksOfSets(a, b, N)) = Len(DocumentSets)
    /\ Total(a, b, N) = u[Len(DocumentSets)]
    /\ k \in Nat /\ k <= BulksOfSets(a, b, N)[set] /\ current_bulk <= u[set - 1] + k
    /\ current_line = (k * BulkSize) * LinesPerDoc(set) \/ Exhausted(a, b, N)

\* The source of the clients a..b is open.
Open(N, later, a, b) ==
    /\ a \in 0..(N - 1) /\ b \in 0..(N - 1) /\ a <= b
    /\ partitions = a..b /\ partitions \intersect later = {}
    /\ set \in 1..(Len(DocumentSets) + 1) /\ current_bulk \in Nat
    /\ current_line \in Nat /\ id_up_to \in Nat /\ id_up_to <= current_line
    /\ set \in DOMAIN DocumentSets =>
          /\ current_line <= Bounds(set, a, b, N).lines
          /\ \E u, k : Counted(a, b, N, u, k)

LEMMA OpenSlices ==
    ASSUME NEW N \in Nat \ {0}, NEW later, NEW a, NEW b, Open(N, later, a, b)
    PROVE  /\ \A s : Slice(s, N) = Bounds(s, a, b, N)
           /\ NumberOfBulks(N) = Total(a, b, N)
<1>1. a \in Nat /\ b \in Nat /\ a <= b /\ partitions = a..b
  BY DEF Open
<1>2. FirstPartition = a /\ LastPartition = b
  BY <1>1, EndsOfRange DEF FirstPartition, LastPartition
<1>3. QED BY <1>2 DEF Slice, NumberOfBulks, Total

\* The next bulk: n lines, of documents of x + 1 to y.
ReadsNext(a, b, N, x, y, n) ==
    /\ Sliced(set, a, b, N, x, y)
    /\ current_line <= (y - x) * LinesPerDoc(set)
    /\ n = LinesInBulk(N) /\ Position(N) \in Int /\ file[set].doc \in Int
    /\ Position(N) = SkipLines(set, Bounds(set, a, b, N).offset) + current_line
    /\ set \notin torn => Position(N) = x * LinesPerDoc(set) + current_line
    /\ Cut(n, (y - x) * LinesPerDoc(set) - current_line, file[set].doc - Position(N),
           BulkSize * LinesPerDoc(set))

LEMMA NextLines ==
    ASSUME FilesInv, TablesTyped, NEW N \in Nat \ {0}, NEW later, NEW a, NEW b,
           Open(N, later, a, b), set \in DOMAIN DocumentSets
    PROVE  \E x, y, n : ReadsNext(a, b, N, x, y, n)
<1>1. PICK L \in {1, 2} : L = LinesPerDoc(set)
  BY DocsOfSet
<1>2. a \in 0..(N - 1) /\ b \in 0..(N - 1) /\ a <= b /\ current_line \in Nat
  BY DEF Open
<1>3. PICK x, y : Sliced(set, a, b, N, x, y)
  BY <1>2, SliceOfSet
<1>4. PICK from \in Nat, lines \in Nat : from = x * L /\ lines = (y - x) * L
  <2>1. x \in Nat /\ y \in Nat /\ x <= y
    BY <1>3 DEF Sliced
  <2>2. x * L \in Nat /\ y - x \in Nat
    BY <1>1, <2>1
  <2>3. (y - x) * L \in Nat
    BY <1>1, <2>2
  <2>4. QED BY <2>2, <2>3
<1>5. Bounds(set, a, b, N).offset = from /\ Bounds(set, a, b, N).lines = lines
  BY <1>1, <1>3, <1>4 DEF Sliced
<1>6. current_line <= lines
  BY <1>5 DEF Open
<1>7. Slice(set, N) = Bounds(set, a, b, N)
  BY OpenSlices
<1>8. SkipLines(set, from) \in Int /\ (TrueTable(file[set]) => SkipLines(set, from) = from)
  BY SkippedLines
<1>9. Position(N) = SkipLines(set, from) + current_line
  BY <1>5, <1>7 DEF Position
<1>10. file[set].doc \in Int /\ (set \notin torn => TrueTable(file[set]))
  BY DEF FilesInv, Kept, FileTypes, TablesTrue, IsFile
<1>11. PICK size \in Nat : size = BulkSize * L
  <2>1. BulkSize \in Nat
    BY BulkAssumption
  <2>2. BulkSize * L \in Nat
    BY <1>1, <2>1
  <2>3. QED BY <2>2
<1>12. PICK left \in Nat, rest \in Int :
           left = lines - current_line /\ rest = file[set].doc - Position(N)
  <2>1. lines - current_line \in Nat
    BY <1>2, <1>4, <1>6
  <2>2. file[set].doc - Position(N) \in Int
    BY <1>2, <1>8, <1>9, <1>10
  <2>3. QED BY <2>1, <2>2
<1>13. LinesInBulk(N) = IF file[set].doc - Position(N) <= 0 THEN 0
           ELSE CHOOSE i \in {Slice(set, N).lines - current_line, file[set].doc - Position(N),
                              BulkSize * LinesPerDoc(set)} :
                    /\ i <= Slice(set, N).lines - current_line
                    /\ i <= file[set].doc - Position(N)
                    /\ i <= BulkSize * LinesPerDoc(set)
  BY DEF LinesInBulk
<1>14. Cut(LinesInBulk(N), left, rest, size)
  <2>1. left = Slice(set, N).lines - current_line
    BY <1>5, <1>7, <1>12
  <2>2. size = BulkSize * LinesPerDoc(set)
    BY <1>1, <1>11
  <2>3. rest = file[set].doc - Position(N)
    BY <1>12
  <2>4. /\ Slice(set, N).lines - current_line \in Nat /\ BulkSize * LinesPerDoc(set) \in Nat
        /\ file[set].doc - Position(N) \in Int
    BY <2>1, <2>2, <2>3
  <2>5. Cut(LinesInBulk(N), Slice(set, N).lines - current_line, file[set].doc - Position(N),
            BulkSize * LinesPerDoc(set))
    BY ONLY <1>13, <2>4, TheLeast
  <2>6. QED BY ONLY <2>1, <2>2, <2>3, <2>5
<1>15. Position(N) \in Int
  BY <1>2, <1>8, <1>9
<1>16. ReadsNext(a, b, N, x, y, LinesInBulk(N))
  BY <1>1, <1>3, <1>4, <1>5, <1>6, <1>8, <1>9, <1>10, <1>11, <1>12, <1>14, <1>15 DEF ReadsNext
<1>17. QED BY <1>16

\* A slice of a set that can be relied on is at its end when all of it is read.
LEMMA EndOfSlice ==
    ASSUME FilesInv, AllPrepared, NEW N \in Nat \ {0}, NEW later, NEW a, NEW b,
           Open(N, later, a, b), set \in DOMAIN DocumentSets, Sound(set),
           NEW x, NEW y, NEW n, ReadsNext(a, b, N, x, y, n), n = 0 \/ Exhausted(a, b, N)
    PROVE  current_line \div LinesPerDoc(set) = y - x
<1>1. PICK L \in {1, 2}, c \in Nat, docs \in Nat, q \in Nat :
          L = LinesPerDoc(set) /\ c = current_line /\ docs = DocumentSets[set].docs /\ q = y - x
  <2>1. y - x \in Nat
    BY DEF ReadsNext, Sliced
  <2>2. current_line \in Nat
    BY DEF Open
  <2>3. QED BY <2>1, <2>2, DocsOfSet
<1>2. x \in Nat /\ y \in Nat /\ y <= docs /\ y = x + q
  BY <1>1 DEF ReadsNext, Sliced
<1>3. file[set].doc = docs * L
  <2>1. set \in 1..(preparing - 1)
    <3>1. DOMAIN DocumentSets = 1..Len(DocumentSets) /\ Len(DocumentSets) \in Nat
      BY SetFacts
    <3>2. QED BY <3>1 DEF AllPrepared, FilesInv, Kept, FileTypes
  <2>2. file[set].doc = NumberOfLines(set)
    BY <2>1 DEF FilesInv, Kept, Behind, Sound
  <2>3. QED BY <1>1, <2>2, DocsOfSet
<1>4. Position(N) = x * L + c
  BY <1>1 DEF ReadsNext, Sound
<1>5. PICK u \in Nat, v \in Nat, w \in Nat : u = x * L /\ v = q * L /\ w = docs * L /\ u + v <= w
  <2>1. CASE L = 1
    BY <1>2, <2>1
  <2>2. CASE L = 2
    BY <1>2, <2>2
  <2>3. QED BY <2>1, <2>2
<1>6. c <= v
  BY <1>1, <1>5 DEF ReadsNext
<1>7. CASE n = 0
  <2>1. PICK size : size = BulkSize * L
    OBVIOUS
  <2>2. size \in Nat /\ size > 0
    <3>1. BulkSize \in Nat /\ BulkSize > 0
      BY BulkAssumption
    <3>2. QED BY <2>1, <3>1
  <2>3. Cut(0, v - c, w - (u + c), size)
    BY <1>1, <1>3, <1>4, <1>5, <1>7, <2>1 DEF ReadsNext
  <2>4. v <= c
    BY <1>5, <2>2, <2>3 DEF Cut
  <2>5. QED
    <3>1. c = v
      BY <1>6, <2>4
    <3>2. QED BY <1>1, <1>5, <3>1, DocsOfLines
<1>8. CASE Exhausted(a, b, N)
  <2>1. v <= c \/ w <= u + c
    <3>1. Bounds(set, a, b, N).lines = v
      BY <1>1, <1>5 DEF ReadsNext, Sliced
    <3>2. Position(N) = SkipLines(set, Bounds(set, a, b, N).offset) + current_line
      BY DEF ReadsNext
    <3>3. QED BY <1>1, <1>3, <1>4, <1>5, <1>8, <3>1, <3>2 DEF Exhausted
  <2>2. c = v
    BY <1>5, <1>6, <2>1
  <2>3. QED BY <1>1, <1>5, <2>2, DocsOfLines
<1>9. QED BY <1>7, <1>8

\* When the source is exhausted, each document of its clients was reached.
LEMMA AllRead ==
    ASSUME FilesInv, TablesTyped, AllPrepared, NEW N \in Nat \ {0}, NEW later, NEW a, NEW b,
           Open(N, later, a, b), partitions # {}, ~Reading(N), IngestPercentage = 100,
           NEW s \in DOMAIN DocumentSets, Sound(s), NEW d \in 1..DocumentSets[s].docs,
           Falls(DocumentSets[s].docs, N, partitions, d)
    PROVE  Reached(s, d, ReadTo(s, N, a))
<1>1. PICK n \in Nat : n = Len(DocumentSets) /\ DOMAIN DocumentSets = 1..n
  BY SetFacts
<1>2. a \in 0..(N - 1) /\ b \in 0..(N - 1) /\ a <= b /\ partitions = a..b /\ set \in 1..(n + 1)
  BY <1>1 DEF Open
<1>3. CASE set \notin DOMAIN DocumentSets
  BY <1>1, <1>2, <1>3 DEF Reached
<1>4. CASE set \in DOMAIN DocumentSets
  <2>1. PICK u, k : Counted(a, b, N, u, k)
    BY <1>4 DEF Open
  <2>2. PICK c : c = BulksOfSets(a, b, N)
    OBVIOUS
  <2>3. /\ Len(c) = n /\ \A i \in 0..n : u[i] \in Nat
        /\ \A i, j \in 0..n : i <= j => u[i] <= u[j]
    BY <1>1, <2>1, <2>2, Ascending DEF Counted
  <2>4. \A i \in 1..n : u[i] = u[i - 1] + c[i] /\ c[i] \in Nat
    BY <2>1, <2>2, <2>3 DEF Counted, Partial
  <2>5. u[n] <= current_bulk
    <3>1. NumberOfBulks(N) = u[n]
      BY <1>1, <2>1, OpenSlices DEF Counted
    <3>2. u[n] \in Nat
      BY <1>1, <2>3
    <3>3. TotalBulks(N) = u[n]
      BY <3>1, <3>2, AllOfThem DEF TotalBulks
    <3>4. set <= Len(DocumentSets)
      BY <1>1, <1>4
    <3>5. ~(current_bulk < u[n])
      BY <3>3, <3>4 DEF Reading
    <3>6. current_bulk \in Nat
      BY DEF Open
    <3>7. QED BY <3>2, <3>5, <3>6
  <2>6. k \in Nat /\ k <= c[set] /\ current_bulk <= u[set - 1] + k /\ current_bulk \in Nat
    BY <2>1, <2>2 DEF Counted, Open
  <2>7. set \in 1..n /\ set - 1 \in 0..n /\ set \in 0..n /\ n \in 0..n
    BY <1>1, <1>4
  <2>8. k = c[set] /\ u[set] = u[n]
    <3>1. u[set] = u[set - 1] + c[set] /\ c[set] \in Nat /\ u[set] <= u[n]
      BY <2>3, <2>4, <2>7
    <3>2. u[set - 1] \in Nat /\ u[n] \in Nat /\ u[set] \in Nat
      BY <2>3, <2>7
    <3>3. QED BY <2>5, <2>6, <3>1, <3>2
  <2>9. PICK x, y : Sliced(s, a, b, N, x, y)
    BY <1>2, SliceOfSet
  <2>10. x \in Nat /\ y \in Nat /\ x <= y /\ x < d /\ d <= y /\ x = Edge(DocumentSets[s].docs, N, a)
    <3>1. d \in Nat
      OBVIOUS
    <3>2. QED BY <1>2, <2>9, <3>1 DEF Sliced
  <2>11. PICK q \in Nat : q = y - x /\ Bounds(s, a, b, N).docs = q
    <3>1. y - x \in Nat
      BY <2>10
    <3>2. QED BY <2>9, <3>1 DEF Sliced
  <2>12. BulkSize \in Nat \ {0}
    BY BulkAssumption
  <2>13. c[s] = CeilDiv(q, BulkSize) /\ q <= c[s] * BulkSize
    <3>1. c[s] = CeilDiv(q, BulkSize)
      BY <2>2, <2>11 DEF BulksOfSets
    <3>2. QED BY <2>12, <3>1, BulksOf
  <2>14. CASE s < set
    BY <2>14 DEF Reached
  <2>15. CASE s = set
    <3>1. PICK L \in {1, 2}, t \in Nat : L = LinesPerDoc(set) /\ t = current_line
      BY <1>4, DocsOfSet DEF Open
    <3>2. t \div L = q
      <4>1. CASE Exhausted(a, b, N)
        <5>1. PICK v, w, m : ReadsNext(a, b, N, v, w, m)
          BY <1>4, NextLines
        <5>2. current_line \div LinesPerDoc(set) = w - v
          BY <1>4, <2>15, <4>1, <5>1, EndOfSlice
        <5>3. w - v = Bounds(set, a, b, N).docs
          BY <5>1 DEF ReadsNext, Sliced
        <5>4. QED BY <2>11, <2>15, <3>1, <5>2, <5>3
      <4>2. CASE ~Exhausted(a, b, N)
        <5>1. PICK h \in Nat : h = k * BulkSize
          BY <2>6, <2>12
        <5>2. q <= h
          BY <2>8, <2>13, <2>15, <5>1
        <5>3. t = h * L
          BY <2>1, <3>1, <4>2, <5>1 DEF Counted
        <5>4. t <= q * L
          BY <1>4, <2>9, <2>11, <2>15, <3>1 DEF Open, Sliced
        <5>5. h = q
          <6>1. CASE L = 1
            BY <5>2, <5>3, <5>4, <6>1
          <6>2. CASE L = 2
            BY <5>2, <5>3, <5>4, <6>2
          <6>3. QED BY <6>1, <6>2
        <5>6. QED BY <3>1, <5>3, <5>5, DocsOfLines
      <4>3. QED BY <4>1, <4>2
    <3>3. ReadTo(s, N, a) = x + q
      BY <2>10, <2>15, <3>1, <3>2 DEF ReadTo
    <3>4. d <= ReadTo(s, N, a)
      BY <2>10, <2>11, <3>3
    <3>5. QED BY <2>15, <3>4 DEF Reached
  <2>16. CASE s > set
    <3>1. s \in 1..n /\ s - 1 \in 0..n /\ s \in 0..n /\ set <= s - 1
      BY <1>1, <2>7, <2>16
    <3>2. u[set] <= u[s - 1] /\ u[s] <= u[n] /\ u[s] = u[s - 1] + c[s]
      <4>1. s <= n
        BY ONLY <3>1, <1>1
      <4>2. u[set] <= u[s - 1]
        BY ONLY <2>3, <2>7, <3>1
      <4>3. u[s] <= u[n]
        BY ONLY <2>3, <2>7, <3>1, <4>1
      <4>4. u[s] = u[s - 1] + c[s]
        BY ONLY <2>4, <3>1
      <4>5. QED BY <4>2, <4>3, <4>4
    <3>3. u[set] \in Nat /\ u[s - 1] \in Nat /\ u[s] \in Nat /\ u[n] \in Nat /\ c[s] \in Nat
      <4>1. u[set] \in Nat /\ u[s - 1] \in Nat /\ u[s] \in Nat /\ u[n] \in Nat
        BY ONLY <2>3, <2>7, <3>1
      <4>2. c[s] \in Nat
        BY ONLY <2>4, <3>1
      <4>3. QED BY <4>1, <4>2
    <3>4. c[s] = 0
      BY <2>8, <3>2, <3>3
    <3>5. q <= 0
      BY <2>12, <2>13, <3>4
    <3>6. QED BY <2>10, <2>11, <3>5
  <2>17. s \in Nat /\ set \in Nat
    BY <1>1, <2>7
  <2>18. QED BY <2>14, <2>15, <2>16, <2>17
<1>5. QED BY <1>3, <1>4

-----------------------------------------------------------------------------
(* The steps of a source.                                                    *)

\* What a source knows of the files and the clients when it reads.
Settled(N) == FilesInv /\ TablesTyped /\ AllPrepared /\ N \in Nat \ {0}

OnceAndOpen(N, later) ==
    \E a, b : OnceInv(N, later, a) /\ (partitions # {} => Open(N, later, a, b))

Histories ==
    /\ DOMAIN sent = DOMAIN DocumentSets /\ DOMAIN issued = DOMAIN DocumentSets
    /\ \A s \in DOMAIN DocumentSets : DOMAIN sent[s] = 1..DocumentSets[s].docs
                                      /\ DOMAIN issued[s] = 1..DocumentSets[s].docs

LEMMA CloseSourceStep ==
    ASSUME NEW N, Settled(N), NEW later, OnceAndOpen(N, later), CloseSource(N), UNCHANGED files
    PROVE  OnceAndOpen(N, later)'
<1>1. PICK a, b : OnceInv(N, later, a) /\ Open(N, later, a, b)
  BY DEF OnceAndOpen, CloseSource
<1>2. /\ partitions # {} /\ ~Reading(N) /\ partitions' = {}
      /\ UNCHANGED <<current_line, id_up_to, set, sent, issued>> /\ UNCHANGED <<file, torn, counted>>
  BY DEF CloseSource, files
<1>3. N \in Nat \ {0} /\ FilesInv /\ TablesTyped /\ AllPrepared
  BY DEF Settled
<1>4. ASSUME NEW s \in DOMAIN DocumentSets, NEW d \in 1..DocumentSets[s].docs
      PROVE  /\ s \notin torn' =>
                   sent'[s][d] = 0 \/ (sent'[s][d] = 1 /\ Taken(s, d, N, later, ReadTo(s, N, a))')
             /\ issued'[s][d] = 0
                \/ (issued'[s][d] = 1 /\ Taken(s, d, N, later, IssuedTo(s, N, a))')
             /\ Sound(s)' /\ IngestPercentage = 100 /\ sent'[s][d] = 0 =>
                   Missing(s, d, N, later, ReadTo(s, N, a))'
  <2>1. ASSUME NEW e, NEW f, Taken(s, d, N, later, e)
        PROVE  ~Falls(DocumentSets[s].docs, N, later, d) /\ ~Falls(DocumentSets[s].docs, N, {}, d)
    BY <2>1 DEF Taken, Falls
  <2>2. Sound(s)' = Sound(s)
    BY <1>2 DEF Sound, Verified
  <2>3. s \notin torn => sent[s][d] = 0
            \/ (sent[s][d] = 1 /\ Taken(s, d, N, later, ReadTo(s, N, a)))
    BY <1>1 DEF OnceInv
  <2>4. issued[s][d] = 0 \/ (issued[s][d] = 1 /\ Taken(s, d, N, later, IssuedTo(s, N, a)))
    BY <1>1 DEF OnceInv
  <2>5. Sound(s) /\ IngestPercentage = 100 /\ sent[s][d] = 0 =>
            Falls(DocumentSets[s].docs, N, later, d)
    <3>1. SUFFICES ASSUME Sound(s), IngestPercentage = 100, sent[s][d] = 0
                   PROVE  Falls(DocumentSets[s].docs, N, later, d)
      OBVIOUS
    <3>2. Missing(s, d, N, later, ReadTo(s, N, a))
      BY <1>1, <3>1 DEF OnceInv
    <3>3. Falls(DocumentSets[s].docs, N, partitions, d) => Reached(s, d, ReadTo(s, N, a))
      BY <1>1, <1>2, <1>3, <3>1, AllRead
    <3>4. QED BY <3>2, <3>3 DEF Missing
  <2>6. QED BY <1>2, <2>1, <2>2, <2>3, <2>4, <2>5 DEF Taken, Missing
<1>5. OnceInv(N, later, a)'
  BY <1>4 DEF OnceInv
<1>6. QED BY <1>2, <1>5 DEF OnceAndOpen

LEMMA NextReaderStep ==
    ASSUME NEW N, Settled(N), NEW later, OnceAndOpen(N, later), NextReader(N), UNCHANGED files
    PROVE  OnceAndOpen(N, later)'
<1>1. PICK a, b : OnceInv(N, later, a) /\ Open(N, later, a, b)
  BY DEF OnceAndOpen, NextReader, Reading
<1>2. /\ set' = set + 1 /\ current_line' = 0 /\ id_up_to' = 0 /\ LinesInBulk(N) = 0
      /\ UNCHANGED <<partitions, current_bulk, sent, issued>> /\ UNCHANGED <<file, torn, counted>>
      /\ set <= Len(DocumentSets)
  BY DEF NextReader, Reading, files
<1>3. N \in Nat \ {0} /\ FilesInv /\ TablesTyped /\ AllPrepared
  BY DEF Settled
<1>4. PICK n \in Nat : n = Len(DocumentSets) /\ DOMAIN DocumentSets = 1..n
  <2>1. PICK Q : DocumentSets \in Seq(Q)
    BY FilesAssumption
  <2>2. QED BY <2>1
<1>5. /\ a \in 0..(N - 1) /\ b \in 0..(N - 1) /\ a <= b /\ partitions = a..b
      /\ set \in 1..n /\ current_bulk \in Nat /\ partitions \intersect later = {}
  BY <1>1, <1>2, <1>4 DEF Open
<1>6. PICK x, y, m : ReadsNext(a, b, N, x, y, m)
  BY <1>1, <1>3, <1>4, <1>5, NextLines
<1>7. m = 0
  BY <1>2, <1>6 DEF ReadsNext
<1>8. Sound(set) => current_line \div LinesPerDoc(set) = y - x
  BY <1>1, <1>3, <1>4, <1>5, <1>6, <1>7, EndOfSlice
<1>9. \A s \in DOMAIN DocumentSets : 0 \div LinesPerDoc(s) = 0
  <2>1. ASSUME NEW s \in DOMAIN DocumentSets PROVE 0 \div LinesPerDoc(s) = 0
    <3>1. LinesPerDoc(s) = 1 \/ LinesPerDoc(s) = 2
      BY DocsOfSet
    <3>2. QED BY ONLY <3>1
  <2>2. QED BY <2>1
<1>10. ASSUME NEW s \in DOMAIN DocumentSets, NEW d \in 1..DocumentSets[s].docs
       PROVE  /\ s \notin torn' =>
                    sent'[s][d] = 0 \/ (sent'[s][d] = 1 /\ Taken(s, d, N, later, ReadTo(s, N, a))')
              /\ issued'[s][d] = 0
                 \/ (issued'[s][d] = 1 /\ Taken(s, d, N, later, IssuedTo(s, N, a))')
              /\ Sound(s)' /\ IngestPercentage = 100 /\ sent'[s][d] = 0 =>
                    Missing(s, d, N, later, ReadTo(s, N, a))'
  <2>1. s \in Nat /\ set \in Nat
    BY <1>4, <1>5
  <2>2. ASSUME NEW e, NEW f, Reached(s, d, e) PROVE s < set'
    BY <1>2, <2>1, <2>2 DEF Reached
  <2>3. ASSUME NEW e, Taken(s, d, N, later, e)
        PROVE  Taken(s, d, N, later, ReadTo(s, N, a))' /\ Taken(s, d, N, later, IssuedTo(s, N, a))'
    BY <1>2, <2>2, <2>3 DEF Taken, Reached
  <2>4. Sound(s)' = Sound(s)
    BY <1>2 DEF Sound, Verified
  <2>5. s \notin torn => sent[s][d] = 0
            \/ (sent[s][d] = 1 /\ Taken(s, d, N, later, ReadTo(s, N, a)))
    BY <1>1 DEF OnceInv
  <2>6. issued[s][d] = 0 \/ (issued[s][d] = 1 /\ Taken(s, d, N, later, IssuedTo(s, N, a)))
    BY <1>1 DEF OnceInv
  <2>7. Sound(s) /\ IngestPercentage = 100 /\ sent[s][d] = 0 =>
            Missing(s, d, N, later, ReadTo(s, N, a))'
    <3>1. SUFFICES ASSUME Sound(s), IngestPercentage = 100, sent[s][d] = 0
                   PROVE  Missing(s, d, N, later, ReadTo(s, N, a))'
      OBVIOUS
    <3>2. Missing(s, d, N, later, ReadTo(s, N, a))
      BY <1>1, <3>1 DEF OnceInv
    <3>3. CASE Falls(DocumentSets[s].docs, N, later, d)
      BY <3>3 DEF Missing
    <3>4. CASE Falls(DocumentSets[s].docs, N, partitions, d) /\ ~Reached(s, d, ReadTo(s, N, a))
      <4>1. PICK v, w : Sliced(s, a, b, N, v, w)
        BY <1>3, <1>5, SliceOfSet
      <4>2. v \in Nat /\ w \in Nat /\ v < d /\ d <= w /\ v = Edge(DocumentSets[s].docs, N, a)
        <5>1. d \in Nat
          OBVIOUS
        <5>2. QED BY <1>5, <3>4, <4>1, <5>1 DEF Sliced
      <4>3. ~(s < set) /\ ~(s = set /\ d <= ReadTo(s, N, a))
        BY <3>4 DEF Reached
      <4>4. s # set
        <5>1. SUFFICES ASSUME s = set PROVE FALSE
          OBVIOUS
        <5>2. x = v /\ y = w
          BY <1>6, <4>1, <4>2, <5>1 DEF ReadsNext, Sliced
        <5>3. ReadTo(s, N, a) = v + (w - v)
          BY <1>8, <3>1, <4>2, <5>1, <5>2 DEF ReadTo
        <5>4. QED BY <4>2, <4>3, <5>1, <5>3
      <4>5. ReadTo(s, N, a)' = v
        <5>1. ReadTo(s, N, a)' = v + (0 \div LinesPerDoc(s))
          BY <1>2, <4>2 DEF ReadTo
        <5>2. 0 \div LinesPerDoc(s) = 0
          BY <1>9
        <5>3. QED BY ONLY <4>2, <5>1, <5>2
      <4>6. ~Reached(s, d, ReadTo(s, N, a))'
        <5>1. ~(s < set')
          BY <1>2, <2>1, <4>3, <4>4
        <5>2. ~(d <= ReadTo(s, N, a)')
          BY <4>2, <4>5
        <5>3. QED BY <5>1, <5>2 DEF Reached
      <4>7. QED BY <1>2, <3>4, <4>6 DEF Missing
    <3>5. QED BY <3>2, <3>3, <3>4 DEF Missing
  <2>8. QED BY <1>2, <2>3, <2>4, <2>5, <2>6, <2>7
<1>11. OnceInv(N, later, a)'
  BY <1>10 DEF OnceInv
<1>12. Open(N, later, a, b)'
  <2>1. set' \in 1..(Len(DocumentSets) + 1) /\ current_line' \in Nat /\ id_up_to' \in Nat
        /\ id_up_to' <= current_line'
    BY <1>2, <1>4, <1>5
  <2>2. ASSUME set' \in DOMAIN DocumentSets
        PROVE  current_line' <= Bounds(set', a, b, N).lines /\ \E u, k : Counted(a, b, N, u, k)'
    <3>1. PICK v, w : Sliced(set', a, b, N, v, w)
      BY <1>3, <1>5, <2>2, SliceOfSet
    <3>2. LinesPerDoc(set') \in {1, 2} /\ v \in Nat /\ w \in Nat /\ v <= w
          /\ Bounds(set', a, b, N).lines = (w - v) * LinesPerDoc(set')
      BY <2>2, <3>1, DocsOfSet DEF Sliced
    <3>3. 0 <= Bounds(set', a, b, N).lines
      <4>1. PICK q \in Nat, L \in {1, 2} : q = w - v /\ L = LinesPerDoc(set')
        <5>1. w - v \in Nat
          BY <3>2
        <5>2. QED BY <3>2, <5>1
      <4>2. 0 <= q * L
        OBVIOUS
      <4>3. QED BY <3>2, <4>1, <4>2
    <3>4. PICK u, k : Counted(a, b, N, u, k)
      BY <1>1, <1>4, <1>5 DEF Open
    <3>5. PICK c : c = BulksOfSets(a, b, N)
      OBVIOUS
    <3>6. /\ Len(c) = n /\ \A i \in 1..n : u[i] = u[i - 1] + c[i] /\ c[i] \in Nat
          /\ \A i \in 0..n : u[i] \in Nat
      <4>1. Partial(u, c) /\ Len(c) = n
        BY <1>4, <3>4, <3>5 DEF Counted
      <4>2. \A i \in 1..n : u[i] = u[i - 1] + c[i] /\ c[i] \in Nat
        BY ONLY <4>1 DEF Partial
      <4>3. \A i \in 0..n : u[i] \in Nat
        BY ONLY <4>1 DEF Partial
      <4>4. QED BY <4>1, <4>2, <4>3
    <3>7. k \in Nat /\ k <= c[set] /\ current_bulk <= u[set - 1] + k
      BY <3>4, <3>5 DEF Counted
    <3>8. set - 1 \in 0..n /\ set \in 0..n /\ set \in 1..n /\ set' \in 1..n
      BY <1>4, <1>5, <2>2
    <3>9. u[set - 1] \in Nat /\ u[set] \in Nat /\ c[set] \in Nat /\ u[set] = u[set - 1] + c[set]
      BY ONLY <3>6, <3>8
    <3>10. current_bulk <= u[set]
      BY <1>5, <3>7, <3>9
    <3>11. u[set' - 1] = u[set]
      BY <1>2, <1>5
    <3>12. c[set'] \in Nat
      BY ONLY <3>6, <3>8
    <3>13. (0 * BulkSize) * LinesPerDoc(set') = 0
      BY <3>2, BulkAssumption
    <3>14. Counted(a, b, N, u, 0)'
      BY <1>2, <1>5, <3>4, <3>5, <3>9, <3>10, <3>11, <3>12, <3>13 DEF Counted
    <3>15. QED BY <1>2, <3>3, <3>14
  <2>3. QED BY <1>2, <1>5, <2>1, <2>2 DEF Open
<1>13. QED BY <1>11, <1>12 DEF OnceAndOpen

\* Where the bulk that was read ends, in documents and in bulks.
LEMMA BulkEnds ==
    ASSUME NEW N, Settled(N), NEW later, NEW a, NEW b, Open(N, later, a, b),
           set \in DOMAIN DocumentSets, NEW x, NEW y, NEW n, ReadsNext(a, b, N, x, y, n), n > 0,
           NEW L, L = LinesPerDoc(set)
    PROVE  /\ L \in {1, 2} /\ n \in Nat /\ current_line + n <= (y - x) * L
           /\ n \div L \in Nat /\ current_line \div L \in Nat
           /\ (current_line \div L) + (n \div L) <= (current_line + n) \div L
           /\ (current_line + n) \div L <= y - x
           /\ set \notin torn => Position(N) \div L = x + (current_line \div L)
           /\ Sound(set) => (current_line \div L) + (n \div L) = (current_line + n) \div L
           /\ ~Exhausted(a, b, N)
<1>1. L \in {1, 2} /\ N \in Nat \ {0} /\ FilesInv /\ TablesTyped /\ AllPrepared
  BY DocsOfSet DEF Settled
<1>2. PICK c \in Nat, q \in Nat : c = current_line /\ q = y - x
  <2>1. y - x \in Nat
    BY DEF ReadsNext, Sliced
  <2>2. current_line \in Nat
    BY DEF Open
  <2>3. QED BY <2>1, <2>2
<1>3. x \in Nat
  BY DEF ReadsNext, Sliced
<1>4. PICK v \in Nat : v = q * L
  BY <1>1
<1>5. PICK rest \in Int : rest = file[set].doc - Position(N)
  BY DEF ReadsNext
<1>6. Cut(n, v - c, rest, BulkSize * L) /\ c <= v
  BY <1>2, <1>4, <1>5 DEF ReadsNext
<1>7. n \in Nat /\ c + n <= v /\ rest > 0
  BY <1>2, <1>4, <1>5, <1>6 DEF Cut
<1>8. n \div L \in Nat /\ c \div L \in Nat /\ (c \div L) + (n \div L) <= (c + n) \div L
      /\ (c + n) \div L <= q
  <2>1. PICK z \in Nat : z = n
    BY <1>7
  <2>2. c + z <= q * L
    BY ONLY <1>4, <1>7, <2>1
  <2>3. QED BY ONLY <1>1, <1>2, <2>1, <2>2, DocsOfLines
<1>9. set \notin torn => Position(N) \div L = x + (c \div L)
  <2>1. SUFFICES ASSUME set \notin torn PROVE Position(N) \div L = x + (c \div L)
    OBVIOUS
  <2>2. Position(N) = x * L + c
    BY <1>2, <2>1 DEF ReadsNext
  <2>3. QED BY ONLY <1>1, <1>2, <1>3, <2>2, DocsOfLines
<1>10. ~Exhausted(a, b, N)
  <2>1. Bounds(set, a, b, N).lines = v
    BY <1>2, <1>4 DEF ReadsNext, Sliced
  <2>2. ~(v <= c)
    BY <1>6, <1>7
  <2>3. Position(N) = SkipLines(set, Bounds(set, a, b, N).offset) + current_line
    BY DEF ReadsNext
  <2>4. ~(file[set].doc <= Position(N))
    <3>1. Position(N) \in Int /\ file[set].doc \in Int
      BY DEF ReadsNext
    <3>2. QED BY <1>5, <1>7, <3>1
  <2>5. QED BY <1>2, <2>1, <2>2, <2>3, <2>4 DEF Exhausted
<1>11. (c \div L) + (n \div L) = (c + n) \div L
  <2>1. PICK u, k : Counted(a, b, N, u, k)
    BY DEF Open
  <2>2. PICK h \in Nat : h = k * BulkSize
    <3>1. k \in Nat /\ BulkSize \in Nat
      BY <2>1, BulkAssumption DEF Counted
    <3>2. QED BY <3>1
  <2>3. c = h * L
    BY <1>2, <1>10, <2>1, <2>2 DEF Counted
  <2>4. PICK z \in Nat : z = n
    BY <1>7
  <2>5. QED BY ONLY <1>1, <1>2, <2>2, <2>3, <2>4, DocsOfLines
<1>12. QED BY ONLY <1>1, <1>2, <1>4, <1>7, <1>8, <1>9, <1>10, <1>11

\* The next bulk keeps the count of bulks.
LEMMA BulkCounted ==
    ASSUME NEW N, Settled(N), NEW later, NEW a, NEW b, Open(N, later, a, b),
           set \in DOMAIN DocumentSets, NEW x, NEW y, NEW n, ReadsNext(a, b, N, x, y, n), n > 0,
           current_line' = current_line + n, current_bulk' = current_bulk + 1,
           UNCHANGED <<set, file>>
    PROVE  \E u, k : Counted(a, b, N, u, k)'
<1>1. N \in Nat \ {0} /\ FilesInv /\ TablesTyped /\ AllPrepared
  BY DEF Settled
<1>2. PICK L : L = LinesPerDoc(set)
  OBVIOUS
<1>3. /\ L \in {1, 2} /\ n \in Nat /\ current_line + n <= (y - x) * L
      /\ ~Exhausted(a, b, N)
  BY <1>2, BulkEnds
<1>4. PICK c \in Nat, q \in Nat : c = current_line /\ q = y - x
  <2>1. y - x \in Nat
    BY DEF ReadsNext, Sliced
  <2>2. current_line \in Nat
    BY DEF Open
  <2>3. QED BY <2>1, <2>2
<1>5. PICK u, k : Counted(a, b, N, u, k)
  BY DEF Open
<1>6. PICK B \in Nat \ {0}, h \in Nat : B = BulkSize /\ h = k * B
  <2>1. k \in Nat /\ BulkSize \in Nat \ {0}
    BY <1>5, BulkAssumption DEF Counted
  <2>2. k * BulkSize \in Nat
    BY <2>1
  <2>3. QED BY <2>1, <2>2
<1>7. k \in Nat /\ c = h * L
  BY <1>2, <1>3, <1>4, <1>5, <1>6 DEF Counted
<1>8. Bounds(set, a, b, N).docs = q /\ Bounds(set, a, b, N).lines = q * L
  BY <1>2, <1>4 DEF ReadsNext, Sliced
<1>9. k + 1 <= BulksOfSets(a, b, N)[set]
  <2>1. h < q
    <3>1. h * L + n <= q * L
      BY <1>3, <1>4, <1>7
    <3>2. CASE L = 1
      BY <1>3, <3>1, <3>2
    <3>3. CASE L = 2
      BY <1>3, <3>1, <3>3
    <3>4. QED BY <1>3, <3>2, <3>3
  <2>2. k + 1 <= CeilDiv(q, B)
    BY <1>6, <1>7, <2>1, BulksOf
  <2>3. QED BY <1>6, <1>8, <2>2 DEF BulksOfSets
<1>10. current_line' = ((k + 1) * BulkSize) * LinesPerDoc(set') \/ Exhausted(a, b, N)'
  <2>1. PICK rest \in Int : rest = file[set].doc - Position(N)
    BY DEF ReadsNext
  <2>2. Cut(n, q * L - c, rest, B * L)
    BY <1>2, <1>4, <1>6, <2>1 DEF ReadsNext
  <2>3. n = q * L - c \/ n = rest \/ n = B * L
    BY <2>2 DEF Cut
  <2>4. CASE n = q * L - c
    <3>1. q * L \in Nat
      BY <1>3
    <3>2. c + n = q * L
      BY <2>4, <3>1
    <3>3. Bounds(set', a, b, N).lines <= current_line'
      BY <1>4, <1>8, <3>1, <3>2
    <3>4. QED BY <3>3 DEF Exhausted
  <2>5. CASE n = rest
    <3>1. PICK p \in Int : p = SkipLines(set, Bounds(set, a, b, N).offset)
      <4>1. PICK o \in Nat : o = Bounds(set, a, b, N).offset
        <5>1. x \in Nat /\ Bounds(set, a, b, N).offset = x * L
          BY <1>2 DEF ReadsNext, Sliced
        <5>2. x * L \in Nat
          BY <1>3, <5>1
        <5>3. QED BY <5>1, <5>2
      <4>2. SkipLines(set, o) \in Int
        BY <1>1, SkippedLines
      <4>3. QED BY <4>1, <4>2
    <3>2. Position(N) = p + c
      BY <1>4, <3>1 DEF ReadsNext
    <3>3. file[set].doc \in Int
      BY DEF ReadsNext
    <3>4. file[set].doc <= p + (c + n)
      BY <2>1, <2>5, <3>2, <3>3
    <3>5. SkipLines(set, Bounds(set, a, b, N).offset)' = p
      BY <3>1 DEF SkipLines, ClosestOffset
    <3>6. QED BY <1>4, <3>4, <3>5 DEF Exhausted
  <2>6. CASE n = B * L
    <3>1. (k + 1) * B = h + B
      <4>1. PICK j \in Nat : j = B
        OBVIOUS
      <4>2. (k + 1) * j = k * j + j
        BY <1>7
      <4>3. QED BY <1>6, <4>1, <4>2
    <3>2. (h + B) * L = h * L + B * L
      <4>1. L = 1 \/ L = 2
        BY <1>3
      <4>2. QED BY <4>1
    <3>3. QED BY <1>2, <1>4, <1>6, <1>7, <2>6, <3>1, <3>2
  <2>7. QED BY <2>3, <2>4, <2>5, <2>6
<1>11. current_bulk' <= u[set' - 1] + (k + 1)
  <2>1. current_bulk <= u[set - 1] + k /\ current_bulk \in Nat
    BY <1>5 DEF Counted, Open
  <2>2. u[set - 1] \in Nat
    <3>1. set - 1 \in 0..Len(DocumentSets)
      <4>1. DOMAIN DocumentSets = 1..Len(DocumentSets) /\ Len(DocumentSets) \in Nat
        BY SetFacts
      <4>2. QED BY <4>1
    <3>2. QED BY <1>5, <3>1 DEF Counted, Partial
  <2>3. QED BY <1>7, <2>1, <2>2
<1>12. Counted(a, b, N, u, k + 1)'
  <2>1. k + 1 \in Nat
    BY <1>7
  <2>2. QED BY <1>5, <1>9, <1>10, <1>11, <2>1 DEF Counted
<1>13. QED BY <1>12

\* A document that is read, or an id that is issued, was not before.
LEMMA OneMoreOnce ==
    ASSUME NEW N \in Nat \ {0}, NEW later \in SUBSET Nat, partitions \subseteq Nat,
           partitions \intersect later = {}, UNCHANGED <<set, partitions>>,
           NEW s \in DOMAIN DocumentSets, NEW d \in 1..DocumentSets[s].docs, NEW v, NEW w,
           NEW e \in Int, NEW g \in Int, e <= g \/ s # set,
           v = 0 \/ (v = 1 /\ Taken(s, d, N, later, e)),
           \/ w = v
           \/ /\ w = v + 1 /\ s = set /\ e < d /\ d <= g
              /\ Falls(DocumentSets[s].docs, N, partitions, d)
    PROVE  w = 0 \/ (w = 1 /\ Taken(s, d, N, later, g)')
<1>1. d \in Nat /\ DocumentSets[s].docs \in Nat
  BY DocsOfSet
<1>2. CASE w = v
  <2>1. SUFFICES ASSUME v = 1 PROVE Taken(s, d, N, later, g)'
    BY <1>2
  <2>2. Taken(s, d, N, later, e)
    BY <2>1
  <2>3. Reached(s, d, e) => Reached(s, d, g)'
    BY <1>1 DEF Reached
  <2>4. QED BY <2>2, <2>3 DEF Taken
<1>3. CASE /\ w = v + 1 /\ s = set /\ e < d /\ d <= g
           /\ Falls(DocumentSets[s].docs, N, partitions, d)
  <2>1. v = 0
    <3>1. SUFFICES ASSUME Taken(s, d, N, later, e) PROVE FALSE
      OBVIOUS
    <3>2. Reached(s, d, e)
      BY <1>3, <3>1 DEF Taken
    <3>3. ~(s < set)
      <4>1. s \in Nat
        BY SetFacts
      <4>2. QED BY <1>3, <4>1
    <3>4. QED BY <1>1, <1>3, <3>2, <3>3 DEF Reached
  <2>2. ~Falls(DocumentSets[s].docs, N, later, d)
    <3>1. SUFFICES ASSUME Falls(DocumentSets[s].docs, N, later, d) PROVE FALSE
      OBVIOUS
    <3>2. PICK i \in later : Falls(DocumentSets[s].docs, N, {i}, d)
      BY <3>1 DEF Falls
    <3>3. PICK k \in partitions : Falls(DocumentSets[s].docs, N, {k}, d)
      BY <1>3 DEF Falls
    <3>4. i \in Nat /\ k \in Nat
      OBVIOUS
    <3>5. i = k
      BY <1>1, <3>2, <3>3, <3>4, FallsToOne
    <3>6. QED BY <3>5
  <2>3. Reached(s, d, g)'
    BY <1>3 DEF Reached
  <2>4. QED BY <1>3, <2>1, <2>2, <2>3 DEF Taken
<1>4. QED BY <1>2, <1>3

\* The counts of a history go up between two documents of the set that is read.
UpBetween(h, k, from, to) ==
    \A s \in DOMAIN DocumentSets : \A d \in 1..DocumentSets[s].docs :
        k[s][d] = IF s = set /\ from < d /\ d <= to THEN h[s][d] + 1 ELSE h[s][d]

LEMMA CountsUp ==
    ASSUME NEW h, NEW k, set \in DOMAIN DocumentSets, DOMAIN h = DOMAIN DocumentSets,
           \A s \in DOMAIN DocumentSets : DOMAIN h[s] = 1..DocumentSets[s].docs,
           NEW f \in Int, NEW m \in Int,
           k = [h EXCEPT ![set] = [d \in DOMAIN @ |-> IF d \in f..m THEN @[d] + 1 ELSE @[d]]]
    PROVE  /\ DOMAIN k = DOMAIN DocumentSets
           /\ \A s \in DOMAIN DocumentSets : DOMAIN k[s] = 1..DocumentSets[s].docs
           /\ UpBetween(h, k, f - 1, m)
<1>1. /\ k[set] = [d \in DOMAIN h[set] |-> IF d \in f..m THEN h[set][d] + 1 ELSE h[set][d]]
      /\ \A s \in DOMAIN DocumentSets : s # set => k[s] = h[s]
      /\ DOMAIN k = DOMAIN DocumentSets
  OBVIOUS
<1>2. \A s \in DOMAIN DocumentSets : DOMAIN k[s] = 1..DocumentSets[s].docs
  BY <1>1
<1>3. ASSUME NEW s \in DOMAIN DocumentSets, NEW d \in 1..DocumentSets[s].docs
      PROVE  k[s][d] = IF s = set /\ f - 1 < d /\ d <= m THEN h[s][d] + 1 ELSE h[s][d]
  <2>1. CASE s # set
    BY <1>1, <2>1
  <2>2. CASE s = set
    <3>1. d \in DOMAIN h[set] /\ d \in Int
      <4>1. d \in 1..DocumentSets[set].docs /\ DOMAIN h[set] = 1..DocumentSets[set].docs
        BY <2>2
      <4>2. QED BY ONLY <4>1
    <3>2. k[set][d] = IF d \in f..m THEN h[set][d] + 1 ELSE h[set][d]
      BY <1>1, <3>1
    <3>3. d \in f..m <=> f - 1 < d /\ d <= m
      BY <3>1
    <3>4. QED BY <2>2, <3>2, <3>3
  <2>3. QED BY <2>1, <2>2
<1>4. UpBetween(h, k, f - 1, m)
  BY <1>3 DEF UpBetween
<1>5. QED BY <1>1, <1>2, <1>4

\* What a bulk adds to the histories; ids count where they conflict.
LEMMA BulkAdds ==
    ASSUME NEW N, Settled(N), NEW later, NEW a, NEW b, Open(N, later, a, b), NextBulk(N),
           Histories, set \in DOMAIN DocumentSets, NEW x, NEW y, NEW n,
           ReadsNext(a, b, N, x, y, n), NEW L, L = LinesPerDoc(set)
    PROVE  /\ Histories' /\ current_line' = current_line + n
           /\ \E from \in Int : /\ set \notin torn => from = x + (current_line \div L)
                                /\ UpBetween(sent, sent', from, from + (n \div L))
           /\ \E more \in 0..n : /\ id_up_to' = id_up_to + more
                                 /\ more > 0 => L = 1
                                 /\ UpBetween(issued, issued', x + id_up_to, x + id_up_to + more)
<1>1. N \in Nat \ {0} /\ n = LinesInBulk(N) /\ n > 0 /\ id_up_to \in Nat
  BY DEF Settled, ReadsNext, NextBulk, Open
<1>2. /\ L \in {1, 2} /\ n \in Nat /\ n \div L \in Nat
      /\ set \notin torn => Position(N) \div L = x + (current_line \div L)
  BY <1>1, BulkEnds
<1>3. PICK f \in Int, docs \in Nat : f = Position(N) \div L + 1 /\ docs = n \div L
  <2>1. PICK p \in Int : p = Position(N)
    BY DEF ReadsNext
  <2>2. p \div L \in Int
    BY <1>2
  <2>3. QED BY <1>2, <2>1, <2>2
<1>4. docs <= n
  <2>1. L = 1 \/ L = 2
    BY <1>2
  <2>2. QED BY ONLY <1>2, <1>3, <2>1
<1>5. sent' = [sent EXCEPT ![set] = [d \in DOMAIN @ |->
                  IF d \in f..(f + docs - 1) THEN @[d] + 1 ELSE @[d]]]
  BY <1>1, <1>3 DEF NextBulk
<1>6. /\ DOMAIN sent' = DOMAIN DocumentSets
      /\ \A s \in DOMAIN DocumentSets : DOMAIN sent'[s] = 1..DocumentSets[s].docs
      /\ UpBetween(sent, sent', f - 1, f + docs - 1)
  <2>1. f + docs - 1 \in Int
    OBVIOUS
  <2>2. /\ DOMAIN sent = DOMAIN DocumentSets
        /\ \A s \in DOMAIN DocumentSets : DOMAIN sent[s] = 1..DocumentSets[s].docs
    BY DEF Histories
  <2>3. QED BY <1>5, <2>1, <2>2, CountsUp
<1>7. \E from \in Int : /\ set \notin torn => from = x + (current_line \div L)
                        /\ UpBetween(sent, sent', from, from + (n \div L))
  <2>1. PICK from \in Int : from = f - 1
    OBVIOUS
  <2>2. from + docs = f + docs - 1
    BY <2>1
  <2>3. from = Position(N) \div L
    <3>1. PICK q \in Int : q = Position(N) \div L
      <4>1. f - 1 = Position(N) \div L
        <5>1. PICK p \in Int : p = Position(N)
          BY DEF ReadsNext
        <5>2. PICK r \in Int : r = p \div L
          BY <1>2
        <5>3. QED BY <1>3, <5>1, <5>2
      <4>2. QED BY <4>1
    <3>2. QED BY <1>3, <2>1, <3>1
  <2>4. QED BY <1>2, <1>3, <1>6, <2>1, <2>2, <2>3
<1>8. PICK fresh \in 0..docs :
          IF DocumentSets[set].conflicts
          THEN /\ id_up_to' = id_up_to + fresh
               /\ issued' = [issued EXCEPT ![set] = [d \in DOMAIN @ |->
                     IF d \in (Slice(set, N).offset + id_up_to + 1)
                              ..(Slice(set, N).offset + id_up_to + fresh)
                     THEN @[d] + 1 ELSE @[d]]]
          ELSE UNCHANGED <<id_up_to, issued>>
  BY <1>1, <1>3 DEF NextBulk
<1>9. /\ DOMAIN issued = DOMAIN DocumentSets
      /\ \A s \in DOMAIN DocumentSets : DOMAIN issued[s] = 1..DocumentSets[s].docs
  BY DEF Histories
<1>10. x \in Nat
  BY DEF ReadsNext, Sliced
<1>11. /\ DOMAIN issued' = DOMAIN DocumentSets
       /\ \A s \in DOMAIN DocumentSets : DOMAIN issued'[s] = 1..DocumentSets[s].docs
       /\ \E more \in 0..n : /\ id_up_to' = id_up_to + more
                             /\ more > 0 => L = 1
                             /\ UpBetween(issued, issued', x + id_up_to, x + id_up_to + more)
  <2>1. CASE ~DocumentSets[set].conflicts
    <3>1. 0 \in 0..n /\ id_up_to' = id_up_to + 0 /\ issued' = issued
      BY <1>1, <1>2, <1>8, <2>1
    <3>2. UpBetween(issued, issued, x + id_up_to, x + id_up_to + 0)
      BY <1>1, <1>10 DEF UpBetween
    <3>3. QED BY <1>9, <3>1, <3>2
  <2>2. CASE DocumentSets[set].conflicts
    <3>1. L = 1
      BY <2>2, DocsOfSet
    <3>2. Slice(set, N).offset = x
      <4>1. Slice(set, N) = Bounds(set, a, b, N)
        BY <1>1, OpenSlices
      <4>2. Bounds(set, a, b, N).offset = x * L
        BY DEF ReadsNext, Sliced
      <4>3. QED BY <1>10, <3>1, <4>1, <4>2
    <3>3. issued' = [issued EXCEPT ![set] = [d \in DOMAIN @ |->
              IF d \in (x + id_up_to + 1)..(x + id_up_to + fresh) THEN @[d] + 1 ELSE @[d]]]
      BY <1>8, <2>2, <3>2
    <3>4. fresh \in 0..n /\ fresh \in Nat
      BY <1>2, <1>4
    <3>5. PICK i \in Int, k \in Int : i = x + id_up_to + 1 /\ k = x + id_up_to + fresh
      BY <1>1, <1>10, <3>4
    <3>6. issued' = [issued EXCEPT ![set] = [d \in DOMAIN @ |->
              IF d \in i..k THEN @[d] + 1 ELSE @[d]]]
      BY <3>3, <3>5
    <3>7. /\ DOMAIN issued' = DOMAIN DocumentSets
          /\ \A s \in DOMAIN DocumentSets : DOMAIN issued'[s] = 1..DocumentSets[s].docs
          /\ UpBetween(issued, issued', i - 1, k)
      BY <1>9, <3>6, CountsUp
    <3>8. i - 1 = x + id_up_to
      BY <1>1, <1>10, <3>5
    <3>9. QED BY <1>8, <2>2, <3>1, <3>4, <3>5, <3>7, <3>8
  <2>3. QED BY <2>1, <2>2
<1>12. Histories'
  BY <1>6, <1>11 DEF Histories
<1>13. current_line' = current_line + n
  BY <1>1 DEF NextBulk
<1>14. QED BY <1>7, <1>11, <1>12, <1>13

LEMMA NextBulkStep ==
    ASSUME NEW N, Settled(N), NEW later \in SUBSET Nat, OnceAndOpen(N, later), Histories,
           NextBulk(N), UNCHANGED files
    PROVE  OnceAndOpen(N, later)' /\ Histories'
<1>1. PICK a, b : OnceInv(N, later, a) /\ Open(N, later, a, b)
  BY DEF OnceAndOpen, NextBulk, Reading
<1>2. /\ current_bulk' = current_bulk + 1 /\ UNCHANGED <<partitions, set>>
      /\ UNCHANGED <<file, torn, counted>> /\ LinesInBulk(N) > 0 /\ set <= Len(DocumentSets)
  BY DEF NextBulk, Reading, files
<1>3. N \in Nat \ {0} /\ FilesInv /\ TablesTyped /\ AllPrepared
  BY DEF Settled
<1>4. PICK m \in Nat : m = Len(DocumentSets) /\ DOMAIN DocumentSets = 1..m
  <2>1. PICK Q : DocumentSets \in Seq(Q)
    BY FilesAssumption
  <2>2. QED BY <2>1
<1>5. /\ a \in 0..(N - 1) /\ b \in 0..(N - 1) /\ a <= b /\ partitions = a..b
      /\ set \in 1..m /\ set \in DOMAIN DocumentSets /\ current_bulk \in Nat
      /\ partitions \intersect later = {} /\ partitions \subseteq Nat
      /\ current_line \in Nat /\ id_up_to \in Nat /\ id_up_to <= current_line
  BY <1>1, <1>2, <1>4 DEF Open
<1>6. PICK x, y, n : ReadsNext(a, b, N, x, y, n)
  BY <1>1, <1>3, <1>5, NextLines
<1>7. n = LinesInBulk(N) /\ n > 0
  BY <1>2, <1>6 DEF ReadsNext
<1>8. PICK L : L = LinesPerDoc(set)
  OBVIOUS
<1>9. /\ L \in {1, 2} /\ n \in Nat /\ current_line + n <= (y - x) * L
      /\ n \div L \in Nat /\ current_line \div L \in Nat
      /\ (current_line \div L) + (n \div L) <= (current_line + n) \div L
      /\ (current_line + n) \div L <= y - x
      /\ Sound(set) => (current_line \div L) + (n \div L) = (current_line + n) \div L
  BY <1>1, <1>5, <1>6, <1>7, <1>8, BulkEnds
<1>10. /\ Histories' /\ current_line' = current_line + n
       /\ \E from \in Int : /\ set \notin torn => from = x + (current_line \div L)
                            /\ UpBetween(sent, sent', from, from + (n \div L))
       /\ \E more \in 0..n : /\ id_up_to' = id_up_to + more
                             /\ more > 0 => L = 1
                             /\ UpBetween(issued, issued', x + id_up_to, x + id_up_to + more)
  BY <1>1, <1>5, <1>6, <1>8, BulkAdds
<1>11. PICK from \in Int : /\ set \notin torn => from = x + (current_line \div L)
                           /\ UpBetween(sent, sent', from, from + (n \div L))
  BY <1>10
<1>12. PICK more \in 0..n : /\ id_up_to' = id_up_to + more
                            /\ more > 0 => L = 1
                            /\ UpBetween(issued, issued', x + id_up_to, x + id_up_to + more)
  BY <1>10
<1>13. x \in Nat /\ y \in Nat /\ x <= y
  BY <1>6 DEF ReadsNext, Sliced
<1>14. PICK c \in Nat, t \in Nat, r \in Nat :
           c = current_line \div L /\ t = n \div L /\ r = (current_line + n) \div L
           /\ c + t <= r /\ r <= y - x /\ (Sound(set) => c + t = r)
  <2>1. PICK c \in Nat, t \in Nat : c = current_line \div L /\ t = n \div L
    BY <1>9
  <2>2. (current_line + n) \div L \in Nat
    <3>1. PICK z \in Nat : z = current_line + n
      BY <1>5, <1>9
    <3>2. L = 1 \/ L = 2
      BY <1>9
    <3>3. z \div L \in Nat
      BY ONLY <3>1, <3>2
    <3>4. QED BY <3>1, <3>3
  <2>3. QED BY <1>9, <2>1, <2>2
<1>15. ASSUME NEW d \in Nat, NEW s \in DOMAIN DocumentSets, s = set, x < d, d <= y
       PROVE  Falls(DocumentSets[s].docs, N, partitions, d)
  BY <1>5, <1>6, <1>15 DEF ReadsNext, Sliced
<1>16. more <= n /\ (more > 0 => id_up_to + more <= y - x)
  <2>1. more \in Nat /\ more <= n
    BY <1>9, <1>12
  <2>2. ASSUME more > 0 PROVE id_up_to + more <= y - x
    <3>1. L = 1
      BY <1>12, <2>2
    <3>2. PICK q \in Nat : q = y - x
      BY <1>13
    <3>3. current_line + n <= q
      BY <1>9, <3>1, <3>2
    <3>4. QED BY <1>5, <1>9, <2>1, <3>2, <3>3
  <2>3. QED BY <2>1, <2>2
<1>17. ASSUME NEW s \in DOMAIN DocumentSets
       PROVE  \E e \in Int : e = Edge(DocumentSets[s].docs, N, a) /\ (s = set => e = x)
  <2>1. PICK v, w : Sliced(s, a, b, N, v, w)
    BY <1>3, <1>5, SliceOfSet
  <2>2. v \in Int /\ v = Edge(DocumentSets[s].docs, N, a)
    BY <2>1 DEF Sliced
  <2>3. s = set => v = x
    BY <1>6, <2>2 DEF ReadsNext, Sliced
  <2>4. QED BY <2>2, <2>3
<1>18. ASSUME NEW s \in DOMAIN DocumentSets
       PROVE  /\ ReadTo(s, N, a) \in Int /\ ReadTo(s, N, a)' \in Int
              /\ s = set => ReadTo(s, N, a) = x + c /\ ReadTo(s, N, a)' = x + r
              /\ IssuedTo(s, N, a) \in Int /\ IssuedTo(s, N, a)' \in Int
              /\ s = set => IssuedTo(s, N, a) = x + id_up_to
                            /\ IssuedTo(s, N, a)' = x + id_up_to + more
  <2>1. PICK e \in Int : e = Edge(DocumentSets[s].docs, N, a) /\ (s = set => e = x)
    BY <1>17
  <2>2. PICK K : K = LinesPerDoc(s) /\ (K = 1 \/ K = 2) /\ (s = set => K = L)
    BY <1>8, DocsOfSet
  <2>3. current_line \div K \in Int /\ current_line' \div K \in Int
    <3>1. current_line \in Nat /\ current_line' \in Nat
      BY <1>5, <1>9, <1>10
    <3>2. K = 1 \/ K = 2
      BY <2>2
    <3>3. QED BY ONLY <3>1, <3>2
  <2>4. ReadTo(s, N, a) = e + current_line \div K /\ ReadTo(s, N, a)' = e + current_line' \div K
    BY <2>1, <2>2 DEF ReadTo
  <2>5. ReadTo(s, N, a) \in Int /\ ReadTo(s, N, a)' \in Int
    BY ONLY <2>1, <2>3, <2>4
  <2>6. ASSUME s = set PROVE ReadTo(s, N, a) = x + c /\ ReadTo(s, N, a)' = x + r
    <3>1. K = L /\ e = x
      BY <2>1, <2>2, <2>6
    <3>2. QED BY ONLY <1>10, <1>14, <2>4, <3>1
  <2>7. IssuedTo(s, N, a) = e + id_up_to /\ IssuedTo(s, N, a)' = e + id_up_to'
    BY <2>1 DEF IssuedTo
  <2>8. id_up_to' = id_up_to + more /\ more \in Int /\ id_up_to \in Int
    BY <1>5, <1>9, <1>12
  <2>9. QED BY ONLY <1>13, <2>1, <2>5, <2>6, <2>7, <2>8
<1>19. ASSUME NEW s \in DOMAIN DocumentSets, NEW d \in 1..DocumentSets[s].docs
       PROVE  /\ s \notin torn' =>
                    sent'[s][d] = 0 \/ (sent'[s][d] = 1 /\ Taken(s, d, N, later, ReadTo(s, N, a))')
              /\ issued'[s][d] = 0
                 \/ (issued'[s][d] = 1 /\ Taken(s, d, N, later, IssuedTo(s, N, a))')
              /\ Sound(s)' /\ IngestPercentage = 100 /\ sent'[s][d] = 0 =>
                    Missing(s, d, N, later, ReadTo(s, N, a))'
  <2>1. d \in Nat
    OBVIOUS
  <2>2. PICK e \in Int, g \in Int, i \in Int, j \in Int :
            /\ e = ReadTo(s, N, a) /\ g = ReadTo(s, N, a)'
            /\ i = IssuedTo(s, N, a) /\ j = IssuedTo(s, N, a)'
    BY <1>18
  <2>3. s = set => e = x + c /\ g = x + r /\ i = x + id_up_to /\ j = x + id_up_to + more
    BY <1>18, <2>2
  <2>4. s \notin torn' =>
            sent'[s][d] = 0 \/ (sent'[s][d] = 1 /\ Taken(s, d, N, later, ReadTo(s, N, a))')
    <3>1. SUFFICES ASSUME s \notin torn
                   PROVE  sent'[s][d] = 0 \/ (sent'[s][d] = 1 /\ Taken(s, d, N, later, g)')
      BY <1>2, <2>2 DEF Taken, Reached
    <3>2. sent[s][d] = 0 \/ (sent[s][d] = 1 /\ Taken(s, d, N, later, e))
      BY <1>1, <2>2, <3>1 DEF OnceInv
    <3>3. e <= g \/ s # set
      BY <1>13, <1>14, <2>3
    <3>4. PICK v, w : v = sent[s][d] /\ w = sent'[s][d]
      OBVIOUS
    <3>5. \/ w = v
          \/ /\ w = v + 1 /\ s = set /\ e < d /\ d <= g
             /\ Falls(DocumentSets[s].docs, N, partitions, d)
      <4>1. w = IF s = set /\ from < d /\ d <= from + t THEN v + 1 ELSE v
        BY <1>11, <1>14, <3>4 DEF UpBetween
      <4>2. ASSUME s = set, from < d, d <= from + t
            PROVE  e < d /\ d <= g /\ Falls(DocumentSets[s].docs, N, partitions, d)
        <5>1. from = x + c
          BY <1>11, <1>14, <3>1, <4>2
        <5>2. e < d /\ d <= g /\ x < d /\ d <= y
          BY <1>13, <1>14, <2>1, <2>3, <4>2, <5>1
        <5>3. QED BY <1>15, <2>1, <4>2, <5>2
      <4>3. QED BY <4>1, <4>2
    <3>6. QED BY <1>2, <1>3, <1>5, <3>2, <3>3, <3>4, <3>5, OneMoreOnce
  <2>5. issued'[s][d] = 0
        \/ (issued'[s][d] = 1 /\ Taken(s, d, N, later, IssuedTo(s, N, a))')
    <3>1. SUFFICES issued'[s][d] = 0 \/ (issued'[s][d] = 1 /\ Taken(s, d, N, later, j)')
      BY <2>2 DEF Taken, Reached
    <3>2. issued[s][d] = 0 \/ (issued[s][d] = 1 /\ Taken(s, d, N, later, i))
      BY <1>1, <2>2 DEF OnceInv
    <3>3. i <= j \/ s # set
      BY <1>5, <1>9, <1>12, <1>13, <2>3
    <3>4. PICK v, w : v = issued[s][d] /\ w = issued'[s][d]
      OBVIOUS
    <3>5. \/ w = v
          \/ /\ w = v + 1 /\ s = set /\ i < d /\ d <= j
             /\ Falls(DocumentSets[s].docs, N, partitions, d)
      <4>1. w = IF s = set /\ x + id_up_to < d /\ d <= x + id_up_to + more THEN v + 1 ELSE v
        BY <1>12, <3>4 DEF UpBetween
      <4>2. ASSUME s = set, x + id_up_to < d, d <= x + id_up_to + more
            PROVE  i < d /\ d <= j /\ Falls(DocumentSets[s].docs, N, partitions, d)
        <5>1. i < d /\ d <= j
          BY <2>3, <4>2
        <5>2. more \in Nat /\ more > 0
          BY <1>5, <1>9, <1>12, <1>13, <2>1, <4>2
        <5>3. x < d /\ d <= y
          BY <1>5, <1>13, <1>16, <2>1, <4>2, <5>2
        <5>4. QED BY <1>15, <2>1, <4>2, <5>1, <5>3
      <4>3. QED BY <4>1, <4>2
    <3>6. QED BY <1>2, <1>3, <1>5, <3>2, <3>3, <3>4, <3>5, OneMoreOnce
  <2>6. Sound(s)' /\ IngestPercentage = 100 /\ sent'[s][d] = 0 =>
            Missing(s, d, N, later, ReadTo(s, N, a))'
    <3>1. SUFFICES ASSUME Sound(s), IngestPercentage = 100, sent'[s][d] = 0
                   PROVE  Missing(s, d, N, later, ReadTo(s, N, a))'
      BY <1>2 DEF Sound, Verified
    <3>2. sent'[s][d] = IF s = set /\ from < d /\ d <= from + t THEN sent[s][d] + 1
                        ELSE sent[s][d]
      BY <1>11, <1>14 DEF UpBetween
    <3>3. s \notin torn
      BY <3>1 DEF Sound
    <3>4. sent[s][d] = 0 /\ ~(s = set /\ from < d /\ d <= from + t)
      <4>1. sent[s][d] = 0 \/ sent[s][d] = 1
        BY <1>1, <3>3 DEF OnceInv
      <4>2. QED BY <3>1, <3>2, <4>1
    <3>5. Missing(s, d, N, later, e)
      BY <1>1, <2>2, <3>1, <3>4 DEF OnceInv
    <3>6. CASE Falls(DocumentSets[s].docs, N, later, d)
      BY <3>6 DEF Missing
    <3>7. CASE Falls(DocumentSets[s].docs, N, partitions, d) /\ ~Reached(s, d, e)
      <4>1. ~(s < set) /\ ~(s = set /\ d <= e)
        BY <3>7 DEF Reached
      <4>2. ~(s = set /\ d <= g)
        <5>1. SUFFICES ASSUME s = set, d <= g PROVE FALSE
          OBVIOUS
        <5>2. from = x + c /\ c + t = r
          BY <1>11, <1>14, <3>1, <3>3, <5>1
        <5>3. QED BY <1>13, <1>14, <2>1, <2>3, <3>4, <4>1, <5>1, <5>2
      <4>3. ~Reached(s, d, g)'
        BY <1>2, <4>1, <4>2 DEF Reached
      <4>4. QED BY <1>2, <2>2, <3>7, <4>3 DEF Missing, Reached
    <3>8. QED BY <3>5, <3>6, <3>7 DEF Missing
  <2>7. QED BY <2>4, <2>5, <2>6
<1>20. OnceInv(N, later, a)'
  BY <1>19 DEF OnceInv
<1>21. Open(N, later, a, b)'
  <2>1. \E u, k : Counted(a, b, N, u, k)'
    BY <1>1, <1>2, <1>5, <1>6, <1>7, <1>10, BulkCounted
  <2>2. current_line' \in Nat /\ id_up_to' \in Nat /\ id_up_to' <= current_line'
        /\ current_bulk' \in Nat
    BY <1>2, <1>5, <1>9, <1>10, <1>12
  <2>3. current_line' <= Bounds(set, a, b, N).lines
    <3>1. Bounds(set, a, b, N).lines = (y - x) * L
      BY <1>6, <1>8 DEF ReadsNext, Sliced
    <3>2. QED BY <1>9, <1>10, <3>1
  <2>4. set' \in 1..(Len(DocumentSets) + 1)
    BY <1>2, <1>4, <1>5
  <2>5. QED BY <1>2, <1>5, <2>1, <2>2, <2>3, <2>4 DEF Open
<1>22. QED BY <1>10, <1>20, <1>21 DEF OnceAndOpen

\* The source of the clients in S is opened; those in rest read later.
LEMMA OpenSourceStep ==
    ASSUME NEW N, Settled(N), NEW later, NEW rest, NEW S, OnceAndOpen(N, later), OpenSource(S),
           S \subseteq 0..(N - 1), S # {}, Convex(S), S \intersect rest = {},
           later = rest \union S, UNCHANGED files
    PROVE  OnceAndOpen(N, rest)'
<1>1. PICK z : OnceInv(N, later, z)
  BY DEF OnceAndOpen
<1>2. /\ partitions = {} /\ partitions' = S /\ current_bulk' = 0 /\ set' = 1
      /\ current_line' = 0 /\ id_up_to' = 0 /\ UNCHANGED <<sent, issued>>
      /\ UNCHANGED <<file, torn, counted>>
  BY DEF OpenSource, files
<1>3. N \in Nat \ {0} /\ FilesInv /\ TablesTyped /\ AllPrepared
  BY DEF Settled
<1>4. PICK a \in 0..(N - 1), b \in 0..(N - 1) : a <= b /\ S = a..b
  <2>1. N \in Nat
    BY <1>3
  <2>2. QED BY <2>1, RangeOfConvex
<1>5. PICK n \in Nat : n = Len(DocumentSets) /\ DOMAIN DocumentSets = 1..n
  <2>1. PICK Q : DocumentSets \in Seq(Q)
    BY FilesAssumption
  <2>2. QED BY <2>1
<1>6. ASSUME NEW s \in DOMAIN DocumentSets, NEW d \in 1..DocumentSets[s].docs
      PROVE  /\ s \notin torn' =>
                   sent'[s][d] = 0 \/ (sent'[s][d] = 1 /\ Taken(s, d, N, rest, ReadTo(s, N, a))')
             /\ issued'[s][d] = 0
                \/ (issued'[s][d] = 1 /\ Taken(s, d, N, rest, IssuedTo(s, N, a))')
             /\ Sound(s)' /\ IngestPercentage = 100 /\ sent'[s][d] = 0 =>
                   Missing(s, d, N, rest, ReadTo(s, N, a))'
  <2>1. Falls(DocumentSets[s].docs, N, later, d)
           <=> Falls(DocumentSets[s].docs, N, rest, d) \/ Falls(DocumentSets[s].docs, N, S, d)
    BY DEF Falls
  <2>2. ASSUME NEW e, Taken(s, d, N, later, e)
        PROVE  Taken(s, d, N, rest, ReadTo(s, N, a))' /\ Taken(s, d, N, rest, IssuedTo(s, N, a))'
    BY <1>2, <2>1, <2>2 DEF Taken
  <2>3. Sound(s)' = Sound(s)
    BY <1>2 DEF Sound, Verified
  <2>4. s \notin torn => sent[s][d] = 0
            \/ (sent[s][d] = 1 /\ Taken(s, d, N, later, ReadTo(s, N, z)))
    BY <1>1 DEF OnceInv
  <2>5. issued[s][d] = 0 \/ (issued[s][d] = 1 /\ Taken(s, d, N, later, IssuedTo(s, N, z)))
    BY <1>1 DEF OnceInv
  <2>6. Sound(s) /\ IngestPercentage = 100 /\ sent[s][d] = 0 =>
            Missing(s, d, N, rest, ReadTo(s, N, a))'
    <3>1. SUFFICES ASSUME Sound(s), IngestPercentage = 100, sent[s][d] = 0
                   PROVE  Missing(s, d, N, rest, ReadTo(s, N, a))'
      OBVIOUS
    <3>2. Missing(s, d, N, later, ReadTo(s, N, z))
      BY <1>1, <3>1 DEF OnceInv
    <3>3. ~Falls(DocumentSets[s].docs, N, partitions, d)
      BY <1>2 DEF Falls
    <3>4. CASE Falls(DocumentSets[s].docs, N, rest, d)
      BY <3>4 DEF Missing
    <3>5. CASE Falls(DocumentSets[s].docs, N, S, d)
      <4>1. PICK v, w : Sliced(s, a, b, N, v, w)
        BY <1>3, <1>4, SliceOfSet
      <4>2. v \in Nat /\ v < d /\ v = Edge(DocumentSets[s].docs, N, a)
        <5>1. d \in Nat
          OBVIOUS
        <5>2. QED BY <1>4, <3>5, <4>1, <5>1 DEF Sliced
      <4>3. ReadTo(s, N, a)' = v
        <5>1. ReadTo(s, N, a)' = v + (0 \div LinesPerDoc(s))
          BY <1>2, <4>2 DEF ReadTo
        <5>2. LinesPerDoc(s) = 1 \/ LinesPerDoc(s) = 2
          BY DocsOfSet
        <5>3. 0 \div LinesPerDoc(s) = 0
          BY ONLY <5>2
        <5>4. QED BY ONLY <4>2, <5>1, <5>3
      <4>4. ~Reached(s, d, ReadTo(s, N, a))'
        <5>1. ~(s < set')
          BY <1>2, <1>5
        <5>2. ~(d <= ReadTo(s, N, a)')
          BY <4>2, <4>3
        <5>3. QED BY <5>1, <5>2 DEF Reached
      <4>5. QED BY <1>2, <3>5, <4>4 DEF Missing
    <3>6. QED BY <2>1, <3>2, <3>3, <3>4, <3>5 DEF Missing
  <2>7. QED BY <1>2, <2>2, <2>3, <2>4, <2>5, <2>6
<1>7. OnceInv(N, rest, a)'
  BY <1>6 DEF OnceInv
<1>8. Open(N, rest, a, b)'
  <2>1. ASSUME set' \in DOMAIN DocumentSets
        PROVE  current_line' <= Bounds(set', a, b, N).lines /\ \E u, k : Counted(a, b, N, u, k)'
    <3>1. PICK v, w : Sliced(set', a, b, N, v, w)
      BY <1>3, <1>4, <2>1, SliceOfSet
    <3>2. LinesPerDoc(set') \in {1, 2} /\ v \in Nat /\ w \in Nat /\ v <= w
          /\ Bounds(set', a, b, N).lines = (w - v) * LinesPerDoc(set')
      BY <2>1, <3>1, DocsOfSet DEF Sliced
    <3>3. 0 <= Bounds(set', a, b, N).lines
      <4>1. PICK q \in Nat, L \in {1, 2} : q = w - v /\ L = LinesPerDoc(set')
        <5>1. w - v \in Nat
          BY <3>2
        <5>2. QED BY <3>2, <5>1
      <4>2. 0 <= q * L
        OBVIOUS
      <4>3. QED BY <3>2, <4>1, <4>2
    <3>4. PICK u : /\ Partial(u, BulksOfSets(a, b, N))
                   /\ Len(BulksOfSets(a, b, N)) = Len(DocumentSets)
                   /\ Total(a, b, N) = u[Len(DocumentSets)]
      BY <1>3, <1>4, BulksAddUp
    <3>5. PICK c : c = BulksOfSets(a, b, N)
      OBVIOUS
    <3>6. u[0] = 0 /\ c[1] \in Nat
      <4>1. 1 \in 1..Len(c) /\ c \in Seq(Nat) /\ u[0] = 0
        BY <1>2, <1>5, <2>1, <3>4, <3>5 DEF Partial
      <4>2. QED BY ONLY <4>1
    <3>7. (0 * BulkSize) * LinesPerDoc(set') = 0
      BY <3>2, BulkAssumption
    <3>8. u[set' - 1] = 0
      BY <1>2, <3>6
    <3>9. Counted(a, b, N, u, 0)'
      BY <1>2, <3>4, <3>5, <3>6, <3>7, <3>8 DEF Counted
    <3>10. QED BY <1>2, <3>3, <3>9
  <2>2. set' \in 1..(Len(DocumentSets) + 1)
    BY <1>2, <1>5
  <2>3. QED BY <1>2, <1>4, <2>1, <2>2 DEF Open
<1>9. QED BY <1>7, <1>8 DEF OnceAndOpen

\* Before a task is chosen.
NothingRead ==
    /\ todo = {} /\ partitions = {}
    /\ \A s \in DOMAIN DocumentSets : \A d \in 1..DocumentSets[s].docs :
           sent[s][d] = 0 /\ issued[s][d] = 0

LEMMA NothingReadYet ==
    ASSUME NothingRead, NEW N \in Nat \ {0}, NEW later, 0..(N - 1) \subseteq later
    PROVE  OnceAndOpen(N, later)
<1>1. ASSUME NEW s \in DOMAIN DocumentSets, NEW d \in 1..DocumentSets[s].docs
      PROVE  Falls(DocumentSets[s].docs, N, later, d)
  <2>1. \E k \in 0..(N - 1) : Falls(DocumentSets[s].docs, N, {k}, d)
    BY DocsOfSet, FallsToSome
  <2>2. QED BY <2>1 DEF Falls
<1>2. OnceInv(N, later, 0)
  BY <1>1 DEF NothingRead, OnceInv, Missing
<1>3. QED BY <1>2 DEF OnceAndOpen, NothingRead

\* The clients whose sources are still to be opened.
Later == UNION {PartOf(x, bulk_task.name) : x \in todo}

OfSchedule(t) == \E i \in DOMAIN schedule : \E j \in DOMAIN schedule[i].tasks :
                     t = schedule[i].tasks[j]

ReadInv ==
    /\ Histories
    /\ IF bulk_task = NoTask THEN NothingRead
       ELSE /\ AllAssigned /\ OfSchedule(bulk_task)
            /\ todo \subseteq Columns /\ \A x \in todo : PartOf(x, bulk_task.name) # {}
            /\ \E N, later : /\ N = bulk_task.clients /\ later = Later
                            /\ OnceAndOpen(N, later)

\* What holds of the parts of the system that come first.
FirstInv == /\ FilesInv /\ TablesTyped /\ PreparedFirst
            /\ MatrixInv /\ OrderInv /\ RowsInv /\ WholeMatrix

LEMMA ChosenTask ==
    ASSUME FirstInv, AllAssigned, NEW t, OfSchedule(t)
    PROVE  SharedOut(t.name, t.clients) /\ Settled(t.clients)
<1>1. PICK i \in DOMAIN schedule : \E j \in DOMAIN schedule[i].tasks : t = schedule[i].tasks[j]
  BY DEF OfSchedule
<1>0. PICK j \in DOMAIN schedule[i].tasks : t = schedule[i].tasks[j]
  BY <1>1
<1>2. SharedOut(t.name, t.clients)
  <2>1. SharedOut(schedule[i].tasks[j].name, schedule[i].tasks[j].clients)
    BY TaskSharedOut DEF FirstInv
  <2>2. QED BY <1>0, <2>1
<1>3. pc = "assign"
  BY DEF FirstInv, RowsInv, BeforeAssignment, AllAssigned
<1>4. QED BY <1>2, <1>3 DEF FirstInv, PreparedFirst, Settled, SharedOut

\* Once all are assigned, files, matrix and assignment stay.
LEMMA NothingBefore ==
    ASSUME FirstInv, AllAssigned, [IngestionNext]_all
    PROVE  /\ UNCHANGED <<vars, assignment>> /\ UNCHANGED files
           /\ ~PrepareFiles /\ ~Allocate /\ ~StartAssign /\ ~Assign
<1>1. pc = "assign"
  BY DEF FirstInv, RowsInv, BeforeAssignment, AllAssigned
<1>2. AllPrepared
  BY <1>1 DEF FirstInv, PreparedFirst
<1>3. UNCHANGED files
  BY <1>2, PreparedFirstStep DEF FirstInv
<1>4. ~PrepareFiles
  BY <1>2 DEF PrepareFiles, Prepare, Look, Download, DownloadParts, Concatenate, OpenArchive,
     Extract, TableValid, DownloadTable, OpenTable, CountLines, PreparationFails, Killed,
     StartAgain, At
<1>5. ~Allocate
  BY <1>1 DEF Allocate, Next, FilterTasks, StartBenchmark, AllocateClient, NextSubTask,
     FinishElement, Return, Allocating
<1>6. ~StartAssign
  BY <1>1 DEF StartAssign
<1>7. ~Assign
  <2>1. ~(Len(assignments) < HostCount)
    <3>1. Len(assignments) = HostCount
      BY DEF AllAssigned
    <3>2. HostCount \in Int
      BY HostAssumption DEF FirstInv, RowsInv, AssignInv, HostCount
    <3>3. QED BY <3>1, <3>2
  <2>2. QED BY <2>1 DEF Assign, AssignHost
<1>8. UNCHANGED <<vars, assignment>>
  BY <1>4, <1>5, <1>6, <1>7 DEF IngestionNext, ChooseBulkTask, StartColumn, Read, all
<1>9. QED BY <1>3, <1>4, <1>5, <1>6, <1>7, <1>8

LEMMA SamePlaces ==
    ASSUME UNCHANGED <<vars, assignment>>
    PROVE  /\ Columns' = Columns /\ (AllAssigned' <=> AllAssigned)
           /\ \A t : OfSchedule(t)' <=> OfSchedule(t)
           /\ \A x, name : PartOf(x, name)' = PartOf(x, name)
<1>1. /\ UNCHANGED schedule /\ UNCHANGED allocations /\ UNCHANGED assignments
      /\ UNCHANGED client_count /\ UNCHANGED cores
  BY DEF vars, assignment, loop
<1>2. Columns' = Columns
  BY <1>1 DEF Columns, Workers, RowCount
<1>3. AllAssigned' <=> AllAssigned
  BY <1>1 DEF AllAssigned, HostCount
<1>4. \A t : OfSchedule(t)' <=> OfSchedule(t)
  BY <1>1 DEF OfSchedule
<1>5. \A x, name : PartOf(x, name)' = PartOf(x, name)
  BY <1>1 DEF PartOf, Partitions, ClientsOfWorker
<1>6. QED BY <1>2, <1>3, <1>4, <1>5

\* The clients that read later, when the matrix and the assignment stay.
LEMMA LaterStays ==
    ASSUME UNCHANGED <<vars, assignment>>, NEW name, name = bulk_task'.name, NEW T, T = todo'
    PROVE  Later' = UNION {PartOf(x, name) : x \in T}
<1>1. \A k : (k \in Later)' <=> \E x \in T : (k \in PartOf(x, bulk_task.name))'
  BY DEF Later
<1>2. \A x : PartOf(x, bulk_task.name)' = PartOf(x, name)'
  BY DEF PartOf, Partitions
<1>3. \A x : PartOf(x, name)' = PartOf(x, name)
  BY SamePlaces
<1>4. \A k : (k \in Later)' <=> k \in UNION {PartOf(x, name) : x \in T}
  BY <1>1, <1>2, <1>3
<1>5. QED BY <1>4

\* The workers find the task that is chosen in the columns, and read next.
LEMMA ChooseBulkTaskStep ==
    ASSUME FirstInv, ReadInv, ChooseBulkTask
    PROVE  ReadInv'
<1>1. PICK i \in DOMAIN schedule : \E j \in DOMAIN schedule[i].tasks :
          /\ bulk_task' = schedule[i].tasks[j]
          /\ todo' = {x \in Workers \X (1..RowCount) :
                         Partitions(x[1], x[2], schedule[i].tasks[j].name) # {}}
  BY DEF ChooseBulkTask
<1>2. PICK j \in DOMAIN schedule[i].tasks :
          /\ bulk_task' = schedule[i].tasks[j]
          /\ todo' = {x \in Workers \X (1..RowCount) :
                         Partitions(x[1], x[2], schedule[i].tasks[j].name) # {}}
  BY <1>1
<1>3. PICK t : t = schedule[i].tasks[j]
  OBVIOUS
<1>4. /\ AllAssigned /\ bulk_task = NoTask /\ UNCHANGED files /\ UNCHANGED <<vars, assignment>>
      /\ UNCHANGED bulks
  BY DEF ChooseBulkTask
<1>5. OfSchedule(t) /\ bulk_task' = t
  BY <1>2, <1>3 DEF OfSchedule
<1>6. PICK name, N : name = t.name /\ N = t.clients
  OBVIOUS
<1>7. SharedOut(name, N) /\ N \in Nat \ {0}
  <2>1. SharedOut(t.name, t.clients)
    BY <1>4, <1>5, ChosenTask
  <2>2. QED BY <1>6, <2>1 DEF SharedOut
<1>8. t # NoTask
  BY <1>6, <1>7 DEF NoTask
<1>9. todo' = {x \in Columns : PartOf(x, name) # {}}
  BY <1>2, <1>3, <1>6 DEF Columns, PartOf
<1>10. /\ Columns' = Columns /\ AllAssigned' /\ OfSchedule(t)'
       /\ \A x : PartOf(x, name)' = PartOf(x, name)
  BY <1>4, <1>5, SamePlaces
<1>11. PICK T : T = {x \in Columns : PartOf(x, name) # {}}
  OBVIOUS
<1>12. Later' = UNION {PartOf(x, name) : x \in T}
  <2>1. bulk_task'.name = name /\ todo' = T
    BY <1>5, <1>6, <1>9, <1>11
  <2>2. QED BY <1>4, <2>1, LaterStays
<1>13. PICK later : later = UNION {PartOf(x, name) : x \in T}
  OBVIOUS
<1>14. 0..(N - 1) \subseteq later
  <2>1. ASSUME NEW k \in 0..(N - 1) PROVE k \in later
    <3>1. PICK x \in Columns : k \in PartOf(x, name)
      BY <1>7 DEF SharedOut
    <3>2. x \in T
      BY <1>11, <3>1
    <3>3. QED BY <1>13, <3>1, <3>2
  <2>2. QED BY <2>1
<1>15. NothingRead /\ Histories
  BY <1>4 DEF ReadInv
<1>16. OnceAndOpen(N, later)
  BY <1>7, <1>14, <1>15, NothingReadYet
<1>17. OnceAndOpen(N, later)'
  <2>1. PICK a : OnceInv(N, later, a)
    BY <1>16 DEF OnceAndOpen
  <2>2. /\ UNCHANGED partitions /\ UNCHANGED set /\ UNCHANGED current_line /\ UNCHANGED id_up_to
        /\ UNCHANGED sent /\ UNCHANGED issued /\ UNCHANGED torn /\ UNCHANGED counted
    BY <1>4 DEF bulks, files
  <2>3. OnceInv(N, later, a)'
    BY <2>1, <2>2 DEF OnceInv, Taken, Missing, Reached, ReadTo, IssuedTo, Sound, Verified
  <2>4. partitions' = {}
    BY <1>15, <2>2 DEF NothingRead
  <2>5. QED BY <2>3, <2>4 DEF OnceAndOpen
<1>18. Histories'
  BY <1>4, <1>15 DEF Histories, bulks
<1>19. bulk_task' # NoTask' /\ bulk_task'.clients = N /\ bulk_task'.name = name
  BY <1>5, <1>6, <1>8 DEF NoTask
<1>20. \E n, l : /\ n = bulk_task'.clients /\ l = Later' /\ OnceAndOpen(n, l)'
  <2>1. Later' = later
    BY <1>12, <1>13
  <2>2. QED BY <1>17, <1>19, <2>1
<1>21. /\ todo' \subseteq Columns' /\ OfSchedule(bulk_task)'
       /\ \A x \in todo' : PartOf(x, bulk_task.name)' # {}
  <2>1. OfSchedule(bulk_task)'
    BY <1>5, <1>10 DEF OfSchedule
  <2>2. \A x : PartOf(x, bulk_task.name)' = PartOf(x, name)
    BY <1>10, <1>19 DEF PartOf, Partitions
  <2>3. \A x \in todo' : x \in Columns /\ PartOf(x, name) # {}
    BY <1>9
  <2>4. QED BY <1>10, <2>1, <2>2, <2>3
<1>22. QED BY <1>10, <1>18, <1>19, <1>20, <1>21 DEF ReadInv

\* A worker opens the source of a column, or reads on.
LEMMA SourceStep ==
    ASSUME FirstInv, ReadInv, bulk_task # NoTask, StartColumn \/ Read
    PROVE  ReadInv'
<1>1. PICK t : t = bulk_task
  OBVIOUS
<1>2. /\ AllAssigned /\ OfSchedule(t) /\ todo \subseteq Columns /\ Histories
      /\ \A x \in todo : PartOf(x, t.name) # {}
  BY <1>1 DEF ReadInv
<1>3. PICK name, N : name = t.name /\ N = t.clients
  OBVIOUS
<1>4. SharedOut(name, N) /\ Settled(N) /\ N \in Nat \ {0}
  BY <1>2, <1>3, ChosenTask DEF SharedOut
<1>5. PICK later : later = Later /\ OnceAndOpen(N, later)
  BY <1>1, <1>3 DEF ReadInv
<1>6. UNCHANGED files /\ UNCHANGED <<vars, assignment>> /\ bulk_task' = t
  BY <1>1 DEF StartColumn, Read
<1>7. later = UNION {PartOf(x, name) : x \in todo}
  BY <1>1, <1>3, <1>5 DEF Later
<1>8. /\ Columns' = Columns /\ AllAssigned' /\ OfSchedule(t)'
      /\ \A x : PartOf(x, name)' = PartOf(x, name)
  BY <1>2, <1>6, SamePlaces
<1>9. todo' \subseteq todo /\ Histories'
      /\ \E T, l : T = todo' /\ l = UNION {PartOf(x, name) : x \in T} /\ OnceAndOpen(N, l)'
  <2>1. CASE StartColumn
    <3>1. PICK next : next = CHOOSE x \in todo : TRUE
      OBVIOUS
    <3>2. next \in todo /\ todo' = todo \ {next}
      BY <2>1, <3>1 DEF StartColumn
    <3>3. PICK S : S = PartOf(next, name)
      OBVIOUS
    <3>4. OpenSource(S)
      <4>1. OpenSource(Partitions(next[1], next[2], bulk_task.name))
        BY <2>1, <3>1 DEF StartColumn
      <4>2. QED BY <1>1, <1>3, <3>3, <4>1 DEF PartOf
    <3>5. PICK T, rest : T = todo \ {next} /\ rest = UNION {PartOf(x, name) : x \in T}
      OBVIOUS
    <3>6. next \in Columns
      BY <1>2, <3>2
    <3>7. S \subseteq 0..(N - 1) /\ Convex(S) /\ S # {}
      BY <1>2, <1>3, <1>4, <3>2, <3>3, <3>6 DEF SharedOut
    <3>8. S \intersect rest = {}
      <4>1. ASSUME NEW k \in S, k \in rest PROVE FALSE
        <5>1. PICK x \in T : k \in PartOf(x, name)
          BY <3>5, <4>1
        <5>2. x \in Columns /\ x # next
          BY <1>2, <3>5, <5>1
        <5>3. PartOf(next, name) \intersect PartOf(x, name) # {}
          BY <3>3, <4>1, <5>1
        <5>4. QED BY <1>4, <3>6, <5>2, <5>3 DEF SharedOut
      <4>2. QED BY <4>1
    <3>9. later = rest \union S
      BY <1>7, <3>2, <3>3, <3>5
    <3>10. OnceAndOpen(N, rest)'
      BY <1>4, <1>5, <1>6, <3>4, <3>7, <3>8, <3>9, OpenSourceStep
    <3>11. Histories'
      BY <1>2, <3>4 DEF Histories, OpenSource
    <3>12. T = todo' /\ todo' \subseteq todo
      BY <3>2, <3>5
    <3>13. QED BY <3>5, <3>10, <3>11, <3>12
  <2>2. CASE Read
    <3>1. todo' = todo
      BY <2>2 DEF Read
    <3>2. later \in SUBSET Nat
      <4>1. \A x \in todo : PartOf(x, name) \subseteq 0..(N - 1)
        BY <1>2, <1>4 DEF SharedOut
      <4>2. QED BY <1>4, <1>7, <4>1
    <3>3. OnceAndOpen(N, later)' /\ Histories'
      <4>1. NextReader(N) \/ NextBulk(N) \/ CloseSource(N)
        BY <1>1, <1>3, <2>2 DEF Read
      <4>2. CASE NextBulk(N)
        BY <1>2, <1>4, <1>5, <1>6, <3>2, <4>2, NextBulkStep
      <4>3. CASE NextReader(N)
        <5>1. OnceAndOpen(N, later)'
          BY <1>4, <1>5, <1>6, <4>3, NextReaderStep
        <5>2. QED BY <1>2, <4>3, <5>1 DEF Histories, NextReader
      <4>4. CASE CloseSource(N)
        <5>1. OnceAndOpen(N, later)'
          BY <1>4, <1>5, <1>6, <4>4, CloseSourceStep
        <5>2. QED BY <1>2, <4>4, <5>1 DEF Histories, CloseSource
      <4>5. QED BY <4>1, <4>2, <4>3, <4>4
    <3>4. QED BY <1>7, <3>1, <3>3
  <2>3. QED BY <2>1, <2>2
<1>10. \E n, l : n = bulk_task'.clients /\ l = Later' /\ OnceAndOpen(n, l)'
  <2>1. PICK T, l : T = todo' /\ l = UNION {PartOf(x, name) : x \in T} /\ OnceAndOpen(N, l)'
    BY <1>9
  <2>2. Later' = l
    <3>1. name = bulk_task'.name
      BY <1>3, <1>6
    <3>2. QED BY <1>6, <2>1, <3>1, LaterStays
  <2>3. QED BY <1>3, <1>6, <2>1, <2>2
<1>11. /\ todo' \subseteq Columns' /\ OfSchedule(bulk_task)'
       /\ \A x \in todo' : PartOf(x, bulk_task.name)' # {}
  <2>1. OfSchedule(bulk_task)'
    BY <1>6, <1>8 DEF OfSchedule
  <2>2. \A x : PartOf(x, bulk_task.name)' = PartOf(x, name)
    BY <1>3, <1>6, <1>8 DEF PartOf, Partitions
  <2>3. QED BY <1>2, <1>3, <1>8, <1>9, <2>1, <2>2
<1>12. bulk_task' # NoTask'
  BY <1>1, <1>6 DEF NoTask
<1>13. QED BY <1>8, <1>9, <1>10, <1>11, <1>12 DEF ReadInv

LEMMA ReadInvStep ==
    ASSUME FirstInv, ReadInv, [IngestionNext]_all
    PROVE  ReadInv'
<1>1. CASE bulk_task = NoTask
  <2>1. NothingRead /\ Histories
    BY <1>1 DEF ReadInv
  <2>2. ~StartColumn /\ ~Read
    BY <2>1 DEF NothingRead, StartColumn, Read, NextReader, NextBulk, CloseSource, Reading
  <2>3. ASSUME UNCHANGED <<bulks, bulk_task, todo>> PROVE ReadInv'
    BY <1>1, <2>1, <2>3 DEF ReadInv, NothingRead, Histories, bulks, NoTask
  <2>4. QED BY <2>2, <2>3, ChooseBulkTaskStep DEF IngestionNext, PrepareFiles, Allocate, StartAssign,
           Assign, all
<1>2. CASE bulk_task # NoTask
  <2>1. AllAssigned /\ OfSchedule(bulk_task)
    BY <1>2 DEF ReadInv
  <2>2. UNCHANGED <<vars, assignment>> /\ UNCHANGED files
        /\ ~PrepareFiles /\ ~Allocate /\ ~StartAssign /\ ~Assign
    BY <2>1, NothingBefore
  <2>3. ~ChooseBulkTask
    BY <1>2 DEF ChooseBulkTask
  <2>4. CASE StartColumn \/ Read
    BY <1>2, <2>4, SourceStep
  <2>5. CASE UNCHANGED all
    <3>1. Histories /\ Histories'
      BY <2>5 DEF ReadInv, Histories, all, bulks
    <3>2. PICK N, later : N = bulk_task.clients /\ later = Later /\ OnceAndOpen(N, later)
      BY <1>2 DEF ReadInv
    <3>3. OnceAndOpen(N, later)'
      <4>1. PICK a, b : OnceInv(N, later, a) /\ (partitions # {} => Open(N, later, a, b))
        BY <3>2 DEF OnceAndOpen
      <4>2. /\ UNCHANGED partitions /\ UNCHANGED set /\ UNCHANGED current_line /\ UNCHANGED id_up_to
            /\ UNCHANGED sent /\ UNCHANGED issued /\ UNCHANGED torn /\ UNCHANGED counted
            /\ UNCHANGED file /\ UNCHANGED current_bulk
        BY <2>5 DEF all, bulks, files
      <4>3. OnceInv(N, later, a)'
        BY <4>1, <4>2 DEF OnceInv, Taken, Missing, Reached, ReadTo, IssuedTo, Sound, Verified
      <4>4. \A u, k : Counted(a, b, N, u, k)' <=> Counted(a, b, N, u, k)
        BY <4>2 DEF Counted, Exhausted, SkipLines, ClosestOffset
      <4>5. partitions' # {} => Open(N, later, a, b)'
        BY <4>1, <4>2, <4>4 DEF Open
      <4>6. QED BY <4>3, <4>5 DEF OnceAndOpen
    <3>4. Later' = later
      <4>1. PICK name, T : name = bulk_task'.name /\ T = todo'
        OBVIOUS
      <4>2. Later' = UNION {PartOf(x, name) : x \in T}
        BY <2>2, <4>1, LaterStays
      <4>3. name = bulk_task.name /\ T = todo
        BY <2>5, <4>1 DEF all
      <4>4. QED BY <3>2, <4>2, <4>3 DEF Later
    <3>5. /\ todo' \subseteq Columns' /\ OfSchedule(bulk_task)' /\ AllAssigned'
          /\ \A x \in todo' : PartOf(x, bulk_task.name)' # {}
      <4>1. PICK t : t = bulk_task /\ bulk_task' = t /\ todo' = todo
        BY <2>5 DEF all
      <4>2. OfSchedule(t)' /\ AllAssigned' /\ Columns' = Columns
        BY <2>1, <2>2, <4>1, SamePlaces
      <4>3. \A x : PartOf(x, bulk_task.name)' = PartOf(x, t.name)
        <5>1. \A x : PartOf(x, t.name)' = PartOf(x, t.name)
          BY <2>2, SamePlaces
        <5>2. QED BY <4>1, <5>1 DEF PartOf, Partitions
      <4>4. OfSchedule(bulk_task)'
        BY <4>1, <4>2 DEF OfSchedule
      <4>5. QED BY <1>2, <4>1, <4>2, <4>3, <4>4 DEF ReadInv
    <3>6. bulk_task' # NoTask' /\ bulk_task'.clients = N
      BY <1>2, <2>5, <3>2 DEF all, NoTask
    <3>7. QED BY <3>1, <3>3, <3>4, <3>5, <3>6 DEF ReadInv
  <2>6. QED BY <2>2, <2>3, <2>4, <2>5 DEF IngestionNext
<1>3. QED BY <1>1, <1>2

LEMMA ReadOnce ==
    ASSUME ReadInv
    PROVE  DocumentsSentOnce
<1>1. ASSUME NEW s \in DOMAIN DocumentSets, NEW d \in 1..DocumentSets[s].docs
      PROVE  /\ s \notin torn => sent[s][d] \in {0, 1}
             /\ issued[s][d] \in {0, 1}
             /\ Ingested /\ IngestPercentage = 100 /\ Sound(s) => sent[s][d] = 1
  <2>1. CASE bulk_task = NoTask
    BY <2>1 DEF ReadInv, NothingRead, Ingested
  <2>2. CASE bulk_task # NoTask
    <3>1. PICK N, later : N = bulk_task.clients /\ later = Later /\ OnceAndOpen(N, later)
      BY <2>2 DEF ReadInv
    <3>2. PICK a : OnceInv(N, later, a)
      BY <3>1 DEF OnceAndOpen
    <3>3. ASSUME Ingested, IngestPercentage = 100, Sound(s) PROVE sent[s][d] = 1
      <4>1. later = {} /\ partitions = {}
        BY <3>1, <3>3 DEF Later, Ingested
      <4>2. sent[s][d] # 0
        <5>1. SUFFICES ASSUME sent[s][d] = 0 PROVE FALSE
          OBVIOUS
        <5>2. Missing(s, d, N, later, ReadTo(s, N, a))
          BY <3>2, <3>3, <5>1 DEF OnceInv
        <5>3. QED BY <4>1, <5>2 DEF Missing, Falls
      <4>3. s \notin torn
        BY <3>3 DEF Sound
      <4>4. QED BY <3>2, <4>2, <4>3 DEF OnceInv
    <3>4. QED BY <3>2, <3>3 DEF OnceInv
  <2>3. QED BY <2>1, <2>2
<1>2. Histories
  BY DEF ReadInv
<1>3. Counts([s \in (DOMAIN sent) \ torn |-> sent[s]]) \subseteq {0, 1}
  <2>1. ASSUME NEW v \in Counts([s \in (DOMAIN sent) \ torn |-> sent[s]]) PROVE v \in {0, 1}
    <3>1. PICK s \in (DOMAIN sent) \ torn : \E d \in DOMAIN sent[s] : v = sent[s][d]
      BY DEF Counts
    <3>2. QED BY <1>1, <1>2, <3>1 DEF Histories
  <2>2. QED BY <2>1
<1>4. Counts(issued) \subseteq {0, 1}
  <2>1. ASSUME NEW v \in Counts(issued) PROVE v \in {0, 1}
    <3>1. PICK s \in DOMAIN issued : \E d \in DOMAIN issued[s] : v = issued[s][d]
      BY DEF Counts
    <3>2. QED BY <1>1, <1>2, <3>1 DEF Histories
  <2>2. QED BY <2>1
<1>5. ASSUME Ingested, IngestPercentage = 100
      PROVE  Counts([s \in {x \in DOMAIN sent : Sound(x)} |-> sent[s]]) \subseteq {1}
  <2>1. ASSUME NEW v \in Counts([s \in {x \in DOMAIN sent : Sound(x)} |-> sent[s]])
        PROVE  v = 1
    <3>1. PICK s \in {x \in DOMAIN sent : Sound(x)} : \E d \in DOMAIN sent[s] : v = sent[s][d]
      BY DEF Counts
    <3>2. QED BY <1>1, <1>2, <1>5, <3>1 DEF Histories
  <2>2. QED BY <2>1
<1>6. QED BY <1>3, <1>4, <1>5 DEF DocumentsSentOnce

LEMMA FirstInvInit ==
    ASSUME IngestionInit
    PROVE  FirstInv /\ ReadInv
<1>1. FilesInv /\ RowsInv /\ MatrixInv
  BY FilesInvInit, RowsInvInit, MatrixInvInit
<1>2. pc = "filter" /\ bulk_task = NoTask /\ todo = {} /\ partitions = {}
  BY DEF IngestionInit, Init, BulkInit
<1>3. PreparedFirst /\ WholeMatrix /\ OrderInv
  BY <1>2 DEF PreparedFirst, WholeMatrix, OrderInv
<1>4. TablesTyped
  <2>1. \A s \in DOMAIN DocumentSets : file[s].table = NoTable
    <3>1. ASSUME NEW s \in DOMAIN DocumentSets PROVE file[s].table = NoTable
      <4>1. PICK d, a : file[s] = Files(d, a)
        BY DEF IngestionInit, FilesInit
      <4>2. Files(d, a).table = NoTable
        BY DEF Files
      <4>3. QED BY <4>1, <4>2
    <3>2. QED BY <3>1
  <2>2. QED BY <2>1, NoTableTyped DEF TablesTyped
<1>5. /\ sent = [s \in DOMAIN DocumentSets |-> [d \in 1..DocumentSets[s].docs |-> 0]]
      /\ issued = sent
  BY DEF IngestionInit, BulkInit
<1>6. Histories
  BY <1>5 DEF Histories
<1>7. NothingRead
  BY <1>2, <1>5 DEF NothingRead
<1>8. QED BY <1>1, <1>2, <1>3, <1>4, <1>6, <1>7 DEF FirstInv, ReadInv

LEMMA FirstInvStep ==
    ASSUME FirstInv, [IngestionNext]_all
    PROVE  FirstInv'
<1>1. FilesInv' /\ TablesTyped' /\ PreparedFirst'
  BY FilesInvStep, TablesTypedStep, PreparedFirstStep DEF FirstInv
<1>2. MatrixInv' /\ OrderInv' /\ RowsInv' /\ WholeMatrix'
  BY MatrixInvStep, OrderInvStep, RowsInvStep, WholeMatrixStep DEF FirstInv
<1>3. QED BY <1>1, <1>2 DEF FirstInv

\* Whatever the schedule, its filter and override, the hosts, the document sets and what
\* earlier benchmarks left of their files, the bulk size and the percentage: no document
\* of a set whose offset table was not torn is sent twice, no id is issued as fresh twice,
\* and when all sources of the task are exhausted each document of the sets that can be
\* relied on was sent, if all were asked for (AsyncIoAdapter.run,
\* PartitionBulkIndexParamSource, bounds, Slice, number_of_bulks).
THEOREM DocumentsSent == IngestionSpec => []DocumentsSentOnce
<1>1. IngestionInit => FirstInv /\ ReadInv
  BY FirstInvInit
<1>2. FirstInv /\ ReadInv /\ [IngestionNext]_all => FirstInv' /\ ReadInv'
  BY FirstInvStep, ReadInvStep
<1>3. ReadInv => DocumentsSentOnce
  BY ReadOnce
<1>4. QED BY <1>1, <1>2, <1>3, PTL DEF IngestionSpec
=============================================================================
