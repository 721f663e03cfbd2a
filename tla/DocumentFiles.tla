---------------------------- MODULE DocumentFiles ----------------------------
(***************************************************************************)
(* Preparation of the files of document sets (loader.py, net.py, io.py):   *)
(* downloading them, whole or in parts, decompressing archives, and the    *)
(* table of file offsets that lets a client jump into the middle of a      *)
(* file.  Preparation may fail or be killed at any point; the next         *)
(* benchmark starts again from the files it finds.                         *)
(*                                                                         *)
(* A file is the number of lines that are in it, or Absent: what an        *)
(* interrupted step leaves is a beginning of the file.  An archive counts  *)
(* as the lines that can be extracted from it.                             *)
(***************************************************************************)
EXTENDS Integers, Sequences, FiniteSets

CONSTANTS
    DocumentSets,   \* [docs, meta, conflicts]: number of documents, whether action and meta-data lines
                    \* are included, whether ids conflict; [packed, sized, parts, bundled, source_url]:
                    \* compressed, sizes declared, in two parts, beside the workload file, full URL given
    OffsetStride,   \* distance of the entries of an offset table (50000)
    MaxRestarts     \* bound: how often preparation is started again

ASSUME FilesAssumption ==
    /\ DocumentSets \in Seq([docs : Nat, meta : BOOLEAN, conflicts : BOOLEAN, packed : BOOLEAN,
                             sized : BOOLEAN, parts : BOOLEAN, bundled : BOOLEAN, source_url : BOOLEAN])
    /\ OffsetStride \in Nat \ {0}
    /\ MaxRestarts \in Nat

VARIABLES
    file,       \* set -> [doc, archive, table, fresh]: table is the set of its entries <<line, position>>
                \* or NoTable; fresh: not older than the document file
    preparing,  \* the set that is being prepared
    stage,      \* the next step with it
    fetched,    \* history: downloads and decompressions of the set in this benchmark
    counted,    \* history: sets whose lines this benchmark has counted
    torn,       \* history: sets whose table ends in the middle of a line
    restarts

files == <<file, preparing, stage, fetched, counted, torn, restarts>>

Absent == -1

NoTable == {<<Absent, Absent>>}

LinesPerDoc(s) == IF DocumentSets[s].meta THEN 2 ELSE 1

\* Documents.number_of_lines.
NumberOfLines(s) == DocumentSets[s].docs * LinesPerDoc(s)

\* What is left of a file when writing it is interrupted.
Beginnings(s) == {0, NumberOfLines(s) \div 2}

Files(doc, archive) == [doc |-> doc, archive |-> archive, table |-> NoTable, fresh |-> FALSE]

\* A bundled set comes with its archive or its document file, others with none.
FilesInit ==
    /\ file = [s \in DOMAIN DocumentSets |->
                  LET n == NumberOfLines(s) IN
                  IF ~DocumentSets[s].bundled THEN Files(Absent, Absent)
                  ELSE IF DocumentSets[s].packed THEN Files(Absent, n) ELSE Files(n, Absent)]
    /\ preparing = 1
    /\ stage = "look"
    /\ fetched = {}
    /\ counted = {}
    /\ torn = {}
    /\ restarts = 0

Current == DocumentSets[preparing]

AllPrepared == preparing > Len(DocumentSets)

At(st) == ~AllPrepared /\ stage = st

GoTo(st) == stage' = st /\ UNCHANGED preparing

NextSet == preparing' = preparing + 1 /\ stage' = "look"

\* A document file that is written is newer than its table.
Written(f, lines) == [f EXCEPT !.doc = lines, !.fresh = FALSE]

WriteTarget(lines) ==
    file' = [file EXCEPT ![preparing] = IF Current.packed THEN [@ EXCEPT !.archive = lines]
                                                          ELSE Written(@, lines)]

-----------------------------------------------------------------------------
(* prepare_document_set and prepare_bundled_document_set.                    *)

\* Mutant: a file that is there is good.
ExpectedIfPresent(lines) == lines # Absent

\* is_locally_available and has_expected_size.
Expected(lines) == lines # Absent /\ (Current.sized => lines = NumberOfLines(preparing))

Look ==
    LET f == file[preparing] IN
    /\ At("look")
    /\ \/ /\ Expected(f.doc)
          /\ GoTo("table")
       \/ /\ ~Expected(f.doc)
          /\ ~(Current.bundled /\ f.doc # Absent)
          /\ Current.packed /\ Expected(f.archive)
          /\ GoTo("decompress")
       \/ /\ ~Expected(f.doc)
          /\ ~Current.bundled
          /\ ~(Current.packed /\ Expected(f.archive))
          /\ GoTo("download")
       \/ /\ ~Expected(f.doc)
          /\ Current.bundled
          /\ f.doc # Absent \/ ~Expected(f.archive)
          /\ GoTo("failed")
    /\ UNCHANGED <<file, fetched, counted, torn, restarts>>

\* net.download: into a temporary file that is checked and renamed.
Download ==
    /\ At("download") /\ ~Current.parts
    /\ WriteTarget(NumberOfLines(preparing))
    /\ fetched' = fetched \cup {<<"download", Cardinality(fetched)>>}
    /\ GoTo("look")
    /\ UNCHANGED <<counted, torn, restarts>>

\* All parts are there; the target is opened and emptied.
DownloadParts ==
    /\ At("download") /\ Current.parts
    /\ WriteTarget(0)
    /\ fetched' = fetched \cup {<<"download", Cardinality(fetched)>>}
    /\ GoTo("concatenate")
    /\ UNCHANGED <<counted, torn, restarts>>

Concatenate ==
    LET f == file[preparing]
        target == IF Current.packed THEN f.archive ELSE f.doc
        half == NumberOfLines(preparing) \div 2 IN
    /\ At("concatenate")
    /\ \/ target < half /\ WriteTarget(half) /\ GoTo("concatenate")
       \/ target >= half /\ WriteTarget(NumberOfLines(preparing)) /\ GoTo("look")
    /\ UNCHANGED <<fetched, counted, torn, restarts>>

\* io.decompress creates the document file before it reads the archive.
OpenArchive ==
    /\ At("decompress")
    /\ file' = [file EXCEPT ![preparing] = Written(@, 0)]
    /\ GoTo("extract")
    /\ UNCHANGED <<fetched, counted, torn, restarts>>

\* All of it is extracted, which for a truncated archive is an error or not,
\* depending on its format; then the size is checked.
Extract ==
    LET lines == file[preparing].archive IN
    /\ At("extract")
    /\ file' = [file EXCEPT ![preparing] = Written(@, lines)]
    /\ fetched' = fetched \cup {<<"decompress", Cardinality(fetched)>>}
    /\ \/ Expected(lines) /\ GoTo("look")
       \/ lines # NumberOfLines(preparing) /\ GoTo("failed")
    /\ UNCHANGED <<counted, torn, restarts>>

-----------------------------------------------------------------------------
(* prepare_file_offset_table.                                                *)

\* The entries for the first n lines of a file.
TableEntries(n) == {<<k, k>> : k \in {i \in 1 .. n : i % OffsetStride = 0}}

HasTable(f) == f.table # NoTable

\* is_valid: it is there and not older than the document file.
TableValid ==
    /\ At("table")
    /\ HasTable(file[preparing]) /\ file[preparing].fresh
    /\ NextSet
    /\ fetched' = {}
    /\ UNCHANGED <<file, counted, torn, restarts>>

\* A table is offered for download next to the document file.
DownloadTable ==
    /\ At("table")
    /\ ~(HasTable(file[preparing]) /\ file[preparing].fresh)
    /\ ~Current.source_url
    /\ file' = [file EXCEPT ![preparing] =
                   [@ EXCEPT !.table = TableEntries(NumberOfLines(preparing)), !.fresh = TRUE]]
    /\ torn' = torn \ {preparing}
    /\ NextSet
    /\ fetched' = {}
    /\ UNCHANGED <<counted, restarts>>

\* It is not: the table is opened, which empties it.
OpenTable ==
    /\ At("table")
    /\ ~(HasTable(file[preparing]) /\ file[preparing].fresh)
    /\ file' = [file EXCEPT ![preparing] = [@ EXCEPT !.table = {}, !.fresh = TRUE]]
    /\ torn' = torn \ {preparing}
    /\ GoTo("count")
    /\ UNCHANGED <<fetched, counted, restarts>>

\* Every line is read; a wrong number removes the table, but an empty file
\* passes.
CountLines ==
    LET lines == file[preparing].doc IN
    /\ At("count")
    /\ IF lines = 0 \/ lines = NumberOfLines(preparing)
       THEN /\ file' = [file EXCEPT ![preparing].table = TableEntries(lines)]
            /\ counted' = IF lines = 0 THEN counted ELSE counted \cup {preparing}
            /\ NextSet
            /\ fetched' = {}
       ELSE /\ file' = [file EXCEPT ![preparing].table = NoTable]
            /\ GoTo("failed")
            /\ UNCHANGED <<counted, fetched>>
    /\ UNCHANGED <<torn, restarts>>

-----------------------------------------------------------------------------
(* Failures.                                                                 *)

\* What is left of the file that is being written.
Interrupted(f) ==
    CASE stage = "extract" -> {[f EXCEPT !.doc = n] : n \in Beginnings(preparing)}
      [] stage = "count"   -> {[f EXCEPT !.table = TableEntries(n)] :
                                   n \in {k \in 0 .. f.doc : k % OffsetStride = 0}}
      [] OTHER             -> {f}

\* The server does not answer, offline mode forbids to ask, a file cannot be
\* written or read.
PreparationFails ==
    /\ ~AllPrepared /\ stage \notin {"look", "failed"}
    /\ restarts < MaxRestarts
    /\ \E f \in Interrupted(file[preparing]) : file' = [file EXCEPT ![preparing] = f]
    /\ GoTo("failed")
    /\ UNCHANGED <<fetched, counted, torn, restarts>>

\* A position that lost its last digits.
Tear(f) ==
    LET last == CHOOSE e \in f.table : \A x \in f.table : x[1] <= e[1]
    IN  [f EXCEPT !.table = (@ \ {last}) \cup {<<last[1], last[2] \div 10>>}]

\* The next benchmark prepares the files from the start.
Again ==
    /\ restarts < MaxRestarts
    /\ restarts' = restarts + 1
    /\ preparing' = 1
    /\ stage' = "look"
    /\ fetched' = {}
    /\ counted' = {}

Killed ==
    /\ ~AllPrepared /\ stage # "failed"
    /\ Again
    /\ \E f \in Interrupted(file[preparing]) :
           \/ file' = [file EXCEPT ![preparing] = f] /\ UNCHANGED torn
           \/ /\ stage = "count" /\ f.table # {}
              /\ file' = [file EXCEPT ![preparing] = Tear(f)]
              /\ torn' = torn \cup {preparing}

StartAgain ==
    /\ At("failed")
    /\ Again
    /\ UNCHANGED <<file, torn>>

Prepare ==
    \/ Look \/ Download \/ DownloadParts \/ Concatenate \/ OpenArchive \/ Extract
    \/ TableValid \/ DownloadTable \/ OpenTable \/ CountLines
    \/ PreparationFails \/ Killed \/ StartAgain

-----------------------------------------------------------------------------
(* Reading.                                                                  *)

\* find_closest_offset: the last entry at or before line n.
ClosestOffset(s, n) ==
    LET before == {e \in IF HasTable(file[s]) THEN file[s].table ELSE {} : e[1] <= n}
        none   == <<0, 0>>
    IN  CHOOSE e \in before \cup {none} : \A x \in before : x[1] <= e[1]

\* skip_lines: to that entry, then line by line.
SkipLines(s, n) == LET entry == ClosestOffset(s, n) IN entry[2] + (n - entry[1])

-----------------------------------------------------------------------------
(* Properties.                                                               *)

\* The sizes are declared, or the lines were counted by this benchmark.
Verified(s) == DocumentSets[s].sized \/ s \in counted

\* Whatever earlier benchmarks left behind, a set counts as prepared only with
\* its complete document file, if its sizes are declared or its lines were
\* counted, and the offset table leads to the lines it names, unless it was
\* torn (prepare_document_set, FileOffsetTable.is_valid).  The loop of
\* prepare_document_set comes to its end after one download and one
\* decompression.
PreparedIsComplete ==
    /\ \A s \in 1 .. (preparing - 1) :
           /\ Verified(s) => file[s].doc = NumberOfLines(s)
           /\ s \notin torn => HasTable(file[s]) /\ \A e \in file[s].table : e[1] = e[2]
    /\ Cardinality(fetched) <= 2

=============================================================================
