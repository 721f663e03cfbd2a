------------------------------- MODULE Results -------------------------------
(***************************************************************************)
(* What GlobalStatsCalculator and SystemStatsCalculator (metrics.py) make  *)
(* of the records of a metrics store: percentiles, averages, error rates   *)
(* and sums.  A collection of records is a bag, since the metrics index    *)
(* may hold a record more than once.                                       *)
(*                                                                         *)
(* A record is [by, n, name, task, value, type, ok, racing, meta]: who put *)
(* it and as which of its records, the metric, the task it belongs to,     *)
(* warmup or normal, meta.success, whether a bulk request was under way    *)
(* when it was put, and the keys of its meta information.  Percentiles are *)
(* in hundredths of a percent.                                             *)
(***************************************************************************)
EXTENDS Integers, Sequences, FiniteSets, Bags, SequencesExt

None == "none"

\* The OTHER_PERCENTILES and the default latency percentiles.
DefaultPercentiles == <<5000, 9000, 9900, 9990, 9999, 10000>>

Matches(r, name, task, type) ==
    /\ r.name = name
    /\ task \in {None, r.task}
    /\ type \in {None, r.type}

\* InMemoryMetricsStore._get and the query of OsMetricsStore.
Get(records, name, task, type) ==
    LET found == {r \in BagToSet(records) : Matches(r, name, task, type)}
    IN  [r \in found |-> records[r]]

Count(records) == BagCardinality(records)

\* The values in ascending order.
SortedValues(records) ==
    LET Upto(v) == BagCardinality([r \in {x \in DOMAIN records : x.value <= v} |-> records[r]])
        At(i) == CHOOSE v \in {r.value : r \in DOMAIN records} :
                     Upto(v) >= i /\ Upto(v - 1) < i
    IN  [i \in 1 .. Count(records) |-> At(i)]

\* PercentileValue of the largest rank instead of the next one.
PercentileValueBeyond(sorted, p) ==
    LET rank == p * Len(sorted)
        lr   == rank \div 10000
    IN  IF lr = Len(sorted) THEN 10000 * (sorted[lr] + 1) ELSE 10000 * sorted[lr + 1]

\* percentile_value, times 10000.
PercentileValue(sorted, p) ==
    LET rank == p * (Len(sorted) - 1)
        lr   == rank \div 10000
        fr   == rank % 10000
    IN  IF fr = 0 THEN 10000 * sorted[lr + 1]
                  ELSE 10000 * sorted[lr + 1] + (sorted[lr + 2] - sorted[lr + 1]) * fr

EffectiveSampleSize(n) == CHOOSE e \in {10 ^ k : k \in 0 .. 8} : e <= n /\ n < 10 * e

FilterPercentilesBySampleSize(n, percentiles) ==
    LET Suitable(p) ==
            IF n = 1 THEN FALSE
            ELSE IF n < 4  THEN p \in {5000, 10000}
            ELSE IF n < 10 THEN p \in {2500, 5000, 7500, 10000}
            ELSE (EffectiveSampleSize(n) * p) % 10000 = 0 \/ p \in {2500, 7500}
        kept == SelectSeq(percentiles, Suitable)
    IN  IF kept = <<>> THEN <<10000>> ELSE kept

\* get_error_rate, as errors and requests: by the outcomes of "service_time".
ErrorRate(records, task) ==
    LET measured == Get(records, "service_time", task, "normal")
    IN  <<Count([r \in {x \in DOMAIN measured : ~x.ok} |-> measured[r]]), Count(measured)>>

Sum(values) == FoldLeft(LAMBDA a, b : a + b, 0, values)

\* get_stats and get_mean; the mean as sum and count.
Stats(records) ==
    LET sorted == SortedValues(records)
    IN  IF sorted = <<>> THEN None
        ELSE [count |-> Len(sorted), min |-> Head(sorted), max |-> Last(sorted),
              mean  |-> <<Sum(sorted), Len(sorted)>>]

\* single_latency: the normal samples of one metric of a task.
SingleLatency(records, task, name, percentiles) ==
    LET sorted == SortedValues(Get(records, name, task, "normal"))
        shown  == FilterPercentilesBySampleSize(Len(sorted), percentiles)
    IN  IF sorted = <<>> THEN <<>>
        ELSE [i \in DOMAIN shown |-> <<shown[i], PercentileValue(sorted, shown[i])>>]

\* sum: the total of a metric, None without a record.
Total(records, name) ==
    LET found == Get(records, name, None, None)
    IN  IF found = EmptyBag THEN None ELSE Sum(SortedValues(found))

\* GlobalStatsCalculator.__call__: what a task is published with, and the
\* totals of the telemetry records.
TaskResults(records, task) ==
    [error_rate   |-> ErrorRate(records, task),
     service_time |-> SingleLatency(records, task, "service_time", DefaultPercentiles),
     summary      |-> Stats(Get(records, "service_time", task, "normal"))]

GlobalStats(records, tasks) ==
    [tasks   |-> [t \in tasks |-> TaskResults(records, t)],
     indexing_total_time |-> Total(records, "indexing_total_time"),
     young_gc_time       |-> Total(records, "node_total_young_gen_gc_time")]

\* SystemStatsCalculator.__call__: one value per metric of a node.
SystemStats(records, node) ==
    {x \in {"final_index_size_bytes", "disk_io_write_bytes", "node_startup_time"}
           \X BagToSet(records) : x[2].name = x[1] /\ x[2].by = node}

=============================================================================
