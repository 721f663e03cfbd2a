----------------------------- MODULE Throughput -----------------------------
(***************************************************************************)
(* ThroughputCalculator: what one round of post-processing makes of the    *)
(* samples of a task and of the numbers kept from earlier rounds           *)
(* (TaskStats).  A sample is [time, period, ops, type, throughput]; sample *)
(* types are numbers, Warmup < Normal.                                     *)
(***************************************************************************)
EXTENDS Integers, Sequences, FiniteSets

CONSTANT BucketInterval   \* ticks in a bucket (one second)

ASSUME BucketAssumption == BucketInterval \in Nat \ {0}

Warmup == 0
Normal == 1

NoStats == [started |-> FALSE]

TaskStats(first) ==
    [started |-> TRUE, unprocessed |-> <<>>, total_count |-> 0, interval |-> 0,
     bucket |-> BucketInterval, sample_type |-> first.type,
     has_samples_in_sample_type |-> FALSE,
     start_time |-> first.time - first.period]

CanCalculateThroughput(s) == s.interval > 0 /\ s.interval >= s.bucket

CanAddFinalThroughputSample(s) == s.interval > 0 /\ ~s.has_samples_in_sample_type

\* Mutant: the count of the round is not carried over.
FinishBucketKeepsTotal(s, count) ==
    [s EXCEPT !.unprocessed = <<>>, !.has_samples_in_sample_type = TRUE,
              !.bucket = (s.interval \div BucketInterval) * BucketInterval
                            + BucketInterval]

FinishBucket(s, count) ==
    [s EXCEPT !.unprocessed = <<>>, !.total_count = count,
              !.has_samples_in_sample_type = TRUE,
              !.bucket = (s.interval \div BucketInterval) * BucketInterval
                            + BucketInterval]

\* maybe_update_sample_type, update_interval.
Seen(s, sample) ==
    [s EXCEPT !.has_samples_in_sample_type = @ /\ s.sample_type >= sample.type,
              !.sample_type = IF @ < sample.type THEN sample.type ELSE @,
              !.interval = IF sample.time - s.start_time > @
                           THEN sample.time - s.start_time ELSE @]

\* One iteration of calculate_task_throughput; `types` are the sample types of
\* the throughput records the round has produced.
CountSample(acc, sample) ==
    LET count == acc.count + sample.ops
        s == Seen(acc.stats, sample)
    IN  IF CanCalculateThroughput(s)
        THEN [stats |-> FinishBucket(s, count), count |-> count,
              types |-> acc.types \union {s.sample_type}]
        ELSE [stats |-> [s EXCEPT !.unprocessed = Append(@, sample)],
              count |-> count, types |-> acc.types]

CalculateTaskThroughput(stats, samples) ==
    LET before == IF stats.started THEN stats ELSE TaskStats(samples[1])
        pass[n \in 0..Len(samples)] ==
            IF n = 0
            THEN [stats |-> before, count |-> before.total_count, types |-> {}]
            ELSE LET acc == pass[n - 1] IN CountSample(acc, samples[n])
        after == pass[Len(samples)]
    IN  IF CanAddFinalThroughputSample(after.stats)
        THEN [stats |-> FinishBucket(after.stats, after.count),
              types |-> after.types \union {after.stats.sample_type}]
        ELSE [stats |-> after.stats, types |-> after.types]

\* sorted() by absolute time, which is stable.
ByTime(samples) ==
    LET Before(i, j) == \/ samples[i].time < samples[j].time
                        \/ samples[i].time = samples[j].time /\ i < j
        Place(j) == Cardinality({i \in DOMAIN samples : Before(i, j)}) + 1
    IN  [k \in DOMAIN samples |-> samples[CHOOSE j \in DOMAIN samples : Place(j) = k]]

\* calculate() for the samples of one task: the runner's own throughput where
\* it gives one.
Calculate(stats, samples) ==
    LET carried == IF stats.started THEN stats.unprocessed ELSE <<>>
        current == ByTime(samples \o carried)
    IN  IF current[1].throughput
        THEN [stats |-> stats, types |-> {current[i].type : i \in DOMAIN current}]
        ELSE CalculateTaskThroughput(stats, current)
=============================================================================
