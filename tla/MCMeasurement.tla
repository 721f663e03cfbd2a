---------------------------- MODULE MCMeasurement ----------------------------
(* Small instances of Measurement.                                         *)
EXTENDS Measurement

Sampled(v, t, o) == [value |-> v, type |-> t, ok |-> o]

Steps(first, second) ==
    <<[task |-> "index", values |-> first], [task |-> "search", values |-> second]>>

Simple == Steps(<<Sampled(1, "normal", TRUE)>>, <<Sampled(2, "normal", TRUE)>>)

\* Sequences of samples that tell the statistics apart, without devices to watch.
Kinds == {Sampled(9, "warmup", FALSE), Sampled(1, "normal", TRUE), Sampled(4, "normal", FALSE)}

Measured3 == {Steps(<<Sampled(2, "normal", TRUE)>>, s) : s \in [1 .. 3 -> Kinds]}

Calm == [shortages |-> 0, retries |-> 0, faults |-> 0, crashes |-> 0]

\* At most one fault of one kind, or a retry while a record is put.
Faults == {[Calm EXCEPT !.shortages = 1], [Calm EXCEPT !.retries = 1],
           [Calm EXCEPT !.faults = 1], [Calm EXCEPT !.crashes = 1]}

Scenario(k, c, i, d, s, l) ==
    [kind |-> k, commands |-> c, indexed |-> i, docker |-> d, samples |-> s, limits |-> l]

Stores == {"in-memory", "opensearch"}

MCScenarios ==
    {Scenario(k, c, TRUE, FALSE, Simple, l) : k \in Stores, l \in Faults,
        c \in {{"node-stats"}, {"transform-stats", "gc"}, {"searchable-snapshots-stats"},
               {"segment-stats", "ccr-stats"}}}
    \cup {Scenario(k, {}, TRUE, FALSE, s, l) : k \in Stores, s \in Measured3,
              l \in {[Calm EXCEPT !.shortages = 1, !.retries = 1]}}
    \cup {Scenario("in-memory", {"ccr-stats", "recovery-stats"}, FALSE, TRUE, Simple, [Calm EXCEPT !.crashes = 1]),
          Scenario("opensearch", {"shard-stats"}, FALSE, TRUE, Simple, [Calm EXCEPT !.faults = 2])}

MCClusters == <<"default">>

MCNodes == <<"n1">>
=============================================================================
