------------------------- MODULE Measurement_proofs -------------------------
(***************************************************************************)
(* Proofs about Measurement, for any clusters, nodes, samples and faults:  *)
(* no telemetry device writes to a metrics store that is handed over, the  *)
(* system metrics of a node are what they claim to be, and what was        *)
(* measured is among what the results are computed from.                   *)
(***************************************************************************)
EXTENDS Measurement, Induction

-----------------------------------------------------------------------------
(* The telemetry devices.                                                    *)

\* A device that does not sample does not join.
Plain(stop) ==
    /\ IsSeq(stop)
    /\ \A k \in DOMAIN stop : stop[k].do \notin {"spawn", "join"}

\* What a sampling device does after joining a sampler.
Final(after) ==
    /\ IsSeq(after)
    /\ \A k \in DOMAIN after : /\ after[k].do \notin {"spawn", "join"}
                               /\ after[k].do = "ask" => after[k].arg = {"raise"}

\* A device starts no samplers at the end; if it joins samplers at all then
\* no error is swallowed that would skip one; and it joins all it has.
Tidy(d) ==
    /\ IsSeq(d.stop)
    /\ \A k \in DOMAIN d.stop : d.stop[k].do # "spawn"
    /\ \A k, l \in DOMAIN d.stop :
          d.stop[k].do = "join" /\ d.stop[l].do = "ask" => d.stop[l].arg = {"raise"}
    /\ \A b, c \in Range(Clusters) : d.record[b] # <<>> =>
          \E k \in DOMAIN d.stop : d.stop[k].do = "join" /\ d.stop[k].what = c

LEMMA PlainTidy ==
    ASSUME NEW command, NEW start, NEW stop, Plain(stop)
    PROVE  Tidy(Device(command, start, stop))
BY DEF Plain, Tidy, Device

\* What is in Finish: the deeds of each cluster, and those after them.
LEMMA FinishDeeds ==
    ASSUME NEW after, Final(after)
    PROVE  /\ IsSeq(Finish(after))
           /\ \A k \in DOMAIN Finish(after) :
                 \/ Finish(after)[k].do \in {"stop", "join"}
                 \/ \E l \in DOMAIN after : Finish(after)[k] = after[l]
           /\ \A c \in Range(Clusters) : \E k \in DOMAIN Finish(after) :
                 Finish(after)[k].do = "join" /\ Finish(after)[k].what = c
<1>1. PICK seqs : seqs = [i \in DOMAIN Clusters |->
                <<Deed("stop", Clusters[i], {}), Deed("join", Clusters[i], {})>> \o after]
  OBVIOUS
<1>2. Finish(after) = FlattenSeq(seqs)
  BY <1>1 DEF Finish
<1>3. IsSeq(Clusters) /\ DOMAIN seqs = DOMAIN Clusters /\ seqs = [i \in DOMAIN Clusters |-> seqs[i]]
  <2>1. Clusters \in Seq(STRING)
    BY TelemetryAssumption
  <2>2. Clusters \in Seq(ToSet(Clusters))
    BY <2>1 DEF ToSet
  <2>3. QED BY <1>1, <2>2 DEF IsSeq
<1>4. ASSUME NEW i \in DOMAIN Clusters
      PROVE  /\ IsSeq(seqs[i])
             /\ 2 \in DOMAIN seqs[i] /\ seqs[i][2].do = "join" /\ seqs[i][2].what = Clusters[i]
             /\ \A j \in DOMAIN seqs[i] : \/ seqs[i][j].do \in {"stop", "join"}
                                          \/ \E l \in DOMAIN after : seqs[i][j] = after[l]
  <2>1. PICK a, b : a = Deed("stop", Clusters[i], {}) /\ b = Deed("join", Clusters[i], {})
    OBVIOUS
  <2>2. a.do = "stop" /\ b.do = "join" /\ b.what = Clusters[i]
    BY <2>1 DEF Deed
  <2>3. seqs[i] = <<a, b>> \o after
    BY <1>1, <2>1
  <2>4. PICK S : S = {a, b} \cup ToSet(after)
    OBVIOUS
  <2>5. after \in Seq(S) /\ <<a, b>> \in Seq(S)
    BY <2>4 DEF Final, IsSeq
  <2>6. PICK s : s = <<a, b>> \o after
    OBVIOUS
  <2>7. /\ s \in Seq(S) /\ Len(s) = 2 + Len(after) /\ Len(after) \in Nat
        /\ DOMAIN s = 1..Len(s) /\ DOMAIN after = 1..Len(after)
        /\ s[1] = a /\ s[2] = b
        /\ \A j \in 3..Len(s) : s[j] = after[j - 2] /\ j - 2 \in 1..Len(after)
    BY <2>5, <2>6
  <2>8. s \in Seq(ToSet(s))
    BY <2>7 DEF ToSet
  <2>9. \A j \in DOMAIN s : s[j].do \in {"stop", "join"} \/ \E l \in DOMAIN after : s[j] = after[l]
    <3>1. SUFFICES ASSUME NEW j \in 1..Len(s)
                   PROVE  s[j].do \in {"stop", "join"} \/ \E l \in DOMAIN after : s[j] = after[l]
      BY <2>7
    <3>2. j = 1 \/ j = 2 \/ j \in 3..Len(s)
      BY <2>7
    <3>3. QED BY <2>2, <2>7, <3>2
  <2>10. QED BY <2>2, <2>3, <2>6, <2>7, <2>8, <2>9 DEF IsSeq
<1>5. IsSeqOfSeqs(seqs)
  BY <1>3, <1>4, MappedSeq DEF IsSeqOfSeqs
<1>6. PICK f : f = FlattenSeq(seqs)
  OBVIOUS
<1>7. IsSeq(f) /\ SameElements(f, seqs)
  BY <1>5, <1>6, FlattenedElements
<1>8. \A k \in DOMAIN f : f[k].do \in {"stop", "join"} \/ \E l \in DOMAIN after : f[k] = after[l]
  <2>1. TAKE k \in DOMAIN f
  <2>2. PICK i \in DOMAIN seqs : \E j \in DOMAIN seqs[i] : f[k] = seqs[i][j]
    BY <1>7 DEF SameElements
  <2>3. QED BY <1>3, <1>4, <2>2
<1>9. \A c \in Range(Clusters) : \E k \in DOMAIN f : f[k].do = "join" /\ f[k].what = c
  <2>1. TAKE c \in Range(Clusters)
  <2>2. PICK i \in DOMAIN Clusters : c = Clusters[i]
    BY DEF Range
  <2>3. PICK k \in DOMAIN f : f[k] = seqs[i][2]
    BY <1>3, <1>4, <1>7 DEF SameElements
  <2>4. QED BY <1>4, <2>2, <2>3
<1>10. QED BY <1>2, <1>6, <1>7, <1>8, <1>9

LEMMA SamplingTidy ==
    ASSUME NEW command, NEW start, NEW record, NEW after, Final(after)
    PROVE  Tidy(Sampling(command, start, record, after))
<1>1. PICK d : d = Sampling(command, start, record, after)
  OBVIOUS
<1>2. d.stop = Finish(after)
  BY <1>1 DEF Sampling
<1>3. PICK f : f = Finish(after)
  OBVIOUS
<1>4. /\ IsSeq(f)
      /\ \A k \in DOMAIN f : f[k].do \in {"stop", "join"} \/ \E l \in DOMAIN after : f[k] = after[l]
      /\ \A c \in Range(Clusters) : \E k \in DOMAIN f : f[k].do = "join" /\ f[k].what = c
  BY <1>3, FinishDeeds
<1>5. \A k \in DOMAIN f : f[k].do # "spawn" /\ (f[k].do = "ask" => f[k].arg = {"raise"})
  BY <1>4 DEF Final
<1>6. QED BY <1>1, <1>2, <1>3, <1>4, <1>5 DEF Tidy

\* What devices do when the benchmark stops.
LEMMA NothingPlain ==
    Plain(<<>>) /\ Final(<<>>)
BY ShortSeqs DEF Plain, Final

LEMMA ShortPlain ==
    ASSUME NEW a, NEW b, NEW c, {a.do, b.do, c.do} \cap {"spawn", "join"} = {}
    PROVE  Plain(<<a, b>>) /\ Plain(<<a, b, c>>)
<1>1. PICK S : S = {a, b, c}
  OBVIOUS
<1>2. PICK s, t : s = <<a, b>> /\ t = <<a, b, c>>
  OBVIOUS
<1>3. s \in Seq(S) /\ t \in Seq(S)
  BY <1>1, <1>2
<1>4. s \in Seq(ToSet(s)) /\ t \in Seq(ToSet(t))
  BY <1>3 DEF ToSet
<1>5. /\ DOMAIN s = {1, 2} /\ s[1] = a /\ s[2] = b
      /\ DOMAIN t = {1, 2, 3} /\ t[1] = a /\ t[2] = b /\ t[3] = c
  BY <1>2
<1>6. Plain(s) /\ Plain(t)
  BY <1>4, <1>5 DEF Plain, IsSeq
<1>7. QED BY <1>2, <1>6

LEMMA AllTidy ==
    ASSUME NEW indexed
    PROVE  /\ IsSeq(PrepareTelemetry(indexed))
           /\ \A i \in DOMAIN PrepareTelemetry(indexed) : Tidy(PrepareTelemetry(indexed)[i])
<1>1. Tidy(ExternalEnvironmentInfo) /\ Tidy(ClusterEnvironmentInfo)
  BY NothingPlain, PlainTidy DEF ExternalEnvironmentInfo, ClusterEnvironmentInfo
<1>2. Tidy(JvmStatsSummary)
  <2>1. PICK a, b, c : /\ a = Ask("jvm at end", {"empty"})
                       /\ b = Record("node_young_gen_gc_time", {"jvm at start", "jvm at end"})
                       /\ c = Record("node_total_young_gen_gc_time", {})
    OBVIOUS
  <2>2. {a.do, b.do, c.do} \cap {"spawn", "join"} = {}
    BY <2>1 DEF Ask, Record, Deed
  <2>3. Plain(<<a, b, c>>)
    BY <2>2, ShortPlain
  <2>4. QED BY <2>1, <2>3, PlainTidy DEF JvmStatsSummary
<1>3. Tidy(IndexStats)
  <2>1. PICK a, b, c : /\ a = Ask("index at end", {"return"})
                       /\ b = Record("indexing_total_time", {"index at end"})
                       /\ c = Record("segments_count", {"index at end"})
    OBVIOUS
  <2>2. {a.do, b.do, c.do} \cap {"spawn", "join"} = {}
    BY <2>1 DEF Ask, Record, Deed
  <2>3. Plain(<<a, b, c>>)
    BY <2>2, ShortPlain
  <2>4. QED BY <2>1, <2>3, PlainTidy DEF IndexStats
<1>4. Tidy(MlBucketProcessingTime)
  <2>1. PICK a, b : a = Ask("ml", {"return"}) /\ b = Record("ml_processing_time", {"ml"})
    OBVIOUS
  <2>2. {a.do, b.do, b.do} \cap {"spawn", "join"} = {}
    BY <2>1 DEF Ask, Record, Deed
  <2>3. Plain(<<a, b>>)
    BY <2>2, ShortPlain
  <2>4. QED BY <2>1, <2>3, PlainTidy DEF MlBucketProcessingTime
<1>5. Tidy(SegmentStats)
  <2>1. PICK a, b : a = Ask("segments", {"return"}) /\ b = File("segment_stats.log", {"segments"})
    OBVIOUS
  <2>2. {a.do, b.do, b.do} \cap {"spawn", "join"} = {}
    BY <2>1 DEF Ask, File, Deed
  <2>3. Plain(<<a, b>>)
    BY <2>2, ShortPlain
  <2>4. QED BY <2>1, <2>3, PlainTidy DEF SegmentStats
<1>6. Tidy(TransformStats)
  <2>1. PICK a, b : a = Ask("final", {"raise"}) /\ b = Record("total_transform_throughput", {"final"})
    OBVIOUS
  <2>2. a.do = "ask" /\ a.arg = {"raise"} /\ b.do = "put"
    BY <2>1 DEF Ask, Record, Deed
  <2>3. PICK s : s = <<a, b>>
    OBVIOUS
  <2>4. Plain(s)
    BY <2>2, <2>3, ShortPlain
  <2>5. DOMAIN s = {1, 2} /\ s[1] = a /\ s[2] = b
    BY <2>3
  <2>6. Final(s)
    BY <2>2, <2>4, <2>5 DEF Plain, Final
  <2>7. QED BY <2>1, <2>3, <2>6, SamplingTidy DEF TransformStats
<1>7. Tidy(NodeStats) /\ Tidy(ShardStats)
  BY NothingPlain, SamplingTidy DEF NodeStats, ShardStats
<1>8. Tidy(CcrStats(indexed))
  BY NothingPlain, SamplingTidy DEF CcrStats
<1>9. /\ Tidy(RecoveryStats) /\ Tidy(SearchableSnapshotsStats) /\ Tidy(SegmentReplicationStats)
  BY NothingPlain, SamplingTidy DEF RecoveryStats, SearchableSnapshotsStats, SegmentReplicationStats
<1>10. PICK a, b, c, d, e, f, g, h, i, j, k, l, m :
           /\ a = NodeStats /\ b = ExternalEnvironmentInfo /\ c = ClusterEnvironmentInfo
           /\ d = JvmStatsSummary /\ e = IndexStats /\ f = MlBucketProcessingTime
           /\ g = SegmentStats /\ h = CcrStats(indexed) /\ i = RecoveryStats
           /\ j = TransformStats /\ k = SearchableSnapshotsStats
           /\ l = SegmentReplicationStats /\ m = ShardStats
  OBVIOUS
<1>11. PICK s : s = <<a, b, c, d, e, f, g, h, i, j, k, l, m>>
  OBVIOUS
<1>12. PICK S : S = {x \in {a, b, c, d, e, f, g, h, i, j, k, l, m} : Tidy(x)}
  OBVIOUS
<1>13. {a, b, c, d, e, f, g, h, i, j, k, l, m} \subseteq S
  BY <1>1, <1>2, <1>3, <1>4, <1>5, <1>6, <1>7, <1>8, <1>9, <1>10, <1>12
<1>14. s \in Seq(S)
  BY ONLY <1>11, <1>13
<1>15. s \in Seq(ToSet(s)) /\ \A n \in DOMAIN s : s[n] \in S
  BY ONLY <1>14 DEF ToSet
<1>16. \A n \in DOMAIN s : Tidy(s[n])
  BY <1>12, <1>15
<1>17. PrepareTelemetry(indexed) = s
  BY <1>10, <1>11 DEF PrepareTelemetry
<1>18. QED BY <1>15, <1>16, <1>17 DEF IsSeq

\* Every enabled device is tidy.
LEMMA EnabledTidy ==
    ASSUME NEW chosen, NEW indexed
    PROVE  /\ IsSeq(Enabled(chosen, indexed))
           /\ \A i \in DOMAIN Enabled(chosen, indexed) : Tidy(Enabled(chosen, indexed)[i])
<1>1. PICK all : all = PrepareTelemetry(indexed)
  OBVIOUS
<1>2. IsSeq(all) /\ \A i \in DOMAIN all : Tidy(all[i])
  BY <1>1, AllTidy
<1>3. PICK seqs : seqs = [i \in DOMAIN all |->
                IF all[i].command \in Internal \cup chosen THEN <<all[i]>> ELSE <<>>]
  OBVIOUS
<1>4. \A i \in DOMAIN all : seqs[i] = <<all[i]>> \/ seqs[i] = <<>>
  BY <1>3
<1>5. IsSeqOfSeqs(seqs)
  <2>1. DOMAIN seqs = DOMAIN all /\ seqs = [i \in DOMAIN all |-> seqs[i]]
    BY <1>3
  <2>2. IsSeq(seqs)
    BY <1>2, <2>1, MappedSeq
  <2>3. \A i \in DOMAIN seqs : IsSeq(seqs[i])
    BY <1>4, <2>1, ShortSeqs
  <2>4. QED BY <2>2, <2>3 DEF IsSeqOfSeqs
<1>6. PICK f : f = FlattenSeq(seqs)
  OBVIOUS
<1>7. IsSeq(f) /\ SameElements(f, seqs)
  BY <1>5, <1>6, FlattenedElements
<1>8. \A k \in DOMAIN f : Tidy(f[k])
  <2>1. TAKE k \in DOMAIN f
  <2>2. PICK i \in DOMAIN seqs : \E j \in DOMAIN seqs[i] : f[k] = seqs[i][j]
    BY <1>7 DEF SameElements
  <2>3. i \in DOMAIN all
    BY <1>3
  <2>4. f[k] = all[i]
    BY <1>4, <2>2, <2>3, ShortSeqs
  <2>5. QED BY <1>2, <2>3, <2>4
<1>9. Enabled(chosen, indexed) = f
  BY <1>1, <1>3, <1>6 DEF Enabled
<1>10. QED BY <1>7, <1>8, <1>9

-----------------------------------------------------------------------------
(* The samplers.                                                             *)

AllEnded == \A t \in DOMAIN thread : thread[t].pc = Ended

\* Deed k of device i joins sampler t when the benchmark stops.
JoinOf(i, k, t) ==
    devices[i].stop[k].do = "join" /\ t = <<devices[i].command, devices[i].stop[k].what>>

\* Position a is one of the hook, and has passed deed k of device i.
PlacedAt(a) ==
    a = Done \/ \E i \in DOMAIN devices : \E k \in DOMAIN devices[i].stop : a = <<i, k>>

PassedAt(a, i, k) == a = Done \/ i < a[1] \/ (i = a[1] /\ k < a[2])

DevicesTidy == IsSeq(devices) /\ \A i \in DOMAIN devices : Tidy(devices[i])

\* Every sampler has a counter, and is joined by a device.
ThreadsOwned ==
    \A t \in DOMAIN thread :
        /\ "pc" \in DOMAIN thread[t]
        /\ \E i \in DOMAIN devices : \E k \in DOMAIN devices[i].stop : JoinOf(i, k, t)

\* The samplers whose join the hook has passed have ended.
JoinedAt(a) ==
    \A t \in DOMAIN thread : \A i \in DOMAIN devices : \A k \in DOMAIN devices[i].stop :
        PassedAt(a, i, k) /\ JoinOf(i, k, t) => thread[t].pc = Ended

Handed == phase \in {"handover", "closing", "closed", "complete"}

SamplerInv ==
    /\ DevicesTidy /\ ThreadsOwned /\ hook \in {None, "start", "stop"}
    /\ hook = "stop" => PlacedAt(at) /\ JoinedAt(at)
    /\ Handed => hook = None /\ AllEnded

\* The next device of the hook: all between have nothing to do.
LEMMA NextDeviceSkips ==
    ASSUME DevicesTidy, NEW n \in Nat, NEW a, a = NextDevice("stop", n)
    PROVE  /\ PlacedAt(a)
           /\ \A i \in DOMAIN devices : \A k \in DOMAIN devices[i].stop : PassedAt(a, i, k) => i <= n
<1>1. DOMAIN devices = 1..Len(devices) /\ Len(devices) \in Nat
  BY DEF DevicesTidy, IsSeq
<1>2. \A i \in DOMAIN devices : devices[i].stop # <<>> => 1 \in DOMAIN devices[i].stop
  <2>1. TAKE i \in DOMAIN devices
  <2>2. PICK s : s = devices[i].stop
    OBVIOUS
  <2>3. s \in Seq(ToSet(s))
    BY <2>2 DEF DevicesTidy, Tidy, IsSeq
  <2>4. s # <<>> => 1 \in DOMAIN s
    BY <2>3
  <2>5. QED BY <2>2, <2>4
<1>3. \A i \in DOMAIN devices : devices[i].stop = <<>> => DOMAIN devices[i].stop = {}
  BY ShortSeqs
<1>4. PICK later : later = {j \in (n + 1)..Len(devices) : devices[j].stop # <<>>}
  OBVIOUS
<1>5. a = IF later = {} THEN Done ELSE <<Min(later), 1>>
  BY <1>4 DEF NextDevice, DeedsOf
<1>6. later \in SUBSET Nat /\ later \subseteq DOMAIN devices
  BY <1>1, <1>4
<1>7. CASE later = {}
  <2>1. a = Done
    BY <1>5, <1>7
  <2>2. \A i \in DOMAIN devices : \A k \in DOMAIN devices[i].stop : i <= n
    BY <1>1, <1>3, <1>4, <1>7
  <2>3. QED BY <2>1, <2>2 DEF PlacedAt
<1>8. CASE later # {}
  <2>1. Min(later) \in later /\ \A j \in later : Min(later) <= j
    <3>1. \E x \in later : \A y \in later : x <= y
      BY <1>6, <1>8, LeastNumber
    <3>2. QED BY <3>1 DEF Min
  <2>2. PICK m \in later : m = Min(later) /\ \A j \in later : m <= j
    BY <2>1
  <2>3. a = <<m, 1>> /\ m \in DOMAIN devices /\ 1 \in DOMAIN devices[m].stop
    BY <1>2, <1>4, <1>5, <1>6, <1>8, <2>2
  <2>4. PlacedAt(a)
    BY <2>3 DEF PlacedAt
  <2>5. ASSUME NEW i \in DOMAIN devices, NEW k \in DOMAIN devices[i].stop, PassedAt(a, i, k)
        PROVE  i <= n
    <3>1. m \in Nat /\ i \in Nat /\ m > 0
      BY <1>1, <2>3
    <3>2. a # Done /\ a[1] = m /\ a[2] = 1
      BY <2>3, <3>1 DEF Done
    <3>3. k \in Nat /\ k >= 1
      <4>1. PICK s : s = devices[i].stop
        OBVIOUS
      <4>2. s \in Seq(ToSet(s)) /\ k \in DOMAIN s
        BY <4>1 DEF DevicesTidy, Tidy, IsSeq
      <4>3. QED BY <4>2
    <3>4. i < m
      BY <2>5, <3>1, <3>2, <3>3 DEF PassedAt
    <3>5. i \notin later
      BY <2>2, <3>1, <3>4
    <3>6. devices[i].stop # <<>>
      BY <1>3
    <3>7. QED BY <1>1, <1>4, <3>1, <3>5, <3>6
  <2>6. QED BY <2>4, <2>5
<1>9. QED BY <1>7, <1>8

\* The next deed of the hook: only this one is passed.
LEMMA NextDeedPasses ==
    ASSUME DevicesTidy, hook = "stop", PlacedAt(at), at # Done, NEW a, a = NextDeed
    PROVE  /\ PlacedAt(a)
           /\ \A i \in DOMAIN devices : \A k \in DOMAIN devices[i].stop :
                 PassedAt(a, i, k) => PassedAt(at, i, k) \/ (i = at[1] /\ k = at[2])
<1>1. PICK p \in DOMAIN devices : \E k \in DOMAIN devices[p].stop : at = <<p, k>>
  BY DEF PlacedAt
<1>2. PICK q \in DOMAIN devices[p].stop : at = <<p, q>>
  BY <1>1
<1>3. at[1] = p /\ at[2] = q
  BY <1>2
<1>4. \A i \in DOMAIN devices : i \in Nat /\ i > 0
  BY DEF DevicesTidy, IsSeq
<1>5. \A i \in DOMAIN devices :
          DOMAIN devices[i].stop = 1..Len(devices[i].stop) /\ Len(devices[i].stop) \in Nat
  <2>1. TAKE i \in DOMAIN devices
  <2>2. PICK s : s = devices[i].stop
    OBVIOUS
  <2>3. s \in Seq(ToSet(s))
    BY <2>2 DEF DevicesTidy, Tidy, IsSeq
  <2>4. DOMAIN s = 1..Len(s) /\ Len(s) \in Nat
    BY <2>3
  <2>5. QED BY <2>2, <2>4
<1>6. a = IF q < Len(devices[p].stop) THEN <<p, q + 1>> ELSE NextDevice("stop", p)
  BY <1>3 DEF NextDeed, DeedsOf
<1>7. CASE q < Len(devices[p].stop)
  <2>1. a = <<p, q + 1>> /\ q + 1 \in DOMAIN devices[p].stop
    BY <1>5, <1>6, <1>7
  <2>2. a # Done /\ a[1] = p /\ a[2] = q + 1
    BY <1>4, <2>1 DEF Done
  <2>3. ASSUME NEW i \in DOMAIN devices, NEW k \in DOMAIN devices[i].stop, PassedAt(a, i, k)
        PROVE  PassedAt(at, i, k) \/ (i = at[1] /\ k = at[2])
    <3>1. q \in Int /\ k \in Int /\ i \in Int /\ p \in Int
      BY <1>4, <1>5
    <3>2. i < p \/ (i = p /\ k < q + 1)
      BY <2>2, <2>3 DEF PassedAt
    <3>3. i < p \/ (i = p /\ k < q) \/ (i = p /\ k = q)
      BY <3>1, <3>2
    <3>4. QED BY <1>3, <3>3 DEF PassedAt
  <2>4. QED BY <2>1, <2>3 DEF PlacedAt
<1>8. CASE ~(q < Len(devices[p].stop))
  <2>1. a = NextDevice("stop", p) /\ p \in Nat
    BY <1>4, <1>6, <1>8
  <2>2. /\ PlacedAt(a)
        /\ \A i \in DOMAIN devices : \A k \in DOMAIN devices[i].stop : PassedAt(a, i, k) => i <= p
    BY <2>1, NextDeviceSkips
  <2>3. ASSUME NEW i \in DOMAIN devices, NEW k \in DOMAIN devices[i].stop, PassedAt(a, i, k)
        PROVE  PassedAt(at, i, k) \/ (i = at[1] /\ k = at[2])
    <3>1. q \in Int /\ k \in Int /\ i \in Int /\ p \in Int
      BY <1>4, <1>5
    <3>2. i <= p
      BY <2>2, <2>3
    <3>3. i = p => k <= q
      BY <1>5, <1>8, <3>1
    <3>4. i < p \/ (i = p /\ k < q) \/ (i = p /\ k = q)
      BY <3>1, <3>2, <3>3
    <3>5. QED BY <1>3, <3>4 DEF PassedAt
  <2>4. QED BY <2>2, <2>3
<1>9. QED BY <1>7, <1>8

\* Samplers only end.
Ending ==
    /\ DOMAIN thread' = DOMAIN thread
    /\ \A t \in DOMAIN thread : /\ "pc" \in DOMAIN thread'[t]
                                /\ thread[t].pc = Ended => thread'[t].pc = Ended

LEMMA SamplersEnd ==
    ASSUME ThreadsOwned, NEW t \in DOMAIN thread, SamplerStep(t)
    PROVE  Ending /\ UNCHANGED <<devices, hook, at>>
<1>1. thread[t].pc # Ended
  BY DEF SamplerStep, Continue, RecorderAnswered, RecorderUnanswered, RecorderPuts, NotStarted, Ended
<1>2. \/ \E pc : thread' = [thread EXCEPT ![t].pc = pc]
      \/ thread' = [thread EXCEPT ![t].pc = 1, ![t].samples = @ + 1]
  <2>1. CASE Continue(t)
    BY <2>1 DEF Continue, ThreadAt
  <2>2. CASE RecorderAnswered(t)
    BY <2>2 DEF RecorderAnswered, ThreadAt
  <2>3. CASE RecorderUnanswered(t)
    BY <2>3 DEF RecorderUnanswered, ThreadAt
  <2>4. CASE RecorderPuts(t)
    BY <2>4 DEF RecorderPuts, ThreadAt
  <2>5. QED BY <2>1, <2>2, <2>3, <2>4 DEF SamplerStep
<1>3. UNCHANGED <<devices, hook, at>>
  BY DEF SamplerStep, Continue, RecorderAnswered, RecorderUnanswered, RecorderPuts, ThreadAt
<1>4. "pc" \in DOMAIN thread[t]
  BY DEF ThreadsOwned
<1>5. /\ DOMAIN thread' = DOMAIN thread
      /\ "pc" \in DOMAIN thread'[t]
      /\ \A s \in DOMAIN thread : s # t => thread'[s] = thread[s]
  BY <1>2, <1>4
<1>6. QED BY <1>1, <1>3, <1>5 DEF Ending, ThreadsOwned

\* Nothing but the ends of samplers: what was known of them still holds.
LEMMA EndingKeeps ==
    ASSUME DevicesTidy, ThreadsOwned, Ending, UNCHANGED devices
    PROVE  /\ DevicesTidy' /\ ThreadsOwned'
           /\ \A a : PlacedAt(a) => PlacedAt(a)'
           /\ \A a : JoinedAt(a) => JoinedAt(a)'
           /\ AllEnded => AllEnded'
<1>1. DevicesTidy'
  BY DEF DevicesTidy
<1>2. \A i, k, t : JoinOf(i, k, t)' <=> JoinOf(i, k, t)
  BY DEF JoinOf
<1>3. ThreadsOwned'
  BY <1>2 DEF ThreadsOwned, Ending
<1>4. \A a : PlacedAt(a) => PlacedAt(a)'
  BY DEF PlacedAt
<1>5. \A a : JoinedAt(a) => JoinedAt(a)'
  BY <1>2 DEF JoinedAt, Ending, PassedAt
<1>6. AllEnded => AllEnded'
  BY DEF AllEnded, Ending
<1>7. QED BY <1>1, <1>3, <1>4, <1>5, <1>6

\* A step of the hook at the end of the benchmark.
LEMMA StopHookStep ==
    ASSUME DevicesTidy, ThreadsOwned, hook = "stop", PlacedAt(at), JoinedAt(at), HookStep
    PROVE  Ending /\ PlacedAt(at)' /\ JoinedAt(at)'
<1>1. at # Done /\ hook' = hook /\ devices' = devices
  BY DEF HookStep, HookAnswered, HookUnanswered, HookPuts, HookDescribes, HookWritesFile,
         HookSpawns, HookStops, HookJoins, Doing
<1>2. PICK p \in DOMAIN devices : \E k \in DOMAIN devices[p].stop : at = <<p, k>>
  BY <1>1 DEF PlacedAt
<1>3. PICK q \in DOMAIN devices[p].stop : at = <<p, q>>
  BY <1>2
<1>4. PICK deed : deed = devices[p].stop[q]
  OBVIOUS
<1>5. at[1] = p /\ at[2] = q /\ Current = deed /\ Command = devices[p].command
  BY <1>3, <1>4 DEF Current, Command, DeedsOf
<1>6. deed.do # "spawn"
  BY <1>4 DEF DevicesTidy, Tidy
<1>7. ~HookSpawns
  BY <1>1, <1>5, <1>6 DEF HookSpawns, Doing, Current
<1>8. Ending
  <2>1. CASE HookStops
    <3>1. PICK x : thread' = [thread EXCEPT ![x].stop = TRUE]
      BY <2>1 DEF HookStops
    <3>2. SUFFICES ASSUME NEW t \in DOMAIN thread
                   PROVE  "pc" \in DOMAIN thread'[t] /\ thread'[t].pc = thread[t].pc
      BY <3>1 DEF Ending
    <3>3. "pc" \in DOMAIN thread[t]
      BY DEF ThreadsOwned
    <3>4. QED BY <3>1, <3>3
  <2>2. CASE UNCHANGED thread
    BY <2>2 DEF Ending, ThreadsOwned
  <2>3. QED BY <1>7, <2>1, <2>2 DEF HookStep, HookAnswered, HookUnanswered, HookPuts,
          HookDescribes, HookWritesFile, HookJoins
<1>9. PICK a : a = at'
  OBVIOUS
<1>10. /\ PlacedAt(a)
       /\ \A t \in DOMAIN thread : \A i \in DOMAIN devices : \A k \in DOMAIN devices[i].stop :
             PassedAt(a, i, k) /\ JoinOf(i, k, t) => PassedAt(at, i, k) \/ thread[t].pc = Ended
  <2>1. CASE a = NextDeed /\ (deed.do = "join" => HookJoins)
    <3>1. /\ PlacedAt(a)
          /\ \A i \in DOMAIN devices : \A k \in DOMAIN devices[i].stop :
                PassedAt(a, i, k) => PassedAt(at, i, k) \/ (i = at[1] /\ k = at[2])
      BY <1>1, <2>1, NextDeedPasses
    <3>2. ASSUME NEW t \in DOMAIN thread, JoinOf(p, q, t)
          PROVE  thread[t].pc = Ended
      <4>1. deed.do = "join" /\ t = <<devices[p].command, deed.what>>
        BY <1>4, <3>2 DEF JoinOf
      <4>2. HookJoins
        BY <2>1, <4>1
      <4>3. QED BY <1>5, <4>1, <4>2 DEF HookJoins
    <3>3. QED BY <1>5, <3>1, <3>2
  <2>2. CASE a = NextDevice(hook, at[1]) /\ deed.do = "ask" /\ deed.arg # {"raise"}
    <3>1. \A k \in DOMAIN devices[p].stop : devices[p].stop[k].do # "join"
      BY <1>4, <2>2 DEF DevicesTidy, Tidy
    <3>2. p \in Nat /\ a = NextDevice("stop", p)
      BY <1>5, <2>2 DEF DevicesTidy, IsSeq
    <3>3. /\ PlacedAt(a)
          /\ \A i \in DOMAIN devices : \A k \in DOMAIN devices[i].stop : PassedAt(a, i, k) => i <= p
      BY <3>2, NextDeviceSkips
    <3>4. ASSUME NEW t, NEW i \in DOMAIN devices, NEW k \in DOMAIN devices[i].stop,
                 PassedAt(a, i, k), JoinOf(i, k, t)
          PROVE  PassedAt(at, i, k)
      <4>1. i <= p /\ i # p
        BY <3>1, <3>3, <3>4 DEF JoinOf
      <4>2. i \in Nat
        BY DEF DevicesTidy, IsSeq
      <4>3. i < at[1]
        BY <1>5, <3>2, <4>1, <4>2
      <4>4. QED BY <4>3 DEF PassedAt
    <3>5. QED BY <3>3, <3>4
  <2>3. deed.do = "join" /\ HookStep => HookJoins
    BY <1>1, <1>5, <1>6 DEF HookStep, HookAnswered, HookUnanswered, HookPuts, HookDescribes,
       HookWritesFile, HookSpawns, HookStops, Doing, Current
  <2>4. CASE HookUnanswered
    <3>1. deed.do = "ask" /\ deed.arg # {"raise"}
      BY <1>5, <2>4 DEF HookUnanswered, Doing, Current
    <3>2. a = NextDeed \/ a = NextDevice(hook, at[1])
      BY <1>9, <2>4 DEF HookUnanswered
    <3>3. QED BY <2>1, <2>2, <3>1, <3>2
  <2>5. CASE ~HookUnanswered
    <3>1. a = NextDeed
      BY <1>9, <2>5 DEF HookStep, HookAnswered, HookPuts, HookDescribes, HookWritesFile,
         HookSpawns, HookStops, HookJoins
    <3>2. QED BY <2>1, <2>3, <3>1
  <2>6. QED BY <2>4, <2>5
<1>11. JoinedAt(a)
  BY <1>10 DEF JoinedAt
<1>12. PlacedAt(a)' /\ JoinedAt(a)'
  BY <1>1, <1>8, <1>10, <1>11, EndingKeeps
<1>13. QED BY <1>1, <1>8, <1>9, <1>12 DEF PlacedAt, JoinedAt, PassedAt, JoinOf

\* A step of the hook at the start.
LEMMA StartHookStep ==
    ASSUME DevicesTidy, ThreadsOwned, HookStep
    PROVE  DevicesTidy' /\ ThreadsOwned'
<1>1. devices' = devices
  BY DEF HookStep, HookAnswered, HookUnanswered, HookPuts, HookDescribes, HookWritesFile,
         HookSpawns, HookStops, HookJoins
<1>2. DevicesTidy'
  BY <1>1 DEF DevicesTidy
<1>3. DOMAIN thread' = DOMAIN thread /\ \A t \in DOMAIN thread : "pc" \in DOMAIN thread'[t]
  <2>1. \A t \in DOMAIN thread : "pc" \in DOMAIN thread[t]
    BY DEF ThreadsOwned
  <2>2. CASE HookStops
    <3>1. PICK x : thread' = [thread EXCEPT ![x].stop = TRUE]
      BY <2>2 DEF HookStops
    <3>2. QED BY <2>1, <3>1
  <2>3. CASE HookSpawns
    BY <2>1, <2>3 DEF HookSpawns
  <2>4. CASE UNCHANGED thread
    BY <2>1, <2>4
  <2>5. QED BY <2>2, <2>3, <2>4 DEF HookStep, HookAnswered, HookUnanswered, HookPuts,
          HookDescribes, HookWritesFile, HookJoins
<1>4. QED BY <1>1, <1>2, <1>3 DEF ThreadsOwned, JoinOf

\* Steps that leave the telemetry alone and hand nothing over.
Quiet ==
    /\ UNCHANGED <<devices, hook, at, thread>>
    /\ Handed' => Handed

LEMMA QuietKeeps ==
    ASSUME SamplerInv, Quiet
    PROVE  SamplerInv'
<1>1. Ending
  BY DEF SamplerInv, Quiet, Ending, ThreadsOwned
<1>2. /\ DevicesTidy' /\ ThreadsOwned'
      /\ AllEnded => AllEnded'
  BY <1>1, EndingKeeps DEF SamplerInv, Quiet
<1>3. hook' = "stop" => PlacedAt(at)' /\ JoinedAt(at)'
  BY DEF SamplerInv, Quiet, PlacedAt, JoinedAt, PassedAt, JoinOf
<1>4. QED BY <1>2, <1>3 DEF SamplerInv, Quiet

\* Which steps these are.
LEMMA QuietSteps ==
    ASSUME \/ PostProcess \/ PutRequest \/ FlushRequests \/ RequestsFlushed \/ MoveToNextTask
           \/ TakeMemento \/ FlushAtClose \/ SendComplete \/ Abort \/ BulkAnswered \/ BulkRaises
           \/ BulkAdd \/ OnTaskFinished \/ OnBenchmarkComplete \/ CalculateResults
           \/ TearDown \/ Engine \/ Finished \/ UNCHANGED vars
    PROVE  Quiet
<1>1. UNCHANGED telemetryVars => UNCHANGED <<devices, hook, at, thread>>
  BY DEF telemetryVars
<1>2. CASE PostProcess \/ PutRequest \/ FlushRequests \/ RequestsFlushed \/ MoveToNextTask
  BY <1>1, <1>2 DEF PostProcess, PutRequest, FlushRequests, RequestsFlushed, MoveToNextTask, Quiet, Handed
<1>3. CASE TakeMemento \/ FlushAtClose \/ SendComplete \/ Abort
  BY <1>1, <1>3 DEF TakeMemento, FlushAtClose, SendComplete, Abort, Quiet, Handed
<1>4. CASE BulkAnswered \/ TearDown \/ Engine \/ Finished \/ UNCHANGED vars
  BY <1>1, <1>4 DEF BulkAnswered, TearDown, Engine, Finished, vars, controlVars, Quiet, Handed
<1>5. CASE BulkRaises
  BY <1>1, <1>5 DEF BulkRaises, Quiet, Handed
<1>6. CASE BulkAdd \/ OnTaskFinished \/ OnBenchmarkComplete \/ CalculateResults
  BY <1>1, <1>6 DEF BulkAdd, OnTaskFinished, OnBenchmarkComplete, CalculateResults, Quiet, Handed
<1>7. QED BY <1>2, <1>3, <1>4, <1>5, <1>6

LEMMA SamplersInitially ==
    ASSUME Init
    PROVE  SamplerInv
<1>1. PICK s \in Scenarios : devices = Enabled(s.commands, s.indexed)
  BY DEF Init
<1>2. DevicesTidy
  <2>1. PICK f : f = Enabled(s.commands, s.indexed)
    OBVIOUS
  <2>2. IsSeq(f) /\ \A i \in DOMAIN f : Tidy(f[i])
    BY <2>1, EnabledTidy
  <2>3. QED BY <1>1, <2>1, <2>2 DEF DevicesTidy
<1>3. ThreadsOwned
  <2>1. PICK C : C = {d.command : d \in {x \in Range(devices) : \E c \in Range(Clusters) : x.record[c] # <<>>}}
    OBVIOUS
  <2>2. thread = [t \in C \X Range(Clusters) |-> [pc |-> NotStarted, stop |-> FALSE, samples |-> 0]]
    BY <2>1 DEF Init, TelemetryInit
  <2>3. SUFFICES ASSUME NEW t \in C \X Range(Clusters)
                 PROVE  /\ "pc" \in DOMAIN thread[t]
                        /\ \E i \in DOMAIN devices : \E k \in DOMAIN devices[i].stop : JoinOf(i, k, t)
    BY <2>2 DEF ThreadsOwned
  <2>4. "pc" \in DOMAIN thread[t]
    BY <2>2
  <2>5. PICK c \in C, b \in Range(Clusters) : t = <<c, b>>
    OBVIOUS
  <2>6. PICK d \in Range(devices) : d.command = c /\ \E e \in Range(Clusters) : d.record[e] # <<>>
    BY <2>1
  <2>7. PICK i \in DOMAIN devices : d = devices[i]
    BY DEF Range
  <2>8. Tidy(d)
    BY <1>2, <2>7 DEF DevicesTidy
  <2>9. PICK k \in DOMAIN d.stop : d.stop[k].do = "join" /\ d.stop[k].what = b
    BY <2>6, <2>8 DEF Tidy
  <2>10. JoinOf(i, k, t)
    BY <2>5, <2>6, <2>7, <2>9 DEF JoinOf
  <2>11. QED BY <2>4, <2>7, <2>10
<1>4. hook = None /\ hook # "stop" /\ ~Handed
  BY DEF Init, TelemetryInit, Handed, None
<1>5. QED BY <1>2, <1>3, <1>4 DEF SamplerInv

LEMMA SamplersStep ==
    ASSUME SamplerInv, [Next]_vars
    PROVE  SamplerInv'
<1>1. DevicesTidy /\ ThreadsOwned
  BY DEF SamplerInv
<1>2. CASE StartBenchmark
  <2>1. UNCHANGED <<devices, thread>> /\ hook' = "start" /\ ~Handed'
    BY <1>2 DEF StartBenchmark, Begin, Handed
  <2>2. Ending
    BY <1>1, <2>1 DEF Ending, ThreadsOwned
  <2>3. QED BY <1>1, <2>1, <2>2, EndingKeeps DEF SamplerInv
<1>3. CASE StopTelemetry
  <2>1. UNCHANGED <<devices, thread>> /\ hook' = "stop" /\ at' = NextDevice("stop", 0) /\ ~Handed'
    BY <1>3 DEF StopTelemetry, Begin, Handed
  <2>2. Ending
    BY <1>1, <2>1 DEF Ending, ThreadsOwned
  <2>3. PICK a : a = at'
    OBVIOUS
  <2>4. /\ PlacedAt(a)
        /\ \A i \in DOMAIN devices : \A k \in DOMAIN devices[i].stop : PassedAt(a, i, k) => i <= 0
    BY <1>1, <2>1, <2>3, NextDeviceSkips
  <2>5. \A i \in DOMAIN devices : i \in Nat /\ i > 0
    BY <1>1 DEF DevicesTidy, IsSeq
  <2>6. JoinedAt(a)
    BY <2>4, <2>5 DEF JoinedAt
  <2>7. PlacedAt(at)' /\ JoinedAt(at)'
    BY <2>1, <2>3, <2>4, <2>6 DEF PlacedAt, JoinedAt, PassedAt, JoinOf
  <2>8. QED BY <1>1, <2>1, <2>2, <2>7, EndingKeeps DEF SamplerInv
<1>4. CASE CallDevice
  <2>1. HookStep /\ phase' = phase
    BY <1>4 DEF CallDevice, controlVars
  <2>2. hook' = hook /\ hook # None /\ devices' = devices
    BY <2>1 DEF HookStep, HookAnswered, HookUnanswered, HookPuts, HookDescribes, HookWritesFile,
         HookSpawns, HookStops, HookJoins, Doing
  <2>3. ~Handed'
    BY <2>1, <2>2 DEF SamplerInv, Handed
  <2>4. hook' = "stop" => PlacedAt(at)' /\ JoinedAt(at)'
    BY <1>1, <2>1, <2>2, StopHookStep DEF SamplerInv
  <2>5. DevicesTidy' /\ ThreadsOwned'
    BY <1>1, <2>1, StartHookStep
  <2>6. QED BY <2>2, <2>3, <2>4, <2>5 DEF SamplerInv
<1>5. CASE DeviceRaises
  <2>1. UNCHANGED <<devices, thread>> /\ hook' = None /\ ~Handed'
    BY <1>5 DEF DeviceRaises, HookRaises, Handed
  <2>2. Ending
    BY <1>1, <2>1 DEF Ending, ThreadsOwned
  <2>3. QED BY <1>1, <2>1, <2>2, EndingKeeps DEF SamplerInv, None
<1>6. CASE DevicesCalled
  <2>1. UNCHANGED <<devices, thread>> /\ hook' = None /\ at = Done /\ hook # None
    BY <1>6 DEF DevicesCalled
  <2>2. Ending
    BY <1>1, <2>1 DEF Ending, ThreadsOwned
  <2>3. Handed' => AllEnded
    <3>1. CASE hook = "stop"
      BY <1>1, <2>1, <3>1 DEF SamplerInv, JoinedAt, ThreadsOwned, PassedAt, AllEnded
    <3>2. CASE hook # "stop"
      <4>1. CASE hook = "start"
        BY <1>6, <4>1 DEF DevicesCalled, Handed
      <4>2. QED BY <2>1, <3>2, <4>1 DEF SamplerInv
    <3>3. QED BY <3>1, <3>2
  <2>4. QED BY <1>1, <2>1, <2>2, <2>3, EndingKeeps DEF SamplerInv, None
<1>7. CASE Telemetering
  <2>1. PICK t \in DOMAIN thread : SamplerStep(t)
    BY <1>7 DEF Telemetering
  <2>2. Ending /\ UNCHANGED <<devices, hook, at>>
    BY <1>1, <2>1, SamplersEnd
  <2>3. Handed' <=> Handed
    BY <1>7 DEF Telemetering, controlVars, Handed
  <2>4. hook' = "stop" => PlacedAt(at)' /\ JoinedAt(at)'
    <3>1. PICK a : a = at
      OBVIOUS
    <3>2. hook = "stop" => PlacedAt(a)' /\ JoinedAt(a)'
      BY <1>1, <2>2, <3>1, EndingKeeps DEF SamplerInv
    <3>3. QED BY <2>2, <3>1, <3>2 DEF PlacedAt, JoinedAt, PassedAt, JoinOf
  <2>5. QED BY <1>1, <2>2, <2>3, <2>4, EndingKeeps DEF SamplerInv
<1>8. CASE \/ PostProcess \/ PutRequest \/ FlushRequests \/ RequestsFlushed \/ MoveToNextTask
           \/ TakeMemento \/ FlushAtClose \/ SendComplete \/ Abort \/ BulkAnswered \/ BulkRaises
           \/ BulkAdd \/ OnTaskFinished \/ OnBenchmarkComplete \/ CalculateResults
           \/ TearDown \/ Engine \/ Finished \/ UNCHANGED vars
  BY <1>8, QuietSteps, QuietKeeps
<1>9. QED BY <1>2, <1>3, <1>4, <1>5, <1>6, <1>7, <1>8 DEF Next

\* The samplers of every device are joined before the metrics store is handed
\* over: no error in another device's hook and no order of devices and
\* clusters leaves one running (on_benchmark_stop, SamplerThread.finish).
THEOREM SamplersJoined ==
    Spec => []QuietAtHandover
<1>1. Init => SamplerInv
  BY SamplersInitially
<1>2. SamplerInv /\ [Next]_vars => SamplerInv'
  BY SamplersStep
<1>3. SamplerInv => QuietAtHandover
  BY DEF SamplerInv, Handed, AllEnded, QuietAtHandover
<1>4. QED BY <1>1, <1>2, <1>3, PTL DEF Spec

-----------------------------------------------------------------------------
(* The nodes.                                                                *)

Before == {"down", "starting", "up", "failed"}

After == {"flushing", "results", "stopped"}

IsDiskRecord(r) == r.name = "disk_io_write_bytes"

NodeTypes ==
    /\ current \in Nat \ {0} /\ metric \in Nat \ {0}
    /\ engine \in {"down", "starting", "stopping"} => current <= Len(Nodes)
    /\ DOMAIN process = NodeSet /\ DOMAIN diskIo = NodeSet /\ DOMAIN indexSize = NodeSet
    /\ "node" \in DOMAIN put

\* Nothing is detached, stored or measured before the nodes are stopped.
NothingYet ==
    engine \in Before => /\ found = {} /\ put["node"] = {}
                         /\ \A n \in NodeSet : indexSize[n] # "measured"

\* The counters of a node that was found are closed, and stored only then.
CountersClosed ==
    /\ \A n \in NodeSet \cap found : diskIo[n] \in {"difference", None}
    /\ \A r \in put["node"] : IsDiskRecord(r) => r.by[2] \in NodeSet /\ diskIo[r.by[2]] # None

\* The launcher has stored what node n had.
StoredBy(n) ==
    \E i \in DOMAIN Nodes : n = Nodes[i] /\ (i < current \/ (i = current /\ stage = "store"))

RecordsPast ==
    engine = "stopping" => \A r \in put["node"] : IsDiskRecord(r) => StoredBy(r.by[2])

IndexMeasured ==
    /\ \A n \in NodeSet : indexSize[n] = "measured" => process[n] # "up"
    /\ docker => \A n \in NodeSet : indexSize[n] \notin {"attached", "measured"}

\* The launcher is done with the processes of the nodes before the current one.
ProcessesGone ==
    ~docker =>
        /\ engine = "stopping" =>
              \A i \in DOMAIN Nodes :
                  i < current \/ (i = current /\ stage \in {"measure", "store"}) => process[Nodes[i]] = "gone"
        /\ engine \in After => \A n \in NodeSet : process[n] = "gone"

LauncherInv ==
    NodeTypes /\ NothingYet /\ CountersClosed /\ RecordsPast /\ IndexMeasured /\ ProcessesGone

\* The nodes.
LEMMA NodesNamed ==
    /\ DOMAIN Nodes = 1..Len(Nodes) /\ Len(Nodes) \in Nat \ {0}
    /\ \A i \in DOMAIN Nodes : Nodes[i] \in NodeSet
    /\ \A n \in NodeSet : \E i \in DOMAIN Nodes : n = Nodes[i]
    /\ \A i, j \in DOMAIN Nodes : Nodes[i] = Nodes[j] => i = j
<1>1. Nodes \in Seq(STRING) /\ Nodes # <<>>
  BY LauncherAssumption
<1>2. DOMAIN Nodes = 1..Len(Nodes) /\ Len(Nodes) \in Nat \ {0}
  BY <1>1
<1>3. QED BY <1>2, LauncherAssumption DEF NodeSet, Range

\* Steps of others: at most a bulk request fails.
Elsewhere ==
    /\ UNCHANGED <<current, stage, process, found, diskIo, indexSize, metric, docker>>
    /\ engine' \in {engine, "stop failed"}
    /\ "node" \in DOMAIN put' /\ put'["node"] = put["node"]

LEMMA ElsewhereKeeps ==
    ASSUME LauncherInv, Elsewhere
    PROVE  LauncherInv'
<1>1. NodeTypes' /\ NothingYet'
  BY DEF LauncherInv, NodeTypes, NothingYet, Elsewhere, Before
<1>2. CountersClosed'
  BY DEF LauncherInv, CountersClosed, Elsewhere, IsDiskRecord
<1>3. RecordsPast'
  BY DEF LauncherInv, RecordsPast, Elsewhere, IsDiskRecord, StoredBy
<1>4. IndexMeasured'
  BY DEF LauncherInv, IndexMeasured, Elsewhere
<1>5. ProcessesGone'
  BY DEF LauncherInv, ProcessesGone, Elsewhere, After
<1>6. QED BY <1>1, <1>2, <1>3, <1>4, <1>5 DEF LauncherInv

\* Adding to another store.
LEMMA AddElsewhere ==
    ASSUME NodeTypes, NEW o, o # "node", NEW r, Add(o, r)
    PROVE  "node" \in DOMAIN put' /\ put'["node"] = put["node"]
BY DEF NodeTypes, Add

\* Steps that leave the records of the nodes alone.
LEMMA HooksElsewhere ==
    ASSUME NodeTypes, HookStep \/ HookRaises \/ \E t \in DOMAIN thread : SamplerStep(t)
    PROVE  "node" \in DOMAIN put' /\ put'["node"] = put["node"]
<1>0. UNCHANGED storeVars => put' = put
  BY DEF storeVars
<1>1. CASE \/ HookAnswered \/ HookUnanswered \/ HookWritesFile \/ HookSpawns \/ HookStops
           \/ HookJoins \/ HookRaises
  BY <1>0, <1>1 DEF HookAnswered, HookUnanswered, HookWritesFile, HookSpawns, HookStops, HookJoins,
     HookRaises, NodeTypes
<1>2. CASE HookPuts
  BY <1>0, <1>2, AddElsewhere DEF HookPuts, Put, NodeTypes
<1>3. CASE HookDescribes
  BY <1>0, <1>3 DEF HookDescribes, AddMetaInfo, NodeTypes
<1>4. ASSUME NEW t, SamplerStep(t)
      PROVE  "node" \in DOMAIN put' /\ put'["node"] = put["node"]
  <2>1. CASE Continue(t) \/ RecorderAnswered(t) \/ RecorderUnanswered(t)
    BY <1>0, <2>1 DEF Continue, RecorderAnswered, RecorderUnanswered, NodeTypes
  <2>2. CASE RecorderPuts(t)
    BY <2>2, AddElsewhere DEF RecorderPuts, Put
  <2>3. QED BY <1>4, <2>1, <2>2 DEF SamplerStep
<1>5. QED BY <1>1, <1>2, <1>3, <1>4 DEF HookStep

LEMMA ElsewhereSteps ==
    ASSUME NodeTypes,
           \/ StartBenchmark \/ CallDevice \/ DeviceRaises \/ DevicesCalled
           \/ PostProcess \/ PutRequest \/ FlushRequests \/ RequestsFlushed
           \/ MoveToNextTask \/ StopTelemetry \/ TakeMemento \/ FlushAtClose \/ SendComplete \/ Abort
           \/ BulkAnswered \/ BulkRaises
           \/ BulkAdd \/ OnTaskFinished \/ OnBenchmarkComplete \/ CalculateResults
           \/ Telemetering \/ Finished \/ UNCHANGED vars
    PROVE  Elsewhere
<1>0. /\ UNCHANGED storeVars => put' = put
      /\ UNCHANGED launcherVars =>
            UNCHANGED <<engine, current, stage, process, found, diskIo, indexSize, metric, docker>>
  BY DEF storeVars, launcherVars
<1>1. ASSUME UNCHANGED launcherVars, put' = put
      PROVE  Elsewhere
  BY <1>0, <1>1 DEF Elsewhere, NodeTypes
<1>2. ASSUME UNCHANGED launcherVars, "node" \in DOMAIN put' /\ put'["node"] = put["node"]
      PROVE  Elsewhere
  BY <1>0, <1>2 DEF Elsewhere
<1>3. CASE \/ StartBenchmark \/ DevicesCalled \/ PostProcess \/ RequestsFlushed
           \/ StopTelemetry \/ OnTaskFinished \/ Finished \/ UNCHANGED vars
  BY <1>0, <1>1, <1>3 DEF StartBenchmark, DevicesCalled, PostProcess, RequestsFlushed, StopTelemetry,
     OnTaskFinished, Finished, vars
<1>4. CASE CallDevice \/ DeviceRaises \/ Telemetering
  BY <1>2, <1>4, HooksElsewhere DEF CallDevice, DeviceRaises, Telemetering
<1>5. CASE PutRequest
  BY <1>2, <1>5, AddElsewhere DEF PutRequest, Put
<1>6. CASE FlushRequests \/ FlushAtClose \/ OnBenchmarkComplete
  BY <1>1, <1>6 DEF FlushRequests, FlushAtClose, OnBenchmarkComplete, Flush
<1>7. CASE MoveToNextTask \/ TakeMemento
  BY <1>1, <1>7 DEF MoveToNextTask, TakeMemento, ToExternalizable
<1>8. CASE SendComplete \/ Abort \/ CalculateResults
  BY <1>1, <1>8 DEF SendComplete, Abort, CalculateResults, Close
<1>9. CASE BulkAnswered
  BY <1>1, <1>9 DEF BulkAnswered, BulkSucceeds, BulkRetried
<1>10. CASE BulkRaises
  <2>1. put' = put
    BY <1>10 DEF BulkRaises, BulkFails
  <2>2. QED BY <1>10, <2>1 DEF BulkRaises, Elsewhere, NodeTypes, deviceVars, otherVars
<1>11. CASE BulkAdd
  <2>1. PICK r : Add("orchestrator", r)
    BY <1>11 DEF BulkAdd
  <2>2. UNCHANGED launcherVars
    BY <1>11 DEF BulkAdd
  <2>3. QED BY <1>2, <2>1, <2>2, AddElsewhere
<1>12. QED BY <1>3, <1>4, <1>5, <1>6, <1>7, <1>8, <1>9, <1>10, <1>11

\* Starting the nodes: nothing is stored, found or measured.
LEMMA StartSteps ==
    ASSUME LauncherInv, NEW enabled,
           PrepareNode(enabled) \/ StartProcess \/ LaunchFails \/ AttachToNode
    PROVE  LauncherInv'
<1>1. /\ engine \in {"down", "starting"} /\ engine' \in {"starting", "failed", "up"}
      /\ put' = put /\ found' = found /\ metric' = metric /\ docker' = docker
  BY DEF PrepareNode, StartProcess, LaunchFails, AttachToNode, storeVars, otherVars
<1>2. /\ engine \in Before /\ engine' \in Before /\ engine' # "stopping" /\ engine' \notin After
  BY <1>1 DEF Before, After
<1>3. found = {} /\ put["node"] = {} /\ \A n \in NodeSet : indexSize[n] # "measured"
  BY <1>2 DEF LauncherInv, NothingYet
<1>4. /\ current' \in Nat \ {0} /\ (engine' = "starting" => current' <= Len(Nodes))
      /\ Node \in NodeSet
  <2>1. current \in Nat \ {0} /\ current <= Len(Nodes)
    BY <1>1 DEF LauncherInv, NodeTypes
  <2>2. Node \in NodeSet
    BY <2>1, NodesNamed DEF Node
  <2>3. CASE AttachToNode
    <3>1. /\ current' = current + 1
          /\ engine' = IF current = Len(Nodes) THEN "up" ELSE "starting"
      BY <2>3 DEF AttachToNode
    <3>2. engine' = "starting" => current # Len(Nodes)
      BY <3>1
    <3>3. Len(Nodes) \in Nat
      BY NodesNamed
    <3>4. current' \in Nat \ {0} /\ (engine' = "starting" => current' <= Len(Nodes))
      BY ONLY <2>1, <3>1, <3>2, <3>3
    <3>5. QED BY <2>2, <3>4
  <2>4. CASE current' = current
    BY <2>1, <2>2, <2>4
  <2>5. QED BY <2>3, <2>4 DEF PrepareNode, StartProcess, LaunchFails
<1>5. /\ DOMAIN process' = NodeSet /\ DOMAIN diskIo' = NodeSet /\ DOMAIN indexSize' = NodeSet
      /\ \A n \in NodeSet : indexSize'[n] # "measured"
      /\ docker => indexSize' = indexSize
  <2>1. DOMAIN process = NodeSet /\ DOMAIN diskIo = NodeSet /\ DOMAIN indexSize = NodeSet
    BY DEF LauncherInv, NodeTypes
  <2>2. CASE AttachToNode
    BY <1>3, <2>1, <2>2 DEF AttachToNode
  <2>3. CASE PrepareNode(enabled) \/ StartProcess \/ LaunchFails
    BY <1>3, <2>1, <2>3 DEF PrepareNode, StartProcess, LaunchFails, deviceVars
  <2>4. QED BY <2>2, <2>3
<1>6. NodeTypes'
  BY <1>1, <1>4, <1>5 DEF LauncherInv, NodeTypes
<1>7. NothingYet'
  BY <1>1, <1>3, <1>5 DEF NothingYet
<1>8. CountersClosed' /\ RecordsPast'
  BY <1>1, <1>3 DEF CountersClosed, RecordsPast
<1>9. IndexMeasured'
  BY <1>1, <1>5 DEF LauncherInv, IndexMeasured
<1>10. ProcessesGone'
  BY <1>2 DEF ProcessesGone
<1>11. QED BY <1>6, <1>7, <1>8, <1>9, <1>10 DEF LauncherInv

LEMMA StopBegins ==
    ASSUME LauncherInv, StopEngine
    PROVE  LauncherInv'
<1>1. /\ engine = "up" /\ engine' = "stopping" /\ current' = 1 /\ stage' = "describe"
      /\ UNCHANGED <<process, found, diskIo, indexSize, metric, docker, put>>
  BY DEF StopEngine, deviceVars, otherVars, storeVars
<1>2. found = {} /\ put["node"] = {} /\ \A n \in NodeSet : indexSize[n] # "measured"
  BY <1>1 DEF LauncherInv, NothingYet, Before
<1>3. NodeTypes'
  BY <1>1, NodesNamed DEF LauncherInv, NodeTypes
<1>4. NothingYet' /\ CountersClosed' /\ RecordsPast' /\ IndexMeasured'
  BY <1>1, <1>2 DEF LauncherInv, NothingYet, Before, CountersClosed, RecordsPast, IndexMeasured
<1>5. ProcessesGone'
  BY <1>1, NodesNamed DEF ProcessesGone, After
<1>6. QED BY <1>3, <1>4, <1>5 DEF LauncherInv

\* The launcher is busy with one of the nodes.
LEMMA CurrentNode ==
    ASSUME LauncherInv, engine = "stopping"
    PROVE  current \in DOMAIN Nodes /\ Node = Nodes[current] /\ Node \in NodeSet
BY NodesNamed DEF LauncherInv, NodeTypes, Node

LEMMA DescribeStep ==
    ASSUME LauncherInv, DescribeNode
    PROVE  LauncherInv'
<1>1. /\ engine = "stopping" /\ stage = "describe" /\ stage' = "detach"
      /\ UNCHANGED <<engine, current, process, found, diskIo, indexSize, metric, docker, put>>
  BY DEF DescribeNode, AddMetaInfo, deviceVars, otherVars
<1>2. NodeTypes' /\ NothingYet' /\ CountersClosed' /\ IndexMeasured'
  BY <1>1 DEF LauncherInv, NodeTypes, NothingYet, CountersClosed, IndexMeasured, IsDiskRecord
<1>3. RecordsPast'
  BY <1>1 DEF LauncherInv, RecordsPast, IsDiskRecord, StoredBy
<1>4. ProcessesGone'
  BY <1>1 DEF LauncherInv, ProcessesGone, After
<1>5. QED BY <1>2, <1>3, <1>4 DEF LauncherInv

LEMMA DetachStep ==
    ASSUME LauncherInv, DetachFromNode
    PROVE  LauncherInv'
<1>1. /\ engine = "stopping" /\ stage = "detach" /\ stage' = "terminate"
      /\ found' = found \cup {Node}
      /\ UNCHANGED <<engine, current, process, indexSize, metric, docker, put>>
  BY DEF DetachFromNode, otherVars, storeVars
<1>2. PICK counters : /\ diskIo' = [diskIo EXCEPT ![Node] = counters]
                      /\ counters \in {"difference", None}
  BY DEF DetachFromNode
<1>3. current \in DOMAIN Nodes /\ Node = Nodes[current] /\ Node \in NodeSet
  BY <1>1, CurrentNode
<1>4. DOMAIN diskIo = NodeSet
  BY DEF LauncherInv, NodeTypes
<1>5. /\ DOMAIN diskIo' = NodeSet /\ diskIo'[Node] = counters
      /\ \A n \in NodeSet : n # Node => diskIo'[n] = diskIo[n]
  BY <1>2, <1>3, <1>4
<1>6. NodeTypes' /\ NothingYet' /\ IndexMeasured'
  BY <1>1, <1>5 DEF LauncherInv, NodeTypes, NothingYet, IndexMeasured, Before
<1>7. ASSUME NEW r \in put["node"], IsDiskRecord(r)
      PROVE  r.by[2] \in NodeSet /\ r.by[2] # Node /\ diskIo[r.by[2]] # None
  <2>1. r.by[2] \in NodeSet /\ diskIo[r.by[2]] # None
    BY <1>7 DEF LauncherInv, CountersClosed
  <2>2. StoredBy(r.by[2])
    BY <1>1, <1>7 DEF LauncherInv, RecordsPast
  <2>3. PICK i \in DOMAIN Nodes : r.by[2] = Nodes[i] /\ i < current
    BY <1>1, <2>2 DEF StoredBy
  <2>4. i # current
    BY <1>3, <2>3, NodesNamed
  <2>5. QED BY <1>3, <2>1, <2>3, <2>4, NodesNamed
<1>8. CountersClosed'
  <2>1. \A n \in NodeSet \cap found' : diskIo'[n] \in {"difference", None}
    BY <1>1, <1>2, <1>5 DEF LauncherInv, CountersClosed
  <2>2. \A r \in put'["node"] : IsDiskRecord(r) => r.by[2] \in NodeSet /\ diskIo'[r.by[2]] # None
    BY <1>1, <1>5, <1>7
  <2>3. QED BY <2>1, <2>2 DEF CountersClosed, IsDiskRecord
<1>9. RecordsPast'
  BY <1>1 DEF LauncherInv, RecordsPast, IsDiskRecord, StoredBy
<1>10. ProcessesGone'
  BY <1>1 DEF LauncherInv, ProcessesGone, After
<1>11. QED BY <1>6, <1>8, <1>9, <1>10 DEF LauncherInv

LEMMA MissingStep ==
    ASSUME LauncherInv, ProcessMissing
    PROVE  LauncherInv'
<1>1. /\ engine = "stopping" /\ stage = "detach" /\ stage' = "store" /\ process[Node] = "gone"
      /\ UNCHANGED <<engine, current, process, found, diskIo, indexSize, metric, docker, put>>
  BY DEF ProcessMissing, deviceVars, otherVars, storeVars
<1>2. current \in DOMAIN Nodes /\ Node = Nodes[current] /\ Node \in NodeSet
  BY <1>1, CurrentNode
<1>3. NodeTypes' /\ NothingYet' /\ CountersClosed' /\ IndexMeasured'
  BY <1>1 DEF LauncherInv, NodeTypes, NothingYet, CountersClosed, IndexMeasured, IsDiskRecord
<1>4. RecordsPast'
  BY <1>1 DEF LauncherInv, RecordsPast, IsDiskRecord, StoredBy
<1>5. ProcessesGone'
  BY <1>1, <1>2 DEF LauncherInv, ProcessesGone, After
<1>6. QED BY <1>3, <1>4, <1>5 DEF LauncherInv

LEMMA TerminateStep ==
    ASSUME LauncherInv, Terminate
    PROVE  LauncherInv'
<1>1. /\ engine = "stopping" /\ stage = "terminate" /\ stage' = "measure"
      /\ UNCHANGED <<engine, current, found, diskIo, indexSize, metric, docker, put>>
  BY DEF Terminate, deviceVars, otherVars, storeVars
<1>2. PICK state : /\ process' = [process EXCEPT ![Node] = state]
                   /\ state \in {"gone", process[Node]} /\ (~docker => state = "gone")
  BY DEF Terminate
<1>3. current \in DOMAIN Nodes /\ Node = Nodes[current] /\ Node \in NodeSet
  BY <1>1, CurrentNode
<1>4. DOMAIN process = NodeSet
  BY DEF LauncherInv, NodeTypes
<1>5. /\ DOMAIN process' = NodeSet /\ process'[Node] = state
      /\ \A n \in NodeSet : n # Node => process'[n] = process[n]
  BY <1>2, <1>3, <1>4
<1>6. NodeTypes' /\ NothingYet' /\ CountersClosed'
  BY <1>1, <1>5 DEF LauncherInv, NodeTypes, NothingYet, CountersClosed, IsDiskRecord
<1>7. RecordsPast'
  BY <1>1 DEF LauncherInv, RecordsPast, IsDiskRecord, StoredBy
<1>8. IndexMeasured'
  BY <1>1, <1>2, <1>5 DEF LauncherInv, IndexMeasured
<1>9. ProcessesGone'
  BY <1>1, <1>2, <1>3, <1>5, NodesNamed DEF LauncherInv, ProcessesGone, After
<1>10. QED BY <1>6, <1>7, <1>8, <1>9 DEF LauncherInv

LEMMA MeasureStep ==
    ASSUME LauncherInv, MeasureIndex
    PROVE  LauncherInv'
<1>1. /\ engine = "stopping" /\ stage = "measure" /\ stage' = "store"
      /\ UNCHANGED <<engine, current, process, found, diskIo, metric, docker, put>>
  BY DEF MeasureIndex, otherVars, storeVars
<1>2. current \in DOMAIN Nodes /\ Node = Nodes[current] /\ Node \in NodeSet
  BY <1>1, CurrentNode
<1>3. DOMAIN indexSize = NodeSet
  BY DEF LauncherInv, NodeTypes
<1>4. /\ DOMAIN indexSize' = NodeSet
      /\ indexSize'[Node] = IF indexSize[Node] = "attached" THEN "measured" ELSE indexSize[Node]
      /\ \A n \in NodeSet : n # Node => indexSize'[n] = indexSize[n]
  BY <1>2, <1>3 DEF MeasureIndex
<1>5. NodeTypes' /\ NothingYet' /\ CountersClosed'
  BY <1>1, <1>4 DEF LauncherInv, NodeTypes, NothingYet, CountersClosed, IsDiskRecord, Before
<1>6. RecordsPast'
  BY <1>1 DEF LauncherInv, RecordsPast, IsDiskRecord, StoredBy
<1>7. ~docker => process[Node] = "gone"
  BY <1>1, <1>2 DEF LauncherInv, ProcessesGone
<1>8. IndexMeasured'
  BY <1>1, <1>2, <1>4, <1>7 DEF LauncherInv, IndexMeasured
<1>9. ProcessesGone'
  BY <1>1 DEF LauncherInv, ProcessesGone, After
<1>10. QED BY <1>5, <1>6, <1>8, <1>9 DEF LauncherInv

\* A record of the disk counters is stored only if there are counters.
LEMMA CountersStored ==
    ASSUME metric \in 1..Len(SystemMetrics), SystemMetrics[metric] = "disk_io_write_bytes"
    PROVE  diskIo[Node] # None
<1>1. SUFFICES ASSUME diskIo[Node] = None
               PROVE  FALSE
  OBVIOUS
<1>2. PICK b, c : /\ b = IF indexSize[Node] = "measured" THEN <<"final_index_size_bytes">> ELSE <<>>
                  /\ c = IF docker THEN <<>> ELSE <<"node_startup_time">>
  OBVIOUS
<1>3. PICK S : S = {"final_index_size_bytes", "node_startup_time"}
  OBVIOUS
<1>4. b \in Seq(S) /\ c \in Seq(S) /\ <<>> \in Seq(S)
  <2>1. <<>> \in Seq(S) /\ <<"final_index_size_bytes">> \in Seq(S) /\ <<"node_startup_time">> \in Seq(S)
    BY ONLY <1>3
  <2>2. (b = <<"final_index_size_bytes">> \/ b = <<>>) /\ (c = <<>> \/ c = <<"node_startup_time">>)
    BY <1>2
  <2>3. QED BY ONLY <2>1, <2>2
<1>5. PICK s : s = (<<>> \o b) \o c
  OBVIOUS
<1>6. s \in Seq(S)
  BY <1>4, <1>5
<1>7. SystemMetrics = s
  BY <1>1, <1>2, <1>5 DEF SystemMetrics
<1>8. s[metric] \in S
  BY <1>6, <1>7
<1>9. QED BY <1>3, <1>7, <1>8

LEMMA StoreStep ==
    ASSUME LauncherInv, StoreSystemMetrics
    PROVE  LauncherInv'
<1>1. /\ engine = "stopping" /\ stage = "store" /\ metric' = metric + 1
      /\ UNCHANGED <<engine, current, stage, process, found, diskIo, indexSize, docker>>
  BY DEF StoreSystemMetrics, deviceVars
<1>2. current \in DOMAIN Nodes /\ Node = Nodes[current] /\ Node \in NodeSet
  BY <1>1, CurrentNode
<1>3. PICK x : Add("node", x) /\ x.by = <<"node", Node>> /\ x.name = SystemMetrics[metric]
  BY DEF StoreSystemMetrics, Put
<1>4. "node" \in DOMAIN put /\ metric \in Nat \ {0}
  BY DEF LauncherInv, NodeTypes
<1>5. "node" \in DOMAIN put' /\ put'["node"] = put["node"] \cup {x}
  BY <1>3, <1>4 DEF Add
<1>6. IsDiskRecord(x) => diskIo[Node] # None
  <2>1. SUFFICES ASSUME x.name = "disk_io_write_bytes"
                 PROVE  diskIo[Node] # None
    BY DEF IsDiskRecord
  <2>2. metric <= Len(SystemMetrics)
    BY DEF StoreSystemMetrics
  <2>3. Len(SystemMetrics) \in Nat
    BY DEF SystemMetrics
  <2>4. metric \in 1..Len(SystemMetrics)
    BY ONLY <1>4, <2>2, <2>3
  <2>5. QED BY <1>3, <2>1, <2>4, CountersStored
<1>7. x.by[2] = Node
  BY <1>3
<1>8. NodeTypes' /\ NothingYet' /\ IndexMeasured'
  BY <1>1, <1>4, <1>5 DEF LauncherInv, NodeTypes, NothingYet, IndexMeasured, Before
<1>9. CountersClosed'
  BY <1>1, <1>2, <1>5, <1>6, <1>7 DEF LauncherInv, CountersClosed, IsDiskRecord
<1>10. RecordsPast'
  <2>1. StoredBy(Node)
    BY <1>1, <1>2 DEF StoredBy
  <2>2. \A r \in put'["node"] : IsDiskRecord(r) => StoredBy(r.by[2])
    BY <1>1, <1>5, <1>7, <2>1 DEF LauncherInv, RecordsPast
  <2>3. QED BY <1>1, <2>2 DEF RecordsPast, IsDiskRecord, StoredBy
<1>11. ProcessesGone'
  BY <1>1 DEF LauncherInv, ProcessesGone, After
<1>12. QED BY <1>8, <1>9, <1>10, <1>11 DEF LauncherInv

LEMMA NextNodeStep ==
    ASSUME LauncherInv, NodeStored
    PROVE  LauncherInv'
<1>1. /\ engine = "stopping" /\ stage = "store" /\ stage' = "describe"
      /\ current' = current + 1 /\ metric' = 1
      /\ engine' = IF current = Len(Nodes) THEN "flushing" ELSE "stopping"
      /\ UNCHANGED <<process, found, diskIo, indexSize, docker, put>>
  BY DEF NodeStored, deviceVars, storeVars
<1>2. current \in DOMAIN Nodes /\ Node = Nodes[current] /\ Node \in NodeSet
  BY <1>1, CurrentNode
<1>3. engine' \in {"flushing", "stopping"}
  BY <1>1
<1>4. NodeTypes'
  <2>1. engine' = "stopping" => current # Len(Nodes)
    BY <1>1
  <2>2. current' \in Nat \ {0} /\ (engine' = "stopping" => current' <= Len(Nodes))
    BY <1>1, <1>2, <2>1, NodesNamed
  <2>3. QED BY <1>1, <1>3, <2>2 DEF LauncherInv, NodeTypes
<1>5. NothingYet' /\ CountersClosed' /\ IndexMeasured'
  BY <1>1, <1>3 DEF LauncherInv, NothingYet, Before, CountersClosed, IndexMeasured, IsDiskRecord
<1>6. \A i \in DOMAIN Nodes : i \in Nat /\ (i <= current <=> i < current \/ i = current)
                              /\ (i <= current <=> i < current + 1)
  BY <1>2, NodesNamed
<1>7. RecordsPast'
  <2>1. \A n : StoredBy(n) => StoredBy(n)'
    BY <1>1, <1>6 DEF StoredBy
  <2>2. QED BY <1>1, <2>1 DEF LauncherInv, RecordsPast, IsDiskRecord, StoredBy
<1>8. ProcessesGone'
  <2>1. ~docker => \A i \in DOMAIN Nodes : i < current \/ i = current => process[Nodes[i]] = "gone"
    BY <1>1 DEF LauncherInv, ProcessesGone
  <2>2. engine' = "stopping" /\ ~docker => \A i \in DOMAIN Nodes : i < current' => process[Nodes[i]] = "gone"
    BY <1>1, <1>6, <2>1
  <2>3. engine' = "flushing" /\ ~docker => \A n \in NodeSet : process[n] = "gone"
    <3>1. engine' = "flushing" => current = Len(Nodes)
      BY <1>1
    <3>2. current = Len(Nodes) => \A i \in DOMAIN Nodes : i < current \/ i = current
      BY NodesNamed
    <3>3. QED BY <2>1, <3>1, <3>2, NodesNamed
  <2>4. QED BY <1>1, <1>3, <2>2, <2>3 DEF ProcessesGone, After
<1>9. QED BY <1>4, <1>5, <1>7, <1>8 DEF LauncherInv

LEMMA LastSteps ==
    ASSUME LauncherInv, FlushSystemMetrics \/ StoreSystemResults
    PROVE  LauncherInv'
<1>1. /\ engine \in After /\ engine' \in After
      /\ UNCHANGED <<current, stage, process, found, diskIo, indexSize, metric, docker, put>>
  BY DEF FlushSystemMetrics, StoreSystemResults, Flush, Close, deviceVars, otherVars, After
<1>2. engine' \notin {"down", "starting", "stopping"} /\ engine' \notin Before
  BY <1>1 DEF After, Before
<1>3. NodeTypes' /\ NothingYet' /\ CountersClosed' /\ RecordsPast' /\ IndexMeasured'
  BY <1>1, <1>2 DEF LauncherInv, NodeTypes, NothingYet, CountersClosed, RecordsPast, IndexMeasured,
     IsDiskRecord
<1>4. ProcessesGone'
  BY <1>1, <1>2 DEF LauncherInv, ProcessesGone
<1>5. QED BY <1>3, <1>4 DEF LauncherInv

LEMMA CrashStep ==
    ASSUME LauncherInv, NEW m \in NodeSet, Crash(m)
    PROVE  LauncherInv'
<1>1. /\ process' = [process EXCEPT ![m] = "gone"]
      /\ UNCHANGED <<engine, current, stage, found, diskIo, indexSize, metric, docker, put>>
  BY DEF Crash, deviceVars, storeVars
<1>2. DOMAIN process = NodeSet
  BY DEF LauncherInv, NodeTypes
<1>3. /\ DOMAIN process' = NodeSet
      /\ \A n \in NodeSet : process'[n] = process[n] \/ process'[n] = "gone"
  BY <1>1, <1>2
<1>4. NodeTypes' /\ NothingYet' /\ CountersClosed'
  BY <1>1, <1>3 DEF LauncherInv, NodeTypes, NothingYet, CountersClosed, IsDiskRecord
<1>5. RecordsPast'
  BY <1>1 DEF LauncherInv, RecordsPast, IsDiskRecord, StoredBy
<1>6. IndexMeasured'
  BY <1>1, <1>3 DEF LauncherInv, IndexMeasured
<1>7. ProcessesGone'
  BY <1>1, <1>3, NodesNamed DEF LauncherInv, ProcessesGone
<1>8. QED BY <1>4, <1>5, <1>6, <1>7 DEF LauncherInv

LEMMA LauncherInitially ==
    ASSUME Init
    PROVE  LauncherInv
<1>1. /\ engine = "down" /\ current = 1 /\ metric = 1 /\ found = {}
      /\ process = [n \in NodeSet |-> "absent"] /\ diskIo = [n \in NodeSet |-> None]
      /\ indexSize = [n \in NodeSet |-> None]
      /\ put = [o \in Owners |-> {}]
  BY DEF Init, LauncherInit, StoreInit
<1>2. put["node"] = {} /\ "node" \in DOMAIN put
  BY <1>1 DEF Owners
<1>3. QED BY <1>1, <1>2, NodesNamed DEF LauncherInv, NodeTypes, NothingYet, CountersClosed,
        RecordsPast, IndexMeasured, ProcessesGone, After, None

LEMMA LauncherSteps ==
    ASSUME LauncherInv, [Next]_vars
    PROVE  LauncherInv'
<1>1. CASE TearDown
  BY <1>1, StopBegins DEF TearDown
<1>2. CASE Engine
  <2>1. ASSUME NEW n \in NodeSet, Crash(n)
        PROVE  LauncherInv'
    BY <2>1, CrashStep
  <2>2. CASE LauncherStep(commands)
    BY <2>2, StartSteps, DescribeStep, DetachStep, MissingStep, TerminateStep, MeasureStep,
       StoreStep, NextNodeStep, LastSteps DEF LauncherStep
  <2>3. QED BY <1>2, <2>1, <2>2 DEF Engine
<1>3. CASE \/ StartBenchmark \/ CallDevice \/ DeviceRaises \/ DevicesCalled
           \/ PostProcess \/ PutRequest \/ FlushRequests \/ RequestsFlushed
           \/ MoveToNextTask \/ StopTelemetry \/ TakeMemento \/ FlushAtClose \/ SendComplete \/ Abort
           \/ BulkAnswered \/ BulkRaises
           \/ BulkAdd \/ OnTaskFinished \/ OnBenchmarkComplete \/ CalculateResults
           \/ Telemetering \/ Finished \/ UNCHANGED vars
  <2>1. NodeTypes
    BY DEF LauncherInv
  <2>2. Elsewhere
    BY <1>3, <2>1, ElsewhereSteps
  <2>3. QED BY <2>2, ElsewhereKeeps
<1>4. QED BY <1>1, <1>2, <1>3 DEF Next

\* Whatever the nodes, the processes that end on their own and the requests
\* that fail: bytes written are a difference for a node that was stopped while
\* it ran, an index is measured only after its node has ended, and no process
\* is left running by a stop that went through (ProcessLauncher.stop, DiskIo,
\* IndexSize).
THEOREM SystemMetricsCorrect ==
    Spec => []SystemMetricsTrue
<1>1. Init => LauncherInv
  BY LauncherInitially
<1>2. LauncherInv /\ [Next]_vars => LauncherInv'
  BY LauncherSteps
<1>3. LauncherInv => SystemMetricsTrue
  <2>1. SUFFICES ASSUME LauncherInv
                 PROVE  SystemMetricsTrue
    OBVIOUS
  <2>2. \A r \in put["node"] : r.name = "disk_io_write_bytes" /\ r.by[2] \in found =>
            diskIo[r.by[2]] = "difference"
    BY <2>1 DEF LauncherInv, CountersClosed, IsDiskRecord
  <2>3. \A n \in NodeSet : indexSize[n] = "measured" => process[n] # "up"
    BY <2>1 DEF LauncherInv, IndexMeasured
  <2>4. engine = "stopped" /\ ~docker => \A n \in NodeSet : process[n] = "gone"
    BY <2>1 DEF LauncherInv, ProcessesGone, After
  <2>5. QED BY <2>2, <2>3, <2>4 DEF SystemMetricsTrue
<1>4. QED BY <1>1, <1>2, <1>3, PTL DEF Spec

-----------------------------------------------------------------------------
(* Bags with at most one copy of each element, and messages.                 *)

Unit(b) == b = SetToBag(BagToSet(b))

LEMMA UnitBags ==
    /\ Unit(EmptyBag) /\ BagToSet(EmptyBag) = {}
    /\ \A S : Unit(SetToBag(S)) /\ BagToSet(SetToBag(S)) = S
    /\ \A b : Unit(b) /\ BagToSet(b) = {} => b = EmptyBag
    /\ \A b : Unit(b) => \A r \in BagToSet(b) : b[r] = 1
<1>1. \A S : Unit(SetToBag(S)) /\ BagToSet(SetToBag(S)) = S
  BY DEF Unit, SetToBag, BagToSet
<1>2. Unit(EmptyBag) /\ BagToSet(EmptyBag) = {}
  BY <1>1 DEF EmptyBag
<1>3. \A b : Unit(b) /\ BagToSet(b) = {} => b = EmptyBag
  BY DEF Unit, EmptyBag
<1>4. \A b : Unit(b) => \A r \in BagToSet(b) : b[r] = 1
  BY DEF Unit, SetToBag, BagToSet
<1>5. QED BY <1>1, <1>2, <1>3, <1>4

LEMMA BagSum ==
    ASSUME NEW b, NEW c
    PROVE  /\ BagToSet(b (+) c) = BagToSet(b) \cup BagToSet(c)
           /\ Unit(b) /\ Unit(c) /\ BagToSet(b) \cap BagToSet(c) = {} => Unit(b (+) c)
<1>1. PICK d : d = b (+) c
  OBVIOUS
<1>2. d = [e \in (DOMAIN b) \cup (DOMAIN c) |->
              (IF e \in DOMAIN b THEN b[e] ELSE 0) + (IF e \in DOMAIN c THEN c[e] ELSE 0)]
  BY <1>1 DEF (+)
<1>3. BagToSet(d) = BagToSet(b) \cup BagToSet(c)
  BY <1>2 DEF BagToSet
<1>4. ASSUME Unit(b), Unit(c), BagToSet(b) \cap BagToSet(c) = {}
      PROVE  Unit(d)
  <2>1. (\A e \in DOMAIN b : b[e] = 1) /\ (\A e \in DOMAIN c : c[e] = 1) /\ DOMAIN b \cap DOMAIN c = {}
    BY <1>4, UnitBags DEF BagToSet
  <2>2. \A e \in (DOMAIN b) \cup (DOMAIN c) :
            (IF e \in DOMAIN b THEN b[e] ELSE 0) + (IF e \in DOMAIN c THEN c[e] ELSE 0) = 1
    BY <2>1
  <2>3. d = [e \in (DOMAIN b) \cup (DOMAIN c) |-> 1]
    BY <1>2, <2>2
  <2>4. QED BY <2>3 DEF Unit, SetToBag, BagToSet
<1>5. QED BY <1>1, <1>3, <1>4

LEMMA BagLess ==
    ASSUME NEW b, Unit(b), NEW r \in BagToSet(b)
    PROVE  /\ Unit(b (-) SetToBag({r}))
           /\ BagToSet(b (-) SetToBag({r})) = BagToSet(b) \ {r}
<1>1. PICK c, d : c = SetToBag({r}) /\ d = b (-) c
  OBVIOUS
<1>2. DOMAIN c = {r} /\ c[r] = 1
  BY <1>1 DEF SetToBag
<1>3. PICK g : g = [e \in DOMAIN b |-> IF e \in DOMAIN c THEN b[e] - c[e] ELSE b[e]]
  OBVIOUS
<1>4. d = [e \in {x \in DOMAIN g : g[x] > 0} |-> g[e]]
  BY <1>1, <1>3 DEF (-)
<1>5. \A e \in DOMAIN b : b[e] = 1
  BY UnitBags DEF BagToSet
<1>6. DOMAIN g = DOMAIN b /\ g[r] = 0 /\ \A e \in DOMAIN b : e # r => g[e] = 1
  BY <1>2, <1>3, <1>5 DEF BagToSet
<1>7. {x \in DOMAIN g : g[x] > 0} = DOMAIN b \ {r}
  BY <1>6
<1>8. d = [e \in DOMAIN b \ {r} |-> 1]
  BY <1>4, <1>6, <1>7
<1>9. QED BY <1>1, <1>8 DEF Unit, SetToBag, BagToSet

\* Messages are sequences of anything.
LEMMA SeqDomain ==
    ASSUME NEW s, IsSeq(s)
    PROVE  DOMAIN s = 1..Len(s) /\ Len(s) \in Nat /\ (s # <<>> => 1 \in DOMAIN s /\ Head(s) = s[1])
BY DEF IsSeq

Appended(t, s, x) ==
    /\ IsSeq(t) /\ Len(t) = Len(s) + 1 /\ DOMAIN t = DOMAIN s \cup {Len(s) + 1}
    /\ Len(s) + 1 \notin DOMAIN s /\ Len(s) \in Nat /\ DOMAIN s = 1..Len(s)
    /\ t[Len(s) + 1] = x /\ \A i \in DOMAIN s : t[i] = s[i]

LEMMA SeqAppend ==
    ASSUME NEW s, IsSeq(s), NEW x
    PROVE  Appended(Append(s, x), s, x)
<1>0. PICK t : t = Append(s, x)
  OBVIOUS
<1>1. PICK S : S = ToSet(s) \cup {x}
  OBVIOUS
<1>2. s \in Seq(S) /\ x \in S
  BY <1>1 DEF IsSeq
<1>3. /\ t \in Seq(S) /\ Len(t) = Len(s) + 1 /\ t[Len(s) + 1] = x
      /\ DOMAIN s = 1..Len(s) /\ DOMAIN t = 1..(Len(s) + 1) /\ Len(s) \in Nat
      /\ \A i \in 1..Len(s) : t[i] = s[i]
  BY <1>0, <1>2
<1>4. t \in Seq(ToSet(t))
  BY <1>3 DEF ToSet
<1>5. QED BY <1>0, <1>3, <1>4 DEF Appended, IsSeq

LEMMA SeqTail ==
    ASSUME NEW s, IsSeq(s), s # <<>>, NEW t, t = Tail(s)
    PROVE  /\ IsSeq(t) /\ Len(t) = Len(s) - 1 /\ DOMAIN t = 1..(Len(s) - 1)
           /\ \A i \in DOMAIN t : i + 1 \in DOMAIN s /\ t[i] = s[i + 1]
<1>1. PICK S : S = ToSet(s)
  OBVIOUS
<1>2. s \in Seq(S)
  BY <1>1 DEF IsSeq
<1>3. /\ t \in Seq(S) /\ Len(t) = Len(s) - 1 /\ DOMAIN s = 1..Len(s) /\ Len(s) \in Nat \ {0}
      /\ DOMAIN t = 1..(Len(s) - 1) /\ \A i \in 1..(Len(s) - 1) : t[i] = s[i + 1]
  BY <1>2
<1>4. t \in Seq(ToSet(t))
  <2>1. PICK Q : Q = ToSet(t)
    OBVIOUS
  <2>2. \A i \in 1..Len(t) : t[i] \in Q
    BY <1>3, <2>1 DEF ToSet
  <2>3. t \in Seq(S) /\ Len(t) \in Nat /\ DOMAIN t = 1..Len(t)
    BY <1>3
  <2>4. t \in Seq(Q)
    BY ONLY <2>2, <2>3
  <2>5. QED BY <2>1, <2>4
<1>5. QED BY <1>3, <1>4 DEF IsSeq

\* Its first message is changed.
Replaced(t, s, x) ==
    /\ IsSeq(t) /\ Len(t) = Len(s) /\ DOMAIN t = DOMAIN s /\ t[1] = x
    /\ \A i \in DOMAIN s : i # 1 => t[i] = s[i]

LEMMA SeqFirst ==
    ASSUME NEW s, IsSeq(s), s # <<>>, NEW x
    PROVE  Replaced([s EXCEPT ![1] = x], s, x)
<1>0. PICK t : t = [s EXCEPT ![1] = x]
  OBVIOUS
<1>1. DOMAIN s = 1..Len(s) /\ Len(s) \in Nat /\ 1 \in DOMAIN s
  BY SeqDomain
<1>2. DOMAIN t = DOMAIN s /\ t = [i \in DOMAIN s |-> t[i]] /\ t[1] = x /\ \A i \in DOMAIN s : i # 1 => t[i] = s[i]
  BY <1>0, <1>1
<1>3. IsSeq(t)
  BY <1>2, MappedSeq
<1>4. Len(t) = Len(s)
  BY <1>1, <1>2, <1>3, SeqDomain
<1>5. QED BY <1>0, <1>2, <1>3, <1>4 DEF Replaced

-----------------------------------------------------------------------------
(* What the operations of a store do to its records.                         *)

Held == [o \in Owners |-> stores[o].docs]

StoreShape ==
    /\ DOMAIN stores = Owners /\ \A o \in Owners : "docs" \in DOMAIN stores[o]
    /\ DOMAIN put = Owners

Still == UNCHANGED <<kind, bulk, index, searchable, put, lost, retries, Held>>

Adding(o, r) ==
    /\ UNCHANGED <<kind, bulk, index, searchable, retries>>
    /\ put' = [put EXCEPT ![o] = @ \cup {r}]
    /\ \/ Held' = [Held EXCEPT ![o] = @ (+) SetToBag({r})] /\ lost' = lost
       \/ Held' = Held /\ lost' = lost \cup {r}

Externalizing(short) ==
    /\ UNCHANGED <<kind, bulk, index, searchable, put, retries>>
    /\ short => kind = "in-memory"
    /\ Held' = IF kind = "opensearch" THEN Held ELSE [Held EXCEPT !["load"] = EmptyBag]
    /\ lost' = IF short THEN lost \cup BagToSet(Held["load"]) ELSE lost
    /\ Externalized(short) = IF kind = "opensearch" \/ short THEN EmptyBag ELSE Held["load"]

Flushing(o, refresh) ==
    /\ UNCHANGED <<kind, index, put, lost, retries, Held>>
    /\ bulk = NoBulk
    /\ \/ /\ kind = "in-memory" \/ Held[o] = EmptyBag
          /\ bulk' = NoBulk
          /\ searchable' = IF refresh THEN index ELSE searchable
       \/ /\ kind # "in-memory" /\ Held[o] # EmptyBag
          /\ bulk' = [store |-> o, attempt |-> 1, sent |-> Held[o], refresh |-> refresh]
          /\ searchable' = searchable

Succeeding ==
    /\ UNCHANGED <<kind, put, lost, retries>>
    /\ bulk # NoBulk /\ bulk' = NoBulk
    /\ index' \in {index (+) bulk.sent, index (+) Held[bulk.store]}
    /\ Held' = [Held EXCEPT ![bulk.store] = EmptyBag]
    /\ searchable' = IF bulk.refresh THEN index' ELSE searchable

\* Whatever the index took of the request.
Applying == index' \in {index (+) EmptyBag, index (+) bulk.sent, index (+) Held[bulk.store]}

Retrying ==
    /\ UNCHANGED <<kind, put, lost, searchable, Held>>
    /\ bulk # NoBulk /\ Applying
    /\ {"store", "sent", "refresh"} \subseteq DOMAIN bulk'
    /\ bulk'.store = bulk.store /\ bulk'.refresh = bulk.refresh /\ bulk'.sent = Held[bulk.store]
    /\ retries' = retries + 1

Failing ==
    /\ UNCHANGED <<kind, put, lost, searchable, retries, Held>>
    /\ bulk # NoBulk /\ bulk' = NoBulk /\ Applying

LEMMA StillEffect ==
    ASSUME StoreShape, UNCHANGED storeVars
    PROVE  StoreShape' /\ Still
<1>1. stores' = stores /\ UNCHANGED <<kind, bulk, index, searchable, put, lost, retries>>
  BY DEF storeVars
<1>2. QED BY <1>1 DEF StoreShape, Still, Held

\* A store of which the records stay.
LEMMA OtherFields ==
    ASSUME StoreShape, DOMAIN stores' = Owners, put' = put,
           \A o \in Owners : "docs" \in DOMAIN stores'[o] /\ stores'[o].docs = stores[o].docs
    PROVE  StoreShape' /\ Held' = Held
BY DEF StoreShape, Held

LEMMA MetaEffect ==
    ASSUME StoreShape, NEW o \in Owners, (\E key : AddMetaInfo(o, key)) \/ Close(o)
    PROVE  StoreShape' /\ Still
<1>1. UNCHANGED <<kind, bulk, index, searchable, put, lost, retries>>
  BY DEF AddMetaInfo, Close
<1>2. o \in DOMAIN stores /\ "docs" \in DOMAIN stores[o]
  BY DEF StoreShape
<1>3. PICK x : stores' = [stores EXCEPT ![o] = x] /\ "docs" \in DOMAIN x /\ x.docs = stores[o].docs
  <2>1. CASE \E key : AddMetaInfo(o, key)
    <3>1. PICK key : stores' = [stores EXCEPT ![o] = [stores[o] EXCEPT !.meta = @ \cup {key}]]
      BY <1>2, <2>1 DEF AddMetaInfo
    <3>2. PICK x : x = [stores[o] EXCEPT !.meta = @ \cup {key}]
      OBVIOUS
    <3>3. "docs" \in DOMAIN x /\ x.docs = stores[o].docs
      BY <1>2, <3>2
    <3>4. QED BY <3>1, <3>2, <3>3
  <2>2. CASE Close(o)
    <3>1. PICK x : x = [[stores[o] EXCEPT !.meta = {}] EXCEPT !.open = FALSE]
      OBVIOUS
    <3>2. stores' = [stores EXCEPT ![o] = x]
      BY <1>2, <2>2, <3>1 DEF Close
    <3>3. "docs" \in DOMAIN x /\ x.docs = stores[o].docs
      BY <1>2, <3>1
    <3>4. QED BY <3>2, <3>3
  <2>3. QED BY <2>1, <2>2
<1>4. /\ DOMAIN stores' = Owners
      /\ \A p \in Owners : "docs" \in DOMAIN stores'[p] /\ stores'[p].docs = stores[p].docs
  BY <1>3 DEF StoreShape
<1>5. QED BY <1>1, <1>4, OtherFields DEF Still

\* A store of which the records change.
LEMMA HeldChanges ==
    ASSUME StoreShape, DOMAIN put' = Owners, NEW o \in Owners, NEW x, "docs" \in DOMAIN x,
           stores' = [stores EXCEPT ![o] = x]
    PROVE  StoreShape' /\ Held' = [Held EXCEPT ![o] = x.docs]
<1>1. /\ DOMAIN stores' = Owners /\ stores'[o] = x
      /\ \A p \in Owners : p # o => stores'[p] = stores[p]
  BY DEF StoreShape
<1>2. StoreShape'
  BY <1>1 DEF StoreShape
<1>3. \A p \in Owners : stores'[p].docs = IF p = o THEN x.docs ELSE stores[p].docs
  BY <1>1
<1>4. Held' = [p \in Owners |-> IF p = o THEN x.docs ELSE stores[p].docs]
  BY <1>3 DEF Held
<1>5. [Held EXCEPT ![o] = x.docs] = [p \in Owners |-> IF p = o THEN x.docs ELSE stores[p].docs]
  BY DEF Held
<1>6. QED BY <1>2, <1>4, <1>5

LEMMA AddEffect ==
    ASSUME StoreShape, NEW o \in Owners, NEW r, Add(o, r)
    PROVE  StoreShape' /\ Adding(o, r)
<1>1. PICK short : /\ stores' = [stores EXCEPT ![o] = Added(stores[o], r, short)]
                   /\ lost' = IF stores[o].full \/ short THEN lost \cup {r} ELSE lost
                   /\ put' = [put EXCEPT ![o] = @ \cup {r}]
                   /\ UNCHANGED <<kind, bulk, index, searchable, retries>>
  BY DEF Add
<1>2. o \in DOMAIN stores /\ "docs" \in DOMAIN stores[o] /\ Held[o] = stores[o].docs
  BY DEF StoreShape, Held
<1>3. DOMAIN put' = Owners
  BY <1>1 DEF StoreShape
<1>4. PICK x : x = Added(stores[o], r, short)
  OBVIOUS
<1>5. CASE stores[o].full \/ short
  <2>1. x = [stores[o] EXCEPT !.full = TRUE]
    BY <1>4, <1>5 DEF Added
  <2>2. "docs" \in DOMAIN x /\ x.docs = Held[o]
    BY <1>2, <2>1
  <2>3. StoreShape' /\ Held' = [Held EXCEPT ![o] = Held[o]]
    BY <1>1, <1>3, <1>4, <2>2, HeldChanges
  <2>4. Held' = Held
    BY <2>3 DEF Held
  <2>5. QED BY <1>1, <1>5, <2>3, <2>4 DEF Adding
<1>6. CASE ~(stores[o].full \/ short)
  <2>1. PICK b, c : b = stores[o].docs (+) SetToBag({r}) /\ c = IF kind = "in-memory" THEN stores[o].count + 1 ELSE stores[o].count
    OBVIOUS
  <2>2. x = [[stores[o] EXCEPT !.docs = b] EXCEPT !.count = c]
    BY <1>2, <1>4, <1>6, <2>1 DEF Added
  <2>3. "docs" \in DOMAIN x /\ x.docs = Held[o] (+) SetToBag({r})
    BY <1>2, <2>1, <2>2
  <2>4. StoreShape' /\ Held' = [Held EXCEPT ![o] = Held[o] (+) SetToBag({r})]
    BY <1>1, <1>3, <1>4, <2>3, HeldChanges
  <2>5. Held' = [Held EXCEPT ![o] = @ (+) SetToBag({r})]
    BY <2>4 DEF Held
  <2>6. QED BY <1>1, <1>6, <2>4, <2>5 DEF Adding
<1>7. QED BY <1>5, <1>6

LEMMA ExternalizeEffect ==
    ASSUME StoreShape, NEW short, ToExternalizable(short)
    PROVE  StoreShape' /\ Externalizing(short)
<1>1. "load" \in Owners /\ "load" \in DOMAIN stores /\ "docs" \in DOMAIN stores["load"]
      /\ Held["load"] = stores["load"].docs
  BY DEF StoreShape, Held, Owners
<1>2. UNCHANGED <<kind, bulk, index, searchable, put, retries>>
  BY DEF ToExternalizable
<1>3. short => kind = "in-memory"
  BY DEF ToExternalizable, Memory
<1>4. StoreShape' /\ Held' = IF kind = "opensearch" THEN Held ELSE [Held EXCEPT !["load"] = EmptyBag]
  <2>1. CASE kind = "opensearch"
    <3>1. stores' = stores
      BY <2>1 DEF ToExternalizable
    <3>2. QED BY <1>2, <2>1, <3>1 DEF StoreShape, Held
  <2>2. CASE kind # "opensearch"
    <3>1. PICK x : x = [[[stores["load"] EXCEPT !.docs = EmptyBag] EXCEPT !.count = 0] EXCEPT !.full = FALSE]
      OBVIOUS
    <3>2. stores' = [stores EXCEPT !["load"] = x]
      BY <1>1, <2>2, <3>1 DEF ToExternalizable
    <3>3. "docs" \in DOMAIN x /\ x.docs = EmptyBag
      BY <1>1, <3>1
    <3>4. DOMAIN put' = Owners
      BY <1>2 DEF StoreShape
    <3>5. QED BY <1>1, <2>2, <3>2, <3>3, <3>4, HeldChanges
  <2>3. QED BY <2>1, <2>2
<1>5. lost' = IF short THEN lost \cup BagToSet(Held["load"]) ELSE lost
  BY <1>1 DEF ToExternalizable
<1>6. Externalized(short) = IF kind = "opensearch" \/ short THEN EmptyBag ELSE Held["load"]
  BY <1>1 DEF Externalized
<1>7. QED BY <1>2, <1>3, <1>4, <1>5, <1>6 DEF Externalizing

LEMMA FlushEffect ==
    ASSUME StoreShape, NEW o \in Owners, NEW refresh, Flush(o, refresh)
    PROVE  StoreShape' /\ Flushing(o, refresh)
<1>1. stores' = stores /\ UNCHANGED <<kind, index, put, lost, retries>> /\ bulk = NoBulk
  BY DEF Flush
<1>2. StoreShape' /\ Held' = Held /\ Held[o] = stores[o].docs
  BY <1>1 DEF StoreShape, Held
<1>3. CASE kind = "in-memory" \/ Held[o] = EmptyBag
  BY <1>1, <1>2, <1>3 DEF Flush, Flushing
<1>4. CASE ~(kind = "in-memory" \/ Held[o] = EmptyBag)
  <2>1. bulk' = [store |-> o, attempt |-> 1, sent |-> Held[o], refresh |-> refresh]
    BY <1>2, <1>4 DEF Flush
  <2>2. bulk' # NoBulk
    <3>1. bulk'.store = o /\ NoBulk.store = None
      BY <2>1 DEF NoBulk
    <3>2. o # None
      BY DEF Owners, None
    <3>3. QED BY <3>1, <3>2
  <2>3. searchable' = searchable
    BY <2>2 DEF Flush
  <2>4. QED BY <1>1, <1>2, <1>4, <2>1, <2>3 DEF Flushing
<1>5. QED BY <1>3, <1>4

LEMMA BulkEffect ==
    ASSUME StoreShape, {"store", "sent", "refresh"} \subseteq DOMAIN bulk, bulk.store \in Owners
    PROVE  /\ BulkSucceeds => StoreShape' /\ Succeeding
           /\ BulkRetried => StoreShape' /\ Retrying
           /\ BulkFails => StoreShape' /\ Failing
<1>1. /\ bulk.store \in DOMAIN stores /\ "docs" \in DOMAIN stores[bulk.store]
      /\ Held[bulk.store] = stores[bulk.store].docs
  BY DEF StoreShape, Held
<1>2. Sendable \subseteq {bulk.sent, Held[bulk.store]}
  BY <1>1 DEF Sendable
<1>3. ASSUME BulkSucceeds
      PROVE  StoreShape' /\ Succeeding
  <2>1. PICK o \in Owners : o = bulk.store
    OBVIOUS
  <2>2. PICK x : x = [stores[o] EXCEPT !.docs = EmptyBag]
    OBVIOUS
  <2>3. stores' = [stores EXCEPT ![o] = x] /\ "docs" \in DOMAIN x /\ x.docs = EmptyBag
    BY <1>1, <1>3, <2>1, <2>2 DEF BulkSucceeds
  <2>4. DOMAIN put' = Owners
    BY <1>3 DEF BulkSucceeds, StoreShape
  <2>5. StoreShape' /\ Held' = [Held EXCEPT ![o] = EmptyBag]
    BY <2>3, <2>4, HeldChanges
  <2>6. index' \in {index (+) bulk.sent, index (+) Held[bulk.store]}
    BY <1>2, <1>3 DEF BulkSucceeds
  <2>7. QED BY <1>3, <2>1, <2>5, <2>6 DEF BulkSucceeds, Succeeding
<1>4. ASSUME \E applied \in Applicable : index' = index (+) applied
      PROVE  Applying
  BY <1>2, <1>4 DEF Applicable, Applying
<1>5. ASSUME stores' = stores, put' = put
      PROVE  StoreShape' /\ Held' = Held
  BY <1>5 DEF StoreShape, Held
<1>6. ASSUME BulkRetried
      PROVE  StoreShape' /\ Retrying
  <2>1. /\ UNCHANGED <<kind, stores, put, lost, searchable>> /\ bulk # NoBulk
        /\ retries' = retries + 1
        /\ \E applied \in Applicable : index' = index (+) applied
    BY <1>6 DEF BulkRetried
  <2>2. bulk' = [bulk EXCEPT !.attempt = @ + 1, !.sent = stores[bulk.store].docs]
    BY <1>6 DEF BulkRetried
  <2>3. PICK b : b = [bulk EXCEPT !.attempt = @ + 1]
    OBVIOUS
  <2>4. {"store", "sent", "refresh"} \subseteq DOMAIN b /\ b.store = bulk.store /\ b.refresh = bulk.refresh
    BY <2>3
  <2>5. bulk' = [b EXCEPT !.sent = Held[bulk.store]]
    BY <1>1, <2>2, <2>3
  <2>6. /\ {"store", "sent", "refresh"} \subseteq DOMAIN bulk'
        /\ bulk'.store = bulk.store /\ bulk'.refresh = bulk.refresh /\ bulk'.sent = Held[bulk.store]
    BY <2>4, <2>5
  <2>7. QED BY <1>4, <1>5, <2>1, <2>6 DEF Retrying
<1>7. ASSUME BulkFails
      PROVE  StoreShape' /\ Failing
  BY <1>4, <1>5, <1>7 DEF BulkFails, Failing
<1>8. QED BY <1>3, <1>6, <1>7

-----------------------------------------------------------------------------
(* The load generator, the orchestrator and the builder in step.             *)

Broken == phase \in {"failed", "aborting", "aborted"}

\* The load generator's store is in use.
Open ==
    phase \in {"idle", "starting", "measuring", "processing", "flushing", "step over", "stopping", "handover"}

\* Messages to the orchestrator: the last one is the last.
MailboxShape ==
    /\ IsSeq(mailbox)
    /\ \A i \in DOMAIN mailbox :
          /\ {"docs", "last"} \subseteq DOMAIN mailbox[i]
          /\ mailbox[i].last => i = Len(mailbox) /\ phase = "complete"
    /\ outcome # None => phase = "complete" /\ mailbox = <<>>

\* A bulk request is sent by the load generator or the builder, which wait
\* for it.
BulkShape ==
    bulk # NoBulk =>
        /\ kind = "opensearch"
        /\ {"store", "sent", "refresh"} \subseteq DOMAIN bulk
        /\ bulk.store \in {"load", "node"}
        /\ bulk.store = "load" => phase \in {"flushing", "closed", "aborting"}
        /\ bulk.store = "node" => engine = "results"

\* Tasks and their samples.
SamplesShape ==
    /\ IsSeq(samples) /\ step \in DOMAIN samples /\ taken \in Nat
    /\ \A i, j \in DOMAIN samples : samples[i].task = samples[j].task => i = j

\* The devices are called at the start and at the end, and the nodes are
\* stopped when the benchmark is over.
PhasesFit ==
    /\ hook \in {None, "start", "stop"}
    /\ hook = "start" => phase = "starting"
    /\ hook = "stop" => phase = "stopping"
    /\ engine \notin Before =>
          phase = "aborted" \/ (phase = "complete" /\ outcome \in {"error", "published"})

\* An OpenSearch store hands nothing over.
NoMementos ==
    kind = "opensearch" => /\ memento = EmptyBag /\ Held["orchestrator"] = EmptyBag
                           /\ \A i \in DOMAIN mailbox : mailbox[i].docs = EmptyBag

ControlInv ==
    /\ kind \in {"in-memory", "opensearch"} /\ retries \in Nat
    /\ StoreShape /\ MailboxShape /\ BulkShape /\ SamplesShape /\ PhasesFit /\ NoMementos

\* A step that does nothing to the records.
Resting ==
    /\ Still /\ UNCHANGED <<memento, mailbox, samples, step, taken>>
    /\ \/ phase' = phase
       \/ Open /\ (Open' \/ Broken')
       \/ Broken /\ Broken'
    /\ bulk.store = "load" => phase' = phase
    /\ bulk.store = "node" => engine' = engine
    /\ engine' = engine \/ "stop failed" \notin {engine, engine'}
    /\ outcome' # None => outcome # None

LEMMA NoBulkStore ==
    NoBulk.store = None /\ None \notin {"load", "node", "start", "stop"}
BY DEF NoBulk, None

\* Who waits for a bulk request.
LEMMA BulkWaited ==
    ASSUME BulkShape
    PROVE  /\ bulk.store = "load" => phase \in {"flushing", "closed", "aborting"}
           /\ bulk.store = "node" => engine = "results"
BY NoBulkStore DEF BulkShape

\* Hooks that put no record.
LEMMA HookRests ==
    ASSUME StoreShape, HookStep
    PROVE  \/ StoreShape' /\ Still
           \/ \E r : /\ Add("load", r) /\ r.by = <<hook, Command>> /\ r.n = at
                     /\ r.racing = (bulk.store = "load")
<1>1. CASE \/ HookAnswered \/ HookUnanswered \/ HookWritesFile \/ HookSpawns \/ HookStops \/ HookJoins
  BY <1>1, StillEffect DEF HookAnswered, HookUnanswered, HookWritesFile, HookSpawns, HookStops, HookJoins
<1>2. CASE HookDescribes
  <2>1. "load" \in Owners
    BY DEF Owners
  <2>2. QED BY <1>2, <2>1, StillEffect, MetaEffect DEF HookDescribes
<1>3. CASE HookPuts
  <2>1. CASE UNCHANGED storeVars
    BY <2>1, StillEffect
  <2>2. CASE Put("load", <<hook, Command>>, at, Current.what, None, Measured(1))
    BY <2>2 DEF Put
  <2>3. QED BY <1>3, <2>1, <2>2 DEF HookPuts
<1>4. QED BY <1>1, <1>2, <1>3 DEF HookStep

LEMMA DeviceRests ==
    ASSUME ControlInv, CallDevice
    PROVE  \/ StoreShape' /\ Resting
           \/ \E r : /\ Add("load", r) /\ r.by = <<hook, Command>> /\ r.n = at
                     /\ r.racing = (bulk.store = "load")
<1>1. StoreShape
  BY DEF ControlInv
<1>2. HookStep /\ UNCHANGED <<memento, mailbox, samples, step, taken, phase, outcome, engine>>
  BY DEF CallDevice, controlVars, launcherVars
<1>3. QED BY <1>1, <1>2, HookRests DEF Resting

LEMMA SamplerRests ==
    ASSUME ControlInv, NEW t, SamplerStep(t), UNCHANGED <<controlVars, launcherVars>>
    PROVE  \/ StoreShape' /\ Resting
           \/ RecorderPuts(t)
<1>1. StoreShape
  BY DEF ControlInv
<1>2. UNCHANGED <<memento, mailbox, samples, step, taken, phase, outcome, engine>>
  BY DEF controlVars, launcherVars
<1>3. CASE Continue(t) \/ RecorderAnswered(t) \/ RecorderUnanswered(t)
  <2>1. UNCHANGED storeVars
    BY <1>3 DEF Continue, RecorderAnswered, RecorderUnanswered
  <2>2. QED BY <1>1, <1>2, <2>1, StillEffect DEF Resting
<1>4. QED BY <1>3 DEF SamplerStep

LEMMA EngineRests ==
    ASSUME ControlInv, Engine
    PROVE  \/ StoreShape' /\ Resting
           \/ StoreSystemMetrics \/ FlushSystemMetrics
<1>1. StoreShape /\ BulkShape
  BY DEF ControlInv
<1>2. UNCHANGED <<memento, mailbox, samples, step, taken, phase, outcome>>
  BY DEF Engine, controlVars
<1>3. bulk.store = "node" => engine = "results"
  BY <1>1, BulkWaited
<1>4. "node" \in Owners
  BY DEF Owners
<1>5. CASE \/ PrepareNode(commands) \/ StartProcess \/ LaunchFails \/ AttachToNode
  <2>1. UNCHANGED storeVars
    BY <1>5 DEF PrepareNode, StartProcess, LaunchFails, AttachToNode
  <2>2. engine \in {"down", "starting"} /\ engine' \in {"starting", "failed", "up"}
    BY <1>5 DEF PrepareNode, StartProcess, LaunchFails, AttachToNode
  <2>3. QED BY <1>1, <1>2, <1>3, <2>1, <2>2, StillEffect DEF Resting
<1>6. CASE DescribeNode
  <2>1. engine' = engine /\ AddMetaInfo("node", Node)
    BY <1>6 DEF DescribeNode
  <2>2. QED BY <1>1, <1>2, <1>4, <2>1, MetaEffect DEF Resting
<1>7. CASE DetachFromNode \/ ProcessMissing \/ Terminate \/ MeasureIndex
  <2>1. UNCHANGED storeVars /\ engine' = engine
    BY <1>7 DEF DetachFromNode, ProcessMissing, Terminate, MeasureIndex
  <2>2. QED BY <1>1, <1>2, <2>1, StillEffect DEF Resting
<1>8. CASE NodeStored
  <2>1. UNCHANGED storeVars /\ engine = "stopping" /\ engine' \in {"flushing", "stopping"}
    BY <1>8 DEF NodeStored
  <2>2. QED BY <1>1, <1>2, <1>3, <2>1, StillEffect DEF Resting
<1>9. CASE StoreSystemResults
  <2>1. Close("node") /\ engine = "results" /\ engine' = "stopped" /\ bulk.store # "node"
    BY <1>9 DEF StoreSystemResults
  <2>2. QED BY <1>1, <1>2, <1>4, <2>1, MetaEffect DEF Resting
<1>10. ASSUME NEW n, Crash(n)
       PROVE  StoreShape' /\ Resting
  <2>1. UNCHANGED storeVars /\ engine' = engine
    BY <1>10 DEF Crash
  <2>2. QED BY <1>1, <1>2, <2>1, StillEffect DEF Resting
<1>11. QED BY <1>5, <1>6, <1>7, <1>8, <1>9, <1>10 DEF Engine, LauncherStep

\* The other steps that do nothing to the records.
Plainly ==
    \/ StartBenchmark \/ DeviceRaises \/ DevicesCalled \/ PostProcess \/ RequestsFlushed
    \/ StopTelemetry \/ Abort \/ CalculateResults \/ TearDown \/ Finished \/ UNCHANGED vars

LEMMA PlainRests ==
    ASSUME ControlInv, Plainly
    PROVE  StoreShape' /\ Resting
<1>1. StoreShape /\ BulkShape /\ MailboxShape /\ PhasesFit
  BY DEF ControlInv
<1>2. /\ bulk.store = "load" => phase \in {"flushing", "closed", "aborting"}
      /\ bulk.store = "node" => engine = "results"
  BY <1>1, BulkWaited
<1>3. {"load", "orchestrator"} \subseteq Owners
  BY DEF Owners
<1>4. UNCHANGED launcherVars => engine' = engine
  BY DEF launcherVars
<1>5. hook # None => phase \in {"starting", "stopping"}
  BY <1>1 DEF PhasesFit
<1>6. UNCHANGED controlVars => UNCHANGED <<memento, mailbox, samples, step, taken, phase, outcome>>
  BY DEF controlVars
<1>7. CASE StartBenchmark \/ PostProcess \/ StopTelemetry
  <2>1. /\ UNCHANGED <<memento, mailbox, samples, step, taken, outcome, engine>> /\ UNCHANGED storeVars
        /\ phase \in {"idle", "measuring", "step over"}
        /\ phase' \in {"starting", "processing", "step over", "stopping"}
    BY <1>4, <1>7 DEF StartBenchmark, PostProcess, StopTelemetry, ControlUnchanged
  <2>2. Open /\ Open'
    BY <2>1 DEF Open
  <2>3. QED BY <1>1, <1>2, <2>1, <2>2, StillEffect DEF Resting
<1>8. CASE RequestsFlushed
  <2>1. /\ UNCHANGED <<memento, mailbox, samples, step, taken, outcome, engine>> /\ UNCHANGED storeVars
        /\ phase = "flushing" /\ bulk = NoBulk /\ phase' \in {"step over", "measuring"}
    BY <1>4, <1>8 DEF RequestsFlushed, ControlUnchanged
  <2>2. Open /\ Open'
    BY <2>1 DEF Open
  <2>3. bulk.store # "load"
    BY <2>1, NoBulkStore
  <2>4. QED BY <1>1, <2>1, <2>2, <2>3, StillEffect DEF Resting
<1>9. CASE DeviceRaises
  <2>1. /\ UNCHANGED <<memento, mailbox, samples, step, taken, outcome, engine>> /\ UNCHANGED storeVars
        /\ hook # None /\ phase' = "failed"
    BY <1>4, <1>9 DEF DeviceRaises, HookRaises, Doing, ControlUnchanged
  <2>2. Open /\ Broken' /\ bulk.store # "load"
    BY <1>2, <1>5, <2>1 DEF Open, Broken
  <2>3. QED BY <1>1, <2>1, <2>2, StillEffect DEF Resting
<1>10. CASE DevicesCalled
  <2>1. /\ UNCHANGED <<memento, mailbox, samples, step, taken, outcome, engine>> /\ UNCHANGED storeVars
        /\ hook # None /\ phase' \in {"measuring", "handover"}
    BY <1>4, <1>10 DEF DevicesCalled, ControlUnchanged
  <2>2. Open /\ Open' /\ bulk.store # "load"
    BY <1>2, <1>5, <2>1 DEF Open
  <2>3. QED BY <1>1, <2>1, <2>2, StillEffect DEF Resting
<1>11. CASE Abort
  <2>1. /\ UNCHANGED <<memento, mailbox, samples, step, taken, outcome, engine>> /\ Close("load")
        /\ phase = "aborting" /\ phase' = "aborted" /\ bulk = NoBulk
    BY <1>4, <1>11 DEF Abort, ControlUnchanged
  <2>2. Broken /\ Broken' /\ bulk.store # "load"
    BY <2>1, NoBulkStore DEF Broken
  <2>3. QED BY <1>1, <1>3, <2>1, <2>2, MetaEffect DEF Resting
<1>12. CASE CalculateResults
  <2>1. /\ UNCHANGED <<memento, mailbox, samples, step, taken, phase, engine>> /\ Close("orchestrator")
        /\ outcome = "flushed"
    BY <1>4, <1>12 DEF CalculateResults
  <2>2. outcome # None
    BY <2>1 DEF None
  <2>3. QED BY <1>1, <1>3, <2>1, <2>2, MetaEffect DEF Resting
<1>13. CASE TearDown
  <2>1. UNCHANGED storeVars /\ UNCHANGED controlVars /\ engine = "up" /\ engine' = "stopping"
    BY <1>13 DEF TearDown, StopEngine
  <2>2. QED BY <1>1, <1>2, <1>6, <2>1, StillEffect DEF Resting
<1>14. CASE Finished \/ UNCHANGED vars
  <2>1. UNCHANGED storeVars /\ UNCHANGED controlVars /\ UNCHANGED launcherVars
    BY <1>14 DEF Finished, vars
  <2>2. QED BY <1>1, <1>4, <1>6, <2>1, StillEffect DEF Resting
<1>15. QED BY <1>7, <1>8, <1>9, <1>10, <1>11, <1>12, <1>13, <1>14 DEF Plainly

LEMMA PhasesStep ==
    ASSUME ControlInv, [Next]_vars
    PROVE  PhasesFit'
<1>1. BulkShape /\ MailboxShape /\ PhasesFit
  BY DEF ControlInv
<1>2. UNCHANGED telemetryVars => hook' = hook
  BY DEF telemetryVars
<1>3. UNCHANGED launcherVars => engine' = engine
  BY DEF launcherVars
<1>4. UNCHANGED controlVars => phase' = phase /\ outcome' = outcome
  BY DEF controlVars
<1>5. ASSUME UNCHANGED <<hook, phase, engine, outcome>>
      PROVE  PhasesFit'
  BY <1>1, <1>5 DEF PhasesFit
<1>6. ASSUME phase \notin {"starting", "stopping", "aborted", "complete"}, UNCHANGED <<hook, engine>>
      PROVE  PhasesFit'
  BY <1>1, <1>6 DEF PhasesFit
<1>7. CASE StartBenchmark
  <2>1. hook' = "start" /\ phase' = "starting" /\ engine' = engine /\ engine = "up"
    BY <1>3, <1>7 DEF StartBenchmark, Begin
  <2>2. QED BY <2>1 DEF PhasesFit, Before
<1>8. CASE StopTelemetry
  <2>1. hook' = "stop" /\ phase' = "stopping" /\ engine' = engine /\ phase = "step over"
    BY <1>3, <1>8 DEF StopTelemetry, Begin
  <2>2. QED BY <1>1, <2>1 DEF PhasesFit
<1>9. CASE CallDevice
  <2>1. hook' = hook
    BY <1>9 DEF CallDevice, HookStep, HookAnswered, HookUnanswered, HookPuts, HookDescribes, HookWritesFile,
         HookSpawns, HookStops, HookJoins
  <2>2. QED BY <1>3, <1>4, <1>5, <1>9, <2>1 DEF CallDevice
<1>10. CASE DeviceRaises \/ DevicesCalled
  <2>1. hook' = None /\ engine' = engine /\ hook # None
    BY <1>3, <1>10 DEF DeviceRaises, DevicesCalled, HookRaises, Doing
  <2>2. engine \in Before
    BY <1>1, <2>1 DEF PhasesFit
  <2>3. QED BY <2>1, <2>2, NoBulkStore DEF PhasesFit
<1>11. CASE PostProcess \/ FlushRequests \/ RequestsFlushed \/ MoveToNextTask
  <2>1. phase \notin {"starting", "stopping", "aborted", "complete"} /\ UNCHANGED <<hook, engine>>
    BY <1>2, <1>3, <1>11 DEF PostProcess, FlushRequests, RequestsFlushed, MoveToNextTask
  <2>2. QED BY <1>6, <2>1
<1>12. CASE TakeMemento \/ FlushAtClose \/ SendComplete \/ Abort
  <2>1. phase \notin {"starting", "stopping", "aborted", "complete"} /\ UNCHANGED <<hook, engine>>
    BY <1>2, <1>3, <1>12 DEF TakeMemento, FlushAtClose, SendComplete, Abort
  <2>2. QED BY <1>6, <2>1
<1>13. CASE BulkRaises
  <2>1. hook' = hook /\ bulk # NoBulk /\ UNCHANGED outcome
    BY <1>2, <1>13 DEF BulkRaises, BulkFails, ControlUnchanged
  <2>2. CASE bulk.store = "node"
    <3>1. phase' = phase /\ engine' = "stop failed" /\ engine = "results"
      BY <1>1, <1>13, <2>2, BulkWaited DEF BulkRaises
    <3>2. QED BY <1>1, <2>1, <3>1 DEF PhasesFit, Before
  <2>3. CASE bulk.store = "load"
    <3>1. phase \in {"flushing", "closed", "aborting"} /\ engine' = engine
      BY <1>1, <1>13, <2>3, BulkWaited DEF BulkRaises
    <3>2. QED BY <1>6, <2>1, <3>1
  <2>4. QED BY <1>1, <2>1, <2>2, <2>3 DEF BulkShape
<1>14. CASE OnBenchmarkComplete
  <2>1. UNCHANGED <<hook, engine, phase>> /\ mailbox # <<>>
    BY <1>2, <1>3, <1>14 DEF OnBenchmarkComplete
  <2>2. Head(mailbox).last
    BY <1>14 DEF OnBenchmarkComplete
  <2>3. 1 \in DOMAIN mailbox /\ Head(mailbox) = mailbox[1] /\ outcome = None
    BY <1>1, <2>1, SeqDomain DEF MailboxShape
  <2>4. phase = "complete"
    BY <1>1, <2>2, <2>3 DEF MailboxShape
  <2>5. engine \in Before
    BY <1>1, <2>3, <2>4 DEF PhasesFit, None
  <2>6. QED BY <1>1, <2>1, <2>5 DEF PhasesFit
<1>15. CASE CalculateResults
  <2>1. UNCHANGED <<hook, engine, phase>> /\ outcome = "flushed"
    BY <1>2, <1>3, <1>15 DEF CalculateResults
  <2>2. outcome' \in {"error", "published"}
    BY <1>15 DEF CalculateResults
  <2>3. QED BY <1>1, <2>1, <2>2 DEF PhasesFit
<1>16. CASE TearDown
  <2>1. UNCHANGED <<hook, phase, outcome>>
    BY <1>2, <1>4, <1>16 DEF TearDown
  <2>2. QED BY <1>1, <1>16, <2>1 DEF TearDown, PhasesFit
<1>17. CASE Engine
  <2>1. UNCHANGED <<hook, phase, outcome>>
    BY <1>2, <1>4, <1>17 DEF Engine
  <2>2. CASE LauncherStep(commands)
    <3>1. engine' \in Before \/ engine \notin Before
      BY <2>2 DEF LauncherStep, PrepareNode, StartProcess, LaunchFails, AttachToNode, DescribeNode,
         DetachFromNode, ProcessMissing, Terminate, MeasureIndex, StoreSystemMetrics, NodeStored,
         FlushSystemMetrics, StoreSystemResults, Before
    <3>2. QED BY <1>1, <2>1, <3>1 DEF PhasesFit
  <2>3. ASSUME NEW n, Crash(n)
        PROVE  PhasesFit'
    BY <1>5, <2>1, <2>3 DEF Crash
  <2>4. QED BY <1>17, <2>2, <2>3 DEF Engine
<1>18. CASE PutRequest \/ BulkAnswered \/ BulkAdd \/ OnTaskFinished
  BY <1>2, <1>3, <1>4, <1>5, <1>18 DEF PutRequest, BulkAnswered, BulkAdd, OnTaskFinished, ControlUnchanged
<1>19. CASE Telemetering
  <2>1. hook' = hook
    BY <1>19 DEF Telemetering, SamplerStep, Continue, RecorderAnswered, RecorderUnanswered, RecorderPuts, ThreadAt
  <2>2. QED BY <1>3, <1>4, <1>5, <1>19, <2>1 DEF Telemetering
<1>20. CASE Finished \/ UNCHANGED vars
  BY <1>2, <1>3, <1>4, <1>5, <1>20 DEF Finished, vars
<1>21. QED BY <1>7, <1>8, <1>9, <1>10, <1>11, <1>12, <1>13, <1>14, <1>15, <1>16, <1>17, <1>18, <1>19, <1>20 DEF Next

\* Steps that do nothing to the records.
LEMMA RestingControl ==
    ASSUME ControlInv, StoreShape', PhasesFit', Resting
    PROVE  ControlInv'
<1>1. /\ UNCHANGED <<kind, bulk, retries, Held, memento, mailbox, samples, step, taken>>
      /\ MailboxShape /\ BulkShape /\ SamplesShape /\ NoMementos
  BY DEF Resting, Still, ControlInv
<1>2. phase = "complete" => phase' = "complete"
  BY DEF Resting, Open, Broken
<1>3. MailboxShape'
  <2>1. outcome' # None => outcome # None
    BY DEF Resting
  <2>2. QED BY <1>1, <1>2, <2>1 DEF MailboxShape
<1>4. BulkShape'
  BY <1>1 DEF BulkShape, Resting
<1>5. SamplesShape'
  BY <1>1 DEF SamplesShape
<1>6. NoMementos'
  BY <1>1 DEF NoMementos
<1>7. QED BY <1>1, <1>3, <1>4, <1>5, <1>6 DEF ControlInv

\* A record is put into a store.
LEMMA AddingControl ==
    ASSUME ControlInv, StoreShape', PhasesFit', NEW o, NEW r, Adding(o, r), o # "orchestrator",
           UNCHANGED <<memento, mailbox, samples, step, phase, engine, outcome>>, taken' \in Nat
    PROVE  ControlInv'
<1>1. /\ UNCHANGED <<kind, bulk, retries>>
      /\ MailboxShape /\ BulkShape /\ SamplesShape /\ NoMementos
  BY DEF Adding, ControlInv
<1>2. Held'["orchestrator"] = Held["orchestrator"]
  BY DEF Adding, Held, Owners
<1>3. MailboxShape' /\ BulkShape' /\ SamplesShape' /\ NoMementos'
  BY <1>1, <1>2 DEF MailboxShape, BulkShape, SamplesShape, NoMementos
<1>4. QED BY <1>1, <1>3 DEF ControlInv

\* The records are handed over with a message.
LEMMA MoveControl ==
    ASSUME ControlInv, PhasesFit', MoveToNextTask
    PROVE  ControlInv'
<1>1. /\ StoreShape /\ MailboxShape /\ BulkShape /\ SamplesShape /\ NoMementos
      /\ kind \in {"in-memory", "opensearch"} /\ retries \in Nat
  BY DEF ControlInv
<1>2. /\ phase = "step over" /\ step < Len(samples) /\ step' = step + 1 /\ taken' = 0
      /\ UNCHANGED <<samples, memento, outcome>>
  BY DEF MoveToNextTask
<1>3. engine' = engine
  BY DEF MoveToNextTask, launcherVars
<1>4. PICK short : /\ ToExternalizable(short)
                   /\ mailbox' = Append(mailbox, [docs |-> Externalized(short), last |-> FALSE])
  BY DEF MoveToNextTask
<1>5. StoreShape' /\ Externalizing(short)
  BY <1>1, <1>4, ExternalizeEffect
<1>6. PICK x : x = [docs |-> Externalized(short), last |-> FALSE]
  OBVIOUS
<1>7. x.last = FALSE /\ x.docs = Externalized(short) /\ {"docs", "last"} \subseteq DOMAIN x
  BY <1>6
<1>8. /\ IsSeq(mailbox) /\ IsSeq(mailbox') /\ DOMAIN mailbox' = DOMAIN mailbox \cup {Len(mailbox) + 1}
      /\ mailbox'[Len(mailbox) + 1] = x /\ \A i \in DOMAIN mailbox : mailbox'[i] = mailbox[i]
  <2>1. IsSeq(mailbox) /\ mailbox' = Append(mailbox, x)
    BY <1>1, <1>4, <1>6 DEF MailboxShape
  <2>2. Appended(mailbox', mailbox, x)
    BY <2>1, SeqAppend
  <2>3. QED BY <2>1, <2>2 DEF Appended
<1>9. outcome = None /\ \A i \in DOMAIN mailbox : ~mailbox[i].last
  BY <1>1, <1>2 DEF MailboxShape
<1>10. MailboxShape'
  <2>1. \A i \in DOMAIN mailbox' : {"docs", "last"} \subseteq DOMAIN mailbox'[i] /\ ~mailbox'[i].last
    BY <1>1, <1>7, <1>8, <1>9 DEF MailboxShape
  <2>2. QED BY <1>2, <1>8, <1>9, <2>1 DEF MailboxShape
<1>11. bulk = NoBulk \/ bulk.store = "node"
  BY <1>1, <1>2 DEF BulkShape
<1>12. BulkShape'
  BY <1>1, <1>3, <1>5, <1>11 DEF BulkShape, Externalizing
<1>13. SamplesShape'
  <2>1. DOMAIN samples = 1..Len(samples) /\ Len(samples) \in Nat
    BY <1>1, SeqDomain DEF SamplesShape
  <2>2. step \in DOMAIN samples
    BY <1>1 DEF SamplesShape
  <2>3. step + 1 \in DOMAIN samples
    <3>1. PICK n, i : n = Len(samples) /\ i = step
      OBVIOUS
    <3>2. n \in Nat /\ i \in 1..n /\ i < n
      BY <1>2, <2>1, <2>2, <3>1
    <3>3. i + 1 \in 1..n
      BY <3>2
    <3>4. QED BY <2>1, <3>1, <3>3
  <2>4. QED BY <1>1, <1>2, <2>3 DEF SamplesShape
<1>14. NoMementos'
  <2>1. SUFFICES ASSUME kind = "opensearch"
                 PROVE  /\ memento' = EmptyBag /\ Held'["orchestrator"] = EmptyBag
                        /\ \A i \in DOMAIN mailbox' : mailbox'[i].docs = EmptyBag
    BY <1>5 DEF NoMementos, Externalizing
  <2>2. Held' = Held /\ x.docs = EmptyBag
    BY <1>5, <1>7, <2>1 DEF Externalizing
  <2>3. QED BY <1>1, <1>2, <1>8, <2>1, <2>2 DEF NoMementos
<1>15. kind' = kind /\ retries' = retries
  BY <1>5 DEF Externalizing
<1>16. QED BY <1>1, <1>5, <1>10, <1>12, <1>13, <1>14, <1>15 DEF ControlInv

LEMMA MementoControl ==
    ASSUME ControlInv, PhasesFit', TakeMemento
    PROVE  ControlInv'
<1>1. /\ StoreShape /\ MailboxShape /\ BulkShape /\ SamplesShape /\ NoMementos
      /\ kind \in {"in-memory", "opensearch"} /\ retries \in Nat
  BY DEF ControlInv
<1>2. /\ phase = "handover" /\ UNCHANGED <<samples, step, taken, mailbox, outcome>>
  BY DEF TakeMemento
<1>3. engine' = engine
  BY DEF TakeMemento, launcherVars
<1>4. PICK short : ToExternalizable(short) /\ memento' = Externalized(short)
  BY DEF TakeMemento
<1>5. StoreShape' /\ Externalizing(short)
  BY <1>1, <1>4, ExternalizeEffect
<1>6. outcome = None /\ \A i \in DOMAIN mailbox : ~mailbox[i].last
  BY <1>1, <1>2 DEF MailboxShape
<1>7. MailboxShape' /\ SamplesShape'
  BY <1>1, <1>2, <1>6 DEF MailboxShape, SamplesShape
<1>8. bulk = NoBulk \/ bulk.store = "node"
  BY <1>1, <1>2 DEF BulkShape
<1>9. BulkShape'
  BY <1>1, <1>3, <1>5, <1>8 DEF BulkShape, Externalizing
<1>10. NoMementos'
  <2>1. kind = "opensearch" => Held' = Held /\ memento' = EmptyBag
    BY <1>4, <1>5 DEF Externalizing
  <2>2. QED BY <1>1, <1>2, <1>5, <2>1 DEF NoMementos, Externalizing
<1>11. kind' = kind /\ retries' = retries
  BY <1>5 DEF Externalizing
<1>12. QED BY <1>1, <1>5, <1>7, <1>9, <1>10, <1>11 DEF ControlInv

\* A flush: the records stay where they are.
LEMMA FlushControl ==
    ASSUME ControlInv, StoreShape', PhasesFit', MailboxShape',
           NEW o \in {"load", "node"}, NEW refresh, Flushing(o, refresh),
           UNCHANGED <<memento, mailbox, samples, step, taken>>,
           o = "load" => phase' \in {"flushing", "closed", "aborting"},
           o = "node" => engine' = "results"
    PROVE  ControlInv'
<1>1. SamplesShape /\ NoMementos /\ kind \in {"in-memory", "opensearch"} /\ retries \in Nat
  BY DEF ControlInv
<1>2. UNCHANGED <<kind, retries, Held>>
  BY DEF Flushing
<1>3. SamplesShape' /\ NoMementos'
  BY <1>1, <1>2 DEF SamplesShape, NoMementos
<1>4. BulkShape'
  <2>1. CASE bulk' = NoBulk
    BY <2>1 DEF BulkShape
  <2>2. CASE bulk' # NoBulk
    <3>1. bulk' = [store |-> o, attempt |-> 1, sent |-> Held[o], refresh |-> refresh] /\ kind # "in-memory"
      BY <2>2 DEF Flushing
    <3>2. {"store", "sent", "refresh"} \subseteq DOMAIN bulk' /\ bulk'.store = o
      BY <3>1
    <3>3. QED BY <1>1, <1>2, <3>1, <3>2 DEF BulkShape
  <2>3. QED BY <2>1, <2>2
<1>5. QED BY <1>1, <1>2, <1>3, <1>4 DEF ControlInv

LEMMA FlushesControl ==
    ASSUME ControlInv, PhasesFit', FlushRequests \/ FlushAtClose \/ (FlushSystemMetrics /\ UNCHANGED controlVars)
    PROVE  ControlInv'
<1>1. StoreShape /\ MailboxShape /\ "load" \in Owners /\ "node" \in Owners
  BY DEF ControlInv, Owners
<1>2. CASE FlushRequests \/ FlushAtClose
  <2>1. PICK refresh : Flush("load", refresh)
    BY <1>2 DEF FlushRequests, FlushAtClose
  <2>2. /\ UNCHANGED <<memento, mailbox, samples, step, taken, outcome>>
        /\ phase \in {"processing", "closing", "failed"} /\ phase' \in {"flushing", "closed", "aborting"}
    BY <1>2 DEF FlushRequests, FlushAtClose, ControlUnchanged
  <2>3. StoreShape' /\ Flushing("load", refresh)
    BY <1>1, <2>1, FlushEffect
  <2>4. MailboxShape'
    BY <1>1, <2>2 DEF MailboxShape
  <2>5. QED BY <2>2, <2>3, <2>4, FlushControl
<1>3. CASE FlushSystemMetrics /\ UNCHANGED controlVars
  <2>1. /\ UNCHANGED <<memento, mailbox, samples, step, taken, outcome, phase>>
        /\ Flush("node", TRUE) /\ engine' = "results"
    BY <1>3 DEF FlushSystemMetrics, controlVars
  <2>2. StoreShape' /\ Flushing("node", TRUE)
    BY <1>1, <2>1, FlushEffect
  <2>3. MailboxShape'
    BY <1>1, <2>1 DEF MailboxShape
  <2>4. QED BY <2>1, <2>2, <2>3, FlushControl
<1>4. QED BY <1>2, <1>3

LEMMA CompleteControl ==
    ASSUME ControlInv, PhasesFit', SendComplete
    PROVE  ControlInv'
<1>1. /\ StoreShape /\ MailboxShape /\ BulkShape /\ SamplesShape /\ NoMementos
      /\ kind \in {"in-memory", "opensearch"} /\ retries \in Nat /\ "load" \in Owners
  BY DEF ControlInv, Owners
<1>2. /\ phase = "closed" /\ phase' = "complete" /\ bulk = NoBulk /\ Close("load")
      /\ UNCHANGED <<samples, step, taken, memento, outcome>>
      /\ mailbox' = Append(mailbox, [docs |-> memento, last |-> TRUE])
  BY DEF SendComplete
<1>3. StoreShape' /\ Still
  BY <1>1, <1>2, MetaEffect
<1>4. PICK x : x = [docs |-> memento, last |-> TRUE]
  OBVIOUS
<1>5. x.last = TRUE /\ x.docs = memento /\ {"docs", "last"} \subseteq DOMAIN x
  BY <1>4
<1>6. /\ IsSeq(mailbox) /\ IsSeq(mailbox') /\ DOMAIN mailbox' = DOMAIN mailbox \cup {Len(mailbox) + 1}
      /\ mailbox'[Len(mailbox) + 1] = x /\ \A i \in DOMAIN mailbox : mailbox'[i] = mailbox[i]
      /\ Len(mailbox') = Len(mailbox) + 1
  <2>1. IsSeq(mailbox) /\ mailbox' = Append(mailbox, x)
    BY <1>1, <1>2, <1>4 DEF MailboxShape
  <2>2. Appended(mailbox', mailbox, x)
    BY <2>1, SeqAppend
  <2>3. QED BY <2>1, <2>2 DEF Appended
<1>7. outcome = None /\ \A i \in DOMAIN mailbox : ~mailbox[i].last
  BY <1>1, <1>2 DEF MailboxShape
<1>8. MailboxShape'
  <2>1. \A i \in DOMAIN mailbox' : /\ {"docs", "last"} \subseteq DOMAIN mailbox'[i]
                                   /\ mailbox'[i].last => i = Len(mailbox')
    BY <1>1, <1>5, <1>6, <1>7 DEF MailboxShape
  <2>2. QED BY <1>2, <1>6, <1>7, <2>1 DEF MailboxShape
<1>9. BulkShape' /\ SamplesShape'
  BY <1>1, <1>2, <1>3 DEF BulkShape, SamplesShape, Still
<1>10. NoMementos'
  BY <1>1, <1>2, <1>3, <1>5, <1>6 DEF NoMementos, Still
<1>11. kind' = kind /\ retries' = retries
  BY <1>3 DEF Still
<1>12. QED BY <1>1, <1>3, <1>8, <1>9, <1>10, <1>11 DEF ControlInv

\* Answers to a bulk request.
LEMMA BulkControl ==
    ASSUME ControlInv, PhasesFit', BulkAnswered \/ BulkRaises
    PROVE  ControlInv'
<1>1. /\ StoreShape /\ MailboxShape /\ BulkShape /\ SamplesShape /\ NoMementos
      /\ kind \in {"in-memory", "opensearch"} /\ retries \in Nat
  BY DEF ControlInv
<1>2. UNCHANGED <<memento, mailbox, samples, step, taken, outcome>>
  BY DEF BulkAnswered, BulkRaises, ControlUnchanged, controlVars
<1>3. bulk # NoBulk
  BY DEF BulkAnswered, BulkRaises, BulkSucceeds, BulkRetried, BulkFails
<1>4. {"store", "sent", "refresh"} \subseteq DOMAIN bulk /\ bulk.store \in Owners /\ bulk.store # "orchestrator"
  BY <1>1, <1>3 DEF BulkShape, Owners
<1>5. phase = "complete" => phase' = "complete"
  <2>1. CASE BulkAnswered
    BY <2>1 DEF BulkAnswered, controlVars
  <2>2. CASE BulkRaises
    BY <1>1, <1>3, <2>2 DEF BulkRaises, BulkShape
  <2>3. QED BY <2>1, <2>2
<1>6. MailboxShape' /\ SamplesShape'
  BY <1>1, <1>2, <1>5 DEF MailboxShape, SamplesShape
<1>7. StoreShape' /\ kind' = kind /\ retries' \in Nat /\ Held'["orchestrator"] = Held["orchestrator"]
  <2>1. CASE BulkSucceeds
    <3>1. StoreShape' /\ Succeeding
      BY <1>1, <1>4, <2>1, BulkEffect
    <3>2. "orchestrator" \in Owners
      BY DEF Owners
    <3>3. QED BY <1>1, <1>4, <3>1, <3>2 DEF Succeeding, Held
  <2>2. CASE BulkRetried
    <3>1. StoreShape' /\ Retrying
      BY <1>1, <1>4, <2>2, BulkEffect
    <3>2. QED BY <1>1, <3>1 DEF Retrying
  <2>3. CASE BulkFails
    <3>1. StoreShape' /\ Failing
      BY <1>1, <1>4, <2>3, BulkEffect
    <3>2. QED BY <1>1, <3>1 DEF Failing
  <2>4. QED BY <2>1, <2>2, <2>3 DEF BulkAnswered, BulkRaises
<1>8. BulkShape'
  <2>1. CASE BulkSucceeds \/ BulkFails
    BY <2>1 DEF BulkSucceeds, BulkFails, BulkShape
  <2>2. CASE BulkRetried /\ BulkAnswered
    <3>1. StoreShape' /\ Retrying
      BY <1>1, <1>4, <2>2, BulkEffect
    <3>2. phase' = phase /\ engine' = engine
      BY <2>2 DEF BulkAnswered, controlVars, launcherVars
    <3>3. QED BY <1>1, <1>3, <3>1, <3>2 DEF BulkShape, Retrying
  <2>3. QED BY <2>1, <2>2 DEF BulkAnswered, BulkRaises
<1>9. NoMementos'
  BY <1>1, <1>2, <1>7 DEF NoMementos
<1>10. QED BY <1>1, <1>6, <1>7, <1>8, <1>9 DEF ControlInv

\* The first message, and what bulk_add takes of it.
LEMMA FirstMessage ==
    ASSUME ControlInv, mailbox # <<>>
    PROVE  1 \in DOMAIN mailbox /\ Head(mailbox) = mailbox[1] /\ IsSeq(mailbox) /\ outcome = None
BY SeqDomain DEF ControlInv, MailboxShape

LEMMA TakeOne ==
    ASSUME ControlInv, BulkAdd
    PROVE  /\ kind = "in-memory" /\ UNCHANGED <<memento, samples, step, taken, outcome, phase, engine>>
           /\ IsSeq(mailbox') /\ DOMAIN mailbox' = DOMAIN mailbox /\ Len(mailbox') = Len(mailbox)
           /\ 1 \in DOMAIN mailbox /\ mailbox'[1].last = mailbox[1].last
           /\ {"docs", "last"} \subseteq DOMAIN mailbox'[1]
           /\ \A i \in DOMAIN mailbox : i # 1 => mailbox'[i] = mailbox[i]
           /\ mailbox[1].docs # EmptyBag /\ outcome = None
           /\ \E r : /\ BagToSet(mailbox[1].docs) # {} => r \in BagToSet(mailbox[1].docs)
                     /\ mailbox'[1].docs = mailbox[1].docs (-) SetToBag({r})
                     /\ Adding("orchestrator", r) /\ StoreShape'
<1>1. StoreShape /\ MailboxShape /\ NoMementos /\ kind \in {"in-memory", "opensearch"}
  BY DEF ControlInv
<1>2. mailbox # <<>> /\ Head(mailbox).docs # EmptyBag
  BY DEF BulkAdd
<1>3. 1 \in DOMAIN mailbox /\ Head(mailbox) = mailbox[1] /\ IsSeq(mailbox) /\ outcome = None
  BY <1>2, FirstMessage
<1>4. kind = "in-memory"
  BY <1>1, <1>2, <1>3 DEF NoMementos
<1>5. UNCHANGED <<memento, samples, step, taken, outcome, phase, engine>>
  BY DEF BulkAdd, launcherVars
<1>6. PICK r : /\ r = CHOOSE x \in BagToSet(mailbox[1].docs) : TRUE
               /\ Add("orchestrator", r)
               /\ mailbox' = [mailbox EXCEPT ![1].docs = @ (-) SetToBag({r})]
  BY <1>3 DEF BulkAdd
<1>7. BagToSet(mailbox[1].docs) # {} => r \in BagToSet(mailbox[1].docs)
  <2>1. PICK S : S = BagToSet(mailbox[1].docs)
    OBVIOUS
  <2>2. r = CHOOSE x \in S : TRUE
    BY <1>6, <2>1
  <2>3. S # {} => r \in S
    BY <2>2
  <2>4. QED BY <2>1, <2>3
<1>8. PICK m, b, x : m = mailbox[1] /\ b = m.docs (-) SetToBag({r}) /\ x = [m EXCEPT !.docs = b]
  OBVIOUS
<1>9. {"docs", "last"} \subseteq DOMAIN m
  BY <1>1, <1>3, <1>8 DEF MailboxShape
<1>10. {"docs", "last"} \subseteq DOMAIN x /\ x.docs = b /\ x.last = m.last
  BY <1>8, <1>9
<1>11. mailbox' = [mailbox EXCEPT ![1] = x]
  BY <1>3, <1>6, <1>8
<1>12. /\ IsSeq(mailbox') /\ DOMAIN mailbox' = DOMAIN mailbox /\ Len(mailbox') = Len(mailbox)
       /\ mailbox'[1] = x /\ \A i \in DOMAIN mailbox : i # 1 => mailbox'[i] = mailbox[i]
  <2>1. Replaced(mailbox', mailbox, x)
    BY <1>2, <1>3, <1>11, SeqFirst
  <2>2. QED BY <2>1 DEF Replaced
<1>13. StoreShape' /\ Adding("orchestrator", r)
  <2>1. "orchestrator" \in Owners
    BY DEF Owners
  <2>2. QED BY <1>1, <1>6, <2>1, AddEffect
<1>14. QED BY <1>2, <1>3, <1>4, <1>5, <1>7, <1>8, <1>10, <1>12, <1>13

LEMMA TakeOneControl ==
    ASSUME ControlInv, PhasesFit', BulkAdd
    PROVE  ControlInv'
<1>1. /\ MailboxShape /\ BulkShape /\ SamplesShape
      /\ kind \in {"in-memory", "opensearch"} /\ retries \in Nat
  BY DEF ControlInv
<1>2. /\ kind = "in-memory" /\ UNCHANGED <<memento, samples, step, taken, outcome, phase, engine>>
      /\ IsSeq(mailbox') /\ DOMAIN mailbox' = DOMAIN mailbox /\ Len(mailbox') = Len(mailbox)
      /\ 1 \in DOMAIN mailbox /\ mailbox'[1].last = mailbox[1].last
      /\ {"docs", "last"} \subseteq DOMAIN mailbox'[1]
      /\ \A i \in DOMAIN mailbox : i # 1 => mailbox'[i] = mailbox[i]
      /\ outcome = None
  BY TakeOne
<1>3. PICK r : Adding("orchestrator", r) /\ StoreShape'
  BY TakeOne
<1>4. UNCHANGED <<kind, retries, bulk>>
  BY <1>3 DEF Adding
<1>5. MailboxShape'
  BY <1>1, <1>2 DEF MailboxShape
<1>6. BulkShape' /\ SamplesShape' /\ NoMementos'
  BY <1>1, <1>2, <1>4 DEF BulkShape, SamplesShape, NoMementos
<1>7. QED BY <1>1, <1>3, <1>4, <1>5, <1>6 DEF ControlInv

\* A message is taken from the mailbox.
LEMMA TakenMessage ==
    ASSUME ControlInv, mailbox # <<>>, mailbox' = Tail(mailbox), phase' = phase
    PROVE  /\ IsSeq(mailbox') /\ Len(mailbox') = Len(mailbox) - 1 /\ DOMAIN mailbox' = 1..(Len(mailbox) - 1)
           /\ DOMAIN mailbox = 1..Len(mailbox) /\ Len(mailbox) \in Nat \ {0}
           /\ \A i \in DOMAIN mailbox' : i + 1 \in DOMAIN mailbox /\ mailbox'[i] = mailbox[i + 1]
           /\ \A i \in DOMAIN mailbox' : /\ {"docs", "last"} \subseteq DOMAIN mailbox'[i]
                                         /\ mailbox'[i].last => i = Len(mailbox') /\ phase' = "complete"
<1>1. MailboxShape
  BY DEF ControlInv
<1>2. /\ IsSeq(mailbox') /\ Len(mailbox') = Len(mailbox) - 1 /\ DOMAIN mailbox' = 1..(Len(mailbox) - 1)
      /\ \A i \in DOMAIN mailbox' : i + 1 \in DOMAIN mailbox /\ mailbox'[i] = mailbox[i + 1]
  BY <1>1, SeqTail DEF MailboxShape
<1>3. DOMAIN mailbox = 1..Len(mailbox) /\ Len(mailbox) \in Nat \ {0}
  BY <1>1, SeqDomain DEF MailboxShape
<1>4. ASSUME NEW i \in DOMAIN mailbox'
      PROVE  /\ {"docs", "last"} \subseteq DOMAIN mailbox'[i]
             /\ mailbox'[i].last => i = Len(mailbox') /\ phase' = "complete"
  <2>1. i + 1 \in DOMAIN mailbox /\ mailbox'[i] = mailbox[i + 1] /\ i \in Int
    BY <1>2, <1>3
  <2>2. mailbox[i + 1].last => i + 1 = Len(mailbox) /\ phase = "complete"
    BY <1>1, <2>1 DEF MailboxShape
  <2>3. i + 1 = Len(mailbox) => i = Len(mailbox')
    BY <1>2, <1>3, <2>1
  <2>4. {"docs", "last"} \subseteq DOMAIN mailbox[i + 1]
    BY <1>1, <2>1 DEF MailboxShape
  <2>5. QED BY <2>1, <2>2, <2>3, <2>4
<1>5. QED BY <1>2, <1>3, <1>4

LEMMA FinishedControl ==
    ASSUME ControlInv, PhasesFit', OnTaskFinished
    PROVE  ControlInv'
<1>1. /\ StoreShape /\ MailboxShape /\ BulkShape /\ SamplesShape /\ NoMementos
      /\ kind \in {"in-memory", "opensearch"} /\ retries \in Nat
  BY DEF ControlInv
<1>2. /\ mailbox # <<>> /\ mailbox' = Tail(mailbox) /\ UNCHANGED storeVars
      /\ UNCHANGED <<phase, samples, step, taken, memento, outcome>>
  BY DEF OnTaskFinished
<1>3. engine' = engine
  BY DEF OnTaskFinished, launcherVars
<1>4. StoreShape' /\ Still
  BY <1>1, <1>2, StillEffect
<1>5. outcome = None
  BY <1>2, FirstMessage
<1>6. MailboxShape'
  BY <1>2, <1>5, TakenMessage DEF MailboxShape
<1>7. BulkShape' /\ SamplesShape'
  BY <1>1, <1>2, <1>3, <1>4 DEF BulkShape, SamplesShape, Still
<1>8. NoMementos'
  <2>1. \A i \in DOMAIN mailbox' : i + 1 \in DOMAIN mailbox /\ mailbox'[i] = mailbox[i + 1]
    BY <1>2, TakenMessage
  <2>2. QED BY <1>1, <1>2, <1>4, <2>1 DEF NoMementos, Still
<1>9. QED BY <1>1, <1>4, <1>6, <1>7, <1>8 DEF ControlInv, Still

\* The last message.
LEMMA LastMessage ==
    ASSUME ControlInv, OnBenchmarkComplete
    PROVE  /\ StoreShape' /\ Flushing("orchestrator", TRUE) /\ bulk' = NoBulk /\ searchable' = index
           /\ phase = "complete" /\ mailbox' = <<>> /\ DOMAIN mailbox = {1} /\ mailbox[1].docs = EmptyBag
           /\ UNCHANGED <<phase, samples, step, taken, memento, engine>> /\ outcome = None
<1>1. /\ StoreShape /\ MailboxShape /\ NoMementos /\ kind \in {"in-memory", "opensearch"}
  BY DEF ControlInv
<1>2. /\ mailbox # <<>> /\ mailbox' = Tail(mailbox) /\ Flush("orchestrator", TRUE)
      /\ Head(mailbox).docs = EmptyBag /\ Head(mailbox).last
      /\ UNCHANGED <<phase, samples, step, taken, memento>>
  BY DEF OnBenchmarkComplete
<1>3. engine' = engine
  BY DEF OnBenchmarkComplete, launcherVars
<1>4. 1 \in DOMAIN mailbox /\ Head(mailbox) = mailbox[1] /\ outcome = None
  BY <1>2, FirstMessage
<1>5. phase = "complete" /\ Len(mailbox) = 1
  BY <1>1, <1>2, <1>4 DEF MailboxShape
<1>6. mailbox' = <<>> /\ DOMAIN mailbox = {1}
  <2>1. IsSeq(mailbox') /\ Len(mailbox') = 0 /\ DOMAIN mailbox = 1..Len(mailbox)
    BY <1>2, <1>5, TakenMessage
  <2>2. mailbox' = <<>>
    BY <2>1 DEF IsSeq
  <2>3. QED BY <1>5, <2>1, <2>2
<1>7. StoreShape' /\ Flushing("orchestrator", TRUE)
  <2>1. "orchestrator" \in Owners
    BY DEF Owners
  <2>2. QED BY <1>1, <1>2, <2>1, FlushEffect
<1>8. kind = "in-memory" \/ Held["orchestrator"] = EmptyBag
  BY <1>1 DEF NoMementos
<1>9. bulk' = NoBulk /\ searchable' = index
  BY <1>7, <1>8 DEF Flushing
<1>10. QED BY <1>2, <1>3, <1>4, <1>5, <1>6, <1>7, <1>9

LEMMA LastControl ==
    ASSUME ControlInv, PhasesFit', OnBenchmarkComplete
    PROVE  ControlInv'
<1>1. SamplesShape /\ NoMementos /\ kind \in {"in-memory", "opensearch"} /\ retries \in Nat
  BY DEF ControlInv
<1>2. /\ StoreShape' /\ Flushing("orchestrator", TRUE) /\ bulk' = NoBulk
      /\ phase = "complete" /\ mailbox' = <<>>
      /\ UNCHANGED <<phase, samples, step, taken, memento>>
  BY LastMessage
<1>3. UNCHANGED <<kind, retries, Held>>
  BY <1>2 DEF Flushing
<1>4. MailboxShape'
  BY <1>2, ShortSeqs DEF MailboxShape
<1>5. BulkShape' /\ SamplesShape'
  BY <1>1, <1>2 DEF BulkShape, SamplesShape
<1>6. NoMementos'
  BY <1>1, <1>2, <1>3, ShortSeqs DEF NoMementos
<1>7. QED BY <1>1, <1>2, <1>3, <1>4, <1>5, <1>6 DEF ControlInv

\* A record is put into the load generator's store.
LEMMA PutRequestAdds ==
    ASSUME ControlInv, PutRequest
    PROVE  /\ phase = "processing" /\ taken' = taken + 1 /\ taken < upto
           /\ UNCHANGED <<memento, mailbox, samples, step, phase, engine, outcome>>
           /\ UNCHANGED <<hook, at, thread, current, metric>>
           /\ \E r : /\ Add("load", r) /\ r.by = <<"task", samples[step].task>> /\ r.n = <<taken + 1>>
                     /\ r.racing = (bulk.store = "load")
<1>1. /\ phase = "processing" /\ taken' = taken + 1 /\ taken < upto
      /\ UNCHANGED <<memento, mailbox, samples, step, phase, outcome>>
  BY DEF PutRequest, ControlUnchanged
<1>2. UNCHANGED <<engine, current, metric>>
  BY DEF PutRequest, launcherVars
<1>3. UNCHANGED <<hook, at, thread>>
  BY DEF PutRequest, telemetryVars
<1>4. \E r : /\ Add("load", r) /\ r.by = <<"task", samples[step].task>> /\ r.n = <<taken + 1>>
             /\ r.racing = (bulk.store = "load")
  BY DEF PutRequest, Put
<1>5. QED BY <1>1, <1>2, <1>3, <1>4

LEMMA RecorderAdds ==
    ASSUME NEW t, RecorderPuts(t)
    PROVE  \E r : /\ Add("load", r) /\ r.by = <<"sampler", t>> /\ r.n = <<thread[t].samples, thread[t].pc>>
                  /\ r.racing = (bulk.store = "load")
BY DEF RecorderPuts, Put

LEMMA MetricAdds ==
    ASSUME StoreSystemMetrics
    PROVE  \E r : Add("node", r) /\ r.by = <<"node", Node>> /\ r.n = <<metric>>
BY DEF StoreSystemMetrics, Put

LEMMA ControlStep ==
    ASSUME ControlInv, [Next]_vars
    PROVE  ControlInv'
<1>1. PhasesFit'
  BY PhasesStep
<1>2. StoreShape /\ SamplesShape /\ {"load", "node"} \subseteq Owners
  BY DEF ControlInv, Owners
<1>3. taken \in Nat
  BY <1>2 DEF SamplesShape
<1>4. ASSUME StoreShape', Resting
      PROVE  ControlInv'
  BY <1>1, <1>4, RestingControl
<1>5. ASSUME NEW o \in {"load", "node"}, NEW r, Add(o, r), taken' \in Nat,
             UNCHANGED <<memento, mailbox, samples, step, phase, engine, outcome>>
      PROVE  ControlInv'
  <2>1. StoreShape' /\ Adding(o, r)
    BY <1>2, <1>5, AddEffect
  <2>2. QED BY <1>1, <1>5, <2>1, AddingControl
<1>6. UNCHANGED controlVars /\ UNCHANGED launcherVars =>
          UNCHANGED <<memento, mailbox, samples, step, phase, engine, outcome, taken>>
  BY DEF controlVars, launcherVars
<1>7. CASE CallDevice
  <2>1. ASSUME NEW r, Add("load", r)
        PROVE  ControlInv'
    BY <1>3, <1>5, <1>6, <1>7, <2>1 DEF CallDevice
  <2>2. QED BY <1>4, <1>7, <2>1, DeviceRests
<1>8. CASE Telemetering
  <2>1. PICK t : SamplerStep(t)
    BY <1>8 DEF Telemetering
  <2>2. UNCHANGED controlVars /\ UNCHANGED launcherVars
    BY <1>8 DEF Telemetering
  <2>3. CASE RecorderPuts(t)
    <3>1. PICK r : Add("load", r)
      BY <2>3, RecorderAdds
    <3>2. QED BY <1>3, <1>5, <1>6, <2>2, <3>1
  <2>4. QED BY <1>4, <2>1, <2>2, <2>3, SamplerRests
<1>9. CASE Engine
  <2>1. UNCHANGED controlVars
    BY <1>9 DEF Engine
  <2>2. CASE StoreSystemMetrics
    <3>1. PICK r : Add("node", r)
      BY <2>2, MetricAdds
    <3>2. engine' = engine
      BY <2>2 DEF StoreSystemMetrics
    <3>3. QED BY <1>3, <1>5, <2>1, <3>1, <3>2 DEF controlVars
  <2>3. CASE FlushSystemMetrics
    BY <1>1, <2>1, <2>3, FlushesControl
  <2>4. QED BY <1>4, <1>9, <2>2, <2>3, EngineRests
<1>10. CASE PutRequest
  <2>1. PICK r : Add("load", r)
    BY <1>10, PutRequestAdds
  <2>2. taken' \in Nat /\ UNCHANGED <<memento, mailbox, samples, step, phase, engine, outcome>>
    BY <1>3, <1>10, PutRequestAdds
  <2>3. QED BY <1>5, <2>1, <2>2
<1>11. CASE Plainly
  BY <1>4, <1>11, PlainRests
<1>12. CASE MoveToNextTask \/ TakeMemento \/ FlushRequests \/ FlushAtClose \/ SendComplete
  BY <1>1, <1>12, MoveControl, MementoControl, FlushesControl, CompleteControl
<1>13. CASE BulkAnswered \/ BulkRaises \/ BulkAdd \/ OnTaskFinished \/ OnBenchmarkComplete
  BY <1>1, <1>13, BulkControl, TakeOneControl, FinishedControl, LastControl
<1>14. QED BY <1>7, <1>8, <1>9, <1>10, <1>11, <1>12, <1>13 DEF Next, Plainly

LEMMA ControlInitially ==
    ASSUME Init
    PROVE  ControlInv
<1>1. PICK s \in Scenarios : kind = s.kind /\ samples = s.samples
  BY DEF Init
<1>2. /\ stores = [o \in Owners |-> NewStore] /\ put = [o \in Owners |-> {}] /\ bulk = NoBulk
      /\ retries = 0
  BY DEF Init, StoreInit
<1>3. hook = None /\ engine = "down" /\ phase = "idle" /\ step = 1 /\ taken = 0 /\ memento = EmptyBag
      /\ mailbox = <<>> /\ outcome = None
  BY DEF Init, TelemetryInit, LauncherInit
<1>4. "docs" \in DOMAIN NewStore /\ NewStore.docs = EmptyBag
  BY DEF NewStore
<1>5. StoreShape
  BY <1>2, <1>4 DEF StoreShape
<1>6. MailboxShape
  BY <1>3, ShortSeqs DEF MailboxShape
<1>7. SamplesShape
  <2>1. PICK q, S : q = s.samples /\ S = Range(q)
    OBVIOUS
  <2>2. q \in Seq(S) /\ q # <<>> /\ \A i, j \in DOMAIN q : q[i].task = q[j].task => i = j
    BY <2>1, ScenarioAssumption
  <2>3. S = ToSet(q)
    BY <2>1 DEF Range, ToSet
  <2>4. 1 \in DOMAIN q
    BY <2>2
  <2>5. QED BY <1>1, <1>3, <2>1, <2>2, <2>3, <2>4 DEF SamplesShape, IsSeq
<1>8. BulkShape /\ PhasesFit
  BY <1>2, <1>3, NoBulkStore DEF BulkShape, PhasesFit, Before
<1>9. NoMementos
  <2>1. Held["orchestrator"] = EmptyBag
    BY <1>2, <1>4 DEF Held, Owners
  <2>2. QED BY <1>3, <2>1, ShortSeqs DEF NoMementos
<1>10. kind \in {"in-memory", "opensearch"}
  BY <1>1, ScenarioAssumption
<1>11. QED BY <1>2, <1>5, <1>6, <1>7, <1>8, <1>9, <1>10 DEF ControlInv

-----------------------------------------------------------------------------
(* Every record is a new one: it is told from the others by who put it, and  *)
(* by the position it was put at.                                            *)

RecordTypes ==
    /\ \A r \in put["load"] : /\ r.by[1] \in {"task", "start", "stop", "sampler"}
                              /\ r.n[1] \in Nat /\ (r.by[1] # "task" => r.n[2] \in Nat)
    /\ \A r \in put["node"] : r.by[1] = "node" /\ r.n[1] \in Nat

\* The requests of a task are put one after the other.
RequestsTo(r, last, n) ==
    \E s \in DOMAIN samples : r.by[2] = samples[s].task /\ (s < last \/ (s = last /\ r.n[1] <= n))

TaskKeys == \A r \in put["load"] : r.by[1] = "task" => RequestsTo(r, step, taken)

\* Positions in a hook, and of a sampler.
Earlier(a, b) == a[1] < b[1] \/ (a[1] = b[1] /\ a[2] < b[2])

Early == phase \in {"idle", "starting", "measuring", "processing", "flushing", "step over"}

HookKeys ==
    /\ at \in Nat \X Nat
    /\ phase = "idle" => \A r \in put["load"] : r.by[1] # "start"
    /\ Early => \A r \in put["load"] : r.by[1] # "stop"
    /\ hook # None => \A r \in put["load"] : r.by[1] = hook => at = Done \/ Earlier(r.n, at)

\* Sampler t, in the state d, has put record r before.
SampledBefore(r, d) ==
    /\ r.n[1] <= d.samples
    /\ d.pc \notin {NotStarted, 0, Ended} => Earlier(r.n, <<d.samples, d.pc>>)

ThreadType == [pc : Nat, stop : BOOLEAN, samples : Nat]

SamplerKeys ==
    \A t \in DOMAIN thread :
        /\ thread[t] \in ThreadType
        /\ \A r \in put["load"] : r.by = <<"sampler", t>> => SampledBefore(r, thread[t])

\* The metrics of the nodes are put one after the other.
MetricsTo(r, c, m) ==
    \E i \in DOMAIN Nodes : r.by[2] = Nodes[i] /\ (i < c \/ (i = c /\ r.n[1] < m))

NodeKeys == engine = "stopping" => \A r \in put["node"] : MetricsTo(r, current, metric)

KeysInv == RecordTypes /\ TaskKeys /\ HookKeys /\ SamplerKeys /\ NodeKeys

\* Who puts a record.
ByTask(r) == PutRequest /\ r.by = <<"task", samples[step].task>> /\ r.n = <<taken + 1>>

ByHook(r) == CallDevice /\ hook # None /\ at # Done /\ r.by = <<hook, Command>> /\ r.n = at

BySampler(t, r) ==
    /\ t \in DOMAIN thread /\ RecorderPuts(t) /\ Telemetering
    /\ r.by = <<"sampler", t>> /\ r.n = <<thread[t].samples, thread[t].pc>>

NewRecord(r) ==
    /\ ByTask(r) \/ ByHook(r) \/ \E t : BySampler(t, r)
    /\ Adding("load", r) /\ StoreShape' /\ r.racing = (bulk.store = "load")
    /\ put' = [put EXCEPT !["load"] = put["load"] \cup {r}]

NewMetric(r) ==
    /\ Engine /\ StoreSystemMetrics /\ r.by = <<"node", Node>> /\ r.n = <<metric>>
    /\ Adding("node", r) /\ StoreShape'
    /\ put' = [put EXCEPT !["node"] = put["node"] \cup {r}]

\* Steps that may put a record.
LEMMA PutsOrRests ==
    ASSUME ControlInv, CallDevice \/ Telemetering \/ Engine \/ PutRequest
    PROVE  \/ Resting \/ FlushSystemMetrics
           \/ \E r : NewRecord(r)
           \/ \E r : NewMetric(r)
<1>1. StoreShape /\ BulkShape /\ {"load", "node"} \subseteq Owners
  BY DEF ControlInv, Owners
<1>2. ASSUME NEW r, Add("load", r)
      PROVE  Adding("load", r) /\ StoreShape' /\ put' = [put EXCEPT !["load"] = put["load"] \cup {r}]
  BY <1>1, <1>2, AddEffect DEF Adding
<1>3. CASE CallDevice
  <2>1. ASSUME NEW r, Add("load", r), r.by = <<hook, Command>>, r.n = at, r.racing = (bulk.store = "load")
        PROVE  NewRecord(r)
    <3>1. hook # None /\ at # Done
      BY <1>3 DEF CallDevice, HookStep, HookAnswered, HookUnanswered, HookPuts, HookDescribes, HookWritesFile,
         HookSpawns, HookStops, HookJoins, Doing
    <3>2. QED BY <1>2, <1>3, <2>1, <3>1 DEF NewRecord, ByHook
  <2>2. QED BY <1>3, <2>1, DeviceRests
<1>4. CASE Telemetering
  <2>1. PICK t \in DOMAIN thread : SamplerStep(t)
    BY <1>4 DEF Telemetering
  <2>2. UNCHANGED controlVars /\ UNCHANGED launcherVars
    BY <1>4 DEF Telemetering
  <2>3. CASE RecorderPuts(t)
    <3>1. PICK r : /\ Add("load", r) /\ r.by = <<"sampler", t>> /\ r.n = <<thread[t].samples, thread[t].pc>>
                   /\ r.racing = (bulk.store = "load")
      BY <2>3, RecorderAdds
    <3>2. BySampler(t, r)
      BY <1>4, <2>3, <3>1 DEF BySampler
    <3>3. NewRecord(r)
      BY <1>2, <3>1, <3>2 DEF NewRecord
    <3>4. QED BY <3>3
  <2>4. QED BY <2>1, <2>2, <2>3, SamplerRests
<1>5. CASE Engine
  <2>1. CASE StoreSystemMetrics
    <3>1. PICK r : Add("node", r) /\ r.by = <<"node", Node>> /\ r.n = <<metric>>
      BY <2>1, MetricAdds
    <3>2. Adding("node", r) /\ StoreShape'
      BY <1>1, <3>1, AddEffect
    <3>3. put' = [put EXCEPT !["node"] = put["node"] \cup {r}]
      BY <3>2 DEF Adding
    <3>4. NewMetric(r)
      BY <1>5, <2>1, <3>1, <3>2, <3>3 DEF NewMetric
    <3>5. QED BY <3>4
  <2>2. QED BY <1>5, <2>1, EngineRests
<1>6. CASE PutRequest
  <2>1. PICK r : /\ Add("load", r) /\ r.by = <<"task", samples[step].task>> /\ r.n = <<taken + 1>>
                 /\ r.racing = (bulk.store = "load")
    BY <1>6, PutRequestAdds
  <2>2. NewRecord(r)
    BY <1>2, <1>6, <2>1 DEF NewRecord, ByTask
  <2>3. QED BY <2>2
<1>7. QED BY <1>3, <1>4, <1>5, <1>6

\* A step puts no record, or one.
LEMMA Puts ==
    ASSUME ControlInv, [Next]_vars
    PROVE  \/ put'["load"] = put["load"] /\ put'["node"] = put["node"]
           \/ \E r : NewRecord(r)
           \/ \E r : NewMetric(r)
<1>1. StoreShape
  BY DEF ControlInv
<1>2. ASSUME Resting \/ FlushSystemMetrics
      PROVE  put' = put
  BY <1>2 DEF Resting, Still, FlushSystemMetrics, Flush
<1>3. CASE CallDevice \/ Telemetering \/ Engine \/ PutRequest
  BY <1>2, <1>3, PutsOrRests
<1>4. CASE Plainly
  BY <1>2, <1>4, PlainRests
<1>5. CASE MoveToNextTask \/ TakeMemento \/ FlushRequests \/ FlushAtClose \/ SendComplete
  BY <1>5 DEF MoveToNextTask, TakeMemento, FlushRequests, FlushAtClose, SendComplete, ToExternalizable, Flush, Close
<1>6. CASE BulkAnswered \/ BulkRaises \/ OnTaskFinished \/ OnBenchmarkComplete
  BY <1>6 DEF BulkAnswered, BulkRaises, OnTaskFinished, OnBenchmarkComplete, BulkSucceeds, BulkRetried, BulkFails,
     Flush, storeVars
<1>7. CASE BulkAdd
  <2>1. PICK r : Adding("orchestrator", r)
    BY <1>7, TakeOne
  <2>2. QED BY <1>1, <2>1 DEF Adding, StoreShape
<1>8. QED BY <1>3, <1>4, <1>5, <1>6, <1>7 DEF Next, Plainly

\* What becomes of put.
LEMMA PutAfter ==
    ASSUME ControlInv, NEW r
    PROVE  /\ NewRecord(r) => put'["load"] = put["load"] \cup {r} /\ put'["node"] = put["node"]
           /\ NewMetric(r) => put'["node"] = put["node"] \cup {r} /\ put'["load"] = put["load"]
BY DEF ControlInv, StoreShape, Owners, NewRecord, NewMetric

\* Who a record is put by.
LEMMA PutBy ==
    ASSUME ControlInv, SamplerKeys, HookKeys, NEW r, NewRecord(r)
    PROVE  /\ r.by[1] \in {"task", "start", "stop", "sampler"}
           /\ r.n[1] \in Nat /\ (r.by[1] # "task" => r.n[2] \in Nat)
           /\ ByTask(r) => r.by[1] = "task"
           /\ ByHook(r) => r.by[1] = hook /\ hook \in {"start", "stop"}
           /\ \A t : BySampler(t, r) => r.by[1] = "sampler"
<1>1. ByTask(r) => r.by[1] = "task" /\ r.n[1] \in Nat
  BY DEF ByTask, ControlInv, SamplesShape
<1>2. ByHook(r) => r.by[1] = hook /\ hook \in {"start", "stop"} /\ r.n[1] \in Nat /\ r.n[2] \in Nat
  BY DEF ByHook, ControlInv, PhasesFit, HookKeys
<1>3. \A t : BySampler(t, r) => r.by[1] = "sampler" /\ r.n[1] \in Nat /\ r.n[2] \in Nat
  BY DEF BySampler, SamplerKeys, ThreadType
<1>4. QED BY <1>1, <1>2, <1>3 DEF NewRecord

LEMMA TypesStep ==
    ASSUME ControlInv, KeysInv, LauncherInv, [Next]_vars
    PROVE  RecordTypes'
<1>1. RecordTypes /\ SamplerKeys /\ HookKeys
  BY DEF KeysInv
<1>2. CASE put'["load"] = put["load"] /\ put'["node"] = put["node"]
  BY <1>1, <1>2 DEF RecordTypes
<1>3. ASSUME NEW r, NewRecord(r)
      PROVE  RecordTypes'
  BY <1>1, <1>3, PutAfter, PutBy DEF RecordTypes
<1>4. ASSUME NEW r, NewMetric(r)
      PROVE  RecordTypes'
  <2>1. r.by[1] = "node" /\ r.n[1] \in Nat
    BY <1>4 DEF NewMetric, LauncherInv, NodeTypes
  <2>2. QED BY <1>1, <1>4, <2>1, PutAfter DEF RecordTypes
<1>5. QED BY <1>2, <1>3, <1>4, Puts

-----------------------------------------------------------------------------
(* The requests of the tasks.                                                *)

\* Samples are processed in order.
LEMMA SamplesInOrder ==
    ASSUME ControlInv, [Next]_vars
    PROVE  /\ samples' = samples
           /\ \/ PutRequest /\ step' = step /\ taken' = taken + 1
              \/ ~PutRequest /\ step' = step /\ taken' = taken
              \/ ~PutRequest /\ step' = step + 1
<1>1. UNCHANGED controlVars => UNCHANGED <<samples, step, taken, phase>>
  BY DEF controlVars
<1>2. PutRequest => phase = "processing" /\ taken' = taken + 1 /\ taken \in Nat
  BY DEF PutRequest, ControlInv, SamplesShape
<1>3. CASE \/ StartBenchmark \/ DeviceRaises \/ DevicesCalled \/ PostProcess \/ FlushRequests \/ RequestsFlushed
           \/ StopTelemetry
  BY <1>2, <1>3 DEF StartBenchmark, DeviceRaises, DevicesCalled, PostProcess, FlushRequests, RequestsFlushed,
     StopTelemetry, ControlUnchanged
<1>4. CASE \/ TakeMemento \/ FlushAtClose \/ SendComplete \/ Abort \/ BulkRaises
           \/ BulkAdd \/ OnTaskFinished \/ OnBenchmarkComplete \/ CalculateResults
  BY <1>2, <1>4 DEF TakeMemento, FlushAtClose, SendComplete, Abort, BulkRaises, BulkAdd, OnTaskFinished,
     OnBenchmarkComplete, CalculateResults, ControlUnchanged
<1>5. CASE CallDevice \/ BulkAnswered \/ TearDown \/ Engine \/ Telemetering \/ Finished \/ UNCHANGED vars
  BY <1>1, <1>2, <1>5 DEF CallDevice, BulkAnswered, TearDown, Engine, Telemetering, Finished, vars
<1>6. CASE MoveToNextTask
  BY <1>2, <1>6 DEF MoveToNextTask
<1>7. CASE PutRequest
  BY <1>7 DEF PutRequest, ControlUnchanged
<1>8. QED BY <1>3, <1>4, <1>5, <1>6, <1>7 DEF Next

LEMMA TasksStep ==
    ASSUME ControlInv, KeysInv, [Next]_vars
    PROVE  TaskKeys'
<1>1. /\ IsSeq(samples) /\ step \in DOMAIN samples /\ taken \in Nat /\ RecordTypes /\ TaskKeys
      /\ SamplerKeys /\ HookKeys
  BY DEF ControlInv, SamplesShape, KeysInv
<1>2. DOMAIN samples = 1..Len(samples) /\ Len(samples) \in Nat
  BY <1>1, SeqDomain
<1>3. samples' = samples
  BY SamplesInOrder
<1>4. \A r : RequestsTo(r, step, taken)' <=> RequestsTo(r, step', taken')
  BY <1>3 DEF RequestsTo
<1>5. ASSUME NEW r \in put["load"], r.by[1] = "task"
      PROVE  RequestsTo(r, step', taken')
  <2>1. PICK s \in DOMAIN samples : r.by[2] = samples[s].task /\ (s < step \/ (s = step /\ r.n[1] <= taken))
    BY <1>1, <1>5 DEF TaskKeys, RequestsTo
  <2>2. s \in Nat /\ step \in Nat /\ r.n[1] \in Nat
    BY <1>1, <1>2 DEF RecordTypes
  <2>3. CASE step' = step /\ taken' \in {taken, taken + 1}
    <3>1. PICK n, m, k : n = r.n[1] /\ m = taken /\ k = taken'
      OBVIOUS
    <3>2. n <= m => n <= k
      BY <1>1, <2>2, <2>3, <3>1
    <3>3. QED BY <2>1, <2>3, <3>1, <3>2 DEF RequestsTo
  <2>4. CASE step' = step + 1
    <3>1. s < step'
      BY <2>1, <2>2, <2>4
    <3>2. QED BY <2>1, <3>1 DEF RequestsTo
  <2>5. QED BY <2>3, <2>4, SamplesInOrder
<1>6. ASSUME NEW r, NewRecord(r), r.by[1] = "task"
      PROVE  RequestsTo(r, step', taken')
  <2>1. ByTask(r)
    <3>1. ~ByHook(r) /\ \A t : ~BySampler(t, r)
      BY <1>1, <1>6, PutBy
    <3>2. QED BY <1>6, <3>1 DEF NewRecord
  <2>2. r.by[2] = samples[step].task /\ r.n[1] = taken + 1 /\ PutRequest
    BY <2>1 DEF ByTask
  <2>3. step' = step /\ taken' = taken + 1
    BY <2>2, SamplesInOrder
  <2>4. r.n[1] <= taken'
    BY <1>1, <2>2, <2>3
  <2>5. QED BY <1>1, <2>2, <2>3, <2>4 DEF RequestsTo
<1>7. \A r \in put'["load"] : r.by[1] = "task" => RequestsTo(r, step', taken')
  BY <1>5, <1>6, Puts, PutAfter
<1>8. QED BY <1>4, <1>7 DEF TaskKeys

\* A request is a new record.
LEMMA FreshRequest ==
    ASSUME ControlInv, KeysInv, NEW r, NewRecord(r), ByTask(r)
    PROVE  r \notin put["load"]
<1>1. SUFFICES ASSUME r \in put["load"] PROVE FALSE
  OBVIOUS
<1>2. r.by[1] = "task" /\ r.by[2] = samples[step].task /\ r.n[1] = taken + 1
  BY DEF ByTask
<1>3. step \in DOMAIN samples /\ taken \in Nat /\ \A i, j \in DOMAIN samples : samples[i].task = samples[j].task => i = j
  BY DEF ControlInv, SamplesShape
<1>4. PICK s \in DOMAIN samples : r.by[2] = samples[s].task /\ (s < step \/ (s = step /\ r.n[1] <= taken))
  BY <1>1, <1>2 DEF KeysInv, TaskKeys, RequestsTo
<1>5. s = step
  BY <1>2, <1>3, <1>4
<1>6. step \in Nat
  BY <1>3, SeqDomain DEF ControlInv, SamplesShape
<1>7. QED BY <1>2, <1>3, <1>4, <1>5, <1>6

-----------------------------------------------------------------------------
(* The records of the hooks.                                                 *)

\* The hook goes on to a later position.
LEMMA NextDeviceLater ==
    ASSUME IsSeq(devices), NEW h, NEW n \in Nat, NEW a, a = NextDevice(h, n)
    PROVE  a \in Nat \X Nat /\ (a = Done \/ (a[1] > n /\ a[1] \in Nat /\ a[2] = 1))
<1>1. Len(devices) \in Nat
  BY SeqDomain
<1>2. PICK later : later = {j \in (n + 1)..Len(devices) : DeedsOf(h, j) # <<>>}
  OBVIOUS
<1>3. a = IF later = {} THEN Done ELSE <<Min(later), 1>>
  BY <1>2 DEF NextDevice
<1>4. CASE later = {}
  BY <1>3, <1>4 DEF Done
<1>5. CASE later # {}
  <2>1. later \in SUBSET Nat
    BY <1>1, <1>2
  <2>2. \E x \in later : \A y \in later : x <= y
    BY <1>5, <2>1, LeastNumber
  <2>3. Min(later) \in later
    BY <2>2 DEF Min
  <2>4. PICK m \in later : m = Min(later)
    BY <2>3
  <2>5. a = <<m, 1>> /\ m \in Nat /\ m > n
    BY <1>1, <1>2, <1>3, <1>5, <2>4
  <2>6. QED BY <2>5
<1>6. QED BY <1>4, <1>5

LEMMA NextLater ==
    ASSUME IsSeq(devices), at \in Nat \X Nat, NEW a, a \in {NextDeed, NextDevice(hook, at[1])}
    PROVE  a \in Nat \X Nat /\ (a = Done \/ Earlier(at, a))
<1>1. at[1] \in Nat /\ at[2] \in Nat
  OBVIOUS
<1>2. CASE a = NextDevice(hook, at[1])
  <2>1. a \in Nat \X Nat /\ (a = Done \/ (a[1] > at[1] /\ a[1] \in Nat /\ a[2] = 1))
    BY <1>1, <1>2, NextDeviceLater
  <2>2. QED BY <1>1, <2>1 DEF Earlier
<1>3. CASE a = <<at[1], at[2] + 1>>
  <2>1. a[1] = at[1] /\ a[2] = at[2] + 1 /\ a \in Nat \X Nat
    BY <1>1, <1>3
  <2>2. QED BY <1>1, <2>1 DEF Earlier
<1>4. QED BY <1>2, <1>3 DEF NextDeed

\* Earlier is transitive.
LEMMA EarlierStill ==
    ASSUME NEW n, n[1] \in Nat, n[2] \in Nat, NEW a \in Nat \X Nat, NEW b \in Nat \X Nat, Earlier(a, b)
    PROVE  Earlier(n, a) \/ n = a => Earlier(n, b)
BY DEF Earlier

\* Where the hook is.
LEMMA HookMoves ==
    ASSUME ControlInv, SamplerInv, HookKeys, [Next]_vars
    PROVE  /\ at' \in Nat \X Nat
           /\ \/ CallDevice /\ hook' = hook /\ (at' = Done \/ Earlier(at, at'))
              \/ ~CallDevice /\ hook' = hook /\ at' = at
              \/ ~CallDevice /\ hook' = None
              \/ ~CallDevice /\ hook' = "start" /\ phase = "idle"
              \/ ~CallDevice /\ hook' = "stop" /\ Early
<1>1. IsSeq(devices) /\ at \in Nat \X Nat /\ PhasesFit
  BY DEF SamplerInv, DevicesTidy, HookKeys, ControlInv
<1>2. UNCHANGED telemetryVars => hook' = hook /\ at' = at
  BY DEF telemetryVars
<1>3. CASE CallDevice
  <2>1. hook' = hook /\ at' \in {NextDeed, NextDevice(hook, at[1])}
    BY <1>3 DEF CallDevice, HookStep, HookAnswered, HookUnanswered, HookPuts, HookDescribes, HookWritesFile,
         HookSpawns, HookStops, HookJoins
  <2>2. PICK a : a = at'
    OBVIOUS
  <2>3. a \in Nat \X Nat /\ (a = Done \/ Earlier(at, a))
    BY <1>1, <2>1, <2>2, NextLater
  <2>4. QED BY <1>3, <2>1, <2>2, <2>3
<1>4. CASE ~CallDevice
  <2>1. CASE StartBenchmark \/ StopTelemetry
    <3>1. PICK h : /\ hook' = h /\ at' = NextDevice(h, 0)
                   /\ (h = "start" /\ phase = "idle") \/ (h = "stop" /\ phase = "step over")
      BY <2>1 DEF StartBenchmark, StopTelemetry, Begin
    <3>2. PICK a : a = at'
      OBVIOUS
    <3>3. a \in Nat \X Nat
      BY <1>1, <3>1, <3>2, NextDeviceLater
    <3>4. QED BY <1>4, <3>1, <3>2, <3>3 DEF Early
  <2>2. CASE DeviceRaises \/ DevicesCalled
    BY <1>1, <1>4, <2>2 DEF DeviceRaises, HookRaises, DevicesCalled
  <2>3. CASE Telemetering
    BY <1>1, <1>4, <2>3 DEF Telemetering, SamplerStep, Continue, RecorderAnswered, RecorderUnanswered, RecorderPuts,
       ThreadAt
  <2>4. CASE \/ PostProcess \/ PutRequest \/ FlushRequests \/ RequestsFlushed \/ MoveToNextTask
             \/ TakeMemento \/ FlushAtClose \/ SendComplete \/ Abort \/ BulkAnswered \/ BulkRaises
             \/ BulkAdd \/ OnTaskFinished \/ OnBenchmarkComplete \/ CalculateResults
             \/ TearDown \/ Engine \/ Finished \/ UNCHANGED vars
    BY <1>1, <1>4, <2>4, QuietSteps DEF Quiet
  <2>5. QED BY <1>4, <2>1, <2>2, <2>3, <2>4 DEF Next
<1>5. QED BY <1>3, <1>4

\* The load generator does not go back.
LEMMA PhaseForward ==
    ASSUME ControlInv, [Next]_vars
    PROVE  /\ phase' = "idle" => phase = "idle"
           /\ Early' => Early
<1>1. PhasesFit /\ BulkShape
  BY DEF ControlInv
<1>2. UNCHANGED controlVars => phase' = phase
  BY DEF controlVars
<1>3. CASE \/ StartBenchmark \/ PostProcess \/ PutRequest \/ FlushRequests \/ RequestsFlushed \/ MoveToNextTask
           \/ StopTelemetry
  BY <1>3 DEF StartBenchmark, PostProcess, PutRequest, FlushRequests, RequestsFlushed, MoveToNextTask,
     StopTelemetry, Early
<1>4. CASE DeviceRaises
  BY <1>4 DEF DeviceRaises, Early
<1>5. CASE DevicesCalled
  BY <1>1, <1>5 DEF DevicesCalled, PhasesFit, Early
<1>6. CASE TakeMemento \/ FlushAtClose \/ SendComplete \/ Abort
  BY <1>6 DEF TakeMemento, FlushAtClose, SendComplete, Abort, Early
<1>7. CASE BulkRaises
  BY <1>7 DEF BulkRaises, Early
<1>8. CASE BulkAdd \/ OnTaskFinished \/ OnBenchmarkComplete \/ CalculateResults
  BY <1>8 DEF BulkAdd, OnTaskFinished, OnBenchmarkComplete, CalculateResults, Early
<1>9. CASE CallDevice \/ BulkAnswered \/ TearDown \/ Engine \/ Telemetering \/ Finished \/ UNCHANGED vars
  BY <1>2, <1>9 DEF CallDevice, BulkAnswered, TearDown, Engine, Telemetering, Finished, vars, Early
<1>10. QED BY <1>3, <1>4, <1>5, <1>6, <1>7, <1>8, <1>9 DEF Next

LEMMA HooksStep ==
    ASSUME ControlInv, SamplerInv, KeysInv, [Next]_vars
    PROVE  HookKeys'
<1>1. RecordTypes /\ HookKeys /\ SamplerKeys /\ PhasesFit
  BY DEF KeysInv, ControlInv
<1>2. at \in Nat \X Nat /\ at' \in Nat \X Nat
  BY <1>1, HookMoves DEF HookKeys
<1>3. ASSUME NEW r, NewRecord(r), r.by[1] \in {"start", "stop"}
      PROVE  ByHook(r) /\ r.by[1] = hook /\ r.n = at
  <2>1. ~ByTask(r) /\ \A t : ~BySampler(t, r)
    BY <1>1, <1>3, PutBy
  <2>2. ByHook(r)
    BY <1>3, <2>1 DEF NewRecord
  <2>3. QED BY <1>1, <1>3, <2>2, PutBy DEF ByHook
<1>4. ASSUME NEW r \in put'["load"]
      PROVE  r \in put["load"] \/ NewRecord(r)
  <2>1. CASE put'["load"] = put["load"]
    BY <2>1
  <2>2. ASSUME NEW x, NewRecord(x)
        PROVE  r \in put["load"] \/ NewRecord(r)
    BY <2>2, PutAfter
  <2>3. ASSUME NEW x, NewMetric(x)
        PROVE  r \in put["load"]
    BY <2>3, PutAfter
  <2>4. QED BY <2>1, <2>2, <2>3, Puts
<1>5. ASSUME phase' = "idle", NEW r \in put'["load"]
      PROVE  r.by[1] # "start"
  <2>1. phase = "idle"
    BY <1>5, PhaseForward
  <2>2. CASE r \in put["load"]
    BY <1>1, <2>1, <2>2 DEF HookKeys
  <2>3. CASE NewRecord(r)
    BY <1>1, <1>3, <2>1, <2>3 DEF PhasesFit
  <2>4. QED BY <1>4, <1>5, <2>2, <2>3
<1>6. ASSUME Early', NEW r \in put'["load"]
      PROVE  r.by[1] # "stop"
  <2>1. Early
    BY <1>6, PhaseForward
  <2>2. CASE r \in put["load"]
    BY <1>1, <2>1, <2>2 DEF HookKeys
  <2>3. CASE NewRecord(r)
    BY <1>1, <1>3, <2>1, <2>3 DEF PhasesFit, Early
  <2>4. QED BY <1>4, <1>6, <2>2, <2>3
<1>7. ASSUME hook' # None, NEW r \in put'["load"], r.by[1] = hook'
      PROVE  at' = Done \/ Earlier(r.n, at')
  <2>1. CASE CallDevice /\ hook' = hook /\ (at' = Done \/ Earlier(at, at'))
    <3>1. SUFFICES ASSUME at' # Done
                   PROVE  Earlier(r.n, at')
      OBVIOUS
    <3>2. at # Done
      BY <2>1 DEF CallDevice, HookStep, HookAnswered, HookUnanswered, HookPuts, HookDescribes, HookWritesFile,
         HookSpawns, HookStops, HookJoins, Doing
    <3>3. hook \in {"start", "stop"}
      BY <1>1, <1>7, <2>1 DEF PhasesFit
    <3>4. (r \in put["load"] => Earlier(r.n, at)) /\ (NewRecord(r) => r.n = at)
      BY <1>1, <1>3, <1>7, <2>1, <3>2, <3>3 DEF HookKeys
    <3>5. r.n[1] \in Nat /\ r.n[2] \in Nat
      <4>1. CASE r \in put["load"]
        BY <1>1, <1>7, <2>1, <3>3, <4>1 DEF RecordTypes
      <4>2. CASE NewRecord(r)
        BY <1>2, <3>4, <4>2
      <4>3. QED BY <1>4, <1>7, <4>1, <4>2
    <3>6. PICK a, b, n : a = at /\ b = at' /\ n = r.n
      OBVIOUS
    <3>7. Earlier(n, a) \/ n = a => Earlier(n, b)
      BY <1>2, <2>1, <3>1, <3>5, <3>6, EarlierStill
    <3>8. QED BY <1>4, <1>7, <3>4, <3>6, <3>7
  <2>2. CASE ~CallDevice /\ hook' = hook /\ at' = at
    <3>1. hook \in {"start", "stop"}
      BY <1>1, <1>7, <2>2 DEF PhasesFit
    <3>2. ~NewRecord(r)
      BY <1>3, <1>7, <2>2, <3>1 DEF ByHook
    <3>3. QED BY <1>1, <1>4, <1>7, <2>2, <3>2 DEF HookKeys
  <2>3. CASE ~CallDevice /\ hook' = "start" /\ phase = "idle"
    <3>1. ~NewRecord(r)
      BY <1>3, <1>7, <2>3 DEF ByHook
    <3>2. QED BY <1>1, <1>4, <1>7, <2>3, <3>1 DEF HookKeys
  <2>4. CASE ~CallDevice /\ hook' = "stop" /\ Early
    <3>1. ~NewRecord(r)
      BY <1>3, <1>7, <2>4 DEF ByHook
    <3>2. QED BY <1>1, <1>4, <1>7, <2>4, <3>1 DEF HookKeys
  <2>5. QED BY <1>1, <1>7, <2>1, <2>2, <2>3, <2>4, HookMoves
<1>8. QED BY <1>2, <1>5, <1>6, <1>7 DEF HookKeys

LEMMA FreshOfHook ==
    ASSUME ControlInv, KeysInv, NEW r, NewRecord(r), ByHook(r)
    PROVE  r \notin put["load"]
<1>1. SUFFICES ASSUME r \in put["load"] PROVE FALSE
  OBVIOUS
<1>2. r.by[1] = hook /\ hook # None /\ at # Done /\ r.n = at
  BY DEF ByHook
<1>3. Earlier(at, at) /\ at \in Nat \X Nat
  BY <1>1, <1>2 DEF KeysInv, HookKeys
<1>4. QED BY <1>3 DEF Earlier

-----------------------------------------------------------------------------
(* The records of the samplers.                                              *)

Recording(d) == d.pc \notin {NotStarted, 0, Ended}

\* A sampler goes from d to e: it stays, it is not in record() any more, it
\* takes the next sample, or it goes on with the one it has.
Moved(d, e, puts) ==
    /\ e \in ThreadType
    /\ \/ e.pc = d.pc /\ e.samples = d.samples /\ ~puts
       \/ ~Recording(e) /\ e.samples = d.samples
       \/ e.samples = d.samples + 1 /\ ~puts
       \/ Recording(d) /\ e.pc > d.pc /\ e.samples = d.samples

LEMMA MovedKeeps ==
    ASSUME NEW d \in ThreadType, NEW e, NEW puts \in BOOLEAN, Moved(d, e, puts),
           NEW r, r.n[1] \in Nat, r.n[2] \in Nat,
           SampledBefore(r, d) \/ (puts /\ r.n = <<d.samples, d.pc>>)
    PROVE  SampledBefore(r, e)
<1>1. d.pc \in Nat /\ d.samples \in Nat /\ e.pc \in Nat /\ e.samples \in Nat
  BY DEF ThreadType, Moved
<1>2. PICK a, b, c, g : a = r.n[1] /\ b = r.n[2] /\ c = d.samples /\ g = e.samples
  OBVIOUS
<1>3. a \in Nat /\ b \in Nat /\ c \in Nat /\ g \in Nat
  BY <1>1, <1>2
<1>4. a <= c /\ (g = c \/ g = c + 1)
  BY <1>1, <1>2, <1>3 DEF SampledBefore, Moved
<1>5. a <= g
  BY <1>3, <1>4
<1>6. ASSUME Recording(e)
      PROVE  a < g \/ (a = g /\ b < e.pc)
  <2>1. CASE g = c + 1
    BY <1>3, <1>4, <2>1
  <2>2. CASE g = c
    <3>1. g # c + 1
      BY <1>3, <2>2
    <3>2. CASE e.pc = d.pc /\ ~puts
      <4>1. Earlier(r.n, <<d.samples, d.pc>>)
        BY <1>6, <3>2 DEF SampledBefore, Recording
      <4>2. QED BY <1>2, <2>2, <3>2, <4>1 DEF Earlier
    <3>3. CASE Recording(d) /\ e.pc > d.pc
      <4>1. Earlier(r.n, <<d.samples, d.pc>>) \/ (a = c /\ b = d.pc)
        BY <1>2, <3>3 DEF SampledBefore, Recording
      <4>2. a < c \/ (a = c /\ b < d.pc) \/ (a = c /\ b = d.pc)
        BY <1>2, <4>1 DEF Earlier
      <4>3. QED BY <1>1, <1>3, <2>2, <3>3, <4>2
    <3>4. QED BY <1>2, <1>6, <3>1, <3>2, <3>3 DEF Moved
  <2>3. QED BY <1>4, <2>1, <2>2
<1>7. Recording(e) => Earlier(r.n, <<e.samples, e.pc>>)
  BY <1>2, <1>6 DEF Earlier
<1>8. QED BY <1>2, <1>5, <1>7 DEF SampledBefore, Recording

\* What a step makes of a sampler.
LEMMA SamplerTurns ==
    ASSUME SamplerKeys, NEW u \in DOMAIN thread, SamplerStep(u)
    PROVE  DOMAIN thread' = DOMAIN thread /\ \A t \in DOMAIN thread : Moved(thread[t], thread'[t], t = u /\ RecorderPuts(t))
<1>1. \A t \in DOMAIN thread : thread[t] \in ThreadType
  BY DEF SamplerKeys
<1>2. PICK d : d = thread[u]
  OBVIOUS
<1>3. d \in ThreadType /\ d.pc \in Nat /\ d.samples \in Nat
  BY <1>1, <1>2 DEF ThreadType
<1>4. ~Recording([d EXCEPT !.pc = 0]) /\ ~Recording([d EXCEPT !.pc = Ended]) /\ Ended \in Nat /\ 0 \in Nat
  BY <1>3 DEF Recording, ThreadType, Ended
<1>5. ASSUME NEW pc \in Nat, thread' = [thread EXCEPT ![u].pc = pc],
             pc \in {0, Ended} \/ (Recording(d) /\ pc > d.pc)
      PROVE  Moved(d, thread'[u], TRUE) /\ Moved(d, thread'[u], FALSE)
  <2>1. PICK e : e = [d EXCEPT !.pc = pc]
    OBVIOUS
  <2>2. e \in ThreadType /\ e.samples = d.samples /\ e.pc = pc
    BY <1>3, <2>1 DEF ThreadType
  <2>3. thread'[u] = e
    BY <1>2, <1>5, <2>1
  <2>4. Moved(d, e, TRUE) /\ Moved(d, e, FALSE)
    BY <1>4, <1>5, <2>1, <2>2 DEF Moved
  <2>5. QED BY <2>3, <2>4
<1>6. ASSUME thread' = [thread EXCEPT ![u].pc = 1, ![u].samples = @ + 1]
      PROVE  Moved(d, thread'[u], FALSE)
  <2>1. PICK e, m, f : e = [d EXCEPT !.pc = 1] /\ m = d.samples + 1 /\ f = [e EXCEPT !.samples = m]
    OBVIOUS
  <2>2. e \in ThreadType /\ e.samples = d.samples /\ m \in Nat
    BY <1>3, <2>1 DEF ThreadType
  <2>3. f \in ThreadType /\ f.samples = m
    BY <2>1, <2>2 DEF ThreadType
  <2>4. thread'[u] = f
    <3>1. PICK g : g = [thread EXCEPT ![u].pc = 1]
      OBVIOUS
    <3>2. g[u] = e /\ u \in DOMAIN g
      BY <1>2, <2>1, <3>1
    <3>3. thread' = [g EXCEPT ![u].samples = @ + 1]
      BY <1>6, <3>1
    <3>4. thread'[u] = [e EXCEPT !.samples = e.samples + 1]
      BY <3>2, <3>3
    <3>5. QED BY <2>1, <2>2, <3>4
  <2>5. Moved(d, f, FALSE)
    BY <2>1, <2>3 DEF Moved
  <2>6. QED BY <2>4, <2>5
<1>7. AfterDeed(u) \in Nat /\ (AfterDeed(u) = 0 \/ AfterDeed(u) > d.pc)
  BY <1>2, <1>3 DEF AfterDeed
<1>8. \/ Moved(d, thread'[u], TRUE) /\ Moved(d, thread'[u], FALSE)
      \/ Moved(d, thread'[u], FALSE) /\ ~RecorderPuts(u)
  <2>1. CASE Continue(u)
    <3>1. ~RecorderPuts(u)
      BY <2>1 DEF Continue, RecorderPuts
    <3>2. CASE ThreadAt(u, Ended)
      BY <1>4, <1>5, <3>2 DEF ThreadAt
    <3>3. CASE thread' = [thread EXCEPT ![u].pc = 1, ![u].samples = @ + 1]
      BY <1>6, <3>1, <3>3
    <3>4. QED BY <2>1, <3>2, <3>3 DEF Continue
  <2>2. CASE RecorderAnswered(u) \/ RecorderPuts(u)
    <3>1. Recording(d) /\ thread' = [thread EXCEPT ![u].pc = AfterDeed(u)]
      BY <1>2, <2>2 DEF RecorderAnswered, RecorderPuts, ThreadAt, Recording
    <3>2. PICK pc : pc = AfterDeed(u)
      OBVIOUS
    <3>3. QED BY <1>5, <1>7, <3>1, <3>2
  <2>3. CASE RecorderUnanswered(u)
    <3>1. Recording(d)
      BY <1>2, <2>3 DEF RecorderUnanswered, Recording
    <3>2. PICK pc \in {0, Ended, d.pc + 2} : thread' = [thread EXCEPT ![u].pc = pc]
      <4>1. PICK handling \in Sample(u).arg :
                ThreadAt(u, CASE handling = "raise" -> Ended [] handling = "return" -> 0 [] OTHER -> thread[u].pc + 2)
        BY <2>3 DEF RecorderUnanswered
      <4>2. PICK pc : pc = CASE handling = "raise" -> Ended [] handling = "return" -> 0 [] OTHER -> thread[u].pc + 2
        OBVIOUS
      <4>3. pc \in {0, Ended, d.pc + 2}
        BY <1>2, <4>2
      <4>4. QED BY <4>1, <4>2, <4>3 DEF ThreadAt
    <3>3. pc \in Nat /\ (pc \in {0, Ended} \/ pc > d.pc)
      BY <1>3, <1>4
    <3>4. QED BY <1>5, <3>1, <3>2, <3>3
  <2>4. QED BY <2>1, <2>2, <2>3 DEF SamplerStep
<1>9. DOMAIN thread' = DOMAIN thread /\ \A t \in DOMAIN thread : t # u => thread'[t] = thread[t]
  BY DEF SamplerStep, Continue, RecorderAnswered, RecorderUnanswered, RecorderPuts, ThreadAt
<1>10. ASSUME NEW t \in DOMAIN thread
       PROVE  Moved(thread[t], thread'[t], t = u /\ RecorderPuts(t))
  <2>1. CASE t = u
    <3>1. CASE RecorderPuts(u)
      <4>1. Moved(d, thread'[u], TRUE)
        BY <1>8, <3>1
      <4>2. QED BY <1>2, <2>1, <3>1, <4>1 DEF Moved
    <3>2. CASE ~RecorderPuts(u)
      <4>1. Moved(d, thread'[u], FALSE)
        BY <1>8
      <4>2. QED BY <1>2, <2>1, <3>2, <4>1 DEF Moved
    <3>3. QED BY <3>1, <3>2
  <2>2. CASE t # u
    BY <1>1, <1>9, <1>10, <2>2 DEF Moved
  <2>3. QED BY <2>1, <2>2
<1>11. QED BY <1>9, <1>10

LEMMA SamplersMove ==
    ASSUME SamplerKeys, [Next]_vars
    PROVE  /\ DOMAIN thread' = DOMAIN thread
           /\ \A t \in DOMAIN thread : \/ Moved(thread[t], thread'[t], TRUE)
                                       \/ Moved(thread[t], thread'[t], FALSE) /\ (Telemetering => ~RecorderPuts(t))
<1>1. \A t \in DOMAIN thread : thread[t] \in ThreadType
  BY DEF SamplerKeys
<1>2. CASE UNCHANGED thread /\ ~Telemetering
  BY <1>1, <1>2 DEF Moved
<1>3. CASE Telemetering
  <2>1. PICK u \in DOMAIN thread : SamplerStep(u)
    BY <1>3 DEF Telemetering
  <2>2. /\ DOMAIN thread' = DOMAIN thread
        /\ \A t \in DOMAIN thread : Moved(thread[t], thread'[t], t = u /\ RecorderPuts(t))
    BY <2>1, SamplerTurns
  <2>3. ASSUME NEW t \in DOMAIN thread
        PROVE  \/ Moved(thread[t], thread'[t], TRUE)
               \/ Moved(thread[t], thread'[t], FALSE) /\ ~RecorderPuts(t)
    <3>1. CASE RecorderPuts(t)
      <4>1. SamplerStep(t)
        BY <3>1 DEF SamplerStep
      <4>2. Moved(thread[t], thread'[t], t = t /\ RecorderPuts(t))
        BY <4>1, SamplerTurns
      <4>3. QED BY <3>1, <4>2 DEF Moved
    <3>2. CASE ~RecorderPuts(t)
      BY <2>2, <3>2 DEF Moved
    <3>3. QED BY <3>1, <3>2
  <2>4. QED BY <2>2, <2>3
<1>4. CASE ~Telemetering /\ CallDevice /\ (HookSpawns \/ HookStops)
  <2>1. ASSUME NEW t \in DOMAIN thread, thread'[t] = [thread[t] EXCEPT !.pc = 0]
        PROVE  Moved(thread[t], thread'[t], TRUE)
    <3>1. PICK d, e : d = thread[t] /\ e = [d EXCEPT !.pc = 0]
      OBVIOUS
    <3>2. e \in ThreadType /\ e.samples = d.samples /\ e.pc = 0
      BY <1>1, <2>1, <3>1 DEF ThreadType
    <3>3. Moved(d, e, TRUE)
      BY <3>2 DEF Moved, Recording
    <3>4. QED BY <2>1, <3>1, <3>3
  <2>2. ASSUME NEW t \in DOMAIN thread, thread'[t] = thread[t] \/ thread'[t] = [thread[t] EXCEPT !.stop = TRUE]
        PROVE  Moved(thread[t], thread'[t], FALSE)
    <3>1. PICK d, e : d = thread[t] /\ e = thread'[t]
      OBVIOUS
    <3>2. e \in ThreadType /\ e.samples = d.samples /\ e.pc = d.pc
      BY <1>1, <2>2, <3>1 DEF ThreadType
    <3>3. Moved(d, e, FALSE)
      BY <3>2 DEF Moved
    <3>4. QED BY <3>1, <3>3
  <2>3. CASE HookSpawns
    <3>1. thread' = [t \in DOMAIN thread |->
                    IF t[1] = Command THEN [thread[t] EXCEPT !.pc = 0] ELSE thread[t]]
      BY <2>3 DEF HookSpawns
    <3>2. QED BY <1>4, <2>1, <2>2, <3>1
  <2>4. CASE HookStops
    <3>1. PICK x : thread' = [thread EXCEPT ![x].stop = TRUE]
      BY <2>4 DEF HookStops
    <3>2. /\ DOMAIN thread' = DOMAIN thread
          /\ \A t \in DOMAIN thread : thread'[t] = thread[t] \/ thread'[t] = [thread[t] EXCEPT !.stop = TRUE]
      BY <3>1
    <3>3. QED BY <1>4, <2>2, <3>2
  <2>5. QED BY <1>4, <2>3, <2>4
<1>5. Telemetering \/ UNCHANGED thread \/ (CallDevice /\ (HookSpawns \/ HookStops))
  <2>1. CASE CallDevice
    BY <2>1 DEF CallDevice, HookStep, HookAnswered, HookUnanswered, HookPuts, HookDescribes, HookWritesFile, HookJoins
  <2>2. CASE StartBenchmark \/ StopTelemetry \/ DeviceRaises \/ DevicesCalled
    BY <2>2 DEF StartBenchmark, StopTelemetry, Begin, DeviceRaises, HookRaises, DevicesCalled
  <2>3. CASE \/ PostProcess \/ PutRequest \/ FlushRequests \/ RequestsFlushed \/ MoveToNextTask
             \/ TakeMemento \/ FlushAtClose \/ SendComplete \/ Abort \/ BulkAnswered \/ BulkRaises
             \/ BulkAdd \/ OnTaskFinished \/ OnBenchmarkComplete \/ CalculateResults
             \/ TearDown \/ Engine \/ Finished \/ UNCHANGED vars
    BY <2>3, QuietSteps DEF Quiet
  <2>4. QED BY <2>1, <2>2, <2>3 DEF Next
<1>6. QED BY <1>2, <1>3, <1>4, <1>5

\* A record that a step finds in the store was there before, or is the new one.
LEMMA OldOrNew ==
    ASSUME ControlInv, [Next]_vars, NEW r \in put'["load"]
    PROVE  r \in put["load"] \/ NewRecord(r)
<1>1. CASE put'["load"] = put["load"]
  BY <1>1
<1>2. ASSUME NEW x, NewRecord(x)
      PROVE  r \in put["load"] \/ NewRecord(r)
  BY <1>2, PutAfter
<1>3. ASSUME NEW x, NewMetric(x)
      PROVE  r \in put["load"]
  BY <1>3, PutAfter
<1>4. QED BY <1>1, <1>2, <1>3, Puts

LEMMA SamplerKeysStep ==
    ASSUME ControlInv, KeysInv, [Next]_vars
    PROVE  SamplerKeys'
<1>1. RecordTypes /\ HookKeys /\ SamplerKeys
  BY DEF KeysInv
<1>2. SUFFICES ASSUME NEW t \in DOMAIN thread
               PROVE  /\ thread'[t] \in ThreadType
                      /\ \A r \in put'["load"] : r.by = <<"sampler", t>> => SampledBefore(r, thread'[t])
  <2>1. DOMAIN thread' = DOMAIN thread
    BY <1>1, SamplersMove
  <2>2. QED BY <2>1 DEF SamplerKeys, SampledBefore, Earlier
<1>3. PICK d, e : d = thread[t] /\ e = thread'[t]
  OBVIOUS
<1>4. d \in ThreadType
  BY <1>1, <1>3 DEF SamplerKeys
<1>5. PICK puts \in BOOLEAN : Moved(d, e, puts) /\ (Telemetering /\ RecorderPuts(t) => puts)
  BY <1>1, <1>3, SamplersMove
<1>6. e \in ThreadType
  BY <1>5 DEF Moved
<1>7. ASSUME NEW r \in put'["load"], r.by = <<"sampler", t>>
      PROVE  SampledBefore(r, e)
  <2>1. r.by[1] = "sampler"
    BY <1>7
  <2>2. CASE r \in put["load"]
    <3>1. r.n[1] \in Nat /\ r.n[2] \in Nat
      BY <1>1, <2>1, <2>2 DEF RecordTypes
    <3>2. SampledBefore(r, d)
      BY <1>1, <1>3, <1>7, <2>2 DEF SamplerKeys
    <3>3. QED BY <1>4, <1>5, <3>1, <3>2, MovedKeeps
  <2>3. CASE NewRecord(r)
    <3>1. ~ByTask(r) /\ ~ByHook(r) /\ r.n[1] \in Nat /\ r.n[2] \in Nat
      BY <1>1, <2>1, <2>3, PutBy
    <3>2. PICK u : BySampler(u, r)
      BY <2>3, <3>1 DEF NewRecord
    <3>3. u = t /\ RecorderPuts(u) /\ Telemetering /\ r.n = <<thread[u].samples, thread[u].pc>>
      BY <1>7, <3>2 DEF BySampler
    <3>4. puts /\ r.n = <<d.samples, d.pc>>
      BY <1>3, <1>5, <3>3
    <3>5. QED BY <1>4, <1>5, <3>1, <3>4, MovedKeeps
  <2>4. QED BY <1>7, <2>2, <2>3, OldOrNew
<1>8. QED BY <1>3, <1>6, <1>7

LEMMA FreshOfSampler ==
    ASSUME ControlInv, KeysInv, NEW r, NewRecord(r), NEW t, BySampler(t, r)
    PROVE  r \notin put["load"]
<1>1. SUFFICES ASSUME r \in put["load"] PROVE FALSE
  OBVIOUS
<1>2. t \in DOMAIN thread /\ r.by = <<"sampler", t>> /\ r.n = <<thread[t].samples, thread[t].pc>>
  BY DEF BySampler
<1>3. thread[t].pc \notin {NotStarted, 0, Ended}
  BY DEF BySampler, RecorderPuts
<1>4. thread[t] \in ThreadType /\ SampledBefore(r, thread[t])
  BY <1>1, <1>2 DEF KeysInv, SamplerKeys
<1>5. PICK a, b : a = thread[t].samples /\ b = thread[t].pc
  OBVIOUS
<1>6. a \in Nat /\ b \in Nat
  BY <1>4, <1>5 DEF ThreadType
<1>7. Earlier(<<a, b>>, <<a, b>>)
  BY <1>2, <1>3, <1>4, <1>5 DEF SampledBefore
<1>8. QED BY <1>6, <1>7 DEF Earlier

LEMMA FreshRecord ==
    ASSUME ControlInv, KeysInv, NEW r, NewRecord(r)
    PROVE  r \notin put["load"]
BY FreshRequest, FreshOfHook, FreshOfSampler DEF NewRecord

-----------------------------------------------------------------------------
(* The records of the nodes.                                                 *)

\* The nodes are stopped one after the other.
LEMMA NodesMove ==
    ASSUME LauncherInv, [Next]_vars, engine' = "stopping"
    PROVE  \/ put'["node"] = {}
           \/ engine = "stopping" /\ ~StoreSystemMetrics /\ UNCHANGED <<current, metric>>
           \/ engine = "stopping" /\ ~StoreSystemMetrics /\ current' = current + 1
           \/ engine = "stopping" /\ StoreSystemMetrics /\ current' = current /\ metric' = metric + 1
<1>1. metric \in Nat /\ current \in Nat /\ NodeTypes
  BY DEF LauncherInv, NodeTypes
<1>2. StoreSystemMetrics => engine = "stopping" /\ current' = current /\ metric' = metric + 1
  BY DEF StoreSystemMetrics
<1>3. CASE TearDown
  <2>1. StopEngine
    BY <1>3 DEF TearDown
  <2>2. engine \in Before /\ put' = put
    BY <2>1 DEF StopEngine, storeVars, Before
  <2>3. QED BY <2>2 DEF LauncherInv, NothingYet
<1>4. CASE Engine
  <2>1. CASE PrepareNode(commands) \/ StartProcess \/ LaunchFails \/ AttachToNode
    <3>1. engine' \in {"starting", "failed", "up"}
      BY <2>1 DEF PrepareNode, StartProcess, LaunchFails, AttachToNode
    <3>2. QED BY <3>1
  <2>2. CASE DescribeNode \/ DetachFromNode \/ ProcessMissing \/ Terminate \/ MeasureIndex
    <3>1. engine = "stopping" /\ UNCHANGED <<current, metric>>
      BY <2>2 DEF DescribeNode, DetachFromNode, ProcessMissing, Terminate, MeasureIndex, otherVars
    <3>2. QED BY <1>1, <1>2, <3>1
  <2>3. CASE StoreSystemMetrics
    BY <1>2, <2>3
  <2>4. CASE NodeStored
    BY <1>1, <1>2, <2>4 DEF NodeStored
  <2>5. CASE FlushSystemMetrics \/ StoreSystemResults
    BY <2>5 DEF FlushSystemMetrics, StoreSystemResults
  <2>6. ASSUME NEW n, Crash(n)
        PROVE  engine = "stopping" /\ ~StoreSystemMetrics /\ UNCHANGED <<current, metric>>
    BY <1>1, <1>2, <2>6 DEF Crash
  <2>7. QED BY <1>4, <2>1, <2>2, <2>3, <2>4, <2>5, <2>6 DEF Engine, LauncherStep
<1>5. CASE \/ StartBenchmark \/ CallDevice \/ DeviceRaises \/ DevicesCalled
           \/ PostProcess \/ PutRequest \/ FlushRequests \/ RequestsFlushed
           \/ MoveToNextTask \/ StopTelemetry \/ TakeMemento \/ FlushAtClose \/ SendComplete \/ Abort
           \/ BulkAnswered \/ BulkRaises
           \/ BulkAdd \/ OnTaskFinished \/ OnBenchmarkComplete \/ CalculateResults
           \/ Telemetering \/ Finished \/ UNCHANGED vars
  <2>1. Elsewhere
    BY <1>1, <1>5, ElsewhereSteps
  <2>2. QED BY <1>1, <1>2, <2>1 DEF Elsewhere
<1>6. QED BY <1>3, <1>4, <1>5 DEF Next

LEMMA NodeKeysStep ==
    ASSUME ControlInv, LauncherInv, KeysInv, [Next]_vars
    PROVE  NodeKeys'
<1>1. RecordTypes /\ NodeKeys /\ metric \in Nat /\ current \in Nat
  BY DEF KeysInv, LauncherInv, NodeTypes
<1>2. SUFFICES ASSUME engine' = "stopping", NEW r \in put'["node"]
               PROVE  MetricsTo(r, current', metric')
  BY DEF NodeKeys, MetricsTo
<1>3. r \in put["node"] \/ NewMetric(r)
  <2>1. CASE put'["node"] = put["node"]
    BY <2>1
  <2>2. ASSUME NEW x, NewRecord(x)
        PROVE  r \in put["node"]
    BY <2>2, PutAfter
  <2>3. ASSUME NEW x, NewMetric(x)
        PROVE  r \in put["node"] \/ NewMetric(r)
    BY <2>3, PutAfter
  <2>4. QED BY <2>1, <2>2, <2>3, Puts
<1>4. CASE engine = "stopping" /\ r \in put["node"] /\ (current' = current => metric' \in {metric, metric + 1})
           /\ current' \in {current, current + 1}
  <2>1. PICK i \in DOMAIN Nodes : r.by[2] = Nodes[i] /\ (i < current \/ (i = current /\ r.n[1] < metric))
    BY <1>1, <1>4 DEF NodeKeys, MetricsTo
  <2>2. i \in Nat /\ r.n[1] \in Nat
    BY <1>1, <1>4, NodesNamed DEF RecordTypes
  <2>3. PICK n, c, d, m, k : n = r.n[1] /\ c = current /\ d = current' /\ m = metric /\ k = metric'
    OBVIOUS
  <2>4. i < d \/ (i = d /\ n < k)
    BY <1>1, <1>4, <2>1, <2>2, <2>3
  <2>5. QED BY <2>1, <2>3, <2>4 DEF MetricsTo
<1>5. CASE StoreSystemMetrics /\ NewMetric(r) /\ engine = "stopping" /\ current' = current /\ metric' = metric + 1
  <2>1. r.by[2] = Nodes[current] /\ r.n[1] = metric /\ current \in DOMAIN Nodes
    BY <1>5, CurrentNode DEF NewMetric
  <2>2. r.n[1] < metric'
    BY <1>1, <1>5, <2>1
  <2>3. QED BY <1>5, <2>1, <2>2 DEF MetricsTo
<1>6. NewMetric(r) => StoreSystemMetrics
  BY DEF NewMetric
<1>7. current + 1 # current
  BY <1>1
<1>8. CASE put'["node"] = {}
  BY <1>2, <1>8
<1>9. CASE engine = "stopping" /\ ~StoreSystemMetrics /\ UNCHANGED <<current, metric>>
  BY <1>3, <1>4, <1>6, <1>9
<1>10. CASE engine = "stopping" /\ ~StoreSystemMetrics /\ current' = current + 1
  BY <1>3, <1>4, <1>6, <1>7, <1>10
<1>11. CASE engine = "stopping" /\ StoreSystemMetrics /\ current' = current /\ metric' = metric + 1
  BY <1>3, <1>4, <1>5, <1>11
<1>12. QED BY <1>2, <1>8, <1>9, <1>10, <1>11, NodesMove

LEMMA FreshMetric ==
    ASSUME LauncherInv, KeysInv, NEW r, NewMetric(r)
    PROVE  r \notin put["node"]
<1>1. SUFFICES ASSUME r \in put["node"] PROVE FALSE
  OBVIOUS
<1>2. engine = "stopping" /\ metric \in Nat /\ current \in Nat
  BY DEF NewMetric, StoreSystemMetrics, LauncherInv, NodeTypes
<1>3. r.by[2] = Nodes[current] /\ r.n[1] = metric /\ current \in DOMAIN Nodes
  BY <1>2, CurrentNode DEF NewMetric
<1>4. PICK i \in DOMAIN Nodes : r.by[2] = Nodes[i] /\ (i < current \/ (i = current /\ r.n[1] < metric))
  BY <1>1, <1>2 DEF KeysInv, NodeKeys, MetricsTo
<1>5. i = current
  BY <1>3, <1>4, NodesNamed
<1>6. QED BY <1>2, <1>3, <1>4, <1>5

-----------------------------------------------------------------------------

LEMMA KeysStep ==
    ASSUME ControlInv, SamplerInv, LauncherInv, KeysInv, [Next]_vars
    PROVE  KeysInv'
BY TypesStep, TasksStep, HooksStep, SamplerKeysStep, NodeKeysStep DEF KeysInv

LEMMA KeysInitially ==
    ASSUME Init
    PROVE  KeysInv
<1>1. put = [o \in Owners |-> {}] /\ at = Done /\ hook = None /\ engine = "down"
  BY DEF Init, StoreInit, TelemetryInit, LauncherInit
<1>2. put["load"] = {} /\ put["node"] = {}
  BY <1>1 DEF Owners
<1>3. SamplerKeys
  <2>1. \A t \in DOMAIN thread : thread[t] = [pc |-> NotStarted, stop |-> FALSE, samples |-> 0]
    BY DEF Init, TelemetryInit
  <2>2. [pc |-> NotStarted, stop |-> FALSE, samples |-> 0] \in ThreadType
    BY DEF NotStarted, ThreadType
  <2>3. QED BY <1>2, <2>1, <2>2 DEF SamplerKeys
<1>4. QED BY <1>1, <1>2, <1>3 DEF KeysInv, RecordTypes, TaskKeys, HookKeys, NodeKeys, Done

\* A record is new, whichever store it is put into.
LEMMA NewOnes ==
    ASSUME ControlInv, LauncherInv, KeysInv, NEW r
    PROVE  /\ put["load"] \cap put["node"] = {}
           /\ NewRecord(r) => r \notin put["load"] \cup put["node"]
           /\ NewMetric(r) => r \notin put["load"] \cup put["node"]
<1>1. RecordTypes /\ SamplerKeys /\ HookKeys
  BY DEF KeysInv
<1>2. put["load"] \cap put["node"] = {}
  BY <1>1 DEF RecordTypes
<1>3. ASSUME NewRecord(r)
      PROVE  r \notin put["load"] \cup put["node"]
  <2>1. r.by[1] # "node"
    BY <1>1, <1>3, PutBy
  <2>2. QED BY <1>1, <1>3, <2>1, FreshRecord DEF RecordTypes
<1>4. ASSUME NewMetric(r)
      PROVE  r \notin put["load"] \cup put["node"]
  <2>1. r.by[1] = "node"
    BY <1>4 DEF NewMetric
  <2>2. QED BY <1>1, <1>4, <2>1, FreshMetric DEF RecordTypes
<1>5. QED BY <1>2, <1>3, <1>4

\* The samples of the workers are not put while a bulk request is under way.
RequestsCalm == \A r \in Requests : ~r.racing

LEMMA CalmStep ==
    ASSUME ControlInv, KeysInv, RequestsCalm, [Next]_vars
    PROVE  RequestsCalm'
<1>1. SUFFICES ASSUME NEW r \in put'["load"], r.by[1] = "task"
               PROVE  ~r.racing
  BY DEF RequestsCalm, Requests
<1>2. CASE r \in put["load"]
  BY <1>1, <1>2 DEF RequestsCalm, Requests
<1>3. CASE NewRecord(r)
  <2>1. ByTask(r)
    <3>1. ~ByHook(r) /\ \A t : ~BySampler(t, r)
      BY <1>1, <1>3, PutBy DEF KeysInv
    <3>2. QED BY <1>3, <3>1 DEF NewRecord
  <2>2. phase = "processing"
    BY <2>1 DEF ByTask, PutRequest
  <2>3. bulk.store # "load"
    BY <2>2, BulkWaited DEF ControlInv
  <2>4. QED BY <1>3, <2>3 DEF NewRecord
<1>4. QED BY <1>1, <1>2, <1>3, OldOrNew

-----------------------------------------------------------------------------
(* What the steps do to the records.                                         *)

Recorded(r) == NewRecord(r) /\ UNCHANGED <<memento, mailbox, phase, engine>>

Metered(r) == NewMetric(r) /\ UNCHANGED <<memento, mailbox, phase, engine>>

SentOver ==
    \E short, x :
        /\ phase = "step over" /\ phase' = "measuring" /\ Externalizing(short)
        /\ Appended(mailbox', mailbox, x) /\ x.docs = Externalized(short)
        /\ UNCHANGED <<memento, engine>>

Remembered ==
    \E short :
        /\ phase = "handover" /\ phase' = "closing" /\ Externalizing(short)
        /\ memento' = Externalized(short)
        /\ UNCHANGED <<mailbox, engine>>

FlushedLoad ==
    \E refresh \in BOOLEAN :
        /\ Flushing("load", refresh) /\ UNCHANGED <<memento, mailbox, engine>>
        /\ \/ phase = "processing" /\ phase' = "flushing"
           \/ phase = "closing" /\ phase' = "closed" /\ refresh
           \/ phase = "failed" /\ phase' = "aborting"

FlushedNode ==
    /\ Flushing("node", TRUE) /\ engine = "flushing" /\ engine' = "results"
    /\ UNCHANGED <<memento, mailbox, phase>>

Completed ==
    \E x : /\ Still /\ bulk = NoBulk /\ phase = "closed" /\ phase' = "complete"
           /\ Appended(mailbox', mailbox, x) /\ x.docs = memento
           /\ UNCHANGED <<memento, engine>>

Answered ==
    /\ Succeeding \/ Retrying
    /\ UNCHANGED <<memento, mailbox, phase, engine>>

Failed ==
    /\ Failing /\ UNCHANGED <<memento, mailbox>>
    /\ \/ bulk.store = "node" /\ engine' = "stop failed" /\ phase' = phase
       \/ bulk.store = "load" /\ engine' = engine /\ Broken'

TakenOne ==
    \E r : /\ Adding("orchestrator", r) /\ kind = "in-memory" /\ UNCHANGED <<memento, phase, engine>>
           /\ 1 \in DOMAIN mailbox /\ DOMAIN mailbox' = DOMAIN mailbox
           /\ \A i \in DOMAIN mailbox : i # 1 => mailbox'[i] = mailbox[i]
           /\ mailbox'[1].docs = mailbox[1].docs (-) SetToBag({r})
           /\ mailbox[1].docs # EmptyBag
           /\ BagToSet(mailbox[1].docs) # {} => r \in BagToSet(mailbox[1].docs)

Dropped ==
    /\ UNCHANGED <<kind, bulk, index, put, lost, retries, Held, memento, phase, engine>>
    /\ mailbox[1].docs = EmptyBag
    /\ DOMAIN mailbox = 1..Len(mailbox) /\ Len(mailbox) \in Nat \ {0}
    /\ DOMAIN mailbox' = 1..(Len(mailbox) - 1)
    /\ \A i \in DOMAIN mailbox' : i + 1 \in DOMAIN mailbox /\ mailbox'[i] = mailbox[i + 1]
    /\ searchable' = searchable \/ (searchable' = index /\ engine \in Before)

Effect ==
    \/ Resting \/ (\E r : Recorded(r)) \/ (\E r : Metered(r))
    \/ SentOver \/ Remembered \/ FlushedLoad \/ FlushedNode \/ Completed
    \/ Answered \/ Failed \/ TakenOne \/ Dropped

LEMMA AddingSteps ==
    ASSUME ControlInv, [Next]_vars
    PROVE  /\ \A r : NewRecord(r) => Recorded(r)
           /\ \A r : NewMetric(r) => Metered(r)
<1>1. UNCHANGED controlVars => UNCHANGED <<memento, mailbox, phase>>
  BY DEF controlVars
<1>2. UNCHANGED launcherVars => UNCHANGED engine
  BY DEF launcherVars
<1>3. ASSUME NEW r, NewRecord(r)
      PROVE  Recorded(r)
  <2>1. CASE ByTask(r)
    BY <1>3, <2>1, PutRequestAdds DEF ByTask, Recorded
  <2>2. CASE ByHook(r)
    BY <1>1, <1>2, <1>3, <2>2 DEF ByHook, CallDevice, Recorded
  <2>3. CASE \E t : BySampler(t, r)
    BY <1>1, <1>2, <1>3, <2>3 DEF BySampler, Telemetering, Recorded
  <2>4. QED BY <1>3, <2>1, <2>2, <2>3 DEF NewRecord
<1>4. ASSUME NEW r, NewMetric(r)
      PROVE  Metered(r)
  <2>1. UNCHANGED controlVars /\ engine' = engine
    BY <1>4 DEF NewMetric, Engine, StoreSystemMetrics
  <2>2. QED BY <1>1, <1>4, <2>1 DEF Metered
<1>5. QED BY <1>3, <1>4

LEMMA HandoverEffect ==
    ASSUME ControlInv, MoveToNextTask \/ TakeMemento \/ SendComplete
    PROVE  SentOver \/ Remembered \/ Completed
<1>1. StoreShape /\ IsSeq(mailbox) /\ "load" \in Owners
  BY DEF ControlInv, MailboxShape, Owners
<1>2. UNCHANGED launcherVars => UNCHANGED engine
  BY DEF launcherVars
<1>3. CASE MoveToNextTask
  <2>1. phase = "step over" /\ phase' = "measuring" /\ UNCHANGED <<memento, engine>>
    BY <1>2, <1>3 DEF MoveToNextTask
  <2>2. PICK short : /\ ToExternalizable(short)
                     /\ mailbox' = Append(mailbox, [docs |-> Externalized(short), last |-> FALSE])
    BY <1>3 DEF MoveToNextTask
  <2>3. PICK x : x = [docs |-> Externalized(short), last |-> FALSE]
    OBVIOUS
  <2>4. x.docs = Externalized(short)
    BY <2>3
  <2>5. Appended(mailbox', mailbox, x)
    BY <1>1, <2>2, <2>3, SeqAppend
  <2>6. Externalizing(short)
    BY <1>1, <2>2, ExternalizeEffect
  <2>7. QED BY <2>1, <2>4, <2>5, <2>6 DEF SentOver
<1>4. CASE TakeMemento
  <2>1. phase = "handover" /\ phase' = "closing" /\ UNCHANGED <<mailbox, engine>>
    BY <1>2, <1>4 DEF TakeMemento
  <2>2. PICK short : ToExternalizable(short) /\ memento' = Externalized(short)
    BY <1>4 DEF TakeMemento
  <2>3. Externalizing(short)
    BY <1>1, <2>2, ExternalizeEffect
  <2>4. QED BY <2>1, <2>2, <2>3 DEF Remembered
<1>5. CASE SendComplete
  <2>1. /\ phase = "closed" /\ phase' = "complete" /\ bulk = NoBulk /\ Close("load")
        /\ UNCHANGED <<memento, engine>>
        /\ mailbox' = Append(mailbox, [docs |-> memento, last |-> TRUE])
    BY <1>2, <1>5 DEF SendComplete
  <2>2. PICK x : x = [docs |-> memento, last |-> TRUE]
    OBVIOUS
  <2>3. x.docs = memento
    BY <2>2
  <2>4. Appended(mailbox', mailbox, x)
    BY <1>1, <2>1, <2>2, SeqAppend
  <2>5. Still
    BY <1>1, <2>1, MetaEffect
  <2>6. QED BY <2>1, <2>3, <2>4, <2>5 DEF Completed
<1>6. QED BY <1>3, <1>4, <1>5

LEMMA FlushesEffect ==
    ASSUME ControlInv, FlushRequests \/ FlushAtClose \/ (FlushSystemMetrics /\ UNCHANGED controlVars)
    PROVE  FlushedLoad \/ FlushedNode
<1>1. StoreShape /\ {"load", "node"} \subseteq Owners
  BY DEF ControlInv, Owners
<1>2. UNCHANGED launcherVars => UNCHANGED engine
  BY DEF launcherVars
<1>3. CASE FlushRequests
  <2>1. /\ phase = "processing" /\ phase' = "flushing" /\ Flush("load", FALSE)
        /\ UNCHANGED <<memento, mailbox, engine>>
    BY <1>2, <1>3 DEF FlushRequests, ControlUnchanged
  <2>2. Flushing("load", FALSE)
    BY <1>1, <2>1, FlushEffect
  <2>3. QED BY <2>1, <2>2 DEF FlushedLoad
<1>4. CASE FlushAtClose
  <2>1. /\ Flush("load", TRUE) /\ UNCHANGED <<memento, mailbox, engine>>
        /\ (phase = "closing" /\ phase' = "closed") \/ (phase = "failed" /\ phase' = "aborting")
    BY <1>2, <1>4 DEF FlushAtClose, ControlUnchanged
  <2>2. Flushing("load", TRUE)
    BY <1>1, <2>1, FlushEffect
  <2>3. QED BY <2>1, <2>2 DEF FlushedLoad
<1>5. CASE FlushSystemMetrics /\ UNCHANGED controlVars
  <2>1. /\ Flush("node", TRUE) /\ UNCHANGED <<memento, mailbox, phase>>
        /\ engine = "flushing" /\ engine' = "results"
    BY <1>5 DEF FlushSystemMetrics, controlVars
  <2>2. Flushing("node", TRUE)
    BY <1>1, <2>1, FlushEffect
  <2>3. QED BY <2>1, <2>2 DEF FlushedNode
<1>6. QED BY <1>3, <1>4, <1>5

LEMMA AnswerEffect ==
    ASSUME ControlInv, BulkAnswered \/ BulkRaises
    PROVE  Answered \/ Failed
<1>1. StoreShape /\ BulkShape
  BY DEF ControlInv
<1>2. bulk # NoBulk
  BY DEF BulkAnswered, BulkRaises, BulkSucceeds, BulkRetried, BulkFails
<1>3. {"store", "sent", "refresh"} \subseteq DOMAIN bulk /\ bulk.store \in Owners /\ bulk.store \in {"load", "node"}
  BY <1>1, <1>2 DEF BulkShape, Owners
<1>4. CASE BulkAnswered
  <2>1. UNCHANGED <<memento, mailbox, phase, engine>>
    BY <1>4 DEF BulkAnswered, controlVars, launcherVars
  <2>2. Succeeding \/ Retrying
    BY <1>1, <1>3, <1>4, BulkEffect DEF BulkAnswered
  <2>3. QED BY <2>1, <2>2 DEF Answered
<1>5. CASE BulkRaises
  <2>1. Failing
    BY <1>1, <1>3, <1>5, BulkEffect DEF BulkRaises
  <2>2. UNCHANGED <<memento, mailbox>>
    BY <1>5 DEF BulkRaises, ControlUnchanged
  <2>3. \/ bulk.store = "node" /\ engine' = "stop failed" /\ phase' = phase
        \/ bulk.store = "load" /\ engine' = engine /\ Broken'
    BY <1>3, <1>5 DEF BulkRaises, Broken
  <2>4. QED BY <2>1, <2>2, <2>3 DEF Failed
<1>6. QED BY <1>4, <1>5

LEMMA MessageEffect ==
    ASSUME ControlInv, BulkAdd \/ OnTaskFinished \/ OnBenchmarkComplete
    PROVE  TakenOne \/ Dropped
<1>1. StoreShape /\ PhasesFit
  BY DEF ControlInv
<1>2. CASE BulkAdd
  BY <1>2, TakeOne DEF TakenOne
<1>3. CASE OnTaskFinished
  <2>1. /\ mailbox # <<>> /\ mailbox' = Tail(mailbox) /\ UNCHANGED storeVars
        /\ Head(mailbox).docs = EmptyBag /\ UNCHANGED <<phase, memento>>
    BY <1>3 DEF OnTaskFinished
  <2>2. engine' = engine
    BY <1>3 DEF OnTaskFinished, launcherVars
  <2>3. Still
    BY <1>1, <2>1, StillEffect
  <2>4. mailbox[1].docs = EmptyBag
    BY <2>1, FirstMessage
  <2>5. /\ DOMAIN mailbox' = 1..(Len(mailbox) - 1)
        /\ DOMAIN mailbox = 1..Len(mailbox) /\ Len(mailbox) \in Nat \ {0}
        /\ \A i \in DOMAIN mailbox' : i + 1 \in DOMAIN mailbox /\ mailbox'[i] = mailbox[i + 1]
    BY <2>1, TakenMessage
  <2>6. QED BY <2>1, <2>2, <2>3, <2>4, <2>5 DEF Dropped, Still
<1>4. CASE OnBenchmarkComplete
  <2>1. /\ Flushing("orchestrator", TRUE) /\ bulk' = NoBulk /\ searchable' = index
        /\ phase = "complete" /\ mailbox[1].docs = EmptyBag
        /\ UNCHANGED <<phase, memento, engine>> /\ outcome = None
    BY <1>4, LastMessage
  <2>2. UNCHANGED <<kind, bulk, index, put, lost, retries, Held>>
    BY <2>1 DEF Flushing
  <2>3. mailbox # <<>> /\ mailbox' = Tail(mailbox)
    BY <1>4 DEF OnBenchmarkComplete
  <2>4. /\ DOMAIN mailbox' = 1..(Len(mailbox) - 1)
        /\ DOMAIN mailbox = 1..Len(mailbox) /\ Len(mailbox) \in Nat \ {0}
        /\ \A i \in DOMAIN mailbox' : i + 1 \in DOMAIN mailbox /\ mailbox'[i] = mailbox[i + 1]
    BY <2>1, <2>3, TakenMessage
  <2>5. engine \in Before
    BY <1>1, <2>1 DEF PhasesFit, None
  <2>6. QED BY <2>1, <2>2, <2>4, <2>5 DEF Dropped
<1>5. QED BY <1>2, <1>3, <1>4

LEMMA Effects ==
    ASSUME ControlInv, [Next]_vars
    PROVE  Effect
<1>1. CASE \/ MoveToNextTask \/ TakeMemento \/ SendComplete \/ FlushRequests \/ FlushAtClose
           \/ BulkAnswered \/ BulkRaises \/ BulkAdd \/ OnTaskFinished \/ OnBenchmarkComplete
  BY <1>1, HandoverEffect, FlushesEffect, AnswerEffect, MessageEffect DEF Effect
<1>2. CASE Plainly
  BY <1>2, PlainRests DEF Effect
<1>3. ASSUME NEW r, NewRecord(r) \/ NewMetric(r)
      PROVE  Effect
  BY <1>3, AddingSteps DEF Effect
<1>4. CASE CallDevice \/ Telemetering \/ Engine \/ PutRequest
  <2>1. CASE FlushSystemMetrics
    <3>1. engine = "flushing" /\ engine' = "results"
      BY <2>1 DEF FlushSystemMetrics
    <3>2. UNCHANGED controlVars
      BY <1>4, <3>1 DEF CallDevice, Telemetering, Engine, PutRequest, launcherVars
    <3>3. QED BY <2>1, <3>2, FlushesEffect DEF Effect
  <2>2. CASE Resting
    BY <2>2 DEF Effect
  <2>3. QED BY <1>3, <1>4, <2>1, <2>2, PutsOrRests
<1>5. QED BY <1>1, <1>2, <1>4 DEF Next, Plainly

-----------------------------------------------------------------------------
(* The buffers.                                                              *)

\* What is held was put, and once; what is being sent is held.
BuffersInv ==
    /\ \A o \in {"load", "node"} : Unit(Held[o]) /\ BagToSet(Held[o]) \subseteq put[o]
    /\ bulk # NoBulk => Unit(bulk.sent) /\ BagToSet(bulk.sent) \subseteq BagToSet(Held[bulk.store])

\* One of the records changes.
LEMMA HeldAfter ==
    ASSUME NEW o \in Owners, NEW b, Held' = [Held EXCEPT ![o] = b]
    PROVE  Held'[o] = b /\ \A p \in Owners : p # o => Held'[p] = Held[p]
BY DEF Held

LEMMA AddedTo ==
    ASSUME ControlInv, NEW o \in Owners, NEW r, Adding(o, r)
    PROVE  /\ \A p \in Owners : p # o => Held'[p] = Held[p] /\ put'[p] = put[p]
           /\ put'[o] = put[o] \cup {r}
           /\ \/ Held'[o] = Held[o] (+) SetToBag({r}) /\ lost' = lost
              \/ Held'[o] = Held[o] /\ lost' = lost \cup {r}
           /\ BagToSet(Held[o]) \subseteq BagToSet(Held'[o]) /\ BagToSet(Held'[o]) \subseteq BagToSet(Held[o]) \cup {r}
           /\ Unit(Held[o]) /\ r \notin BagToSet(Held[o]) => Unit(Held'[o])
<1>1. DOMAIN put = Owners
  BY DEF ControlInv, StoreShape
<1>2. put'[o] = put[o] \cup {r} /\ \A p \in Owners : p # o => put'[p] = put[p]
  BY <1>1 DEF Adding
<1>3. PICK b, c : b = SetToBag({r}) /\ c = Held[o] (+) b
  OBVIOUS
<1>4. Unit(b) /\ BagToSet(b) = {r}
  BY <1>3, UnitBags
<1>5. BagToSet(c) = BagToSet(Held[o]) \cup {r} /\ (Unit(Held[o]) /\ r \notin BagToSet(Held[o]) => Unit(c))
  BY <1>3, <1>4, BagSum
<1>6. CASE Held' = [Held EXCEPT ![o] = @ (+) SetToBag({r})] /\ lost' = lost
  <2>1. Held' = [Held EXCEPT ![o] = c]
    BY <1>3, <1>6 DEF Held
  <2>2. Held'[o] = c /\ \A p \in Owners : p # o => Held'[p] = Held[p]
    BY <2>1, HeldAfter
  <2>3. QED BY <1>2, <1>3, <1>5, <1>6, <2>2
<1>7. CASE Held' = Held /\ lost' = lost \cup {r}
  BY <1>2, <1>7
<1>8. QED BY <1>6, <1>7 DEF Adding

\* Records are in a store's buffer, and no bulk request of it is under way.
LEMMA BuffersStep ==
    ASSUME ControlInv, LauncherInv, KeysInv, BuffersInv, [Next]_vars
    PROVE  BuffersInv'
<1>1. BulkShape /\ {"load", "node", "orchestrator"} \subseteq Owners
  BY DEF ControlInv, Owners
<1>2. Unit(EmptyBag) /\ BagToSet(EmptyBag) = {}
  BY UnitBags
<1>3. bulk # NoBulk => bulk.store \in {"load", "node"}
  BY <1>1 DEF BulkShape
<1>4. ASSUME bulk' = bulk,
             \A o \in {"load", "node"} : put'[o] = put[o] /\ Held'[o] = Held[o]
      PROVE  BuffersInv'
  BY <1>3, <1>4 DEF BuffersInv
<1>5. CASE Resting \/ Completed \/ Dropped
  BY <1>4, <1>5 DEF Resting, Completed, Still, Dropped
<1>6. CASE TakenOne
  <2>1. PICK r : Adding("orchestrator", r)
    BY <1>6 DEF TakenOne
  <2>2. bulk' = bulk
    BY <2>1 DEF Adding
  <2>3. \A p \in Owners : p # "orchestrator" => Held'[p] = Held[p] /\ put'[p] = put[p]
    BY <1>1, <2>1, AddedTo
  <2>4. QED BY <1>1, <1>4, <2>2, <2>3
<1>7. ASSUME NEW o \in {"load", "node"}, NEW r, Adding(o, r), r \notin put[o]
      PROVE  BuffersInv'
  <2>1. bulk' = bulk
    BY <1>7 DEF Adding
  <2>2. /\ \A p \in Owners : p # o => Held'[p] = Held[p] /\ put'[p] = put[p]
        /\ put'[o] = put[o] \cup {r}
        /\ BagToSet(Held[o]) \subseteq BagToSet(Held'[o]) /\ BagToSet(Held'[o]) \subseteq BagToSet(Held[o]) \cup {r}
        /\ Unit(Held[o]) /\ r \notin BagToSet(Held[o]) => Unit(Held'[o])
    BY <1>1, <1>7, AddedTo
  <2>3. Unit(Held'[o]) /\ BagToSet(Held'[o]) \subseteq put'[o]
    BY <1>7, <2>2 DEF BuffersInv
  <2>4. \A p \in {"load", "node"} : Unit(Held'[p]) /\ BagToSet(Held'[p]) \subseteq put'[p]
    BY <1>1, <2>2, <2>3 DEF BuffersInv
  <2>5. \A p \in {"load", "node"} : BagToSet(Held[p]) \subseteq BagToSet(Held'[p])
    BY <1>1, <2>2
  <2>6. QED BY <1>3, <2>1, <2>4, <2>5 DEF BuffersInv
<1>8. CASE \E r : Recorded(r)
  BY <1>7, <1>8, NewOnes DEF Recorded, NewRecord
<1>9. CASE \E r : Metered(r)
  BY <1>7, <1>9, NewOnes DEF Metered, NewMetric
<1>10. CASE SentOver \/ Remembered
  <2>1. PICK short : Externalizing(short)
    BY <1>10 DEF SentOver, Remembered
  <2>2. phase \in {"step over", "handover"}
    BY <1>10 DEF SentOver, Remembered
  <2>3. bulk' = bulk /\ put' = put
    BY <2>1 DEF Externalizing
  <2>4. Held'["node"] = Held["node"] /\ Held'["load"] \in {Held["load"], EmptyBag}
    BY <1>1, <2>1, HeldAfter DEF Externalizing
  <2>5. bulk # NoBulk => bulk.store = "node"
    BY <1>1, <2>2 DEF BulkShape
  <2>6. QED BY <1>2, <2>3, <2>4, <2>5 DEF BuffersInv
<1>11. ASSUME NEW o \in {"load", "node"}, NEW refresh, Flushing(o, refresh)
       PROVE  BuffersInv'
  <2>1. put' = put /\ Held' = Held
    BY <1>11 DEF Flushing
  <2>2. bulk' # NoBulk => bulk'.store = o /\ bulk'.sent = Held[o]
    BY <1>11 DEF Flushing
  <2>3. QED BY <2>1, <2>2 DEF BuffersInv
<1>12. CASE FlushedLoad \/ FlushedNode
  BY <1>11, <1>12 DEF FlushedLoad, FlushedNode
<1>13. CASE Answered /\ Succeeding
  <2>1. bulk # NoBulk /\ bulk' = NoBulk /\ put' = put /\ Held' = [Held EXCEPT ![bulk.store] = EmptyBag]
    BY <1>13 DEF Succeeding
  <2>2. PICK o \in Owners : o = bulk.store
    BY <1>1, <1>3, <2>1
  <2>3. Held'[o] = EmptyBag /\ \A p \in Owners : p # o => Held'[p] = Held[p]
    BY <2>1, <2>2, HeldAfter
  <2>4. QED BY <1>1, <1>2, <2>1, <2>3 DEF BuffersInv
<1>14. CASE Answered /\ Retrying
  <2>1. /\ put' = put /\ Held' = Held /\ bulk'.store = bulk.store /\ bulk'.sent = Held[bulk.store]
        /\ bulk # NoBulk
    BY <1>14 DEF Retrying
  <2>2. QED BY <1>3, <2>1 DEF BuffersInv
<1>15. CASE Failed
  <2>1. put' = put /\ Held' = Held /\ bulk' = NoBulk
    BY <1>15 DEF Failed, Failing
  <2>2. QED BY <2>1 DEF BuffersInv
<1>16. QED BY <1>5, <1>6, <1>8, <1>9, <1>10, <1>12, <1>13, <1>14, <1>15, Effects DEF Effect, Answered

LEMMA BuffersInitially ==
    ASSUME Init
    PROVE  BuffersInv /\ RequestsCalm /\ (\A o \in Owners : Held[o] = EmptyBag /\ put[o] = {})
<1>1. stores = [o \in Owners |-> NewStore] /\ put = [o \in Owners |-> {}] /\ bulk = NoBulk
  BY DEF Init, StoreInit
<1>2. NewStore.docs = EmptyBag
  BY DEF NewStore
<1>3. \A o \in Owners : Held[o] = EmptyBag /\ put[o] = {}
  BY <1>1, <1>2 DEF Held
<1>4. {"load", "node"} \subseteq Owners
  BY DEF Owners
<1>5. QED BY <1>1, <1>3, <1>4, UnitBags DEF BuffersInv, RequestsCalm, Requests

-----------------------------------------------------------------------------
(* The records in the metrics index.                                         *)

\* Nothing is put into the load generator's store after the handover.
LEMMA NothingAfter ==
    ASSUME SamplerInv, NEW r, NewRecord(r)
    PROVE  ~Handed
<1>1. CASE ByTask(r)
  BY <1>1 DEF ByTask, PutRequest, Handed
<1>2. CASE ByHook(r)
  BY <1>2 DEF ByHook, SamplerInv
<1>3. ASSUME NEW t, BySampler(t, r)
      PROVE  ~Handed
  BY <1>3 DEF BySampler, RecorderPuts, SamplerInv, AllEnded
<1>4. QED BY <1>1, <1>2, <1>3 DEF NewRecord

\* Records are never put back.
Calm == {r \in put["load"] : ~r.racing /\ r \notin lost}

LEMMA LostForever ==
    ASSUME ControlInv, [Next]_vars
    PROVE  lost \subseteq lost'
<1>1. CASE \E r : Recorded(r) \/ Metered(r)
  BY <1>1 DEF Recorded, Metered, NewRecord, NewMetric, Adding
<1>2. CASE Resting \/ Completed \/ Dropped
  BY <1>2 DEF Resting, Completed, Still, Dropped
<1>3. CASE SentOver \/ Remembered
  <2>1. PICK short : Externalizing(short)
    BY <1>3 DEF SentOver, Remembered
  <2>2. QED BY <2>1 DEF Externalizing
<1>4. CASE FlushedLoad \/ FlushedNode
  BY <1>4 DEF FlushedLoad, FlushedNode, Flushing
<1>5. CASE Answered \/ Failed
  BY <1>5 DEF Answered, Failed, Succeeding, Retrying, Failing
<1>6. CASE TakenOne
  BY <1>6 DEF TakenOne, Adding
<1>7. QED BY <1>1, <1>2, <1>3, <1>4, <1>5, <1>6, Effects DEF Effect

LEMMA CalmAfter ==
    ASSUME ControlInv, [Next]_vars
    PROVE  Calm' \subseteq Calm \/ \E r : NewRecord(r)
<1>1. CASE put'["load"] = put["load"]
  BY <1>1, LostForever DEF Calm
<1>2. CASE \E r : NewMetric(r)
  BY <1>1, <1>2, PutAfter
<1>3. QED BY <1>1, <1>2, Puts

\* With an OpenSearch store, a record is in the buffer or in the index.
IndexInv ==
    kind = "opensearch" /\ ~Broken =>
        /\ Calm \subseteq BagToSet(Held["load"]) \cup BagToSet(index)
        /\ bulk.store = "load" => Calm \subseteq BagToSet(bulk.sent) \cup BagToSet(index)
        /\ phase = "closed" /\ bulk.store = "load" => bulk.refresh
        /\ phase = "complete" \/ (phase = "closed" /\ bulk.store # "load") => Calm \subseteq BagToSet(searchable)
        /\ BagToSet(searchable) \subseteq BagToSet(index)

\* What was broken stays so.
LEMMA StaysBroken ==
    ASSUME ControlInv, [Next]_vars
    PROVE  kind' = kind /\ (Broken => Broken')
<1>1. CASE \E r : Recorded(r) \/ Metered(r)
  BY <1>1 DEF Recorded, Metered, NewRecord, NewMetric, Adding, Broken
<1>2. CASE Resting
  BY <1>2 DEF Resting, Still, Broken, Open
<1>3. CASE SentOver \/ Remembered
  <2>1. PICK short : Externalizing(short)
    BY <1>3 DEF SentOver, Remembered
  <2>2. QED BY <1>3, <2>1 DEF SentOver, Remembered, Externalizing, Broken
<1>4. CASE FlushedLoad
  BY <1>4 DEF FlushedLoad, Flushing, Broken
<1>5. CASE FlushedNode \/ Completed
  BY <1>5 DEF FlushedNode, Completed, Flushing, Still, Broken
<1>6. CASE Answered \/ Failed
  BY <1>6 DEF Answered, Failed, Succeeding, Retrying, Failing, Broken
<1>7. CASE TakenOne \/ Dropped
  BY <1>7 DEF TakenOne, Dropped, Adding, Broken
<1>8. QED BY <1>1, <1>2, <1>3, <1>4, <1>5, <1>6, <1>7, Effects DEF Effect

\* The index only grows.
LEMMA Growing ==
    ASSUME BuffersInv, bulk # NoBulk
    PROVE  /\ Applying => BagToSet(index) \subseteq BagToSet(index')
           /\ Succeeding => BagToSet(index) \cup BagToSet(bulk.sent) \subseteq BagToSet(index')
<1>1. BagToSet(bulk.sent) \subseteq BagToSet(Held[bulk.store])
  BY DEF BuffersInv
<1>2. \A b : BagToSet(index (+) b) = BagToSet(index) \cup BagToSet(b)
  BY BagSum
<1>3. QED BY <1>1, <1>2 DEF Applying, Succeeding

LEMMA IndexStep ==
    ASSUME ControlInv, SamplerInv, LauncherInv, KeysInv, BuffersInv, IndexInv, [Next]_vars
    PROVE  IndexInv'
<1>1. SUFFICES ASSUME kind = "opensearch", ~Broken, ~Broken', kind' = "opensearch"
               PROVE  IndexInv'
  BY StaysBroken DEF IndexInv
<1>2. /\ Calm \subseteq BagToSet(Held["load"]) \cup BagToSet(index)
      /\ bulk.store = "load" => Calm \subseteq BagToSet(bulk.sent) \cup BagToSet(index)
      /\ phase = "closed" /\ bulk.store = "load" => bulk.refresh
      /\ phase = "complete" \/ (phase = "closed" /\ bulk.store # "load") => Calm \subseteq BagToSet(searchable)
      /\ BagToSet(searchable) \subseteq BagToSet(index)
  BY <1>1 DEF IndexInv
<1>3. /\ BulkShape /\ "load" \in Owners /\ "node" \in Owners /\ "orchestrator" \in Owners
      /\ bulk.store = "load" => phase \in {"flushing", "closed", "aborting"}
      /\ bulk.store = "node" => engine = "results"
      /\ (bulk # NoBulk => bulk.store \in {"load", "node"}) /\ bulk.store # "orchestrator"
  BY BulkWaited, NoBulkStore DEF ControlInv, BulkShape, Owners, None
<1>4. BagToSet(EmptyBag) = {}
  BY UnitBags
<1>5. CASE \E r : Recorded(r)
  <2>1. PICK r : Recorded(r)
    BY <1>5
  <2>2. NewRecord(r) /\ Adding("load", r) /\ r.racing = (bulk.store = "load")
    BY <2>1 DEF Recorded, NewRecord
  <2>3. UNCHANGED <<bulk, index, searchable, phase>>
    BY <2>1, <2>2 DEF Recorded, Adding
  <2>4. phase \notin {"closed", "complete"}
    BY <2>2, NothingAfter DEF Handed
  <2>5. /\ put'["load"] = put["load"] \cup {r}
        /\ \/ Held'["load"] = Held["load"] (+) SetToBag({r}) /\ lost' = lost
           \/ Held'["load"] = Held["load"] /\ lost' = lost \cup {r}
        /\ BagToSet(Held["load"]) \subseteq BagToSet(Held'["load"])
    BY <1>3, <2>2, AddedTo
  <2>6. lost' = lost => r \in BagToSet(Held'["load"]) \/ r \in lost
    <3>1. BagToSet(Held["load"] (+) SetToBag({r})) = BagToSet(Held["load"]) \cup {r}
      BY BagSum, UnitBags
    <3>2. QED BY <2>5, <3>1
  <2>7. Calm' \subseteq Calm \cup BagToSet(Held'["load"])
    BY <2>5, <2>6 DEF Calm
  <2>8. bulk.store = "load" => Calm' \subseteq Calm
    BY <2>2, <2>5 DEF Calm
  <2>9. QED BY <1>1, <1>2, <2>3, <2>4, <2>5, <2>7, <2>8 DEF IndexInv
<1>6. ASSUME Calm' \subseteq Calm, UNCHANGED <<bulk, index, searchable>>, Held'["load"] = Held["load"],
             phase' \in {"closed", "complete"} => phase' = phase
      PROVE  IndexInv'
  BY <1>1, <1>2, <1>6 DEF IndexInv
<1>7. ASSUME Calm' \subseteq Calm
      PROVE  IndexInv'
  <2>1. CASE \E r : Metered(r)
    <3>1. PICK r : Metered(r)
      BY <2>1
    <3>2. Adding("node", r) /\ phase' = phase
      BY <3>1 DEF Metered, NewMetric
    <3>3. UNCHANGED <<bulk, index, searchable>>
      BY <3>2 DEF Adding
    <3>4. Held'["load"] = Held["load"]
      BY <1>3, <3>2, AddedTo
    <3>5. QED BY <1>6, <1>7, <3>2, <3>3, <3>4
  <2>2. CASE Resting
    BY <1>6, <1>7, <2>2 DEF Resting, Still, Open, Broken
  <2>3. CASE SentOver \/ Remembered
    <3>1. PICK short : Externalizing(short)
      BY <2>3 DEF SentOver, Remembered
    <3>2. phase' \notin {"closed", "complete"}
      BY <2>3 DEF SentOver, Remembered
    <3>3. UNCHANGED <<bulk, index, searchable, Held>>
      BY <1>1, <3>1 DEF Externalizing
    <3>4. QED BY <1>6, <1>7, <3>2, <3>3
  <2>4. CASE FlushedLoad
    <3>1. PICK refresh \in BOOLEAN :
              /\ Flushing("load", refresh)
              /\ \/ phase = "processing" /\ phase' = "flushing"
                 \/ phase = "closing" /\ phase' = "closed" /\ refresh
                 \/ phase = "failed" /\ phase' = "aborting"
      BY <2>4 DEF FlushedLoad
    <3>2. Held' = Held /\ index' = index /\ phase' \in {"flushing", "closed"} /\ (phase' = "closed" => refresh)
      BY <1>1, <3>1 DEF Flushing, Broken
    <3>3. CASE Held["load"] = EmptyBag /\ bulk' = NoBulk /\ searchable' = IF refresh THEN index ELSE searchable
      <4>1. Calm \subseteq BagToSet(index)
        BY <1>2, <1>4, <3>3
      <4>2. BagToSet(searchable') \subseteq BagToSet(index)
        BY <1>2, <3>3
      <4>3. bulk'.store # "load"
        BY <3>3, NoBulkStore
      <4>4. phase' = "closed" => searchable' = index
        BY <3>2, <3>3
      <4>5. QED BY <1>1, <1>7, <3>2, <4>1, <4>2, <4>3, <4>4 DEF IndexInv
    <3>4. CASE /\ bulk' = [store |-> "load", attempt |-> 1, sent |-> Held["load"], refresh |-> refresh]
               /\ searchable' = searchable
      <4>1. bulk'.store = "load" /\ bulk'.sent = Held["load"] /\ bulk'.refresh = refresh
        BY <3>4
      <4>2. QED BY <1>1, <1>2, <1>7, <3>2, <3>4, <4>1 DEF IndexInv
    <3>5. QED BY <1>1, <3>1, <3>3, <3>4 DEF Flushing
  <2>5. CASE FlushedNode
    <3>1. Held' = Held /\ index' = index /\ phase' = phase /\ bulk = NoBulk
      BY <2>5 DEF FlushedNode, Flushing
    <3>2. bulk.store # "load" /\ bulk'.store # "load"
      BY <2>5, NoBulkStore DEF FlushedNode, Flushing
    <3>3. searchable' \in {searchable, index}
      BY <2>5 DEF FlushedNode, Flushing
    <3>4. QED BY <1>1, <1>2, <1>7, <3>1, <3>2, <3>3 DEF IndexInv
  <2>6. CASE Completed
    <3>1. /\ UNCHANGED <<bulk, index, searchable, Held>> /\ phase = "closed" /\ phase' = "complete"
          /\ bulk.store # "load"
      BY <2>6, NoBulkStore DEF Completed, Still
    <3>2. QED BY <1>1, <1>2, <1>7, <3>1 DEF IndexInv
  <2>7. CASE Answered /\ Succeeding
    <3>1. /\ bulk # NoBulk /\ bulk' = NoBulk /\ phase' = phase
          /\ searchable' = IF bulk.refresh THEN index' ELSE searchable
          /\ Held' = [Held EXCEPT ![bulk.store] = EmptyBag]
      BY <2>7 DEF Answered, Succeeding
    <3>2. BagToSet(index) \cup BagToSet(bulk.sent) \subseteq BagToSet(index')
      BY <2>7, <3>1, Growing
    <3>3. BagToSet(searchable') \subseteq BagToSet(index') /\ BagToSet(searchable) \subseteq BagToSet(searchable')
      BY <1>2, <3>1, <3>2
    <3>4. bulk'.store # "load"
      BY <3>1, NoBulkStore
    <3>5. CASE bulk.store = "load"
      <4>1. Calm \subseteq BagToSet(index')
        BY <1>2, <3>2, <3>5
      <4>2. phase' # "complete" /\ (phase' = "closed" => searchable' = index')
        BY <1>2, <1>3, <3>1, <3>5
      <4>3. QED BY <1>1, <1>7, <3>3, <3>4, <4>1, <4>2 DEF IndexInv
    <3>6. CASE bulk.store = "node"
      <4>1. Held'["load"] = Held["load"]
        BY <1>3, <3>1, <3>6, HeldAfter
      <4>2. phase' = "complete" \/ phase' = "closed" => Calm \subseteq BagToSet(searchable)
        BY <1>2, <3>1, <3>6
      <4>3. QED BY <1>1, <1>2, <1>7, <3>2, <3>3, <3>4, <4>1, <4>2 DEF IndexInv
    <3>7. QED BY <1>3, <3>1, <3>5, <3>6
  <2>8. CASE Answered /\ Retrying
    <3>1. /\ bulk # NoBulk /\ phase' = phase /\ searchable' = searchable /\ Held' = Held
          /\ bulk'.store = bulk.store /\ bulk'.refresh = bulk.refresh /\ bulk'.sent = Held[bulk.store]
          /\ Applying
      BY <2>8 DEF Answered, Retrying
    <3>2. BagToSet(index) \subseteq BagToSet(index')
      BY <3>1, Growing
    <3>3. QED BY <1>1, <1>2, <1>7, <3>1, <3>2 DEF IndexInv
  <2>9. CASE Failed
    <3>1. bulk # NoBulk /\ bulk' = NoBulk /\ searchable' = searchable /\ Held' = Held /\ Applying
      BY <2>9 DEF Failed, Failing
    <3>2. BagToSet(index) \subseteq BagToSet(index')
      BY <3>1, Growing
    <3>3. bulk.store = "node" /\ phase' = phase
      BY <1>1, <2>9 DEF Failed
    <3>4. bulk'.store # "load"
      BY <3>1, NoBulkStore
    <3>5. QED BY <1>1, <1>2, <1>7, <3>1, <3>2, <3>3, <3>4 DEF IndexInv
  <2>10. CASE TakenOne
    BY <1>1, <2>10 DEF TakenOne
  <2>11. CASE Dropped
    <3>1. UNCHANGED <<bulk, index, Held, phase>> /\ searchable' \in {searchable, index}
      BY <2>11 DEF Dropped
    <3>2. QED BY <1>1, <1>2, <1>7, <3>1 DEF IndexInv
  <2>12. QED BY <1>5, <2>1, <2>2, <2>3, <2>4, <2>5, <2>6, <2>7, <2>8, <2>9, <2>10, <2>11, Effects
           DEF Effect, Answered
<1>8. CASE \E r : NewRecord(r)
  BY <1>5, <1>8, AddingSteps
<1>9. QED BY <1>7, <1>8, CalmAfter

LEMMA IndexInitially ==
    ASSUME Init
    PROVE  IndexInv
<1>1. put["load"] = {} /\ "load" \in Owners
  BY BuffersInitially DEF Owners
<1>2. bulk = NoBulk /\ searchable = EmptyBag /\ index = EmptyBag /\ phase = "idle"
  BY DEF Init, StoreInit
<1>3. Calm = {}
  BY <1>1 DEF Calm
<1>4. QED BY <1>2, <1>3, NoBulkStore DEF IndexInv

-----------------------------------------------------------------------------
(* Without retries, a record is not in the metrics index twice.              *)

\* What the index has, no buffer has.
Indexed ==
    /\ Unit(index) /\ BagToSet(index) \subseteq put["load"] \cup put["node"]
    /\ \A o \in {"load", "node"} : BagToSet(index) \cap BagToSet(Held[o]) = {}

\* A request of the builder that failed may have been applied, and its records
\* are still in the buffer; nothing refreshes the index after that.
OnceInv ==
    kind = "opensearch" /\ ~Broken /\ retries = 0 =>
        Unit(searchable) /\ (engine # "stop failed" => Indexed)

LEMMA NoRetries ==
    ASSUME ControlInv, [Next]_vars, retries' = 0
    PROVE  retries = 0 /\ ~(Answered /\ Retrying)
<1>1. retries \in Nat
  BY DEF ControlInv
<1>2. ~Retrying
  BY <1>1 DEF Retrying
<1>3. CASE \E r : Recorded(r) \/ Metered(r)
  BY <1>2, <1>3 DEF Recorded, Metered, NewRecord, NewMetric, Adding
<1>4. CASE Resting
  BY <1>2, <1>4 DEF Resting, Still
<1>5. CASE Completed \/ Dropped
  BY <1>2, <1>5 DEF Completed, Still, Dropped
<1>6. CASE SentOver \/ Remembered
  <2>1. PICK short : Externalizing(short)
    BY <1>6 DEF SentOver, Remembered
  <2>2. QED BY <1>2, <2>1 DEF Externalizing
<1>7. CASE FlushedLoad \/ FlushedNode
  BY <1>2, <1>7 DEF FlushedLoad, FlushedNode, Flushing
<1>8. CASE Answered
  BY <1>2, <1>8 DEF Answered, Succeeding
<1>9. CASE Failed
  BY <1>2, <1>9 DEF Failed, Failing
<1>10. CASE TakenOne
  BY <1>2, <1>10 DEF TakenOne, Adding
<1>11. QED BY <1>3, <1>4, <1>5, <1>6, <1>7, <1>8, <1>9, <1>10, Effects DEF Effect

\* A bulk request that succeeds.
LEMMA IndexedMore ==
    ASSUME ControlInv, LauncherInv, KeysInv, BuffersInv, Indexed, Succeeding
    PROVE  Indexed'
<1>1. PICK o \in {"load", "node"} : o = bulk.store
  BY DEF Succeeding, ControlInv, BulkShape
<1>2. {"load", "node"} \subseteq Owners
  BY DEF Owners
<1>3. PICK b : b \in {bulk.sent, Held[o]} /\ index' = index (+) b
  BY <1>1 DEF Succeeding
<1>4. Unit(b) /\ BagToSet(b) \subseteq BagToSet(Held[o]) /\ BagToSet(b) \subseteq put[o]
  BY <1>1, <1>3 DEF BuffersInv, Succeeding
<1>5. Unit(index') /\ BagToSet(index') = BagToSet(index) \cup BagToSet(b)
  <2>1. BagToSet(index) \cap BagToSet(b) = {} /\ Unit(index)
    BY <1>4 DEF Indexed
  <2>2. QED BY <1>3, <1>4, <2>1, BagSum
<1>6. Held'[o] = EmptyBag /\ \A p \in Owners : p # o => Held'[p] = Held[p]
  <2>1. Held' = [Held EXCEPT ![o] = EmptyBag]
    BY <1>1 DEF Succeeding
  <2>2. QED BY <1>2, <2>1, HeldAfter
<1>7. put' = put /\ put["load"] \cap put["node"] = {}
  BY NewOnes DEF Succeeding
<1>8. ASSUME NEW p \in {"load", "node"}
      PROVE  BagToSet(index') \cap BagToSet(Held'[p]) = {}
  <2>1. CASE p = o
    BY <1>6, <2>1, UnitBags
  <2>2. CASE p # o
    <3>1. Held'[p] = Held[p] /\ BagToSet(Held[p]) \subseteq put[p] /\ put[p] \cap put[o] = {}
      BY <1>2, <1>6, <1>7, <1>8, <2>2 DEF BuffersInv
    <3>2. QED BY <1>4, <1>5, <3>1 DEF Indexed
  <2>3. QED BY <2>1, <2>2
<1>9. BagToSet(index') \subseteq put'["load"] \cup put'["node"]
  BY <1>4, <1>5, <1>7 DEF Indexed
<1>10. QED BY <1>5, <1>8, <1>9 DEF Indexed

LEMMA OnceStep ==
    ASSUME ControlInv, LauncherInv, KeysInv, BuffersInv, OnceInv, [Next]_vars
    PROVE  OnceInv'
<1>1. SUFFICES ASSUME kind = "opensearch", ~Broken, ~Broken', retries' = 0
               PROVE  Unit(searchable') /\ (engine' # "stop failed" => Indexed')
  BY StaysBroken DEF OnceInv
<1>2. Unit(searchable) /\ (engine # "stop failed" => Indexed) /\ ~(Answered /\ Retrying)
  BY <1>1, NoRetries DEF OnceInv
<1>3. /\ BulkShape /\ "load" \in Owners /\ "node" \in Owners /\ "orchestrator" \in Owners
      /\ bulk.store = "load" => phase \in {"flushing", "closed", "aborting"}
      /\ bulk.store = "node" => engine = "results"
  BY BulkWaited DEF ControlInv, Owners
<1>4. phase \notin {"aborted", "complete"} => engine # "stop failed"
  BY DEF ControlInv, PhasesFit, Before
<1>5. ASSUME index' = index, put' = put, Held' = Held, engine' # "stop failed" => engine # "stop failed",
             searchable' = searchable \/ (searchable' = index /\ engine # "stop failed")
      PROVE  Unit(searchable') /\ (engine' # "stop failed" => Indexed')
  BY <1>2, <1>5 DEF Indexed
<1>6. CASE Resting
  BY <1>5, <1>6 DEF Resting, Still
<1>7. CASE Completed
  BY <1>5, <1>7 DEF Completed, Still
<1>8. CASE Dropped
  BY <1>5, <1>8 DEF Dropped, Before
<1>9. CASE SentOver \/ Remembered
  <2>1. PICK short : Externalizing(short)
    BY <1>9 DEF SentOver, Remembered
  <2>2. UNCHANGED <<index, searchable, put, Held>>
    BY <1>1, <2>1 DEF Externalizing
  <2>3. engine' = engine
    BY <1>9 DEF SentOver, Remembered
  <2>4. QED BY <1>5, <2>2, <2>3
<1>10. CASE FlushedLoad
  <2>1. phase \in {"processing", "closing"} /\ engine' = engine
    BY <1>1, <1>10 DEF FlushedLoad, Broken
  <2>2. index' = index /\ put' = put /\ Held' = Held /\ searchable' \in {searchable, index}
    BY <1>10 DEF FlushedLoad, Flushing
  <2>3. QED BY <1>4, <1>5, <2>1, <2>2
<1>11. CASE FlushedNode
  <2>1. engine = "flushing" /\ index' = index /\ put' = put /\ Held' = Held
    BY <1>11 DEF FlushedNode, Flushing
  <2>2. searchable' \in {searchable, index}
    BY <1>11 DEF FlushedNode, Flushing
  <2>3. QED BY <1>5, <2>1, <2>2
<1>12. CASE TakenOne
  BY <1>1, <1>12 DEF TakenOne
<1>13. ASSUME NEW o \in {"load", "node"}, NEW r, Adding(o, r), r \notin put["load"] \cup put["node"],
              engine' = engine
       PROVE  Unit(searchable') /\ (engine' # "stop failed" => Indexed')
  <2>1. index' = index /\ searchable' = searchable
    BY <1>13 DEF Adding
  <2>2. /\ \A p \in Owners : p # o => Held'[p] = Held[p] /\ put'[p] = put[p]
        /\ put'[o] = put[o] \cup {r}
        /\ BagToSet(Held'[o]) \subseteq BagToSet(Held[o]) \cup {r}
    <3>1. o \in Owners
      BY <1>3
    <3>2. QED BY <1>13, <3>1, AddedTo
  <2>3. ASSUME Indexed
        PROVE  Indexed'
    <3>1. \A p \in {"load", "node"} : BagToSet(Held'[p]) \subseteq BagToSet(Held[p]) \cup {r} /\ put[p] \subseteq put'[p]
      BY <1>3, <2>2
    <3>2. r \notin BagToSet(index)
      BY <1>13, <2>3 DEF Indexed
    <3>3. \A p \in {"load", "node"} : BagToSet(index) \cap BagToSet(Held'[p]) = {}
      BY <2>3, <3>1, <3>2 DEF Indexed
    <3>4. BagToSet(index) \subseteq put'["load"] \cup put'["node"]
      BY <2>3, <3>1 DEF Indexed
    <3>5. QED BY <2>1, <2>3, <3>3, <3>4 DEF Indexed
  <2>4. QED BY <1>2, <1>13, <2>1, <2>3
<1>14. CASE \E r : Recorded(r)
  BY <1>13, <1>14, NewOnes DEF Recorded, NewRecord
<1>15. CASE \E r : Metered(r)
  BY <1>13, <1>15, NewOnes DEF Metered, NewMetric
<1>16. CASE Answered
  <2>1. Succeeding /\ engine' = engine
    BY <1>2, <1>16 DEF Answered
  <2>2. bulk # NoBulk /\ searchable' \in {searchable, index'}
    BY <2>1 DEF Succeeding
  <2>3. engine # "stop failed"
    BY <1>1, <1>3, <1>4, <2>2 DEF BulkShape, Broken
  <2>4. Indexed'
    BY <1>2, <2>1, <2>3, IndexedMore
  <2>5. QED BY <1>2, <2>2, <2>4 DEF Indexed
<1>17. CASE Failed
  BY <1>1, <1>2, <1>17 DEF Failed, Failing
<1>18. QED BY <1>6, <1>7, <1>8, <1>9, <1>10, <1>11, <1>12, <1>14, <1>15, <1>16, <1>17, Effects DEF Effect

LEMMA OnceInitially ==
    ASSUME Init
    PROVE  OnceInv
<1>1. searchable = EmptyBag /\ index = EmptyBag
  BY DEF Init, StoreInit
<1>2. QED BY <1>1, UnitBags DEF OnceInv, Indexed

-----------------------------------------------------------------------------
(* In memory, a record that was put is lost, or in one place and once: in    *)
(* the store of the load generator (slot 0), in what it is about to send     *)
(* (slot -1), in a message (slots 1, 2, ...) or in the store of the          *)
(* orchestrator (slot -2).                                                   *)

Slots(box, load, carried, orchestrator) ==
    [p \in {-2, -1, 0} \cup DOMAIN box |->
        IF p = 0 THEN load ELSE IF p = -1 THEN carried ELSE IF p = -2 THEN orchestrator ELSE box[p].docs]

Carried == IF phase \in {"closing", "closed"} THEN memento ELSE EmptyBag

Places == Slots(mailbox, Held["load"], Carried, Held["orchestrator"])

\* The records P, apart from those in L, each in one of the places f.
Spread(f, P, L) ==
    /\ \A p \in DOMAIN f : Unit(f[p]) /\ BagToSet(f[p]) \subseteq P
    /\ \A p, q \in DOMAIN f : p # q => BagToSet(f[p]) \cap BagToSet(f[q]) = {}
    /\ \A r \in P : r \in L \/ \E p \in DOMAIN f : r \in BagToSet(f[p])

PlacesInv ==
    kind = "in-memory" /\ ~Broken =>
        /\ Spread(Places, put["load"], lost)
        /\ phase \in {"closing", "closed", "complete"} => Held["load"] = EmptyBag

ReadAs(f, box, a, c, o) ==
    /\ DOMAIN f = {-2, -1, 0} \cup DOMAIN box /\ DOMAIN box = 1..Len(box) /\ Len(box) \in Nat
    /\ f[0] = a /\ f[-1] = c /\ f[-2] = o
    /\ \A i \in DOMAIN box : i \in Nat \ {0} /\ f[i] = box[i].docs

LEMMA SlotsRead ==
    ASSUME NEW box, IsSeq(box), NEW a, NEW c, NEW o, NEW f, f = Slots(box, a, c, o)
    PROVE  ReadAs(f, box, a, c, o)
<1>1. DOMAIN box = 1..Len(box) /\ Len(box) \in Nat
  BY SeqDomain
<1>2. DOMAIN f = {-2, -1, 0} \cup DOMAIN box
  BY DEF Slots
<1>3. f[0] = a /\ f[-1] = c /\ f[-2] = o
  BY DEF Slots
<1>4. \A i \in DOMAIN box : i \in Nat \ {0}
  BY <1>1
<1>5. \A i \in DOMAIN box : f[i] = box[i].docs
  BY <1>4 DEF Slots
<1>6. QED BY <1>1, <1>2, <1>3, <1>4, <1>5 DEF ReadAs

\* The places are emptied, or take over from another, as h says.
LEMMA PlacesRearranged ==
    ASSUME NEW f, NEW g, NEW h, NEW P, NEW L, NEW M, Spread(f, P, L), L \subseteq M,
           \A q \in DOMAIN g : g[q] = EmptyBag \/ (h[q] \in DOMAIN f /\ g[q] = f[h[q]]),
           \A p, q \in DOMAIN g : p # q => g[p] = EmptyBag \/ g[q] = EmptyBag \/ h[p] # h[q],
           \A p \in DOMAIN f : BagToSet(f[p]) \subseteq M \/ \E q \in DOMAIN g : g[q] = f[p]
    PROVE  Spread(g, P, M)
<1>1. Unit(EmptyBag) /\ BagToSet(EmptyBag) = {}
  BY UnitBags
<1>2. \A q \in DOMAIN g : Unit(g[q]) /\ BagToSet(g[q]) \subseteq P
  BY <1>1 DEF Spread
<1>3. \A p, q \in DOMAIN g : p # q => BagToSet(g[p]) \cap BagToSet(g[q]) = {}
  BY <1>1 DEF Spread
<1>4. \A r \in P : r \in M \/ \E q \in DOMAIN g : r \in BagToSet(g[q])
  BY DEF Spread
<1>5. QED BY <1>2, <1>3, <1>4 DEF Spread

\* A new record, in one of the places or nowhere.
LEMMA Placed ==
    ASSUME NEW f, NEW g, NEW P, NEW L, NEW M, NEW r, NEW s \in DOMAIN f,
           Spread(f, P, L), r \notin P, DOMAIN g = DOMAIN f, \A p \in DOMAIN f : p # s => g[p] = f[p],
           \/ g[s] = f[s] (+) SetToBag({r}) /\ M = L
           \/ g[s] = f[s] /\ M = L \cup {r}
    PROVE  Spread(g, P \cup {r}, M)
<1>1. PICK b : b = SetToBag({r}) /\ Unit(b) /\ BagToSet(b) = {r}
  BY UnitBags
<1>2. r \notin BagToSet(f[s]) /\ Unit(f[s])
  BY DEF Spread
<1>3. \/ g[s] = f[s] (+) b /\ M = L /\ Unit(g[s]) /\ BagToSet(g[s]) = BagToSet(f[s]) \cup {r}
      \/ g[s] = f[s] /\ M = L \cup {r}
  BY <1>1, <1>2, BagSum
<1>4. \A p \in DOMAIN g : Unit(g[p]) /\ BagToSet(g[p]) \subseteq P \cup {r}
  BY <1>3 DEF Spread
<1>5. \A p, q \in DOMAIN g : p # q => BagToSet(g[p]) \cap BagToSet(g[q]) = {}
  <2>1. \A p \in DOMAIN g : p # s => BagToSet(g[p]) \cap BagToSet(g[s]) = {}
    BY <1>3 DEF Spread
  <2>2. QED BY <2>1 DEF Spread
<1>6. \A x \in P \cup {r} : x \in M \/ \E p \in DOMAIN g : x \in BagToSet(g[p])
  <2>1. r \in M \/ r \in BagToSet(g[s])
    BY <1>3
  <2>2. ASSUME NEW x \in P
        PROVE  x \in M \/ \E p \in DOMAIN g : x \in BagToSet(g[p])
    <3>1. CASE x \in L
      BY <1>3, <3>1
    <3>2. ASSUME NEW p \in DOMAIN f, x \in BagToSet(f[p])
          PROVE  x \in BagToSet(g[p])
      BY <1>3, <3>2
    <3>3. QED BY <3>1, <3>2 DEF Spread
  <2>3. QED BY <2>1, <2>2
<1>7. QED BY <1>4, <1>5, <1>6 DEF Spread

\* A record goes from one of the places to another, or is lost on the way.
LEMMA Transferred ==
    ASSUME NEW f, NEW g, NEW P, NEW L, NEW M, NEW s \in DOMAIN f, NEW d \in DOMAIN f, s # d,
           NEW r \in BagToSet(f[s]),
           Spread(f, P, L), DOMAIN g = DOMAIN f, \A p \in DOMAIN f : p \notin {s, d} => g[p] = f[p],
           g[s] = f[s] (-) SetToBag({r}),
           \/ g[d] = f[d] (+) SetToBag({r}) /\ M = L
           \/ g[d] = f[d] /\ M = L \cup {r}
    PROVE  Spread(g, P, M)
<1>1. PICK b : b = SetToBag({r}) /\ Unit(b) /\ BagToSet(b) = {r}
  BY UnitBags
<1>2. Unit(f[s]) /\ Unit(f[d]) /\ r \notin BagToSet(f[d]) /\ r \in P
  BY DEF Spread
<1>3. Unit(g[s]) /\ BagToSet(g[s]) = BagToSet(f[s]) \ {r}
  BY <1>2, BagLess
<1>4. \/ g[d] = f[d] (+) b /\ M = L /\ Unit(g[d]) /\ BagToSet(g[d]) = BagToSet(f[d]) \cup {r}
      \/ g[d] = f[d] /\ M = L \cup {r}
  <2>1. PICK c, e : c = f[d] (+) b /\ e = f[d]
    OBVIOUS
  <2>2. Unit(c) /\ BagToSet(c) = BagToSet(e) \cup {r}
    BY <1>1, <1>2, <2>1, BagSum
  <2>3. QED BY <1>1, <2>1, <2>2
<1>5. \A p \in DOMAIN g : Unit(g[p]) /\ BagToSet(g[p]) \subseteq P
  BY <1>2, <1>3, <1>4 DEF Spread
<1>6. \A p, q \in DOMAIN g : p # q => BagToSet(g[p]) \cap BagToSet(g[q]) = {}
  <2>1. \A p \in DOMAIN f : p # s => r \notin BagToSet(f[p])
    BY DEF Spread
  <2>2. \A p \in DOMAIN g : p # s => BagToSet(g[p]) \cap BagToSet(g[s]) = {}
    BY <1>3, <1>4 DEF Spread
  <2>3. \A p \in DOMAIN g : p \notin {s, d} => BagToSet(g[p]) \cap BagToSet(g[d]) = {}
    BY <1>4, <2>1 DEF Spread
  <2>4. \A p, q \in DOMAIN g : p \notin {s, d} /\ q \notin {s, d} /\ p # q => BagToSet(g[p]) \cap BagToSet(g[q]) = {}
    BY DEF Spread
  <2>5. QED BY <2>2, <2>3, <2>4
<1>7. \A x \in P : x \in M \/ \E p \in DOMAIN g : x \in BagToSet(g[p])
  <2>1. ASSUME NEW x \in P
        PROVE  x \in M \/ \E p \in DOMAIN g : x \in BagToSet(g[p])
    <3>1. CASE x \in L
      BY <1>4, <3>1
    <3>2. CASE x = r
      BY <1>4, <3>2
    <3>3. ASSUME NEW p \in DOMAIN f, x \in BagToSet(f[p]), x # r
          PROVE  x \in BagToSet(g[p])
      <4>1. CASE p = s
        BY <1>3, <3>3, <4>1
      <4>2. CASE p = d
        BY <1>4, <3>3, <4>2
      <4>3. QED BY <3>3, <4>1, <4>2
    <3>4. QED BY <3>1, <3>2, <3>3 DEF Spread
  <2>2. QED BY <2>1
<1>8. QED BY <1>5, <1>6, <1>7 DEF Spread

LEMMA PlacesRead ==
    ASSUME IsSeq(mailbox), NEW f, f = Places
    PROVE  /\ DOMAIN f = {-2, -1, 0} \cup DOMAIN mailbox /\ DOMAIN mailbox = 1..Len(mailbox) /\ Len(mailbox) \in Nat
           /\ f[0] = Held["load"] /\ f[-1] = Carried /\ f[-2] = Held["orchestrator"]
           /\ \A i \in DOMAIN mailbox : i \in Nat \ {0} /\ f[i] = mailbox[i].docs
<1>1. PICK box, a, c, o : box = mailbox /\ a = Held["load"] /\ c = Carried /\ o = Held["orchestrator"]
  OBVIOUS
<1>2. f = Slots(box, a, c, o) /\ IsSeq(box)
  BY <1>1 DEF Places
<1>3. ReadAs(f, box, a, c, o)
  BY <1>2, SlotsRead
<1>4. QED BY <1>1, <1>3 DEF ReadAs

LEMMA PlacesReadNext ==
    ASSUME IsSeq(mailbox'), NEW f, f = Places'
    PROVE  /\ DOMAIN f = {-2, -1, 0} \cup DOMAIN mailbox'
           /\ f[0] = Held'["load"] /\ f[-1] = Carried' /\ f[-2] = Held'["orchestrator"]
           /\ \A i \in DOMAIN mailbox' : i \in Nat \ {0} /\ f[i] = mailbox'[i].docs
<1>1. PICK box, a, c, o : box = mailbox' /\ a = Held'["load"] /\ c = Carried' /\ o = Held'["orchestrator"]
  OBVIOUS
<1>2. f = Slots(box, a, c, o) /\ IsSeq(box)
  BY <1>1 DEF Places
<1>3. ReadAs(f, box, a, c, o)
  BY <1>2, SlotsRead
<1>4. QED BY <1>1, <1>3 DEF ReadAs

\* The records go into a message, with it the memento, or to the memento.
LEMMA HandoverPlaces ==
    ASSUME IsSeq(mailbox), IsSeq(mailbox'), kind = "in-memory", Spread(Places, put["load"], lost),
           SentOver \/ Remembered \/ Completed
    PROVE  Spread(Places', put'["load"], lost')
<1>1. PICK f, g : f = Places /\ g = Places'
  OBVIOUS
<1>2. /\ DOMAIN f = {-2, -1, 0} \cup DOMAIN mailbox /\ DOMAIN mailbox = 1..Len(mailbox) /\ Len(mailbox) \in Nat
      /\ f[0] = Held["load"] /\ f[-1] = Carried /\ f[-2] = Held["orchestrator"]
      /\ \A i \in DOMAIN mailbox : i \in Nat \ {0} /\ f[i] = mailbox[i].docs
  BY <1>1, PlacesRead
<1>3. /\ DOMAIN g = {-2, -1, 0} \cup DOMAIN mailbox'
      /\ g[0] = Held'["load"] /\ g[-1] = Carried' /\ g[-2] = Held'["orchestrator"]
      /\ \A i \in DOMAIN mailbox' : i \in Nat \ {0} /\ g[i] = mailbox'[i].docs
  BY <1>1, PlacesReadNext
<1>4. {"load", "orchestrator"} \subseteq Owners
  BY DEF Owners
\* Everything in place s goes to place d, or is lost.
<1>5. ASSUME NEW s \in DOMAIN f, NEW d \in DOMAIN g, s # d,
             DOMAIN g = DOMAIN f \cup {d}, d \in DOMAIN f => f[d] = EmptyBag,
             \A p \in DOMAIN f : p \notin {s, d} => g[p] = f[p],
             g[s] = EmptyBag, lost \subseteq lost', put'["load"] = put["load"],
             g[d] = f[s] \/ (g[d] = EmptyBag /\ BagToSet(f[s]) \subseteq lost')
      PROVE  Spread(g, put'["load"], lost')
  <2>1. PICK h : h = [q \in DOMAIN g |-> IF q = d THEN s ELSE q]
    OBVIOUS
  <2>2. h[d] = s /\ \A q \in DOMAIN g : q # d => h[q] = q /\ q \in DOMAIN f
    BY <1>5, <2>1
  <2>3. \A q \in DOMAIN g : g[q] = EmptyBag \/ (h[q] \in DOMAIN f /\ g[q] = f[h[q]])
    BY <1>5, <2>2
  <2>4. \A p, q \in DOMAIN g : p # q => g[p] = EmptyBag \/ g[q] = EmptyBag \/ h[p] # h[q]
    BY <1>5, <2>2
  <2>5. \A p \in DOMAIN f : BagToSet(f[p]) \subseteq lost' \/ \E q \in DOMAIN g : g[q] = f[p]
    <3>1. \A p \in DOMAIN f : p \notin {s, d} => p \in DOMAIN g /\ g[p] = f[p]
      BY <1>5
    <3>2. d \in DOMAIN f => BagToSet(f[d]) \subseteq lost'
      BY <1>5, UnitBags
    <3>3. BagToSet(f[s]) \subseteq lost' \/ g[d] = f[s]
      BY <1>5
    <3>4. QED BY <3>1, <3>2, <3>3
  <2>6. Spread(g, put["load"], lost')
    <3>1. Spread(f, put["load"], lost)
      BY <1>1
    <3>2. QED BY <1>5, <2>3, <2>4, <2>5, <3>1, PlacesRearranged
  <2>7. QED BY <1>5, <2>6
<1>6. ASSUME NEW short, Externalizing(short)
      PROVE  /\ Held'["load"] = EmptyBag /\ Held'["orchestrator"] = Held["orchestrator"]
             /\ lost \subseteq lost' /\ put' = put
             /\ \/ Externalized(short) = Held["load"]
                \/ Externalized(short) = EmptyBag /\ BagToSet(Held["load"]) \subseteq lost'
  <2>1. Held' = [Held EXCEPT !["load"] = EmptyBag]
    BY <1>6 DEF Externalizing
  <2>2. Held'["load"] = EmptyBag /\ Held'["orchestrator"] = Held["orchestrator"]
    BY <1>4, <2>1, HeldAfter
  <2>3. QED BY <1>6, <2>2 DEF Externalizing
<1>7. ASSUME NEW x, Appended(mailbox', mailbox, x)
      PROVE  \E d : /\ d \in Nat \ {0} /\ d \notin DOMAIN f /\ DOMAIN g = DOMAIN f \cup {d}
                    /\ g[d] = x.docs /\ \A i \in DOMAIN mailbox : g[i] = f[i]
  <2>1. PICK n, s, t : n = Len(mailbox) /\ s = mailbox /\ t = mailbox'
    OBVIOUS
  <2>2. /\ DOMAIN t = DOMAIN s \cup {n + 1} /\ n + 1 \notin DOMAIN s /\ n \in Nat
        /\ t[n + 1] = x /\ \A i \in DOMAIN s : t[i] = s[i]
    BY <1>7, <2>1 DEF Appended
  <2>3. n + 1 \in Nat \ {0} /\ n + 1 \notin DOMAIN f /\ DOMAIN g = DOMAIN f \cup {n + 1}
    BY <1>2, <1>3, <2>1, <2>2
  <2>4. g[n + 1] = x.docs /\ \A i \in DOMAIN s : g[i] = f[i]
    BY <1>2, <1>3, <2>1, <2>2
  <2>5. QED BY <2>1, <2>3, <2>4
<1>8. CASE SentOver
  <2>1. PICK short, x :
            /\ phase = "step over" /\ phase' = "measuring" /\ Externalizing(short)
            /\ Appended(mailbox', mailbox, x) /\ x.docs = Externalized(short)
    BY <1>8 DEF SentOver
  <2>2. Carried = EmptyBag /\ Carried' = EmptyBag
    BY <2>1 DEF Carried
  <2>3. Appended(mailbox', mailbox, x)
    BY <2>1
  <2>4. PICK d : /\ d \in Nat \ {0} /\ d \notin DOMAIN f /\ DOMAIN g = DOMAIN f \cup {d}
                 /\ g[d] = x.docs /\ \A i \in DOMAIN mailbox : g[i] = f[i]
    BY <2>3, <1>7
  <2>5. \A p \in DOMAIN f : p \notin {0, d} => g[p] = f[p]
    BY <1>2, <1>3, <1>6, <2>1, <2>2, <2>4
  <2>6. 0 \in DOMAIN f /\ d \in DOMAIN g /\ 0 # d /\ g[0] = EmptyBag
    BY <1>2, <1>3, <1>6, <2>1, <2>4
  <2>7. /\ lost \subseteq lost' /\ put'["load"] = put["load"]
        /\ g[d] = f[0] \/ (g[d] = EmptyBag /\ BagToSet(f[0]) \subseteq lost')
    BY <1>2, <1>6, <2>1, <2>4
  <2>8. QED BY <1>1, <1>5, <2>4, <2>5, <2>6, <2>7
<1>9. CASE Remembered
  <2>1. PICK short :
            /\ phase = "handover" /\ phase' = "closing" /\ Externalizing(short)
            /\ memento' = Externalized(short) /\ mailbox' = mailbox
    BY <1>9 DEF Remembered
  <2>2. Carried = EmptyBag /\ Carried' = Externalized(short)
    BY <2>1 DEF Carried
  <2>3. /\ DOMAIN g = DOMAIN f \cup {-1} /\ -1 \in DOMAIN g /\ 0 \in DOMAIN f /\ 0 # -1
        /\ g[-1] = Externalized(short) /\ f[-1] = EmptyBag /\ g[0] = EmptyBag
    BY <1>2, <1>3, <1>6, <2>1, <2>2
  <2>4. \A p \in DOMAIN f : p \notin {0, -1} => g[p] = f[p]
    BY <1>2, <1>3, <1>6, <2>1
  <2>5. /\ lost \subseteq lost' /\ put'["load"] = put["load"]
        /\ g[-1] = f[0] \/ (g[-1] = EmptyBag /\ BagToSet(f[0]) \subseteq lost')
    BY <1>2, <1>6, <2>1, <2>3
  <2>6. QED BY <1>1, <1>5, <2>3, <2>4, <2>5
<1>10. CASE Completed
  <2>1. PICK x : /\ Still /\ phase = "closed" /\ phase' = "complete"
                 /\ Appended(mailbox', mailbox, x) /\ x.docs = memento
    BY <1>10 DEF Completed
  <2>2. Carried = memento /\ Carried' = EmptyBag
    BY <2>1 DEF Carried
  <2>3. Appended(mailbox', mailbox, x)
    BY <2>1
  <2>4. PICK d : /\ d \in Nat \ {0} /\ d \notin DOMAIN f /\ DOMAIN g = DOMAIN f \cup {d}
                 /\ g[d] = x.docs /\ \A i \in DOMAIN mailbox : g[i] = f[i]
    BY <2>3, <1>7
  <2>5. lost' = lost /\ put' = put /\ Held' = Held
    BY <2>1 DEF Still
  <2>6. \A p \in DOMAIN f : p \notin {-1, d} => g[p] = f[p]
    BY <1>2, <1>3, <2>4, <2>5
  <2>7. -1 \in DOMAIN f /\ d \in DOMAIN g /\ -1 # d /\ g[-1] = EmptyBag /\ g[d] = f[-1]
    BY <1>2, <1>3, <2>1, <2>2, <2>4
  <2>8. QED BY <1>1, <1>5, <2>4, <2>5, <2>6, <2>7
<1>11. QED BY <1>8, <1>9, <1>10

\* The first message was read to its end.
LEMMA DroppedPlaces ==
    ASSUME IsSeq(mailbox), IsSeq(mailbox'), Spread(Places, put["load"], lost), Dropped
    PROVE  Spread(Places', put'["load"], lost')
<1>1. PICK f, g : f = Places /\ g = Places'
  OBVIOUS
<1>2. /\ DOMAIN f = {-2, -1, 0} \cup DOMAIN mailbox
      /\ f[0] = Held["load"] /\ f[-1] = Carried /\ f[-2] = Held["orchestrator"]
      /\ \A i \in DOMAIN mailbox : i \in Nat \ {0} /\ f[i] = mailbox[i].docs
  BY <1>1, PlacesRead
<1>3. /\ DOMAIN g = {-2, -1, 0} \cup DOMAIN mailbox'
      /\ g[0] = Held'["load"] /\ g[-1] = Carried' /\ g[-2] = Held'["orchestrator"]
      /\ \A i \in DOMAIN mailbox' : i \in Nat \ {0} /\ g[i] = mailbox'[i].docs
  BY <1>1, PlacesReadNext
<1>4. PICK n, s, t : n = Len(mailbox) /\ s = mailbox /\ t = mailbox'
  OBVIOUS
<1>5. /\ n \in Nat \ {0} /\ DOMAIN s = 1..n /\ DOMAIN t = 1..(n - 1) /\ s[1].docs = EmptyBag
      /\ \A i \in DOMAIN t : i + 1 \in DOMAIN s /\ t[i] = s[i + 1]
  BY <1>4 DEF Dropped
<1>6. Held' = Held /\ Carried' = Carried /\ put' = put /\ lost' = lost
  BY DEF Dropped, Carried
<1>7. \A p \in {-2, -1, 0} : g[p] = f[p] /\ p \in DOMAIN f /\ p \in DOMAIN g /\ p \notin DOMAIN t
  BY <1>2, <1>3, <1>5, <1>6
<1>8. \A i \in DOMAIN t : i + 1 \in DOMAIN f /\ g[i] = f[i + 1]
  BY <1>2, <1>3, <1>4, <1>5
<1>9. f[1] = EmptyBag
  BY <1>2, <1>4, <1>5
<1>10. PICK h : h = [q \in DOMAIN g |-> IF q \in DOMAIN t THEN q + 1 ELSE q]
  OBVIOUS
<1>11. /\ \A q \in DOMAIN t : q \in DOMAIN g /\ h[q] = q + 1
       /\ \A q \in {-2, -1, 0} : h[q] = q
  BY <1>3, <1>4, <1>7, <1>10
<1>12. DOMAIN g = {-2, -1, 0} \cup DOMAIN t
  BY <1>3, <1>4
<1>13. \A q \in DOMAIN g : h[q] \in DOMAIN f /\ g[q] = f[h[q]]
  BY <1>7, <1>8, <1>11, <1>12
<1>14. \A p, q \in DOMAIN g : p # q => h[p] # h[q]
  BY <1>5, <1>11, <1>12
<1>15. \A p \in DOMAIN f : BagToSet(f[p]) \subseteq lost' \/ \E q \in DOMAIN g : g[q] = f[p]
  <2>1. ASSUME NEW p \in DOMAIN s, p # 1
        PROVE  \E q \in DOMAIN g : g[q] = f[p]
    <3>1. p - 1 \in DOMAIN t /\ (p - 1) + 1 = p
      BY <1>5, <2>1
    <3>2. QED BY <1>8, <1>12, <3>1
  <2>2. BagToSet(f[1]) \subseteq lost'
    BY <1>9, UnitBags
  <2>3. QED BY <1>2, <1>4, <1>7, <2>1, <2>2
<1>16. Spread(f, put["load"], lost) /\ lost \subseteq lost'
  BY <1>1, <1>6
<1>17. Spread(g, put["load"], lost')
  BY <1>13, <1>14, <1>15, <1>16, PlacesRearranged
<1>18. QED BY <1>1, <1>6, <1>17

\* The orchestrator takes a record from the first message.
LEMMA TakenPlaces ==
    ASSUME ControlInv, IsSeq(mailbox'), Spread(Places, put["load"], lost), TakenOne
    PROVE  Spread(Places', put'["load"], lost')
<1>1. PICK f, g : f = Places /\ g = Places'
  OBVIOUS
<1>2. /\ DOMAIN f = {-2, -1, 0} \cup DOMAIN mailbox
      /\ f[0] = Held["load"] /\ f[-1] = Carried /\ f[-2] = Held["orchestrator"]
      /\ \A i \in DOMAIN mailbox : i \in Nat \ {0} /\ f[i] = mailbox[i].docs
  BY <1>1, PlacesRead DEF ControlInv, MailboxShape
<1>3. /\ DOMAIN g = {-2, -1, 0} \cup DOMAIN mailbox'
      /\ g[0] = Held'["load"] /\ g[-1] = Carried' /\ g[-2] = Held'["orchestrator"]
      /\ \A i \in DOMAIN mailbox' : i \in Nat \ {0} /\ g[i] = mailbox'[i].docs
  BY <1>1, PlacesReadNext
<1>4. PICK r : /\ Adding("orchestrator", r) /\ UNCHANGED <<memento, phase>>
               /\ 1 \in DOMAIN mailbox /\ DOMAIN mailbox' = DOMAIN mailbox
               /\ \A i \in DOMAIN mailbox : i # 1 => mailbox'[i] = mailbox[i]
               /\ mailbox'[1].docs = mailbox[1].docs (-) SetToBag({r})
               /\ mailbox[1].docs # EmptyBag
               /\ BagToSet(mailbox[1].docs) # {} => r \in BagToSet(mailbox[1].docs)
  BY DEF TakenOne
<1>5. {"load", "orchestrator"} \subseteq Owners
  BY DEF Owners
<1>6. /\ Held'["load"] = Held["load"] /\ put'["load"] = put["load"]
      /\ \/ Held'["orchestrator"] = Held["orchestrator"] (+) SetToBag({r}) /\ lost' = lost
         \/ Held'["orchestrator"] = Held["orchestrator"] /\ lost' = lost \cup {r}
  BY <1>4, <1>5, AddedTo
<1>7. Carried' = Carried
  BY <1>4 DEF Carried
<1>8. /\ DOMAIN g = DOMAIN f /\ 1 \in DOMAIN f /\ -2 \in DOMAIN f /\ 1 # -2
      /\ g[1] = f[1] (-) SetToBag({r})
      /\ \/ g[-2] = f[-2] (+) SetToBag({r}) /\ lost' = lost
         \/ g[-2] = f[-2] /\ lost' = lost \cup {r}
  <2>1. DOMAIN g = DOMAIN f /\ 1 \in DOMAIN f /\ -2 \in DOMAIN f /\ 1 # -2
    BY <1>2, <1>3, <1>4
  <2>2. f[1] = mailbox[1].docs /\ g[1] = mailbox'[1].docs
    BY <1>2, <1>3, <1>4
  <2>3. g[1] = f[1] (-) SetToBag({r})
    BY <1>4, <2>2
  <2>4. QED BY <1>2, <1>3, <1>6, <2>1, <2>3
<1>9. \A p \in DOMAIN f : p \notin {1, -2} => g[p] = f[p]
  <2>1. \A i \in DOMAIN mailbox : i # 1 => g[i] = f[i]
    BY <1>2, <1>3, <1>4
  <2>2. QED BY <1>2, <1>3, <1>6, <1>7, <2>1
<1>10. r \in BagToSet(f[1])
  <2>1. f[1] = mailbox[1].docs /\ Unit(f[1])
    BY <1>1, <1>2, <1>4, <1>8 DEF Spread
  <2>2. QED BY <1>4, <2>1, UnitBags
<1>11. Spread(f, put["load"], lost)
  BY <1>1
<1>12. Spread(g, put["load"], lost')
  BY <1>8, <1>9, <1>10, <1>11, Transferred
<1>13. QED BY <1>1, <1>6, <1>12

\* A record is put into the store of the load generator.
LEMMA RecordedPlaces ==
    ASSUME ControlInv, LauncherInv, KeysInv, Spread(Places, put["load"], lost), NEW r, Recorded(r)
    PROVE  Spread(Places', put'["load"], lost')
<1>1. PICK f, g : f = Places /\ g = Places'
  OBVIOUS
<1>2. IsSeq(mailbox) /\ mailbox' = mailbox /\ Carried' = Carried /\ NewRecord(r) /\ Adding("load", r)
  BY DEF ControlInv, MailboxShape, Recorded, NewRecord, Carried
<1>3. /\ DOMAIN f = {-2, -1, 0} \cup DOMAIN mailbox
      /\ f[0] = Held["load"] /\ f[-1] = Carried /\ f[-2] = Held["orchestrator"]
      /\ \A i \in DOMAIN mailbox : i \in Nat \ {0} /\ f[i] = mailbox[i].docs
  BY <1>1, <1>2, PlacesRead
<1>4. /\ DOMAIN g = {-2, -1, 0} \cup DOMAIN mailbox'
      /\ g[0] = Held'["load"] /\ g[-1] = Carried' /\ g[-2] = Held'["orchestrator"]
      /\ \A i \in DOMAIN mailbox' : i \in Nat \ {0} /\ g[i] = mailbox'[i].docs
  BY <1>1, <1>2, PlacesReadNext
<1>5. {"load", "orchestrator"} \subseteq Owners
  BY DEF Owners
<1>6. /\ Held'["orchestrator"] = Held["orchestrator"] /\ put'["load"] = put["load"] \cup {r}
      /\ \/ Held'["load"] = Held["load"] (+) SetToBag({r}) /\ lost' = lost
         \/ Held'["load"] = Held["load"] /\ lost' = lost \cup {r}
  BY <1>2, <1>5, AddedTo
<1>7. /\ DOMAIN g = DOMAIN f /\ 0 \in DOMAIN f
      /\ \/ g[0] = f[0] (+) SetToBag({r}) /\ lost' = lost
         \/ g[0] = f[0] /\ lost' = lost \cup {r}
  BY <1>2, <1>3, <1>4, <1>6
<1>8. \A p \in DOMAIN f : p # 0 => g[p] = f[p]
  BY <1>2, <1>3, <1>4, <1>6
<1>9. Spread(f, put["load"], lost) /\ r \notin put["load"]
  BY <1>1, <1>2, NewOnes
<1>10. Spread(g, put["load"] \cup {r}, lost')
  BY <1>7, <1>8, <1>9, Placed
<1>11. QED BY <1>1, <1>6, <1>10

LEMMA PlacesStep ==
    ASSUME ControlInv, ControlInv', SamplerInv, LauncherInv, KeysInv, PlacesInv, [Next]_vars
    PROVE  PlacesInv'
<1>1. SUFFICES ASSUME kind = "in-memory", ~Broken, ~Broken'
               PROVE  /\ Spread(Places', put'["load"], lost')
                      /\ phase' \in {"closing", "closed", "complete"} => Held'["load"] = EmptyBag
  BY StaysBroken DEF PlacesInv
<1>2. /\ Spread(Places, put["load"], lost)
      /\ phase \in {"closing", "closed", "complete"} => Held["load"] = EmptyBag
  BY <1>1 DEF PlacesInv
<1>3. IsSeq(mailbox) /\ IsSeq(mailbox') /\ {"load", "node", "orchestrator"} \subseteq Owners
  BY DEF ControlInv, MailboxShape, Owners
<1>4. bulk = NoBulk
  BY <1>1 DEF ControlInv, BulkShape
<1>5. ASSUME UNCHANGED <<mailbox, Carried>>, Held'["load"] = Held["load"], Held'["orchestrator"] = Held["orchestrator"],
             put'["load"] = put["load"],
             phase' \in {"closing", "closed", "complete"} => phase \in {"closing", "closed", "complete"}
      PROVE  /\ Spread(Places', put'["load"], lost')
             /\ phase' \in {"closing", "closed", "complete"} => Held'["load"] = EmptyBag
  <2>1. Places' = Places
    BY <1>5 DEF Places, Slots
  <2>2. Spread(Places, put["load"], lost')
    BY <1>2, LostForever DEF Spread
  <2>3. QED BY <1>2, <1>5, <2>1, <2>2
<1>6. CASE \E r : Recorded(r)
  <2>1. PICK r : Recorded(r)
    BY <1>6
  <2>2. phase' = phase /\ ~Handed
    BY <2>1, NothingAfter DEF Recorded
  <2>3. QED BY <1>2, <2>1, <2>2, RecordedPlaces DEF Handed
<1>7. CASE \E r : Metered(r)
  <2>1. PICK r : Metered(r) /\ Adding("node", r)
    BY <1>7 DEF Metered, NewMetric
  <2>2. UNCHANGED <<mailbox, memento, phase>>
    BY <2>1 DEF Metered
  <2>3. /\ Held'["load"] = Held["load"] /\ Held'["orchestrator"] = Held["orchestrator"]
        /\ put'["load"] = put["load"]
    BY <1>3, <2>1, AddedTo
  <2>4. QED BY <1>5, <2>2, <2>3 DEF Carried
<1>8. CASE Resting
  <2>1. UNCHANGED <<mailbox, memento, Held, put>> /\ (phase' = phase \/ (Open /\ Open'))
    BY <1>1, <1>8 DEF Resting, Still
  <2>2. Carried' = Carried /\ (phase' \in {"closing", "closed", "complete"} => phase' = phase)
    BY <2>1 DEF Carried, Open
  <2>3. QED BY <1>5, <2>1, <2>2
<1>9. CASE FlushedLoad \/ FlushedNode
  <2>1. UNCHANGED <<mailbox, memento, Held, put>>
    BY <1>9 DEF FlushedLoad, FlushedNode, Flushing
  <2>2. phase' = phase \/ (phase = "processing" /\ phase' = "flushing") \/ (phase = "closing" /\ phase' = "closed")
    BY <1>1, <1>9 DEF FlushedLoad, FlushedNode, Broken
  <2>3. Carried' = Carried
    BY <2>1, <2>2 DEF Carried
  <2>4. QED BY <1>5, <2>1, <2>2, <2>3
<1>10. CASE SentOver
  BY <1>1, <1>2, <1>3, <1>10, HandoverPlaces DEF SentOver
<1>11. CASE Remembered
  <2>1. PICK short : Externalizing(short)
    BY <1>11 DEF Remembered
  <2>2. Held'["load"] = EmptyBag
    BY <1>1, <1>3, <2>1, HeldAfter DEF Externalizing
  <2>3. QED BY <1>1, <1>2, <1>3, <1>11, <2>2, HandoverPlaces
<1>12. CASE Completed
  <2>1. phase = "closed" /\ Held' = Held
    BY <1>12 DEF Completed, Still
  <2>2. QED BY <1>1, <1>2, <1>3, <1>12, <2>1, HandoverPlaces
<1>13. CASE Answered \/ Failed
  BY <1>4, <1>13 DEF Answered, Failed, Succeeding, Retrying, Failing
<1>14. CASE TakenOne
  <2>1. PICK r : Adding("orchestrator", r) /\ phase' = phase
    BY <1>14 DEF TakenOne
  <2>2. Held'["load"] = Held["load"]
    BY <1>3, <2>1, AddedTo
  <2>3. QED BY <1>2, <1>3, <1>14, <2>1, <2>2, TakenPlaces
<1>15. CASE Dropped
  <2>1. phase' = phase /\ Held' = Held
    BY <1>15 DEF Dropped
  <2>2. QED BY <1>2, <1>3, <1>15, <2>1, DroppedPlaces
<1>16. QED BY <1>6, <1>7, <1>8, <1>9, <1>10, <1>11, <1>12, <1>13, <1>14, <1>15, Effects DEF Effect

LEMMA PlacesInitially ==
    ASSUME Init
    PROVE  PlacesInv
<1>1. \A o \in Owners : Held[o] = EmptyBag /\ put[o] = {}
  BY BuffersInitially
<1>2. {"load", "orchestrator"} \subseteq Owners
  BY DEF Owners
<1>3. phase = "idle" /\ mailbox = <<>>
  BY DEF Init
<1>4. PICK f : f = Places
  OBVIOUS
<1>5. Carried = EmptyBag /\ IsSeq(mailbox)
  BY <1>3, ControlInitially DEF Carried, ControlInv, MailboxShape
<1>6. DOMAIN f = {-2, -1, 0} /\ f[0] = EmptyBag /\ f[-1] = EmptyBag /\ f[-2] = EmptyBag
  BY <1>1, <1>2, <1>3, <1>4, <1>5, PlacesRead
<1>7. Spread(f, put["load"], lost)
  BY <1>1, <1>2, <1>6, UnitBags DEF Spread
<1>8. QED BY <1>3, <1>4, <1>7 DEF PlacesInv

\* What the orchestrator computes the results from.
LEMMA RecordsThere ==
    ASSUME ControlInv, RequestsCalm, IndexInv, OnceInv, PlacesInv
    PROVE  RecordsKept
<1>1. SUFFICES ASSUME outcome = "published"
               PROVE  /\ \A r \in put["load"] : r \in BagToSet(Collected) \cup lost \/ r.racing
                      /\ retries = 0 => \A r \in BagToSet(Collected) : Collected[r] = 1
  BY DEF RecordsKept, RequestsCalm
<1>2. phase = "complete" /\ mailbox = <<>> /\ ~Broken /\ IsSeq(mailbox)
  BY <1>1 DEF ControlInv, MailboxShape, Broken, None
<1>3. CASE kind = "in-memory"
  <2>1. PICK f : f = Places
    OBVIOUS
  <2>2. Spread(f, put["load"], lost) /\ Held["load"] = EmptyBag
    BY <1>2, <1>3, <2>1 DEF PlacesInv
  <2>3. Carried = EmptyBag
    BY <1>2 DEF Carried
  <2>4. DOMAIN f = {-2, -1, 0} /\ f[0] = EmptyBag /\ f[-1] = EmptyBag /\ f[-2] = Held["orchestrator"]
    BY <1>2, <2>1, <2>2, <2>3, PlacesRead
  <2>5. Collected = Held["orchestrator"]
    BY <1>3 DEF Collected, Held, Owners
  <2>6. Unit(Collected) /\ \A r \in put["load"] : r \in lost \/ r \in BagToSet(Collected)
    BY <2>2, <2>4, <2>5, UnitBags DEF Spread
  <2>7. QED BY <2>6, UnitBags
<1>4. CASE kind = "opensearch"
  <2>1. Collected = searchable
    BY <1>4 DEF Collected
  <2>2. Calm \subseteq BagToSet(searchable)
    BY <1>2, <1>4 DEF IndexInv
  <2>3. retries = 0 => Unit(searchable)
    BY <1>2, <1>4 DEF OnceInv
  <2>4. \A r \in put["load"] : r \in BagToSet(Collected) \cup lost \/ r.racing
    BY <2>1, <2>2 DEF Calm
  <2>5. QED BY <2>1, <2>3, <2>4, UnitBags
<1>5. QED BY <1>3, <1>4 DEF ControlInv

\* Whatever was measured is among the records the published results are
\* computed from, unless memory was short or it was put while a bulk request
\* was under way, and counts once unless a bulk request was retried
\* (OsMetricsStore.flush, InMemoryMetricsStore.to_externalizable).
THEOREM RecordsCounted ==
    Spec => []RecordsKept
<1> DEFINE RecordsInv == /\ SamplerInv /\ LauncherInv /\ ControlInv /\ KeysInv /\ BuffersInv
                         /\ RequestsCalm /\ IndexInv /\ OnceInv /\ PlacesInv
<1>1. Init => RecordsInv
  BY SamplersInitially, LauncherInitially, ControlInitially, KeysInitially, BuffersInitially,
     IndexInitially, OnceInitially, PlacesInitially
<1>2. RecordsInv /\ [Next]_vars => RecordsInv'
  BY SamplersStep, LauncherSteps, ControlStep, KeysStep, BuffersStep, CalmStep, IndexStep, OnceStep, PlacesStep
<1>3. RecordsInv => RecordsKept
  BY RecordsThere
<1>4. QED BY <1>1, <1>2, <1>3, PTL DEF Spec
=============================================================================
