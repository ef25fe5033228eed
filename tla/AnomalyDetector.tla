--------------------------- MODULE AnomalyDetector ---------------------------
(***************************************************************************)
(* The watcher of kafkatch-notification: OutputWatcher reads               *)
(* network-microflows-aggregated, AnomalyDetectorTransformer compares each *)
(* metric of a record with the mean of the previous samples, kept as a     *)
(* RollingStats per key in one state store per metric, and the warnings go *)
(* to network-warnings.                                                    *)
(*                                                                         *)
(* Kafka Streams runs it at least once: outputs and changelog records are  *)
(* sent as they are produced, everything is flushed before the input       *)
(* offset is committed, and after a crash or a replaced StreamThread the   *)
(* in-memory stores are rebuilt from what reached the changelog while the  *)
(* input is read again from the committed offset.                          *)
(***************************************************************************)
EXTENDS Integers, Sequences, FiniteSets

CONSTANTS
    Metrics,      \* bytes_inbound, bytes_outbound, unique_flow_count
    StoreKeys,    \* keys of the records ("global" stands for the null key)
    Flows,        \* aggregates that may arrive: metric -> value
    Corrupt,      \* a value that AggregatedFlowParser cannot read
    WindowSize,   \* WINDOW_SIZE
    MaxRecords,   \* bound on the records of the input topic
    MaxCrashes,   \* bound on the crashes
    MaxFailures   \* bound on the checks that throw

ASSUME DetectorAssumptions ==
    /\ \A f \in Flows : \A m \in Metrics : f[m] \in Int
    /\ Corrupt \notin Flows
    /\ WindowSize \in Nat \ {0}
    /\ MaxRecords \in Nat /\ MaxCrashes \in Nat /\ MaxFailures \in Nat

VARIABLES
    topic,      \* the input: a sequence of [key, value]
    position,   \* offset of the last record the thread has processed
    committed,  \* offset of the last record whose processing is committed
    changelog,  \* per metric, the contents its store has had since the commit
    pending,    \* warnings sent since the commit
    warnings,   \* warnings known to be in the output topic
    failed,     \* history: the checks that threw, as <<offset, metric>>
    crashes     \* history: number of crashes

vars == <<topic, position, committed, changelog, pending, warnings, failed, crashes>>

-----------------------------------------------------------------------------
(* RollingStats.  A sample carries the offset it came from (history).      *)

EmptyStats == [values |-> <<>>, sum |-> 0]

\* Forgets to take what it evicts out of the sum.
AddKeepingSum(stats, sample) ==
    LET all == Append(stats.values, sample)
    IN  [values |-> IF Len(all) > WindowSize THEN Tail(all) ELSE all,
         sum    |-> stats.sum + sample.val]

\* RollingStats.add(); its loop evicts at most once, since a window never
\* starts out longer than maxSize.
Add(stats, sample) ==
    LET all == Append(stats.values, sample)
    IN  IF Len(all) > WindowSize
        THEN [values |-> Tail(all), sum |-> stats.sum + sample.val - Head(all).val]
        ELSE [values |-> all, sum |-> stats.sum + sample.val]

\* Whether current / average >= num / 10, with average = sum / size.
RatioAtLeast(num, stats, current) == 10 * current * Len(stats.values) >= num * stats.sum

\* The thresholds 2.0, 1.5 and 1.2 in the order check() tries them.
Severity(stats, current) ==
    CASE RatioAtLeast(20, stats, current) -> "alta"
      [] ~RatioAtLeast(20, stats, current) /\ RatioAtLeast(15, stats, current) -> "media"
      [] ~RatioAtLeast(15, stats, current) /\ RatioAtLeast(12, stats, current) -> "regular"
      [] OTHER -> "none"

\* The samples suffice and the mean is positive.
Representative(stats) == Len(stats.values) >= 3 /\ stats.sum > 0

\* The warnings of check(), none or one.
Check(stats, offset, m, current) ==
    IF Representative(stats) /\ Severity(stats, current) # "none"
    THEN {[offset |-> offset, metric |-> m, severity |-> Severity(stats, current),
           base |-> stats.values]}
    ELSE {}

-----------------------------------------------------------------------------

Init ==
    /\ topic = <<>> /\ position = 0 /\ committed = 0
    /\ changelog = [m \in Metrics |-> <<[k \in StoreKeys |-> EmptyStats]>>]
    /\ pending = {} /\ warnings = {}
    /\ failed = {} /\ crashes = 0

\* The store is the last content written to the changelog.
Store(m) == changelog[m][Len(changelog[m])]

\* The aggregator produces a record (external).
Arrive(k, v) ==
    /\ Len(topic) < MaxRecords
    /\ topic' = Append(topic, [key |-> k, value |-> v])
    /\ UNCHANGED <<position, committed, changelog, pending, warnings, failed, crashes>>

Current == topic[position + 1]

Sample(m) == [off |-> position + 1, val |-> Current.value[m]]

\* Adds the value before the comparison and again after it.
NewStatsTwice(m) == Add(Add(Store(m)[Current.key], Sample(m)), Sample(m))

NewStats(m) == Add(Store(m)[Current.key], Sample(m))

\* Puts the current value into the window before it looks at it.
CheckedAfterAdd(m) == Check(NewStats(m), position + 1, m, Current.value[m])

\* The store read before the current value is added.
Checked(m) == Check(Store(m)[Current.key], position + 1, m, Current.value[m])

\* store.put() of the window with the current value.
Put(m) == Append(changelog[m], [Store(m) EXCEPT ![Current.key] = NewStats(m)])

\* A check that throws, one of bad, leaves its window as it is; the try around
\* each check lets the others go on.
Puts(bad) ==
    [m \in Metrics |-> IF m \in bad THEN changelog[m] ELSE Put(m)]

\* transform() on a record that could be parsed.
Transform(bad) ==
    /\ position < Len(topic) /\ Current.value # Corrupt
    /\ Cardinality(failed) + Cardinality(bad) <= MaxFailures
    /\ changelog' = Puts(bad)
    /\ pending' = pending \cup UNION {Checked(m) : m \in Metrics \ bad}
    /\ position' = position + 1
    /\ failed' = failed \cup {<<position + 1, m>> : m \in bad}
    /\ UNCHANGED <<topic, committed, warnings, crashes>>

\* Lets the exception of the parser reach the StreamThread, which is replaced
\* and reads the record again.
StopAtCorrupt ==
    /\ position < Len(topic) /\ Current.value = Corrupt
    /\ UNCHANGED vars

\* The parser throws, mapValues() makes it a null and filter() drops it.
SkipCorrupt ==
    /\ position < Len(topic) /\ Current.value = Corrupt
    /\ position' = position + 1
    /\ UNCHANGED <<topic, committed, changelog, pending, warnings, failed, crashes>>

\* Commits the offset of the next record for that of the last one.
CommitNext ==
    /\ committed < position
    /\ committed' = position + 1
    /\ changelog' = [m \in Metrics |-> <<Store(m)>>]
    /\ warnings' = warnings \cup pending
    /\ pending' = {}
    /\ UNCHANGED <<topic, position, failed, crashes>>

\* The thread's periodic commit: flush outputs and changelog, then commit the
\* input offset (external).
Commit ==
    /\ committed < position
    /\ committed' = position
    /\ changelog' = [m \in Metrics |-> <<Store(m)>>]
    /\ warnings' = warnings \cup pending
    /\ pending' = {}
    /\ UNCHANGED <<topic, position, failed, crashes>>

\* The process dies or the handler replaces the thread (REPLACE_THREAD): some
\* of what was sent since the commit had arrived, each changelog partition up
\* to a point of its own.
Crash ==
    /\ crashes < MaxCrashes
    /\ crashes' = crashes + 1
    /\ position' = committed
    /\ \E upto \in [Metrics -> 1 .. position - committed + 1] :
          /\ \A m \in Metrics : upto[m] <= Len(changelog[m])
          /\ changelog' = [m \in Metrics |-> <<changelog[m][upto[m]]>>]
    /\ \E arrived \in SUBSET pending : warnings' = warnings \cup arrived
    /\ pending' = {}
    /\ UNCHANGED <<topic, committed, failed>>

Next ==
    \/ \E k \in StoreKeys, v \in Flows \cup {Corrupt} : Arrive(k, v)
    \/ \E bad \in SUBSET Metrics : Transform(bad)
    \/ SkipCorrupt
    \/ Commit
    \/ Crash

Spec == Init /\ [][Next]_vars

\* The StreamThread polls, processes and commits as long as it runs; nothing
\* is assumed about arrivals and crashes.
FairSpec ==
    /\ Spec
    /\ WF_vars(SkipCorrupt \/ \E bad \in SUBSET Metrics : Transform(bad))
    /\ WF_vars(Commit)

-----------------------------------------------------------------------------

SampleSet == [off : 1 .. MaxRecords, val : Int]

TypeOK ==
    /\ topic \in Seq([key : StoreKeys, value : Flows \cup {Corrupt}])
    /\ position \in committed .. Len(topic) /\ committed \in 0 .. Len(topic)
    /\ \A m \in Metrics : \A k \in StoreKeys :
          Store(m)[k] \in [values : Seq(SampleSet), sum : Int]

SumOf(samples) ==
    LET sum[n \in 0 .. Len(samples)] == IF n = 0 THEN 0 ELSE sum[n - 1] + samples[n].val
    IN  sum[Len(samples)]

\* The running sum is the sum of the samples in the window, however many have
\* been evicted and whatever content a crash has brought back, and a window
\* never outgrows WINDOW_SIZE (RollingStats.add).
SumMatchesWindow ==
    \A m \in Metrics : \A i \in DOMAIN changelog[m] : \A k \in StoreKeys :
        LET stats == changelog[m][i][k]
        IN  stats.sum = SumOf(stats.values) /\ Len(stats.values) <= WindowSize

\* The samples of key k and metric m among the first p records, oldest first:
\* every record that could be parsed and whose check did not throw.
Samples(k, m, p) ==
    LET taken[n \in 0 .. p] ==
          IF n = 0 THEN <<>>
          ELSE taken[n - 1] \o
                 (IF topic[n].key = k /\ topic[n].value # Corrupt /\ <<n, m>> \notin failed
                  THEN <<[off |-> n, val |-> topic[n].value[m]]>> ELSE <<>>)
    IN  taken[p]

LastOf(n, seq) == IF Len(seq) <= n THEN seq ELSE SubSeq(seq, Len(seq) - n + 1, Len(seq))

\* What the documentation of the transformer asks of offset o and metric m.
Expected(o, m) ==
    LET base == LastOf(WindowSize, Samples(topic[o].key, m, o - 1))
    IN  Check([values |-> base, sum |-> SumOf(base)], o, m, topic[o].value[m])

(***************************************************************************)
(* As long as nothing crashes, the warnings produced are exactly those of  *)
(* the definition over the whole input: each metric against the last       *)
(* WINDOW_SIZE earlier samples of its own key, corrupt records skipped,    *)
(* and a check that throws costs its own metric one sample and no other    *)
(* metric anything (AnomalyDetectorTransformer 75-150).                    *)
(***************************************************************************)
DetectsExactly ==
    crashes = 0 =>
        warnings \cup pending =
            UNION {Expected(c[1], c[2]) : c \in
                     {d \in (1 .. position) \X Metrics :
                        topic[d[1]].value # Corrupt /\ d \notin failed}}

Copies(stats, o) == Cardinality({i \in DOMAIN stats.values : stats.values[i].off = o})

\* Replays may put a record into a window again, at most once per crash.
DuplicatesBounded ==
    \A m \in Metrics, k \in StoreKeys, o \in 1 .. Len(topic) :
        Copies(Store(m)[k], o) <= crashes + 1

\* Every record is processed and committed in the end, also behind records
\* that cannot be parsed and checks that throw.
RecordsAreHandled ==
    \A o \in 1 .. MaxRecords : Len(topic) >= o ~> committed >= o
=============================================================================
