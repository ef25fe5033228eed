----------------------------- MODULE Aggregator -----------------------------
(***************************************************************************)
(* The aggregator of kafkatch-core: App reads the partitions of            *)
(* network-microflows-raw, parses each event, regroups all of them under   *)
(* one key through a repartition topic, adds them up per window of ten     *)
(* seconds of stream time without grace, and lets suppress() hold a window *)
(* back until it closes.                                                   *)
(*                                                                         *)
(* Every partition of the raw topic has a task of its own, so the          *)
(* repartition topic is any merge of them.  Times are record timestamps,   *)
(* which the sniffer's producer takes from its clock.  One StreamThread    *)
(* runs all tasks: they crash together and commit together.                *)
(***************************************************************************)
EXTENDS Integers, SequencesExt

CONSTANTS
    Partitions,   \* of network-microflows-raw
    Events,       \* events the sniffer may send
    Corrupt,      \* a value that FlowParser.readJson cannot read
    WindowSize,   \* windowSize
    IntModulus,   \* 2^32: the range of a Java int
    MaxTime,      \* bound on the clock
    MaxRecords,   \* bound on the records of the raw topic
    MaxCrashes    \* bound on the crashes

Flags == {"syn", "ack", "fin", "rst"}

\* The counters of an event are unsigned (uint32_t in the sniffer's flow_t).
ASSUME AggregatorAssumptions ==
    /\ Corrupt \notin Events
    /\ \A e \in Events : /\ e.packets \in Nat /\ e.bytes \in Nat
                         /\ \A f \in Flags : e.tcp[f] \in Nat
    /\ WindowSize \in Nat \ {0} /\ IntModulus \in Nat \ {0}
    /\ MaxTime \in Nat /\ MaxRecords \in Nat /\ MaxCrashes \in Nat

VARIABLES
    now,          \* timestamp of the latest record produced
    raw,          \* partition -> records [ts, value]
    readPos,      \* partition -> records its task has read
    repartition,  \* the records under "global-key": [id, ts, flow]
    aggPos,       \* records of it the aggregating task has processed
    streamTime,   \* the largest timestamp that task has seen
    changelog,    \* of the window store: one entry [window, agg, members] per put
    buffer,       \* what suppress() holds back: start of window -> entry
    emitted,      \* network-microflows-aggregated: entries
    committed,    \* the committed offsets, and what is durable: the buffer and the
                  \* lengths of the topics at the last commit or restart
    late,         \* history: positions of the records dropped as late
    crashes,      \* history: how often the thread has been replaced
    crashTime     \* history: the largest stream time that a crash has wiped out

\* What the tasks keep and what they have sent.
taskVars == <<repartition, aggPos, streamTime, changelog, buffer, emitted, late>>

vars == <<now, raw, readPos, taskVars, committed, crashes, crashTime>>

-----------------------------------------------------------------------------
(* FlowParser, AggregatedFlow and its serde.                               *)

\* JsonNode.asInt() of a number that need not fit.
AsInt(n) == IF n < IntModulus \div 2 THEN n ELSE n - IntModulus

\* The fields of an event that addFlow() uses.
ReadJson(e) ==
    [src_ip |-> e.src_ip, src_port |-> e.src_port,
     dst_ip |-> e.dst_ip, dst_port |-> e.dst_port, protocol |-> e.protocol, dir |-> e.dir,
     packet_count |-> AsInt(e.packets), byte_count |-> AsInt(e.bytes),
     tcp |-> [f \in Flags |-> AsInt(e.tcp[f])]]

\* The string addFlow() tells flows apart by: addresses and ports are
\* sequences of characters, written one after the other.
FlowKey(flow) ==
    <<flow.src_ip \o flow.src_port \o flow.dst_ip \o flow.dst_port, flow.protocol>>

NewAggregate ==
    [bytes_inbound |-> 0, bytes_outbound |-> 0, packets_inbound |-> 0, packets_outbound |-> 0,
     tcp |-> [f \in Flags |-> 0], unique_flow_count |-> 0, flowKeys |-> {}]

\* The part of a total that a flow in direction d contributes.
InDirection(flow, d, n) == IF flow.dir = d THEN n ELSE 0

addFlow(agg, flow) ==
    LET new == FlowKey(flow) \notin agg.flowKeys
    IN  [bytes_inbound     |-> agg.bytes_inbound + InDirection(flow, "INBOUND", flow.byte_count),
         bytes_outbound    |-> agg.bytes_outbound + InDirection(flow, "OUTBOUND", flow.byte_count),
         packets_inbound   |-> agg.packets_inbound + InDirection(flow, "INBOUND", flow.packet_count),
         packets_outbound  |-> agg.packets_outbound + InDirection(flow, "OUTBOUND", flow.packet_count),
         tcp               |-> [f \in Flags |-> agg.tcp[f] + flow.tcp[f]],
         unique_flow_count |-> agg.unique_flow_count + (IF new THEN 1 ELSE 0),
         flowKeys          |-> agg.flowKeys \cup {FlowKey(flow)}]

\* The store's serde writes without the internal view's field.
FromStoreWithoutKeys(agg) == [agg EXCEPT !.flowKeys = {}]

\* What toInternalJsonString() followed by fromInternalJsonString() gives
\* back: every field, flowKeys included because InternalView is active.
FromStore(agg) == [f \in DOMAIN agg |-> agg[f]]

-----------------------------------------------------------------------------

Init ==
    /\ now = 0
    /\ raw = [p \in Partitions |-> <<>>] /\ readPos = [p \in Partitions |-> 0]
    /\ repartition = <<>> /\ aggPos = 0 /\ streamTime = -1
    /\ changelog = <<>> /\ buffer = <<>> /\ emitted = <<>> /\ late = {}
    /\ committed = [readPos |-> readPos, aggPos |-> 0, buffer |-> <<>>,
                    repartition |-> 0, changelog |-> 0, emitted |-> 0]
    /\ crashes = 0 /\ crashTime = -1

Records == UNION {{p} \X DOMAIN raw[p] : p \in Partitions}

\* The sniffer's message, or anyone else's, lands in some partition (external).
\* Timestamps follow one clock, which does not go back.
Produce(p, v, ts) ==
    /\ Cardinality(Records) < MaxRecords
    /\ raw' = [raw EXCEPT ![p] = Append(@, [ts |-> ts, value |-> v])]
    /\ now' = ts
    /\ UNCHANGED <<readPos, taskVars, committed, crashes, crashTime>>

\* The record that the task of partition p reads next, parsed and under its new key.
Parsed(p) ==
    LET r == raw[p][readPos[p] + 1]
    IN  [id |-> <<p, readPos[p] + 1>>, ts |-> r.ts, flow |-> ReadJson(r.value)]

\* Lets the parser's exception replace the thread, which reads the record again.
ForwardParsedOnly(p) ==
    /\ readPos[p] < Len(raw[p]) /\ raw[p][readPos[p] + 1].value # Corrupt
    /\ readPos' = [readPos EXCEPT ![p] = @ + 1]
    /\ repartition' = Append(repartition, Parsed(p))
    /\ UNCHANGED <<now, raw, aggPos, streamTime, changelog, buffer, emitted, late>>
    /\ UNCHANGED <<committed, crashes, crashTime>>

\* The task of partition p: mapValues() with FlowParser, filter(), groupBy().
\* A value that cannot be parsed becomes null and is dropped.
Forward(p) ==
    /\ readPos[p] < Len(raw[p])
    /\ readPos' = [readPos EXCEPT ![p] = @ + 1]
    /\ repartition' = IF raw[p][readPos[p] + 1].value = Corrupt THEN repartition
                      ELSE Append(repartition, Parsed(p))
    /\ UNCHANGED <<now, raw, aggPos, streamTime, changelog, buffer, emitted, late>>
    /\ UNCHANGED <<committed, crashes, crashTime>>

\* Starts a window at its first record.
WindowFrom(ts) == ts

\* TimeWindows.ofSizeWithNoGrace(): the start of the window of a timestamp.
WindowOf(ts) == ts - (ts % WindowSize)

\* Closes a window one unit before its end.
ClosedEarly(w, time) == w + WindowSize <= time + 1

\* Without grace a window is closed once stream time reaches its end.
Closed(w, time) == w + WindowSize <= time

\* The record's window has closed: the aggregation skips it.
IsLate(ts, time) == Closed(WindowOf(ts), time)

Advanced(ts) == IF streamTime < ts THEN ts ELSE streamTime

\* No retention is set, so that the store keeps a window for windowSize after
\* the start of the latest one it has seen, and does not return it any longer.
Expired(w) == \E i \in DOMAIN changelog : Closed(w, changelog[i].window)

\* What aggregate() may find for window w.  Only after a crash, which has wiped
\* out the stream time, can a window that is asked for have expired; whether
\* it has depends on how much of its changelog the store has been restored
\* from.  The members, the records added to an aggregate, are history.
Lookup(w) ==
    LET i == SelectLastInSeq(changelog, LAMBDA e : e.window = w)
        new == [window |-> w, agg |-> NewAggregate, members |-> <<>>]
    IN  IF i = 0 THEN {new}
        ELSE {[changelog[i] EXCEPT !.agg = FromStore(@)]} \cup {n \in {new} : Expired(w)}

\* Adds the flow twice.
AddedTwice(e, r) ==
    [e EXCEPT !.agg = addFlow(addFlow(@, r.flow), r.flow), !.members = @ \o <<r.id, r.id>>]

\* The aggregator adds the record to the entry of its window.
Added(e, r) == [e EXCEPT !.agg = addFlow(@, r.flow), !.members = Append(@, r.id)]

\* What suppress() holds once it has seen entry e: one entry per window.
Waiting(e) == [w \in DOMAIN buffer \cup {e.window} |-> IF w = e.window THEN e ELSE buffer[w]]

\* The members of a finite set of integers in ascending order.
Ascending(S) ==
    CHOOSE s \in [1 .. Cardinality(S) -> S] : \A i, j \in DOMAIN s : i < j => s[i] < s[j]

\* Passes a window on and keeps it.
SuppressKeeping(e, time) ==
    LET closed == {c \in DOMAIN Waiting(e) : Closed(c, time)}
    IN  /\ emitted' = emitted \o [i \in 1 .. Cardinality(closed) |-> Waiting(e)[Ascending(closed)[i]]]
        /\ buffer' = Waiting(e)

\* suppress(): the entry e that was just put joins the buffer, and what stream
\* time has closed leaves it for the output topic, oldest first.
Suppress(e, time) ==
    LET closed == {c \in DOMAIN Waiting(e) : Closed(c, time)}
    IN  /\ emitted' = emitted \o [i \in 1 .. Cardinality(closed) |-> Waiting(e)[Ascending(closed)[i]]]
        /\ buffer' = Restrict(Waiting(e), DOMAIN Waiting(e) \ closed)

\* aggregate(), suppress(), map() and to() on the next record under "global-key".
Aggregate ==
    /\ aggPos < Len(repartition)
    /\ aggPos' = aggPos + 1
    /\ LET r == repartition[aggPos + 1]
       IN  /\ streamTime' = Advanced(r.ts)
           /\ \/ /\ IsLate(r.ts, streamTime')
                 /\ late' = late \cup {aggPos'}
                 /\ UNCHANGED <<changelog, buffer, emitted>>
              \/ /\ ~IsLate(r.ts, streamTime')
                 /\ \E old \in Lookup(WindowOf(r.ts)) :
                       /\ changelog' = Append(changelog, Added(old, r))
                       /\ Suppress(Added(old, r), streamTime')
                 /\ UNCHANGED late
    /\ UNCHANGED <<now, raw, readPos, repartition, committed, crashes, crashTime>>

\* The buffer has no changelog.
DurableButBuffer ==
    [readPos |-> readPos, aggPos |-> aggPos, buffer |-> <<>>,
     repartition |-> Len(repartition), changelog |-> Len(changelog), emitted |-> Len(emitted)]

\* What a commit makes durable: everything sent has been acknowledged and the
\* buffer has been written to its changelog.
Durable ==
    [readPos |-> readPos, aggPos |-> aggPos, buffer |-> buffer,
     repartition |-> Len(repartition), changelog |-> Len(changelog), emitted |-> Len(emitted)]

\* The thread's periodic commit: flush, then commit all offsets (external).
\* Only a later crash can tell, so that the bound on crashes bounds it too.
Commit ==
    /\ committed # Durable /\ crashes < MaxCrashes
    /\ committed' = Durable
    /\ UNCHANGED <<now, raw, readPos, taskVars, crashes, crashTime>>

\* The latest stream time so far.
Horizon == IF streamTime < crashTime THEN crashTime ELSE streamTime

\* The new thread goes on where the old one was.
RestartWithoutRewind ==
    /\ crashes' = crashes + 1 /\ crashTime' = Horizon
    /\ streamTime' = -1
    /\ UNCHANGED <<now, raw, readPos, aggPos, late>>
    /\ committed' = Durable'

\* The handler replaces the thread, or the process is started again: the
\* tasks go back to the committed offsets and know no stream time; what the
\* topics hold by then stays.
Restart ==
    /\ crashes' = crashes + 1 /\ crashTime' = Horizon
    /\ readPos' = committed.readPos /\ aggPos' = committed.aggPos
    /\ streamTime' = -1
    /\ late' = late \cap 1 .. committed.aggPos
    /\ committed' = Durable'
    /\ UNCHANGED <<now, raw>>

\* The buffer's changelog, which only a commit writes, when the last commit
\* has got as far as the windows in S: their entries, or their removal.
Flushed(S) ==
    [w \in (DOMAIN committed.buffer \ S) \cup (DOMAIN buffer \cap S) |->
        IF w \in S THEN buffer[w] ELSE committed.buffer[w]]

\* A crash, between two commits or within one, before it has committed the
\* offsets.  Of what was sent since the last one, each topic has received a
\* part, at least what has been read from it.
Crash ==
    /\ crashes < MaxCrashes
    /\ \E n \in committed.repartition .. Len(repartition) :
          n >= aggPos /\ repartition' = SubSeq(repartition, 1, n)
    /\ \E n \in committed.changelog .. Len(changelog) : changelog' = SubSeq(changelog, 1, n)
    /\ \E n \in committed.emitted .. Len(emitted) : emitted' = SubSeq(emitted, 1, n)
    /\ \E S \in SUBSET (DOMAIN buffer \cup DOMAIN committed.buffer) : buffer' = Flushed(S)
    /\ Restart

Next ==
    \/ \E p \in Partitions, v \in Events \cup {Corrupt}, ts \in now .. MaxTime : Produce(p, v, ts)
    \/ \E p \in Partitions : Forward(p)
    \/ Aggregate
    \/ Commit
    \/ Crash

Spec == Init /\ [][Next]_vars

\* The tasks run as long as there is something to read; nothing is assumed
\* about the traffic.
FairSpec ==
    /\ Spec
    /\ \A p \in Partitions : WF_vars(Forward(p))
    /\ WF_vars(Aggregate)

-----------------------------------------------------------------------------

TypeOK ==
    /\ now \in 0 .. MaxTime /\ streamTime \in -1 .. now
    /\ \A p \in Partitions : readPos[p] \in committed.readPos[p] .. Len(raw[p])
    /\ aggPos \in committed.aggPos .. Len(repartition) /\ late \subseteq 1 .. aggPos
    /\ Len(repartition) >= committed.repartition /\ Len(changelog) >= committed.changelog
    /\ Len(emitted) >= committed.emitted /\ crashTime \in -1 .. now
    /\ \A w \in DOMAIN buffer : w % WindowSize = 0 /\ buffer[w].window = w

\* Without crashes a record is dropped as late only because another partition's
\* task was ahead: never because of records of its own partition, whose
\* timestamps ascend (App.java 113-114: one key for all partitions, no grace).
DropsOnlyAcrossPartitions ==
    crashes = 0 =>
        \A i \in late : \E j \in 1 .. i - 1 :
            /\ repartition[j].id[1] # repartition[i].id[1]
            /\ repartition[j].ts >= WindowOf(repartition[i].ts) + WindowSize

\* Without crashes windows come out in the order of time and none comes out
\* twice, so that the watcher's rolling means see each window once
\* (App.java 114-127).
EmittedInOrder ==
    crashes = 0 =>
        \A i, j \in DOMAIN emitted : i < j => emitted[i].window < emitted[j].window

\* The flow of a record of the raw topic.
FlowOf(id) == ReadJson(raw[id[1]][id[2]].value)

\* The sum of f over the positions in S.
SumOver(S, f) ==
    LET sum[i \in 0 .. Len(f)] ==
          IF i = 0 THEN 0 ELSE sum[i - 1] + (IF i \in S THEN f[i] ELSE 0)
    IN  sum[Len(f)]

\* The sums and the count over a sequence of flows.
Totals(F) ==
    LET S == DOMAIN F
        In(d) == {i \in S : F[i].dir = d}
    IN  [bytes_inbound     |-> SumOver(In("INBOUND"),  [i \in S |-> F[i].byte_count]),
         bytes_outbound    |-> SumOver(In("OUTBOUND"), [i \in S |-> F[i].byte_count]),
         packets_inbound   |-> SumOver(In("INBOUND"),  [i \in S |-> F[i].packet_count]),
         packets_outbound  |-> SumOver(In("OUTBOUND"), [i \in S |-> F[i].packet_count]),
         tcp               |-> [f \in Flags |-> SumOver(S, [i \in S |-> F[i].tcp[f]])],
         unique_flow_count |-> Cardinality({FlowKey(F[i]) : i \in S}),
         flowKeys          |-> {FlowKey(F[i]) : i \in S}]

\* What the aggregate of these records has to be.
Expected(members) == Totals([i \in DOMAIN members |-> FlowOf(members[i])])

\* The positions that window w consists of when there are no crashes: processed,
\* in w, and not after a record that closes it.
Members(w) ==
    {i \in 1 .. aggPos :
        /\ WindowOf(repartition[i].ts) = w
        /\ \A j \in 1 .. i - 1 : repartition[j].ts < w + WindowSize}

\* The windows that have members and are over.
Over == {w \in {WindowOf(repartition[i].ts) : i \in 1 .. aggPos} :
            /\ Members(w) # {}
            /\ \E i \in 1 .. aggPos : repartition[i].ts >= w + WindowSize}

(***************************************************************************)
(* What is emitted carries the totals of exactly the records that were     *)
(* added and the number of different keys among them, although the         *)
(* aggregate makes a round trip through the store's serde between any two  *)
(* records.  Without crashes it is a function of the records alone: the    *)
(* windows that are over, each with every member once                      *)
(* (App.java 79-127, AggregatedFlow.java 59-86).                           *)
(***************************************************************************)
WindowsExact ==
    /\ \A i \in DOMAIN emitted : emitted[i].agg = Expected(emitted[i].members)
    /\ crashes = 0 =>
         /\ {emitted[i].window : i \in DOMAIN emitted} = Over
         /\ \A i \in DOMAIN emitted :
              LET e == emitted[i]
              IN  /\ ToSet(e.members) = {repartition[j].id : j \in Members(e.window)}
                  /\ Len(e.members) = Cardinality(Members(e.window))

\* The record at position i of the repartition topic was dropped as late, waits
\* in the buffer, or is part of an emission of its window.
Counted(i) ==
    LET r == repartition[i]
        w == WindowOf(r.ts)
    IN  \/ i \in late
        \/ w \in DOMAIN buffer /\ r.id \in ToSet(buffer[w].members)
        \/ \E j \in DOMAIN emitted :
              emitted[j].window = w /\ r.id \in ToSet(emitted[j].members)

\* A crash costs nothing of the windows that were open then: an event that was
\* read is in the repartition topic, and what was read from there is accounted
\* for unless its window had closed before the thread crashed, so that no
\* committed offset stands for a record of an open window that has vanished
\* (App.java 154-158: the handler replaces the thread).  Windows that had closed
\* are not safe: their entry may be removed durably before their emission is,
\* and an expired aggregate starts anew with every record read after the crash.
OpenWindowsSurviveCrashes ==
    /\ \A p \in Partitions : \A i \in 1 .. readPos[p] :
          raw[p][i].value # Corrupt => \E j \in DOMAIN repartition : repartition[j].id = <<p, i>>
    /\ \A i \in 1 .. aggPos : Counted(i) \/ Closed(WindowOf(repartition[i].ts), crashTime)

\* Every crash may have a record regrouped once more and each of its copies
\* added once more over a store that counts it already, but no more than that:
\* k crashes give at most 1 + 2 + ... + (k + 1) copies, three after the first.
CopiesBounded ==
    \A i \in DOMAIN emitted :
        LET m == emitted[i].members
        IN  \A id \in ToSet(m) :
              2 * Cardinality({j \in DOMAIN m : m[j] = id}) <= (crashes + 1) * (crashes + 2)

Emitted(w) == \E i \in DOMAIN emitted : emitted[i].window = w

\* An event of a window after w is still to be read by one of the tasks.
Overtaking(w) ==
    \/ \E p \in Partitions : \E i \in readPos[p] + 1 .. Len(raw[p]) :
          raw[p][i].value # Corrupt /\ raw[p][i].ts >= w + WindowSize
    \/ \E i \in aggPos + 1 .. Len(repartition) : repartition[i].ts >= w + WindowSize

\* A window that suppress() holds back is emitted if an event of a later window
\* is on its way, also when corrupt values are between and the thread crashes.
\* (It has to be on its way: a window that joins the buffer after a crash, when
\* stream time has been forgotten, waits for new traffic.)
OvertakenWindowsAreEmitted ==
    \A w \in 0 .. MaxTime : w \in DOMAIN buffer /\ Overtaking(w) ~> Emitted(w)

FiveTuple(flow) == <<flow.src_ip, flow.src_port, flow.dst_ip, flow.dst_port, flow.protocol>>

\* AggregatedFlow.java line 76: the key made of addresses, ports and protocol is
\* unique for the flow, so unique_flow_count counts the flows.
UniqueKeyPerFlow ==
    \A i \in DOMAIN emitted :
        emitted[i].agg.unique_flow_count =
            Cardinality({FiveTuple(FlowOf(id)) : id \in ToSet(emitted[i].members)})
=============================================================================
