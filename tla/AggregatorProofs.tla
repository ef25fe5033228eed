-------------------------- MODULE AggregatorProofs --------------------------
(* Proofs about the aggregator, for every number of partitions, records    *)
(* and crashes, every size of the windows and every set of events.         *)
EXTENDS Aggregator, DataLemmas

-----------------------------------------------------------------------------
(* Windows, and the order in which suppress() passes them on.              *)

LEMMA WindowOfProperties ==
    ASSUME NEW ts \in Nat
    PROVE  /\ WindowOf(ts) \in 0 .. ts /\ WindowOf(ts) % WindowSize = 0
           /\ ts < WindowOf(ts) + WindowSize
<1>1. WindowSize \in Nat \ {0}
  BY AggregatorAssumptions
<1>2. PICK q \in Int, r \in 0 .. WindowSize - 1 : ts = WindowSize * q + r /\ r = ts % WindowSize
  <2>1. /\ ts \div WindowSize \in Int /\ ts % WindowSize \in 0 .. WindowSize - 1
        /\ ts = WindowSize * (ts \div WindowSize) + (ts % WindowSize)
    BY <1>1, DivMod, ts \in Int
  <2> QED
    BY <2>1, Zenon
<1>3. PICK w \in Int : w = WindowSize * q
  BY <1>1
<1>4. WindowOf(ts) = w /\ w <= ts /\ ts < w + WindowSize
  BY <1>1, <1>2, <1>3 DEF WindowOf
<1>5. w >= 0
  <2> SUFFICES ASSUME w < 0 PROVE FALSE
    BY <1>3
  <2>1. q < 0
    <3> SUFFICES ASSUME q >= 0 PROVE FALSE
      OBVIOUS
    <3>1. WindowSize * q \in Nat
      BY <1>1
    <3> QED
      BY <1>3, <3>1
  <2>2. WindowSize * q + WindowSize <= WindowSize * 0
    BY <1>1, <2>1, MultiplesApart
  <2> QED
    BY <1>1, <1>3, <1>4, <2>2
<1>6. w = WindowSize * q + 0 /\ 0 \in 0 .. WindowSize - 1
  BY <1>1, <1>3
<1>7. w % WindowSize = 0
  BY <1>1, <1>6, DivModUnique
<1> QED
  BY <1>3, <1>4, <1>5, <1>7

IsAscending(s) == \A i, j \in DOMAIN s : i < j => s[i] < s[j]

LEMMA AscendingExists ==
    ASSUME NEW n \in Nat, NEW S \in SUBSET (0 .. n)
    PROVE  \E s \in [1 .. Cardinality(S) -> S] : IsAscending(s)
<1> DEFINE Good(R) == \E s \in [1 .. Cardinality(R) -> R] : IsAscending(s)
           T == {m \in Nat : \A R \in SUBSET (0 .. m - 1) : Good(R)}
<1>1. 0 \in T
  <2>1. \A R \in SUBSET (0 .. 0 - 1) : R = {}
    OBVIOUS
  <2>2. Cardinality({}) = 0
    BY FS_EmptySet
  <2>3. Good({})
    <3>1. PICK s : s = [i \in 1 .. 0 |-> 0]
      OBVIOUS
    <3>2. s \in [1 .. Cardinality({}) -> {}] /\ DOMAIN s = {}
      BY <2>2, <3>1
    <3> QED
      BY <3>2 DEF IsAscending
  <2> HIDE DEF Good
  <2> QED
    BY <2>1, <2>3
<1>2. ASSUME NEW m \in Nat, m \in T PROVE m + 1 \in T
  <2> SUFFICES ASSUME NEW R \in SUBSET (0 .. m) PROVE Good(R)
    BY (m + 1) - 1 = m
  <2>1. CASE m \notin R
    <3>1. R \in SUBSET (0 .. m - 1)
      BY <2>1
    <3> QED
      BY <1>2, <3>1
  <2>2. CASE m \in R
    <3> DEFINE Q == R \ {m}
    <3>0. Q \in SUBSET (0 .. m - 1) /\ \A x \in Q : x < m /\ x \in Int
      OBVIOUS
    <3>1. Q \in SUBSET (0 .. m - 1) /\ IsFiniteSet(0 .. m) /\ \A x \in Q : x < m /\ x \in Int
      BY <3>0, FS_Interval, 0 \in Int, m \in Int
    <3>2. PICK s \in [1 .. Cardinality(Q) -> Q] : IsAscending(s)
      BY <1>2, <3>1
    <3>3. IsFiniteSet(R) /\ Cardinality(R) \in Nat /\ Cardinality(Q) = Cardinality(R) - 1
      <4>1. IsFiniteSet(R)
        BY <3>1, FS_Subset
      <4> QED
        BY <2>2, <4>1, FS_CardinalityType, FS_RemoveElement
    <3>4. Cardinality(Q) \in Nat
      BY <3>1, <3>3, FS_Subset, FS_CardinalityType
    <3> HIDE DEF Q
    <3> DEFINE t == [i \in 1 .. Cardinality(R) |-> IF i = Cardinality(R) THEN m ELSE s[i]]
    <3>5. \A i \in 1 .. Cardinality(R) : i # Cardinality(R) => i \in 1 .. Cardinality(Q)
      BY <3>3, <3>4
    <3>6. \A i \in 1 .. Cardinality(R) : i # Cardinality(R) => s[i] \in Q
      BY <3>2, <3>5
    <3>7. t \in [1 .. Cardinality(R) -> R]
      BY <2>2, <3>6 DEF Q
    <3>8. IsAscending(t)
      <4> SUFFICES ASSUME NEW i \in 1 .. Cardinality(R), NEW j \in 1 .. Cardinality(R), i < j
                   PROVE  t[i] < t[j]
        BY DEF IsAscending
      <4>1. i # Cardinality(R) /\ t[i] = s[i] /\ s[i] \in Q
        BY <3>3, <3>6
      <4>2. CASE j = Cardinality(R)
        BY <3>1, <4>1, <4>2
      <4>3. CASE j # Cardinality(R)
        BY <3>2, <3>5, <4>1, <4>3 DEF IsAscending
      <4> QED
        BY <4>2, <4>3
    <3> QED
      BY <3>7, <3>8
  <2> QED
    BY <2>1, <2>2
<1> HIDE DEF T
<1>3. n + 1 \in T
  BY <1>1, <1>2, NatSetInduction, n + 1 \in Nat
<1> QED
  BY <1>3, (n + 1) - 1 = n DEF T

LEMMA AscendingProperties ==
    ASSUME NEW n \in Nat, NEW S \in SUBSET (0 .. n)
    PROVE  /\ Cardinality(S) \in Nat /\ Ascending(S) \in [1 .. Cardinality(S) -> S]
           /\ IsAscending(Ascending(S))
           /\ \A x \in S : \E i \in 1 .. Cardinality(S) : Ascending(S)[i] = x
<1>1. IsFiniteSet(S) /\ Cardinality(S) \in Nat
  BY FS_Interval, FS_Subset, FS_CardinalityType, 0 \in Int, n \in Int
<1>2. Ascending(S) \in [1 .. Cardinality(S) -> S] /\ IsAscending(Ascending(S))
  BY AscendingExists, Zenon DEF Ascending, IsAscending
<1>3. PICK s \in [1 .. Cardinality(S) -> S] : s = Ascending(S) /\ IsAscending(s)
  BY <1>2
<1>4. s \in Injection(1 .. Cardinality(S), S)
  <2>1. \A i, j \in 1 .. Cardinality(S) : s[i] = s[j] => i = j
    <3> SUFFICES ASSUME NEW i \in 1 .. Cardinality(S), NEW j \in 1 .. Cardinality(S), i # j, s[i] = s[j]
                 PROVE  FALSE
      OBVIOUS
    <3>1. i < j \/ j < i
      BY <1>1
    <3>2. s[i] < s[j] \/ s[j] < s[i]
      BY <1>3, <3>1 DEF IsAscending
    <3>3. s[i] \in Int /\ s[j] \in Int
      <4>1. s[i] \in S /\ s[j] \in S
        BY <1>3
      <4>2. \A x \in S : x \in Int
        OBVIOUS
      <4> QED
        BY <4>1, <4>2
    <3> QED
      BY <3>2, <3>3
  <2> QED
    BY <1>3, <2>1 DEF Injection, IsInjective
<1>5. Cardinality(1 .. Cardinality(S)) = Cardinality(S)
  BY <1>1, FS_Interval, 1 \in Int, Cardinality(S) \in Int
<1>6. s \in Surjection(1 .. Cardinality(S), S)
  BY <1>1, <1>4, <1>5, FS_Injection
<1>7. \A x \in S : \E i \in 1 .. Cardinality(S) : s[i] = x
  BY <1>6 DEF Surjection
<1> QED
  BY <1>1, <1>2, <1>3, <1>7

-----------------------------------------------------------------------------
(* The state.                                                              *)

FlowSet == {ReadJson(e) : e \in Events}

AggSet ==
    [bytes_inbound : Int, bytes_outbound : Int, packets_inbound : Int, packets_outbound : Int,
     tcp : [Flags -> Int], unique_flow_count : Int, flowKeys : SUBSET {FlowKey(f) : f \in FlowSet}]

Ids == Partitions \X Nat

EntrySet == [window : 0 .. MaxTime, agg : AggSet, members : Seq(Ids)]

RawSet == [ts : 0 .. MaxTime, value : Events \cup {Corrupt}]

RegroupedSet == [id : Ids, ts : 0 .. MaxTime, flow : FlowSet]

IsBuffer(b) ==
    /\ DOMAIN b \subseteq 0 .. MaxTime
    /\ \A w \in DOMAIN b : b[w] \in EntrySet /\ b[w].window = w /\ w % WindowSize = 0

InputInv ==
    /\ now \in 0 .. MaxTime
    /\ raw \in [Partitions -> Seq(RawSet)]
    /\ \A p \in Partitions : \A i \in 1 .. Len(raw[p]) : raw[p][i].ts <= now
    /\ readPos \in [Partitions -> Nat] /\ \A p \in Partitions : readPos[p] <= Len(raw[p])

TaskInv ==
    /\ streamTime \in -1 .. now
    /\ repartition \in Seq(RegroupedSet)
    /\ \A j \in 1 .. Len(repartition) : repartition[j].ts <= now
    /\ aggPos \in 0 .. Len(repartition) /\ late \subseteq 1 .. aggPos
    /\ changelog \in Seq(EntrySet) /\ emitted \in Seq(EntrySet) /\ IsBuffer(buffer)

CommitInv ==
    /\ committed.readPos \in [Partitions -> Nat]
    /\ \A p \in Partitions : committed.readPos[p] <= readPos[p]
    /\ committed.aggPos \in 0 .. aggPos
    /\ committed.repartition \in 0 .. Len(repartition)
    /\ committed.changelog \in 0 .. Len(changelog)
    /\ committed.emitted \in 0 .. Len(emitted)
    /\ IsBuffer(committed.buffer)

TypeInv == InputInv /\ TaskInv /\ CommitInv /\ crashes \in Nat /\ crashTime \in -1 .. now

(* FlowParser and AggregatedFlow stay within their types. *)
LEMMA AsIntType ==
    ASSUME NEW n \in Nat
    PROVE  AsInt(n) \in Int
BY AggregatorAssumptions DEF AsInt

LEMMA FlowType ==
    ASSUME NEW flow \in FlowSet
    PROVE  /\ flow.byte_count \in Int /\ flow.packet_count \in Int
           /\ \A f \in Flags : flow.tcp[f] \in Int
<1>1. PICK e \in Events : flow = ReadJson(e)
  BY DEF FlowSet
<1>2. /\ flow.byte_count = AsInt(e.bytes) /\ flow.packet_count = AsInt(e.packets)
      /\ flow.tcp = [f \in Flags |-> AsInt(e.tcp[f])]
  BY <1>1 DEF ReadJson
<1>3. e.bytes \in Nat /\ e.packets \in Nat /\ \A f \in Flags : e.tcp[f] \in Nat
  BY AggregatorAssumptions
<1> QED
  BY <1>2, <1>3, AsIntType

LEMMA AddFlowType ==
    ASSUME NEW agg \in AggSet, NEW flow \in FlowSet
    PROVE  addFlow(agg, flow) \in AggSet /\ NewAggregate \in AggSet /\ FromStore(agg) = agg
<1>1. /\ agg.bytes_inbound \in Int /\ agg.bytes_outbound \in Int
      /\ agg.packets_inbound \in Int /\ agg.packets_outbound \in Int
      /\ agg.unique_flow_count \in Int /\ agg.tcp \in [Flags -> Int]
      /\ agg.flowKeys \in SUBSET {FlowKey(f) : f \in FlowSet}
  BY DEF AggSet
<1>2. \A d : /\ InDirection(flow, d, flow.byte_count) \in Int
             /\ InDirection(flow, d, flow.packet_count) \in Int
  BY FlowType DEF InDirection
<1>3. [f \in Flags |-> agg.tcp[f] + flow.tcp[f]] \in [Flags -> Int]
  BY <1>1, FlowType
<1>4. agg.flowKeys \cup {FlowKey(flow)} \in SUBSET {FlowKey(f) : f \in FlowSet}
  BY <1>1
<1>5. addFlow(agg, flow) \in AggSet
  BY <1>1, <1>2, <1>3, <1>4 DEF addFlow, AggSet
<1>6. NewAggregate \in AggSet
  BY DEF NewAggregate, AggSet
<1>7. FromStore(agg) = agg
  BY DEF FromStore, AggSet
<1> QED
  BY <1>5, <1>6, <1>7

-----------------------------------------------------------------------------
(* The window store and suppress().                                        *)

\* The positions of window w in the store's changelog.
EntriesOf(w) == {i \in 1 .. Len(changelog) : changelog[i].window = w}

(* The store gives the last entry of a window, or nothing if there is none *)
(* or the window has expired.                                              *)
LEMMA LookupProperties ==
    ASSUME changelog \in Seq(EntrySet), Events # {}, NEW w \in 0 .. MaxTime, NEW old \in Lookup(w)
    PROVE  /\ old \in EntrySet /\ old.window = w
           /\ \/ /\ EntriesOf(w) = {} \/ Expired(w)
                 /\ old.members = <<>> /\ old.agg = NewAggregate
              \/ \E i \in EntriesOf(w) : /\ \A j \in EntriesOf(w) : j <= i
                                         /\ old.members = changelog[i].members
                                         /\ old.agg = changelog[i].agg
<1> DEFINE n == SelectLastInSeq(changelog, LAMBDA e : e.window = w)
<1>1. Len(changelog) \in Nat /\ NewAggregate \in AggSet
  <2>1. PICK e \in Events : TRUE
    OBVIOUS
  <2>2. NewAggregate \in AggSet
    BY DEF NewAggregate, AggSet
  <2> QED
    BY <2>2
<1>2. n = IF EntriesOf(w) # {} THEN Max(EntriesOf(w)) ELSE 0
  BY DEF SelectLastInSeq, EntriesOf
<1>3. \/ /\ n = 0 \/ Expired(w)
         /\ old = [window |-> w, agg |-> NewAggregate, members |-> <<>>]
      \/ n # 0 /\ old = [changelog[n] EXCEPT !.agg = FromStore(@)]
  BY DEF Lookup
<1> HIDE DEF n
<1>4. ASSUME EntriesOf(w) # {}
      PROVE  n \in 1 .. Len(changelog) /\ n \in EntriesOf(w) /\ \A y \in EntriesOf(w) : y <= n
  <2>1. PICK x \in EntriesOf(w) : \A y \in EntriesOf(w) : x >= y
    <3> DEFINE R == {k \in 0 .. Len(changelog) : Len(changelog) - k \in EntriesOf(w)}
    <3>1. R \subseteq Nat /\ R # {}
      <4>1. PICK y \in EntriesOf(w) : TRUE
        BY <1>4
      <4>2. y \in 1 .. Len(changelog)
        BY DEF EntriesOf
      <4>3. Len(changelog) - y \in 0 .. Len(changelog) /\ Len(changelog) - (Len(changelog) - y) = y
        BY <1>1, <4>2
      <4> QED
        BY <1>1, <4>3
    <3>2. PICK k \in R : \A l \in R : k <= l
      BY <3>1, LeastNat
    <3>3. \A y \in EntriesOf(w) : /\ y \in 1 .. Len(changelog) /\ Len(changelog) - y \in R
      <4> TAKE y \in EntriesOf(w)
      <4>1. y \in 1 .. Len(changelog)
        BY DEF EntriesOf
      <4>2. Len(changelog) - y \in 0 .. Len(changelog) /\ Len(changelog) - (Len(changelog) - y) = y
        BY <1>1, <4>1
      <4> QED
        BY <4>1, <4>2
    <3>4. k \in 0 .. Len(changelog) /\ Len(changelog) - k \in EntriesOf(w)
      BY <3>2
    <3> HIDE DEF R
    <3>5. \A y \in EntriesOf(w) : Len(changelog) - k >= y
      BY <1>1, <3>2, <3>3, <3>4
    <3> QED
      BY <3>4, <3>5
  <2>2. n \in EntriesOf(w) /\ \A y \in EntriesOf(w) : n >= y
    BY <1>2, <1>4, <2>1 DEF Max
  <2> QED
    BY <2>2 DEF EntriesOf
<1>5. CASE /\ n = 0 \/ Expired(w)
           /\ old = [window |-> w, agg |-> NewAggregate, members |-> <<>>]
  <2>1. EntriesOf(w) = {} \/ Expired(w)
    BY <1>4, <1>5
  <2> QED
    BY <1>1, <1>5, <2>1 DEF EntrySet
<1>6. CASE n # 0 /\ old = [changelog[n] EXCEPT !.agg = FromStore(@)]
  <2>1. n \in 1 .. Len(changelog) /\ n \in EntriesOf(w) /\ \A y \in EntriesOf(w) : y <= n
    BY <1>2, <1>4, <1>6
  <2>2. changelog[n] \in EntrySet /\ changelog[n].window = w
    BY <2>1, ElementOfSeq DEF EntriesOf
  <2>3. FromStore(changelog[n].agg) = changelog[n].agg
    <3>1. changelog[n].agg \in AggSet
      BY <2>2 DEF EntrySet
    <3> QED
      BY <3>1 DEF FromStore, AggSet
  <2>4. old = changelog[n]
    BY <1>6, <2>2, <2>3 DEF EntrySet
  <2> QED
    BY <2>1, <2>2, <2>4
<1> QED
  BY <1>3, <1>5, <1>6

\* The record that the aggregating task is about to process, and the entry
\* that it puts.
NextRec == repartition[aggPos + 1]

NewEntry == changelog'[Len(changelog) + 1]

\* A record that arrives while its window is open or opens one (late'
\* unchanged), and one that arrives too late.
OnTime ==
    /\ ~IsLate(NextRec.ts, streamTime') /\ late' = late
    /\ \E old \in Lookup(WindowOf(NextRec.ts)) : NewEntry = Added(old, NextRec)
    /\ changelog' = Append(changelog, NewEntry) /\ Suppress(NewEntry, streamTime')

TooLate ==
    /\ IsLate(NextRec.ts, streamTime') /\ late' = late \cup {aggPos + 1}
    /\ UNCHANGED <<changelog, buffer, emitted>>

LEMMA NextRecType ==
    ASSUME TypeInv, aggPos < Len(repartition)
    PROVE  /\ NextRec \in RegroupedSet /\ NextRec.ts \in 0 .. MaxTime /\ NextRec.ts <= now
           /\ NextRec.id \in Ids /\ NextRec.flow \in FlowSet /\ Events # {}
           /\ WindowOf(NextRec.ts) \in 0 .. MaxTime /\ WindowOf(NextRec.ts) <= NextRec.ts
           /\ WindowOf(NextRec.ts) % WindowSize = 0
           /\ NextRec.ts < WindowOf(NextRec.ts) + WindowSize
<1>1. aggPos + 1 \in 1 .. Len(repartition) /\ repartition \in Seq(RegroupedSet)
  BY DEF TypeInv, TaskInv
<1>2. NextRec \in RegroupedSet /\ NextRec.ts <= now
  BY <1>1, ElementOfSeq DEF NextRec, TypeInv, TaskInv
<1>3. NextRec.ts \in 0 .. MaxTime /\ NextRec.id \in Ids /\ NextRec.flow \in FlowSet
  BY <1>2 DEF RegroupedSet
<1>4. Events # {}
  BY <1>3 DEF FlowSet
<1>5. PICK t \in Nat : t = NextRec.ts
  BY <1>3, AggregatorAssumptions
<1>6. WindowOf(t) \in 0 .. t /\ WindowOf(t) % WindowSize = 0 /\ t < WindowOf(t) + WindowSize
  BY WindowOfProperties
<1> QED
  BY <1>2, <1>3, <1>4, <1>5, <1>6, AggregatorAssumptions

LEMMA AddedType ==
    ASSUME TypeInv, aggPos < Len(repartition), NEW old \in Lookup(WindowOf(NextRec.ts)),
           NEW e, e = Added(old, NextRec)
    PROVE  /\ old \in EntrySet /\ e \in EntrySet /\ e.window = WindowOf(NextRec.ts)
           /\ e.members = Append(old.members, NextRec.id)
           /\ e.agg = addFlow(old.agg, NextRec.flow)
<1> DEFINE w == WindowOf(NextRec.ts)
<1>1. changelog \in Seq(EntrySet) /\ Events # {} /\ w \in 0 .. MaxTime
  BY NextRecType DEF TypeInv, TaskInv
<1>2. old \in EntrySet /\ old.window = w
  BY <1>1, LookupProperties
<1>3. NextRec.id \in Ids /\ NextRec.flow \in FlowSet
  BY NextRecType
<1>4. old.agg \in AggSet /\ old.members \in Seq(Ids)
  BY <1>2 DEF EntrySet
<1>5. addFlow(old.agg, NextRec.flow) \in AggSet /\ Append(old.members, NextRec.id) \in Seq(Ids)
  BY <1>3, <1>4, AddFlowType
<1>6. e = [old EXCEPT !.agg = addFlow(@, NextRec.flow), !.members = Append(@, NextRec.id)]
  BY DEF Added
<1>7. e = [window |-> w, agg |-> addFlow(old.agg, NextRec.flow),
           members |-> Append(old.members, NextRec.id)]
  BY <1>2, <1>6 DEF EntrySet
<1> QED
  BY <1>1, <1>2, <1>5, <1>7 DEF EntrySet

LEMMA NewEntryProperties ==
    ASSUME TypeInv, aggPos < Len(repartition), OnTime
    PROVE  /\ NewEntry \in EntrySet /\ NewEntry.window = WindowOf(NextRec.ts)
           /\ \E old \in Lookup(WindowOf(NextRec.ts)) :
                 /\ old \in EntrySet
                 /\ NewEntry.members = Append(old.members, NextRec.id)
                 /\ NewEntry.agg = addFlow(old.agg, NextRec.flow)
<1>1. PICK e : e = NewEntry
  OBVIOUS
<1>2. PICK old \in Lookup(WindowOf(NextRec.ts)) : e = Added(old, NextRec)
  BY <1>1 DEF OnTime
<1>3. /\ old \in EntrySet /\ e \in EntrySet /\ e.window = WindowOf(NextRec.ts)
      /\ e.members = Append(old.members, NextRec.id)
      /\ e.agg = addFlow(old.agg, NextRec.flow)
  BY <1>2, AddedType
<1> QED
  BY <1>1, <1>3

(* What suppress() does with entry e at stream time T: the windows that have *)
(* closed leave in ascending order, the others stay.                         *)
LEMMA SuppressStep ==
    ASSUME IsBuffer(buffer), emitted \in Seq(EntrySet),
           NEW e \in EntrySet, e.window % WindowSize = 0, NEW T \in Int, Suppress(e, T)
    PROVE  /\ emitted' \in Seq(EntrySet) /\ Len(emitted) <= Len(emitted')
           /\ \A i \in 1 .. Len(emitted) : emitted'[i] = emitted[i]
           /\ \A i \in Len(emitted) + 1 .. Len(emitted') :
                 \E c \in DOMAIN Waiting(e) : Closed(c, T) /\ emitted'[i] = Waiting(e)[c]
           /\ \A i, j \in Len(emitted) + 1 .. Len(emitted') :
                 i < j => emitted'[i].window < emitted'[j].window
           /\ \A c \in DOMAIN Waiting(e) :
                 Closed(c, T) => \E i \in 1 .. Len(emitted') : emitted'[i] = Waiting(e)[c]
           /\ DOMAIN buffer' = {c \in DOMAIN Waiting(e) : ~Closed(c, T)}
           /\ \A c \in DOMAIN buffer' : buffer'[c] = Waiting(e)[c]
           /\ IsBuffer(Waiting(e)) /\ IsBuffer(buffer')
<1>1. PICK b : b = Waiting(e)
  OBVIOUS
<1>2. DOMAIN b = DOMAIN buffer \cup {e.window}
      /\ \A c \in DOMAIN b : b[c] = IF c = e.window THEN e ELSE buffer[c]
  BY <1>1 DEF Waiting
<1>3. IsBuffer(b)
  <2>1. e.window \in 0 .. MaxTime
    BY DEF EntrySet
  <2> QED
    BY <1>2, <2>1 DEF IsBuffer
<1>4. PICK S : S = {c \in DOMAIN b : Closed(c, T)}
  OBVIOUS
<1>5. S \in SUBSET (0 .. MaxTime) /\ S \subseteq DOMAIN b
  BY <1>3, <1>4 DEF IsBuffer
<1>6. PICK n, s :
         /\ n = Cardinality(S) /\ s = Ascending(S)
         /\ n \in Nat /\ s \in [1 .. n -> S] /\ IsAscending(s)
         /\ \A x \in S : \E i \in 1 .. n : s[i] = x
  <2>1. MaxTime \in Nat
    BY AggregatorAssumptions
  <2>2. /\ Cardinality(S) \in Nat /\ Ascending(S) \in [1 .. Cardinality(S) -> S]
        /\ IsAscending(Ascending(S))
        /\ \A x \in S : \E i \in 1 .. Cardinality(S) : Ascending(S)[i] = x
    BY <1>5, <2>1, AscendingProperties
  <2> QED
    BY <2>2
<1>7. emitted' = emitted \o [i \in 1 .. n |-> b[s[i]]] /\ buffer' = [c \in DOMAIN b \ S |-> b[c]]
  BY <1>1, <1>4, <1>6 DEF Suppress, Restrict
<1>8. \A i \in 1 .. n : s[i] \in S /\ s[i] \in DOMAIN b /\ b[s[i]] \in EntrySet /\ b[s[i]].window = s[i]
  BY <1>3, <1>5, <1>6 DEF IsBuffer
<1>9. PICK new \in Seq(EntrySet) : new = [i \in 1 .. n |-> b[s[i]]] /\ Len(new) = n
  <2> DEFINE q == [i \in 1 .. n |-> b[s[i]]]
  <2>1. q \in [1 .. n -> EntrySet]
    BY <1>8
  <2>2. q \in Seq(EntrySet)
    BY <2>1, <1>6, IsASeq
  <2>3. Len(q) = n
    BY <2>2, <1>6, LenProperties
  <2> QED
    BY <2>2, <2>3
<1>10. \A i \in 1 .. n : new[i] = b[s[i]]
  BY <1>9
<1>11. /\ emitted' \in Seq(EntrySet) /\ Len(emitted') = Len(emitted) + n
       /\ \A i \in 1 .. Len(emitted) + n :
             emitted'[i] = IF i <= Len(emitted) THEN emitted[i] ELSE new[i - Len(emitted)]
  <2>1. emitted' = emitted \o new
    BY <1>7, <1>9
  <2> QED
    BY <2>1, <1>6, <1>9
<1>12. Len(emitted) \in Nat
  BY LenProperties
<1>13. \A i \in Len(emitted) + 1 .. Len(emitted') :
          /\ i - Len(emitted) \in 1 .. n /\ emitted'[i] = b[s[i - Len(emitted)]]
          /\ s[i - Len(emitted)] \in S /\ emitted'[i].window = s[i - Len(emitted)]
  <2> TAKE i \in Len(emitted) + 1 .. Len(emitted')
  <2>1. i - Len(emitted) \in 1 .. n /\ i \in 1 .. Len(emitted) + n /\ ~(i <= Len(emitted))
    BY <1>6, <1>11, <1>12
  <2>2. emitted'[i] = new[i - Len(emitted)]
    BY <1>11, <2>1
  <2> QED
    BY <1>8, <1>10, <2>1, <2>2
<1>14. \A i \in 1 .. Len(emitted) : emitted'[i] = emitted[i]
  BY <1>6, <1>11, <1>12
<1>15. \A i \in Len(emitted) + 1 .. Len(emitted') :
          \E c \in DOMAIN b : Closed(c, T) /\ emitted'[i] = b[c]
  BY <1>4, <1>13
<1>16. \A i, j \in Len(emitted) + 1 .. Len(emitted') : i < j => emitted'[i].window < emitted'[j].window
  <2> SUFFICES ASSUME NEW i \in Len(emitted) + 1 .. Len(emitted'),
                      NEW j \in Len(emitted) + 1 .. Len(emitted'), i < j
               PROVE  emitted'[i].window < emitted'[j].window
    OBVIOUS
  <2>1. /\ i - Len(emitted) \in DOMAIN s /\ j - Len(emitted) \in DOMAIN s
        /\ i - Len(emitted) < j - Len(emitted)
    BY <1>6, <1>12, <1>13
  <2>2. s[i - Len(emitted)] < s[j - Len(emitted)]
    BY <1>6, <2>1 DEF IsAscending
  <2> QED
    BY <1>13, <2>2
<1>17. \A c \in DOMAIN b : Closed(c, T) => \E i \in 1 .. Len(emitted') : emitted'[i] = b[c]
  <2> SUFFICES ASSUME NEW c \in DOMAIN b, Closed(c, T)
               PROVE  \E i \in 1 .. Len(emitted') : emitted'[i] = b[c]
    OBVIOUS
  <2>1. PICK i \in 1 .. n : s[i] = c
    BY <1>4, <1>6
  <2>2. PICK k \in Int : k = Len(emitted) + i
    BY <1>12
  <2>3. k \in Len(emitted) + 1 .. Len(emitted') /\ k - Len(emitted) = i /\ k \in 1 .. Len(emitted')
    BY <1>6, <1>11, <1>12, <2>1, <2>2
  <2> QED
    BY <1>13, <2>1, <2>3
<1>18. DOMAIN buffer' = {c \in DOMAIN b : ~Closed(c, T)} /\ \A c \in DOMAIN buffer' : buffer'[c] = b[c]
  BY <1>4, <1>7
<1>19. IsBuffer(buffer')
  <2>1. \A c \in DOMAIN buffer' : c \in DOMAIN b /\ buffer'[c] = b[c]
    BY <1>18
  <2> QED
    BY <1>3, <2>1 DEF IsBuffer
<1>20. Len(emitted) <= Len(emitted')
  BY <1>6, <1>11, <1>12
<1> QED
  BY <1>1, <1>3, <1>11, <1>14, <1>15, <1>16, <1>17, <1>18, <1>19, <1>20

-----------------------------------------------------------------------------
(* The actions, one lemma for what each of them does.                      *)

LEMMA AggregateStep ==
    ASSUME TypeInv, Aggregate
    PROVE  /\ aggPos < Len(repartition) /\ aggPos' = aggPos + 1 /\ aggPos + 1 \in 1 .. Len(repartition)
           /\ streamTime' = Advanced(NextRec.ts) /\ streamTime' \in Int
           /\ streamTime <= streamTime' /\ NextRec.ts <= streamTime' /\ streamTime' <= now
           /\ UNCHANGED <<now, raw, readPos, repartition, committed, crashes, crashTime>>
           /\ OnTime \/ TooLate
<1>0. /\ aggPos < Len(repartition) /\ aggPos' = aggPos + 1
      /\ streamTime' = Advanced(NextRec.ts)
      /\ UNCHANGED <<now, raw, readPos, repartition, committed, crashes, crashTime>>
  BY DEF Aggregate, NextRec
<1>1. OnTime \/ TooLate
  <2>1. CASE TooLate
    BY <2>1
  <2>2. CASE /\ ~IsLate(NextRec.ts, streamTime') /\ late' = late
             /\ \E old \in Lookup(WindowOf(NextRec.ts)) :
                   /\ changelog' = Append(changelog, Added(old, NextRec))
                   /\ Suppress(Added(old, NextRec), streamTime')
    <3>1. PICK old \in Lookup(WindowOf(NextRec.ts)) :
             /\ changelog' = Append(changelog, Added(old, NextRec))
             /\ Suppress(Added(old, NextRec), streamTime')
      BY <2>2
    <3>2. PICK e : e = Added(old, NextRec)
      OBVIOUS
    <3>3. e \in EntrySet /\ changelog \in Seq(EntrySet)
      BY <1>0, <3>2, AddedType DEF TypeInv, TaskInv
    <3>4. NewEntry = e
      BY <3>1, <3>2, <3>3, AppendProperties DEF NewEntry
    <3> QED
      BY <2>2, <3>1, <3>2, <3>4 DEF OnTime
  <2> QED
    BY <2>1, <2>2 DEF Aggregate, TooLate, NextRec
<1>2. NextRec.ts \in 0 .. MaxTime /\ NextRec.ts <= now
  BY <1>0, NextRecType
<1>3. streamTime \in -1 .. now /\ now \in 0 .. MaxTime /\ MaxTime \in Nat
      /\ aggPos \in 0 .. Len(repartition) /\ Len(repartition) \in Nat
  BY AggregatorAssumptions DEF TypeInv, TaskInv, InputInv
<1> QED
  BY <1>0, <1>1, <1>2, <1>3 DEF Advanced

LEMMA OnTimeStep ==
    ASSUME TypeInv, Aggregate, OnTime
    PROVE  /\ emitted' \in Seq(EntrySet) /\ Len(emitted) <= Len(emitted')
           /\ \A i \in 1 .. Len(emitted) : emitted'[i] = emitted[i]
           /\ \A i \in Len(emitted) + 1 .. Len(emitted') :
                 \E c \in DOMAIN Waiting(NewEntry) :
                    Closed(c, streamTime') /\ emitted'[i] = Waiting(NewEntry)[c]
           /\ \A i, j \in Len(emitted) + 1 .. Len(emitted') :
                 i < j => emitted'[i].window < emitted'[j].window
           /\ \A c \in DOMAIN Waiting(NewEntry) :
                 Closed(c, streamTime') =>
                    \E i \in 1 .. Len(emitted') : emitted'[i] = Waiting(NewEntry)[c]
           /\ DOMAIN buffer' = {c \in DOMAIN Waiting(NewEntry) : ~Closed(c, streamTime')}
           /\ \A c \in DOMAIN buffer' : buffer'[c] = Waiting(NewEntry)[c]
           /\ IsBuffer(Waiting(NewEntry)) /\ IsBuffer(buffer')
<1>1. PICK e : e = NewEntry
  OBVIOUS
<1>2. PICK T : T = streamTime'
  OBVIOUS
<1>3. T \in Int /\ aggPos < Len(repartition)
  BY <1>2, AggregateStep
<1>4. e \in EntrySet /\ e.window % WindowSize = 0
  BY <1>1, <1>3, NewEntryProperties, NextRecType
<1>5. Suppress(e, T) /\ IsBuffer(buffer) /\ emitted \in Seq(EntrySet)
  BY <1>1, <1>2 DEF OnTime, TypeInv, TaskInv
<1>6. /\ emitted' \in Seq(EntrySet) /\ Len(emitted) <= Len(emitted')
      /\ \A i \in 1 .. Len(emitted) : emitted'[i] = emitted[i]
      /\ \A i \in Len(emitted) + 1 .. Len(emitted') :
            \E c \in DOMAIN Waiting(e) : Closed(c, T) /\ emitted'[i] = Waiting(e)[c]
      /\ \A i, j \in Len(emitted) + 1 .. Len(emitted') :
            i < j => emitted'[i].window < emitted'[j].window
      /\ \A c \in DOMAIN Waiting(e) :
            Closed(c, T) => \E i \in 1 .. Len(emitted') : emitted'[i] = Waiting(e)[c]
      /\ DOMAIN buffer' = {c \in DOMAIN Waiting(e) : ~Closed(c, T)}
      /\ \A c \in DOMAIN buffer' : buffer'[c] = Waiting(e)[c]
      /\ IsBuffer(Waiting(e)) /\ IsBuffer(buffer')
  BY <1>3, <1>4, <1>5, SuppressStep
<1> QED
  BY <1>1, <1>2, <1>6

LEMMA WaitingProperties ==
    ASSUME NEW e
    PROVE  /\ DOMAIN Waiting(e) = DOMAIN buffer \cup {e.window}
           /\ Waiting(e)[e.window] = e
           /\ \A c \in DOMAIN buffer : c # e.window => Waiting(e)[c] = buffer[c]
BY DEF Waiting

LEMMA ForwardStep ==
    ASSUME TypeInv, NEW p \in Partitions, Forward(p)
    PROVE  /\ readPos[p] + 1 \in 1 .. Len(raw[p]) /\ readPos' = [readPos EXCEPT ![p] = @ + 1]
           /\ repartition' \in Seq(RegroupedSet)
           /\ UNCHANGED <<now, raw, aggPos, streamTime, changelog, buffer, emitted, late>>
           /\ UNCHANGED <<committed, crashes, crashTime>>
           /\ \/ raw[p][readPos[p] + 1].value = Corrupt /\ repartition' = repartition
              \/ /\ Len(repartition') = Len(repartition) + 1
                 /\ \A i \in 1 .. Len(repartition) : repartition'[i] = repartition[i]
                 /\ repartition'[Len(repartition) + 1] = Parsed(p)
                 /\ Parsed(p) \in RegroupedSet /\ Parsed(p).id = <<p, readPos[p] + 1>>
                 /\ Parsed(p).ts = raw[p][readPos[p] + 1].ts
                 /\ Parsed(p).flow = ReadJson(raw[p][readPos[p] + 1].value)
                 /\ raw[p][readPos[p] + 1].value # Corrupt
<1>1. /\ readPos[p] < Len(raw[p]) /\ readPos' = [readPos EXCEPT ![p] = @ + 1]
      /\ repartition' = IF raw[p][readPos[p] + 1].value = Corrupt THEN repartition
                        ELSE Append(repartition, Parsed(p))
      /\ UNCHANGED <<now, raw, aggPos, streamTime, changelog, buffer, emitted, late>>
      /\ UNCHANGED <<committed, crashes, crashTime>>
  BY DEF Forward
<1>2. readPos[p] \in Nat /\ raw[p] \in Seq(RawSet) /\ repartition \in Seq(RegroupedSet)
  BY DEF TypeInv, InputInv, TaskInv
<1>3. readPos[p] + 1 \in 1 .. Len(raw[p])
  BY <1>1, <1>2
<1>4. raw[p][readPos[p] + 1] \in RawSet
  BY <1>2, <1>3, ElementOfSeq
<1>5. CASE raw[p][readPos[p] + 1].value = Corrupt
  BY <1>1, <1>2, <1>3, <1>5
<1>6. CASE raw[p][readPos[p] + 1].value # Corrupt
  <2>1. repartition' = Append(repartition, Parsed(p))
    BY <1>1, <1>6
  <2>2. /\ Parsed(p).id = <<p, readPos[p] + 1>> /\ Parsed(p).ts = raw[p][readPos[p] + 1].ts
        /\ Parsed(p).flow = ReadJson(raw[p][readPos[p] + 1].value)
        /\ Parsed(p) = [id |-> Parsed(p).id, ts |-> Parsed(p).ts, flow |-> Parsed(p).flow]
    BY DEF Parsed
  <2>3. Parsed(p).id \in Ids
    BY <1>2, <2>2 DEF Ids
  <2>4. Parsed(p).ts \in 0 .. MaxTime /\ raw[p][readPos[p] + 1].value \in Events
    BY <1>4, <1>6, <2>2 DEF RawSet
  <2>5. Parsed(p).flow \in FlowSet
    BY <2>2, <2>4 DEF FlowSet
  <2>6. Parsed(p) \in RegroupedSet
    BY <2>2, <2>3, <2>4, <2>5 DEF RegroupedSet
  <2> QED
    BY <1>1, <1>2, <1>3, <1>6, <2>1, <2>2, <2>6, AppendProperties
<1> QED
  BY <1>5, <1>6

\* The buffers b and c hold the same for window w.
SameAt(w, b, c) == (w \in DOMAIN b <=> w \in DOMAIN c) /\ (w \in DOMAIN b => b[w] = c[w])

(* A crash: the topics and the buffer keep what was durable, and possibly  *)
(* more, and the tasks start again from there.                             *)
RestartStep ==
    /\ crashes' = crashes + 1 /\ crashTime' = Horizon /\ readPos' = committed.readPos /\ aggPos' = committed.aggPos
    /\ streamTime' = -1 /\ late' = late \cap 1 .. committed.aggPos
    /\ committed' = Durable' /\ UNCHANGED <<now, raw>>
    /\ repartition' \in Seq(RegroupedSet) /\ changelog' \in Seq(EntrySet)
    /\ emitted' \in Seq(EntrySet)
    /\ Len(repartition') \in committed.repartition .. Len(repartition) /\ aggPos <= Len(repartition')
    /\ \A i \in 1 .. Len(repartition') : repartition'[i] = repartition[i]
    /\ Len(changelog') \in committed.changelog .. Len(changelog)
    /\ \A i \in 1 .. Len(changelog') : changelog'[i] = changelog[i]
    /\ Len(emitted') \in committed.emitted .. Len(emitted)
    /\ \A i \in 1 .. Len(emitted') : emitted'[i] = emitted[i]
    /\ \A w : SameAt(w, buffer', buffer) \/ SameAt(w, buffer', committed.buffer)

LEMMA CrashStep ==
    ASSUME TypeInv, Crash
    PROVE  RestartStep
<1>1. /\ repartition \in Seq(RegroupedSet) /\ changelog \in Seq(EntrySet) /\ emitted \in Seq(EntrySet)
      /\ committed.repartition \in Nat /\ committed.changelog \in Nat /\ committed.emitted \in Nat
      /\ aggPos \in Nat
  BY DEF TypeInv, TaskInv, CommitInv
<1>2. /\ Restart /\ \E S \in SUBSET (DOMAIN buffer \cup DOMAIN committed.buffer) : buffer' = Flushed(S)
      /\ \E n \in committed.repartition .. Len(repartition) :
            n >= aggPos /\ repartition' = SubSeq(repartition, 1, n)
      /\ \E n \in committed.changelog .. Len(changelog) : changelog' = SubSeq(changelog, 1, n)
      /\ \E n \in committed.emitted .. Len(emitted) : emitted' = SubSeq(emitted, 1, n)
  BY DEF Crash
<1>3. ASSUME NEW S, NEW s \in Seq(S), NEW m \in Nat, NEW n \in m .. Len(s), NEW t, t = SubSeq(s, 1, n)
      PROVE  t \in Seq(S) /\ Len(t) = n /\ Len(t) \in m .. Len(s) /\ \A i \in 1 .. Len(t) : t[i] = s[i]
  BY <1>3, SubSeqProperties
<1>4. /\ repartition' \in Seq(RegroupedSet) /\ aggPos <= Len(repartition')
      /\ Len(repartition') \in committed.repartition .. Len(repartition)
      /\ \A i \in 1 .. Len(repartition') : repartition'[i] = repartition[i]
  <2>1. PICK n \in committed.repartition .. Len(repartition) :
           n >= aggPos /\ repartition' = SubSeq(repartition, 1, n)
    BY <1>2
  <2>2. PICK t : t = repartition'
    OBVIOUS
  <2> QED
    BY <1>1, <1>3, <2>1, <2>2
<1>5. /\ changelog' \in Seq(EntrySet) /\ Len(changelog') \in committed.changelog .. Len(changelog)
      /\ \A i \in 1 .. Len(changelog') : changelog'[i] = changelog[i]
  BY <1>1, <1>2, <1>3, SMTT(30)
<1>6. /\ emitted' \in Seq(EntrySet) /\ Len(emitted') \in committed.emitted .. Len(emitted)
      /\ \A i \in 1 .. Len(emitted') : emitted'[i] = emitted[i]
  BY <1>1, <1>2, <1>3, SMTT(30)
<1>7. \A w : SameAt(w, buffer', buffer) \/ SameAt(w, buffer', committed.buffer)
  <2>1. PICK S : buffer' = Flushed(S)
    BY <1>2
  <2>2. TAKE w
  <2>3. CASE w \in S
    BY <2>1, <2>3 DEF Flushed, SameAt
  <2>4. CASE w \notin S
    BY <2>1, <2>4 DEF Flushed, SameAt
  <2> QED
    BY <2>3, <2>4
<1> QED
  BY <1>2, <1>4, <1>5, <1>6, <1>7 DEF RestartStep, Restart

LEMMA DurableFields ==
    /\ Durable.readPos = readPos /\ Durable.aggPos = aggPos /\ Durable.buffer = buffer
    /\ Durable.repartition = Len(repartition) /\ Durable.changelog = Len(changelog)
    /\ Durable.emitted = Len(emitted)
BY DEF Durable

LEMMA DurableFieldsNext ==
    ASSUME committed' = Durable'
    PROVE  /\ committed'.readPos = readPos' /\ committed'.aggPos = aggPos'
           /\ committed'.buffer = buffer' /\ committed'.repartition = Len(repartition')
           /\ committed'.changelog = Len(changelog') /\ committed'.emitted = Len(emitted')
BY DEF Durable

-----------------------------------------------------------------------------
(* Types.                                                                  *)

LEMMA TypeInit == Init => TypeInv
<1> SUFFICES ASSUME Init PROVE TypeInv
  OBVIOUS
<1>1. /\ now = 0 /\ raw = [p \in Partitions |-> <<>>] /\ readPos = [p \in Partitions |-> 0]
      /\ repartition = <<>> /\ aggPos = 0 /\ streamTime = -1
      /\ changelog = <<>> /\ buffer = <<>> /\ emitted = <<>> /\ late = {} /\ crashes = 0 /\ crashTime = -1
      /\ committed.readPos = readPos /\ committed.aggPos = 0 /\ committed.buffer = <<>>
      /\ committed.repartition = 0 /\ committed.changelog = 0 /\ committed.emitted = 0
  BY DEF Init
<1>2. MaxTime \in Nat
  BY AggregatorAssumptions
<1>3. IsBuffer(<<>>)
  BY DEF IsBuffer
<1>4. InputInv
  BY <1>1, <1>2 DEF InputInv
<1>5. TaskInv
  BY <1>1, <1>2, <1>3 DEF TaskInv
<1>6. CommitInv
  BY <1>1, <1>3 DEF CommitInv
<1> QED
  BY <1>1, <1>4, <1>5, <1>6 DEF TypeInv

LEMMA ProduceTypes ==
    ASSUME TypeInv, NEW p \in Partitions, NEW v \in Events \cup {Corrupt}, NEW ts \in now .. MaxTime,
           Produce(p, v, ts)
    PROVE  TypeInv' /\ \A q \in Partitions : /\ Len(raw[q]) <= Len(raw'[q])
                                             /\ \A i \in 1 .. Len(raw[q]) : raw'[q][i] = raw[q][i]
<1>1. /\ raw' = [raw EXCEPT ![p] = Append(@, [ts |-> ts, value |-> v])] /\ now' = ts
      /\ UNCHANGED <<readPos, taskVars, committed, crashes, crashTime>>
  BY DEF Produce
<1>2. now \in 0 .. MaxTime /\ MaxTime \in Nat /\ raw \in [Partitions -> Seq(RawSet)]
      /\ readPos \in [Partitions -> Nat]
  BY AggregatorAssumptions DEF TypeInv, InputInv
<1>3. PICK r \in RawSet : r = [ts |-> ts, value |-> v]
  <2>1. ts \in 0 .. MaxTime
    BY <1>2
  <2>2. [ts |-> ts, value |-> v] \in RawSet
    BY <2>1 DEF RawSet
  <2> QED
    BY <2>2
<1>4. now' \in 0 .. MaxTime /\ now <= now'
  BY <1>1, <1>2
<1>5. ASSUME NEW q \in Partitions
      PROVE  /\ raw'[q] \in Seq(RawSet) /\ Len(raw[q]) <= Len(raw'[q])
             /\ \A i \in 1 .. Len(raw[q]) : raw'[q][i] = raw[q][i]
             /\ \A i \in 1 .. Len(raw'[q]) : raw'[q][i].ts <= now'
  <2>1. raw[q] \in Seq(RawSet) /\ \A i \in 1 .. Len(raw[q]) : raw[q][i].ts <= now /\ raw[q][i] \in RawSet
    BY <1>2, ElementOfSeq DEF TypeInv, InputInv
  <2>2. \A i \in 1 .. Len(raw[q]) : raw[q][i].ts <= now'
    BY <2>1, <1>2, <1>4 DEF RawSet
  <2>3. CASE q # p
    BY <1>1, <1>2, <2>1, <2>2, <2>3
  <2>4. CASE q = p
    <3>1. raw'[q] = Append(raw[q], r) /\ r.ts = now'
      BY <1>1, <1>2, <1>3, <2>4
    <3>2. /\ raw'[q] \in Seq(RawSet) /\ Len(raw'[q]) = Len(raw[q]) + 1 /\ Len(raw[q]) \in Nat
          /\ \A i \in 1 .. Len(raw[q]) : raw'[q][i] = raw[q][i]
          /\ raw'[q][Len(raw[q]) + 1] = r
      BY <2>1, <3>1, AppendProperties
    <3>3. \A i \in 1 .. Len(raw'[q]) : i \in 1 .. Len(raw[q]) \/ i = Len(raw[q]) + 1
      BY <3>2
    <3> QED
      BY <1>4, <2>2, <3>1, <3>2, <3>3
  <2> QED
    BY <2>3, <2>4
<1>6. InputInv'
  <2>1. raw' \in [Partitions -> Seq(RawSet)]
    BY <1>1, <1>2, <1>5
  <2>2. \A q \in Partitions : readPos'[q] \in Nat /\ readPos'[q] <= Len(raw'[q])
    BY <1>1, <1>2, <1>5, LenProperties DEF TypeInv, InputInv
  <2>3. readPos' \in [Partitions -> Nat]
    BY <1>1, <1>2
  <2> QED
    BY <1>4, <1>5, <2>1, <2>2, <2>3 DEF InputInv
<1>7. TaskInv'
  <2>1. streamTime' \in -1 .. now'
    BY <1>1, <1>2, <1>4 DEF TypeInv, TaskInv, taskVars
  <2>2. \A j \in 1 .. Len(repartition) : repartition[j].ts <= now'
    <3>1. \A j \in 1 .. Len(repartition) : repartition[j] \in RegroupedSet /\ repartition[j].ts <= now
      BY ElementOfSeq DEF TypeInv, TaskInv
    <3> QED
      BY <3>1, <1>2, <1>4 DEF RegroupedSet
  <2> QED
    BY <1>1, <2>1, <2>2 DEF TypeInv, TaskInv, taskVars, IsBuffer
<1>8. CommitInv'
  BY <1>1 DEF TypeInv, CommitInv, taskVars, IsBuffer
<1>9. crashTime' \in -1 .. now'
  BY <1>1, <1>2, <1>4 DEF TypeInv
<1> QED
  BY <1>1, <1>5, <1>6, <1>7, <1>8, <1>9 DEF TypeInv

LEMMA ForwardTypes ==
    ASSUME TypeInv, NEW p \in Partitions, Forward(p)
    PROVE  TypeInv'
<1>1. /\ readPos[p] + 1 \in 1 .. Len(raw[p]) /\ readPos' = [readPos EXCEPT ![p] = @ + 1]
      /\ repartition' \in Seq(RegroupedSet)
      /\ UNCHANGED <<now, raw, aggPos, streamTime, changelog, buffer, emitted, late>>
      /\ UNCHANGED <<committed, crashes, crashTime>>
  BY ForwardStep
<1>2. /\ readPos \in [Partitions -> Nat] /\ raw[p] \in Seq(RawSet) /\ Len(repartition) \in Nat
      /\ committed.readPos \in [Partitions -> Nat]
  BY DEF TypeInv, InputInv, TaskInv, CommitInv
<1>3. Len(repartition) <= Len(repartition') /\ \A j \in 1 .. Len(repartition') : repartition'[j].ts <= now
  <2>0. \A j \in 1 .. Len(repartition) : repartition[j].ts <= now
    BY DEF TypeInv, TaskInv
  <2>1. CASE repartition' = repartition
    BY <1>2, <2>0, <2>1
  <2>2. CASE /\ Len(repartition') = Len(repartition) + 1
             /\ \A i \in 1 .. Len(repartition) : repartition'[i] = repartition[i]
             /\ repartition'[Len(repartition) + 1] = Parsed(p)
             /\ Parsed(p).ts = raw[p][readPos[p] + 1].ts
    <3>1. Parsed(p).ts <= now
      BY <1>1, <2>2 DEF TypeInv, InputInv
    <3>2. \A j \in 1 .. Len(repartition') : j \in 1 .. Len(repartition) \/ j = Len(repartition) + 1
      BY <1>2, <2>2
    <3> QED
      BY <1>2, <2>0, <2>2, <3>1, <3>2
  <2> QED
    BY <2>1, <2>2, ForwardStep
<1>4. InputInv'
  <2>1. readPos' \in [Partitions -> Nat] /\ \A q \in Partitions : readPos'[q] <= Len(raw'[q])
    BY <1>1, <1>2 DEF TypeInv, InputInv
  <2> QED
    BY <1>1, <2>1 DEF TypeInv, InputInv
<1>5. TaskInv'
  BY <1>1, <1>2, <1>3 DEF TypeInv, TaskInv, IsBuffer
<1>6. CommitInv'
  <2>1. \A q \in Partitions : committed'.readPos[q] <= readPos'[q]
    BY <1>1, <1>2 DEF TypeInv, CommitInv
  <2>2. committed'.repartition \in 0 .. Len(repartition')
    BY <1>1, <1>2, <1>3 DEF TypeInv, CommitInv
  <2> QED
    BY <1>1, <2>1, <2>2 DEF TypeInv, CommitInv, IsBuffer
<1> QED
  BY <1>1, <1>4, <1>5, <1>6 DEF TypeInv

LEMMA AggregateTypes ==
    ASSUME TypeInv, Aggregate
    PROVE  TypeInv'
<1>1. /\ aggPos < Len(repartition) /\ aggPos' = aggPos + 1 /\ aggPos + 1 \in 1 .. Len(repartition)
      /\ streamTime' \in Int
      /\ streamTime <= streamTime' /\ NextRec.ts <= streamTime' /\ streamTime' <= now
      /\ UNCHANGED <<now, raw, readPos, repartition, committed, crashes, crashTime>>
      /\ OnTime \/ TooLate
  BY AggregateStep
<1>2. InputInv'
  BY <1>1 DEF TypeInv, InputInv
<1>3. /\ changelog' \in Seq(EntrySet) /\ emitted' \in Seq(EntrySet) /\ IsBuffer(buffer')
      /\ Len(changelog) <= Len(changelog') /\ Len(emitted) <= Len(emitted') /\ late' \subseteq 1 .. aggPos'
  <2>0. /\ changelog \in Seq(EntrySet) /\ emitted \in Seq(EntrySet) /\ IsBuffer(buffer)
        /\ late \subseteq 1 .. aggPos /\ aggPos \in Nat
    BY DEF TypeInv, TaskInv
  <2>1. CASE OnTime
    <3>1. emitted' \in Seq(EntrySet) /\ Len(emitted) <= Len(emitted') /\ IsBuffer(buffer')
      BY <2>1, OnTimeStep
    <3>2. NewEntry \in EntrySet
      BY <1>1, <2>1, NewEntryProperties
    <3>3. changelog' \in Seq(EntrySet) /\ Len(changelog) <= Len(changelog')
      BY <2>0, <2>1, <3>2, AppendProperties DEF OnTime
    <3>4. late' \subseteq 1 .. aggPos'
      BY <1>1, <2>0, <2>1 DEF OnTime
    <3> QED
      BY <3>1, <3>3, <3>4
  <2>2. CASE TooLate
    <3>1. late' \subseteq 1 .. aggPos' /\ changelog' = changelog /\ emitted' = emitted /\ buffer' = buffer
      BY <1>1, <2>0, <2>2 DEF TooLate
    <3> QED
      BY <2>0, <3>1
  <2> QED
    BY <1>1, <2>1, <2>2
<1>4. TaskInv'
  <2>1. streamTime \in -1 .. now /\ now \in Nat /\ aggPos \in 0 .. Len(repartition)
    BY AggregatorAssumptions DEF TypeInv, TaskInv, InputInv
  <2>2. streamTime' \in -1 .. now' /\ aggPos' \in 0 .. Len(repartition')
    BY <1>1, <2>1
  <2>3. repartition' \in Seq(RegroupedSet) /\ \A j \in 1 .. Len(repartition') : repartition'[j].ts <= now'
    BY <1>1 DEF TypeInv, TaskInv
  <2> QED
    BY <1>3, <2>2, <2>3 DEF TaskInv, IsBuffer
<1>5. CommitInv'
  <2>1. Len(changelog') \in Nat /\ Len(emitted') \in Nat /\ aggPos \in Nat
    BY <1>3 DEF TypeInv, TaskInv
  <2>2. /\ committed'.changelog \in 0 .. Len(changelog') /\ committed'.emitted \in 0 .. Len(emitted')
        /\ committed'.aggPos \in 0 .. aggPos'
    BY SMTT(30), <1>1, <1>3, <2>1 DEF TypeInv, CommitInv
  <2> QED
    BY <1>1, <2>2 DEF TypeInv, CommitInv, IsBuffer
<1> QED
  BY <1>1, <1>2, <1>4, <1>5 DEF TypeInv

LEMMA CommitTypes ==
    ASSUME TypeInv, Commit
    PROVE  TypeInv'
<1>1. committed' = Durable /\ UNCHANGED <<now, raw, readPos, taskVars, crashes, crashTime>>
  BY DEF Commit
<1>2. InputInv' /\ TaskInv'
  BY <1>1 DEF TypeInv, InputInv, TaskInv, taskVars, IsBuffer
<1>3. CommitInv'
  <2>1. /\ committed'.readPos = readPos /\ committed'.aggPos = aggPos /\ committed'.buffer = buffer
        /\ committed'.repartition = Len(repartition) /\ committed'.changelog = Len(changelog)
        /\ committed'.emitted = Len(emitted)
    BY <1>1, DurableFields
  <2>2. /\ Len(repartition) \in Nat /\ Len(changelog) \in Nat /\ Len(emitted) \in Nat /\ aggPos \in Nat
        /\ readPos \in [Partitions -> Nat] /\ IsBuffer(buffer)
    BY DEF TypeInv, TaskInv, InputInv
  <2> QED
    BY <1>1, <2>1, <2>2 DEF CommitInv, taskVars, IsBuffer
<1> QED
  BY <1>1, <1>2, <1>3 DEF TypeInv

LEMMA RestartTypes ==
    ASSUME TypeInv, RestartStep
    PROVE  TypeInv'
<1>1. /\ committed'.readPos = readPos' /\ committed'.aggPos = aggPos'
      /\ committed'.buffer = buffer' /\ committed'.repartition = Len(repartition')
      /\ committed'.changelog = Len(changelog') /\ committed'.emitted = Len(emitted')
  BY DurableFieldsNext DEF RestartStep
<1>2. InputInv'
  <2>1. readPos' = committed.readPos /\ UNCHANGED <<now, raw>>
    BY DEF RestartStep
  <2>2. \A p \in Partitions : committed.readPos[p] <= Len(raw[p])
    <3> TAKE p \in Partitions
    <3>1. /\ committed.readPos[p] \in Nat /\ readPos[p] \in Nat /\ Len(raw[p]) \in Nat
          /\ committed.readPos[p] <= readPos[p] /\ readPos[p] <= Len(raw[p])
      BY LenProperties DEF TypeInv, InputInv, CommitInv
    <3> QED
      BY <3>1
  <2> QED
    BY <2>1, <2>2 DEF TypeInv, InputInv, CommitInv
<1>3. IsBuffer(buffer')
  <2>1. IsBuffer(buffer) /\ IsBuffer(committed.buffer)
    BY DEF TypeInv, TaskInv, CommitInv
  <2>2. \A w : SameAt(w, buffer', buffer) \/ SameAt(w, buffer', committed.buffer)
    BY DEF RestartStep
  <2> QED
    BY <2>1, <2>2 DEF IsBuffer, SameAt
<1>4. TaskInv'
  <2>1. now \in Nat /\ aggPos \in 0 .. Len(repartition) /\ committed.aggPos \in 0 .. aggPos
    BY AggregatorAssumptions DEF TypeInv, TaskInv, InputInv, CommitInv
  <2>2. /\ aggPos' = committed.aggPos /\ aggPos <= Len(repartition') /\ repartition' \in Seq(RegroupedSet)
        /\ streamTime' = -1 /\ late' = late \cap 1 .. committed.aggPos /\ now' = now
        /\ changelog' \in Seq(EntrySet) /\ emitted' \in Seq(EntrySet)
    BY DEF RestartStep
  <2>3. aggPos' \in 0 .. Len(repartition') /\ streamTime' \in -1 .. now' /\ late' \subseteq 1 .. aggPos'
    BY <2>1, <2>2
  <2>4. \A j \in 1 .. Len(repartition') : repartition'[j].ts <= now'
    <3> TAKE j \in 1 .. Len(repartition')
    <3>1. j \in 1 .. Len(repartition) /\ repartition'[j] = repartition[j]
      BY DEF RestartStep, TypeInv, TaskInv, CommitInv
    <3> QED
      BY <2>2, <3>1 DEF TypeInv, TaskInv
  <2> QED
    BY <1>3, <2>2, <2>3, <2>4 DEF TaskInv, IsBuffer
<1>5. CommitInv'
  <2>1. /\ Len(repartition') \in Nat /\ Len(changelog') \in Nat /\ Len(emitted') \in Nat /\ aggPos' \in Nat
        /\ readPos' \in [Partitions -> Nat]
    BY <1>2, <1>4 DEF InputInv, TaskInv
  <2> QED
    BY <1>1, <1>3, <2>1 DEF CommitInv, IsBuffer
<1>6. crashTime' \in -1 .. now'
  BY DEF RestartStep, TypeInv, TaskInv, Horizon
<1> QED
  BY <1>2, <1>4, <1>5, <1>6 DEF TypeInv, RestartStep

LEMMA TypeStep == TypeInv /\ [Next]_vars => TypeInv'
<1> SUFFICES ASSUME TypeInv, [Next]_vars PROVE TypeInv'
  OBVIOUS
<1>1. CASE \E p \in Partitions, v \in Events \cup {Corrupt}, ts \in now .. MaxTime : Produce(p, v, ts)
  BY <1>1, ProduceTypes
<1>2. CASE \E p \in Partitions : Forward(p)
  BY <1>2, ForwardTypes
<1>3. CASE Aggregate
  BY <1>3, AggregateTypes
<1>4. CASE Commit
  BY <1>4, CommitTypes
<1>5. CASE Crash
  BY <1>5, CrashStep, RestartTypes
<1>7. CASE UNCHANGED vars
  BY <1>7 DEF vars, taskVars, TypeInv, InputInv, TaskInv, CommitInv, IsBuffer
<1> QED
  BY <1>1, <1>2, <1>3, <1>4, <1>5, <1>7 DEF Next

LEMMA TypesHold == Spec => []TypeInv
BY TypeInit, TypeStep, PTL DEF Spec

LEMMA TypesImply == TypeInv => TypeOK
<1> SUFFICES ASSUME TypeInv PROVE TypeOK
  OBVIOUS
<1>1. \A p \in Partitions : readPos[p] \in committed.readPos[p] .. Len(raw[p])
  BY LenProperties DEF TypeInv, InputInv, CommitInv
<1>2. \A w \in DOMAIN buffer : w % WindowSize = 0 /\ buffer[w].window = w
  BY DEF TypeInv, TaskInv, IsBuffer
<1>3. /\ now \in 0 .. MaxTime /\ streamTime \in -1 .. now
      /\ aggPos \in committed.aggPos .. Len(repartition) /\ late \subseteq 1 .. aggPos
      /\ Len(repartition) >= committed.repartition /\ Len(changelog) >= committed.changelog
      /\ Len(emitted) >= committed.emitted /\ crashTime \in -1 .. now
  BY DEF TypeInv, InputInv, TaskInv, CommitInv
<1> QED
  BY <1>1, <1>2, <1>3 DEF TypeOK

(* Positions stay within the topics, committed offsets behind them, and    *)
(* suppress() holds entries under the starts of their windows.             *)
THEOREM AggregatorTypes == Spec => []TypeOK
BY TypesHold, TypesImply, PTL

-----------------------------------------------------------------------------
(* Without crashes stream time never goes back: what suppress() holds ends *)
(* after it, and what has been passed on ended before.                     *)

OrderInv ==
    crashes = 0 =>
        /\ \A w \in DOMAIN buffer : streamTime < w + WindowSize
        /\ \A i \in 1 .. Len(emitted) : emitted[i].window + WindowSize <= streamTime
        /\ \A i, j \in 1 .. Len(emitted) : i < j => emitted[i].window < emitted[j].window

(* A record that is too late leaves stream time alone. *)
LEMMA LateKeepsTime ==
    ASSUME TypeInv, Aggregate, TooLate
    PROVE  streamTime' = streamTime /\ WindowOf(NextRec.ts) + WindowSize <= streamTime
<1>1. /\ NextRec.ts \in 0 .. MaxTime /\ WindowOf(NextRec.ts) \in 0 .. MaxTime
      /\ NextRec.ts < WindowOf(NextRec.ts) + WindowSize
  BY AggregateStep, NextRecType
<1>2. WindowOf(NextRec.ts) + WindowSize <= streamTime' /\ streamTime' = Advanced(NextRec.ts)
  BY AggregateStep DEF TooLate, IsLate, Closed
<1>3. streamTime \in Int /\ WindowSize \in Nat /\ MaxTime \in Nat
  BY AggregatorAssumptions DEF TypeInv, TaskInv
<1> QED
  BY <1>1, <1>2, <1>3 DEF Advanced

LEMMA OrderStep == TypeInv /\ OrderInv /\ [Next]_vars => OrderInv'
<1> SUFFICES ASSUME TypeInv, OrderInv, [Next]_vars, crashes' = 0
             PROVE  /\ \A w \in DOMAIN buffer' : streamTime' < w + WindowSize
                    /\ \A i \in 1 .. Len(emitted') : emitted'[i].window + WindowSize <= streamTime'
                    /\ \A i, j \in 1 .. Len(emitted') : i < j => emitted'[i].window < emitted'[j].window
  BY DEF OrderInv
<1>0. crashes \in Nat
  BY DEF TypeInv
<1>1. CASE UNCHANGED <<streamTime, buffer, emitted, crashes>>
  BY <1>1 DEF OrderInv
<1>2. CASE Aggregate
  <2>0. /\ streamTime \in Int /\ streamTime' \in Int /\ streamTime <= streamTime' /\ crashes = 0
        /\ NextRec.ts <= streamTime' /\ aggPos < Len(repartition)
        /\ WindowSize \in Nat /\ MaxTime \in Nat
    BY <1>2, AggregateStep, AggregatorAssumptions DEF TypeInv, TaskInv
  <2>i. /\ \A w \in DOMAIN buffer : streamTime < w + WindowSize
        /\ \A i \in 1 .. Len(emitted) : emitted[i].window + WindowSize <= streamTime
        /\ \A i, j \in 1 .. Len(emitted) : i < j => emitted[i].window < emitted[j].window
    BY <2>0 DEF OrderInv
  <2>t. /\ \A w \in DOMAIN buffer : w \in Int
        /\ \A i \in 1 .. Len(emitted) : emitted[i].window \in Int
    <3>1. \A i \in 1 .. Len(emitted) : emitted[i] \in EntrySet
      BY ElementOfSeq DEF TypeInv, TaskInv
    <3> QED
      BY <3>1 DEF TypeInv, TaskInv, IsBuffer, EntrySet
  <2>1. CASE OnTime
    <3> DEFINE e == NewEntry
               W == Waiting(NewEntry)
    <3>1. /\ emitted' \in Seq(EntrySet) /\ Len(emitted) <= Len(emitted')
          /\ \A i \in 1 .. Len(emitted) : emitted'[i] = emitted[i]
          /\ \A i \in Len(emitted) + 1 .. Len(emitted') :
                \E c \in DOMAIN W : Closed(c, streamTime') /\ emitted'[i] = W[c]
          /\ \A i, j \in Len(emitted) + 1 .. Len(emitted') :
                i < j => emitted'[i].window < emitted'[j].window
          /\ DOMAIN buffer' = {c \in DOMAIN W : ~Closed(c, streamTime')}
          /\ IsBuffer(W)
      BY <1>2, <2>1, OnTimeStep
    <3>2. DOMAIN W = DOMAIN buffer \cup {e.window}
      BY WaitingProperties
    <3>3. e.window = WindowOf(NextRec.ts) /\ ~Closed(e.window, streamTime') /\ e.window \in Int
      <4>1. e.window = WindowOf(NextRec.ts) /\ WindowOf(NextRec.ts) \in 0 .. MaxTime
        BY <2>0, <2>1, NewEntryProperties, NextRecType
      <4> QED
        BY <2>0, <2>1, <4>1 DEF OnTime, IsLate
    <3> HIDE DEF e, W
    <3>4. \A c \in DOMAIN W : c \in Int /\ W[c].window = c
      BY <3>1 DEF IsBuffer
    <3>5. \A w \in DOMAIN buffer' : streamTime' < w + WindowSize
      BY <2>0, <3>1, <3>4 DEF Closed
    <3>6. \A i \in Len(emitted) + 1 .. Len(emitted') :
             /\ emitted'[i].window \in Int /\ emitted'[i].window + WindowSize <= streamTime'
             /\ streamTime < emitted'[i].window + WindowSize
      <4> TAKE i \in Len(emitted) + 1 .. Len(emitted')
      <4>1. PICK c \in DOMAIN W : Closed(c, streamTime') /\ emitted'[i] = W[c]
        BY <3>1
      <4>2. c \in DOMAIN buffer
        BY <3>2, <3>3, <4>1
      <4> QED
        BY <2>i, <3>4, <4>1, <4>2 DEF Closed
    <3>7. Len(emitted) \in Nat /\ Len(emitted') \in Nat
      BY <3>1 DEF TypeInv, TaskInv
    <3>8. \A i \in 1 .. Len(emitted') : i \in 1 .. Len(emitted) \/ i \in Len(emitted) + 1 .. Len(emitted')
      BY <3>7
    <3>9. \A i \in 1 .. Len(emitted') : emitted'[i].window + WindowSize <= streamTime'
      <4> TAKE i \in 1 .. Len(emitted')
      <4>1. CASE i \in 1 .. Len(emitted)
        <5>1. emitted'[i].window = emitted[i].window
          BY <3>1, <4>1
        <5> QED
          BY <2>0, <2>i, <2>t, <4>1, <5>1
      <4> QED
        BY <3>6, <3>8, <4>1
    <3>10. \A i, j \in 1 .. Len(emitted') : i < j => emitted'[i].window < emitted'[j].window
      <4> SUFFICES ASSUME NEW i \in 1 .. Len(emitted'), NEW j \in 1 .. Len(emitted'), i < j
                   PROVE  emitted'[i].window < emitted'[j].window
        OBVIOUS
      <4>1. CASE j \in 1 .. Len(emitted)
        <5>1. i \in 1 .. Len(emitted)
          BY <3>7, <4>1
        <5> QED
          BY <2>i, <3>1, <4>1, <5>1
      <4>2. CASE i \in 1 .. Len(emitted) /\ j \in Len(emitted) + 1 .. Len(emitted')
        <5>1. emitted'[i].window = emitted[i].window /\ emitted[i].window + WindowSize <= streamTime
          BY <2>i, <3>1, <4>2
        <5>2. streamTime < emitted'[j].window + WindowSize /\ emitted'[j].window \in Int
          BY <3>6, <4>2
        <5> QED
          BY <2>0, <2>t, <4>2, <5>1, <5>2, SMTT(30)
      <4>3. CASE i \in Len(emitted) + 1 .. Len(emitted') /\ j \in Len(emitted) + 1 .. Len(emitted')
        BY <3>1, <4>3
      <4>4. j \in 1 .. Len(emitted) \/ (i \in 1 .. Len(emitted) /\ j \in Len(emitted) + 1 .. Len(emitted'))
            \/ (i \in Len(emitted) + 1 .. Len(emitted') /\ j \in Len(emitted) + 1 .. Len(emitted'))
        BY <3>7
      <4> QED
        BY <4>1, <4>2, <4>3, <4>4
    <3> QED
      BY <3>5, <3>9, <3>10
  <2>2. CASE TooLate
    <3>1. streamTime' = streamTime /\ emitted' = emitted /\ buffer' = buffer
      BY <1>2, <2>2, LateKeepsTime DEF TooLate
    <3> QED
      BY <2>i, <3>1
  <2> QED
    BY <1>2, <2>1, <2>2, AggregateStep
<1>3. ASSUME Crash PROVE FALSE
  <2>1. crashes' = crashes + 1
    BY <1>3 DEF Crash, Restart
  <2> QED
    BY <1>0, <2>1
<1>4. ASSUME NEW p \in Partitions, Forward(p) PROVE UNCHANGED <<streamTime, buffer, emitted, crashes>>
  BY <1>4 DEF Forward
<1>5. ASSUME NEW p \in Partitions, NEW v, NEW ts, Produce(p, v, ts)
      PROVE  UNCHANGED <<streamTime, buffer, emitted, crashes>>
  BY <1>5 DEF Produce, taskVars
<1>6. ASSUME Commit \/ UNCHANGED vars PROVE UNCHANGED <<streamTime, buffer, emitted, crashes>>
  BY <1>6 DEF Commit, vars, taskVars
<1> QED
  BY <1>1, <1>2, <1>3, <1>4, <1>5, <1>6 DEF Next

(* Without crashes windows leave in the order of time and none of them twice. *)
THEOREM WindowsLeaveInOrder == Spec => []EmittedInOrder
<1>1. Init => OrderInv
  BY DEF Init, OrderInv
<1>2. TypeInv /\ OrderInv => EmittedInOrder
  <2> SUFFICES ASSUME TypeInv, OrderInv PROVE EmittedInOrder
    OBVIOUS
  <2>1. DOMAIN emitted = 1 .. Len(emitted)
    BY LenProperties DEF TypeInv, TaskInv
  <2> QED
    BY <2>1 DEF OrderInv, EmittedInOrder
<1> QED
  BY <1>1, <1>2, OrderStep, TypesHold, PTL DEF Spec

-----------------------------------------------------------------------------
(* Where the records of the repartition topic come from.                   *)

\* Timestamps ascend in every partition, and a regrouped record is the parsed
\* form of the record it names.
SourceInv ==
    /\ \A p \in Partitions : \A i, j \in 1 .. Len(raw[p]) : i < j => raw[p][i].ts <= raw[p][j].ts
    /\ \A j \in 1 .. Len(repartition) :
          LET id == repartition[j].id
          IN  /\ id[2] \in 1 .. Len(raw[id[1]])
              /\ raw[id[1]][id[2]].value # Corrupt
              /\ repartition[j].ts = raw[id[1]][id[2]].ts
              /\ repartition[j].flow = FlowOf(id)

\* Without crashes every partition is regrouped once and in its order.
MergeInv ==
    crashes = 0 =>
        /\ \A j \in 1 .. Len(repartition) : repartition[j].id[2] <= readPos[repartition[j].id[1]]
        /\ \A i, j \in 1 .. Len(repartition) :
              i < j /\ repartition[i].id[1] = repartition[j].id[1]
                 => repartition[i].id[2] < repartition[j].id[2]

\* Without crashes stream time is the largest timestamp processed.
TimeInv ==
    crashes = 0 =>
        /\ \A j \in 1 .. aggPos : repartition[j].ts <= streamTime
        /\ streamTime = -1 \/ \E j \in 1 .. aggPos : repartition[j].ts = streamTime

LEMMA IdType ==
    ASSUME TypeInv, NEW j \in 1 .. Len(repartition)
    PROVE  /\ repartition[j] \in RegroupedSet /\ repartition[j].ts \in 0 .. MaxTime
           /\ repartition[j].id \in Ids /\ repartition[j].id[1] \in Partitions
           /\ repartition[j].id[2] \in Nat
           /\ repartition[j].id = <<repartition[j].id[1], repartition[j].id[2]>>
<1>1. repartition[j] \in RegroupedSet
  BY ElementOfSeq DEF TypeInv, TaskInv
<1> QED
  BY <1>1 DEF RegroupedSet, Ids

LEMMA SourceStep == TypeInv /\ SourceInv /\ [Next]_vars => SourceInv'
<1> SUFFICES ASSUME TypeInv, SourceInv, [Next]_vars PROVE SourceInv'
  OBVIOUS
<1>0. TypeInv'
  BY TypeStep
<1>1. ASSUME NEW p \in Partitions, NEW v \in Events \cup {Corrupt}, NEW ts \in now .. MaxTime,
             Produce(p, v, ts)
      PROVE  SourceInv'
  <2>1. \A q \in Partitions : /\ Len(raw[q]) <= Len(raw'[q])
                              /\ \A i \in 1 .. Len(raw[q]) : raw'[q][i] = raw[q][i]
    BY <1>1, ProduceTypes
  <2>2. repartition' = repartition
    BY <1>1 DEF Produce, taskVars
  <2>3. \A q \in Partitions : raw[q] \in Seq(RawSet) /\ raw'[q] \in Seq(RawSet)
                              /\ Len(raw[q]) \in Nat /\ Len(raw'[q]) \in Nat
    BY <1>0, LenProperties DEF TypeInv, InputInv
  <2>4. ASSUME NEW q \in Partitions, NEW i \in 1 .. Len(raw'[q]), NEW j \in 1 .. Len(raw'[q]), i < j
        PROVE  raw'[q][i].ts <= raw'[q][j].ts
    <3>1. CASE q # p
      <4>1. raw'[q] = raw[q]
        BY <1>1, <3>1 DEF Produce, TypeInv, InputInv
      <4> QED
        BY <2>4, <4>1 DEF SourceInv
    <3>2. CASE q = p
      <4>1. raw'[q] = Append(raw[q], [ts |-> ts, value |-> v])
        BY <1>1, <3>2 DEF Produce, TypeInv, InputInv
      <4>2. Len(raw'[q]) = Len(raw[q]) + 1 /\ raw'[q][Len(raw[q]) + 1].ts = ts
        BY <2>3, <4>1
      <4>3. i \in 1 .. Len(raw[q])
        BY <2>3, <2>4, <4>2
      <4>4. raw'[q][i].ts = raw[q][i].ts /\ raw[q][i].ts \in Int /\ raw[q][i].ts <= now
        <5>1. raw[q][i] \in RawSet
          BY <2>3, <4>3, ElementOfSeq
        <5> QED
          BY <2>1, <4>3, <5>1 DEF TypeInv, InputInv, RawSet
      <4>5. CASE j \in 1 .. Len(raw[q])
        BY <2>1, <2>4, <4>3, <4>5 DEF SourceInv
      <4>6. CASE j = Len(raw[q]) + 1
        BY <4>2, <4>4, <4>6 DEF TypeInv, InputInv
      <4> QED
        BY <2>3, <4>2, <4>5, <4>6
    <3> QED
      BY <3>1, <3>2
  <2>5. ASSUME NEW j \in 1 .. Len(repartition')
        PROVE  LET id == repartition'[j].id
               IN  /\ id[2] \in 1 .. Len(raw'[id[1]])
                   /\ raw'[id[1]][id[2]].value # Corrupt
                   /\ repartition'[j].ts = raw'[id[1]][id[2]].ts
                   /\ repartition'[j].flow = ReadJson(raw'[id[1]][id[2]].value)
    <3>1. PICK q, k : q = repartition[j].id[1] /\ k = repartition[j].id[2] /\ q \in Partitions
      BY <2>2, IdType
    <3>2. /\ k \in 1 .. Len(raw[q]) /\ raw[q][k].value # Corrupt /\ repartition[j].ts = raw[q][k].ts
          /\ repartition[j].flow = ReadJson(raw[q][k].value)
      BY <2>2, <3>1 DEF SourceInv, FlowOf
    <3>3. raw'[q][k] = raw[q][k] /\ k \in 1 .. Len(raw'[q])
      <4>1. Len(raw[q]) \in Nat /\ Len(raw'[q]) \in Nat /\ Len(raw[q]) <= Len(raw'[q])
        BY <2>1, <2>3, <3>1
      <4>2. raw'[q][k] = raw[q][k]
        BY <2>1, <3>1, <3>2
      <4>3. k \in Int /\ 1 <= k /\ k <= Len(raw[q])
        BY <3>2
      <4> QED
        BY <4>1, <4>2, <4>3
    <3> QED
      BY <2>2, <3>1, <3>2, <3>3
  <2> QED
    BY <2>4, <2>5 DEF SourceInv, FlowOf
<1>2. ASSUME NEW p \in Partitions, Forward(p) PROVE SourceInv'
  <2>1. readPos[p] + 1 \in 1 .. Len(raw[p]) /\ raw' = raw
    BY <1>2, ForwardStep
  <2>2. CASE repartition' = repartition
    BY <2>1, <2>2 DEF SourceInv, FlowOf
  <2>3. CASE /\ Len(repartition') = Len(repartition) + 1
             /\ \A i \in 1 .. Len(repartition) : repartition'[i] = repartition[i]
             /\ repartition'[Len(repartition) + 1] = Parsed(p)
             /\ Parsed(p).id = <<p, readPos[p] + 1>>
             /\ Parsed(p).ts = raw[p][readPos[p] + 1].ts
             /\ Parsed(p).flow = ReadJson(raw[p][readPos[p] + 1].value)
             /\ raw[p][readPos[p] + 1].value # Corrupt
    <3>1. Len(repartition) \in Nat
      BY DEF TypeInv, TaskInv
    <3>2. ASSUME NEW j \in 1 .. Len(repartition')
          PROVE  LET id == repartition'[j].id
                 IN  /\ id[2] \in 1 .. Len(raw[id[1]])
                     /\ raw[id[1]][id[2]].value # Corrupt
                     /\ repartition'[j].ts = raw[id[1]][id[2]].ts
                     /\ repartition'[j].flow = ReadJson(raw[id[1]][id[2]].value)
      <4>1. CASE j \in 1 .. Len(repartition)
        BY <2>3, <4>1 DEF SourceInv, FlowOf
      <4>2. CASE j = Len(repartition) + 1
        <5>1. repartition'[j] = Parsed(p)
          BY <2>3, <4>2
        <5>2. Parsed(p).id[1] = p /\ Parsed(p).id[2] = readPos[p] + 1
          BY <2>3
        <5> QED
          BY <2>1, <2>3, <5>1, <5>2
      <4>3. j \in 1 .. Len(repartition) \/ j = Len(repartition) + 1
        BY <2>3, <3>1
      <4> QED
        BY <4>1, <4>2, <4>3, Zenon
    <3> QED
      BY <2>1, <3>2 DEF SourceInv, FlowOf
  <2> QED
    BY <1>2, <2>2, <2>3, ForwardStep
<1>3. CASE UNCHANGED <<raw, repartition>>
  BY <1>3 DEF SourceInv, FlowOf
<1>4. ASSUME RestartStep PROVE SourceInv'
  <2>1. raw' = raw /\ \A i \in 1 .. Len(repartition') : repartition'[i] = repartition[i]
    BY <1>4 DEF RestartStep
  <2>2. 1 .. Len(repartition') \subseteq 1 .. Len(repartition)
    BY <1>4 DEF RestartStep, TypeInv, TaskInv, CommitInv
  <2> QED
    BY <2>1, <2>2 DEF SourceInv, FlowOf
<1>5. ASSUME Aggregate \/ Commit \/ UNCHANGED vars PROVE UNCHANGED <<raw, repartition>>
  BY <1>5 DEF Aggregate, Commit, vars, taskVars
<1> QED
  BY <1>1, <1>2, <1>3, <1>4, <1>5, CrashStep DEF Next

LEMMA MergeStep == TypeInv /\ SourceInv /\ MergeInv /\ [Next]_vars => MergeInv'
<1> SUFFICES ASSUME TypeInv, SourceInv, MergeInv, [Next]_vars, crashes' = 0
             PROVE  /\ \A j \in 1 .. Len(repartition') :
                          repartition'[j].id[2] <= readPos'[repartition'[j].id[1]]
                    /\ \A i, j \in 1 .. Len(repartition') :
                          i < j /\ repartition'[i].id[1] = repartition'[j].id[1]
                             => repartition'[i].id[2] < repartition'[j].id[2]
  BY DEF MergeInv
<1>0. crashes \in Nat
  BY DEF TypeInv
<1>1. CASE UNCHANGED <<repartition, readPos, crashes>>
  BY <1>1 DEF MergeInv
<1>2. ASSUME NEW p \in Partitions, Forward(p)
      PROVE  /\ \A j \in 1 .. Len(repartition') :
                   repartition'[j].id[2] <= readPos'[repartition'[j].id[1]]
             /\ \A i, j \in 1 .. Len(repartition') :
                   i < j /\ repartition'[i].id[1] = repartition'[j].id[1]
                      => repartition'[i].id[2] < repartition'[j].id[2]
  <2>1. /\ readPos' = [readPos EXCEPT ![p] = @ + 1] /\ crashes = 0 /\ Len(repartition) \in Nat
        /\ readPos \in [Partitions -> Nat]
    BY <1>2, ForwardStep DEF TypeInv, TaskInv, InputInv
  <2>2. \A q \in Partitions : readPos'[q] \in Nat /\ readPos[q] \in Nat /\ readPos[q] <= readPos'[q]
    BY <2>1
  <2>3. \A j \in 1 .. Len(repartition) :
           /\ repartition[j].id[1] \in Partitions /\ repartition[j].id[2] \in Nat
           /\ repartition[j].id[2] <= readPos[repartition[j].id[1]]
           /\ repartition[j].id[2] <= readPos'[repartition[j].id[1]]
    <3> TAKE j \in 1 .. Len(repartition)
    <3>1. repartition[j].id[1] \in Partitions /\ repartition[j].id[2] \in Nat
      BY IdType
    <3>2. repartition[j].id[2] <= readPos[repartition[j].id[1]]
      BY <2>1 DEF MergeInv
    <3> QED
      BY <2>2, <3>1, <3>2
  <2>4. CASE repartition' = repartition
    BY <2>1, <2>3, <2>4 DEF MergeInv
  <2>5. CASE /\ Len(repartition') = Len(repartition) + 1
             /\ \A i \in 1 .. Len(repartition) : repartition'[i] = repartition[i]
             /\ repartition'[Len(repartition) + 1] = Parsed(p)
             /\ Parsed(p).id = <<p, readPos[p] + 1>>
    <3>1. \A j \in 1 .. Len(repartition') : j \in 1 .. Len(repartition) \/ j = Len(repartition) + 1
      BY <2>1, <2>5
    <3>2. /\ repartition'[Len(repartition) + 1].id[1] = p
          /\ repartition'[Len(repartition) + 1].id[2] = readPos[p] + 1
          /\ readPos'[p] = readPos[p] + 1 /\ readPos[p] \in Nat
      BY <2>1, <2>5
    <3>3. \A j \in 1 .. Len(repartition') : repartition'[j].id[2] <= readPos'[repartition'[j].id[1]]
      <4> TAKE j \in 1 .. Len(repartition')
      <4>1. CASE j \in 1 .. Len(repartition)
        BY <2>3, <2>5, <4>1
      <4>2. CASE j = Len(repartition) + 1
        BY <3>2, <4>2
      <4> QED
        BY <3>1, <4>1, <4>2
    <3>4. ASSUME NEW i \in 1 .. Len(repartition'), NEW j \in 1 .. Len(repartition'),
                 i < j, repartition'[i].id[1] = repartition'[j].id[1]
          PROVE  repartition'[i].id[2] < repartition'[j].id[2]
      <4>1. i \in 1 .. Len(repartition)
        BY <2>1, <2>5, <3>4
      <4>2. CASE j \in 1 .. Len(repartition)
        BY <2>1, <2>5, <3>4, <4>1, <4>2 DEF MergeInv
      <4>3. CASE j = Len(repartition) + 1
        <5>1. repartition'[i] = repartition[i] /\ repartition[i].id[1] = p
          BY <2>5, <3>2, <3>4, <4>1, <4>3
        <5>2. repartition[i].id[2] <= readPos[p] /\ repartition[i].id[2] \in Nat
          BY <2>3, <4>1, <5>1
        <5> QED
          BY <3>2, <4>3, <5>1, <5>2
      <4> QED
        BY <3>1, <4>2, <4>3
    <3> QED
      BY <3>3, <3>4
  <2> QED
    BY <1>2, <2>4, <2>5, ForwardStep
<1>3. ASSUME Crash PROVE FALSE
  <2>1. crashes' = crashes + 1
    BY <1>3 DEF Crash, Restart
  <2> QED
    BY <1>0, <2>1
<1>4. ASSUME NEW p, NEW v, NEW ts, Produce(p, v, ts) PROVE UNCHANGED <<repartition, readPos, crashes>>
  BY <1>4 DEF Produce, taskVars
<1>5. ASSUME Aggregate \/ Commit \/ UNCHANGED vars PROVE UNCHANGED <<repartition, readPos, crashes>>
  BY <1>5 DEF Aggregate, Commit, vars, taskVars
<1> QED
  BY <1>1, <1>2, <1>3, <1>4, <1>5 DEF Next

LEMMA TimeStep == TypeInv /\ TimeInv /\ [Next]_vars => TimeInv'
<1> SUFFICES ASSUME TypeInv, TimeInv, [Next]_vars, crashes' = 0
             PROVE  /\ \A j \in 1 .. aggPos' : repartition'[j].ts <= streamTime'
                    /\ streamTime' = -1 \/ \E j \in 1 .. aggPos' : repartition'[j].ts = streamTime'
  BY DEF TimeInv
<1>0. crashes \in Nat /\ aggPos \in 0 .. Len(repartition) /\ Len(repartition) \in Nat /\ streamTime \in Int
  BY DEF TypeInv, TaskInv
<1>1. CASE UNCHANGED <<repartition, aggPos, streamTime, crashes>>
  BY <1>1 DEF TimeInv
<1>2. ASSUME NEW p \in Partitions, Forward(p)
      PROVE  /\ \A j \in 1 .. aggPos' : repartition'[j].ts <= streamTime'
             /\ streamTime' = -1 \/ \E j \in 1 .. aggPos' : repartition'[j].ts = streamTime'
  <2>1. /\ aggPos' = aggPos /\ streamTime' = streamTime /\ crashes = 0
        /\ \A j \in 1 .. Len(repartition) : repartition'[j] = repartition[j]
    BY <1>2, ForwardStep
  <2>2. \A j \in 1 .. aggPos : repartition'[j] = repartition[j]
    BY <1>0, <2>1
  <2> QED
    BY <2>1, <2>2 DEF TimeInv
<1>3. CASE Aggregate
  <2>1. /\ aggPos' = aggPos + 1 /\ streamTime' = Advanced(NextRec.ts) /\ streamTime <= streamTime'
        /\ NextRec.ts <= streamTime' /\ repartition' = repartition /\ crashes = 0 /\ streamTime' \in Int
        /\ aggPos + 1 \in 1 .. Len(repartition)
    BY <1>3, AggregateStep
  <2>2. ASSUME NEW j \in 1 .. aggPos' PROVE repartition'[j].ts <= streamTime'
    <3>1. CASE j \in 1 .. aggPos
      <4>1. repartition[j].ts <= streamTime
        BY <2>1, <3>1 DEF TimeInv
      <4>2. repartition[j].ts \in 0 .. MaxTime
        BY <1>0, <3>1, IdType
      <4> QED
        BY <1>0, <2>1, <4>1, <4>2
    <3>2. CASE j = aggPos + 1
      BY <2>1, <3>2 DEF NextRec
    <3> QED
      BY <1>0, <2>1, <3>1, <3>2
  <2>3. CASE streamTime < NextRec.ts
    <3>1. streamTime' = repartition'[aggPos + 1].ts /\ aggPos + 1 \in 1 .. aggPos'
      BY <1>0, <2>1, <2>3 DEF Advanced, NextRec
    <3> QED
      BY <2>2, <3>1
  <2>4. CASE ~(streamTime < NextRec.ts)
    <3>1. streamTime' = streamTime /\ 1 .. aggPos \subseteq 1 .. aggPos'
      BY <1>0, <2>1, <2>4 DEF Advanced
    <3>2. streamTime = -1 \/ \E j \in 1 .. aggPos : repartition[j].ts = streamTime
      BY <2>1 DEF TimeInv
    <3> QED
      BY <2>1, <2>2, <3>1, <3>2
  <2> QED
    BY <2>3, <2>4
<1>4. ASSUME Crash PROVE FALSE
  <2>1. crashes' = crashes + 1
    BY <1>4 DEF Crash, Restart
  <2> QED
    BY <1>0, <2>1
<1>5. ASSUME NEW p, NEW v, NEW ts, Produce(p, v, ts)
      PROVE  UNCHANGED <<repartition, aggPos, streamTime, crashes>>
  BY <1>5 DEF Produce, taskVars
<1>6. ASSUME Commit \/ UNCHANGED vars PROVE UNCHANGED <<repartition, aggPos, streamTime, crashes>>
  BY <1>6 DEF Commit, vars, taskVars
<1> QED
  BY <1>1, <1>2, <1>3, <1>4, <1>5, <1>6 DEF Next

LEMMA OriginsHold == Spec => [](TypeInv /\ SourceInv /\ MergeInv /\ TimeInv)
<1>1. Init => SourceInv /\ MergeInv /\ TimeInv
  <2> SUFFICES ASSUME Init PROVE SourceInv /\ MergeInv /\ TimeInv
    OBVIOUS
  <2>1. /\ raw = [p \in Partitions |-> <<>>] /\ repartition = <<>> /\ aggPos = 0 /\ streamTime = -1
    BY DEF Init
  <2>2. \A p \in Partitions : Len(raw[p]) = 0
    BY <2>1
  <2> QED
    BY <2>1, <2>2 DEF SourceInv, MergeInv, TimeInv
<1> QED
  BY <1>1, SourceStep, MergeStep, TimeStep, TypesHold, PTL DEF Spec

LEMMA DropStep ==
    TypeInv /\ SourceInv /\ MergeInv /\ TimeInv /\ DropsOnlyAcrossPartitions /\ [Next]_vars
        => DropsOnlyAcrossPartitions'
<1> SUFFICES ASSUME TypeInv, SourceInv, MergeInv, TimeInv, DropsOnlyAcrossPartitions, [Next]_vars, crashes' = 0,
                    NEW i \in late'
             PROVE  \E j \in 1 .. i - 1 :
                       /\ repartition'[j].id[1] # repartition'[i].id[1]
                       /\ repartition'[j].ts >= WindowOf(repartition'[i].ts) + WindowSize
  BY DEF DropsOnlyAcrossPartitions, WindowOf
<1>0. /\ crashes \in Nat /\ aggPos \in 0 .. Len(repartition) /\ Len(repartition) \in Nat
      /\ late \subseteq 1 .. aggPos
  BY DEF TypeInv, TaskInv
<1>1. ASSUME i \in late, crashes = 0, \A j \in 1 .. Len(repartition) : repartition'[j] = repartition[j]
      PROVE  \E j \in 1 .. i - 1 : /\ repartition'[j].id[1] # repartition'[i].id[1]
                                   /\ repartition'[j].ts >= WindowOf(repartition'[i].ts) + WindowSize
  <2>1. PICK j \in 1 .. i - 1 : /\ repartition[j].id[1] # repartition[i].id[1]
                                /\ repartition[j].ts >= WindowOf(repartition[i].ts) + WindowSize
    BY <1>1 DEF DropsOnlyAcrossPartitions
  <2>2. i \in 1 .. Len(repartition) /\ j \in 1 .. Len(repartition)
    BY <1>0, <1>1, <2>1
  <2> QED
    BY <1>1, <2>1, <2>2
<1>2. ASSUME NEW p \in Partitions, Forward(p)
      PROVE  i \in late /\ crashes = 0 /\ \A j \in 1 .. Len(repartition) : repartition'[j] = repartition[j]
  BY <1>2, ForwardStep
<1>3. ASSUME Aggregate, i \notin late
      PROVE  \E j \in 1 .. i - 1 : /\ repartition'[j].id[1] # repartition'[i].id[1]
                                   /\ repartition'[j].ts >= WindowOf(repartition'[i].ts) + WindowSize
  <2>1. TooLate /\ repartition' = repartition /\ crashes = 0 /\ aggPos + 1 \in 1 .. Len(repartition)
    BY <1>3, AggregateStep DEF OnTime
  <2>2. i = aggPos + 1 /\ i - 1 = aggPos
    BY <1>0, <1>3, <2>1 DEF TooLate
  <2>3. streamTime' = streamTime /\ WindowOf(NextRec.ts) + WindowSize <= streamTime
    BY <1>3, <2>1, LateKeepsTime
  <2>4. /\ NextRec.ts \in 0 .. MaxTime /\ NextRec.ts < WindowOf(NextRec.ts) + WindowSize
        /\ WindowOf(NextRec.ts) \in 0 .. MaxTime /\ MaxTime \in Nat /\ WindowSize \in Nat
        /\ streamTime \in Int
    BY <1>3, AggregateStep, NextRecType, AggregatorAssumptions DEF TypeInv, TaskInv
  <2>5. PICK j \in 1 .. aggPos : repartition[j].ts = streamTime
    <3>1. streamTime # -1
      BY <2>3, <2>4
    <3> QED
      BY <2>1, <3>1 DEF TimeInv
  <2>6. NextRec = repartition[i] /\ j \in 1 .. Len(repartition) /\ i \in 1 .. Len(repartition) /\ j < i
    BY <1>0, <2>1, <2>2, <2>5 DEF NextRec
  <2>7. repartition[j].id[1] # repartition[i].id[1]
    <3> SUFFICES ASSUME repartition[j].id[1] = repartition[i].id[1] PROVE FALSE
      OBVIOUS
    <3>1. PICK p, k, l : p = repartition[i].id[1] /\ k = repartition[j].id[2] /\ l = repartition[i].id[2]
      OBVIOUS
    <3>2. p \in Partitions
      BY <2>6, <3>1, IdType
    <3>3. k < l
      BY <2>1, <2>6, <3>1 DEF MergeInv
    <3>4. /\ k \in 1 .. Len(raw[p]) /\ l \in 1 .. Len(raw[p])
          /\ repartition[j].ts = raw[p][k].ts /\ repartition[i].ts = raw[p][l].ts
      BY <2>6, <3>1 DEF SourceInv
    <3>5. repartition[j].ts <= repartition[i].ts
      BY <3>2, <3>3, <3>4 DEF SourceInv
    <3> QED
      BY <2>3, <2>4, <2>5, <2>6, <3>5
  <2>8. repartition[j].ts >= WindowOf(repartition[i].ts) + WindowSize
    BY <2>3, <2>4, <2>5, <2>6
  <2> QED
    BY <2>1, <2>2, <2>7, <2>8
<1>4. ASSUME Crash PROVE FALSE
  <2>1. crashes' = crashes + 1
    BY <1>4 DEF Crash, Restart
  <2> QED
    BY <1>0, <2>1
<1>5. ASSUME NEW p, NEW v, NEW ts, Produce(p, v, ts) PROVE UNCHANGED <<repartition, late, crashes>>
  BY <1>5 DEF Produce, taskVars
<1>6. ASSUME Commit \/ UNCHANGED vars PROVE UNCHANGED <<repartition, late, crashes>>
  BY <1>6 DEF Commit, vars, taskVars
<1>7. ASSUME Aggregate PROVE UNCHANGED <<repartition, crashes>>
  BY <1>7, AggregateStep
<1> QED
  BY <1>1, <1>2, <1>3, <1>4, <1>5, <1>6, <1>7 DEF Next

(* Without crashes only another partition's progress makes a record late. *)
THEOREM LateOnlyAcrossPartitions == Spec => []DropsOnlyAcrossPartitions
<1>1. Init => DropsOnlyAcrossPartitions
  BY DEF Init, DropsOnlyAcrossPartitions
<1> QED
  BY <1>1, DropStep, OriginsHold, PTL DEF Spec

-----------------------------------------------------------------------------
(* The largest stream time so far bounds what the store holds and what has *)
(* been passed on.  A crash hands it over to crashTime.                    *)

HorizonInv ==
    /\ \A i \in 1 .. Len(changelog) : changelog[i].window <= Horizon
    /\ \A i \in 1 .. Len(emitted) : Closed(emitted[i].window, Horizon)
    /\ crashes = 0 => crashTime = -1

LEMMA HorizonType ==
    ASSUME TypeInv
    PROVE  /\ Horizon \in Int /\ streamTime \in Int /\ crashTime \in Int
           /\ streamTime <= Horizon /\ crashTime <= Horizon
           /\ Horizon = streamTime \/ Horizon = crashTime
           /\ WindowSize \in Nat /\ WindowSize > 0
           /\ Len(changelog) \in Nat /\ Len(emitted) \in Nat
           /\ \A i \in 1 .. Len(changelog) : changelog[i].window \in 0 .. MaxTime
           /\ \A i \in 1 .. Len(emitted) : emitted[i].window \in 0 .. MaxTime
<1>1. streamTime \in -1 .. now /\ crashTime \in -1 .. now
      /\ changelog \in Seq(EntrySet) /\ emitted \in Seq(EntrySet)
  BY DEF TypeInv, TaskInv
<1>2. /\ \A i \in 1 .. Len(changelog) : changelog[i] \in EntrySet
      /\ \A i \in 1 .. Len(emitted) : emitted[i] \in EntrySet
      /\ Len(changelog) \in Nat /\ Len(emitted) \in Nat
  BY <1>1, ElementOfSeq, LenProperties
<1>3. /\ \A i \in 1 .. Len(changelog) : changelog[i].window \in 0 .. MaxTime
      /\ \A i \in 1 .. Len(emitted) : emitted[i].window \in 0 .. MaxTime
  BY <1>2 DEF EntrySet
<1>4. streamTime \in Int /\ crashTime \in Int
  BY <1>1
<1>5. /\ Horizon \in Int /\ streamTime <= Horizon /\ crashTime <= Horizon
      /\ Horizon = streamTime \/ Horizon = crashTime
  BY <1>4 DEF Horizon
<1> QED
  BY <1>2, <1>3, <1>4, <1>5, AggregatorAssumptions

LEMMA HorizonStep == TypeInv /\ HorizonInv /\ [Next]_vars => HorizonInv'
<1> SUFFICES ASSUME TypeInv, HorizonInv, [Next]_vars PROVE HorizonInv'
  OBVIOUS
<1>0. /\ Horizon \in Int /\ streamTime \in Int /\ crashTime \in Int
      /\ streamTime <= Horizon /\ crashTime <= Horizon /\ WindowSize \in Nat /\ MaxTime \in Nat
      /\ Len(changelog) \in Nat /\ Len(emitted) \in Nat /\ crashes \in Nat
      /\ \A i \in 1 .. Len(changelog) : changelog[i].window \in 0 .. MaxTime
      /\ \A i \in 1 .. Len(emitted) : emitted[i].window \in 0 .. MaxTime
  BY HorizonType, AggregatorAssumptions DEF TypeInv
<1>1. CASE UNCHANGED <<streamTime, changelog, emitted, crashes, crashTime>>
  BY <1>1 DEF HorizonInv, Horizon
<1>2. CASE Aggregate
  <2>1. /\ aggPos < Len(repartition) /\ streamTime' \in Int /\ streamTime <= streamTime'
        /\ NextRec.ts <= streamTime' /\ UNCHANGED <<crashes, crashTime>>
    BY <1>2, AggregateStep
  <2>2. Horizon' \in Int /\ Horizon <= Horizon' /\ streamTime' <= Horizon'
    BY <1>0, <2>1 DEF Horizon
  <2>3. /\ \A i \in 1 .. Len(changelog) : changelog[i].window <= Horizon'
        /\ \A i \in 1 .. Len(emitted) : Closed(emitted[i].window, Horizon')
    <3>1. /\ \A i \in 1 .. Len(changelog) : changelog[i].window <= Horizon
          /\ \A i \in 1 .. Len(emitted) : emitted[i].window + WindowSize <= Horizon
      BY DEF HorizonInv, Closed
    <3>2. ASSUME NEW i \in 1 .. Len(changelog) PROVE changelog[i].window <= Horizon'
      BY <1>0, <2>2, <3>1
    <3>3. ASSUME NEW i \in 1 .. Len(emitted) PROVE emitted[i].window + WindowSize <= Horizon'
      BY <1>0, <2>2, <3>1
    <3> QED
      BY <3>2, <3>3 DEF Closed
  <2>4. CASE OnTime
    <3>1. PICK e : e = NewEntry
      OBVIOUS
    <3>2. e \in EntrySet /\ e.window = WindowOf(NextRec.ts)
      BY <2>1, <2>4, <3>1, NewEntryProperties
    <3>3. e.window \in 0 .. MaxTime /\ e.window <= Horizon'
      BY <1>0, <2>1, <2>2, <3>2, NextRecType
    <3>4. /\ Len(changelog') = Len(changelog) + 1 /\ changelog'[Len(changelog) + 1] = e
          /\ \A i \in 1 .. Len(changelog) : changelog'[i] = changelog[i]
      BY <2>4, <3>1, <3>2, AppendProperties DEF OnTime, TypeInv, TaskInv
    <3>5. \A i \in 1 .. Len(changelog') : i \in 1 .. Len(changelog) \/ i = Len(changelog) + 1
      BY <1>0, <3>4
    <3>6. \A i \in 1 .. Len(changelog') : changelog'[i].window <= Horizon'
      BY <2>3, <3>3, <3>4, <3>5
    <3>7. PICK W : W = Waiting(e)
      OBVIOUS
    <3>8. /\ Len(emitted') \in Nat /\ Len(emitted) <= Len(emitted')
          /\ \A i \in 1 .. Len(emitted) : emitted'[i] = emitted[i]
          /\ \A i \in Len(emitted) + 1 .. Len(emitted') :
                \E c \in DOMAIN W : Closed(c, streamTime') /\ emitted'[i] = W[c]
          /\ IsBuffer(W)
      BY <1>2, <2>4, <3>1, <3>7, OnTimeStep, LenProperties
    <3>9. \A i \in Len(emitted) + 1 .. Len(emitted') : Closed(emitted'[i].window, Horizon')
      <4> TAKE i \in Len(emitted) + 1 .. Len(emitted')
      <4>1. PICK c \in DOMAIN W : Closed(c, streamTime') /\ emitted'[i] = W[c]
        BY <3>8
      <4>2. W[c].window = c /\ c \in 0 .. MaxTime
        BY <3>8 DEF IsBuffer
      <4> QED
        BY <1>0, <2>1, <2>2, <4>1, <4>2 DEF Closed
    <3>10. \A i \in 1 .. Len(emitted') : i \in 1 .. Len(emitted) \/ i \in Len(emitted) + 1 .. Len(emitted')
      BY <1>0, <3>8
    <3>11. \A i \in 1 .. Len(emitted') : Closed(emitted'[i].window, Horizon')
      BY <2>3, <3>8, <3>9, <3>10
    <3> QED
      BY <2>1, <3>6, <3>11 DEF HorizonInv
  <2>5. CASE TooLate
    BY <2>1, <2>3, <2>5 DEF TooLate, HorizonInv
  <2> QED
    BY <1>2, <2>4, <2>5, AggregateStep
<1>3. ASSUME RestartStep PROVE HorizonInv'
  <2>1. /\ streamTime' = -1 /\ crashTime' = Horizon /\ crashes' = crashes + 1
        /\ \A i \in 1 .. Len(changelog') : i \in 1 .. Len(changelog) /\ changelog'[i] = changelog[i]
        /\ \A i \in 1 .. Len(emitted') : i \in 1 .. Len(emitted) /\ emitted'[i] = emitted[i]
    BY <1>0, <1>3 DEF RestartStep, TypeInv, CommitInv
  <2>2. Horizon >= -1
    <3>1. streamTime >= -1
      BY DEF TypeInv, TaskInv
    <3> QED
      BY <1>0, <3>1
  <2>3. Horizon' = Horizon
    BY <1>0, <2>1, <2>2 DEF Horizon
  <2> QED
    BY <1>0, <2>1, <2>3 DEF HorizonInv
<1>4. ASSUME NEW p, NEW v, NEW ts, Produce(p, v, ts)
      PROVE  UNCHANGED <<streamTime, changelog, emitted, crashes, crashTime>>
  BY <1>4 DEF Produce, taskVars
<1>5. ASSUME NEW p, Forward(p) PROVE UNCHANGED <<streamTime, changelog, emitted, crashes, crashTime>>
  BY <1>5 DEF Forward
<1>6. ASSUME Commit \/ UNCHANGED vars
      PROVE  UNCHANGED <<streamTime, changelog, emitted, crashes, crashTime>>
  BY <1>6 DEF Commit, vars, taskVars
<1> QED
  BY <1>1, <1>2, <1>3, <1>4, <1>5, <1>6, CrashStep DEF Next

LEMMA HorizonHolds == Spec => [](TypeInv /\ HorizonInv)
<1>1. Init => HorizonInv
  <2> SUFFICES ASSUME Init PROVE HorizonInv
    OBVIOUS
  <2>1. changelog = <<>> /\ emitted = <<>> /\ crashTime = -1
    BY DEF Init
  <2> QED
    BY <2>1 DEF HorizonInv
<1> QED
  BY <1>1, HorizonStep, TypesHold, PTL DEF Spec

(* A window that has expired although its record is on time is one that    *)
(* had closed when the thread crashed.                                     *)
LEMMA ExpiredIsClosed ==
    ASSUME TypeInv, HorizonInv, Aggregate, OnTime, Expired(WindowOf(NextRec.ts))
    PROVE  Closed(WindowOf(NextRec.ts), crashTime)
<1>1. PICK w : w = WindowOf(NextRec.ts) /\ w \in 0 .. MaxTime
  BY AggregateStep, NextRecType
<1>2. DOMAIN changelog = 1 .. Len(changelog)
  BY LenProperties DEF TypeInv, TaskInv
<1>3. PICK i \in 1 .. Len(changelog) : w + WindowSize <= changelog[i].window
  BY <1>1, <1>2 DEF Expired, Closed
<1>4. /\ ~(w + WindowSize <= streamTime') /\ streamTime <= streamTime' /\ streamTime' \in Int
  BY <1>1, AggregateStep DEF OnTime, IsLate, Closed
<1>5. /\ changelog[i].window <= Horizon /\ changelog[i].window \in 0 .. MaxTime
      /\ Horizon = streamTime \/ Horizon = crashTime
      /\ Horizon \in Int /\ streamTime \in Int /\ crashTime \in Int /\ WindowSize \in Nat /\ MaxTime \in Nat
  BY HorizonType, AggregatorAssumptions DEF HorizonInv
<1> QED
  BY <1>1, <1>3, <1>4, <1>5 DEF Closed

-----------------------------------------------------------------------------
(* Crashes cost open windows nothing.  The invariants say it of the state  *)
(* and of what the next crash would leave of it.                           *)

\* What was read from the raw topic has been regrouped.
RegroupedInv ==
    /\ \A p \in Partitions : \A i \in 1 .. readPos[p] :
          raw[p][i].value # Corrupt => \E j \in 1 .. Len(repartition) : repartition[j].id = <<p, i>>
    /\ \A p \in Partitions : \A i \in 1 .. committed.readPos[p] :
          raw[p][i].value # Corrupt => \E j \in 1 .. committed.repartition : repartition[j].id = <<p, i>>

\* In a window that no crash has closed, an entry of the store keeps the
\* members of those before it.
LogInv ==
    \A i, j \in 1 .. Len(changelog) :
       i < j /\ changelog[i].window = changelog[j].window /\ ~Closed(changelog[i].window, crashTime)
          => ToSet(changelog[i].members) \subseteq ToSet(changelog[j].members)

\* The record is part of what buffer b holds for window w, and of one of the
\* first n entries s of that window.
InBuffer(b, w, id) == w \in DOMAIN b /\ id \in ToSet(b[w].members)

InEntries(s, n, w, id) == \E j \in 1 .. n : s[j].window = w /\ id \in ToSet(s[j].members)

\* The record at position i is accounted for: now, and after the next crash.
\* What waits in the buffer is in the store, too, so that the next entry of its
\* window, which takes its place, has it as well.
Handled(i) ==
    LET w == WindowOf(repartition[i].ts)
        id == repartition[i].id
    IN  \/ Closed(w, crashTime)
        \/ i \in late
        \/ InBuffer(buffer, w, id) /\ InEntries(changelog, Len(changelog), w, id)
        \/ InEntries(emitted, Len(emitted), w, id)

HandledDurably(i) ==
    LET w == WindowOf(repartition[i].ts)
        id == repartition[i].id
    IN  \/ Closed(w, crashTime)
        \/ i \in late
        \/ InBuffer(committed.buffer, w, id) /\ InEntries(changelog, committed.changelog, w, id)
        \/ InEntries(emitted, committed.emitted, w, id)

HandledInv ==
    /\ \A i \in 1 .. aggPos : Handled(i)
    /\ \A i \in 1 .. committed.aggPos : HandledDurably(i)

LEMMA RegroupedStep == TypeInv /\ RegroupedInv /\ [Next]_vars => RegroupedInv'
<1> SUFFICES ASSUME TypeInv, RegroupedInv, [Next]_vars PROVE RegroupedInv'
  OBVIOUS
<1>0. /\ \A p \in Partitions : /\ readPos[p] \in Nat /\ committed.readPos[p] \in Nat /\ Len(raw[p]) \in Nat
                               /\ committed.readPos[p] <= readPos[p] /\ readPos[p] <= Len(raw[p])
      /\ Len(repartition) \in Nat /\ committed.repartition \in 0 .. Len(repartition)
  BY LenProperties DEF TypeInv, InputInv, TaskInv, CommitInv
<1>1. ASSUME NEW p \in Partitions, NEW v \in Events \cup {Corrupt}, NEW ts \in now .. MaxTime,
             Produce(p, v, ts)
      PROVE  RegroupedInv'
  <2>1. \A q \in Partitions : \A i \in 1 .. Len(raw[q]) : raw'[q][i] = raw[q][i]
    BY <1>1, ProduceTypes
  <2>2. \A q \in Partitions : /\ \A i \in 1 .. readPos[q] : raw'[q][i] = raw[q][i]
                              /\ \A i \in 1 .. committed.readPos[q] : raw'[q][i] = raw[q][i]
    BY <1>0, <2>1
  <2>3. UNCHANGED <<readPos, repartition, committed>>
    BY <1>1 DEF Produce, taskVars
  <2>4. ASSUME NEW q \in Partitions, NEW i \in 1 .. readPos'[q], raw'[q][i].value # Corrupt
        PROVE  \E j \in 1 .. Len(repartition') : repartition'[j].id = <<q, i>>
    <3>1. i \in 1 .. readPos[q] /\ raw[q][i].value # Corrupt
      BY <2>2, <2>3, <2>4
    <3> QED
      BY <2>3, <3>1 DEF RegroupedInv
  <2>5. ASSUME NEW q \in Partitions, NEW i \in 1 .. committed'.readPos[q], raw'[q][i].value # Corrupt
        PROVE  \E j \in 1 .. committed'.repartition : repartition'[j].id = <<q, i>>
    <3>1. i \in 1 .. committed.readPos[q] /\ raw[q][i].value # Corrupt
      BY <2>2, <2>3, <2>5
    <3> QED
      BY <2>3, <3>1 DEF RegroupedInv
  <2> QED
    BY <2>4, <2>5 DEF RegroupedInv
<1>2. ASSUME NEW p \in Partitions, Forward(p) PROVE RegroupedInv'
  <2>1. /\ readPos[p] + 1 \in 1 .. Len(raw[p]) /\ readPos' = [readPos EXCEPT ![p] = @ + 1]
        /\ UNCHANGED <<raw, committed>>
        /\ \A i \in 1 .. Len(repartition) : repartition'[i] = repartition[i]
        /\ \/ raw[p][readPos[p] + 1].value = Corrupt /\ repartition' = repartition
           \/ /\ Len(repartition') = Len(repartition) + 1
              /\ repartition'[Len(repartition) + 1] = Parsed(p)
              /\ Parsed(p).id = <<p, readPos[p] + 1>>
    BY <1>2, ForwardStep
  <2>2. Len(repartition) <= Len(repartition') /\ Len(repartition') \in Nat
    BY <1>0, <2>1
  <2>3. ASSUME NEW q \in Partitions, NEW i \in 1 .. readPos'[q], raw[q][i].value # Corrupt
        PROVE  \E j \in 1 .. Len(repartition') : repartition'[j].id = <<q, i>>
    <3>1. CASE i \in 1 .. readPos[q]
      <4>1. PICK j \in 1 .. Len(repartition) : repartition[j].id = <<q, i>>
        BY <2>3, <3>1 DEF RegroupedInv
      <4>2. j \in 1 .. Len(repartition')
        BY <1>0, <2>2
      <4> QED
        BY <2>1, <4>1, <4>2
    <3>2. CASE q = p /\ i = readPos[p] + 1
      BY <1>0, <2>1, <2>2, <2>3, <3>2, SMTT(30)
    <3>3. i \in 1 .. readPos[q] \/ (q = p /\ i = readPos[p] + 1)
      <4>1. CASE q = p
        <5>1. readPos'[q] = readPos[q] + 1
          BY <2>1, <4>1 DEF TypeInv, InputInv
        <5> QED
          BY <1>0, <4>1, <5>1
      <4>2. CASE q # p
        BY <2>1, <4>2 DEF TypeInv, InputInv
      <4> QED
        BY <4>1, <4>2
    <3> QED
      BY <3>1, <3>2, <3>3
  <2>4. \A j \in 1 .. committed.repartition : repartition'[j] = repartition[j]
    BY <1>0, <2>1
  <2>5. ASSUME NEW q \in Partitions, NEW i \in 1 .. committed.readPos[q], raw[q][i].value # Corrupt
        PROVE  \E j \in 1 .. committed.repartition : repartition'[j].id = <<q, i>>
    <3>1. PICK j \in 1 .. committed.repartition : repartition[j].id = <<q, i>>
      BY <2>5 DEF RegroupedInv
    <3> QED
      BY <2>4, <3>1
  <2> QED
    BY <2>1, <2>3, <2>5 DEF RegroupedInv
<1>3. CASE Commit
  <2>1. committed' = Durable /\ UNCHANGED <<raw, readPos, repartition>>
    BY <1>3 DEF Commit, taskVars
  <2>2. committed'.readPos = readPos /\ committed'.repartition = Len(repartition)
    BY <2>1, DurableFields
  <2> QED
    BY <2>1, <2>2 DEF RegroupedInv
<1>4. ASSUME RestartStep PROVE RegroupedInv'
  <2>1. /\ readPos' = committed.readPos /\ raw' = raw
        /\ Len(repartition') \in committed.repartition .. Len(repartition)
        /\ \A i \in 1 .. Len(repartition') : repartition'[i] = repartition[i]
        /\ committed'.readPos = readPos' /\ committed'.repartition = Len(repartition')
    BY <1>4, DurableFieldsNext DEF RestartStep
  <2>2. \A j \in 1 .. committed.repartition :
           j \in 1 .. Len(repartition') /\ repartition'[j] = repartition[j]
    BY <1>0, <2>1
  <2> QED
    BY <2>1, <2>2 DEF RegroupedInv
<1>5. CASE UNCHANGED <<raw, readPos, repartition, committed>>
  BY <1>5 DEF RegroupedInv
<1>6. ASSUME Aggregate \/ UNCHANGED vars PROVE UNCHANGED <<raw, readPos, repartition, committed>>
  BY <1>6 DEF Aggregate, vars, taskVars
<1> QED
  BY <1>1, <1>2, <1>3, <1>4, <1>5, <1>6, CrashStep DEF Next

LEMMA NewEntryGrows ==
    ASSUME TypeInv, HorizonInv, LogInv, Aggregate, OnTime
    PROVE  /\ NextRec.id \in ToSet(NewEntry.members)
           /\ ~Closed(NewEntry.window, crashTime) =>
                 \A j \in 1 .. Len(changelog) :
                    changelog[j].window = NewEntry.window
                       => ToSet(changelog[j].members) \subseteq ToSet(NewEntry.members)
<1>0. aggPos < Len(repartition)
  BY AggregateStep
<1>1. PICK w : w = WindowOf(NextRec.ts) /\ w \in 0 .. MaxTime
  BY <1>0, NextRecType
<1>2. PICK old \in Lookup(w) : old \in EntrySet /\ NewEntry.members = Append(old.members, NextRec.id)
  BY <1>0, <1>1, NewEntryProperties
<1>w. NewEntry.window = w
  BY <1>0, <1>1, NewEntryProperties
<1>3. old.members \in Seq(Ids) /\ NextRec.id \in Ids
  BY <1>0, <1>2, NextRecType DEF EntrySet
<1>4. NextRec.id \in ToSet(NewEntry.members) /\ ToSet(old.members) \subseteq ToSet(NewEntry.members)
  <2>1. PICK m \in Seq(Ids) : m = old.members
    BY <1>3
  <2>2. PICK x \in Ids : x = NextRec.id
    BY <1>3
  <2>3. PICK l \in Seq(Ids) : l = Append(m, x)
    BY AppendProperties
  <2>4. Len(l) = Len(m) + 1 /\ l[Len(m) + 1] = x /\ (\A i \in 1 .. Len(m) : l[i] = m[i]) /\ Len(m) \in Nat
    BY <2>3, AppendProperties
  <2>5. DOMAIN l = 1 .. Len(l) /\ DOMAIN m = 1 .. Len(m)
    BY LenProperties
  <2>6. Len(m) + 1 \in DOMAIN l /\ DOMAIN m \subseteq DOMAIN l
    BY <2>4, <2>5
  <2>7. x \in ToSet(l) /\ ToSet(m) \subseteq ToSet(l)
    BY <2>4, <2>5, <2>6 DEF ToSet
  <2> QED
    BY <1>2, <2>1, <2>2, <2>3, <2>7
<1>5. ASSUME ~Closed(w, crashTime), NEW j \in 1 .. Len(changelog), changelog[j].window = w
      PROVE  ToSet(changelog[j].members) \subseteq ToSet(old.members)
  <2>1. j \in EntriesOf(w) /\ ~Expired(w)
    BY <1>1, <1>5, ExpiredIsClosed DEF EntriesOf
  <2>2. changelog \in Seq(EntrySet) /\ Events # {} /\ Len(changelog) \in Nat
    BY <1>0, NextRecType DEF TypeInv, TaskInv
  <2>3. PICK i \in EntriesOf(w) : j <= i /\ old.members = changelog[i].members
    BY <1>1, <2>1, <2>2, LookupProperties
  <2>4. i \in 1 .. Len(changelog) /\ changelog[i].window = w
    BY <2>3 DEF EntriesOf
  <2>5. CASE j = i
    BY <2>3, <2>5
  <2>6. CASE j < i
    BY <1>5, <2>3, <2>4, <2>6 DEF LogInv
  <2> QED
    BY <2>2, <2>3, <2>4, <2>5, <2>6
<1> QED
  BY <1>w, <1>4, <1>5

(* Closed windows stay closed. *)
LEMMA CrashTimeGrows ==
    ASSUME TypeInv, [Next]_vars
    PROVE  \A w \in 0 .. MaxTime : Closed(w, crashTime) => Closed(w, crashTime')
<1>1. crashTime' = crashTime \/ crashTime' = Horizon
  <2>1. ASSUME NEW p, NEW v, NEW ts, Produce(p, v, ts) PROVE crashTime' = crashTime
    BY <2>1 DEF Produce
  <2>2. ASSUME NEW p, Forward(p) PROVE crashTime' = crashTime
    BY <2>2 DEF Forward
  <2>3. ASSUME Aggregate \/ Commit \/ UNCHANGED vars PROVE crashTime' = crashTime
    BY <2>3 DEF Aggregate, Commit, vars
  <2>4. ASSUME Crash PROVE crashTime' = Horizon
    BY <2>4 DEF Crash, Restart
  <2> QED
    BY <2>1, <2>2, <2>3, <2>4 DEF Next
<1>2. Horizon \in Int /\ crashTime \in Int /\ crashTime <= Horizon /\ WindowSize \in Nat /\ MaxTime \in Nat
  BY HorizonType, AggregatorAssumptions
<1> QED
  BY <1>1, <1>2 DEF Closed

LEMMA LogStep == TypeInv /\ HorizonInv /\ LogInv /\ [Next]_vars => LogInv'
<1> SUFFICES ASSUME TypeInv, HorizonInv, LogInv, [Next]_vars PROVE LogInv'
  OBVIOUS
<1>0. Len(changelog) \in Nat /\ committed.changelog \in 0 .. Len(changelog) /\ changelog \in Seq(EntrySet)
  BY DEF TypeInv, TaskInv, CommitInv
<1>1. CASE UNCHANGED <<changelog, crashTime>>
  BY <1>1 DEF LogInv
<1>2. CASE Aggregate
  <2>1. aggPos < Len(repartition) /\ crashTime' = crashTime
    BY <1>2, AggregateStep
  <2>2. CASE OnTime
    <3> DEFINE e == NewEntry
    <3>1. e \in EntrySet
      BY <2>1, <2>2, NewEntryProperties
    <3>2. /\ Len(changelog') = Len(changelog) + 1 /\ changelog'[Len(changelog) + 1] = e
          /\ \A i \in 1 .. Len(changelog) : changelog'[i] = changelog[i]
      BY <1>0, <2>2, <3>1, AppendProperties DEF OnTime
    <3>3. ~Closed(e.window, crashTime) =>
             \A j \in 1 .. Len(changelog) :
                changelog[j].window = e.window => ToSet(changelog[j].members) \subseteq ToSet(e.members)
      BY <1>2, <2>2, NewEntryGrows
    <3> HIDE DEF e
    <3>4. \A i \in 1 .. Len(changelog') : i \in 1 .. Len(changelog) \/ i = Len(changelog) + 1
      BY <1>0, <3>2
    <3>5. ASSUME NEW i \in 1 .. Len(changelog'), NEW j \in 1 .. Len(changelog'), i < j,
                 changelog'[i].window = changelog'[j].window,
                 ~Closed(changelog'[i].window, crashTime)
          PROVE  ToSet(changelog'[i].members) \subseteq ToSet(changelog'[j].members)
      <4>1. i \in 1 .. Len(changelog)
        BY <1>0, <3>2, <3>5
      <4>2. CASE j \in 1 .. Len(changelog)
        BY <3>2, <3>5, <4>1, <4>2 DEF LogInv
      <4>3. CASE j = Len(changelog) + 1
        BY <3>2, <3>3, <3>5, <4>1, <4>3
      <4> QED
        BY <3>4, <4>2, <4>3
    <3> QED
      BY <2>1, <3>5 DEF LogInv
  <2>3. CASE TooLate
    BY <1>1, <2>1, <2>3 DEF TooLate
  <2> QED
    BY <1>2, <2>2, <2>3, AggregateStep
<1>3. ASSUME Crash PROVE LogInv'
  <2>1. /\ Len(changelog') \in committed.changelog .. Len(changelog)
        /\ \A i \in 1 .. Len(changelog') : changelog'[i] = changelog[i]
    BY <1>3, CrashStep DEF RestartStep
  <2>2. 1 .. Len(changelog') \subseteq 1 .. Len(changelog)
    BY <1>0, <2>1
  <2>3. ASSUME NEW i \in 1 .. Len(changelog'), NEW j \in 1 .. Len(changelog'), i < j,
               changelog'[i].window = changelog'[j].window,
               ~Closed(changelog'[i].window, crashTime')
        PROVE  ToSet(changelog'[i].members) \subseteq ToSet(changelog'[j].members)
    <3>1. /\ i \in 1 .. Len(changelog) /\ j \in 1 .. Len(changelog)
          /\ changelog'[i] = changelog[i] /\ changelog'[j] = changelog[j]
      BY <2>1, <2>2
    <3>2. changelog[i].window \in 0 .. MaxTime
      BY <3>1, HorizonType
    <3>3. ~Closed(changelog[i].window, crashTime)
      BY <2>3, <3>1, <3>2, CrashTimeGrows
    <3> QED
      BY <2>3, <3>1, <3>3 DEF LogInv
  <2> QED
    BY <2>3 DEF LogInv
<1>4. ASSUME NEW p, NEW v, NEW ts, Produce(p, v, ts) PROVE UNCHANGED <<changelog, crashTime>>
  BY <1>4 DEF Produce, taskVars
<1>5. ASSUME NEW p, Forward(p) PROVE UNCHANGED <<changelog, crashTime>>
  BY <1>5 DEF Forward
<1>6. ASSUME Commit \/ UNCHANGED vars PROVE UNCHANGED <<changelog, crashTime>>
  BY <1>6 DEF Commit, vars, taskVars
<1> QED
  BY <1>1, <1>2, <1>3, <1>4, <1>5, <1>6 DEF Next

LEMMA InEntriesKept ==
    ASSUME NEW s, NEW t, NEW n \in Nat, NEW m \in Nat, n <= m, NEW w, NEW id,
           \A i \in 1 .. n : t[i] = s[i], InEntries(s, n, w, id)
    PROVE  InEntries(t, m, w, id)
<1>1. PICK j \in 1 .. n : s[j].window = w /\ id \in ToSet(s[j].members)
  BY DEF InEntries
<1>2. j \in 1 .. m /\ t[j] = s[j]
  OBVIOUS
<1> QED
  BY <1>1, <1>2 DEF InEntries

LEMMA HandledAggregate ==
    ASSUME TypeInv, HorizonInv, LogInv, HandledInv, Aggregate
    PROVE  HandledInv'
<1>1. /\ aggPos' = aggPos + 1 /\ aggPos + 1 \in 1 .. Len(repartition) /\ aggPos < Len(repartition)
      /\ repartition' = repartition /\ committed' = committed /\ crashTime' = crashTime
      /\ OnTime \/ TooLate
  BY AggregateStep
<1>2. /\ aggPos \in Nat /\ Len(emitted) \in Nat /\ Len(changelog) \in Nat
      /\ committed.emitted \in 0 .. Len(emitted) /\ committed.changelog \in 0 .. Len(changelog)
      /\ changelog \in Seq(EntrySet)
  BY DEF TypeInv, TaskInv, CommitInv
<1>3. /\ Len(emitted) <= Len(emitted') /\ Len(emitted') \in Nat /\ late \subseteq late'
      /\ \A i \in 1 .. Len(emitted) : emitted'[i] = emitted[i]
      /\ Len(changelog) <= Len(changelog') /\ Len(changelog') \in Nat
      /\ \A i \in 1 .. Len(changelog) : changelog'[i] = changelog[i]
  <2>1. CASE OnTime
    <3>1. NewEntry \in EntrySet
      BY <1>1, <2>1, NewEntryProperties
    <3>2. /\ Len(changelog) <= Len(changelog') /\ Len(changelog') \in Nat
          /\ \A i \in 1 .. Len(changelog) : changelog'[i] = changelog[i]
      BY <1>2, <2>1, <3>1, AppendProperties DEF OnTime
    <3> QED
      BY <2>1, <3>2, OnTimeStep, LenProperties DEF OnTime
  <2>2. CASE TooLate
    BY <1>2, <2>2 DEF TooLate
  <2> QED
    BY <1>1, <2>1, <2>2
<1>4. ASSUME NEW n \in 0 .. Len(emitted), NEW w, NEW id, InEntries(emitted, n, w, id)
      PROVE  InEntries(emitted', n, w, id) /\ InEntries(emitted', Len(emitted'), w, id)
  <2>1. n \in Nat /\ n <= n /\ n <= Len(emitted') /\ \A i \in 1 .. n : emitted'[i] = emitted[i]
    BY <1>2, <1>3
  <2> QED
    BY <1>3, <1>4, <2>1, InEntriesKept
<1>5. ASSUME NEW n \in 0 .. Len(changelog), NEW w, NEW id, InEntries(changelog, n, w, id)
      PROVE  InEntries(changelog', n, w, id) /\ InEntries(changelog', Len(changelog'), w, id)
  <2>1. n \in Nat /\ n <= n /\ n <= Len(changelog') /\ \A i \in 1 .. n : changelog'[i] = changelog[i]
    BY <1>2, <1>3
  <2> QED
    BY <1>3, <1>5, <2>1, InEntriesKept
<1>6. \A i \in 1 .. committed.aggPos : HandledDurably(i)'
  <2> TAKE i \in 1 .. committed.aggPos
  <2>1. HandledDurably(i)
    BY DEF HandledInv
  <2> QED
    BY <1>1, <1>2, <1>3, <1>4, <1>5, <2>1 DEF HandledDurably
<1>7. ASSUME NEW i \in 1 .. aggPos' PROVE Handled(i)'
  <2>1. PICK w, id : w = WindowOf(repartition[i].ts) /\ id = repartition[i].id
    OBVIOUS
  <2>2. i \in 1 .. aggPos \/ i = aggPos + 1
    BY <1>1, <1>2
  <2>3. CASE Closed(w, crashTime) \/ i \in late \/ InEntries(emitted, Len(emitted), w, id)
    <3>1. InEntries(emitted, Len(emitted), w, id) => InEntries(emitted', Len(emitted'), w, id)
      BY <1>2, <1>4
    <3> QED
      BY <1>1, <1>3, <2>1, <2>3, <3>1 DEF Handled
  <2>4. CASE /\ OnTime /\ ~Closed(w, crashTime)
             /\ \/ InBuffer(buffer, w, id) /\ InEntries(changelog, Len(changelog), w, id)
                \/ i = aggPos + 1
    <3>1. PICK e : e = NewEntry
      OBVIOUS
    <3>2. PICK W : W = Waiting(e)
      OBVIOUS
    <3>3. /\ DOMAIN W = DOMAIN buffer \cup {e.window} /\ W[e.window] = e
          /\ \A c \in DOMAIN buffer : c # e.window => W[c] = buffer[c]
      BY <3>2, WaitingProperties
    <3>4. /\ \A c \in DOMAIN W : Closed(c, streamTime') => \E j \in 1 .. Len(emitted') : emitted'[j] = W[c]
          /\ DOMAIN buffer' = {c \in DOMAIN W : ~Closed(c, streamTime')}
          /\ \A c \in DOMAIN buffer' : buffer'[c] = W[c]
          /\ \A c \in DOMAIN W : W[c].window = c
      BY <2>4, <3>1, <3>2, OnTimeStep DEF IsBuffer
    <3>5. /\ NextRec.id \in ToSet(e.members)
          /\ \A j \in 1 .. Len(changelog) :
                changelog[j].window = w /\ w = e.window
                   => ToSet(changelog[j].members) \subseteq ToSet(e.members)
      BY <2>4, <3>1, NewEntryGrows
    <3>6. e \in EntrySet /\ e.window = WindowOf(NextRec.ts)
      BY <1>1, <2>4, <3>1, NewEntryProperties
    <3>7. InBuffer(W, w, id)
      <4>1. CASE i = aggPos + 1
        BY <2>1, <3>3, <3>5, <3>6, <4>1 DEF NextRec, InBuffer
      <4>2. CASE InBuffer(buffer, w, id) /\ InEntries(changelog, Len(changelog), w, id)
        BY <3>3, <3>5, <4>2 DEF InBuffer, InEntries
      <4> QED
        BY <2>4, <4>1, <4>2
    <3>8. InEntries(changelog', Len(changelog'), w, id)
      <4>1. CASE i = aggPos + 1
        <5>1. Len(changelog') = Len(changelog) + 1 /\ changelog'[Len(changelog) + 1] = e
          BY <1>2, <2>4, <3>1, <3>6, AppendProperties DEF OnTime
        <5>2. Len(changelog) + 1 \in 1 .. Len(changelog') /\ w = e.window /\ id = NextRec.id
          BY <1>2, <2>1, <3>6, <4>1, <5>1 DEF NextRec
        <5> QED
          BY <3>5, <5>1, <5>2 DEF InEntries
      <4>2. CASE InEntries(changelog, Len(changelog), w, id)
        BY <1>2, <1>5, <4>2
      <4> QED
        BY <2>4, <4>1, <4>2
    <3>9. CASE Closed(w, streamTime')
      <4>1. InEntries(emitted', Len(emitted'), w, id)
        BY <3>4, <3>7, <3>9 DEF InBuffer, InEntries
      <4> QED
        BY <1>1, <2>1, <4>1 DEF Handled
    <3>10. CASE ~Closed(w, streamTime')
      <4>1. InBuffer(buffer', w, id)
        BY <3>4, <3>7, <3>10 DEF InBuffer
      <4> QED
        BY <1>1, <2>1, <3>8, <4>1 DEF Handled
    <3> QED
      BY <3>9, <3>10
  <2>5. CASE TooLate
    <3>1. CASE i = aggPos + 1
      BY <2>5, <3>1 DEF TooLate, Handled
    <3>2. CASE i \in 1 .. aggPos
      <4>1. Handled(i)
        BY <3>2 DEF HandledInv
      <4>2. changelog' = changelog /\ buffer' = buffer /\ emitted' = emitted
        BY <2>5 DEF TooLate
      <4> QED
        BY <1>1, <1>3, <4>1, <4>2 DEF Handled
    <3> QED
      BY <2>2, <3>1, <3>2
  <2>6. CASE i \in 1 .. aggPos
    <3>1. Handled(i)
      BY <2>6 DEF HandledInv
    <3> QED
      BY <1>1, <2>1, <2>3, <2>4, <2>5, <3>1 DEF Handled
  <2>7. CASE i = aggPos + 1
    BY <1>1, <2>3, <2>4, <2>5, <2>7
  <2> QED
    BY <2>2, <2>6, <2>7
<1> QED
  BY <1>1, <1>6, <1>7 DEF HandledInv

LEMMA HandledStep == TypeInv /\ HorizonInv /\ LogInv /\ HandledInv /\ [Next]_vars => HandledInv'
<1> SUFFICES ASSUME TypeInv, HorizonInv, LogInv, HandledInv, [Next]_vars PROVE HandledInv'
  OBVIOUS
<1>0. /\ aggPos \in 0 .. Len(repartition) /\ Len(repartition) \in Nat /\ committed.aggPos \in 0 .. aggPos
      /\ Len(emitted) \in Nat /\ committed.emitted \in 0 .. Len(emitted)
      /\ Len(changelog) \in Nat /\ committed.changelog \in 0 .. Len(changelog)
  BY DEF TypeInv, TaskInv, CommitInv
<1>1. ASSUME UNCHANGED <<late, buffer, changelog, emitted, aggPos, committed, crashTime>>,
             \A i \in 1 .. aggPos : repartition'[i] = repartition[i]
      PROVE  HandledInv'
  <2>1. ASSUME NEW i \in 1 .. aggPos PROVE Handled(i)'
    <3>1. Handled(i) /\ repartition'[i] = repartition[i]
      BY <1>1 DEF HandledInv
    <3> QED
      BY <1>1, <3>1 DEF Handled
  <2>2. ASSUME NEW i \in 1 .. committed.aggPos PROVE HandledDurably(i)'
    <3>1. HandledDurably(i) /\ repartition'[i] = repartition[i]
      BY <1>0, <1>1 DEF HandledInv
    <3> QED
      BY <1>1, <3>1 DEF HandledDurably
  <2> QED
    BY <1>1, <2>1, <2>2 DEF HandledInv
<1>2. ASSUME NEW p \in Partitions, Forward(p) PROVE HandledInv'
  <2>1. /\ UNCHANGED <<late, buffer, changelog, emitted, aggPos, committed, crashTime>>
        /\ \A i \in 1 .. Len(repartition) : repartition'[i] = repartition[i]
    BY <1>2, ForwardStep
  <2>2. \A i \in 1 .. aggPos : repartition'[i] = repartition[i]
    BY <1>0, <2>1
  <2> QED
    BY <1>1, <2>1, <2>2
<1>3. CASE Commit
  <2>1. committed' = Durable
        /\ UNCHANGED <<aggPos, repartition, late, buffer, changelog, emitted, crashTime>>
    BY <1>3 DEF Commit, taskVars
  <2>2. /\ committed'.buffer = buffer /\ committed'.emitted = Len(emitted)
        /\ committed'.changelog = Len(changelog) /\ committed'.aggPos = aggPos
    BY <2>1, DurableFields
  <2>3. ASSUME NEW i \in 1 .. aggPos PROVE Handled(i)' /\ HandledDurably(i)'
    <3>1. Handled(i)
      BY DEF HandledInv
    <3> QED
      BY <2>1, <2>2, <3>1 DEF Handled, HandledDurably
  <2> QED
    BY <2>1, <2>2, <2>3 DEF HandledInv
<1>4. ASSUME RestartStep PROVE HandledInv'
  <2>1. /\ aggPos' = committed.aggPos /\ late' = late \cap 1 .. committed.aggPos
        /\ aggPos <= Len(repartition') /\ Len(repartition') \in Nat
        /\ \A i \in 1 .. Len(repartition') : repartition'[i] = repartition[i]
        /\ Len(changelog') \in committed.changelog .. Len(changelog)
        /\ \A i \in 1 .. Len(changelog') : changelog'[i] = changelog[i]
        /\ \A w : SameAt(w, buffer', buffer) \/ SameAt(w, buffer', committed.buffer)
        /\ crashTime' = Horizon
        /\ committed'.buffer = buffer' /\ committed'.emitted = Len(emitted')
        /\ committed'.changelog = Len(changelog') /\ committed'.aggPos = aggPos'
    BY <1>4, DurableFieldsNext DEF RestartStep
  <2>2. ASSUME NEW i \in 1 .. aggPos'
        PROVE  Handled(i)' /\ HandledDurably(i)'
    <3>1. i \in 1 .. committed.aggPos /\ i \in 1 .. aggPos /\ repartition'[i] = repartition[i]
      BY <1>0, <2>1
    <3>2. PICK w, id : w = WindowOf(repartition[i].ts) /\ id = repartition[i].id
      OBVIOUS
    <3>3. Handled(i) /\ HandledDurably(i)
      BY <3>1 DEF HandledInv
    <3>4. CASE Closed(w, Horizon)
      BY <2>1, <3>1, <3>2, <3>4 DEF Handled, HandledDurably
    <3>5. CASE i \in late
      BY <2>1, <3>1, <3>5 DEF Handled, HandledDurably
    <3>6. CASE ~Closed(w, Horizon) /\ i \notin late
      <4>1. ~Closed(w, crashTime)
        <5>1. w \in Int
          <6>1. repartition[i] \in RegroupedSet
            BY <1>0, <3>1, ElementOfSeq DEF TypeInv, TaskInv
          <6>2. repartition[i].ts \in Nat
            BY <6>1, AggregatorAssumptions DEF RegroupedSet
          <6> QED
            BY <3>2, <6>2, WindowOfProperties
        <5> QED
          BY <3>6, <5>1, HorizonType DEF Closed
      <4>2. \A j \in 1 .. Len(emitted) : emitted[j].window # w
        BY <3>6 DEF HorizonInv
      <4>3. ~InEntries(emitted, Len(emitted), w, id) /\ ~InEntries(emitted, committed.emitted, w, id)
        BY <1>0, <4>2 DEF InEntries
      <4>4. /\ InBuffer(buffer, w, id) /\ InBuffer(committed.buffer, w, id)
            /\ InEntries(changelog, committed.changelog, w, id)
        BY <3>2, <3>3, <3>6, <4>1, <4>3 DEF Handled, HandledDurably
      <4>5. InBuffer(buffer', w, id)
        BY <2>1, <4>4 DEF SameAt, InBuffer
      <4>6. InEntries(changelog', Len(changelog'), w, id)
        <5>1. /\ committed.changelog \in Nat /\ Len(changelog') \in Nat
              /\ committed.changelog <= Len(changelog')
              /\ \A j \in 1 .. committed.changelog : changelog'[j] = changelog[j]
          BY <1>0, <2>1
        <5> QED
          BY <4>4, <5>1, InEntriesKept
      <4> QED
        BY <2>1, <3>1, <3>2, <4>5, <4>6 DEF Handled, HandledDurably
    <3> QED
      BY <3>4, <3>5, <3>6
  <2> QED
    BY <2>1, <2>2 DEF HandledInv
<1>5. ASSUME NEW p, NEW v, NEW ts, Produce(p, v, ts)
      PROVE  UNCHANGED <<late, buffer, changelog, emitted, aggPos, repartition, committed, crashTime>>
  BY <1>5 DEF Produce, taskVars
<1>6. ASSUME UNCHANGED vars
      PROVE  UNCHANGED <<late, buffer, changelog, emitted, aggPos, repartition, committed, crashTime>>
  BY <1>6 DEF vars, taskVars
<1> QED
  BY <1>1, <1>2, <1>3, <1>4, <1>5, <1>6, HandledAggregate, CrashStep DEF Next

(* However often the thread is replaced, between commits or within one: an *)
(* event that was read has been regrouped, and what was read of those is   *)
(* late, waiting or emitted, or of a window that had closed at a crash.    *)
THEOREM OpenWindowsSurvive == Spec => []OpenWindowsSurviveCrashes
<1>1. Init => RegroupedInv /\ LogInv /\ HandledInv
  <2> SUFFICES ASSUME Init PROVE RegroupedInv /\ LogInv /\ HandledInv
    OBVIOUS
  <2>1. /\ readPos = [p \in Partitions |-> 0] /\ aggPos = 0 /\ changelog = <<>>
        /\ committed.readPos = readPos /\ committed.aggPos = 0
    BY DEF Init
  <2>2. RegroupedInv
    BY <2>1 DEF RegroupedInv
  <2>3. LogInv
    BY <2>1 DEF LogInv
  <2>4. HandledInv
    BY <2>1 DEF HandledInv
  <2> QED
    BY <2>2, <2>3, <2>4
<1>2. TypeInv /\ RegroupedInv /\ HandledInv => OpenWindowsSurviveCrashes
  <2> SUFFICES ASSUME TypeInv, RegroupedInv, HandledInv PROVE OpenWindowsSurviveCrashes
    OBVIOUS
  <2>1. DOMAIN emitted = 1 .. Len(emitted) /\ DOMAIN repartition = 1 .. Len(repartition)
    BY LenProperties DEF TypeInv, TaskInv
  <2>2. ASSUME NEW i \in 1 .. aggPos
        PROVE  Counted(i) \/ Closed(WindowOf(repartition[i].ts), crashTime)
    <3>1. Handled(i)
      BY DEF HandledInv
    <3> QED
      BY <2>1, <3>1 DEF Handled, InBuffer, InEntries, Counted
  <2> QED
    BY <2>1, <2>2 DEF RegroupedInv, OpenWindowsSurviveCrashes
<1> QED
  BY <1>1, <1>2, RegroupedStep, LogStep, HandledStep, HorizonHolds, PTL DEF Spec

-----------------------------------------------------------------------------
(* How often a record can be counted.  The entries of a state are those of *)
(* the store, the buffer, the output topic and the durable buffer; only    *)
(* the aggregation makes a new one.                                        *)

AllEntries ==
    {changelog[i] : i \in 1 .. Len(changelog)} \cup {emitted[i] : i \in 1 .. Len(emitted)}
        \cup {buffer[w] : w \in DOMAIN buffer} \cup {committed.buffer[w] : w \in DOMAIN committed.buffer}

LEMMA EntriesKept ==
    ASSUME TypeInv, [Next]_vars, NEW e \in AllEntries'
    PROVE  e \in AllEntries \/ (Aggregate /\ OnTime /\ e = NewEntry)
<1>0. /\ Len(changelog) \in Nat /\ Len(emitted) \in Nat /\ changelog \in Seq(EntrySet)
      /\ committed.changelog \in Nat /\ committed.emitted \in Nat
  BY DEF TypeInv, TaskInv, CommitInv
<1>1. CASE UNCHANGED <<changelog, emitted, buffer, committed>>
  BY <1>1 DEF AllEntries
<1>2. CASE Commit
  <2>1. UNCHANGED <<changelog, emitted, buffer>> /\ committed'.buffer = buffer
    BY <1>2, DurableFields DEF Commit, taskVars
  <2> QED
    BY <2>1 DEF AllEntries
<1>3. ASSUME RestartStep PROVE e \in AllEntries
  <2>1. /\ \A i \in 1 .. Len(changelog') : i \in 1 .. Len(changelog) /\ changelog'[i] = changelog[i]
        /\ \A i \in 1 .. Len(emitted') : i \in 1 .. Len(emitted) /\ emitted'[i] = emitted[i]
        /\ committed'.buffer = buffer'
    BY <1>0, <1>3, DurableFieldsNext DEF RestartStep
  <2>2. ASSUME NEW w \in DOMAIN buffer'
        PROVE  \/ w \in DOMAIN buffer /\ buffer'[w] = buffer[w]
               \/ w \in DOMAIN committed.buffer /\ buffer'[w] = committed.buffer[w]
    <3>1. SameAt(w, buffer', buffer) \/ SameAt(w, buffer', committed.buffer)
      BY <1>3 DEF RestartStep
    <3> QED
      BY <3>1 DEF SameAt
  <2> QED
    BY <2>1, <2>2 DEF AllEntries
<1>4. CASE Aggregate /\ OnTime
  <2>1. PICK n : n = NewEntry
    OBVIOUS
  <2>2. committed' = committed /\ n \in EntrySet
    BY <1>4, <2>1, AggregateStep, NewEntryProperties
  <2>3. \A i \in 1 .. Len(changelog') :
           changelog'[i] = n \/ (i \in 1 .. Len(changelog) /\ changelog'[i] = changelog[i])
    <3>1. changelog' = Append(changelog, n)
      BY <1>4, <2>1 DEF OnTime
    <3>2. /\ Len(changelog') = Len(changelog) + 1 /\ changelog'[Len(changelog) + 1] = n
          /\ \A i \in 1 .. Len(changelog) : changelog'[i] = changelog[i]
      BY <1>0, <2>2, <3>1, AppendProperties
    <3>3. \A i \in 1 .. Len(changelog') : i \in 1 .. Len(changelog) \/ i = Len(changelog) + 1
      BY <1>0, <3>2
    <3> QED
      BY <3>2, <3>3
  <2>4. \A w \in DOMAIN Waiting(n) :
           Waiting(n)[w] = n \/ (w \in DOMAIN buffer /\ Waiting(n)[w] = buffer[w])
    BY WaitingProperties
  <2>5. /\ \A w \in DOMAIN buffer' : w \in DOMAIN Waiting(n) /\ buffer'[w] = Waiting(n)[w]
        /\ \A i \in 1 .. Len(emitted) : emitted'[i] = emitted[i]
        /\ \A i \in Len(emitted) + 1 .. Len(emitted') :
              \E w \in DOMAIN Waiting(n) : emitted'[i] = Waiting(n)[w]
        /\ Len(emitted') \in Nat
    BY <1>4, <2>1, OnTimeStep, LenProperties
  <2>6. \A i \in 1 .. Len(emitted') :
           emitted'[i] = n \/ (i \in 1 .. Len(emitted) /\ emitted'[i] = emitted[i])
              \/ \E w \in DOMAIN buffer : emitted'[i] = buffer[w]
    <3> TAKE i \in 1 .. Len(emitted')
    <3>1. i \in 1 .. Len(emitted) \/ i \in Len(emitted) + 1 .. Len(emitted')
      BY <1>0, <2>5
    <3> QED
      BY <2>4, <2>5, <3>1
  <2>7. e \in AllEntries \/ e = n
    BY <2>2, <2>3, <2>4, <2>5, <2>6 DEF AllEntries
  <2> QED
    BY <1>4, <2>1, <2>7
<1>5. ASSUME Aggregate, TooLate PROVE UNCHANGED <<changelog, emitted, buffer, committed>>
  BY <1>5, AggregateStep DEF TooLate
<1>6. ASSUME NEW p, Forward(p) PROVE UNCHANGED <<changelog, emitted, buffer, committed>>
  BY <1>6 DEF Forward
<1>7. ASSUME NEW p, NEW v, NEW ts, Produce(p, v, ts)
      PROVE  UNCHANGED <<changelog, emitted, buffer, committed>>
  BY <1>7 DEF Produce, taskVars
<1>8. ASSUME UNCHANGED vars PROVE UNCHANGED <<changelog, emitted, buffer, committed>>
  BY <1>8 DEF vars, taskVars
<1> QED
  BY <1>1, <1>2, <1>3, <1>4, <1>5, <1>6, <1>7, <1>8, AggregateStep, CrashStep DEF Next

LEMMA EntryTypes ==
    ASSUME TypeInv, NEW e \in AllEntries
    PROVE  e \in EntrySet /\ e.members \in Seq(Ids)
<1>1. e \in EntrySet
  BY ElementOfSeq DEF AllEntries, TypeInv, TaskInv, CommitInv, IsBuffer
<1> QED
  BY <1>1 DEF EntrySet

LEMMA LookupIsEntry ==
    ASSUME TypeInv, aggPos < Len(repartition), NEW old \in Lookup(WindowOf(NextRec.ts))
    PROVE  \/ old.members = <<>> /\ old.agg = NewAggregate
           \/ \E e \in AllEntries : old.members = e.members /\ old.agg = e.agg
<1>1. changelog \in Seq(EntrySet) /\ Events # {} /\ WindowOf(NextRec.ts) \in 0 .. MaxTime
  BY NextRecType DEF TypeInv, TaskInv
<1>2. PICK w \in 0 .. MaxTime : w = WindowOf(NextRec.ts)
  BY <1>1
<1>3. \/ old.members = <<>> /\ old.agg = NewAggregate
      \/ \E i \in EntriesOf(w) : old.members = changelog[i].members /\ old.agg = changelog[i].agg
  BY <1>1, <1>2, LookupProperties
<1>4. \A i \in EntriesOf(w) : changelog[i] \in AllEntries
  BY DEF EntriesOf, AllEntries
<1> QED
  BY <1>3, <1>4

\* The copies of record id among the first n regrouped, and in a list of members.
Positions(s, n, id) == {j \in 1 .. n : s[j].id = id}

TimesIn(m, id) == {j \in 1 .. Len(m) : m[j] = id}

\* A record is regrouped again only after a crash.
RegroupBound ==
    \A id \in Ids : Cardinality(Positions(repartition, Len(repartition), id))
                       <= crashes + (IF id[2] <= readPos[id[1]] THEN 1 ELSE 0)

\* A copy in an entry stands for one that has been processed since the last
\* crash, or for one of those before.
EntryBound ==
    \A e \in AllEntries, id \in Ids :
        2 * Cardinality(TimesIn(e.members, id))
            <= crashes * (crashes + 1) + 2 * Cardinality(Positions(repartition, aggPos, id))

LEMMA PositionsProperties ==
    ASSUME NEW s, NEW n \in Nat, NEW m \in Nat, m <= n, NEW id
    PROVE  /\ IsFiniteSet(Positions(s, n, id)) /\ Cardinality(Positions(s, n, id)) \in Nat
           /\ Cardinality(Positions(s, m, id)) \in Nat
           /\ Cardinality(Positions(s, m, id)) <= Cardinality(Positions(s, n, id))
<1>1. Positions(s, n, id) \in SUBSET (1 .. n) /\ Positions(s, m, id) \subseteq Positions(s, n, id)
  BY DEF Positions
<1>2. IsFiniteSet(Positions(s, n, id)) /\ Cardinality(Positions(s, n, id)) \in Nat
  BY <1>1, PositionsFinite
<1>3. /\ Cardinality(Positions(s, m, id)) <= Cardinality(Positions(s, n, id))
      /\ IsFiniteSet(Positions(s, m, id))
  BY <1>1, <1>2, FS_Subset
<1> QED
  BY <1>2, <1>3, FS_CardinalityType

LEMMA PositionsNext ==
    ASSUME NEW s, NEW n \in Nat, NEW id
    PROVE  /\ s[n + 1].id = id =>
                Cardinality(Positions(s, n + 1, id)) = Cardinality(Positions(s, n, id)) + 1
           /\ s[n + 1].id # id => Positions(s, n + 1, id) = Positions(s, n, id)
<1>1. IsFiniteSet(Positions(s, n, id))
  BY PositionsProperties
<1>2. n + 1 \notin Positions(s, n, id)
  BY DEF Positions
<1>3. ASSUME s[n + 1].id = id
      PROVE  Cardinality(Positions(s, n + 1, id)) = Cardinality(Positions(s, n, id)) + 1
  <2>1. Positions(s, n + 1, id) = Positions(s, n, id) \cup {n + 1}
    BY <1>3 DEF Positions
  <2> QED
    BY <1>1, <1>2, <2>1, FS_AddElement
<1>4. ASSUME s[n + 1].id # id PROVE Positions(s, n + 1, id) = Positions(s, n, id)
  BY <1>4 DEF Positions
<1> QED
  BY <1>3, <1>4

LEMMA PositionsSame ==
    ASSUME NEW s, NEW t, NEW n \in Nat, \A j \in 1 .. n : s[j] = t[j]
    PROVE  \A id : Positions(s, n, id) = Positions(t, n, id)
BY DEF Positions

LEMMA CopiesNext ==
    ASSUME NEW m \in Seq(Ids), NEW x \in Ids, NEW id
    PROVE  /\ Cardinality(TimesIn(m, id)) \in Nat /\ Cardinality(TimesIn(Append(m, x), id)) \in Nat
           /\ Cardinality(TimesIn(Append(m, x), id)) <= Cardinality(TimesIn(m, id)) + 1
           /\ x # id => TimesIn(Append(m, x), id) = TimesIn(m, id)
<1>1. PICK l \in Seq(Ids) : l = Append(m, x)
  BY AppendProperties
<1>2. /\ Len(m) \in Nat /\ Len(l) = Len(m) + 1 /\ l[Len(m) + 1] = x
      /\ \A j \in 1 .. Len(m) : l[j] = m[j]
  BY <1>1, AppendProperties
<1>3. TimesIn(m, id) \in SUBSET (1 .. Len(m))
  BY DEF TimesIn
<1>4. IsFiniteSet(TimesIn(m, id)) /\ Cardinality(TimesIn(m, id)) \in Nat
  BY <1>2, <1>3, PositionsFinite
<1>5. TimesIn(l, id) \subseteq TimesIn(m, id) \cup {Len(m) + 1}
  BY <1>2 DEF TimesIn
<1>6. Cardinality(TimesIn(l, id)) <= Cardinality(TimesIn(m, id)) + 1 /\ Cardinality(TimesIn(l, id)) \in Nat
  BY <1>4, <1>5, OneMorePosition
<1>7. x # id => TimesIn(l, id) = TimesIn(m, id)
  BY <1>2 DEF TimesIn
<1> QED
  BY <1>1, <1>4, <1>6, <1>7

LEMMA RegroupStep == TypeInv /\ RegroupBound /\ [Next]_vars => RegroupBound'
<1> SUFFICES ASSUME TypeInv, RegroupBound, [Next]_vars, NEW id \in Ids
             PROVE  Cardinality(Positions(repartition', Len(repartition'), id))
                       <= crashes' + (IF id[2] <= readPos'[id[1]] THEN 1 ELSE 0)
  BY DEF RegroupBound, Positions
<1>0. /\ crashes \in Nat /\ Len(repartition) \in Nat /\ readPos \in [Partitions -> Nat]
      /\ id[1] \in Partitions /\ id[2] \in Nat /\ readPos[id[1]] \in Nat
  BY DEF TypeInv, InputInv, TaskInv, Ids
<1>1. PICK c \in Nat : c = Cardinality(Positions(repartition, Len(repartition), id))
  BY <1>0, PositionsProperties
<1>2. c <= crashes + (IF id[2] <= readPos[id[1]] THEN 1 ELSE 0)
  BY <1>1 DEF RegroupBound
<1>3. CASE UNCHANGED <<repartition, readPos, crashes>>
  BY <1>1, <1>2, <1>3
<1>4. ASSUME NEW p \in Partitions, Forward(p)
      PROVE  Cardinality(Positions(repartition', Len(repartition'), id))
                <= crashes' + (IF id[2] <= readPos'[id[1]] THEN 1 ELSE 0)
  <2>1. /\ readPos' = [readPos EXCEPT ![p] = @ + 1] /\ crashes' = crashes
        /\ \A i \in 1 .. Len(repartition) : repartition'[i] = repartition[i]
    BY <1>4, ForwardStep
  <2>2. readPos[id[1]] <= readPos'[id[1]] /\ readPos'[id[1]] \in Nat
    BY <1>0, <2>1
  <2>3. CASE repartition' = repartition
    BY <1>0, <1>1, <1>2, <2>1, <2>2, <2>3
  <2>4. CASE /\ Len(repartition') = Len(repartition) + 1
             /\ repartition'[Len(repartition) + 1] = Parsed(p)
             /\ Parsed(p).id = <<p, readPos[p] + 1>>
    <3>1. Positions(repartition', Len(repartition), id) = Positions(repartition, Len(repartition), id)
      BY <2>1 DEF Positions
    <3>2. PICK s, n : s = repartition' /\ n = Len(repartition) /\ n \in Nat
      BY <1>0
    <3>3. /\ s[n + 1].id = id => Cardinality(Positions(s, n + 1, id)) = Cardinality(Positions(s, n, id)) + 1
          /\ s[n + 1].id # id => Positions(s, n + 1, id) = Positions(s, n, id)
      BY <3>2, PositionsNext
    <3>4. CASE id # <<p, readPos[p] + 1>>
      <4>1. Cardinality(Positions(repartition', Len(repartition'), id)) = c
        BY <1>1, <2>4, <3>1, <3>2, <3>3, <3>4
      <4> QED
        BY <1>0, <1>1, <1>2, <2>1, <2>2, <4>1
    <3>5. CASE id = <<p, readPos[p] + 1>>
      <4>1. Cardinality(Positions(repartition', Len(repartition'), id)) = c + 1
        BY <1>1, <2>4, <3>1, <3>2, <3>3, <3>5
      <4>2. id[1] = p /\ id[2] = readPos[p] + 1 /\ readPos'[id[1]] = readPos[p] + 1 /\ readPos[p] \in Nat
        BY <1>0, <2>1, <3>5
      <4> QED
        BY <1>0, <1>1, <1>2, <2>1, <4>1, <4>2
    <3> QED
      BY <3>4, <3>5
  <2> QED
    BY <1>4, <2>3, <2>4, ForwardStep
<1>5. ASSUME RestartStep
      PROVE  Cardinality(Positions(repartition', Len(repartition'), id))
                <= crashes' + (IF id[2] <= readPos'[id[1]] THEN 1 ELSE 0)
  <2>1. /\ Len(repartition') \in 0 .. Len(repartition) /\ crashes' = crashes + 1
        /\ \A i \in 1 .. Len(repartition') : repartition'[i] = repartition[i]
    BY <1>5 DEF RestartStep, TypeInv, CommitInv
  <2>2. PICK n : n = Len(repartition') /\ n \in Nat /\ n <= Len(repartition)
    BY <1>0, <2>1
  <2>3. Positions(repartition', n, id) = Positions(repartition, n, id)
    BY <2>1, <2>2 DEF Positions
  <2>4. Cardinality(Positions(repartition, n, id)) <= c /\ Cardinality(Positions(repartition, n, id)) \in Nat
    BY <1>0, <1>1, <2>2, PositionsProperties
  <2>5. Cardinality(Positions(repartition', Len(repartition'), id)) <= c
    BY <2>2, <2>3, <2>4
  <2>6. Cardinality(Positions(repartition', Len(repartition'), id)) \in Nat
    BY <2>2, <2>3, <2>4
  <2> QED
    BY <1>0, <1>1, <1>2, <2>1, <2>5, <2>6
<1>6. ASSUME NEW p, NEW v, NEW ts, Produce(p, v, ts) PROVE UNCHANGED <<repartition, readPos, crashes>>
  BY <1>6 DEF Produce, taskVars
<1>7. ASSUME Aggregate \/ Commit \/ UNCHANGED vars PROVE UNCHANGED <<repartition, readPos, crashes>>
  BY <1>7 DEF Aggregate, Commit, vars, taskVars
<1> QED
  BY <1>3, <1>4, <1>5, <1>6, <1>7, CrashStep DEF Next

LEMMA Triangle ==
    ASSUME NEW k \in Nat
    PROVE  /\ k * (k + 1) \in Nat /\ (k + 1) * ((k + 1) + 1) = k * (k + 1) + 2 * (k + 1)
           /\ (k + 1) * (k + 2) = k * (k + 1) + 2 * (k + 1)
OBVIOUS

(* The copies that are processed are among those regrouped. *)
LEMMA ProcessedBound ==
    ASSUME TypeInv, RegroupBound, NEW id \in Ids
    PROVE  /\ Cardinality(Positions(repartition, aggPos, id)) \in Nat
           /\ Cardinality(Positions(repartition, aggPos, id)) <= crashes + 1
<1>1. /\ aggPos \in Nat /\ Len(repartition) \in Nat /\ aggPos <= Len(repartition) /\ crashes \in Nat
  BY DEF TypeInv, TaskInv
<1>2. /\ Cardinality(Positions(repartition, aggPos, id)) \in Nat
      /\ Cardinality(Positions(repartition, Len(repartition), id)) \in Nat
      /\ Cardinality(Positions(repartition, aggPos, id))
            <= Cardinality(Positions(repartition, Len(repartition), id))
  BY <1>1, PositionsProperties
<1>3. Cardinality(Positions(repartition, Len(repartition), id)) <= crashes + 1
  <2>1. Cardinality(Positions(repartition, Len(repartition), id))
           <= crashes + (IF id[2] <= readPos[id[1]] THEN 1 ELSE 0)
    BY DEF RegroupBound
  <2> QED
    BY <1>1, <1>2, <2>1
<1> QED
  BY <1>1, <1>2, <1>3

LEMMA EntryBoundStep == TypeInv /\ RegroupBound /\ EntryBound /\ [Next]_vars => EntryBound'
<1> SUFFICES ASSUME TypeInv, RegroupBound, EntryBound, [Next]_vars,
                    NEW e \in AllEntries', NEW id \in Ids
             PROVE  2 * Cardinality(TimesIn(e.members, id))
                       <= crashes' * (crashes' + 1) + 2 * Cardinality(Positions(repartition', aggPos', id))
  BY DEF EntryBound, TimesIn, Positions
<1>0. /\ crashes \in Nat /\ aggPos \in Nat /\ Len(repartition) \in Nat /\ aggPos <= Len(repartition)
      /\ e \in AllEntries \/ (Aggregate /\ OnTime /\ e = NewEntry)
  BY EntriesKept DEF TypeInv, TaskInv
<1>1. PICK d \in Nat : d = Cardinality(Positions(repartition, aggPos, id)) /\ d <= crashes + 1
  BY ProcessedBound
<1>2. PICK K \in Nat : K = crashes * (crashes + 1)
  BY <1>0, Triangle
<1>3. ASSUME e \in AllEntries
      PROVE  /\ 2 * Cardinality(TimesIn(e.members, id)) <= K + 2 * d
             /\ Cardinality(TimesIn(e.members, id)) \in Nat
  <2>1. e.members \in Seq(Ids)
    BY <1>3, EntryTypes
  <2>2. Cardinality(TimesIn(e.members, id)) \in Nat
    BY <2>1, CopiesNext
  <2> QED
    BY <1>1, <1>2, <1>3, <2>2 DEF EntryBound
<1>4. CASE Aggregate
  <2>1. /\ aggPos' = aggPos + 1 /\ repartition' = repartition /\ crashes' = crashes
        /\ aggPos < Len(repartition)
    BY <1>4, AggregateStep
  <2>2. PICK f \in Nat : f = Cardinality(Positions(repartition', aggPos', id))
    BY <1>0, <2>1, PositionsProperties
  <2>3. d <= f /\ (NextRec.id = id => f = d + 1)
    <3>1. d <= f
      BY <1>0, <1>1, <2>1, <2>2, PositionsProperties, aggPos <= aggPos + 1
    <3>2. ASSUME NextRec.id = id PROVE f = d + 1
      BY <1>0, <1>1, <2>1, <2>2, <3>2, PositionsNext DEF NextRec
    <3> QED
      BY <3>1, <3>2
  <2>4. ASSUME e \in AllEntries PROVE 2 * Cardinality(TimesIn(e.members, id)) <= K + 2 * f
    BY <1>3, <2>3, <2>4
  <2>5. ASSUME OnTime, e = NewEntry PROVE 2 * Cardinality(TimesIn(e.members, id)) <= K + 2 * f
    <3>1. PICK old \in Lookup(WindowOf(NextRec.ts)) :
             old \in EntrySet /\ e.members = Append(old.members, NextRec.id)
      BY <2>1, <2>5, NewEntryProperties
    <3>2. PICK m \in Seq(Ids), x \in Ids : m = old.members /\ x = NextRec.id
      BY <2>1, <3>1, NextRecType DEF EntrySet
    <3>3. PICK c \in Nat : c = Cardinality(TimesIn(m, id)) /\ 2 * c <= K + 2 * d
      <4>1. CASE m = <<>>
        <5>1. TimesIn(m, id) = {}
          BY <4>1 DEF TimesIn
        <5>2. Cardinality(TimesIn(m, id)) = 0
          BY <5>1, FS_EmptySet
        <5> QED
          BY <5>2
      <4>2. CASE \E g \in AllEntries : m = g.members
        <5>1. PICK g \in AllEntries : m = g.members
          BY <4>2
        <5>2. Cardinality(TimesIn(m, id)) \in Nat
          BY CopiesNext, <3>2
        <5>3. 2 * Cardinality(TimesIn(m, id)) <= K + 2 * d
          BY <1>1, <1>2, <5>1 DEF EntryBound
        <5> QED
          BY <5>2, <5>3
      <4> QED
        BY <2>1, <3>1, <3>2, <4>1, <4>2, LookupIsEntry
    <3>4. PICK b \in Nat : b = Cardinality(TimesIn(e.members, id)) /\ b <= c + 1 /\ (x # id => b = c)
      BY <3>1, <3>2, <3>3, CopiesNext
    <3>5. CASE x = id
      BY <2>3, <3>2, <3>3, <3>4, <3>5
    <3>6. CASE x # id
      BY <2>3, <3>3, <3>4, <3>6
    <3> QED
      BY <3>5, <3>6
  <2> QED
    BY <1>0, <1>2, <2>1, <2>2, <2>4, <2>5
<1>5. ASSUME RestartStep, e \in AllEntries
      PROVE  2 * Cardinality(TimesIn(e.members, id))
                <= crashes' * (crashes' + 1) + 2 * Cardinality(Positions(repartition', aggPos', id))
  <2>1. crashes' = crashes + 1 /\ aggPos' \in Nat
    BY <1>5 DEF RestartStep, TypeInv, CommitInv
  <2>2. crashes' * (crashes' + 1) = K + 2 * (crashes + 1)
    BY <1>0, <1>2, <2>1, Triangle
  <2>3. PICK f \in Nat : f = Cardinality(Positions(repartition', aggPos', id))
    BY <2>1, PositionsProperties
  <2> QED
    BY <1>0, <1>1, <1>3, <1>5, <2>2, <2>3, SMTT(30)
<1>6. ASSUME crashes' = crashes, aggPos' = aggPos, e \in AllEntries,
             \A j \in 1 .. Len(repartition) : repartition'[j] = repartition[j]
      PROVE  2 * Cardinality(TimesIn(e.members, id))
                <= crashes' * (crashes' + 1) + 2 * Cardinality(Positions(repartition', aggPos', id))
  <2>1. \A j \in 1 .. aggPos : repartition'[j] = repartition[j]
    BY <1>0, <1>6
  <2>2. Positions(repartition', aggPos', id) = Positions(repartition, aggPos, id)
    BY <1>6, <2>1 DEF Positions
  <2> QED
    BY <1>1, <1>2, <1>3, <1>6, <2>2
<1>7. ASSUME NEW p \in Partitions, Forward(p)
      PROVE  /\ crashes' = crashes /\ aggPos' = aggPos /\ ~Aggregate
             /\ \A j \in 1 .. Len(repartition) : repartition'[j] = repartition[j]
  <2>1. aggPos' = aggPos
    BY <1>7 DEF Forward
  <2> QED
    BY <1>0, <1>7, <2>1, ForwardStep, AggregateStep
<1>8. ASSUME (\E p, v, ts : Produce(p, v, ts)) \/ Commit \/ UNCHANGED vars
      PROVE  crashes' = crashes /\ aggPos' = aggPos /\ repartition' = repartition /\ ~Aggregate
  <2>1. crashes' = crashes /\ aggPos' = aggPos /\ repartition' = repartition
    BY <1>8 DEF Produce, Commit, vars, taskVars
  <2> QED
    BY <1>0, <2>1, AggregateStep
<1>9. ASSUME Crash PROVE RestartStep /\ ~Aggregate
  <2>1. RestartStep /\ crashes' = crashes + 1
    BY <1>9, CrashStep DEF RestartStep
  <2> QED
    BY <1>0, <2>1, AggregateStep
<1> QED
  BY <1>0, <1>4, <1>5, <1>6, <1>7, <1>8, <1>9 DEF Next

(* After k crashes an emission counts no record more than 1 + ... + (k + 1) *)
(* times.                                                                   *)
THEOREM CopiesAreBounded == Spec => []CopiesBounded
<1>1. Init => RegroupBound /\ EntryBound
  <2> SUFFICES ASSUME Init PROVE RegroupBound /\ EntryBound
    OBVIOUS
  <2>1. /\ repartition = <<>> /\ changelog = <<>> /\ emitted = <<>> /\ buffer = <<>> /\ crashes = 0
        /\ committed.buffer = <<>> /\ readPos = [p \in Partitions |-> 0]
    BY DEF Init
  <2>2. AllEntries = {}
    BY <2>1 DEF AllEntries
  <2>3. \A id : Cardinality(Positions(repartition, Len(repartition), id)) = 0
    <3>1. \A id : Positions(repartition, Len(repartition), id) = {}
      BY <2>1 DEF Positions
    <3> QED
      BY <3>1, FS_EmptySet
  <2>4. RegroupBound
    BY <2>1, <2>3 DEF RegroupBound
  <2> QED
    BY <2>2, <2>4 DEF EntryBound
<1>2. TypeInv /\ RegroupBound /\ EntryBound => CopiesBounded
  <2> SUFFICES ASSUME TypeInv, RegroupBound, EntryBound, NEW i \in DOMAIN emitted,
                      NEW id \in ToSet(emitted[i].members)
               PROVE  2 * Cardinality({j \in DOMAIN emitted[i].members : emitted[i].members[j] = id})
                         <= (crashes + 1) * (crashes + 2)
    BY DEF CopiesBounded
  <2>1. PICK e : e = emitted[i] /\ e \in AllEntries
    <3>1. DOMAIN emitted = 1 .. Len(emitted)
      BY LenProperties DEF TypeInv, TaskInv
    <3> QED
      BY <3>1 DEF AllEntries
  <2>2. PICK m \in Seq(Ids) : m = e.members
    BY <2>1, EntryTypes
  <2>3. DOMAIN m = 1 .. Len(m) /\ id \in Ids
    BY <2>1, <2>2, LenProperties, ElementOfSeq DEF ToSet
  <2>4. {j \in DOMAIN m : m[j] = id} = TimesIn(m, id) /\ Cardinality(TimesIn(m, id)) \in Nat
    BY <2>3, CopiesNext DEF TimesIn
  <2>5. crashes \in Nat
    BY DEF TypeInv
  <2>6. PICK d \in Nat : d = Cardinality(Positions(repartition, aggPos, id)) /\ d <= crashes + 1
    BY <2>3, ProcessedBound
  <2>7. PICK K \in Nat : K = crashes * (crashes + 1) /\ (crashes + 1) * (crashes + 2) = K + 2 * (crashes + 1)
    BY <2>5, Triangle
  <2>8. 2 * Cardinality(TimesIn(m, id)) <= K + 2 * d
    BY <2>1, <2>2, <2>3, <2>6, <2>7 DEF EntryBound
  <2>9. 2 * Cardinality(TimesIn(m, id)) <= K + 2 * (crashes + 1)
    BY <2>4, <2>5, <2>6, <2>7, <2>8
  <2> QED
    BY <2>1, <2>2, <2>4, <2>7, <2>9
<1> QED
  BY <1>1, <1>2, RegroupStep, EntryBoundStep, TypesHold, PTL DEF Spec

-----------------------------------------------------------------------------
(* The totals of a sequence of flows, one flow at a time.                  *)

Addends(S, f) == [i \in 1 .. Len(f) |-> IF i \in S THEN f[i] ELSE 0]

LEMMA SumOverIsRunningSum ==
    ASSUME NEW S, NEW f, Len(f) \in Nat
    PROVE  \E g : IsRunningSum(g, Addends(S, f), Len(f)) /\ SumOver(S, f) = g[Len(f)]
<1> DEFINE n == Len(f)
           a == Addends(S, f)
           B(g) == [i \in 0 .. n |-> IF i = 0 THEN 0 ELSE g[i - 1] + (IF i \in S THEN f[i] ELSE 0)]
           c == CHOOSE g : g = B(g)
<1>1. SumOver(S, f) = c[n]
  BY DEF SumOver
<1>2. \A g : B(g) = [i \in 0 .. n |-> IF i = 0 THEN 0 ELSE g[i - 1] + a[i]]
  <2>1. \A i \in 0 .. n : i # 0 => i \in 1 .. n
    OBVIOUS
  <2>2. \A i \in 1 .. n : a[i] = IF i \in S THEN f[i] ELSE 0
    BY DEF Addends
  <2> QED
    BY <2>1, <2>2
<1> HIDE DEF B, a
<1>3. PICK h : IsRunningSum(h, a, n)
  BY RunningSumExists
<1>4. h = B(h)
  BY <1>2, <1>3 DEF IsRunningSum
<1>5. c = B(c)
  BY <1>4
<1> HIDE DEF c
<1>6. IsRunningSum(c, a, n)
  BY <1>2, <1>5 DEF IsRunningSum
<1> QED
  BY <1>1, <1>6 DEF a

LEMMA LenOfFunction ==
    ASSUME NEW n \in Nat, NEW R, NEW f \in [1 .. n -> R]
    PROVE  Len(f) = n
BY IsASeq, LenProperties

(* One more position adds its number, if it is in the set. *)
LEMMA SumOverNext ==
    ASSUME NEW n \in Nat, NEW S, NEW f \in [1 .. n -> Int],
           NEW T, NEW h \in [1 .. n + 1 -> Int], \A i \in 1 .. n : h[i] = f[i],
           T \cap 1 .. n = S \cap 1 .. n
    PROVE  SumOver(T, h) = SumOver(S, f) + (IF n + 1 \in T THEN h[n + 1] ELSE 0)
<1>0. Len(f) = n /\ Len(h) = n + 1
  BY LenOfFunction, n + 1 \in Nat
<1>1. PICK a, b : a = Addends(S, f) /\ b = Addends(T, h)
  OBVIOUS
<1>2. /\ \A i \in 1 .. n : a[i] = b[i] /\ a[i] \in Int
      /\ b[n + 1] = IF n + 1 \in T THEN h[n + 1] ELSE 0
  <2>1. \A i \in 1 .. n : i \in 1 .. n + 1 /\ (i \in T <=> i \in S)
    OBVIOUS
  <2>2. n + 1 \in 1 .. n + 1
    OBVIOUS
  <2> QED
    BY <1>0, <1>1, <2>1, <2>2 DEF Addends
<1>3. PICK g : IsRunningSum(g, a, n) /\ SumOver(S, f) = g[n]
  BY <1>0, <1>1, SumOverIsRunningSum
<1>4. PICK k : IsRunningSum(k, b, n + 1) /\ SumOver(T, h) = k[n + 1]
  BY <1>0, <1>1, SumOverIsRunningSum, n + 1 \in Nat
<1>5. g[n] = k[n] /\ k[n + 1] = k[n] + b[n + 1]
  BY <1>2, <1>3, <1>4, RunningSumExtends
<1>6. g[n] \in Int
  BY <1>2, <1>3, RunningSumType
<1> QED
  BY <1>2, <1>3, <1>4, <1>5, <1>6

LEMMA SumOverEmpty ==
    ASSUME NEW S, NEW f, Len(f) = 0
    PROVE  SumOver(S, f) = 0
<1>1. PICK g : IsRunningSum(g, Addends(S, f), 0) /\ SumOver(S, f) = g[0]
  BY SumOverIsRunningSum
<1> QED
  BY <1>1 DEF IsRunningSum

LEMMA TotalsEmpty ==
    ASSUME NEW F, DOMAIN F = {}
    PROVE  Totals(F) = NewAggregate
<1>1. ASSUME NEW f \in [1 .. 0 -> Int], NEW S PROVE SumOver(S, f) = 0
  BY LenOfFunction, SumOverEmpty, 0 \in Nat
<1>2. \A S : /\ SumOver(S, [i \in {} |-> F[i].byte_count]) = 0
             /\ SumOver(S, [i \in {} |-> F[i].packet_count]) = 0
             /\ \A f : SumOver(S, [i \in {} |-> F[i].tcp[f]]) = 0
  <2>1. /\ [i \in {} |-> F[i].byte_count] \in [1 .. 0 -> Int]
        /\ [i \in {} |-> F[i].packet_count] \in [1 .. 0 -> Int]
        /\ \A f : [i \in {} |-> F[i].tcp[f]] \in [1 .. 0 -> Int]
    OBVIOUS
  <2> QED
    BY <1>1, <2>1
<1>3. {FlowKey(F[i]) : i \in {}} = {} /\ Cardinality({}) = 0
  BY FS_EmptySet
<1> QED
  BY <1>2, <1>3 DEF Totals, NewAggregate

(* The aggregate of a window gains exactly one flow at a time. *)
LEMMA TotalsNext ==
    ASSUME NEW n \in Nat, NEW F \in [1 .. n -> FlowSet], NEW G \in [1 .. n + 1 -> FlowSet],
           \A i \in 1 .. n : G[i] = F[i]
    PROVE  Totals(G) = addFlow(Totals(F), G[n + 1])
<1>1. DOMAIN F = 1 .. n /\ DOMAIN G = 1 .. n + 1
  OBVIOUS
<1>3. /\ n + 1 \in 1 .. n + 1 /\ \A i \in 1 .. n : i \in 1 .. n + 1
      /\ \A i \in 1 .. n + 1 : i \in 1 .. n \/ i = n + 1
  OBVIOUS
<1> DEFINE In(d) == {i \in 1 .. n : F[i].dir = d}
           InNext(d) == {i \in 1 .. n + 1 : G[i].dir = d}
<1>4. \A d : /\ n + 1 \in InNext(d) <=> G[n + 1].dir = d
             /\ InNext(d) \cap 1 .. n = In(d) \cap 1 .. n
  BY <1>3
<1> HIDE DEF In, InNext
<1>5. ASSUME NEW d
      PROVE  SumOver(InNext(d), [i \in 1 .. n + 1 |-> G[i].byte_count])
                = SumOver(In(d), [i \in 1 .. n |-> F[i].byte_count])
                    + InDirection(G[n + 1], d, G[n + 1].byte_count)
  <2>1. PICK f, h : f = [i \in 1 .. n |-> F[i].byte_count] /\ h = [i \in 1 .. n + 1 |-> G[i].byte_count]
    OBVIOUS
  <2>2. /\ f \in [1 .. n -> Int] /\ h \in [1 .. n + 1 -> Int]
        /\ \A i \in 1 .. n : h[i] = f[i]
        /\ h[n + 1] = G[n + 1].byte_count
    BY <1>3, <2>1, FlowType
  <2>3. SumOver(InNext(d), h) = SumOver(In(d), f) + (IF n + 1 \in InNext(d) THEN h[n + 1] ELSE 0)
    BY <1>4, <2>2, SumOverNext
  <2> QED
    BY <1>4, <2>1, <2>2, <2>3 DEF InDirection
<1>6. ASSUME NEW d
      PROVE  SumOver(InNext(d), [i \in 1 .. n + 1 |-> G[i].packet_count])
                = SumOver(In(d), [i \in 1 .. n |-> F[i].packet_count])
                    + InDirection(G[n + 1], d, G[n + 1].packet_count)
  <2>1. PICK f, h : /\ f = [i \in 1 .. n |-> F[i].packet_count]
                    /\ h = [i \in 1 .. n + 1 |-> G[i].packet_count]
    OBVIOUS
  <2>2. /\ f \in [1 .. n -> Int] /\ h \in [1 .. n + 1 -> Int]
        /\ \A i \in 1 .. n : h[i] = f[i]
        /\ h[n + 1] = G[n + 1].packet_count
    BY <1>3, <2>1, FlowType
  <2>3. SumOver(InNext(d), h) = SumOver(In(d), f) + (IF n + 1 \in InNext(d) THEN h[n + 1] ELSE 0)
    BY <1>4, <2>2, SumOverNext
  <2> QED
    BY <1>4, <2>1, <2>2, <2>3 DEF InDirection
<1>7. ASSUME NEW q \in Flags
      PROVE  SumOver(1 .. n + 1, [i \in 1 .. n + 1 |-> G[i].tcp[q]])
                = SumOver(1 .. n, [i \in 1 .. n |-> F[i].tcp[q]]) + G[n + 1].tcp[q]
  <2>1. PICK f, h : f = [i \in 1 .. n |-> F[i].tcp[q]] /\ h = [i \in 1 .. n + 1 |-> G[i].tcp[q]]
    OBVIOUS
  <2>2. /\ f \in [1 .. n -> Int] /\ h \in [1 .. n + 1 -> Int]
        /\ \A i \in 1 .. n : h[i] = f[i]
        /\ h[n + 1] = G[n + 1].tcp[q]
    BY <1>3, <2>1, FlowType
  <2>3. PICK S, T : S = 1 .. n /\ T = 1 .. n + 1
    OBVIOUS
  <2>4. n + 1 \in T /\ T \cap 1 .. n = S \cap 1 .. n
    BY <1>3, <2>3
  <2>5. SumOver(T, h) = SumOver(S, f) + (IF n + 1 \in T THEN h[n + 1] ELSE 0)
    BY <2>2, <2>4, SumOverNext
  <2> QED
    BY <2>1, <2>2, <2>3, <2>4, <2>5
<1>8. PICK K, L : K = {FlowKey(F[i]) : i \in 1 .. n} /\ L = {FlowKey(G[i]) : i \in 1 .. n + 1}
  OBVIOUS
<1>9. L = K \cup {FlowKey(G[n + 1])}
  BY <1>3, <1>8
<1>10. Cardinality(L) = Cardinality(K) + (IF FlowKey(G[n + 1]) \notin K THEN 1 ELSE 0)
  <2>1. IsFiniteSet(1 .. n)
    BY FS_Interval, 1 \in Int, n \in Int
  <2>2. IsFiniteSet(K)
    <3>1. PICK f : f = [i \in 1 .. n |-> FlowKey(F[i])]
      OBVIOUS
    <3>2. f \in [1 .. n -> K] /\ \A y \in K : \E i \in 1 .. n : f[i] = y
      BY <1>8, <3>1
    <3>3. f \in Surjection(1 .. n, K)
      BY <3>2 DEF Surjection
    <3> QED
      BY <2>1, <3>3, FS_Surjection
  <2>3. Cardinality(K) \in Nat
    BY <2>2, FS_CardinalityType
  <2>4. CASE FlowKey(G[n + 1]) \in K
    <3>1. L = K
      BY <1>9, <2>4
    <3> QED
      BY <2>3, <2>4, <3>1
  <2>5. CASE FlowKey(G[n + 1]) \notin K
    BY <1>9, <2>2, <2>5, FS_AddElement
  <2> QED
    BY <2>4, <2>5
<1>11. PICK A : A = Totals(F)
  OBVIOUS
<1>12. /\ A.bytes_inbound = SumOver(In("INBOUND"), [i \in 1 .. n |-> F[i].byte_count])
       /\ A.bytes_outbound = SumOver(In("OUTBOUND"), [i \in 1 .. n |-> F[i].byte_count])
       /\ A.packets_inbound = SumOver(In("INBOUND"), [i \in 1 .. n |-> F[i].packet_count])
       /\ A.packets_outbound = SumOver(In("OUTBOUND"), [i \in 1 .. n |-> F[i].packet_count])
       /\ A.tcp = [q \in Flags |-> SumOver(1 .. n, [i \in 1 .. n |-> F[i].tcp[q]])]
       /\ A.unique_flow_count = Cardinality(K) /\ A.flowKeys = K
  BY <1>1, <1>8, <1>11 DEF Totals, In
<1>13. Totals(G) =
         [bytes_inbound |-> SumOver(InNext("INBOUND"), [i \in 1 .. n + 1 |-> G[i].byte_count]),
          bytes_outbound |-> SumOver(InNext("OUTBOUND"), [i \in 1 .. n + 1 |-> G[i].byte_count]),
          packets_inbound |-> SumOver(InNext("INBOUND"), [i \in 1 .. n + 1 |-> G[i].packet_count]),
          packets_outbound |-> SumOver(InNext("OUTBOUND"), [i \in 1 .. n + 1 |-> G[i].packet_count]),
          tcp |-> [q \in Flags |-> SumOver(1 .. n + 1, [i \in 1 .. n + 1 |-> G[i].tcp[q]])],
          unique_flow_count |-> Cardinality(L), flowKeys |-> L]
  BY <1>1, <1>8 DEF Totals, InNext
<1>14. [q \in Flags |-> SumOver(1 .. n + 1, [i \in 1 .. n + 1 |-> G[i].tcp[q]])]
          = [q \in Flags |-> A.tcp[q] + G[n + 1].tcp[q]]
  BY <1>7, <1>12
<1>15. addFlow(A, G[n + 1]) =
         [bytes_inbound |-> A.bytes_inbound + InDirection(G[n + 1], "INBOUND", G[n + 1].byte_count),
          bytes_outbound |-> A.bytes_outbound + InDirection(G[n + 1], "OUTBOUND", G[n + 1].byte_count),
          packets_inbound |-> A.packets_inbound + InDirection(G[n + 1], "INBOUND", G[n + 1].packet_count),
          packets_outbound |-> A.packets_outbound + InDirection(G[n + 1], "OUTBOUND", G[n + 1].packet_count),
          tcp |-> [q \in Flags |-> A.tcp[q] + G[n + 1].tcp[q]],
          unique_flow_count |-> A.unique_flow_count + (IF FlowKey(G[n + 1]) \notin A.flowKeys THEN 1 ELSE 0),
          flowKeys |-> A.flowKeys \cup {FlowKey(G[n + 1])}]
  BY DEF addFlow
<1> QED
  BY <1>5, <1>6, <1>9, <1>10, <1>11, <1>12, <1>13, <1>14, <1>15, ZenonT(30)

-----------------------------------------------------------------------------
(* Every entry carries the totals of its members.                          *)

\* With rw as the raw topic: record id can be read and parsed, and the flows
\* of a list of records.
Readable(rw, id) == id[2] \in 1 .. Len(rw[id[1]]) /\ rw[id[1]][id[2]].value # Corrupt

FlowsOf(rw, m) == [i \in DOMAIN m |-> ReadJson(rw[m[i][1]][m[i][2]].value)]

SumsInv ==
    \A e \in AllEntries : /\ \A i \in 1 .. Len(e.members) : Readable(raw, e.members[i])
                          /\ e.agg = Totals(FlowsOf(raw, e.members))

LEMMA RawKept ==
    ASSUME TypeInv, [Next]_vars, NEW id \in Ids, Readable(raw, id)
    PROVE  Readable(raw', id) /\ raw'[id[1]][id[2]] = raw[id[1]][id[2]]
<1>1. PICK p, k : p = id[1] /\ k = id[2] /\ p \in Partitions /\ k \in 1 .. Len(raw[p])
                  /\ raw[p][k].value # Corrupt
  BY DEF Ids, Readable
<1>2. ASSUME NEW q \in Partitions, NEW v \in Events \cup {Corrupt}, NEW ts \in now .. MaxTime,
             Produce(q, v, ts)
      PROVE  k \in 1 .. Len(raw'[p]) /\ raw'[p][k] = raw[p][k]
  <2>1. /\ Len(raw[p]) <= Len(raw'[p]) /\ raw'[p][k] = raw[p][k]
        /\ Len(raw[p]) \in Nat /\ Len(raw'[p]) \in Nat
    <3>1. TypeInv' /\ Len(raw[p]) <= Len(raw'[p]) /\ raw'[p][k] = raw[p][k]
      BY <1>1, <1>2, ProduceTypes
    <3>2. raw[p] \in Seq(RawSet) /\ raw'[p] \in Seq(RawSet)
      BY <1>1, <3>1 DEF TypeInv, InputInv
    <3> QED
      BY <3>1, <3>2, LenProperties
  <2> QED
    BY <1>1, <2>1
<1>3. CASE raw' = raw
  BY <1>1, <1>3 DEF Readable
<1>4. k \in 1 .. Len(raw'[p]) /\ raw'[p][k] = raw[p][k] => Readable(raw', id) /\ raw'[p][k] = raw[p][k]
  BY <1>1 DEF Readable
<1>5. ASSUME NEW q, Forward(q) PROVE raw' = raw
  BY <1>5 DEF Forward
<1>6. ASSUME Aggregate \/ Commit \/ Crash \/ UNCHANGED vars PROVE raw' = raw
  BY <1>6 DEF Aggregate, Commit, Crash, Restart, vars
<1> QED
  BY <1>1, <1>2, <1>3, <1>4, <1>5, <1>6 DEF Next

LEMMA ReadableFlow ==
    ASSUME TypeInv, NEW id \in Ids, Readable(raw, id)
    PROVE  ReadJson(raw[id[1]][id[2]].value) \in FlowSet
<1>1. id[1] \in Partitions /\ id[2] \in 1 .. Len(raw[id[1]]) /\ raw[id[1]] \in Seq(RawSet)
  BY DEF Ids, Readable, TypeInv, InputInv
<1>2. raw[id[1]][id[2]] \in RawSet
  BY <1>1, ElementOfSeq
<1>3. raw[id[1]][id[2]].value \in Events
  BY <1>2 DEF RawSet, Readable
<1> QED
  BY <1>3 DEF FlowSet

LEMMA FlowsOfAppend ==
    ASSUME NEW rw, NEW m \in Seq(Ids), NEW x \in Ids,
           \A i \in 1 .. Len(m) : ReadJson(rw[m[i][1]][m[i][2]].value) \in FlowSet,
           ReadJson(rw[x[1]][x[2]].value) \in FlowSet
    PROVE  Totals(FlowsOf(rw, Append(m, x)))
              = addFlow(Totals(FlowsOf(rw, m)), ReadJson(rw[x[1]][x[2]].value))
<1>1. PICK l \in Seq(Ids) : l = Append(m, x)
  BY AppendProperties
<1>2. PICK n \in Nat : n = Len(m)
  BY LenProperties
<1>3. /\ Len(l) = n + 1 /\ l[n + 1] = x /\ (\A i \in 1 .. n : l[i] = m[i])
      /\ DOMAIN l = 1 .. n + 1 /\ DOMAIN m = 1 .. n
  BY <1>1, <1>2, AppendProperties, LenProperties
<1>4. PICK F, G : F = FlowsOf(rw, m) /\ G = FlowsOf(rw, l)
  OBVIOUS
<1>5. F = [i \in 1 .. n |-> ReadJson(rw[m[i][1]][m[i][2]].value)]
      /\ G = [i \in 1 .. n + 1 |-> ReadJson(rw[l[i][1]][l[i][2]].value)]
  BY <1>3, <1>4 DEF FlowsOf
<1>6. n + 1 \in 1 .. n + 1 /\ \A i \in 1 .. n : i \in 1 .. n + 1
  OBVIOUS
<1>7. \A i \in 1 .. n : G[i] = F[i]
  BY <1>3, <1>5, <1>6
<1>8. G[n + 1] = ReadJson(rw[x[1]][x[2]].value)
  BY <1>3, <1>5, <1>6
<1>9. F \in [1 .. n -> FlowSet]
  BY <1>2, <1>5
<1>10. G \in [1 .. n + 1 -> FlowSet]
  <2>1. \A i \in 1 .. n + 1 : i \in 1 .. n \/ i = n + 1
    OBVIOUS
  <2>2. \A i \in 1 .. n + 1 : G[i] \in FlowSet
    BY <1>7, <1>8, <1>9, <2>1
  <2> QED
    BY <1>5, <2>2
<1>11. Totals(G) = addFlow(Totals(F), G[n + 1])
  BY <1>7, <1>9, <1>10, TotalsNext
<1> QED
  BY <1>1, <1>4, <1>8, <1>11

LEMMA SumsStep == TypeInv /\ SourceInv /\ SumsInv /\ [Next]_vars => SumsInv'
<1> SUFFICES ASSUME TypeInv, SourceInv, SumsInv, [Next]_vars, NEW e \in AllEntries'
             PROVE  /\ \A i \in 1 .. Len(e.members) : Readable(raw', e.members[i])
                    /\ e.agg = Totals(FlowsOf(raw', e.members))
  BY DEF SumsInv, Readable, FlowsOf
<1>1. CASE e \in AllEntries
  <2>1. PICK m \in Seq(Ids) : m = e.members
    BY <1>1, EntryTypes
  <2>2. DOMAIN m = 1 .. Len(m) /\ \A i \in 1 .. Len(m) : m[i] \in Ids /\ Readable(raw, m[i])
    BY <1>1, <2>1, LenProperties, ElementOfSeq DEF SumsInv
  <2>3. \A i \in 1 .. Len(m) :
           Readable(raw', m[i]) /\ raw'[m[i][1]][m[i][2]] = raw[m[i][1]][m[i][2]]
    BY <2>2, RawKept
  <2>4. FlowsOf(raw', m) = FlowsOf(raw, m)
    BY <2>2, <2>3 DEF FlowsOf
  <2> QED
    BY <1>1, <2>1, <2>3, <2>4 DEF SumsInv
<1>2. CASE Aggregate /\ OnTime /\ e = NewEntry
  <2>1. aggPos < Len(repartition) /\ raw' = raw /\ aggPos + 1 \in 1 .. Len(repartition)
    BY <1>2, AggregateStep
  <2>2. PICK old \in Lookup(WindowOf(NextRec.ts)) :
           /\ old \in EntrySet /\ e.members = Append(old.members, NextRec.id)
           /\ e.agg = addFlow(old.agg, NextRec.flow)
    BY <1>2, <2>1, NewEntryProperties
  <2>3. PICK m \in Seq(Ids), x \in Ids : m = old.members /\ x = NextRec.id
    BY <2>1, <2>2, NextRecType DEF EntrySet
  <2>4. Readable(raw, x) /\ NextRec.flow = ReadJson(raw[x[1]][x[2]].value)
    BY <2>1, <2>3 DEF SourceInv, NextRec, Readable, FlowOf
  <2>5. /\ \A i \in 1 .. Len(m) : Readable(raw, m[i])
        /\ old.agg = Totals(FlowsOf(raw, m))
    <3>1. CASE m = <<>> /\ old.agg = NewAggregate
      <4>1. Len(m) = 0 /\ DOMAIN FlowsOf(raw, m) = {}
        BY <3>1 DEF FlowsOf
      <4> QED
        BY <3>1, <4>1, TotalsEmpty
    <3>2. CASE \E g \in AllEntries : m = g.members /\ old.agg = g.agg
      BY <3>2 DEF SumsInv
    <3> QED
      BY <2>1, <2>2, <2>3, <3>1, <3>2, LookupIsEntry
  <2>6. \A i \in 1 .. Len(m) : m[i] \in Ids
    BY ElementOfSeq
  <2>7. /\ \A i \in 1 .. Len(m) : ReadJson(raw[m[i][1]][m[i][2]].value) \in FlowSet
        /\ ReadJson(raw[x[1]][x[2]].value) \in FlowSet
    BY <2>4, <2>5, <2>6, ReadableFlow
  <2>8. Totals(FlowsOf(raw, Append(m, x)))
           = addFlow(Totals(FlowsOf(raw, m)), ReadJson(raw[x[1]][x[2]].value))
    BY <2>7, FlowsOfAppend
  <2>9. e.agg = Totals(FlowsOf(raw, e.members))
    BY <2>2, <2>3, <2>4, <2>5, <2>8
  <2>10. \A i \in 1 .. Len(e.members) : Readable(raw, e.members[i])
    <3>1. PICK l \in Seq(Ids) : l = Append(m, x)
      BY AppendProperties
    <3>2. /\ Len(l) = Len(m) + 1 /\ l[Len(m) + 1] = x /\ Len(m) \in Nat
          /\ \A i \in 1 .. Len(m) : l[i] = m[i]
      BY <3>1, AppendProperties, LenProperties
    <3>3. \A i \in 1 .. Len(l) : i \in 1 .. Len(m) \/ i = Len(m) + 1
      BY <3>2
    <3>4. \A i \in 1 .. Len(l) : Readable(raw, l[i])
      BY <2>4, <2>5, <3>2, <3>3
    <3> QED
      BY <2>2, <2>3, <3>1, <3>4
  <2> QED
    BY <2>1, <2>9, <2>10
<1> QED
  BY <1>1, <1>2, EntriesKept

LEMMA SumsInit == Init => SumsInv
<1> SUFFICES ASSUME Init PROVE AllEntries = {}
  BY DEF SumsInv
<1> QED
  BY DEF Init, AllEntries

LEMMA SumsGive ==
    ASSUME TypeInv, SumsInv, NEW i \in DOMAIN emitted
    PROVE  emitted[i].agg = Expected(emitted[i].members)
<1>1. emitted[i] \in AllEntries
  <2>1. DOMAIN emitted = 1 .. Len(emitted)
    BY LenProperties DEF TypeInv, TaskInv
  <2> QED
    BY <2>1 DEF AllEntries
<1> QED
  BY <1>1 DEF SumsInv, Expected, FlowsOf, FlowOf

-----------------------------------------------------------------------------
(* Without crashes a window consists of exactly its members.               *)

\* Members, of the first n of the records r.
MembersOf(r, n, w) ==
    {i \in 1 .. n : /\ WindowOf(r[i].ts) = w
                    /\ \A j \in 1 .. i - 1 : r[j].ts < w + WindowSize}

\* The list m has every record at the positions in P once.
FullOf(m, r, P) == ToSet(m) = {r[j].id : j \in P} /\ Len(m) = Cardinality(P)

WindowInv ==
    crashes = 0 =>
        /\ \A w \in 0 .. MaxTime : EntriesOf(w) = {} => MembersOf(repartition, aggPos, w) = {}
        /\ \A i \in 1 .. Len(changelog) :
              (\A j \in 1 .. Len(changelog) : changelog[j].window = changelog[i].window => j <= i)
                 => FullOf(changelog[i].members, repartition,
                           MembersOf(repartition, aggPos, changelog[i].window))
        /\ \A w \in DOMAIN buffer :
              /\ FullOf(buffer[w].members, repartition, MembersOf(repartition, aggPos, w))
              /\ MembersOf(repartition, aggPos, w) # {}
        /\ \A i \in 1 .. Len(emitted) :
              /\ FullOf(emitted[i].members, repartition,
                        MembersOf(repartition, aggPos, emitted[i].window))
              /\ MembersOf(repartition, aggPos, emitted[i].window) # {}
        /\ \A w \in 0 .. MaxTime :
              MembersOf(repartition, aggPos, w) # {}
                 => w \in DOMAIN buffer \/ \E i \in 1 .. Len(emitted) : emitted[i].window = w

(* The record processed next is a member of its window unless it is late.  *)
LEMMA MembersNext ==
    ASSUME TypeInv, TimeInv, crashes = 0, Aggregate, NEW w
    PROVE  /\ OnTime /\ w = WindowOf(NextRec.ts)
                => MembersOf(repartition, aggPos', w) = MembersOf(repartition, aggPos, w) \cup {aggPos + 1}
           /\ TooLate \/ w # WindowOf(NextRec.ts)
                => MembersOf(repartition, aggPos', w) = MembersOf(repartition, aggPos, w)
<1>1. /\ aggPos' = aggPos + 1 /\ streamTime <= streamTime' /\ streamTime' \in Int
      /\ aggPos \in Nat /\ streamTime \in Int /\ aggPos < Len(repartition) /\ NextRec = repartition[aggPos + 1]
      /\ aggPos <= Len(repartition) /\ Len(repartition) \in Nat
  BY AggregateStep DEF TypeInv, TaskInv, NextRec
<1>2. \A i \in 1 .. aggPos + 1 : i \in 1 .. aggPos \/ i = aggPos + 1
  BY <1>1
<1>3. \A i \in 1 .. aggPos : i \in 1 .. aggPos + 1 /\ i # aggPos + 1
  BY <1>1
<1>4. (aggPos + 1) - 1 = aggPos /\ aggPos + 1 \in 1 .. aggPos + 1
  BY <1>1
<1> DEFINE In(i) == WindowOf(repartition[i].ts) = w /\ \A j \in 1 .. i - 1 : repartition[j].ts < w + WindowSize
<1>5. /\ MembersOf(repartition, aggPos', w) = {i \in 1 .. aggPos + 1 : In(i)}
      /\ MembersOf(repartition, aggPos, w) = {i \in 1 .. aggPos : In(i)}
  BY <1>1 DEF MembersOf
<1>6. In(aggPos + 1) <=> /\ WindowOf(NextRec.ts) = w
                         /\ \A j \in 1 .. aggPos : repartition[j].ts < w + WindowSize
  BY <1>1, <1>4
<1> HIDE DEF In
<1>7. In(aggPos + 1) => {i \in 1 .. aggPos + 1 : In(i)} = {i \in 1 .. aggPos : In(i)} \cup {aggPos + 1}
  BY <1>2, <1>3, <1>4
<1>8. ~In(aggPos + 1) => {i \in 1 .. aggPos + 1 : In(i)} = {i \in 1 .. aggPos : In(i)}
  BY <1>2, <1>3, <1>4
<1>9. WindowSize \in Nat /\ WindowOf(NextRec.ts) \in Int
  BY <1>1, NextRecType, AggregatorAssumptions
<1>10. ASSUME OnTime, w = WindowOf(NextRec.ts) PROVE In(aggPos + 1)
  <2>1. streamTime' < w + WindowSize
    BY <1>1, <1>9, <1>10 DEF OnTime, IsLate, Closed
  <2>2. ASSUME NEW j \in 1 .. aggPos PROVE repartition[j].ts < w + WindowSize
    <3>1. repartition[j].ts <= streamTime
      BY DEF TimeInv
    <3>2. repartition[j].ts \in 0 .. MaxTime
      BY <1>1, IdType
    <3> QED
      BY <1>1, <1>9, <1>10, <2>1, <3>1, <3>2
  <2> QED
    BY <1>6, <1>10, <2>2
<1>11. ASSUME TooLate, w = WindowOf(NextRec.ts) PROVE ~In(aggPos + 1)
  <2>1. w + WindowSize <= streamTime /\ w >= 0
    BY <1>1, <1>11, LateKeepsTime, NextRecType
  <2>2. PICK j \in 1 .. aggPos : repartition[j].ts = streamTime
    <3>1. streamTime # -1
      BY <1>9, <1>11, <2>1
    <3> QED
      BY <3>1 DEF TimeInv
  <2>3. ~(repartition[j].ts < w + WindowSize)
    BY <1>1, <1>9, <1>11, <2>1, <2>2
  <2> QED
    BY <1>6, <2>2, <2>3
<1>12. w # WindowOf(NextRec.ts) => ~In(aggPos + 1)
  BY <1>6
<1> QED
  BY <1>5, <1>7, <1>8, <1>10, <1>11, <1>12

LEMMA FullNext ==
    ASSUME NEW m \in Seq(Ids), NEW x \in Ids, NEW n \in Nat, NEW r, r[n + 1].id = x,
           NEW P, P \subseteq 1 .. n, FullOf(m, r, P)
    PROVE  FullOf(Append(m, x), r, P \cup {n + 1}) /\ P \cup {n + 1} # {}
<1>1. PICK l \in Seq(Ids) : l = Append(m, x)
  BY AppendProperties
<1>2. /\ Len(l) = Len(m) + 1 /\ l[Len(m) + 1] = x /\ (\A i \in 1 .. Len(m) : l[i] = m[i])
      /\ DOMAIN l = 1 .. Len(l) /\ DOMAIN m = 1 .. Len(m) /\ Len(m) \in Nat
  BY <1>1, AppendProperties, LenProperties
<1>3. /\ \A i \in 1 .. Len(l) : i \in 1 .. Len(m) \/ i = Len(m) + 1
      /\ \A i \in 1 .. Len(m) : i \in 1 .. Len(l)
      /\ Len(m) + 1 \in 1 .. Len(l)
  BY <1>2
<1>4. ToSet(l) = ToSet(m) \cup {x}
  <2>1. ToSet(l) = {l[i] : i \in 1 .. Len(l)} /\ ToSet(m) = {m[i] : i \in 1 .. Len(m)}
    BY <1>2 DEF ToSet
  <2> QED
    BY <1>2, <1>3, <2>1
<1>5. {r[j].id : j \in P \cup {n + 1}} = {r[j].id : j \in P} \cup {x}
  OBVIOUS
<1>6. Cardinality(P \cup {n + 1}) = Cardinality(P) + 1
  <2>1. IsFiniteSet(P)
    BY PositionsFinite
  <2>2. n + 1 \notin P
    OBVIOUS
  <2> QED
    BY <2>1, <2>2, FS_AddElement
<1> QED
  BY <1>1, <1>2, <1>4, <1>5, <1>6 DEF FullOf

LEMMA WindowAggregate ==
    ASSUME TypeInv, OrderInv, TimeInv, HorizonInv, WindowInv, crashes = 0, Aggregate, OnTime
    PROVE  WindowInv'
<1> DEFINE w0 == WindowOf(NextRec.ts)
           M(w) == MembersOf(repartition, aggPos, w)
           N(w) == MembersOf(repartition, aggPos', w)
<1>1. /\ aggPos < Len(repartition) /\ repartition' = repartition /\ aggPos' = aggPos + 1
      /\ crashes' = 0 /\ streamTime \in Int /\ streamTime' \in Int /\ streamTime <= streamTime'
      /\ w0 \in 0 .. MaxTime /\ w0 \in Int /\ WindowSize \in Nat /\ MaxTime \in Nat
      /\ NextRec = repartition[aggPos + 1] /\ NextRec.id \in Ids /\ aggPos \in Nat
      /\ Events # {} /\ changelog \in Seq(EntrySet) /\ Len(changelog) \in Nat
      /\ Len(emitted) \in Nat /\ ~Closed(w0, streamTime')
  <2>1. /\ aggPos < Len(repartition) /\ repartition' = repartition /\ aggPos' = aggPos + 1
        /\ crashes' = crashes /\ streamTime' \in Int /\ streamTime <= streamTime'
    BY AggregateStep
  <2>2. w0 \in 0 .. MaxTime /\ NextRec.id \in Ids /\ Events # {}
    BY <2>1, NextRecType
  <2>3. /\ streamTime \in Int /\ changelog \in Seq(EntrySet) /\ Len(changelog) \in Nat
        /\ Len(emitted) \in Nat /\ aggPos \in Nat
    BY DEF TypeInv, TaskInv
  <2>4. NextRec = repartition[aggPos + 1] /\ ~Closed(w0, streamTime')
    BY DEF NextRec, OnTime, IsLate
  <2>5. WindowSize \in Nat /\ MaxTime \in Nat
    BY AggregatorAssumptions
  <2> QED
    BY <2>1, <2>2, <2>3, <2>4, <2>5
<1>2. N(w0) = M(w0) \cup {aggPos + 1} /\ \A w : w # w0 => N(w) = M(w)
  BY MembersNext
<1>3. M(w0) \subseteq 1 .. aggPos
  BY DEF MembersOf
<1>4. PICK e \in EntrySet : e = NewEntry
  BY <1>1, NewEntryProperties
<1>5. e.window = w0
  BY <1>1, <1>4, NewEntryProperties
<1>i. /\ \A w \in 0 .. MaxTime : EntriesOf(w) = {} => M(w) = {}
      /\ \A i \in 1 .. Len(changelog) :
            (\A j \in 1 .. Len(changelog) : changelog[j].window = changelog[i].window => j <= i)
               => FullOf(changelog[i].members, repartition, M(changelog[i].window))
      /\ \A w \in DOMAIN buffer : FullOf(buffer[w].members, repartition, M(w)) /\ M(w) # {}
      /\ \A i \in 1 .. Len(emitted) :
            FullOf(emitted[i].members, repartition, M(emitted[i].window)) /\ M(emitted[i].window) # {}
      /\ \A w \in 0 .. MaxTime :
            M(w) # {} => w \in DOMAIN buffer \/ \E i \in 1 .. Len(emitted) : emitted[i].window = w
  BY DEF WindowInv
<1> HIDE DEF M, N, w0
<1>6. FullOf(e.members, repartition, N(w0)) /\ N(w0) # {}
  <2>1. PICK old \in Lookup(w0) : old \in EntrySet /\ e.members = Append(old.members, NextRec.id)
    BY <1>1, <1>4, NewEntryProperties DEF w0
  <2>2. PICK m \in Seq(Ids), x \in Ids : m = old.members /\ x = NextRec.id
    BY <1>1, <2>1 DEF EntrySet
  <2>3. FullOf(m, repartition, M(w0))
    <3>0. ~Expired(w0)
      <4>1. Expired(w0) => Closed(w0, -1)
        BY ExpiredIsClosed DEF HorizonInv, w0
      <4> QED
        BY <1>1, <4>1 DEF Closed
    <3>1. CASE EntriesOf(w0) = {}
      <4>0. \A i : i \notin EntriesOf(w0)
        BY <3>1
      <4>1. m = <<>> /\ M(w0) = {}
        BY <1>1, <1>i, <2>1, <2>2, <3>1, <4>0, LookupProperties
      <4>2. Len(m) = 0 /\ ToSet(m) = {} /\ Cardinality({}) = 0
        BY <4>1, FS_EmptySet DEF ToSet
      <4> QED
        BY <4>1, <4>2 DEF FullOf
    <3>2. CASE EntriesOf(w0) # {}
      <4>1. PICK i \in EntriesOf(w0) : (\A j \in EntriesOf(w0) : j <= i) /\ m = changelog[i].members
        BY <1>1, <2>1, <2>2, <3>0, <3>2, LookupProperties
      <4>2. /\ i \in 1 .. Len(changelog) /\ changelog[i].window = w0
            /\ \A j \in 1 .. Len(changelog) : changelog[j].window = w0 => j <= i
        BY <4>1 DEF EntriesOf
      <4> QED
        BY <1>i, <4>1, <4>2
    <3> QED
      BY <3>1, <3>2
  <2>4. PICK P : P = M(w0) /\ P \subseteq 1 .. aggPos
    BY <1>3
  <2>5. FullOf(Append(m, x), repartition, P \cup {aggPos + 1})
    BY <1>1, <2>2, <2>3, <2>4, FullNext
  <2> QED
    BY <1>2, <2>1, <2>2, <2>4, <2>5
<1>7. /\ Len(changelog') = Len(changelog) + 1 /\ changelog'[Len(changelog) + 1] = e
      /\ \A i \in 1 .. Len(changelog) : changelog'[i] = changelog[i]
  <2>1. changelog' = Append(changelog, e)
    BY <1>4 DEF OnTime
  <2> QED
    BY <1>1, <2>1, AppendProperties
<1>8. /\ \A i \in 1 .. Len(changelog') : i \in 1 .. Len(changelog) \/ i = Len(changelog) + 1
      /\ \A i \in 1 .. Len(changelog) : i \in 1 .. Len(changelog') /\ i < Len(changelog) + 1
      /\ Len(changelog) + 1 \in 1 .. Len(changelog')
  BY <1>1, <1>7
<1>9. PICK W : W = Waiting(e)
  OBVIOUS
<1>10. /\ DOMAIN W = DOMAIN buffer \cup {w0} /\ W[w0] = e
       /\ \A c \in DOMAIN buffer : c # w0 => W[c] = buffer[c]
       /\ \A c \in DOMAIN W : c \in Int /\ W[c].window = c
  <2>1. IsBuffer(W)
    BY <1>4, <1>9, OnTimeStep
  <2>2. \A c \in DOMAIN W : c \in Int /\ W[c].window = c
    BY <1>1, <2>1 DEF IsBuffer
  <2> QED
    BY <1>5, <1>9, <2>2, WaitingProperties
<1>11. /\ Len(emitted) <= Len(emitted') /\ Len(emitted') \in Nat
       /\ \A i \in 1 .. Len(emitted) : emitted'[i] = emitted[i]
       /\ \A i \in Len(emitted) + 1 .. Len(emitted') :
             \E c \in DOMAIN W : Closed(c, streamTime') /\ emitted'[i] = W[c]
       /\ \A c \in DOMAIN W :
             Closed(c, streamTime') => \E i \in 1 .. Len(emitted') : emitted'[i] = W[c]
       /\ DOMAIN buffer' = {c \in DOMAIN W : ~Closed(c, streamTime')}
       /\ \A c \in DOMAIN buffer' : buffer'[c] = W[c]
  BY <1>4, <1>9, OnTimeStep, LenProperties
<1>12. \A i \in 1 .. Len(emitted) : emitted[i].window # w0
  <2> TAKE i \in 1 .. Len(emitted)
  <2>1. emitted[i].window + WindowSize <= streamTime
    BY DEF OrderInv
  <2> QED
    BY <1>1, <2>1 DEF Closed
<1>13. \A c \in DOMAIN W : FullOf(W[c].members, repartition, N(c)) /\ N(c) # {}
  BY <1>2, <1>6, <1>i, <1>10
<1>14. \A w \in 0 .. MaxTime : EntriesOf(w)' = {} => N(w) = {}
  <2> SUFFICES ASSUME NEW w \in 0 .. MaxTime, EntriesOf(w)' = {} PROVE N(w) = {}
    OBVIOUS
  <2>1. \A i \in 1 .. Len(changelog') : changelog'[i].window # w
    BY DEF EntriesOf
  <2>2. w # w0
    BY <1>5, <1>7, <1>8, <2>1
  <2>3. EntriesOf(w) = {}
    BY <1>7, <1>8, <2>1 DEF EntriesOf
  <2> QED
    BY <1>2, <1>i, <2>2, <2>3
<1>15. \A i \in 1 .. Len(changelog') :
          (\A j \in 1 .. Len(changelog') : changelog'[j].window = changelog'[i].window => j <= i)
             => FullOf(changelog'[i].members, repartition, N(changelog'[i].window))
  <2> SUFFICES ASSUME NEW i \in 1 .. Len(changelog'),
                      \A j \in 1 .. Len(changelog') : changelog'[j].window = changelog'[i].window => j <= i
               PROVE  FullOf(changelog'[i].members, repartition, N(changelog'[i].window))
    OBVIOUS
  <2>1. CASE i = Len(changelog) + 1
    BY <1>5, <1>6, <1>7, <2>1
  <2>2. CASE i \in 1 .. Len(changelog)
    <3>1. changelog'[i] = changelog[i] /\ ~(Len(changelog) + 1 <= i)
      BY <1>1, <1>7, <2>2
    <3>2. changelog[i].window # w0
      BY <1>5, <1>7, <1>8, <3>1
    <3>3. \A j \in 1 .. Len(changelog) : changelog[j].window = changelog[i].window => j <= i
      BY <1>7, <1>8, <3>1
    <3> QED
      BY <1>2, <1>i, <2>2, <3>1, <3>2, <3>3
  <2> QED
    BY <1>8, <2>1, <2>2
<1>16. \A w \in DOMAIN buffer' : FullOf(buffer'[w].members, repartition, N(w)) /\ N(w) # {}
  BY <1>11, <1>13
<1>17. \A i \in 1 .. Len(emitted') :
          FullOf(emitted'[i].members, repartition, N(emitted'[i].window)) /\ N(emitted'[i].window) # {}
  <2> TAKE i \in 1 .. Len(emitted')
  <2>1. CASE i \in 1 .. Len(emitted)
    BY <1>2, <1>i, <1>11, <1>12, <2>1
  <2>2. CASE i \in Len(emitted) + 1 .. Len(emitted')
    <3>1. PICK c \in DOMAIN W : emitted'[i] = W[c]
      BY <1>11, <2>2
    <3> QED
      BY <1>10, <1>13, <3>1
  <2>3. i \in 1 .. Len(emitted) \/ i \in Len(emitted) + 1 .. Len(emitted')
    BY <1>1, <1>11
  <2> QED
    BY <2>1, <2>2, <2>3
<1>18. \A w \in 0 .. MaxTime :
          N(w) # {} => w \in DOMAIN buffer' \/ \E i \in 1 .. Len(emitted') : emitted'[i].window = w
  <2> SUFFICES ASSUME NEW w \in 0 .. MaxTime, N(w) # {}
               PROVE  w \in DOMAIN buffer' \/ \E i \in 1 .. Len(emitted') : emitted'[i].window = w
    OBVIOUS
  <2>1. CASE w \in DOMAIN W
    <3>1. CASE Closed(w, streamTime')
      <4>1. PICK i \in 1 .. Len(emitted') : emitted'[i] = W[w]
        BY <1>11, <2>1, <3>1
      <4>2. W[w].window = w
        BY <1>10, <2>1
      <4> QED
        BY <4>1, <4>2
    <3>2. CASE ~Closed(w, streamTime')
      BY <1>11, <2>1, <3>2
    <3> QED
      BY <3>1, <3>2
  <2>2. CASE \E i \in 1 .. Len(emitted) : emitted[i].window = w
    <3>1. PICK i \in 1 .. Len(emitted) : emitted[i].window = w
      BY <2>2
    <3>2. i \in 1 .. Len(emitted') /\ emitted'[i] = emitted[i]
      BY <1>1, <1>11
    <3> QED
      BY <3>1, <3>2
  <2>3. w \in DOMAIN W \/ \E i \in 1 .. Len(emitted) : emitted[i].window = w
    BY <1>2, <1>i, <1>10
  <2> QED
    BY <2>1, <2>2, <2>3
<1>19. \A w : N(w) = MembersOf(repartition', aggPos', w)
  BY <1>1 DEF N
<1>20. \A i \in 1 .. Len(changelog') :
          (\A j \in 1 .. Len(changelog') : changelog'[j].window = changelog'[i].window => j <= i)
             => FullOf(changelog'[i].members, repartition',
                       MembersOf(repartition', aggPos', changelog'[i].window))
  BY <1>1, <1>15, <1>19
<1>21. \A w \in 0 .. MaxTime : EntriesOf(w)' = {} => MembersOf(repartition', aggPos', w) = {}
  BY <1>14, <1>19
<1>22. /\ \A w \in DOMAIN buffer' :
             /\ FullOf(buffer'[w].members, repartition', MembersOf(repartition', aggPos', w))
             /\ MembersOf(repartition', aggPos', w) # {}
       /\ \A i \in 1 .. Len(emitted') :
             /\ FullOf(emitted'[i].members, repartition',
                       MembersOf(repartition', aggPos', emitted'[i].window))
             /\ MembersOf(repartition', aggPos', emitted'[i].window) # {}
  BY <1>1, <1>16, <1>17, <1>19
<1>23. \A w \in 0 .. MaxTime :
          MembersOf(repartition', aggPos', w) # {}
             => w \in DOMAIN buffer' \/ \E i \in 1 .. Len(emitted') : emitted'[i].window = w
  BY <1>18, <1>19
<1> QED
  BY <1>20, <1>21, <1>22, <1>23 DEF WindowInv

LEMMA WindowSame ==
    ASSUME TypeInv, WindowInv, crashes = 0, UNCHANGED <<changelog, buffer, emitted>>,
           \A j \in 1 .. aggPos : repartition'[j] = repartition[j],
           \A w : MembersOf(repartition, aggPos', w) = MembersOf(repartition, aggPos, w),
           aggPos' = aggPos \/ repartition' = repartition
    PROVE  WindowInv'
<1>1. \A w : MembersOf(repartition', aggPos', w) = MembersOf(repartition, aggPos, w)
  <2>1. CASE repartition' = repartition
    BY <2>1
  <2>2. CASE aggPos' = aggPos
    <3>1. \A i \in 1 .. aggPos : \A j \in 1 .. i - 1 : repartition'[j] = repartition[j]
      BY DEF TypeInv, TaskInv
    <3> QED
      BY <2>2, <3>1 DEF MembersOf
  <2> QED
    BY <2>1, <2>2
<1>2. \A m, w : FullOf(m, repartition', MembersOf(repartition', aggPos', w))
                   <=> FullOf(m, repartition, MembersOf(repartition, aggPos, w))
  <2> SUFFICES ASSUME NEW m, NEW w
               PROVE  FullOf(m, repartition', MembersOf(repartition, aggPos, w))
                         <=> FullOf(m, repartition, MembersOf(repartition, aggPos, w))
    BY <1>1
  <2>1. PICK P : P = MembersOf(repartition, aggPos, w) /\ P \subseteq 1 .. aggPos
    BY DEF MembersOf
  <2>2. \A j \in P : repartition'[j].id = repartition[j].id
    BY <2>1
  <2>3. {repartition'[j].id : j \in P} = {repartition[j].id : j \in P}
    BY <2>2
  <2> QED
    BY <2>1, <2>3 DEF FullOf
<1>3. \A w : EntriesOf(w)' = EntriesOf(w)
  BY DEF EntriesOf
<1>i. /\ \A w \in 0 .. MaxTime : EntriesOf(w) = {} => MembersOf(repartition, aggPos, w) = {}
      /\ \A i \in 1 .. Len(changelog) :
            (\A j \in 1 .. Len(changelog) : changelog[j].window = changelog[i].window => j <= i)
               => FullOf(changelog[i].members, repartition,
                         MembersOf(repartition, aggPos, changelog[i].window))
      /\ \A w \in DOMAIN buffer :
            /\ FullOf(buffer[w].members, repartition, MembersOf(repartition, aggPos, w))
            /\ MembersOf(repartition, aggPos, w) # {}
      /\ \A i \in 1 .. Len(emitted) :
            /\ FullOf(emitted[i].members, repartition, MembersOf(repartition, aggPos, emitted[i].window))
            /\ MembersOf(repartition, aggPos, emitted[i].window) # {}
      /\ \A w \in 0 .. MaxTime :
            MembersOf(repartition, aggPos, w) # {}
               => w \in DOMAIN buffer \/ \E i \in 1 .. Len(emitted) : emitted[i].window = w
  BY DEF WindowInv
<1>4. \A i \in 1 .. Len(changelog') :
         (\A j \in 1 .. Len(changelog') : changelog'[j].window = changelog'[i].window => j <= i)
            => FullOf(changelog'[i].members, repartition',
                      MembersOf(repartition', aggPos', changelog'[i].window))
  BY <1>2, <1>i
<1>5. \A w \in 0 .. MaxTime : EntriesOf(w)' = {} => MembersOf(repartition', aggPos', w) = {}
  BY <1>1, <1>3, <1>i
<1>6. /\ \A w \in DOMAIN buffer' :
            /\ FullOf(buffer'[w].members, repartition', MembersOf(repartition', aggPos', w))
            /\ MembersOf(repartition', aggPos', w) # {}
      /\ \A i \in 1 .. Len(emitted') :
            /\ FullOf(emitted'[i].members, repartition',
                      MembersOf(repartition', aggPos', emitted'[i].window))
            /\ MembersOf(repartition', aggPos', emitted'[i].window) # {}
  BY <1>1, <1>2, <1>i
<1>7. \A w \in 0 .. MaxTime :
         MembersOf(repartition', aggPos', w) # {}
            => w \in DOMAIN buffer' \/ \E i \in 1 .. Len(emitted') : emitted'[i].window = w
  BY <1>1, <1>i
<1> QED
  BY <1>4, <1>5, <1>6, <1>7 DEF WindowInv

LEMMA WindowStep ==
    TypeInv /\ OrderInv /\ TimeInv /\ HorizonInv /\ WindowInv /\ [Next]_vars => WindowInv'
<1> SUFFICES ASSUME TypeInv, OrderInv, TimeInv, HorizonInv, WindowInv, [Next]_vars, crashes' = 0
             PROVE  WindowInv'
  BY DEF WindowInv
<1>0. /\ crashes \in Nat /\ aggPos \in 0 .. Len(repartition) /\ Len(repartition) \in Nat
  BY DEF TypeInv, TaskInv
<1>1. CASE UNCHANGED <<changelog, buffer, emitted, aggPos, repartition, crashes>>
  BY <1>1, WindowSame
<1>2. CASE Aggregate
  <2>1. crashes = 0 /\ repartition' = repartition
    BY <1>2, AggregateStep
  <2>2. CASE OnTime
    BY <1>2, <2>1, <2>2, WindowAggregate
  <2>3. CASE TooLate
    <3>1. \A w : MembersOf(repartition, aggPos', w) = MembersOf(repartition, aggPos, w)
      BY <1>2, <2>1, <2>3, MembersNext
    <3> QED
      BY <2>1, <2>3, <3>1, WindowSame DEF TooLate
  <2> QED
    BY <1>2, <2>2, <2>3, AggregateStep
<1>3. ASSUME NEW p \in Partitions, Forward(p) PROVE WindowInv'
  <2>1. /\ UNCHANGED <<changelog, buffer, emitted, aggPos, crashes>>
        /\ \A i \in 1 .. Len(repartition) : repartition'[i] = repartition[i]
    BY <1>3, ForwardStep
  <2>2. \A i \in 1 .. aggPos : repartition'[i] = repartition[i]
    BY <1>0, <2>1
  <2> QED
    BY <2>1, <2>2, WindowSame
<1>4. ASSUME Crash PROVE FALSE
  <2>1. crashes' = crashes + 1
    BY <1>4 DEF Crash, Restart
  <2> QED
    BY <1>0, <2>1
<1>5. ASSUME NEW p, NEW v, NEW ts, Produce(p, v, ts)
      PROVE  UNCHANGED <<changelog, buffer, emitted, aggPos, repartition, crashes>>
  BY <1>5 DEF Produce, taskVars
<1>6. ASSUME Commit \/ UNCHANGED vars
      PROVE  UNCHANGED <<changelog, buffer, emitted, aggPos, repartition, crashes>>
  BY <1>6 DEF Commit, vars, taskVars
<1> QED
  BY <1>1, <1>2, <1>3, <1>4, <1>5, <1>6 DEF Next

(* Without crashes the emitted windows are those that are over.            *)
LEMMA EmittedIsOver ==
    ASSUME TypeInv, OrderInv, TimeInv, WindowInv, crashes = 0
    PROVE  {emitted[i].window : i \in DOMAIN emitted} = Over
<1>0. /\ DOMAIN emitted = 1 .. Len(emitted) /\ WindowSize \in Nat /\ MaxTime \in Nat
      /\ streamTime \in Int /\ aggPos \in Nat /\ aggPos <= Len(repartition) /\ Len(repartition) \in Nat
      /\ \A i \in 1 .. Len(emitted) : emitted[i] \in EntrySet
  BY LenProperties, ElementOfSeq, AggregatorAssumptions DEF TypeInv, TaskInv
<1>1. \A w : Members(w) = MembersOf(repartition, aggPos, w)
  BY DEF Members, MembersOf
<1>2. ASSUME NEW i \in 1 .. Len(emitted) PROVE emitted[i].window \in Over
  <2>1. PICK w : w = emitted[i].window /\ w \in 0 .. MaxTime
    BY <1>0 DEF EntrySet
  <2>2. Members(w) # {} /\ w + WindowSize <= streamTime
    BY <1>1, <2>1 DEF WindowInv, OrderInv
  <2>3. w \in {WindowOf(repartition[k].ts) : k \in 1 .. aggPos}
    BY <2>2 DEF Members
  <2>4. PICK j \in 1 .. aggPos : repartition[j].ts = streamTime
    <3>1. streamTime # -1
      BY <1>0, <2>1, <2>2
    <3> QED
      BY <3>1 DEF TimeInv
  <2>5. repartition[j].ts >= w + WindowSize
    BY <1>0, <2>1, <2>2, <2>4
  <2> QED
    BY <2>1, <2>2, <2>3, <2>5 DEF Over
<1>3. ASSUME NEW w \in Over PROVE \E i \in 1 .. Len(emitted) : emitted[i].window = w
  <2>1. /\ w \in {WindowOf(repartition[i].ts) : i \in 1 .. aggPos} /\ Members(w) # {}
        /\ \E i \in 1 .. aggPos : repartition[i].ts >= w + WindowSize
    BY DEF Over
  <2>2. PICK i \in 1 .. aggPos : w = WindowOf(repartition[i].ts)
    BY <2>1
  <2>3. w \in 0 .. MaxTime
    <3>1. i \in 1 .. Len(repartition)
      BY <1>0
    <3>2. PICK t \in Nat : t = repartition[i].ts /\ t <= MaxTime
      BY <1>0, <3>1, IdType
    <3>3. WindowOf(t) \in 0 .. t
      BY WindowOfProperties
    <3> QED
      BY <1>0, <2>2, <3>2, <3>3
  <2>4. PICK k \in 1 .. aggPos : repartition[k].ts >= w + WindowSize
    BY <2>1
  <2>5. repartition[k].ts <= streamTime /\ repartition[k].ts \in 0 .. MaxTime
    BY <1>0, IdType DEF TimeInv
  <2>6. ~(streamTime < w + WindowSize)
    BY <1>0, <2>3, <2>4, <2>5
  <2>7. w \notin DOMAIN buffer
    BY <2>6 DEF OrderInv
  <2> QED
    BY <1>1, <2>1, <2>3, <2>7 DEF WindowInv
<1> QED
  BY <1>0, <1>2, <1>3

(* What is emitted carries the totals of its members, however often the    *)
(* thread is replaced, and without crashes it is exactly the windows that  *)
(* are over, each with every member once.                                  *)
THEOREM WindowsAreExact == Spec => []WindowsExact
<1>1. Init => OrderInv /\ WindowInv
  <2> SUFFICES ASSUME Init PROVE OrderInv /\ WindowInv
    OBVIOUS
  <2>1. /\ changelog = <<>> /\ buffer = <<>> /\ emitted = <<>> /\ aggPos = 0
    BY DEF Init
  <2>2. \A w : MembersOf(repartition, aggPos, w) = {}
    BY <2>1 DEF MembersOf
  <2>3. OrderInv
    BY <2>1 DEF OrderInv
  <2> QED
    BY <2>1, <2>2, <2>3 DEF WindowInv
<1>2. TypeInv /\ OrderInv /\ TimeInv /\ WindowInv /\ SumsInv => WindowsExact
  <2> SUFFICES ASSUME TypeInv, OrderInv, TimeInv, WindowInv, SumsInv PROVE WindowsExact
    OBVIOUS
  <2>1. \A i \in DOMAIN emitted : emitted[i].agg = Expected(emitted[i].members)
    BY SumsGive
  <2>2. ASSUME crashes = 0, NEW i \in DOMAIN emitted
        PROVE  LET e == emitted[i]
               IN  /\ ToSet(e.members) = {repartition[j].id : j \in Members(e.window)}
                   /\ Len(e.members) = Cardinality(Members(e.window))
    <3>1. i \in 1 .. Len(emitted)
      BY <2>2, LenProperties DEF TypeInv, TaskInv
    <3>2. FullOf(emitted[i].members, repartition, MembersOf(repartition, aggPos, emitted[i].window))
      BY <2>2, <3>1 DEF WindowInv
    <3>3. Members(emitted[i].window) = MembersOf(repartition, aggPos, emitted[i].window)
      BY DEF Members, MembersOf
    <3> QED
      BY <3>2, <3>3 DEF FullOf
  <2>3. ASSUME crashes = 0 PROVE {emitted[i].window : i \in DOMAIN emitted} = Over
    BY <2>3, EmittedIsOver
  <2> QED
    BY <2>1, <2>2, <2>3 DEF WindowsExact
<1> QED
  BY <1>1, <1>2, SumsInit, SumsStep, OrderStep, WindowStep, OriginsHold, HorizonHolds, PTL DEF Spec
=============================================================================
