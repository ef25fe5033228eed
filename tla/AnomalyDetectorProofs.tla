------------------------ MODULE AnomalyDetectorProofs ------------------------
(* Proofs about the watcher, for every number of metrics, keys, records,   *)
(* crashes and failing checks and every size of the window.                *)
EXTENDS AnomalyDetector, DataLemmas

StatsSet == [values : Seq(SampleSet), sum : Int]

RecordSet == [key : StoreKeys, value : Flows \cup {Corrupt}]

TypeInv ==
    /\ topic \in Seq(RecordSet) /\ Len(topic) <= MaxRecords
    /\ position \in 0 .. Len(topic) /\ committed \in 0 .. position
    /\ changelog \in [Metrics -> Seq([StoreKeys -> StatsSet])]
    /\ \A m \in Metrics : Len(changelog[m]) >= 1
    /\ crashes \in Nat

-----------------------------------------------------------------------------
(* RollingStats and the stores.                                            *)

(* What RollingStats.add() makes of the samples, with and without eviction. *)
LEMMA AddCases ==
    ASSUME NEW stats \in StatsSet, NEW sample \in SampleSet
    PROVE  LET vals == stats.values
               new  == Add(stats, sample)
           IN  /\ new \in StatsSet
               /\ Len(vals) < WindowSize =>
                    /\ new.values = Append(vals, sample)
                    /\ new.sum = stats.sum + sample.val
               /\ Len(vals) >= WindowSize =>
                    /\ Len(new.values) = Len(vals) /\ Len(vals) >= 1
                    /\ \A i \in 1 .. Len(vals) - 1 : new.values[i] = vals[i + 1]
                    /\ new.values[Len(vals)] = sample
                    /\ new.values = Tail(Append(vals, sample))
                    /\ new.sum = stats.sum + sample.val - vals[1].val
<1> DEFINE vals == stats.values
           all  == Append(vals, sample)
<1>1. /\ vals \in Seq(SampleSet) /\ stats.sum \in Int /\ sample.val \in Int
      /\ WindowSize \in Nat \ {0}
  BY DetectorAssumptions DEF StatsSet, SampleSet
<1>2. /\ all \in Seq(SampleSet) /\ Len(all) = Len(vals) + 1 /\ all # <<>>
      /\ \A i \in 1 .. Len(vals) : all[i] = vals[i]
      /\ all[Len(vals) + 1] = sample
  BY <1>1
<1>3. /\ Tail(all) \in Seq(SampleSet) /\ Len(Tail(all)) = Len(vals)
      /\ \A i \in 1 .. Len(vals) : Tail(all)[i] = all[i + 1]
      /\ Head(all) = all[1]
  BY <1>2
<1>4. Head(all) = IF Len(vals) >= 1 THEN vals[1] ELSE sample
  BY <1>1, <1>2, <1>3
<1>5. Add(stats, sample) =
        IF Len(all) > WindowSize
        THEN [values |-> Tail(all), sum |-> stats.sum + sample.val - Head(all).val]
        ELSE [values |-> all, sum |-> stats.sum + sample.val]
  BY DEF Add
<1> HIDE DEF all, vals
<1>6. CASE Len(vals) < WindowSize
  <2>1. Add(stats, sample) = [values |-> all, sum |-> stats.sum + sample.val]
    BY <1>1, <1>2, <1>5, <1>6
  <2>2. Add(stats, sample) \in StatsSet
    BY <1>1, <1>2, <2>1 DEF StatsSet
  <2> QED
    BY <1>1, <1>6, <2>1, <2>2 DEF all, vals
<1>7. CASE Len(vals) >= WindowSize
  <2>1. Add(stats, sample) = [values |-> Tail(all), sum |-> stats.sum + sample.val - Head(all).val]
    BY <1>1, <1>2, <1>5, <1>7
  <2>2. Len(vals) >= 1 /\ Head(all) = vals[1] /\ vals[1].val \in Int
    <3>1. Len(vals) >= 1
      BY <1>1, <1>7
    <3>2. vals[1] \in SampleSet
      BY <1>1, <3>1
    <3> QED
      BY <1>4, <3>1, <3>2 DEF SampleSet
  <2>3. Add(stats, sample) \in StatsSet
    BY <1>1, <1>3, <2>1, <2>2 DEF StatsSet
  <2>4. \A i \in 1 .. Len(vals) - 1 : Tail(all)[i] = vals[i + 1]
    BY <1>1, <1>2, <1>3
  <2>5. Tail(all)[Len(vals)] = sample
    BY <1>1, <1>2, <1>3, <2>2
  <2>6. /\ Add(stats, sample).values = Tail(all)
        /\ Add(stats, sample).sum = stats.sum + sample.val - vals[1].val
    BY <2>1, <2>2
  <2>7. Tail(all) = Tail(Append(vals, sample))
    BY DEF all
  <2>8. /\ Len(Add(stats, sample).values) = Len(vals)
        /\ \A i \in 1 .. Len(vals) - 1 : Add(stats, sample).values[i] = vals[i + 1]
        /\ Add(stats, sample).values[Len(vals)] = sample
        /\ Add(stats, sample).values = Tail(Append(vals, sample))
    BY <1>3, <2>4, <2>5, <2>6, <2>7
  <2>9. ~(Len(vals) < WindowSize)
    BY <1>1, <1>7
  <2> QED
    BY <2>2, <2>3, <2>6, <2>8, <2>9, Zenon DEF vals
<1> QED
  BY <1>1, <1>6, <1>7 DEF vals

LEMMA SampleType ==
    ASSUME TypeInv, position < Len(topic), Current.value # Corrupt, NEW m \in Metrics
    PROVE  Sample(m) \in SampleSet /\ Current.key \in StoreKeys
<1>1. position + 1 \in 1 .. MaxRecords /\ position + 1 \in 1 .. Len(topic)
  BY DetectorAssumptions DEF TypeInv
<1>2. Current \in RecordSet
  BY <1>1, ElementOfSeq DEF TypeInv, Current
<1>3. Current.value \in Flows /\ Current.key \in StoreKeys
  BY <1>2 DEF RecordSet
<1>4. Current.value[m] \in Int
  BY <1>3, DetectorAssumptions
<1> QED
  BY <1>1, <1>3, <1>4 DEF Sample, SampleSet

LEMMA StoreType ==
    ASSUME TypeInv, NEW m \in Metrics
    PROVE  /\ Len(changelog[m]) \in DOMAIN changelog[m]
           /\ \A i \in DOMAIN changelog[m] : changelog[m][i] \in [StoreKeys -> StatsSet]
           /\ Store(m) \in [StoreKeys -> StatsSet]
BY DEF TypeInv, Store

\* The contents of store m after the current record.
NewContents(m) == [Store(m) EXCEPT ![Current.key] = NewStats(m)]

LEMMA NewContentsType ==
    ASSUME TypeInv, position < Len(topic), Current.value # Corrupt, NEW m \in Metrics
    PROVE  /\ NewContents(m) \in [StoreKeys -> StatsSet]
           /\ \A k \in StoreKeys : NewContents(m)[k] =
                IF k = Current.key THEN Add(Store(m)[k], Sample(m)) ELSE Store(m)[k]
<1>1. Store(m) \in [StoreKeys -> StatsSet] /\ Sample(m) \in SampleSet /\ Current.key \in StoreKeys
  BY StoreType, SampleType
<1>2. NewStats(m) \in StatsSet
  BY <1>1, AddCases DEF NewStats
<1> QED
  BY <1>1, <1>2 DEF NewContents, NewStats

\* Entry i of store m's changelog after a step is an entry from before it, or
\* what the current record makes of the store.
Inherited(m, i) == \E j \in DOMAIN changelog[m] : changelog'[m][i] = changelog[m][j]

Computed(m, i) ==
    /\ position < Len(topic) /\ Current.value # Corrupt
    /\ position' = position + 1 /\ crashes' = crashes
    /\ changelog'[m][i] = NewContents(m)

(* The changelogs after a step, entry by entry. *)
LEMMA ContentsStep ==
    ASSUME TypeInv, [Next]_vars, NEW m \in Metrics
    PROVE  /\ changelog'[m] \in Seq([StoreKeys -> StatsSet]) /\ Len(changelog'[m]) >= 1
           /\ DOMAIN changelog' = Metrics /\ changelog' = [n \in Metrics |-> changelog'[n]]
           /\ \A i \in DOMAIN changelog'[m] : Inherited(m, i) \/ Computed(m, i)
           /\ \/ crashes' = crashes /\ position' \in Nat /\ position' >= position
              \/ crashes' = crashes + 1
<1> DEFINE C == [StoreKeys -> StatsSet]
<1> DEFINE Goal ==
           /\ changelog'[m] \in Seq(C) /\ Len(changelog'[m]) >= 1
           /\ DOMAIN changelog' = Metrics /\ changelog' = [n \in Metrics |-> changelog'[n]]
           /\ \A i \in DOMAIN changelog'[m] : Inherited(m, i) \/ Computed(m, i)
           /\ \/ crashes' = crashes /\ position' \in Nat /\ position' >= position
              \/ crashes' = crashes + 1
<1>1. /\ changelog[m] \in Seq(C) /\ Len(changelog[m]) >= 1 /\ Len(changelog[m]) \in DOMAIN changelog[m]
      /\ DOMAIN changelog = Metrics /\ changelog = [n \in Metrics |-> changelog[n]]
      /\ position \in Nat /\ Store(m) \in C
  BY StoreType DEF TypeInv
<1> HIDE DEF C
<1>2. ASSUME changelog' = changelog, crashes' = crashes, position' \in Nat, position' >= position
      PROVE  Goal
  BY <1>1, <1>2 DEF Inherited
<1>3. ASSUME NEW bad \in SUBSET Metrics, Transform(bad) PROVE Goal
  <2>1. /\ position < Len(topic) /\ Current.value # Corrupt
        /\ position' = position + 1 /\ crashes' = crashes
        /\ changelog' = [n \in Metrics |-> IF n \in bad THEN changelog[n] ELSE Put(n)]
    BY <1>3 DEF Transform, Puts
  <2>2. CASE m \in bad
    <3>1. changelog'[m] = changelog[m] /\ DOMAIN changelog' = Metrics
          /\ changelog' = [n \in Metrics |-> changelog'[n]]
      BY <2>1, <2>2
    <3> QED
      BY <1>1, <2>1, <3>1 DEF Inherited
  <2>3. CASE m \notin bad
    <3>1. /\ changelog'[m] = Append(changelog[m], NewContents(m)) /\ DOMAIN changelog' = Metrics
          /\ changelog' = [n \in Metrics |-> changelog'[n]]
      BY <2>1, <2>3 DEF Put, NewContents
    <3>2. NewContents(m) \in C
      BY <2>1, NewContentsType DEF C
    <3>3. changelog'[m] \in Seq(C) /\ Len(changelog'[m]) = Len(changelog[m]) + 1
      BY <1>1, <3>1, <3>2
    <3>4. ASSUME NEW i \in DOMAIN changelog'[m] PROVE Inherited(m, i) \/ Computed(m, i)
      <4>1. CASE i <= Len(changelog[m])
        <5>1. changelog'[m][i] = changelog[m][i] /\ i \in DOMAIN changelog[m]
          BY <1>1, <3>1, <3>2, <3>3, <4>1
        <5> QED
          BY <5>1 DEF Inherited
      <4>2. CASE ~(i <= Len(changelog[m]))
        <5>1. changelog'[m][i] = NewContents(m)
          BY <1>1, <3>1, <3>2, <3>3, <4>2
        <5> QED
          BY <2>1, <5>1 DEF Computed
      <4> QED
        BY <4>1, <4>2
    <3> QED
      BY <1>1, <2>1, <3>1, <3>3, <3>4
  <2> QED
    BY <2>2, <2>3
<1>4. ASSUME Commit PROVE Goal
  <2>1. /\ changelog' = [n \in Metrics |-> <<Store(n)>>]
        /\ crashes' = crashes /\ position' = position
    BY <1>4 DEF Commit
  <2>2. /\ changelog'[m] = <<Store(m)>> /\ DOMAIN changelog' = Metrics
        /\ changelog' = [n \in Metrics |-> changelog'[n]]
    BY <2>1
  <2>3. \A i \in DOMAIN changelog'[m] : changelog'[m][i] = Store(m)
    BY <2>2
  <2>4. \A i \in DOMAIN changelog'[m] : Inherited(m, i)
    BY <1>1, <2>3 DEF Inherited, Store
  <2>5. changelog'[m] \in Seq(C) /\ Len(changelog'[m]) >= 1
    BY <1>1, <2>2
  <2> QED
    BY <1>1, <2>1, <2>2, <2>4, <2>5
<1>5. ASSUME Crash PROVE Goal
  <2>1. PICK upto \in [Metrics -> 1 .. position - committed + 1] :
          /\ \A n \in Metrics : upto[n] <= Len(changelog[n])
          /\ changelog' = [n \in Metrics |-> <<changelog[n][upto[n]]>>]
    BY <1>5 DEF Crash
  <2>2. upto[m] \in DOMAIN changelog[m] /\ changelog[m][upto[m]] \in C
    BY <1>1, <2>1 DEF TypeInv
  <2>3. /\ changelog'[m] = <<changelog[m][upto[m]]>> /\ DOMAIN changelog' = Metrics
        /\ changelog' = [n \in Metrics |-> changelog'[n]]
    BY <2>1
  <2>4. \A i \in DOMAIN changelog'[m] : changelog'[m][i] = changelog[m][upto[m]]
    BY <2>3
  <2>5. \A i \in DOMAIN changelog'[m] : Inherited(m, i)
    BY <2>2, <2>4 DEF Inherited
  <2>6. crashes' = crashes + 1
    BY <1>5 DEF Crash
  <2>7. changelog'[m] \in Seq(C) /\ Len(changelog'[m]) >= 1
    BY <2>2, <2>3
  <2> QED
    BY <2>3, <2>5, <2>6, <2>7
<1> HIDE DEF Goal
<1>6. ASSUME NEW k \in StoreKeys, NEW v \in Flows \cup {Corrupt}, Arrive(k, v) PROVE Goal
  BY <1>1, <1>2, <1>6 DEF Arrive
<1>7. ASSUME SkipCorrupt PROVE Goal
  BY <1>1, <1>2, <1>7 DEF SkipCorrupt
<1>8. ASSUME UNCHANGED vars PROVE Goal
  BY <1>1, <1>2, <1>8 DEF vars
<1>9. Goal
  BY <1>3, <1>4, <1>5, <1>6, <1>7, <1>8, [Next]_vars DEF Next
<1> QED
  BY <1>9 DEF C, Goal

-----------------------------------------------------------------------------
(* Types.                                                                  *)

LEMMA TypeInvInit == Init => TypeInv
<1> SUFFICES ASSUME Init PROVE TypeInv
  OBVIOUS
<1>1. EmptyStats \in StatsSet
  BY DEF EmptyStats, StatsSet
<1>2. [k \in StoreKeys |-> EmptyStats] \in [StoreKeys -> StatsSet]
  BY <1>1
<1>3. \A m \in Metrics : /\ changelog[m] \in Seq([StoreKeys -> StatsSet])
                         /\ Len(changelog[m]) = 1
  BY <1>2 DEF Init
<1>4. changelog \in [Metrics -> Seq([StoreKeys -> StatsSet])]
  BY <1>3 DEF Init
<1> QED
  BY <1>3, <1>4, DetectorAssumptions DEF Init, TypeInv

(* The offsets, and that the input only grows. *)
LEMMA OffsetsStep ==
    ASSUME TypeInv, [Next]_vars
    PROVE  /\ topic' \in Seq(RecordSet) /\ Len(topic') <= MaxRecords
           /\ position' \in 0 .. Len(topic') /\ committed' \in 0 .. position'
           /\ crashes' \in Nat
           /\ Len(topic) <= Len(topic') /\ \A o \in 1 .. Len(topic) : topic'[o] = topic[o]
<1> DEFINE Goal ==
           /\ topic' \in Seq(RecordSet) /\ Len(topic') <= MaxRecords
           /\ position' \in 0 .. Len(topic') /\ committed' \in 0 .. position'
           /\ crashes' \in Nat
           /\ Len(topic) <= Len(topic') /\ \A o \in 1 .. Len(topic) : topic'[o] = topic[o]
<1>1. ASSUME NEW k \in StoreKeys, NEW v \in Flows \cup {Corrupt}, Arrive(k, v) PROVE Goal
  <2>1. PICK r \in RecordSet : topic' = Append(topic, r)
    BY <1>1 DEF Arrive, RecordSet
  <2> QED
    BY <1>1, <2>1, DetectorAssumptions DEF Arrive, TypeInv
<1>2. ASSUME NEW bad \in SUBSET Metrics, Transform(bad) PROVE Goal
  BY <1>2 DEF Transform, TypeInv
<1>3. ASSUME SkipCorrupt PROVE Goal
  BY <1>3 DEF SkipCorrupt, TypeInv
<1>4. ASSUME Commit PROVE Goal
  BY <1>4 DEF Commit, TypeInv
<1>5. ASSUME Crash PROVE Goal
  BY <1>5 DEF Crash, TypeInv
<1>6. ASSUME UNCHANGED vars PROVE Goal
  BY <1>6 DEF vars, TypeInv
<1> HIDE DEF Goal
<1>7. Goal
  BY <1>1, <1>2, <1>3, <1>4, <1>5, <1>6, [Next]_vars DEF Next
<1> QED
  BY <1>7 DEF Goal

LEMMA TypeInvStep == TypeInv /\ [Next]_vars => TypeInv'
<1> SUFFICES ASSUME TypeInv, [Next]_vars PROVE TypeInv'
  OBVIOUS
<1>1. \A m \in Metrics : /\ changelog'[m] \in Seq([StoreKeys -> StatsSet])
                         /\ Len(changelog'[m]) >= 1
  BY ContentsStep
<1>2. changelog' = [n \in Metrics |-> changelog'[n]]
  <2>1. CASE Metrics # {}
    BY <2>1, ContentsStep
  <2>2. CASE Metrics = {}
    <3>1. DOMAIN changelog = {} /\ changelog = [n \in Metrics |-> changelog[n]]
      BY <2>2 DEF TypeInv
    <3> QED
      BY <2>2, <3>1 DEF Next, vars, Arrive, Transform, Puts, SkipCorrupt, Commit, Crash
  <2> QED
    BY <2>1, <2>2
<1>3. changelog' \in [Metrics -> Seq([StoreKeys -> StatsSet])]
  BY <1>1, <1>2
<1> QED
  BY <1>1, <1>3, OffsetsStep DEF TypeInv

(***************************************************************************)
(* The offsets stay in order and the stores hold RollingStats, through     *)
(* commits, crashes and restored changelogs (OutputWatcher 62-110).        *)
(***************************************************************************)
THEOREM DetectorTypes == Spec => []TypeOK
<1>1. TypeInv => TypeOK
  <2> SUFFICES ASSUME TypeInv PROVE TypeOK
    OBVIOUS
  <2>1. \A m \in Metrics : \A k \in StoreKeys : Store(m)[k] \in StatsSet
    BY StoreType
  <2>2. committed \in 0 .. Len(topic) /\ position \in committed .. Len(topic)
    BY DEF TypeInv
  <2> QED
    BY <2>1, <2>2 DEF TypeInv, TypeOK, StatsSet, RecordSet
<1> QED
  BY <1>1, TypeInvInit, TypeInvStep, PTL DEF Spec

-----------------------------------------------------------------------------
(* The running sum.                                                        *)

\* What SumMatchesWindow says of one window.
Balanced(stats) == stats.sum = SumOf(stats.values) /\ Len(stats.values) <= WindowSize

Vals(samples) == [i \in 1 .. Len(samples) |-> samples[i].val]

LEMMA SumOfIsRunningSum ==
    ASSUME NEW s \in Seq(SampleSet)
    PROVE  \E f : IsRunningSum(f, Vals(s), Len(s)) /\ SumOf(s) = f[Len(s)]
<1> DEFINE B(g) == [n \in 0 .. Len(s) |-> IF n = 0 THEN 0 ELSE g[n - 1] + s[n].val]
           c == CHOOSE g : g = B(g)
<1>1. \A g : B(g) = [n \in 0 .. Len(s) |-> IF n = 0 THEN 0 ELSE g[n - 1] + Vals(s)[n]]
  BY DEF Vals
<1>2. PICK f : IsRunningSum(f, Vals(s), Len(s))
  BY RunningSumExists
<1>3. f = B(f)
  BY <1>1, <1>2 DEF IsRunningSum
<1>4. SumOf(s) = c[Len(s)]
  BY DEF SumOf
<1> HIDE DEF B
<1>5. c = B(c)
  BY <1>3
<1>6. IsRunningSum(c, Vals(s), Len(s))
  BY <1>1, <1>5 DEF IsRunningSum
<1> QED
  BY <1>4, <1>6

LEMMA SampleVals ==
    ASSUME NEW s \in Seq(SampleSet), NEW i \in 1 .. Len(s)
    PROVE  s[i].val \in Int /\ Vals(s)[i] = s[i].val
<1>1. s[i] \in SampleSet
  BY ElementOfSeq
<1> QED
  BY <1>1 DEF SampleSet, Vals

LEMMA SumOfAppend ==
    ASSUME NEW s \in Seq(SampleSet), NEW x \in SampleSet
    PROVE  SumOf(s) \in Int /\ SumOf(Append(s, x)) = SumOf(s) + x.val
<1> DEFINE t == Append(s, x)
<1>1. /\ t \in Seq(SampleSet) /\ Len(t) = Len(s) + 1 /\ Len(s) \in Nat
      /\ \A i \in 1 .. Len(s) : t[i] = s[i]
      /\ t[Len(s) + 1] = x
  OBVIOUS
<1> HIDE DEF t
<1>2. PICK f : IsRunningSum(f, Vals(s), Len(s)) /\ SumOf(s) = f[Len(s)]
  BY SumOfIsRunningSum
<1>3. PICK g : IsRunningSum(g, Vals(t), Len(s) + 1) /\ SumOf(t) = g[Len(s) + 1]
  BY <1>1, SumOfIsRunningSum
<1>4. /\ \A i \in 1 .. Len(s) : Vals(s)[i] = Vals(t)[i] /\ Vals(s)[i] \in Int
      /\ Vals(t)[Len(s) + 1] = x.val /\ x.val \in Int
  <2>1. Len(s) + 1 \in 1 .. Len(t) /\ \A i \in 1 .. Len(s) : i \in 1 .. Len(t)
    BY <1>1
  <2> QED
    BY <1>1, <2>1, SampleVals
<1>5. f[Len(s)] = g[Len(s)] /\ g[Len(s) + 1] = g[Len(s)] + Vals(t)[Len(s) + 1]
  BY <1>1, <1>2, <1>3, <1>4, RunningSumExtends, SMTT(30)
<1>6. f[Len(s)] \in Int
  BY <1>1, <1>2, <1>4, RunningSumType
<1> QED
  BY <1>2, <1>3, <1>4, <1>5, <1>6 DEF t

LEMMA SumOfTail ==
    ASSUME NEW s \in Seq(SampleSet), NEW t \in Seq(SampleSet), Len(s) = Len(t) + 1,
           \A i \in 1 .. Len(t) : t[i] = s[i + 1]
    PROVE  SumOf(t) = SumOf(s) - s[1].val
<1>1. Len(t) \in Nat
  OBVIOUS
<1>2. PICK f : IsRunningSum(f, Vals(s), Len(t) + 1) /\ SumOf(s) = f[Len(t) + 1]
  BY SumOfIsRunningSum
<1>3. PICK g : IsRunningSum(g, Vals(t), Len(t)) /\ SumOf(t) = g[Len(t)]
  BY SumOfIsRunningSum
<1>4. /\ \A i \in 1 .. Len(t) + 1 : Vals(s)[i] \in Int
      /\ \A i \in 1 .. Len(t) : Vals(t)[i] = Vals(s)[i + 1]
      /\ Vals(s)[1] = s[1].val
  <2>1. 1 \in 1 .. Len(s) /\ \A i \in 1 .. Len(t) : i + 1 \in 1 .. Len(s)
    BY <1>1
  <2>2. \A i \in 1 .. Len(s) : s[i].val \in Int /\ Vals(s)[i] = s[i].val
    BY SampleVals
  <2>3. \A i \in 1 .. Len(t) : Vals(t)[i] = t[i].val
    BY SampleVals
  <2>4. \A i \in 1 .. Len(t) : t[i].val = s[i + 1].val
    OBVIOUS
  <2> QED
    BY <1>1, <2>1, <2>2, <2>3, <2>4
<1>5. g[Len(t)] = f[Len(t) + 1] - Vals(s)[1]
  BY <1>1, <1>2, <1>3, <1>4, RunningSumShift
<1> QED
  BY <1>2, <1>3, <1>4, <1>5

(* RollingStats.add() keeps the sum equal to the sum of the window. *)
LEMMA AddBalanced ==
    ASSUME NEW stats \in StatsSet, NEW sample \in SampleSet, Balanced(stats)
    PROVE  Balanced(Add(stats, sample))
<1> DEFINE vals == stats.values
           all  == Append(vals, sample)
           new  == Add(stats, sample)
<1>1. /\ vals \in Seq(SampleSet) /\ WindowSize \in Nat \ {0}
      /\ all \in Seq(SampleSet) /\ Len(all) = Len(vals) + 1
      /\ new \in StatsSet /\ new.values \in Seq(SampleSet)
  BY DetectorAssumptions, AddCases DEF StatsSet
<1>2. SumOf(vals) \in Int /\ SumOf(all) = SumOf(vals) + sample.val /\ sample.val \in Int
  BY <1>1, SumOfAppend DEF SampleSet
<1>3. CASE Len(vals) < WindowSize
  <2>1. new.values = all /\ new.sum = stats.sum + sample.val
    BY <1>3, AddCases
  <2> QED
    BY <1>1, <1>2, <1>3, <2>1 DEF Balanced
<1>4. CASE Len(vals) >= WindowSize
  <2>1. /\ Len(new.values) = Len(vals) /\ Len(vals) >= 1
        /\ new.values = Tail(all)
        /\ new.sum = stats.sum + sample.val - vals[1].val
    BY <1>4, AddCases
  <2>2. /\ \A i \in 1 .. Len(new.values) : new.values[i] = all[i + 1]
        /\ all[1] = vals[1]
    BY <1>1, <2>1
  <2> HIDE DEF all, new, vals
  <2>3. SumOf(new.values) = SumOf(all) - all[1].val
    BY <1>1, <2>1, <2>2, SumOfTail
  <2>4. vals[1].val \in Int
    BY <1>1, <2>1, SampleVals, 1 \in 1 .. Len(vals)
  <2> QED
    BY <1>1, <1>2, <1>4, <2>1, <2>2, <2>3, <2>4, SMTT(30) DEF Balanced, vals, new
<1> QED
  BY <1>1, <1>3, <1>4

LEMMA SumInit == Init => SumMatchesWindow
<1> SUFFICES ASSUME Init, NEW m \in Metrics, NEW i \in DOMAIN changelog[m], NEW k \in StoreKeys
             PROVE  Balanced(changelog[m][i][k])
  BY DEF SumMatchesWindow, Balanced
<1>1. changelog[m][i][k] = EmptyStats
  BY DEF Init
<1>2. PICK f : IsRunningSum(f, Vals(<<>>), 0) /\ SumOf(<<>>) = f[0]
  BY SumOfIsRunningSum, <<>> \in Seq(SampleSet), Len(<<>>) = 0
<1>3. f[0] = 0
  BY <1>2 DEF IsRunningSum
<1> QED
  BY <1>1, <1>2, <1>3, DetectorAssumptions DEF EmptyStats, Balanced

LEMMA SumStep == TypeInv /\ SumMatchesWindow /\ [Next]_vars => SumMatchesWindow'
<1> SUFFICES ASSUME TypeInv, SumMatchesWindow, [Next]_vars,
                    NEW m \in Metrics, NEW i \in DOMAIN changelog'[m], NEW k \in StoreKeys
             PROVE  Balanced(changelog'[m][i][k])
  BY DEF SumMatchesWindow, Balanced
<1>1. \A j \in DOMAIN changelog[m] : Balanced(changelog[m][j][k])
  BY DEF SumMatchesWindow, Balanced
<1>2. CASE Inherited(m, i)
  BY <1>1, <1>2 DEF Inherited
<1>3. CASE Computed(m, i)
  <2>1. /\ Store(m)[k] \in StatsSet /\ Sample(m) \in SampleSet
        /\ changelog'[m][i][k] =
              IF k = Current.key THEN Add(Store(m)[k], Sample(m)) ELSE Store(m)[k]
    BY <1>3, StoreType, SampleType, NewContentsType DEF Computed
  <2>2. Balanced(Store(m)[k])
    BY <1>1, StoreType DEF Store
  <2> QED
    BY <2>1, <2>2, AddBalanced
<1> QED
  BY <1>2, <1>3, ContentsStep

(***************************************************************************)
(* The running sum of every window, in the stores and in what a crash can  *)
(* bring back, is the sum of its samples, and a window never outgrows      *)
(* WINDOW_SIZE, for windows and inputs of any length (RollingStats 21-27). *)
(***************************************************************************)
THEOREM SumsAreExact == Spec => []SumMatchesWindow
BY TypeInvInit, TypeInvStep, SumInit, SumStep, PTL DEF Spec

-----------------------------------------------------------------------------
(* Replayed records.                                                       *)

\* The positions of offset o in a sequence of samples.
Positions(samples, o) == {i \in DOMAIN samples : samples[i].off = o}

LEMMA PositionsCount ==
    ASSUME NEW s \in Seq(SampleSet), NEW o
    PROVE  /\ Positions(s, o) \in SUBSET (1 .. Len(s)) /\ Len(s) \in Nat
           /\ IsFiniteSet(Positions(s, o)) /\ Cardinality(Positions(s, o)) \in Nat
<1>1. Positions(s, o) \in SUBSET (1 .. Len(s)) /\ Len(s) \in Nat
  BY DEF Positions
<1> QED
  BY <1>1, PositionsFinite

(* RollingStats.add() adds at most the one sample to a window's copies of o. *)
LEMMA AddCopies ==
    ASSUME NEW stats \in StatsSet, NEW sample \in SampleSet, NEW o
    PROVE  /\ Copies(stats, o) \in Nat /\ Copies(Add(stats, sample), o) \in Nat
           /\ Copies(Add(stats, sample), o) <=
                Copies(stats, o) + (IF sample.off = o THEN 1 ELSE 0)
<1> DEFINE vals == stats.values
           all  == Append(vals, sample)
           new  == Add(stats, sample).values
<1>1. /\ vals \in Seq(SampleSet) /\ new \in Seq(SampleSet) /\ all \in Seq(SampleSet)
      /\ Len(all) = Len(vals) + 1 /\ Len(vals) \in Nat
      /\ \A i \in 1 .. Len(vals) : all[i] = vals[i]
      /\ all[Len(vals) + 1] = sample
      /\ WindowSize \in Nat
  BY AddCases, DetectorAssumptions DEF StatsSet
<1>2. /\ Copies(stats, o) = Cardinality(Positions(vals, o))
      /\ Copies(Add(stats, sample), o) = Cardinality(Positions(new, o))
  BY DEF Copies, Positions
<1>3. new = all \/ (Len(new) = Len(vals) /\ \A i \in 1 .. Len(vals) : new[i] = all[i + 1])
  <2>1. CASE Len(vals) < WindowSize
    BY <2>1, AddCases
  <2>2. CASE Len(vals) >= WindowSize
    <3>1. Len(new) = Len(vals) /\ Len(vals) >= 1 /\ new = Tail(all)
      BY <2>2, AddCases
    <3> QED
      BY <1>1, <3>1
  <2> QED
    BY <1>1, <2>1, <2>2
<1> HIDE DEF vals, all, new
<1>4. /\ Positions(all, o) \subseteq Positions(vals, o) \cup {Len(vals) + 1}
      /\ sample.off # o => Positions(all, o) = Positions(vals, o)
  BY <1>1 DEF Positions
<1>5. Cardinality(Positions(all, o)) <=
        Cardinality(Positions(vals, o)) + (IF sample.off = o THEN 1 ELSE 0)
  <2>1. IsFiniteSet(Positions(vals, o)) /\ Cardinality(Positions(vals, o)) \in Nat
    BY <1>1, PositionsCount
  <2>2. Cardinality(Positions(all, o)) <= Cardinality(Positions(vals, o)) + 1
    BY <1>4, <2>1, OneMorePosition
  <2> QED
    BY <1>4, <2>1, <2>2
<1>6. Cardinality(Positions(new, o)) <= Cardinality(Positions(all, o))
  <2>1. Cardinality(Positions(all, o)) \in Nat
    BY <1>1, PositionsCount
  <2>2. CASE new = all
    BY <2>1, <2>2
  <2>3. CASE Len(new) = Len(vals) /\ \A i \in 1 .. Len(vals) : new[i] = all[i + 1]
    <3>1. /\ Positions(new, o) \in SUBSET (1 .. Len(vals))
          /\ Positions(all, o) \in SUBSET (1 .. Len(vals) + 1)
          /\ \A i \in Positions(new, o) : i + 1 \in Positions(all, o)
      BY <1>1, <2>3, SMTT(30) DEF Positions
    <3> QED
      BY <1>1, <3>1, ShiftedPositions
  <2> QED
    BY <1>3, <2>2, <2>3
<1>7. /\ Cardinality(Positions(vals, o)) \in Nat /\ Cardinality(Positions(all, o)) \in Nat
      /\ Cardinality(Positions(new, o)) \in Nat
  BY <1>1, PositionsCount
<1> QED
  BY <1>2, <1>5, <1>6, <1>7

\* A record behind the position has entered a window once more than there
\* were crashes; one that is still to come at most as often as there were.
CopiesInv ==
    \A m \in Metrics : \A i \in DOMAIN changelog[m] : \A k \in StoreKeys, o \in Nat :
        Copies(changelog[m][i][k], o) <= crashes + (IF o <= position THEN 1 ELSE 0)

LEMMA CopiesInvInit == Init => CopiesInv
<1> SUFFICES ASSUME Init, NEW m \in Metrics, NEW i \in DOMAIN changelog[m],
                    NEW k \in StoreKeys, NEW o \in Nat
             PROVE  Copies(changelog[m][i][k], o) <= crashes + (IF o <= position THEN 1 ELSE 0)
  BY DEF CopiesInv
<1>1. changelog[m][i][k] = EmptyStats /\ crashes = 0 /\ position = 0
  BY DEF Init
<1>2. {j \in DOMAIN EmptyStats.values : EmptyStats.values[j].off = o} = {}
  BY DEF EmptyStats
<1>3. Copies(EmptyStats, o) = 0
  BY <1>2, FS_EmptySet DEF Copies
<1> QED
  BY <1>1, <1>3

LEMMA CopiesInvStep == TypeInv /\ CopiesInv /\ [Next]_vars => CopiesInv'
<1> SUFFICES ASSUME TypeInv, CopiesInv, [Next]_vars, NEW m \in Metrics,
                    NEW i \in DOMAIN changelog'[m], NEW k \in StoreKeys, NEW o \in Nat
             PROVE  Copies(changelog'[m][i][k], o) <= crashes' + (IF o <= position' THEN 1 ELSE 0)
  BY DEF CopiesInv, Copies
<1>1. \A j \in DOMAIN changelog[m] :
        /\ Copies(changelog[m][j][k], o) <= crashes + (IF o <= position THEN 1 ELSE 0)
        /\ changelog[m][j][k] \in StatsSet
  BY StoreType DEF CopiesInv
<1>2. \A st \in StatsSet : Copies(st, o) \in Nat
  BY PositionsCount DEF Copies, Positions, StatsSet
<1>3. position \in Nat /\ crashes \in Nat /\ position' \in Nat
  BY OffsetsStep DEF TypeInv
<1>4. CASE Inherited(m, i)
  <2>1. PICK j \in DOMAIN changelog[m] : changelog'[m][i] = changelog[m][j]
    BY <1>4 DEF Inherited
  <2>2. Copies(changelog'[m][i][k], o) <= crashes + (IF o <= position THEN 1 ELSE 0)
        /\ Copies(changelog'[m][i][k], o) \in Nat
    BY <1>1, <1>2, <2>1
  <2>3. \/ crashes' = crashes /\ position' >= position
        \/ crashes' = crashes + 1
    BY ContentsStep
  <2> QED
    BY <1>3, <2>2, <2>3
<1>5. CASE Computed(m, i)
  <2>1. /\ Store(m)[k] \in StatsSet /\ Sample(m) \in SampleSet /\ Sample(m).off = position + 1
        /\ changelog'[m][i][k] =
              IF k = Current.key THEN Add(Store(m)[k], Sample(m)) ELSE Store(m)[k]
        /\ position' = position + 1 /\ crashes' = crashes
    BY <1>5, StoreType, SampleType, NewContentsType DEF Computed, Sample
  <2>2. Copies(Store(m)[k], o) <= crashes + (IF o <= position THEN 1 ELSE 0)
        /\ Copies(Store(m)[k], o) \in Nat
    BY <1>1, <1>2, StoreType DEF Store
  <2>3. /\ Copies(Add(Store(m)[k], Sample(m)), o) \in Nat
        /\ Copies(Add(Store(m)[k], Sample(m)), o) <=
             Copies(Store(m)[k], o) + (IF position + 1 = o THEN 1 ELSE 0)
    BY <2>1, AddCopies
  <2> QED
    BY <1>3, <2>1, <2>2, <2>3
<1> QED
  BY <1>4, <1>5, ContentsStep

(***************************************************************************)
(* A record enters the window of a metric at most once more than the       *)
(* thread was replaced or the process restarted, however the changelogs    *)
(* were cut off (AnomalyDetectorTransformer 147, at-least-once processing).*)
(***************************************************************************)
THEOREM ReplaysAreBounded == Spec => []DuplicatesBounded
<1>1. TypeInv /\ CopiesInv => DuplicatesBounded
  <2> SUFFICES ASSUME TypeInv, CopiesInv, NEW m \in Metrics, NEW k \in StoreKeys,
                      NEW o \in 1 .. Len(topic)
               PROVE  Copies(Store(m)[k], o) <= crashes + 1
    BY DEF DuplicatesBounded
  <2>1. Copies(Store(m)[k], o) <= crashes + (IF o <= position THEN 1 ELSE 0)
    BY StoreType DEF CopiesInv, Store
  <2>2. Store(m)[k] \in StatsSet
    BY StoreType
  <2>3. Copies(Store(m)[k], o) \in Nat /\ crashes \in Nat
    BY <2>2, PositionsCount DEF Copies, Positions, StatsSet, TypeInv
  <2> QED
    BY <2>1, <2>3
<1> QED
  BY <1>1, TypeInvInit, TypeInvStep, CopiesInvInit, CopiesInvStep, PTL DEF Spec

-----------------------------------------------------------------------------
(* What is detected.  The definitions of the specification, as functions   *)
(* of the input t and of the checks fl that threw.                         *)

Sampled(t, fl, k, m, n) ==
    IF t[n].key = k /\ t[n].value # Corrupt /\ <<n, m>> \notin fl
    THEN <<[off |-> n, val |-> t[n].value[m]]>> ELSE <<>>

SamplesOf(t, fl, k, m, p) ==
    LET taken[n \in 0 .. p] ==
          IF n = 0 THEN <<>>
          ELSE taken[n - 1] \o
                 (IF t[n].key = k /\ t[n].value # Corrupt /\ <<n, m>> \notin fl
                  THEN <<[off |-> n, val |-> t[n].value[m]]>> ELSE <<>>)
    IN  taken[p]

ExpectedOf(t, fl, o, m) ==
    LET base == LastOf(WindowSize, SamplesOf(t, fl, t[o].key, m, o - 1))
    IN  Check([values |-> base, sum |-> SumOf(base)], o, m, t[o].value[m])

UsableChecks(t, fl, p) ==
    {d \in (1 .. p) \X Metrics : t[d[1]].value # Corrupt /\ d \notin fl}

AllExpected(t, fl, p) == UNION {ExpectedOf(t, fl, c[1], c[2]) : c \in UsableChecks(t, fl, p)}

LEMMA SamplesConcat ==
    ASSUME NEW t, NEW fl, NEW k, NEW m, NEW p \in Nat
    PROVE  \E f : /\ IsRunningConcat(f, [n \in 1 .. p |-> Sampled(t, fl, k, m, n)], p)
                  /\ SamplesOf(t, fl, k, m, p) = f[p]
<1> DEFINE a == [n \in 1 .. p |-> Sampled(t, fl, k, m, n)]
           B(g) == [n \in 0 .. p |-> IF n = 0 THEN <<>> ELSE g[n - 1] \o Sampled(t, fl, k, m, n)]
           c == CHOOSE g : g = B(g)
<1>1. \A g : B(g) = [n \in 0 .. p |-> IF n = 0 THEN <<>> ELSE g[n - 1] \o a[n]]
  <2> TAKE g
  <2>1. \A n \in 0 .. p : n # 0 => a[n] = Sampled(t, fl, k, m, n)
    <3>1. \A n \in 0 .. p : n # 0 => n \in 1 .. p
      OBVIOUS
    <3> QED
      BY <3>1, Zenon
  <2>2. \A n \in 0 .. p : (IF n = 0 THEN <<>> ELSE g[n - 1] \o Sampled(t, fl, k, m, n))
                        = (IF n = 0 THEN <<>> ELSE g[n - 1] \o a[n])
    BY <2>1, Zenon
  <2> QED
    BY <2>2, Zenon
<1>2. PICK f : IsRunningConcat(f, a, p)
  BY RunningConcatExists
<1>3. f = B(f)
  BY <1>1, <1>2, Zenon DEF IsRunningConcat
<1>4. SamplesOf(t, fl, k, m, p) = c[p]
  BY Zenon DEF SamplesOf, Sampled
<1> HIDE DEF B
<1>5. c = B(c)
  BY <1>3, Zenon
<1>6. IsRunningConcat(c, a, p)
  BY <1>1, <1>5, Zenon DEF IsRunningConcat
<1> QED
  BY <1>4, <1>6, Zenon

(* The samples of one more record. *)
LEMMA SamplesStep ==
    ASSUME NEW t, NEW fl, NEW k, NEW m, NEW p \in Nat
    PROVE  /\ SamplesOf(t, fl, k, m, 0) = <<>>
           /\ SamplesOf(t, fl, k, m, p + 1) = SamplesOf(t, fl, k, m, p) \o Sampled(t, fl, k, m, p + 1)
<1> DEFINE A(q) == [n \in 1 .. q |-> Sampled(t, fl, k, m, n)]
<1>0. p + 1 \in Nat /\ p + 1 \in 1 .. p + 1 /\ p <= p + 1 /\ p + 1 <= p + 1 /\ p <= p /\ 0 \in Nat
  OBVIOUS
<1>1. \A q \in Nat : \E f : IsRunningConcat(f, A(q), q) /\ SamplesOf(t, fl, k, m, q) = f[q]
  BY SamplesConcat
<1>2. PICK a, b : a = A(p) /\ b = A(p + 1)
  OBVIOUS
<1>3. \A i \in 1 .. p : a[i] = b[i]
  <2>1. \A i \in 1 .. p : i \in 1 .. p + 1
    OBVIOUS
  <2> QED
    BY <1>2, <2>1, Zenon
<1>4. b[p + 1] = Sampled(t, fl, k, m, p + 1)
  BY <1>0, <1>2, Zenon
<1> HIDE DEF A
<1>5. PICK f : IsRunningConcat(f, a, p) /\ SamplesOf(t, fl, k, m, p) = f[p]
  BY <1>1, <1>2, Zenon
<1>6. PICK g : IsRunningConcat(g, b, p + 1) /\ SamplesOf(t, fl, k, m, p + 1) = g[p + 1]
  BY <1>0, <1>1, <1>2, Zenon
<1>7. PICK h : IsRunningConcat(h, A(0), 0) /\ SamplesOf(t, fl, k, m, 0) = h[0]
  BY <1>0, <1>1, Zenon
<1>8. h[0] = <<>>
  BY <1>7 DEF IsRunningConcat
<1>9. f[p] = g[p]
  BY <1>0, <1>3, <1>5, <1>6, RunningConcatAgrees
<1>10. g[p + 1] = g[p] \o b[p + 1]
  BY <1>0, <1>6, RunningConcatStep
<1> QED
  BY <1>4, <1>5, <1>6, <1>7, <1>8, <1>9, <1>10, ZenonT(30)

(* Only the first p records and the checks on them count. *)
LEMMA SamplesAgree ==
    ASSUME NEW t, NEW u, NEW fl, NEW gl, NEW k, NEW m, NEW p \in Nat,
           \A n \in 1 .. p : Sampled(t, fl, k, m, n) = Sampled(u, gl, k, m, n)
    PROVE  SamplesOf(t, fl, k, m, p) = SamplesOf(u, gl, k, m, p)
<1> DEFINE T == {q \in Nat : q <= p => SamplesOf(t, fl, k, m, q) = SamplesOf(u, gl, k, m, q)}
<1>1. 0 \in T
  BY SamplesStep
<1>2. ASSUME NEW q \in Nat, q \in T PROVE q + 1 \in T
  <2> SUFFICES ASSUME q + 1 <= p
               PROVE  SamplesOf(t, fl, k, m, q + 1) = SamplesOf(u, gl, k, m, q + 1)
    OBVIOUS
  <2>1. SamplesOf(t, fl, k, m, q) = SamplesOf(u, gl, k, m, q) /\ q + 1 \in 1 .. p
    BY <1>2
  <2>2. Sampled(t, fl, k, m, q + 1) = Sampled(u, gl, k, m, q + 1)
    BY <2>1
  <2>3. /\ SamplesOf(t, fl, k, m, q + 1) = SamplesOf(t, fl, k, m, q) \o Sampled(t, fl, k, m, q + 1)
        /\ SamplesOf(u, gl, k, m, q + 1) = SamplesOf(u, gl, k, m, q) \o Sampled(u, gl, k, m, q + 1)
    BY SamplesStep
  <2> QED
    BY <2>1, <2>2, <2>3, Zenon
<1> HIDE DEF T
<1>3. Nat \subseteq T
  BY <1>1, <1>2, NatSetInduction
<1> QED
  BY <1>3 DEF T

LEMMA ExpectedAgree ==
    ASSUME NEW t, NEW u, NEW fl, NEW gl, NEW p \in Nat,
           \A n \in 1 .. p : /\ t[n] = u[n]
                             /\ \A m \in Metrics : <<n, m>> \in fl <=> <<n, m>> \in gl
    PROVE  AllExpected(t, fl, p) = AllExpected(u, gl, p)
<1>1. UsableChecks(t, fl, p) = UsableChecks(u, gl, p)
  BY DEF UsableChecks
<1>2. ASSUME NEW o \in 1 .. p, NEW m \in Metrics
      PROVE  ExpectedOf(t, fl, o, m) = ExpectedOf(u, gl, o, m)
  <2>1. o - 1 \in Nat /\ t[o] = u[o] /\ \A n \in 1 .. o - 1 : n \in 1 .. p
    OBVIOUS
  <2>2. PICK k : k = t[o].key
    OBVIOUS
  <2>3. \A n \in 1 .. o - 1 : Sampled(t, fl, k, m, n) = Sampled(u, gl, k, m, n)
    BY <2>1, Zenon DEF Sampled
  <2>4. SamplesOf(t, fl, k, m, o - 1) = SamplesOf(u, gl, k, m, o - 1)
    BY <2>1, <2>3, SamplesAgree
  <2> QED
    BY <2>1, <2>2, <2>4, ZenonT(30) DEF ExpectedOf
<1>3. \A c \in UsableChecks(t, fl, p) : c[1] \in 1 .. p /\ c[2] \in Metrics
  BY DEF UsableChecks
<1>4. \A c \in UsableChecks(t, fl, p) :
         ExpectedOf(t, fl, c[1], c[2]) = ExpectedOf(u, gl, c[1], c[2])
  BY <1>2, <1>3, Zenon
<1> HIDE DEF UsableChecks, ExpectedOf
<1>5. {ExpectedOf(t, fl, c[1], c[2]) : c \in UsableChecks(t, fl, p)}
         = {ExpectedOf(u, gl, c[1], c[2]) : c \in UsableChecks(u, gl, p)}
  BY <1>1, <1>4
<1> QED
  BY <1>5, Zenon DEF AllExpected

(* The warnings that one more record asks for. *)
LEMMA ExpectedStep ==
    ASSUME NEW t, NEW fl, NEW p \in Nat
    PROVE  AllExpected(t, fl, p + 1) = AllExpected(t, fl, p) \cup
             UNION {ExpectedOf(t, fl, p + 1, m) :
                      m \in {n \in Metrics : t[p + 1].value # Corrupt /\ <<p + 1, n>> \notin fl}}
<1> DEFINE M == {n \in Metrics : t[p + 1].value # Corrupt /\ <<p + 1, n>> \notin fl}
<1>1. UsableChecks(t, fl, p + 1) = UsableChecks(t, fl, p) \cup {<<p + 1, m>> : m \in M}
  <2>1. (1 .. p + 1) = (1 .. p) \cup {p + 1}
    OBVIOUS
  <2>2. ASSUME NEW d \in (1 .. p + 1) \X Metrics
        PROVE  d \in UsableChecks(t, fl, p + 1) <=>
                 d \in UsableChecks(t, fl, p) \cup {<<p + 1, m>> : m \in M}
    <3>1. PICK o \in 1 .. p + 1, m \in Metrics : d = <<o, m>>
      OBVIOUS
    <3>2. CASE o = p + 1
      BY <2>1, <3>1, <3>2 DEF UsableChecks
    <3>3. CASE o # p + 1
      BY <2>1, <3>1, <3>3 DEF UsableChecks
    <3> QED
      BY <3>2, <3>3
  <2>3. UsableChecks(t, fl, p + 1) \subseteq (1 .. p + 1) \X Metrics
    BY DEF UsableChecks
  <2>4. UsableChecks(t, fl, p) \subseteq (1 .. p + 1) \X Metrics
    BY <2>1 DEF UsableChecks
  <2>5. {<<p + 1, m>> : m \in M} \subseteq (1 .. p + 1) \X Metrics
    <3>1. p + 1 \in 1 .. p + 1 /\ M \subseteq Metrics
      OBVIOUS
    <3> HIDE DEF M
    <3>2. \A m \in M : <<p + 1, m>> \in (1 .. p + 1) \X Metrics
      BY <3>1
    <3> QED
      BY <3>2, Zenon
  <2> HIDE DEF M
  <2> QED
    BY <2>2, <2>3, <2>4, <2>5, Zenon
<1> HIDE DEF M
<1>2. \A m \in M : ExpectedOf(t, fl, <<p + 1, m>>[1], <<p + 1, m>>[2]) = ExpectedOf(t, fl, p + 1, m)
  OBVIOUS
<1> DEFINE E(c) == ExpectedOf(t, fl, c[1], c[2])
<1>3. \A m \in M : E(<<p + 1, m>>) = ExpectedOf(t, fl, p + 1, m)
  BY <1>2
<1> HIDE DEF E
<1>4. ASSUME NEW w
      PROVE  (\E c \in UsableChecks(t, fl, p + 1) : w \in E(c)) <=>
               \/ \E c \in UsableChecks(t, fl, p) : w \in E(c)
               \/ \E m \in M : w \in ExpectedOf(t, fl, p + 1, m)
  BY <1>1, <1>3, Zenon
<1>5. \A q : AllExpected(t, fl, q) = UNION {E(c) : c \in UsableChecks(t, fl, q)}
  BY DEF AllExpected, E
<1>6. AllExpected(t, fl, p + 1) =
        AllExpected(t, fl, p) \cup UNION {ExpectedOf(t, fl, p + 1, m) : m \in M}
  <2> SUFFICES ASSUME NEW w
               PROVE  w \in AllExpected(t, fl, p + 1) <=>
                        \/ w \in AllExpected(t, fl, p)
                        \/ \E m \in M : w \in ExpectedOf(t, fl, p + 1, m)
    OBVIOUS
  <2> QED
    BY <1>4, <1>5
<1> QED
  BY <1>6 DEF M

LEMMA LastOfLong ==
    ASSUME NEW s \in Seq(SampleSet), NEW n \in Nat \ {0}, Len(s) >= n
    PROVE  /\ LastOf(n, s) \in Seq(SampleSet) /\ Len(LastOf(n, s)) = n
           /\ \A i \in 1 .. n : LastOf(n, s)[i] = s[Len(s) - n + i]
<1>1. Len(s) \in Nat
  OBVIOUS
<1>2. CASE Len(s) = n
  BY <1>1, <1>2 DEF LastOf
<1>3. CASE Len(s) > n
  <2> DEFINE a == Len(s) - n + 1
  <2>1. LastOf(n, s) = SubSeq(s, a, Len(s))
    BY <1>1, <1>3 DEF LastOf
  <2>2. a \in Int /\ Len(s) \in Int /\ \A i \in a .. Len(s) : i \in 1 .. Len(s)
    BY <1>1, <1>3
  <2>3. \A i \in a .. Len(s) : s[i] \in SampleSet
    BY <2>2, ElementOfSeq
  <2>4. /\ a <= Len(s) /\ Len(s) - a + 1 = n
        /\ \A i \in 1 .. n : a + i - 1 = Len(s) - n + i
    BY <1>1, <1>3
  <2> HIDE DEF a
  <2>5. /\ SubSeq(s, a, Len(s)) \in Seq(SampleSet)
        /\ Len(SubSeq(s, a, Len(s))) = IF a <= Len(s) THEN Len(s) - a + 1 ELSE 0
        /\ \A i \in 1 .. Len(s) - a + 1 : SubSeq(s, a, Len(s))[i] = s[a + i - 1]
    BY ONLY <2>2, <2>3, SubSeqProperties
  <2> QED
    BY <2>1, <2>4, <2>5, Zenon
<1> QED
  BY <1>1, <1>2, <1>3

(* A window is the end of the samples: RollingStats.add() and one more     *)
(* sample agree.                                                           *)
LEMMA AddKeepsLast ==
    ASSUME NEW stats \in StatsSet, NEW s \in Seq(SampleSet), NEW x \in SampleSet,
           stats.values = LastOf(WindowSize, s)
    PROVE  Add(stats, x).values = LastOf(WindowSize, Append(s, x))
<1> DEFINE W == WindowSize
           vals == stats.values
           new == Add(stats, x).values
           t == Append(s, x)
<1>1. W \in Nat \ {0} /\ vals \in Seq(SampleSet) /\ new \in Seq(SampleSet)
  BY DetectorAssumptions, AddCases DEF StatsSet
<1>2. /\ t \in Seq(SampleSet) /\ Len(t) = Len(s) + 1 /\ Len(s) \in Nat
      /\ \A i \in 1 .. Len(s) : t[i] = s[i]
      /\ t[Len(s) + 1] = x
  OBVIOUS
<1>3. CASE Len(s) < W
  <2>1. vals = s
    BY <1>1, <1>2, <1>3 DEF LastOf
  <2>2. new = t
    BY <1>3, <2>1, AddCases
  <2> QED
    BY <1>1, <1>2, <1>3, <2>2 DEF LastOf
<1>4. CASE Len(s) >= W
  <2> DEFINE r == LastOf(W, t)
  <2>1. Len(vals) = W /\ \A i \in 1 .. W : vals[i] = s[Len(s) - W + i]
    BY <1>1, <1>4, LastOfLong
  <2>2. /\ Len(new) = W
        /\ \A i \in 1 .. W - 1 : new[i] = vals[i + 1]
        /\ new[W] = x
    <3>1. Len(vals) >= WindowSize
      BY <1>1, <2>1
    <3>2. /\ Len(new) = Len(vals)
          /\ \A i \in 1 .. Len(vals) - 1 : new[i] = vals[i + 1]
          /\ new[Len(vals)] = x
      BY <3>1, AddCases, Zenon
    <3> QED
      BY <2>1, <3>2, Zenon
  <2>3. r \in Seq(SampleSet) /\ Len(r) = W /\ \A i \in 1 .. W : r[i] = t[Len(s) + 1 - W + i]
    <3>1. Len(t) >= W
      BY <1>1, <1>2, <1>4
    <3> HIDE DEF t
    <3>2. r \in Seq(SampleSet) /\ Len(r) = W /\ \A i \in 1 .. W : r[i] = t[Len(t) - W + i]
      BY <1>1, <1>2, <3>1, LastOfLong, Zenon
    <3> HIDE DEF r
    <3> QED
      BY <1>2, <3>2
  <2> HIDE DEF r, new, vals, t
  <2>4. \A i \in 1 .. W : new[i] = r[i]
    <3> TAKE i \in 1 .. W
    <3>1. CASE i = W
      BY <1>1, <1>2, <2>2, <2>3, <3>1
    <3>2. CASE i # W
      <4>1. i \in 1 .. W - 1 /\ i + 1 \in 1 .. W
        BY <1>1, <3>2
      <4>2. new[i] = s[Len(s) - W + (i + 1)]
        BY <2>1, <2>2, <4>1
      <4>3. r[i] = t[Len(s) + 1 - W + i]
        BY <2>3
      <4>4. Len(s) - W + (i + 1) = Len(s) + 1 - W + i /\ Len(s) + 1 - W + i \in 1 .. Len(s)
        BY <1>1, <1>2, <1>4, <4>1
      <4> QED
        BY <1>2, <4>2, <4>3, <4>4
    <3> QED
      BY <3>1, <3>2
  <2>5. new = r
    BY <1>1, <2>2, <2>3, <2>4, SeqEqual
  <2> QED
    BY <2>5 DEF r, new, t
<1> QED
  BY <1>1, <1>2, <1>3, <1>4

LEMMA SamplesType ==
    ASSUME NEW t \in Seq(RecordSet), Len(t) <= MaxRecords, NEW fl, NEW k, NEW m \in Metrics,
           NEW p \in 0 .. Len(t)
    PROVE  SamplesOf(t, fl, k, m, p) \in Seq(SampleSet)
<1> DEFINE T == {q \in Nat : q <= p => SamplesOf(t, fl, k, m, q) \in Seq(SampleSet)}
<1>1. 0 \in T
  <2>1. SamplesOf(t, fl, k, m, 0) = <<>>
    BY SamplesStep, 0 \in Nat
  <2>2. <<>> \in Seq(SampleSet)
    BY EmptySeq
  <2> QED
    BY <2>1, <2>2
<1>2. ASSUME NEW q \in Nat, q \in T PROVE q + 1 \in T
  <2> SUFFICES ASSUME q + 1 <= p PROVE SamplesOf(t, fl, k, m, q + 1) \in Seq(SampleSet)
    OBVIOUS
  <2>1. SamplesOf(t, fl, k, m, q) \in Seq(SampleSet)
    BY <1>2
  <2>2. q + 1 \in 1 .. Len(t) /\ q + 1 \in 1 .. MaxRecords
    BY DetectorAssumptions
  <2>3. t[q + 1] \in RecordSet
    BY <2>2, ElementOfSeq
  <2>4. t[q + 1].value # Corrupt => t[q + 1].value[m] \in Int
    BY <2>3, DetectorAssumptions DEF RecordSet
  <2>5. Sampled(t, fl, k, m, q + 1) \in Seq(SampleSet)
    <3>1. CASE t[q + 1].value # Corrupt
      <4>1. [off |-> q + 1, val |-> t[q + 1].value[m]] \in SampleSet
        BY <2>2, <2>4, <3>1 DEF SampleSet
      <4> QED
        BY <4>1 DEF Sampled
    <3>2. CASE t[q + 1].value = Corrupt
      BY <3>2 DEF Sampled
    <3> QED
      BY <3>1, <3>2
  <2>6. SamplesOf(t, fl, k, m, q + 1) = SamplesOf(t, fl, k, m, q) \o Sampled(t, fl, k, m, q + 1)
    BY SamplesStep
  <2> QED
    BY <2>1, <2>5, <2>6, ConcatProperties
<1> HIDE DEF T
<1>3. Nat \subseteq T
  BY <1>1, <1>2, NatSetInduction
<1> QED
  BY <1>3 DEF T

\* The windows are the last samples of what has been read, and the warnings
\* those that it asks for.
FailedInv == failed \subseteq (1 .. position) \X Metrics

LastInv ==
    \A m \in Metrics : \A k \in StoreKeys :
        Store(m)[k].values = LastOf(WindowSize, SamplesOf(topic, failed, k, m, position))

ExactInv == warnings \cup pending = AllExpected(topic, failed, position)

DetectInv == crashes = 0 => FailedInv /\ LastInv /\ ExactInv

LEMMA DetectInvInit == Init => DetectInv
<1> SUFFICES ASSUME Init PROVE FailedInv /\ LastInv /\ ExactInv
  BY DEF DetectInv
<1>1. FailedInv
  BY DEF Init, FailedInv
<1>2. LastInv
  <2> SUFFICES ASSUME NEW m \in Metrics, NEW k \in StoreKeys
               PROVE  Store(m)[k].values = LastOf(WindowSize, SamplesOf(topic, failed, k, m, position))
    BY DEF LastInv
  <2>1. Store(m)[k].values = <<>>
    BY DEF Init, Store, EmptyStats
  <2>2. SamplesOf(topic, failed, k, m, position) = <<>>
    BY SamplesStep DEF Init
  <2>3. LastOf(WindowSize, <<>>) = <<>>
    BY DetectorAssumptions, Len(<<>>) = 0 DEF LastOf
  <2> QED
    BY <2>1, <2>2, <2>3
<1>3. ExactInv
  <2>1. UsableChecks(topic, failed, 0) = {}
    BY DEF UsableChecks
  <2>2. AllExpected(topic, failed, 0) = {}
    BY <2>1 DEF AllExpected
  <2> QED
    BY <2>2 DEF Init, ExactInv
<1> QED
  BY <1>1, <1>2, <1>3

(* Records that arrive later change nothing that was said about earlier    *)
(* ones.                                                                   *)
LEMMA DetectArrive ==
    ASSUME TypeInv, FailedInv, LastInv, ExactInv,
           NEW k \in StoreKeys, NEW v \in Flows \cup {Corrupt}, Arrive(k, v)
    PROVE  FailedInv' /\ LastInv' /\ ExactInv'
<1>1. /\ position' = position /\ failed' = failed /\ changelog' = changelog
      /\ pending' = pending /\ warnings' = warnings
  BY DEF Arrive
<1>2. \A n \in 1 .. position : topic'[n] = topic[n]
  <2>1. PICK r \in RecordSet : topic' = Append(topic, r)
    BY DEF Arrive, RecordSet
  <2> QED
    BY <2>1 DEF TypeInv
<1>3. position \in Nat
  BY DEF TypeInv
<1>4. \A m \in Metrics, key \in StoreKeys :
        SamplesOf(topic', failed, key, m, position) = SamplesOf(topic, failed, key, m, position)
  <2> TAKE m \in Metrics, key \in StoreKeys
  <2>1. \A n \in 1 .. position : Sampled(topic', failed, key, m, n) = Sampled(topic, failed, key, m, n)
    BY <1>2, Zenon DEF Sampled
  <2> QED
    BY <1>3, <2>1, SamplesAgree
<1>5. AllExpected(topic', failed, position) = AllExpected(topic, failed, position)
  BY <1>2, <1>3, ExpectedAgree
<1>6. FailedInv'
  BY <1>1 DEF FailedInv
<1>7. LastInv'
  BY <1>1, <1>4, Zenon DEF LastInv, Store
<1>8. ExactInv'
  BY <1>1, <1>5, Zenon DEF ExactInv
<1> QED
  BY <1>6, <1>7, <1>8

(* A record whose value cannot be parsed asks for nothing. *)
LEMMA DetectSkip ==
    ASSUME TypeInv, FailedInv, LastInv, ExactInv, SkipCorrupt
    PROVE  FailedInv' /\ LastInv' /\ ExactInv'
<1>1. /\ position < Len(topic) /\ topic[position + 1].value = Corrupt
      /\ position' = position + 1 /\ topic' = topic /\ failed' = failed
      /\ changelog' = changelog /\ pending' = pending /\ warnings' = warnings
  BY DEF SkipCorrupt, Current
<1>2. position \in Nat /\ position + 1 \in 0 .. Len(topic) /\ position \in 0 .. Len(topic)
  BY <1>1 DEF TypeInv
<1>3. ASSUME NEW m \in Metrics, NEW k \in StoreKeys
      PROVE  SamplesOf(topic, failed, k, m, position + 1) = SamplesOf(topic, failed, k, m, position)
  <2>1. SamplesOf(topic, failed, k, m, position) \in Seq(SampleSet)
    BY <1>2, SamplesType DEF TypeInv
  <2>2. Sampled(topic, failed, k, m, position + 1) = <<>>
    BY <1>1, Zenon DEF Sampled
  <2>3. SamplesOf(topic, failed, k, m, position + 1) =
          SamplesOf(topic, failed, k, m, position) \o Sampled(topic, failed, k, m, position + 1)
    BY <1>2, SamplesStep
  <2> QED
    BY <2>1, <2>2, <2>3, ConcatEmptySeq
<1>4. AllExpected(topic, failed, position + 1) = AllExpected(topic, failed, position)
  <2> DEFINE M == {n \in Metrics : topic[position + 1].value # Corrupt /\ <<position + 1, n>> \notin failed}
  <2>1. M = {}
    BY <1>1, Zenon
  <2>2. AllExpected(topic, failed, position + 1) = AllExpected(topic, failed, position) \cup
          UNION {ExpectedOf(topic, failed, position + 1, m) : m \in M}
    BY <1>2, ExpectedStep
  <2> HIDE DEF M
  <2> QED
    BY <2>1, <2>2
<1>5. FailedInv'
  <2>1. (1 .. position) \subseteq (1 .. position + 1)
    BY <1>2
  <2> QED
    BY <1>1, <2>1 DEF FailedInv
<1>6. LastInv'
  BY <1>1, <1>3, Zenon DEF LastInv, Store
<1>7. ExactInv'
  BY <1>1, <1>4, Zenon DEF ExactInv
<1> QED
  BY <1>5, <1>6, <1>7

LEMMA DetectTransform ==
    ASSUME TypeInv, SumMatchesWindow, FailedInv, LastInv, ExactInv,
           NEW bad \in SUBSET Metrics, Transform(bad)
    PROVE  FailedInv' /\ LastInv' /\ ExactInv'
<1> DEFINE p == position
           fl == failed'
<1>1. /\ p < Len(topic) /\ Current.value # Corrupt /\ Current = topic[p + 1]
      /\ position' = p + 1 /\ topic' = topic
      /\ fl = failed \cup {<<p + 1, m>> : m \in bad}
      /\ changelog' = Puts(bad) /\ warnings' = warnings
      /\ pending' = pending \cup UNION {Checked(m) : m \in Metrics \ bad}
  BY DEF Transform, Current
<1>2. p \in Nat /\ p + 1 \in Nat /\ p + 1 \in 1 .. Len(topic) /\ p \in 0 .. Len(topic)
  BY <1>1 DEF TypeInv
<1>3. \A m \in Metrics : \A n \in 1 .. p : <<n, m>> \in fl <=> <<n, m>> \in failed
  <2>1. \A n \in 1 .. p : n # p + 1
    BY <1>2
  <2> QED
    BY <1>1, <2>1
<1>4. \A m \in Metrics : <<p + 1, m>> \in fl <=> m \in bad
  <2>1. \A m \in Metrics : <<p + 1, m>> \notin failed
    BY <1>2 DEF FailedInv
  <2> QED
    BY <1>1, <2>1
<1>5. FailedInv'
  <2>1. (1 .. p) \subseteq (1 .. p + 1) /\ p + 1 \in 1 .. p + 1
    BY <1>2
  <2>2. \A d \in failed : d \in (1 .. p + 1) \X Metrics
    BY <2>1 DEF FailedInv
  <2>3. \A m \in bad : <<p + 1, m>> \in (1 .. p + 1) \X Metrics
    BY <2>1
  <2>4. \A d \in fl : d \in (1 .. p + 1) \X Metrics
    BY <1>1, <2>2, <2>3, Zenon
  <2> QED
    BY <1>1, <2>4 DEF FailedInv
<1> HIDE DEF fl
<1>6. ASSUME NEW m \in Metrics, NEW k \in StoreKeys
      PROVE  /\ SamplesOf(topic, fl, k, m, p) = SamplesOf(topic, failed, k, m, p)
             /\ SamplesOf(topic, fl, k, m, p) \in Seq(SampleSet)
  <2>1. \A n \in 1 .. p : Sampled(topic, fl, k, m, n) = Sampled(topic, failed, k, m, n)
    BY <1>3, Zenon DEF Sampled
  <2>2. SamplesOf(topic, fl, k, m, p) = SamplesOf(topic, failed, k, m, p)
    BY <1>2, <2>1, SamplesAgree
  <2>3. SamplesOf(topic, fl, k, m, p) \in Seq(SampleSet)
    BY <1>2, SamplesType DEF TypeInv
  <2> QED
    BY <2>2, <2>3
<1>7. ASSUME NEW m \in Metrics, NEW k \in StoreKeys
      PROVE  Store(m)'[k].values = LastOf(WindowSize, SamplesOf(topic, fl, k, m, p + 1))
  <2> DEFINE s == SamplesOf(topic, fl, k, m, p)
  <2>1. Store(m)[k].values = LastOf(WindowSize, s) /\ s \in Seq(SampleSet)
    BY <1>6 DEF LastInv
  <2>2. SamplesOf(topic, fl, k, m, p + 1) = s \o Sampled(topic, fl, k, m, p + 1)
    BY <1>2, SamplesStep
  <2>3. CASE m \in bad \/ k # Current.key
    <3>1. Sampled(topic, fl, k, m, p + 1) = <<>>
      BY <1>1, <1>4, <2>3, Zenon DEF Sampled
    <3>2. SamplesOf(topic, fl, k, m, p + 1) = s
      BY <2>1, <2>2, <3>1, ConcatEmptySeq
    <3>3. Store(m)'[k] = Store(m)[k]
      <4>1. CASE m \in bad
        BY <1>1, <4>1 DEF Puts, Store
      <4>2. CASE m \notin bad
        <5>1. changelog'[m] = Append(changelog[m], NewContents(m))
          BY <1>1, <4>2 DEF Puts, Put, NewContents
        <5>2. Store(m)' = NewContents(m)
          <6>1. changelog[m] \in Seq([StoreKeys -> StatsSet]) /\ NewContents(m) \in [StoreKeys -> StatsSet]
            BY <1>1, NewContentsType DEF TypeInv
          <6> QED
            BY <5>1, <6>1, AppendProperties DEF Store
        <5> QED
          BY <1>1, <2>3, <4>2, <5>2, NewContentsType
      <4> QED
        BY <4>1, <4>2
    <3> QED
      BY <2>1, <3>2, <3>3
  <2>4. CASE m \notin bad /\ k = Current.key
    <3>1. Sampled(topic, fl, k, m, p + 1) = <<Sample(m)>>
      BY <1>1, <1>4, <2>4, Zenon DEF Sampled, Sample
    <3>2. Sample(m) \in SampleSet /\ Store(m)[k] \in StatsSet
      BY <1>1, SampleType, StoreType
    <3>3. SamplesOf(topic, fl, k, m, p + 1) = Append(s, Sample(m))
      BY <2>1, <2>2, <3>1, <3>2, AppendIsConcat
    <3>4. changelog'[m] = Append(changelog[m], NewContents(m))
      BY <1>1, <2>4 DEF Puts, Put, NewContents
    <3>5. Store(m)' = NewContents(m)
      <4>1. changelog[m] \in Seq([StoreKeys -> StatsSet]) /\ NewContents(m) \in [StoreKeys -> StatsSet]
        BY <1>1, NewContentsType DEF TypeInv
      <4> QED
        BY <3>4, <4>1, AppendProperties DEF Store
    <3>6. Store(m)'[k] = Add(Store(m)[k], Sample(m))
      BY <1>1, <2>4, <3>5, NewContentsType
    <3>7. Add(Store(m)[k], Sample(m)).values = LastOf(WindowSize, Append(s, Sample(m)))
      BY <2>1, <3>2, AddKeepsLast
    <3> QED
      BY <3>3, <3>6, <3>7
  <2> QED
    BY <2>3, <2>4
<1>8. LastInv'
  BY <1>1, <1>7, Zenon DEF LastInv, fl
<1>9. ASSUME NEW m \in Metrics PROVE Checked(m) = ExpectedOf(topic, fl, p + 1, m)
  <2> DEFINE k == Current.key
             st == Store(m)[k]
             base == LastOf(WindowSize, SamplesOf(topic, fl, k, m, p))
  <2>1. k \in StoreKeys /\ st \in StatsSet
    BY <1>1, SampleType, StoreType
  <2>2. st.values = base
    BY <1>6, <2>1 DEF LastInv
  <2>3. st.sum = SumOf(st.values)
    BY <2>1, StoreType DEF SumMatchesWindow, Store
  <2>4. st = [values |-> st.values, sum |-> st.sum]
    BY <2>1 DEF StatsSet
  <2>5. st = [values |-> base, sum |-> SumOf(base)]
    BY <2>2, <2>3, <2>4, Zenon
  <2>6. (p + 1) - 1 = p
    BY <1>2
  <2>7. ExpectedOf(topic, fl, p + 1, m) = Check([values |-> base, sum |-> SumOf(base)], p + 1, m, Current.value[m])
    BY <1>1, <2>6, Zenon DEF ExpectedOf
  <2> QED
    BY <2>5, <2>7, Zenon DEF Checked
<1>10. ExactInv'
  <2>1. AllExpected(topic, fl, p) = AllExpected(topic, failed, p)
    BY <1>2, <1>3, ExpectedAgree
  <2> DEFINE M == {n \in Metrics : topic[p + 1].value # Corrupt /\ <<p + 1, n>> \notin fl}
  <2>2. M = Metrics \ bad
    BY <1>1, <1>4, Zenon
  <2>3. AllExpected(topic, fl, p + 1) =
          AllExpected(topic, fl, p) \cup UNION {ExpectedOf(topic, fl, p + 1, m) : m \in M}
    BY <1>2, ExpectedStep
  <2> HIDE DEF M
  <2>4. UNION {ExpectedOf(topic, fl, p + 1, m) : m \in M} = UNION {Checked(m) : m \in Metrics \ bad}
    BY <1>9, <2>2, Zenon
  <2>5. warnings' \cup pending' = AllExpected(topic, fl, p + 1)
    BY <1>1, <2>1, <2>3, <2>4, Zenon DEF ExactInv
  <2> QED
    BY <1>1, <2>5, Zenon DEF ExactInv, fl
<1> QED
  BY <1>5, <1>8, <1>10

LEMMA DetectInvStep == TypeInv /\ SumMatchesWindow /\ DetectInv /\ [Next]_vars => DetectInv'
<1> SUFFICES ASSUME TypeInv, SumMatchesWindow, DetectInv, [Next]_vars, crashes' = 0
             PROVE  FailedInv' /\ LastInv' /\ ExactInv'
  BY DEF DetectInv
<1> DEFINE Goal == FailedInv' /\ LastInv' /\ ExactInv'
<1>1. crashes = 0 /\ ~Crash
  <2>1. crashes \in Nat
    BY DEF TypeInv
  <2>2. Crash => crashes' = crashes + 1
    BY DEF Crash
  <2>3. crashes' = crashes \/ Crash
    BY Zenon DEF Next, vars, Arrive, Transform, SkipCorrupt, Commit
  <2> QED
    BY <2>1, <2>2, <2>3
<1>2. FailedInv /\ LastInv /\ ExactInv
  BY <1>1 DEF DetectInv
<1>3. ASSUME Commit PROVE Goal
  <2>1. /\ topic' = topic /\ position' = position /\ failed' = failed
        /\ warnings' \cup pending' = warnings \cup pending
        /\ changelog' = [m \in Metrics |-> <<Store(m)>>]
    BY <1>3 DEF Commit
  <2>2. \A m \in Metrics : Store(m)' = Store(m)
    <3> TAKE m \in Metrics
    <3>1. changelog'[m] = <<Store(m)>>
      BY <2>1
    <3> QED
      BY <3>1 DEF Store
  <2>3. FailedInv'
    BY <1>2, <2>1 DEF FailedInv
  <2>4. LastInv'
    BY <1>2, <2>1, <2>2, Zenon DEF LastInv
  <2>5. ExactInv'
    BY <1>2, <2>1, Zenon DEF ExactInv
  <2> QED
    BY <2>3, <2>4, <2>5
<1>4. ASSUME UNCHANGED vars PROVE Goal
  <2>1. /\ topic' = topic /\ position' = position /\ failed' = failed
        /\ warnings' = warnings /\ pending' = pending /\ changelog' = changelog
    BY <1>4 DEF vars
  <2> QED
    BY <1>2, <2>1, Zenon DEF FailedInv, LastInv, ExactInv, Store
<1> HIDE DEF Goal
<1>5. ASSUME NEW k \in StoreKeys, NEW v \in Flows \cup {Corrupt}, Arrive(k, v) PROVE Goal
  BY <1>2, <1>5, DetectArrive, Zenon DEF Goal
<1>6. ASSUME NEW bad \in SUBSET Metrics, Transform(bad) PROVE Goal
  BY <1>2, <1>6, DetectTransform, Zenon DEF Goal
<1>7. ASSUME SkipCorrupt PROVE Goal
  BY <1>2, <1>7, DetectSkip, Zenon DEF Goal
<1>8. Goal
  BY <1>1, <1>3, <1>4, <1>5, <1>6, <1>7, [Next]_vars, Zenon DEF Next
<1> QED
  BY <1>8 DEF Goal

(***************************************************************************)
(* As long as nothing crashes, the watcher warns of exactly what the       *)
(* definition over the whole input asks for, for inputs, windows and sets  *)
(* of keys of any size (AnomalyDetectorTransformer 75-150).                *)
(***************************************************************************)
THEOREM WarningsAreExact == Spec => []DetectsExactly
<1>1. DetectInv => DetectsExactly
  <2> SUFFICES ASSUME ExactInv
               PROVE  warnings \cup pending =
                        UNION {Expected(c[1], c[2]) : c \in
                                 {d \in (1 .. position) \X Metrics :
                                    topic[d[1]].value # Corrupt /\ d \notin failed}}
    BY Zenon DEF DetectInv, DetectsExactly
  <2>1. \A o, m : Expected(o, m) = ExpectedOf(topic, failed, o, m)
    BY Zenon DEF Expected, ExpectedOf, Samples, SamplesOf
  <2> QED
    BY <2>1, Zenon DEF ExactInv, AllExpected, UsableChecks
<1> QED
  BY <1>1, TypeInvInit, TypeInvStep, SumInit, SumStep, DetectInvInit, DetectInvStep, PTL DEF Spec
=============================================================================
