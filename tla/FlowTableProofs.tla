-------------------------- MODULE FlowTableProofs --------------------------
(* Proofs about the fields of a flow, for every set of frames, every       *)
(* number of packets and every width of the counters.                      *)
EXTENDS FlowTable, DataLemmas

\* The gaps of a flow telescope, and its sizes are in order and in range.
Coherent(f) ==
    /\ f.total_iat_usec = f.last_seen - f.start_time
    /\ 0 <= f.min_packet_size /\ f.min_packet_size <= f.max_packet_size
    /\ f.max_packet_size < 65536

FlowsInv ==
    /\ TypeOK
    /\ \A k \in DOMAIN flows : Coherent(flows[k])

(* pkt_handler() never hands over a negative payload or one beyond 16 bits. *)
LEMMA PayloadInRange ==
    ASSUME NEW f \in Frames
    PROVE  PayloadSize(f) \in Nat /\ PayloadSize(f) < 65536
<1>1. /\ f.ip_len \in Nat /\ f.ip_len < 65536 /\ IpHdrLen(f) \in Nat /\ f.th_off * 4 \in Nat
  BY FlowTableAssumptions DEF IpHdrLen
<1>2. LengthFieldPayload(f) \in Int /\ LengthFieldPayload(f) < 65536
  BY <1>1 DEF LengthFieldPayload, UdpLen
<1> QED
  BY <1>2 DEF PayloadSize

LEMMA StatsInRange ==
    ASSUME NEW f \in Frames, Accepted(f)
    PROVE  /\ Parse(f).key \in Keys
           /\ Parse(f).payload_size \in Nat /\ Parse(f).payload_size < 65536
           /\ Parse(f).timestamp \in Int
<1>1. Parse(f).key \in Keys
  BY DEF Keys, Stats
<1>2. Parse(f).payload_size \in Nat /\ Parse(f).payload_size < 65536
  BY PayloadInRange DEF Parse
<1>3. Parse(f).timestamp \in Int
  BY FlowTableAssumptions DEF Parse
<1> QED
  BY <1>1, <1>2, <1>3

LEMMA IncrementInRange ==
    ASSUME NEW c \in 0 .. CounterModulus - 1
    PROVE  Increment(c) \in 0 .. CounterModulus - 1
BY FlowTableAssumptions DEF Increment

LEMMA CreateCoherent ==
    ASSUME NEW key
    PROVE  flow_create(key) \in Flow /\ Coherent(flow_create(key))
<1>1. Direction(key) \in Directions
  BY DEF Direction, Directions
<1>2. 0 \in 0 .. CounterModulus - 1
  BY FlowTableAssumptions
<1> QED
  BY <1>1, <1>2 DEF flow_create, Flow, Coherent

(* flow_update_stats() keeps a flow well-typed and coherent. *)
LEMMA UpdateCoherent ==
    ASSUME NEW flow \in Flow, Coherent(flow),
           NEW s, s.payload_size \in Nat, s.payload_size < 65536, s.timestamp \in Int
    PROVE  flow_update_stats(flow, s) \in Flow /\ Coherent(flow_update_stats(flow, s))
<1> DEFINE st == IF First(flow) THEN s.timestamp ELSE flow.start_time
<1>1. /\ NewMin(flow, s.payload_size) \in Int /\ NewMax(flow, s.payload_size) \in Int
      /\ st \in Int /\ NewIat(flow, s.timestamp) \in Int
  BY DEF Flow, NewMin, NewMax, NewIat
<1>2. Increment(flow.packet_count) \in 0 .. CounterModulus - 1
  BY IncrementInRange DEF Flow
<1>3. (flow.byte_count + s.payload_size) % CounterModulus \in 0 .. CounterModulus - 1
  BY FlowTableAssumptions DEF Flow
<1>4. \A c \in 0 .. CounterModulus - 1, flag \in {"SYN", "ACK", "FIN", "RST"} :
        Flagged(c, s, flag) \in 0 .. CounterModulus - 1
  BY IncrementInRange DEF Flagged
<1>5. NewIat(flow, s.timestamp) = s.timestamp - st
  BY DEF Flow, Coherent, NewIat
<1>6. /\ 0 <= NewMin(flow, s.payload_size)
      /\ NewMin(flow, s.payload_size) <= NewMax(flow, s.payload_size)
      /\ NewMax(flow, s.payload_size) < 65536
  BY DEF Flow, Coherent, NewMin, NewMax
<1> HIDE DEF st
<1>7. flow_update_stats(flow, s) \in Flow
  BY <1>1, <1>2, <1>3, <1>4 DEF flow_update_stats, Flow, st
<1>8. Coherent(flow_update_stats(flow, s))
  BY <1>5, <1>6 DEF flow_update_stats, Coherent, st
<1> QED
  BY <1>7, <1>8

LEMMA FlowsInvInductive == FlowsInv /\ [Next]_vars => FlowsInv'
<1> SUFFICES ASSUME FlowsInv, [Next]_vars PROVE FlowsInv'
  OBVIOUS
<1>1. ASSUME NEW f \in Frames, Process(f) PROVE FlowsInv'
  <2>1. PICK s : s = Parse(f)
    OBVIOUS
  <2>2. /\ s.key \in Keys /\ s.payload_size \in Nat /\ s.payload_size < 65536 /\ s.timestamp \in Int
    BY <1>1, <2>1, StatsInRange DEF Process
  <2>3. flows' = Put(flows, s.key, flow_update_stats(Lookup(s.key), s))
    BY <1>1, <2>1 DEF Process
  <2>4. Lookup(s.key) \in Flow /\ Coherent(Lookup(s.key))
    BY CreateCoherent DEF Lookup, FlowsInv, TypeOK
  <2>5. PICK g \in Flow : g = flow_update_stats(Lookup(s.key), s) /\ Coherent(g)
    BY <2>2, <2>4, UpdateCoherent
  <2>6. /\ DOMAIN flows' = DOMAIN flows \cup {s.key}
        /\ \A k \in DOMAIN flows' : flows'[k] = IF k = s.key THEN g ELSE flows[k]
    BY <2>3, <2>5 DEF Put
  <2>7. accepted' \in Nat
    BY <1>1 DEF Process, FlowsInv, TypeOK
  <2> QED
    BY <2>2, <2>5, <2>6, <2>7 DEF FlowsInv, TypeOK
<1>2. ASSUME NEW key \in Keys, SendFlow(key) PROVE FlowsInv'
  <2>1. /\ DOMAIN flows' = DOMAIN flows \ {key}
        /\ \A k \in DOMAIN flows' : flows'[k] = flows[k]
        /\ accepted' = accepted
    BY <1>2 DEF SendFlow, Without
  <2> QED
    BY <2>1 DEF FlowsInv, TypeOK
<1>3. CASE UNCHANGED vars
  BY <1>3 DEF vars, FlowsInv, TypeOK
<1>4. ASSUME NEW f \in Frames, Reject(f) PROVE FlowsInv'
  BY <1>3, <1>4 DEF Reject
<1> QED
  BY <1>1, <1>2, <1>3, <1>4 DEF Next

LEMMA FlowsInvInit == Init => FlowsInv
BY DEF Init, FlowsInv, TypeOK

(***************************************************************************)
(* The fields of every flow in the table keep the widths flow_t gives them. *)
(***************************************************************************)
THEOREM FlowTypes == Spec => []TypeOK
<1>1. FlowsInv => TypeOK
  BY DEF FlowsInv
<1> QED
  BY <1>1, FlowsInvInit, FlowsInvInductive, PTL DEF Spec

(***************************************************************************)
(* The smallest and largest payload are in order and fit their uint16_t,   *)
(* whatever the length fields of the frames say.                           *)
(***************************************************************************)
THEOREM SizesInRange == Spec => []SizesFit
<1>1. FlowsInv => SizesFit
  BY DEF FlowsInv, Coherent, SizesFit, TypeOK, Flow
<1> QED
  BY <1>1, FlowsInvInit, FlowsInvInductive, PTL DEF Spec

-----------------------------------------------------------------------------
(* The packets of a flow since packet_count was last 0.                    *)

LEMMA StatsType ==
    ASSUME NEW s \in Stats
    PROVE  /\ s.key \in Keys /\ s.payload_size \in Nat /\ s.payload_size < 65536
           /\ s.timestamp \in Int
<1>1. PICK f \in Frames : Accepted(f) /\ s = Parse(f)
  BY DEF Stats
<1> QED
  BY <1>1, StatsInRange

LEMMA PacketType ==
    ASSUME NEW h \in Seq(Stats), NEW i \in 1 .. Len(h)
    PROVE  h[i].payload_size \in Nat /\ h[i].timestamp \in Int
BY ElementOfSeq, StatsType

\* Where SinceWrap(h) starts, less 1.
WrapBase(h) == CounterModulus * ((Len(h) - 1) \div CounterModulus)

LEMMA WrapBaseProperties ==
    ASSUME NEW h \in Seq(Stats), Len(h) >= 1
    PROVE  /\ WrapBase(h) \in 0 .. Len(h) - 1
           /\ Len(h) - WrapBase(h) \in 1 .. CounterModulus
           /\ SinceWrap(h) \in Seq(Stats) /\ Len(SinceWrap(h)) = Len(h) - WrapBase(h)
           /\ \A i \in 1 .. Len(h) - WrapBase(h) : SinceWrap(h)[i] = h[WrapBase(h) + i]
<1> DEFINE b == WrapBase(h)
<1>1. Len(h) \in Nat /\ CounterModulus \in Nat \ {0}
  BY FlowTableAssumptions
<1>2. b \in 0 .. Len(h) - 1 /\ Len(h) - b \in 1 .. CounterModulus
  BY <1>1, MultipleBelow DEF WrapBase
<1>3. SinceWrap(h) = SubSeq(h, b + 1, Len(h))
  BY DEF SinceWrap, WrapBase
<1> HIDE DEF b
<1>4. b + 1 \in Int /\ Len(h) \in Int /\ \A i \in b + 1 .. Len(h) : h[i] \in Stats
  <2>1. \A i \in b + 1 .. Len(h) : i \in 1 .. Len(h)
    BY <1>1, <1>2
  <2> QED
    BY <1>1, <1>2, <2>1, ElementOfSeq
<1>5. PICK a \in Int, n \in Int : a = b + 1 /\ n = Len(h)
  BY <1>4
<1>6. /\ SubSeq(h, a, n) \in Seq(Stats)
      /\ Len(SubSeq(h, a, n)) = IF a <= n THEN n - a + 1 ELSE 0
      /\ \A i \in 1 .. n - a + 1 : SubSeq(h, a, n)[i] = h[a + i - 1]
  BY <1>4, <1>5, SubSeqProperties
<1>7. a <= n /\ n - a + 1 = Len(h) - b /\ \A i \in 1 .. Len(h) - b : a + i - 1 = b + i
  BY <1>1, <1>2, <1>5
<1> QED
  BY <1>2, <1>3, <1>5, <1>6, <1>7, Zenon DEF b

(* packet_count is 0 exactly when the next packet starts anew. *)
LEMMA SinceWrapAppend ==
    ASSUME NEW h \in Seq(Stats), NEW s \in Stats
    PROVE  /\ Len(h) % CounterModulus = 0 => SinceWrap(Append(h, s)) = <<s>>
           /\ Len(h) % CounterModulus # 0 =>
                Len(h) >= 1 /\ SinceWrap(Append(h, s)) = Append(SinceWrap(h), s)
<1> DEFINE M == CounterModulus
           g == Append(h, s)
           w == SinceWrap(g)
<1>1. M \in Nat \ {0} /\ Len(h) \in Nat
  BY FlowTableAssumptions
<1>2. /\ g \in Seq(Stats) /\ Len(g) = Len(h) + 1 /\ Len(g) >= 1
      /\ \A i \in 1 .. Len(h) : g[i] = h[i]
      /\ g[Len(h) + 1] = s
  BY <1>1
<1> HIDE DEF g
<1>3. /\ w \in Seq(Stats) /\ Len(w) = Len(g) - WrapBase(g)
      /\ \A i \in 1 .. Len(g) - WrapBase(g) : w[i] = g[WrapBase(g) + i]
      /\ WrapBase(g) \in 0 .. Len(g) - 1
  BY <1>2, WrapBaseProperties
<1> HIDE DEF w
<1>4. WrapBase(g) = M * (Len(h) \div M)
  <2>1. Len(g) - 1 = Len(h)
    BY <1>1, <1>2
  <2> QED
    BY <2>1, Zenon DEF WrapBase
<1>5. CASE Len(h) % M = 0
  <2>1. WrapBase(g) = Len(h)
    BY <1>1, <1>4, <1>5, MultipleBelow
  <2>2. Len(w) = 1 /\ w[1] = s
    BY <1>1, <1>2, <1>3, <2>1
  <2>3. w = <<s>>
    <3>1. <<s>> \in Seq(Stats) /\ Len(<<s>>) = 1 /\ <<s>>[1] = s
      OBVIOUS
    <3>2. \A i \in 1 .. Len(w) : w[i] = <<s>>[i]
      BY <2>2, <3>1
    <3> QED
      BY <1>3, <2>2, <3>1, <3>2, SeqEqual
  <2> QED
    BY <1>5, <2>3 DEF w, g
<1>6. CASE Len(h) % M # 0
  <2>1. Len(h) >= 1
    <3>1. 0 = M * 0 + 0 /\ 0 \in 0 .. M - 1
      BY <1>1
    <3>2. 0 % M = 0
      BY <1>1, <3>1, DivModUnique
    <3> QED
      BY <1>1, <1>6, <3>2
  <2>2. Len(h) \div M = (Len(h) - 1) \div M
    BY <1>1, <1>6, MultipleBelow
  <2>3. WrapBase(g) = WrapBase(h)
    BY <1>4, <2>2, Zenon DEF WrapBase
  <2>4. PICK v \in Seq(Stats), b \in 0 .. Len(h) - 1 :
          /\ v = SinceWrap(h) /\ b = WrapBase(h) /\ Len(v) = Len(h) - b
          /\ \A i \in 1 .. Len(h) - b : v[i] = h[b + i]
    BY <2>1, WrapBaseProperties
  <2>5. /\ Append(v, s) \in Seq(Stats) /\ Len(Append(v, s)) = Len(v) + 1
        /\ \A i \in 1 .. Len(v) : Append(v, s)[i] = v[i]
        /\ Append(v, s)[Len(v) + 1] = s
    OBVIOUS
  <2>6. Len(w) = Len(v) + 1 /\ WrapBase(g) = b
    BY <1>1, <1>2, <1>3, <2>3, <2>4
  <2>7. \A i \in 1 .. Len(w) : w[i] = Append(v, s)[i]
    <3> TAKE i \in 1 .. Len(w)
    <3>1. w[i] = g[b + i]
      BY <1>3, <2>6
    <3>2. CASE i <= Len(v)
      <4>1. b + i \in 1 .. Len(h) /\ i \in 1 .. Len(v)
        BY <1>1, <2>4, <3>2
      <4>2. g[b + i] = h[b + i] /\ Append(v, s)[i] = v[i]
        BY <1>2, <2>5, <4>1
      <4>3. v[i] = h[b + i]
        BY <2>4, <4>1
      <4> QED
        BY <3>1, <4>2, <4>3
    <3>3. CASE ~(i <= Len(v))
      <4>1. b + i = Len(h) + 1 /\ i = Len(v) + 1
        <5>1. Len(v) \in Nat /\ b \in Nat /\ i \in 1 .. Len(v) + 1 /\ Len(v) = Len(h) - b
          BY <1>1, <2>4, <2>6
        <5> QED
          BY <1>1, <3>3, <5>1
      <4> QED
        BY <1>2, <2>5, <3>1, <4>1
    <3> QED
      BY <3>2, <3>3
  <2>8. w = Append(v, s)
    BY <1>3, <2>5, <2>6, <2>7, SeqEqual
  <2> QED
    BY <1>6, <2>1, <2>4, <2>8 DEF w, g
<1> QED
  BY <1>5, <1>6

-----------------------------------------------------------------------------
(* Sums over the packets of a flow.                                        *)

PayloadsOf(h) == [i \in 1 .. Len(h) |-> h[i].payload_size]

LEMMA BytesIsRunningSum ==
    ASSUME NEW h \in Seq(Stats)
    PROVE  \E f : IsRunningSum(f, PayloadsOf(h), Len(h)) /\ Bytes(h) = f[Len(h)]
<1> DEFINE B(g) == [n \in 0 .. Len(h) |-> IF n = 0 THEN 0 ELSE g[n - 1] + h[n].payload_size]
           c == CHOOSE g : g = B(g)
<1>1. \A g : B(g) = [n \in 0 .. Len(h) |-> IF n = 0 THEN 0 ELSE g[n - 1] + PayloadsOf(h)[n]]
  BY DEF PayloadsOf
<1>2. PICK f : IsRunningSum(f, PayloadsOf(h), Len(h))
  BY RunningSumExists
<1>3. f = B(f)
  BY <1>1, <1>2 DEF IsRunningSum
<1>4. Bytes(h) = c[Len(h)]
  BY DEF Bytes
<1> HIDE DEF B
<1>5. c = B(c)
  BY <1>3
<1>6. IsRunningSum(c, PayloadsOf(h), Len(h))
  BY <1>1, <1>5 DEF IsRunningSum
<1> QED
  BY <1>4, <1>6

LEMMA BytesAppend ==
    ASSUME NEW h \in Seq(Stats), NEW s \in Stats
    PROVE  Bytes(h) \in Int /\ Bytes(Append(h, s)) = Bytes(h) + s.payload_size
<1> DEFINE t == Append(h, s)
<1>1. /\ t \in Seq(Stats) /\ Len(t) = Len(h) + 1 /\ Len(h) \in Nat
      /\ \A i \in 1 .. Len(h) : t[i] = h[i]
      /\ t[Len(h) + 1] = s
  OBVIOUS
<1> HIDE DEF t
<1>2. PICK f : IsRunningSum(f, PayloadsOf(h), Len(h)) /\ Bytes(h) = f[Len(h)]
  BY BytesIsRunningSum
<1>3. PICK g : IsRunningSum(g, PayloadsOf(t), Len(h) + 1) /\ Bytes(t) = g[Len(h) + 1]
  BY <1>1, BytesIsRunningSum
<1>4. /\ \A i \in 1 .. Len(h) : PayloadsOf(h)[i] = PayloadsOf(t)[i] /\ PayloadsOf(h)[i] \in Int
      /\ PayloadsOf(t)[Len(h) + 1] = s.payload_size
  <2>1. Len(h) + 1 \in 1 .. Len(t) /\ \A i \in 1 .. Len(h) : i \in 1 .. Len(t)
    BY <1>1
  <2> QED
    BY <1>1, <2>1, PacketType DEF PayloadsOf
<1>5. f[Len(h)] = g[Len(h)] /\ g[Len(h) + 1] = g[Len(h)] + PayloadsOf(t)[Len(h) + 1]
  BY <1>1, <1>2, <1>3, <1>4, RunningSumExtends
<1>6. f[Len(h)] \in Int
  BY <1>1, <1>2, <1>4, RunningSumType
<1> QED
  BY <1>2, <1>3, <1>4, <1>5, <1>6 DEF t

LEMMA BytesEmpty == Bytes(<<>>) = 0
<1>1. PICK f : IsRunningSum(f, PayloadsOf(<<>>), 0) /\ Bytes(<<>>) = f[0]
  BY BytesIsRunningSum, <<>> \in Seq(Stats), Len(<<>>) = 0
<1> QED
  BY <1>1 DEF IsRunningSum

(* The gaps between the packets telescope. *)
LEMMA GapsTelescope ==
    ASSUME NEW h \in Seq(Stats), Len(h) >= 1
    PROVE  Gaps(h) = h[Len(h)].timestamp - h[1].timestamp
<1> DEFINE N == Len(h)
           ts(i) == h[i].timestamp
           B(g) == [n \in 1 .. N |-> IF n = 1 THEN 0 ELSE g[n - 1] + (h[n].timestamp - h[n - 1].timestamp)]
           c == CHOOSE g : g = B(g)
<1>1. N \in Nat /\ 1 \in 1 .. N /\ N \in 1 .. N
  OBVIOUS
<1>2. \A i \in 1 .. N : ts(i) \in Int
  BY PacketType
<1>3. Gaps(h) = c[N]
  BY DEF Gaps
<1>4. \A g : B(g) = [n \in 1 .. N |-> IF n = 1 THEN 0 ELSE g[n - 1] + (ts(n) - ts(n - 1))]
  OBVIOUS
<1> HIDE DEF B, ts
<1>5. \E g : g = B(g)
  <2> DEFINE g == [n \in 1 .. N |-> ts(n) - ts(1)]
  <2>1. \A n \in 1 .. N : g[n] = IF n = 1 THEN 0 ELSE g[n - 1] + (ts(n) - ts(n - 1))
    BY <1>1, <1>2
  <2>2. g = B(g)
    BY <1>4, <2>1
  <2> QED
    BY <2>2
<1>6. c = B(c)
  BY <1>5
<1> HIDE DEF c
<1>7. \A n \in 1 .. N : c[n] = IF n = 1 THEN 0 ELSE c[n - 1] + (ts(n) - ts(n - 1))
  BY <1>4, <1>6
<1> DEFINE T == {k \in Nat : k + 1 <= N => c[k + 1] = ts(k + 1) - ts(1)}
<1>8. 0 \in T
  BY <1>1, <1>2, <1>7
<1>9. ASSUME NEW k \in Nat, k \in T PROVE k + 1 \in T
  <2> SUFFICES ASSUME k + 2 <= N PROVE c[k + 2] = ts(k + 2) - ts(1)
    OBVIOUS
  <2>1. c[k + 1] = ts(k + 1) - ts(1) /\ k + 1 \in 1 .. N /\ k + 2 \in 1 .. N
    BY <1>9
  <2>2. c[k + 2] = c[k + 1] + (ts(k + 2) - ts(k + 1))
    BY <1>7, <2>1
  <2> QED
    BY <1>1, <1>2, <2>1, <2>2
<1> HIDE DEF T
<1>10. Nat \subseteq T
  BY <1>8, <1>9, NatSetInduction
<1>11. N - 1 \in T /\ (N - 1) + 1 = N
  BY <1>1, <1>10
<1> QED
  BY <1>1, <1>3, <1>11 DEF T, ts

(* One more packet, with or without the flag. *)
LEMMA WithFlagAppend ==
    ASSUME NEW h \in Seq(Stats), NEW s \in Stats, NEW flag
    PROVE  /\ WithFlag(h, flag) \in Nat
           /\ WithFlag(Append(h, s), flag) =
                IF flag \in s.tcp_flags THEN WithFlag(h, flag) + 1 ELSE WithFlag(h, flag)
<1> DEFINE t == Append(h, s)
           P(u) == {i \in DOMAIN u : flag \in u[i].tcp_flags}
<1>1. /\ t \in Seq(Stats) /\ Len(t) = Len(h) + 1 /\ Len(h) \in Nat
      /\ DOMAIN t = 1 .. Len(h) + 1 /\ DOMAIN h = 1 .. Len(h)
      /\ \A i \in 1 .. Len(h) : t[i] = h[i]
      /\ t[Len(h) + 1] = s
  OBVIOUS
<1> HIDE DEF t
<1>2. P(h) \in SUBSET (1 .. Len(h)) /\ Len(h) + 1 \notin P(h)
  BY <1>1
<1>3. IsFiniteSet(P(h)) /\ Cardinality(P(h)) \in Nat
  BY <1>1, <1>2, PositionsFinite
<1>4. P(t) = IF flag \in s.tcp_flags THEN P(h) \cup {Len(h) + 1} ELSE P(h)
  BY <1>1
<1>5. WithFlag(h, flag) = Cardinality(P(h)) /\ WithFlag(t, flag) = Cardinality(P(t))
  BY DEF WithFlag
<1> HIDE DEF P
<1>6. Cardinality(P(h) \cup {Len(h) + 1}) = Cardinality(P(h)) + 1
  BY <1>2, <1>3, FS_AddElement
<1> QED
  BY <1>3, <1>4, <1>5, <1>6 DEF t

LEMMA WithFlagEmpty == \A flag : WithFlag(<<>>, flag) = 0
<1> TAKE flag
<1>1. {i \in DOMAIN <<>> : flag \in <<>>[i].tcp_flags} = {}
  OBVIOUS
<1> QED
  BY <1>1, FS_EmptySet DEF WithFlag

-----------------------------------------------------------------------------
(* The fields of a flow and the packets it stands for.                     *)

Counts(f, h) ==
    /\ f.packet_count = Len(h) % CounterModulus
    /\ f.byte_count = Bytes(h) % CounterModulus
    /\ f.syn = WithFlag(h, "SYN") % CounterModulus
    /\ f.ack = WithFlag(h, "ACK") % CounterModulus
    /\ f.fin = WithFlag(h, "FIN") % CounterModulus
    /\ f.rst = WithFlag(h, "RST") % CounterModulus

Extremes(f, h) ==
    LET w == SinceWrap(h)
    IN  /\ {f.min_packet_size, f.max_packet_size} \subseteq Sizes(w)
        /\ Sizes(w) \subseteq f.min_packet_size .. f.max_packet_size
        /\ f.start_time = w[1].timestamp /\ f.last_seen = h[Len(h)].timestamp

LEMMA ZeroMod == 0 % CounterModulus = 0
<1>1. /\ CounterModulus \in Nat \ {0} /\ 0 \in 0 .. CounterModulus - 1
      /\ 0 = CounterModulus * 0 + 0
  BY FlowTableAssumptions
<1> QED
  BY <1>1, DivModUnique

LEMMA CreateCounts == \A key : Counts(flow_create(key), <<>>)
BY ZeroMod, BytesEmpty, WithFlagEmpty, Len(<<>>) = 0 DEF Counts, flow_create

(* flow_update_stats() counts the packet, whatever has wrapped. *)
LEMMA UpdateCounts ==
    ASSUME NEW flow \in Flow, NEW h \in Seq(Stats), NEW s \in Stats, Counts(flow, h)
    PROVE  Counts(flow_update_stats(flow, s), Append(h, s))
<1> DEFINE M == CounterModulus
           t == Append(h, s)
           new == flow_update_stats(flow, s)
<1>1. M \in Nat \ {0} /\ Len(h) \in Nat /\ Len(t) = Len(h) + 1
  BY FlowTableAssumptions
<1>2. new.packet_count = Len(t) % M
  <2>1. new.packet_count = ((Len(h) % M) + 1) % M
    BY DEF flow_update_stats, Increment, Counts
  <2>2. ((Len(h) % M) + 1) % M = (Len(h) + 1) % M
    BY <1>1, ModAdd, Len(h) \in Int, 1 \in Int
  <2> QED
    BY <1>1, <2>1, <2>2
<1>3. new.byte_count = Bytes(t) % M
  <2>1. new.byte_count = ((Bytes(h) % M) + s.payload_size) % M
    BY DEF flow_update_stats, Counts
  <2>2. Bytes(h) \in Int /\ Bytes(t) = Bytes(h) + s.payload_size /\ s.payload_size \in Int
    BY BytesAppend, StatsType
  <2> QED
    BY <1>1, <2>1, <2>2, ModAdd
<1>4. ASSUME NEW c, NEW flag, c = WithFlag(h, flag) % M
      PROVE  Flagged(c, s, flag) = WithFlag(t, flag) % M
  <2>1. /\ WithFlag(h, flag) \in Nat
        /\ WithFlag(t, flag) = IF flag \in s.tcp_flags THEN WithFlag(h, flag) + 1 ELSE WithFlag(h, flag)
    BY WithFlagAppend
  <2>2. ((WithFlag(h, flag) % M) + 1) % M = (WithFlag(h, flag) + 1) % M
    BY <1>1, <2>1, ModAdd
  <2> QED
    BY <1>4, <2>1, <2>2 DEF Flagged, Increment
<1>5. /\ new.syn = Flagged(flow.syn, s, "SYN") /\ new.ack = Flagged(flow.ack, s, "ACK")
      /\ new.fin = Flagged(flow.fin, s, "FIN") /\ new.rst = Flagged(flow.rst, s, "RST")
  BY DEF flow_update_stats
<1> HIDE DEF new, t
<1>6. /\ new.syn = WithFlag(t, "SYN") % M /\ new.ack = WithFlag(t, "ACK") % M
      /\ new.fin = WithFlag(t, "FIN") % M /\ new.rst = WithFlag(t, "RST") % M
  BY <1>4, <1>5 DEF Counts
<1>7. Counts(new, t)
  BY <1>2, <1>3, <1>6 DEF Counts
<1> QED
  BY <1>7 DEF new, t

LEMMA SizesAppend ==
    ASSUME NEW w \in Seq(Stats), NEW s \in Stats
    PROVE  /\ Sizes(<<s>>) = {s.payload_size}
           /\ Sizes(Append(w, s)) = Sizes(w) \cup {s.payload_size}
           /\ Sizes(w) \subseteq Nat
<1>1. Sizes(<<s>>) = {s.payload_size}
  <2>1. DOMAIN <<s>> = {1} /\ <<s>>[1] = s
    OBVIOUS
  <2> QED
    BY <2>1 DEF Sizes
<1>2. Sizes(w) \subseteq Nat
  <2>1. DOMAIN w = 1 .. Len(w)
    OBVIOUS
  <2> QED
    BY <2>1, PacketType DEF Sizes
<1>3. Sizes(Append(w, s)) = Sizes(w) \cup {s.payload_size}
  <2>1. /\ DOMAIN Append(w, s) = (1 .. Len(w)) \cup {Len(w) + 1} /\ DOMAIN w = 1 .. Len(w)
        /\ \A i \in 1 .. Len(w) : Append(w, s)[i] = w[i]
        /\ Append(w, s)[Len(w) + 1] = s
    OBVIOUS
  <2> QED
    BY <2>1, ZenonT(30) DEF Sizes
<1> QED
  BY <1>1, <1>2, <1>3

(* flow_update_stats() keeps the sizes and times those of the packets      *)
(* since packet_count was last 0.                                          *)
LEMMA UpdateExtremes ==
    ASSUME NEW flow \in Flow, NEW h \in Seq(Stats), NEW s \in Stats,
           Counts(flow, h), Len(h) >= 1 => Extremes(flow, h)
    PROVE  Extremes(flow_update_stats(flow, s), Append(h, s))
<1> DEFINE t == Append(h, s)
           w == SinceWrap(t)
           new == flow_update_stats(flow, s)
           p == s.payload_size
<1>1. Len(h) \in Nat /\ Len(t) = Len(h) + 1 /\ t[Len(t)] = s /\ p \in Nat /\ s.timestamp \in Int
  BY StatsType
<1>2. new.last_seen = t[Len(t)].timestamp
  BY <1>1 DEF flow_update_stats
<1>3. /\ new.min_packet_size = NewMin(flow, p) /\ new.max_packet_size = NewMax(flow, p)
      /\ new.start_time = IF First(flow) THEN s.timestamp ELSE flow.start_time
  BY DEF flow_update_stats
<1> HIDE DEF new
<1>4. CASE First(flow)
  <2>1. w = <<s>>
    BY <1>4, SinceWrapAppend DEF First, Counts
  <2>2. Sizes(w) = {p} /\ w[1] = s
    BY <2>1, SizesAppend, h \in Seq(Stats)
  <2>3. new.min_packet_size = p /\ new.max_packet_size = p /\ new.start_time = s.timestamp
    BY <1>3, <1>4 DEF NewMin, NewMax
  <2> HIDE DEF t, w, p
  <2>4. Extremes(new, t)
    BY <1>1, <1>2, <2>2, <2>3 DEF Extremes, w
  <2> QED
    BY <2>4 DEF new, t
<1>5. CASE ~First(flow)
  <2> DEFINE v == SinceWrap(h)
  <2>1. Len(h) >= 1 /\ w = Append(v, s)
    BY <1>5, SinceWrapAppend DEF First, Counts
  <2>2. v \in Seq(Stats) /\ Len(v) >= 1
    BY <2>1, WrapBaseProperties
  <2>3. /\ flow.min_packet_size \in Sizes(v) /\ flow.max_packet_size \in Sizes(v)
        /\ Sizes(v) \subseteq flow.min_packet_size .. flow.max_packet_size
        /\ flow.start_time = v[1].timestamp
    BY <2>1 DEF Extremes
  <2>4. Sizes(w) = Sizes(v) \cup {p} /\ Sizes(v) \subseteq Nat
    BY <2>1, <2>2, SizesAppend
  <2>5. w[1] = v[1]
    BY <2>1, <2>2
  <2>6. /\ new.min_packet_size = IF p < flow.min_packet_size THEN p ELSE flow.min_packet_size
        /\ new.max_packet_size = IF p > flow.max_packet_size THEN p ELSE flow.max_packet_size
        /\ new.start_time = flow.start_time
    BY <1>3, <1>5 DEF NewMin, NewMax
  <2> HIDE DEF t, w, v, p
  <2>7. new.min_packet_size \in Sizes(w) /\ new.max_packet_size \in Sizes(w)
    BY <2>3, <2>4, <2>6
  <2>8. Sizes(w) \subseteq new.min_packet_size .. new.max_packet_size
    <3>1. flow.min_packet_size \in Nat /\ flow.max_packet_size \in Nat
          /\ flow.min_packet_size <= flow.max_packet_size
      BY <2>3, <2>4
    <3>2. ASSUME NEW x \in Sizes(v) PROVE x \in new.min_packet_size .. new.max_packet_size
      <4>1. x \in Nat /\ flow.min_packet_size <= x /\ x <= flow.max_packet_size
        BY <2>3, <2>4, <3>1, <3>2
      <4> QED
        BY <1>1, <2>6, <3>1, <4>1
    <3>3. p \in new.min_packet_size .. new.max_packet_size
      BY <1>1, <2>6, <3>1
    <3> QED
      BY <2>4, <3>2, <3>3
  <2>9. Extremes(new, t)
    BY <1>2, <2>3, <2>5, <2>6, <2>7, <2>8 DEF Extremes, w
  <2> QED
    BY <2>9 DEF new, t
<1> QED
  BY <1>4, <1>5

\* Every flow of the table with the packets it stands for.
PacketsInv ==
    /\ DOMAIN history = DOMAIN flows
    /\ \A k \in DOMAIN flows :
         /\ history[k] \in Seq(Stats) /\ Len(history[k]) >= 1
         /\ Counts(flows[k], history[k]) /\ Extremes(flows[k], history[k])
         /\ flows[k].direction = Direction(k)

LEMMA PacketsInvStep == FlowsInv /\ PacketsInv /\ [Next]_vars => PacketsInv'
<1> SUFFICES ASSUME FlowsInv, PacketsInv, [Next]_vars PROVE PacketsInv'
  OBVIOUS
<1>1. ASSUME NEW f \in Frames, Process(f) PROVE PacketsInv'
  <2>1. PICK s \in Stats : s = Parse(f)
    BY <1>1 DEF Process, Stats
  <2> DEFINE key == s.key
             flow == Lookup(key)
  <2>2. PICK h : h = IF key \in DOMAIN history THEN history[key] ELSE <<>>
    OBVIOUS
  <2>3. /\ flows' = Put(flows, key, flow_update_stats(flow, s))
        /\ history' = Put(history, key, Append(h, s))
    BY <1>1, <2>1, <2>2 DEF Process
  <2>4. /\ flow \in Flow /\ h \in Seq(Stats) /\ Counts(flow, h) /\ flow.direction = Direction(key)
        /\ Len(h) >= 1 => Extremes(flow, h)
    <3>1. CASE key \in DOMAIN flows
      BY <2>2, <3>1 DEF Lookup, PacketsInv, FlowsInv, TypeOK
    <3>2. CASE key \notin DOMAIN flows
      <4>1. flow = flow_create(key) /\ h = <<>>
        BY <2>2, <3>2 DEF Lookup, PacketsInv
      <4>2. flow \in Flow /\ Counts(flow, h) /\ flow.direction = Direction(key)
        BY <4>1, CreateCoherent, CreateCounts DEF flow_create
      <4>3. h \in Seq(Stats) /\ ~(Len(h) >= 1)
        BY <4>1
      <4> QED
        BY <4>2, <4>3
    <3> QED
      BY <3>1, <3>2
  <2>5. PICK g, t : g = flow_update_stats(flow, s) /\ t = Append(h, s)
    OBVIOUS
  <2> HIDE DEF flow
  <2>6. Counts(g, t) /\ Extremes(g, t)
    BY <2>4, <2>5, UpdateCounts, UpdateExtremes
  <2>7. t \in Seq(Stats) /\ Len(t) >= 1 /\ g.direction = Direction(key)
    BY <2>4, <2>5 DEF flow_update_stats
  <2>8. /\ DOMAIN flows' = DOMAIN flows \cup {key} /\ DOMAIN history' = DOMAIN flows \cup {key}
        /\ \A k \in DOMAIN flows' : flows'[k] = IF k = key THEN g ELSE flows[k]
        /\ \A k \in DOMAIN flows' : history'[k] = IF k = key THEN t ELSE history[k]
    BY <2>3, <2>5 DEF Put, PacketsInv
  <2> HIDE DEF key
  <2>9. ASSUME NEW k \in DOMAIN flows'
        PROVE  /\ history'[k] \in Seq(Stats) /\ Len(history'[k]) >= 1
               /\ Counts(flows'[k], history'[k]) /\ Extremes(flows'[k], history'[k])
               /\ flows'[k].direction = Direction(k)
    <3>1. CASE k = key
      BY <2>6, <2>7, <2>8, <3>1
    <3>2. CASE k # key
      <4>1. k \in DOMAIN flows /\ flows'[k] = flows[k] /\ history'[k] = history[k]
        BY <2>8, <3>2
      <4> QED
        BY <4>1 DEF PacketsInv
    <3> QED
      BY <3>1, <3>2
  <2> QED
    BY <2>8, <2>9, Zenon DEF PacketsInv
<1>2. ASSUME NEW key \in Keys, SendFlow(key) PROVE PacketsInv'
  <2>1. /\ DOMAIN flows' = DOMAIN flows \ {key} /\ DOMAIN history' = DOMAIN history \ {key}
        /\ \A k \in DOMAIN flows' : flows'[k] = flows[k]
        /\ \A k \in DOMAIN history' : history'[k] = history[k]
    BY <1>2 DEF SendFlow, Without
  <2> QED
    BY <2>1, Zenon DEF PacketsInv
<1>3. CASE UNCHANGED vars
  BY <1>3, Zenon DEF vars, PacketsInv
<1>4. ASSUME NEW f \in Frames, Reject(f) PROVE PacketsInv'
  BY <1>3, <1>4, Zenon DEF Reject
<1> QED
  BY <1>1, <1>2, <1>3, <1>4, Zenon DEF Next

LEMMA PacketsInvInit == Init => PacketsInv
BY DEF Init, PacketsInv

(* total_iat_usec is the sum of the gaps since packet_count was last 0. *)
LEMMA IatIsGaps ==
    ASSUME FlowsInv, PacketsInv, NEW k \in DOMAIN flows
    PROVE  flows[k].total_iat_usec = Gaps(SinceWrap(history[k]))
<1> DEFINE f == flows[k]
           h == history[k]
           w == SinceWrap(h)
<1>1. h \in Seq(Stats) /\ Len(h) >= 1 /\ Extremes(f, h)
  BY DEF PacketsInv
<1>2. /\ w \in Seq(Stats) /\ Len(w) = Len(h) - WrapBase(h)
      /\ Len(w) >= 1 /\ w[Len(w)] = h[Len(h)]
  <2>1. /\ WrapBase(h) \in 0 .. Len(h) - 1 /\ Len(h) - WrapBase(h) \in 1 .. CounterModulus
        /\ w \in Seq(Stats) /\ Len(w) = Len(h) - WrapBase(h)
        /\ \A i \in 1 .. Len(h) - WrapBase(h) : w[i] = h[WrapBase(h) + i]
    BY <1>1, WrapBaseProperties
  <2>2. Len(h) \in Nat /\ WrapBase(h) \in Int /\ Len(w) \in 1 .. Len(h) - WrapBase(h)
        /\ WrapBase(h) + Len(w) = Len(h)
    BY <1>1, <2>1, FlowTableAssumptions
  <2> QED
    BY <2>1, <2>2
<1>3. Gaps(w) = w[Len(w)].timestamp - w[1].timestamp
  BY <1>2, GapsTelescope
<1>4. f.last_seen = h[Len(h)].timestamp /\ f.start_time = w[1].timestamp
  BY <1>1 DEF Extremes
<1>5. f.total_iat_usec = f.last_seen - f.start_time
  BY DEF FlowsInv, Coherent
<1> QED
  BY <1>2, <1>3, <1>4, <1>5

(***************************************************************************)
(* The counts, sizes and times of every flow are those of exactly the      *)
(* packets given to it, for every number of packets and every width of the *)
(* counters: modulo the width, and since packet_count was last 0 for the   *)
(* sizes and times (flow_update_stats(), flow.c 50-88).                    *)
(***************************************************************************)
THEOREM FlowsAreTheirPackets == Spec => []AggregatesMatchPackets
<1>1. FlowsInv /\ PacketsInv => AggregatesMatchPackets
  <2> SUFFICES ASSUME FlowsInv, PacketsInv, NEW k \in DOMAIN flows
               PROVE  /\ Counts(flows[k], history[k]) /\ Extremes(flows[k], history[k])
                      /\ flows[k].total_iat_usec = Gaps(SinceWrap(history[k]))
    BY Zenon DEF AggregatesMatchPackets, Counts, Extremes
  <2> QED
    BY IatIsGaps DEF PacketsInv
<1> QED
  BY <1>1, FlowsInvInit, FlowsInvInductive, PacketsInvInit, PacketsInvStep, PTL DEF Spec

(* packet_count and the number of packets since it was last 0. *)
LEMMA CountSinceWrap ==
    ASSUME NEW h \in Seq(Stats), Len(h) >= 1
    PROVE  Len(h) % CounterModulus =
             IF Len(SinceWrap(h)) = CounterModulus THEN 0 ELSE Len(SinceWrap(h))
<1> DEFINE M == CounterModulus
<1>1. /\ M \in Nat \ {0} /\ Len(h) \in Nat /\ WrapBase(h) \in 0 .. Len(h) - 1
      /\ Len(SinceWrap(h)) = Len(h) - WrapBase(h) /\ Len(h) - WrapBase(h) \in 1 .. M
  BY FlowTableAssumptions, WrapBaseProperties
<1>2. PICK l \in Int, b \in Int, n \in 1 .. M :
        l = Len(h) /\ b = WrapBase(h) /\ n = Len(SinceWrap(h)) /\ l = b + n
  BY <1>1
<1>3. PICK q \in Int : b = M * q
  BY <1>1, <1>2, DivMod, Len(h) - 1 \in Int DEF WrapBase
<1>4. CASE n = M
  <2>1. PICK p \in Int : p = q + 1 /\ l = M * p + 0 /\ 0 \in 0 .. M - 1
    <3>1. M * (q + 1) = M * q + M /\ q + 1 \in Int /\ 0 \in 0 .. M - 1
      BY <1>1
    <3>2. l = M * (q + 1) + 0
      BY <1>1, <1>2, <1>3, <1>4, <3>1
    <3> QED
      BY <3>1, <3>2
  <2>2. l % M = 0
    BY <1>1, <2>1, DivModUnique
  <2> QED
    BY <1>2, <1>4, <2>2
<1>5. CASE n # M
  <2>1. l = M * q + n /\ n \in 0 .. M - 1
    BY <1>1, <1>2, <1>3, <1>5
  <2>2. l % M = n
    BY <1>1, <2>1, DivModUnique
  <2> QED
    BY <1>2, <1>5, <2>2
<1> QED
  BY <1>4, <1>5

LEMMA MeanStep == FlowsInv /\ PacketsInv /\ MeanIsOverGaps /\ [Next]_vars => MeanIsOverGaps'
<1> SUFFICES ASSUME FlowsInv, PacketsInv, MeanIsOverGaps, [Next]_vars PROVE MeanIsOverGaps'
  OBVIOUS
<1>1. CASE sent' = sent
  BY <1>1, Zenon DEF MeanIsOverGaps
<1>2. ASSUME NEW key \in Keys, SendFlow(key) PROVE MeanIsOverGaps'
  <2> DEFINE h == history[key]
             w == SinceWrap(h)
             c == flows[key].packet_count
  <2>1. /\ key \in DOMAIN flows
        /\ sent' = {[event |-> Event(key, flows[key]), packets |-> h]}
    BY <1>2 DEF SendFlow
  <2>2. h \in Seq(Stats) /\ Len(h) >= 1 /\ c = Len(h) % CounterModulus
    BY <2>1 DEF PacketsInv, Counts
  <2>3. c = IF Len(w) = CounterModulus THEN 0 ELSE Len(w)
    BY <2>2, CountSinceWrap
  <2>4. Len(w) \in 1 .. CounterModulus /\ CounterModulus \in Nat
    BY <2>2, WrapBaseProperties, FlowTableAssumptions
  <2>5. flows[key].total_iat_usec = Gaps(w)
    BY <2>1, IatIsGaps
  <2>6. Event(key, flows[key]).mean_iat =
          IF c > 1 THEN <<flows[key].total_iat_usec, c - 1>> ELSE <<0, 1>>
    BY DEF Event
  <2> HIDE DEF c, w, h
  <2>7. c > 1 <=> Len(w) \in 2 .. CounterModulus - 1
    BY <2>3, <2>4
  <2>8. c > 1 => c = Len(w)
    BY <2>3, <2>4
  <2>9. Event(key, flows[key]).mean_iat =
          IF Len(w) \in 2 .. CounterModulus - 1 THEN <<Gaps(w), Len(w) - 1>> ELSE <<0, 1>>
    BY <2>5, <2>6, <2>7, <2>8, Zenon
  <2>10. ASSUME NEW e \in sent' PROVE e.event = Event(key, flows[key]) /\ e.packets = h
    BY <2>1
  <2> QED
    BY <2>9, <2>10, Zenon DEF MeanIsOverGaps, w
<1>3. (\E key \in Keys : SendFlow(key)) \/ sent' = sent
  BY DEF Next, vars, Process, Reject
<1> QED
  BY <1>1, <1>2, <1>3

(***************************************************************************)
(* The mean an event carries is the sum of the gaps of its packets over    *)
(* the number of gaps, and 0 when there is no gap or packet_count has just *)
(* wrapped (kafka_client.c 146-148).                                       *)
(***************************************************************************)
THEOREM MeanIsExact == Spec => []MeanIsOverGaps
<1>1. Init => MeanIsOverGaps
  BY DEF Init, MeanIsOverGaps
<1> QED
  BY <1>1, FlowsInvInit, FlowsInvInductive, PacketsInvInit, PacketsInvStep, MeanStep, PTL DEF Spec

(***************************************************************************)
(* The two flows of a conversation have mirrored directions, whichever of  *)
(* them was created first (flow.c 113-127).                                *)
(***************************************************************************)
THEOREM DirectionsMirror == Spec => []MirroredDirections
<1>1. FlowsInv /\ PacketsInv => MirroredDirections
  <2> SUFFICES ASSUME FlowsInv, PacketsInv, NEW k \in DOMAIN flows, Reversed(k) \in DOMAIN flows
               PROVE  flows[Reversed(k)].direction = Mirror[flows[k].direction]
    BY DEF MirroredDirections
  <2>1. flows[k].direction = Direction(k) /\ flows[Reversed(k)].direction = Direction(Reversed(k))
    BY DEF PacketsInv
  <2>2. PICK f \in Frames : k = Key(f)
    <3>1. k \in Keys
      BY DEF FlowsInv, TypeOK
    <3> QED
      BY <3>1 DEF Keys, Stats, Parse
  <2>3. Reversed(k).src_ip = k.dst_ip /\ Reversed(k).dst_ip = k.src_ip
    BY <2>2 DEF Reversed, Key
  <2>4. Direction(Reversed(k)) = Mirror[Direction(k)]
    BY <2>3 DEF Direction, Mirror
  <2> QED
    BY <2>1, <2>4
<1> QED
  BY <1>1, FlowsInvInit, FlowsInvInductive, PacketsInvInit, PacketsInvStep, PTL DEF Spec
=============================================================================
