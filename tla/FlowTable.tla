------------------------------ MODULE FlowTable ------------------------------
(***************************************************************************)
(* The content of a flow table: flow_process_packet() and                  *)
(* flow_update_stats() of sniffer/src/flow.c fed by pkt_handler(), and the *)
(* event kafka_client_send_flows() makes of a flow before it frees it.     *)
(*                                                                         *)
(* Sniffer shows that one thread at a time works on a table; here every    *)
(* operation on it is one step, and the fields of flow_t are modelled.     *)
(***************************************************************************)
EXTENDS PacketParser, Sequences, FiniteSets

CONSTANTS
    Frames,          \* frames the capture may deliver
    Local,           \* addresses with (ip & net_mask) = net_ip; none when
                     \* pcap_lookupnet() failed and net_mask is 0
    CounterModulus,  \* 2^32 in the code: the range of the uint32_t counters
    MaxPackets       \* bound on the packets accepted

ASSUME FlowTableAssumptions ==
    /\ CounterModulus \in Nat \ {0}
    /\ MaxPackets \in Nat
    /\ \A f \in Frames : f.ts \in Int /\ f.ip_len \in Nat /\ f.ip_len < 65536
                        /\ f.ip_hl \in Nat /\ f.th_off \in Nat

VARIABLES
    flows,    \* key -> flow_t, for the keys in the table
    history,  \* history: key -> the packets of its flow since it was created
    sent,     \* the last event produced, if any, with the packets it stands for
    accepted  \* packets accepted so far, for the bound

vars == <<flows, history, sent, accepted>>

Stats == {Parse(f) : f \in {g \in Frames : Accepted(g)}}
Keys  == {s.key : s \in Stats}

-----------------------------------------------------------------------------

\* A counter wider than the code's.
IncrementWide(c) == c + 1

Increment(c) == (c + 1) % CounterModulus

\* Decides by the source alone.
DirectionBySource(key) == IF key.src_ip \in Local THEN "OUTBOUND" ELSE "INBOUND"

\* flow_process_packet()'s inference, made once, when the flow is created.
Direction(key) ==
    LET src_is_local == key.src_ip \in Local
        dst_is_local == key.dst_ip \in Local
    IN  CASE src_is_local /\ ~dst_is_local -> "OUTBOUND"
          [] ~src_is_local /\ dst_is_local -> "INBOUND"
          [] src_is_local /\ dst_is_local  -> "LATERAL"
          [] OTHER                         -> "UNKNOWN"

\* flow_create(): calloc() clears every counter.
flow_create(key) ==
    [direction |-> Direction(key), packet_count |-> 0, byte_count |-> 0,
     min_packet_size |-> 0, max_packet_size |-> 0, start_time |-> 0, last_seen |-> 0,
     total_iat_usec |-> 0, syn |-> 0, ack |-> 0, fin |-> 0, rst |-> 0]

Flagged(c, s, flag) == IF flag \in s.tcp_flags THEN Increment(c) ELSE c

\* Packet counter 0: the first packet of the flow, or the first after the
\* counter wrapped.
First(flow) == flow.packet_count = 0

\* Has no branch for the first packet.
NewMinFromZero(flow, size) ==
    IF size < flow.min_packet_size THEN size ELSE flow.min_packet_size

\* The smaller (larger) size, the new one when there is none yet.
NewMin(flow, size) ==
    IF First(flow) \/ size < flow.min_packet_size THEN size ELSE flow.min_packet_size

NewMax(flow, size) ==
    IF First(flow) \/ size > flow.max_packet_size THEN size ELSE flow.max_packet_size

NewIat(flow, ts) ==
    IF First(flow) THEN 0 ELSE flow.total_iat_usec + (ts - flow.last_seen)

flow_update_stats(flow, s) ==
    [direction       |-> flow.direction,
     packet_count    |-> Increment(flow.packet_count),
     byte_count      |-> (flow.byte_count + s.payload_size) % CounterModulus,
     min_packet_size |-> NewMin(flow, s.payload_size),
     max_packet_size |-> NewMax(flow, s.payload_size),
     start_time      |-> IF First(flow) THEN s.timestamp ELSE flow.start_time,
     last_seen       |-> s.timestamp,
     total_iat_usec  |-> NewIat(flow, s.timestamp),
     syn |-> Flagged(flow.syn, s, "SYN"), ack |-> Flagged(flow.ack, s, "ACK"),
     fin |-> Flagged(flow.fin, s, "FIN"), rst |-> Flagged(flow.rst, s, "RST")]

\* Divides by the number of packets instead of the number of gaps.
EventPerPacket(key, flow) ==
    [key |-> key, dir |-> flow.direction,
     packets |-> flow.packet_count, bytes |-> flow.byte_count,
     min_size |-> flow.min_packet_size, max_size |-> flow.max_packet_size,
     mean_iat |-> IF flow.packet_count > 1
                  THEN <<flow.total_iat_usec, flow.packet_count>> ELSE <<0, 1>>,
     syn |-> flow.syn, ack |-> flow.ack, fin |-> flow.fin, rst |-> flow.rst]

\* The event of one flow.  mean_iat is the exact quotient, as numerator and
\* denominator, that the code prints with one decimal.
Event(key, flow) ==
    [key |-> key, dir |-> flow.direction,
     packets |-> flow.packet_count, bytes |-> flow.byte_count,
     min_size |-> flow.min_packet_size, max_size |-> flow.max_packet_size,
     mean_iat |-> IF flow.packet_count > 1
                  THEN <<flow.total_iat_usec, flow.packet_count - 1>> ELSE <<0, 1>>,
     syn |-> flow.syn, ack |-> flow.ack, fin |-> flow.fin, rst |-> flow.rst]

-----------------------------------------------------------------------------

Init ==
    /\ flows = <<>> /\ history = <<>>
    /\ sent = {}
    /\ accepted = 0

\* f with value v at k, k added to its domain if need be.
Put(f, k, v) == [j \in DOMAIN f \cup {k} |-> IF j = k THEN v ELSE f[j]]

Without(f, k) == [j \in DOMAIN f \ {k} |-> f[j]]

Lookup(key) == IF key \in DOMAIN flows THEN flows[key] ELSE flow_create(key)

\* pkt_handler() with flow_process_packet() on an accepted frame.
Process(f) ==
    LET s == Parse(f)
    IN  /\ Accepted(f)
        /\ accepted < MaxPackets
        /\ flows' = Put(flows, s.key, flow_update_stats(Lookup(s.key), s))
        /\ history' = Put(history, s.key,
                         Append(IF s.key \in DOMAIN history THEN history[s.key] ELSE <<>>, s))
        /\ accepted' = accepted + 1
        /\ UNCHANGED sent

\* An early return of pkt_handler().
Reject(f) ==
    /\ ~Accepted(f)
    /\ UNCHANGED vars

\* One turn of kafka_client_send_flows()'s loop.
SendFlow(key) ==
    /\ key \in DOMAIN flows
    /\ sent' = {[event |-> Event(key, flows[key]), packets |-> history[key]]}
    /\ flows' = Without(flows, key)
    /\ history' = Without(history, key)
    /\ UNCHANGED accepted

Next ==
    \/ \E f \in Frames : Process(f) \/ Reject(f)
    \/ \E key \in Keys : SendFlow(key)

Spec == Init /\ [][Next]_vars

-----------------------------------------------------------------------------

\* What dir_to_str() writes.
Directions == {"OUTBOUND", "INBOUND", "LATERAL", "UNKNOWN"}

Flow == [direction : Directions,
         packet_count : 0 .. CounterModulus - 1, byte_count : 0 .. CounterModulus - 1,
         min_packet_size : Int, max_packet_size : Int,
         start_time : Int, last_seen : Int, total_iat_usec : Int,
         syn : 0 .. CounterModulus - 1, ack : 0 .. CounterModulus - 1,
         fin : 0 .. CounterModulus - 1, rst : 0 .. CounterModulus - 1]

TypeOK ==
    /\ DOMAIN flows \subseteq Keys
    /\ \A k \in DOMAIN flows : flows[k] \in Flow
    /\ accepted \in Nat

Bytes(h) ==
    LET sum[n \in 0 .. Len(h)] == IF n = 0 THEN 0 ELSE sum[n - 1] + h[n].payload_size
    IN  sum[Len(h)]

Gaps(h) ==
    LET sum[n \in 1 .. Len(h)] ==
          IF n = 1 THEN 0 ELSE sum[n - 1] + (h[n].timestamp - h[n - 1].timestamp)
    IN  sum[Len(h)]

WithFlag(h, flag) == Cardinality({i \in DOMAIN h : flag \in h[i].tcp_flags})

\* The packets since packet_count was last 0; all of them below 2^32 packets.
SinceWrap(h) == SubSeq(h, CounterModulus * ((Len(h) - 1) \div CounterModulus) + 1, Len(h))

Sizes(h) == {h[i].payload_size : i \in DOMAIN h}

(***************************************************************************)
(* Every flow in the table has the counts, sizes and times of exactly the  *)
(* packets that were given to it, in their order: the volume counters      *)
(* modulo 2^32, the sizes and times over the packets since packet_count    *)
(* was last 0 (flow_update_stats(), flow.c 50-88).                         *)
(***************************************************************************)
AggregatesMatchPackets ==
    \A k \in DOMAIN flows :
        LET f == flows[k]
            h == history[k]
            w == SinceWrap(h)
        IN  /\ f.packet_count = Len(h) % CounterModulus
            /\ f.byte_count = Bytes(h) % CounterModulus
            /\ {f.min_packet_size, f.max_packet_size} \subseteq Sizes(w)
            /\ Sizes(w) \subseteq f.min_packet_size .. f.max_packet_size
            /\ f.start_time = w[1].timestamp /\ f.last_seen = h[Len(h)].timestamp
            /\ f.total_iat_usec = Gaps(w)
            /\ f.syn = WithFlag(h, "SYN") % CounterModulus
            /\ f.ack = WithFlag(h, "ACK") % CounterModulus
            /\ f.fin = WithFlag(h, "FIN") % CounterModulus
            /\ f.rst = WithFlag(h, "RST") % CounterModulus

\* The mean the event carries (kafka_client.c 146-148) is the sum of the gaps
\* between the packets over the number of gaps, and 0 when there is no gap or
\* the counter has just wrapped.
MeanIsOverGaps ==
    \A e \in sent :
        LET w == SinceWrap(e.packets)
        IN  e.event.mean_iat =
              IF Len(w) \in 2 .. CounterModulus - 1 THEN <<Gaps(w), Len(w) - 1>> ELSE <<0, 1>>

\* min_packet_size and max_packet_size are uint16_t and are compared with an
\* int: whatever lengths the headers claim, both hold a payload that fits.
SizesFit ==
    \A k \in DOMAIN flows :
        /\ 0 <= flows[k].min_packet_size
        /\ flows[k].min_packet_size <= flows[k].max_packet_size
        /\ flows[k].max_packet_size < 65536

Reversed(key) ==
    [key EXCEPT !.src_ip = key.dst_ip, !.dst_ip = key.src_ip,
                !.src_port = key.dst_port, !.dst_port = key.src_port]

Mirror == [OUTBOUND |-> "INBOUND", INBOUND |-> "OUTBOUND",
           LATERAL |-> "LATERAL", UNKNOWN |-> "UNKNOWN"]

\* The two flows of a conversation have mirrored directions (flow.c 113-127).
MirroredDirections ==
    \A k \in DOMAIN flows :
        Reversed(k) \in DOMAIN flows =>
            flows[Reversed(k)].direction = Mirror[flows[k].direction]
=============================================================================
