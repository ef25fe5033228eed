---------------------------- MODULE PacketParser ----------------------------
(***************************************************************************)
(* pkt_handler() of sniffer/src/parser.c up to its critical section: which *)
(* frames are accepted, and the pkt_stats_t made of an accepted one.       *)
(*                                                                         *)
(* A frame is a record of the header fields pkt_handler reads.  Addresses  *)
(* and ports are opaque; lengths are in bytes, ip_hl and th_off in 32-bit  *)
(* words as on the wire; th_flags is the set of flags that are up.         *)
(***************************************************************************)
EXTENDS Integers

EtherLen == 14
VlanLen  == 4
IpLen    == 20
TcpLen   == 20
UdpLen   == 8

\* One 802.1Q tag is skipped; the type after it decides.
Tagged(f) == f.ether_type = "VLAN"

Offset(f) == EtherLen + (IF Tagged(f) THEN VlanLen ELSE 0)

NetworkType(f) == IF Tagged(f) THEN f.vlan_type ELSE f.ether_type

IpHdrLen(f) == f.ip_hl * 4

IsIPv4(f) ==
    /\ NetworkType(f) = "IP"
    /\ f.caplen >= Offset(f) + IpLen
    /\ f.ip_v = 4

\* TCP and UDP only, with the fixed part of the transport header captured.
HasTransport(f) ==
    /\ f.protocol \in {"TCP", "UDP"}
    /\ f.caplen >= Offset(f) + IpHdrLen(f)
                   + (IF f.protocol = "TCP" THEN TcpLen ELSE UdpLen)

\* The payload by the lengths of the headers, whatever part was captured.
LengthFieldPayload(f) ==
    f.ip_len - IpHdrLen(f) - (IF f.protocol = "TCP" THEN f.th_off * 4 ELSE UdpLen)

\* Does not stop at zero.
UnclampedPayload(f) == LengthFieldPayload(f)

PayloadSize(f) == IF LengthFieldPayload(f) < 0 THEN 0 ELSE LengthFieldPayload(f)

Key(f) == [src_ip |-> f.src_ip, dst_ip |-> f.dst_ip,
           src_port |-> f.src_port, dst_port |-> f.dst_port,
           protocol |-> f.protocol]

\* The conditions of the early returns, negated.
Accepted(f) == IsIPv4(f) /\ HasTransport(f)

\* The stats of an accepted frame; tcp_flags keeps its initial zero for UDP.
Parse(f) ==
    [key          |-> Key(f),
     payload_size |-> PayloadSize(f),
     timestamp    |-> f.ts,
     tcp_flags    |-> IF f.protocol = "TCP" THEN f.th_flags ELSE {}]
=============================================================================
