----------------------------- MODULE MCFlowTable -----------------------------
(* Frames for TLC: what a hotspot sees, and the corners of pkt_handler().  *)
EXTENDS FlowTable, TLC

\* A TCP segment from a local host to a remote one, 7 bytes of payload.
Segment ==
    [ether_type |-> "IP", vlan_type |-> "none", caplen |-> 61,
     ip_v |-> 4, ip_hl |-> 5, ip_len |-> 47, protocol |-> "TCP",
     src_ip |-> "host", dst_ip |-> "server", src_port |-> "a", dst_port |-> "b",
     th_off |-> 5, th_flags |-> {"ACK"}, ts |-> 5]

Reply(f) == [f EXCEPT !.src_ip = f.dst_ip, !.dst_ip = f.src_ip,
                      !.src_port = f.dst_port, !.dst_port = f.src_port]

Datagram == [Segment EXCEPT !.protocol = "UDP", !.dst_ip = "peer", !.ip_len = 29,
                            !.th_flags = {"SYN"}]

\* Accepted and rejected at the boundaries of every check.
CornerFrames ==
    { Segment,
      [Segment EXCEPT !.ts = 9, !.th_flags = {"FIN", "ACK"}, !.ip_len = 40],
      [Segment EXCEPT !.ts = 3, !.ip_len = 30],                      \* clock back, negative payload
      [Segment EXCEPT !.caplen = 54],                                \* headers only, cut by the snaplen
      [Segment EXCEPT !.caplen = 53],                                \* TCP header cut
      Reply([Segment EXCEPT !.th_flags = {"SYN", "RST"}, !.ip_hl = 6, !.caplen = 65]),
      [Segment EXCEPT !.ether_type = "VLAN", !.vlan_type = "IP", !.caplen = 58],
      [Segment EXCEPT !.ether_type = "VLAN", !.vlan_type = "IP", !.caplen = 57],
      [Segment EXCEPT !.ether_type = "VLAN", !.vlan_type = "VLAN"],  \* two tags
      Datagram, Reply(Datagram),
      [Datagram EXCEPT !.src_ip = "server", !.dst_ip = "outside"],   \* no end is local
      [Datagram EXCEPT !.caplen = 42, !.ip_len = 65535, !.ip_hl = 2],
      [Datagram EXCEPT !.caplen = 41],                               \* UDP header cut
      [Segment EXCEPT !.caplen = 33],                                \* IP header cut
      [Segment EXCEPT !.ip_v = 6],
      [Segment EXCEPT !.ether_type = "IPV6"],
      [Segment EXCEPT !.protocol = "ICMP"] }
=============================================================================
