---------------------------- MODULE MCAggregator ----------------------------
(* Events for TLC.                                                         *)
EXTENDS Aggregator

Zero == [f \in Flags |-> 0]

\* From host 1, port 12.  Its byte count does not fit an int of modulus 8.
Download ==
    [src_ip |-> <<1>>, src_port |-> <<1, 2>>, dst_ip |-> <<3>>, dst_port |-> <<4>>,
     protocol |-> "TCP", dir |-> "INBOUND", packets |-> 2, bytes |-> 5,
     tcp |-> [Zero EXCEPT !["syn"] = 1, !["ack"] = 2]]

\* From host 11, port 2: the same characters.
Upload ==
    [Download EXCEPT !.src_ip = <<1, 1>>, !.src_port = <<2>>, !.dir = "OUTBOUND",
                     !.bytes = 3, !.packets = 1]

SomeEvents == {Download, Upload}

OneEvent == {Download}
=============================================================================
