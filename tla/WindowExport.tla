---------------------------- MODULE WindowExport ----------------------------
(***************************************************************************)
(* What the sniffer's double buffer promises, with no threads, mutex,      *)
(* pointers or queues in sight: packets are grouped by key in the current  *)
(* window; closing a window moves all of it aside in one step and starts   *)
(* an empty one; each flow of a closed window is emitted whole, once, and  *)
(* the next window is not closed before the last one is emitted.           *)
(***************************************************************************)
CONSTANTS Packets, Keys

VARIABLES
    current,  \* the window being captured: key -> packets
    closing,  \* the window being exported
    emitted   \* the flows exported so far

NoFlows == [k \in Keys |-> {}]

Fresh(p) ==
    /\ \A k \in Keys : p \notin current[k] /\ p \notin closing[k]
    /\ \A m \in emitted : p \notin m.pkts

Init ==
    /\ current = NoFlows
    /\ closing = NoFlows
    /\ emitted = {}

Aggregate(p, k) ==
    /\ Fresh(p)
    /\ current' = [current EXCEPT ![k] = @ \cup {p}]
    /\ UNCHANGED <<closing, emitted>>

CloseWindow ==
    /\ closing = NoFlows
    /\ closing' = current
    /\ current' = NoFlows
    /\ UNCHANGED emitted

Emit(k) ==
    /\ closing[k] # {}
    /\ emitted' = emitted \cup {[key |-> k, pkts |-> closing[k]]}
    /\ closing' = [closing EXCEPT ![k] = {}]
    /\ UNCHANGED current

Next ==
    \/ \E p \in Packets, k \in Keys : Aggregate(p, k)
    \/ CloseWindow
    \/ \E k \in Keys : Emit(k)

Spec == Init /\ [][Next]_<<current, closing, emitted>>
=============================================================================
