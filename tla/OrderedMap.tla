----------------------------- MODULE OrderedMap -----------------------------
(***************************************************************************)
(* What a flow table promises the sniffer: every key is in it at most      *)
(* once, and an export takes out all of its entries, one by one and in the *)
(* order in which they were put in, and leaves the empty table.            *)
(***************************************************************************)
EXTENDS SequencesExt

CONSTANT Keys

VARIABLES
    order,     \* the keys in the table, oldest first
    draining   \* an export is taking them out

vars == <<order, draining>>

Init == order = <<>> /\ draining = FALSE

Insert(k) ==
    /\ ~draining
    /\ k \notin ToSet(order)
    /\ order' = Append(order, k)
    /\ UNCHANGED draining

BeginDrain ==
    /\ ~draining /\ order # <<>>
    /\ draining' = TRUE
    /\ UNCHANGED order

RemoveOldest ==
    /\ draining /\ order # <<>>
    /\ order' = Tail(order)
    /\ UNCHANGED draining

EndDrain ==
    /\ draining /\ order = <<>>
    /\ draining' = FALSE
    /\ UNCHANGED order

Next == (\E k \in Keys : Insert(k)) \/ BeginDrain \/ RemoveOldest \/ EndDrain

Spec == Init /\ [][Next]_vars
=============================================================================
