------------------------------- MODULE UtHash -------------------------------
(***************************************************************************)
(* uthash.h as the sniffer uses it: HASH_FIND and HASH_ADD from            *)
(* flow_process_packet(), HASH_ITER with HASH_DEL and free() from          *)
(* kafka_client_send_flows().  A table is reached through its first        *)
(* element; every element carries a handle with two doubly linked lists,   *)
(* one in the order of insertion and one per bucket, and the buckets       *)
(* double when a chain grows too long.                                     *)
(*                                                                         *)
(* Elements are addresses.  The hash function is any function of the key,  *)
(* since nothing but the cost of a lookup may depend on it.  Sniffer shows *)
(* that one thread at a time works on a table.                             *)
(***************************************************************************)
EXTENDS Integers, SequencesExt

CONSTANTS
    Keys,           \* values of flow_key_t
    Elements,       \* addresses calloc() may return for a flow_t
    NULL,
    HashFunctions,  \* functions from Keys to hash values
    InitialLog2,    \* HASH_INITIAL_NUM_BUCKETS_LOG2
    Threshold       \* HASH_BKT_CAPACITY_THRESH

\* Memory is finite and hash values are unsigned.
ASSUME UtHashAssumptions ==
    /\ IsFiniteSet(Elements) /\ NULL \notin Elements
    /\ HashFunctions \subseteq [Keys -> Nat]
    /\ InitialLog2 \in Nat /\ Threshold \in Nat \ {0}

VARIABLES
    hashv,      \* the hash function
    head,       \* the table: its first element, or NULL
    tbl,        \* UT_hash_table, if there is a table
    hh,         \* element -> UT_hash_handle
    allocated,  \* elements that have been allocated and not freed
    pc,         \* "idle", "iter" inside HASH_ITER, "exited"
    el, tmp     \* HASH_ITER's pointers: current_flow and tmp

vars == <<hashv, head, tbl, hh, allocated, pc, el, tmp>>

\* The table and the handles together, for the macros that change both.
Memory == [tbl |-> tbl, hh |-> hh]

NoTable == [buckets |-> <<>>]

Blank == [key |-> NULL, prev |-> NULL, next |-> NULL, hh_prev |-> NULL, hh_next |-> NULL]

EmptyBucket == [hh_head |-> NULL, count |-> 0, expand_mult |-> 0]

Pointer == Elements \cup {NULL}

\* The elements from start along a field of the handles, at most one more than
\* there are elements.
Nodes(start, succ) ==
    LET node[n \in 1 .. Cardinality(Pointer)] == IF n = 1 THEN start ELSE succ[node[n - 1]]
    IN  [n \in 1 .. Cardinality({i \in DOMAIN node : node[i] # NULL}) |-> node[n]]

NextOf(h) == [p \in Pointer |-> IF p = NULL THEN NULL ELSE h[p].next]

HhNextOf(h) == [p \in Pointer |-> IF p = NULL THEN NULL ELSE h[p].hh_next]

Chain(m, b) == Nodes(m.tbl.buckets[b].hh_head, HhNextOf(m.hh))

-----------------------------------------------------------------------------

\* 1U << n.
Pow2(n) == LET pow[i \in 0 .. n] == IF i = 0 THEN 1 ELSE 2 * pow[i - 1] IN pow[n]

\* HASH_FUNCTION of the key.
HASH_VALUE(k) == hashv[k]

\* hashv & (num_bkts - 1), for a power of two.
HASH_TO_BKT(k, num_bkts) == HASH_VALUE(k) % num_bkts

\* The first element of the chain with this hash value and key.
HASH_FIND_IN_BKT(chain, k) ==
    LET i == SelectInSeq(chain, LAMBDA e : HASH_VALUE(hh[e].key) = HASH_VALUE(k) /\ hh[e].key = k)
    IN  IF i = 0 THEN NULL ELSE chain[i]

HASH_FIND(k) ==
    IF head = NULL THEN NULL
    ELSE HASH_FIND_IN_BKT(Chain(Memory, HASH_TO_BKT(k, tbl.num_buckets)), k)

HASH_MAKE_TABLE(e) ==
    [buckets |-> [b \in 0 .. Pow2(InitialLog2) - 1 |-> EmptyBucket],
     num_buckets |-> Pow2(InitialLog2), log2_num_buckets |-> InitialLog2,
     num_items |-> 0, tail |-> e, ideal_chain_maxlen |-> 0, nonideal_items |-> 0,
     ineff_expands |-> 0, noexpand |-> FALSE]

\* Leaves tail where it is.
AppendAtOldTail(m, e) ==
    [m EXCEPT !.hh[e].next = NULL, !.hh[e].prev = m.tbl.tail, !.hh[m.tbl.tail].next = e]

HASH_APPEND_LIST(m, e) ==
    [m EXCEPT !.hh[e].next = NULL, !.hh[e].prev = m.tbl.tail,
              !.hh[m.tbl.tail].next = e, !.tbl.tail = e]

\* e becomes the first of a chain that began with old.
LinkFirst(h, e, old) ==
    [x \in Elements |->
        IF x = e THEN [h[e] EXCEPT !.hh_next = old, !.hh_prev = NULL]
        ELSE IF x = old THEN [h[x] EXCEPT !.hh_prev = e] ELSE h[x]]

\* ceil(num_items / number of buckets after doubling), by shift and mask.
IdealChainMaxlen(t) ==
    t.num_items \div Pow2(t.log2_num_buckets + 1)
        + (IF t.num_items % (2 * t.num_buckets) # 0 THEN 1 ELSE 0)

\* Takes the bucket for the old number of buckets.
MoveToOldBucket(t, acc, e) ==
    LET b == HASH_TO_BKT(acc.hh[e].key, t.num_buckets)
    IN  [acc EXCEPT !.buckets[b].hh_head = e, !.buckets[b].count = @ + 1,
                    !.hh = LinkFirst(acc.hh, e, acc.buckets[b].hh_head)]

\* The body of HASH_EXPAND_BUCKETS's inner loop: e goes to its new bucket.
Move(t, acc, e) ==
    LET b     == HASH_TO_BKT(acc.hh[e].key, 2 * t.num_buckets)
        old   == acc.buckets[b]
        count == old.count + 1
        over  == count > IdealChainMaxlen(t)
        more  == over /\ count > old.expand_mult * IdealChainMaxlen(t)
    IN  [buckets  |-> [acc.buckets EXCEPT ![b] =
                         [hh_head |-> e, count |-> count,
                          expand_mult |-> old.expand_mult + (IF more THEN 1 ELSE 0)]],
         hh       |-> LinkFirst(acc.hh, e, old.hh_head),
         nonideal |-> acc.nonideal + (IF over THEN 1 ELSE 0)]

\* Forgets the logarithm.
ExpandedKeepingLog(t, acc) ==
    [t EXCEPT !.buckets = acc.buckets, !.num_buckets = 2 * @,
              !.ideal_chain_maxlen = IdealChainMaxlen(t), !.nonideal_items = acc.nonideal]

\* The table after the loops.
Expanded(t, acc) ==
    LET ineff == IF acc.nonideal > t.num_items \div 2 THEN t.ineff_expands + 1 ELSE 0
    IN  [t EXCEPT !.buckets = acc.buckets,
                  !.num_buckets = 2 * @, !.log2_num_buckets = @ + 1,
                  !.ideal_chain_maxlen = IdealChainMaxlen(t), !.nonideal_items = acc.nonideal,
                  !.ineff_expands = ineff, !.noexpand = @ \/ ineff > 1]

\* The inner loop: the elements of one chain, in its order.
MoveChain(t, acc, chain) ==
    LET moved[i \in 0 .. Len(chain)] == IF i = 0 THEN acc ELSE Move(t, moved[i - 1], chain[i])
    IN  moved[Len(chain)]

\* Every element goes to an array of twice as many buckets, bucket by bucket.
HASH_EXPAND_BUCKETS(m) ==
    LET t     == m.tbl
        start == [buckets |-> [b \in 0 .. 2 * t.num_buckets - 1 |-> EmptyBucket],
                  hh |-> m.hh, nonideal |-> 0]
        done[n \in 0 .. t.num_buckets] ==
            IF n = 0 THEN start ELSE MoveChain(t, done[n - 1], Chain(m, n - 1))
    IN  [tbl |-> Expanded(t, done[t.num_buckets]), hh |-> done[t.num_buckets].hh]

\* Looks at the load of the whole table.
MustExpandByLoad(t, b) == t.num_items >= t.num_buckets * Threshold /\ ~t.noexpand

MustExpand(t, b) ==
    t.buckets[b].count >= (t.buckets[b].expand_mult + 1) * Threshold /\ ~t.noexpand

\* e joins its bucket, without the expansion.
InBucket(m, b, e) ==
    [tbl |-> [m.tbl EXCEPT !.buckets[b].count = @ + 1, !.buckets[b].hh_head = e],
     hh  |-> LinkFirst(m.hh, e, m.tbl.buckets[b].hh_head)]

HASH_ADD_TO_BKT(m, b, e) ==
    LET added == InBucket(m, b, e)
    IN  IF MustExpand(added.tbl, b) THEN HASH_EXPAND_BUCKETS(added) ELSE added

HASH_ADD_TO_TABLE(m, e) ==
    HASH_ADD_TO_BKT([m EXCEPT !.tbl.num_items = @ + 1],
                    HASH_TO_BKT(m.hh[e].key, m.tbl.num_buckets), e)

\* The memory after HASH_ADD of element e with key k.
HASH_ADD(k, e) ==
    LET keyed == [hh EXCEPT ![e] = [Blank EXCEPT !.key = k]]
    IN  HASH_ADD_TO_TABLE(IF head = NULL THEN [tbl |-> HASH_MAKE_TABLE(e), hh |-> keyed]
                          ELSE HASH_APPEND_LIST([tbl |-> tbl, hh |-> keyed], e), e)

\* Does not tell the element behind e.
DelInBktKeepingPrev(m, b, e) ==
    LET h == m.hh[e]
    IN  [tbl |-> [m.tbl EXCEPT !.buckets[b].count = @ - 1,
                              !.buckets[b].hh_head = IF @ = e THEN h.hh_next ELSE @],
         hh  |-> [x \in Elements |->
                    IF x = h.hh_prev THEN [m.hh[x] EXCEPT !.hh_next = h.hh_next] ELSE m.hh[x]]]

HASH_DEL_IN_BKT(m, b, e) ==
    LET h == m.hh[e]
    IN  [tbl |-> [m.tbl EXCEPT !.buckets[b].count = @ - 1,
                              !.buckets[b].hh_head = IF @ = e THEN h.hh_next ELSE @],
         hh  |-> [x \in Elements |->
                    IF x = h.hh_prev THEN [m.hh[x] EXCEPT !.hh_next = h.hh_next]
                    ELSE IF x = h.hh_next THEN [m.hh[x] EXCEPT !.hh_prev = h.hh_prev]
                    ELSE m.hh[x]]]

\* Leaves the back pointer of the next element.
UnlinkForward(m, e) ==
    LET h == m.hh[e]
    IN  [m EXCEPT !.tbl.tail = IF @ = e THEN h.prev ELSE @,
                  !.hh = [x \in Elements |->
                            IF x = h.prev THEN [m.hh[x] EXCEPT !.next = h.next] ELSE m.hh[x]]]

\* HASH_DELETE_HH's patch of the list in the order of insertion.
Unlink(m, e) ==
    LET h == m.hh[e]
    IN  [m EXCEPT !.tbl.tail = IF @ = e THEN h.prev ELSE @,
                  !.hh = [x \in Elements |->
                            IF x = h.prev THEN [m.hh[x] EXCEPT !.next = h.next]
                            ELSE IF x = h.next THEN [m.hh[x] EXCEPT !.prev = h.prev]
                            ELSE m.hh[x]]]

\* HASH_DEL and free() of element e: the last one takes the table with it.
HASH_DELETE_HH(e) ==
    LET alone == hh[e].prev = NULL /\ hh[e].next = NULL
        b     == HASH_TO_BKT(hh[e].key, tbl.num_buckets)
        after == HASH_DEL_IN_BKT(Unlink(Memory, e), b, e)
    IN  /\ head' = IF alone THEN NULL ELSE IF hh[e].prev # NULL THEN head ELSE hh[e].next
        /\ tbl' = IF alone THEN NoTable ELSE [after.tbl EXCEPT !.num_items = @ - 1]
        /\ hh' = [IF alone THEN hh ELSE after.hh EXCEPT ![e] = Blank]
        /\ allocated' = allocated \ {e}

-----------------------------------------------------------------------------

Init ==
    /\ hashv \in HashFunctions
    /\ head = NULL /\ tbl = NoTable
    /\ hh = [e \in Elements |-> Blank] /\ allocated = {}
    /\ pc = "idle" /\ el = NULL /\ tmp = NULL

\* flow_process_packet() finds the flow.
Hit(k) ==
    /\ pc = "idle" /\ HASH_FIND(k) # NULL
    /\ UNCHANGED vars

\* flow_process_packet() creates the flow and adds it.  Addresses are only
\* compared, so that any free one stands for what calloc() returns.
Miss(k) ==
    /\ pc = "idle" /\ HASH_FIND(k) = NULL
    /\ allocated # Elements
    /\ LET e == CHOOSE x \in Elements \ allocated : TRUE
           m == HASH_ADD(k, e)
       IN  /\ allocated' = allocated \cup {e}
           /\ head' = IF head = NULL THEN e ELSE head
           /\ tbl' = m.tbl /\ hh' = m.hh
    /\ UNCHANGED <<hashv, pc, el, tmp>>

\* No memory for the element, the table or its buckets: exit().
OutOfMemory(k) ==
    /\ pc = "idle" /\ HASH_FIND(k) = NULL
    /\ pc' = "exited"
    /\ UNCHANGED <<hashv, head, tbl, hh, allocated, el, tmp>>

\* kafka_client_send_flows() enters HASH_ITER with a table that is not NULL.
IterBegin ==
    /\ pc = "idle" /\ head # NULL
    /\ pc' = "iter"
    /\ el' = head /\ tmp' = hh[head].next
    /\ UNCHANGED <<hashv, head, tbl, hh, allocated>>

\* The body deletes and frees the current element, then HASH_ITER moves on.
IterDelete ==
    /\ pc = "iter" /\ el # NULL
    /\ HASH_DELETE_HH(el)
    /\ el' = tmp
    /\ tmp' = IF tmp = NULL THEN NULL ELSE hh'[tmp].next
    /\ UNCHANGED <<hashv, pc>>

IterEnd ==
    /\ pc = "iter" /\ el = NULL
    /\ pc' = "idle"
    /\ UNCHANGED <<hashv, head, tbl, hh, allocated, el, tmp>>

Exited ==
    /\ pc = "exited"
    /\ UNCHANGED vars

Next ==
    \/ \E k \in Keys : Hit(k) \/ Miss(k) \/ OutOfMemory(k)
    \/ IterBegin \/ IterDelete \/ IterEnd
    \/ Exited

Spec == Init /\ [][Next]_vars

-----------------------------------------------------------------------------

TypeOK ==
    /\ head \in Pointer /\ el \in Pointer /\ tmp \in Pointer
    /\ allocated \subseteq Elements
    /\ hh \in [Elements -> [key : Keys \cup {NULL}, prev : Pointer, next : Pointer,
                            hh_prev : Pointer, hh_next : Pointer]]
    /\ head # NULL =>
         /\ tbl.num_buckets = Pow2(tbl.log2_num_buckets)
         /\ tbl.buckets \in [0 .. tbl.num_buckets - 1 ->
                               [hh_head : Pointer, count : Nat, expand_mult : Nat]]

AppOrder == Nodes(head, NextOf(hh))

\* Every element's back pointer is the one before it, along a list.
BackPointers(nodes, pred) ==
    \A i \in DOMAIN nodes : pred[nodes[i]] = IF i = 1 THEN NULL ELSE nodes[i - 1]

\* What HASH_FSCK verifies when it is compiled in: back pointers and counts of
\* every bucket and of the list in the order of insertion.
HASH_FSCK ==
    LET chains == [b \in 0 .. tbl.num_buckets - 1 |-> Chain(Memory, b)]
        total[n \in 0 .. tbl.num_buckets] ==
            IF n = 0 THEN 0 ELSE total[n - 1] + Len(chains[n - 1])
    IN  /\ \A b \in DOMAIN chains :
             /\ BackPointers(chains[b], [e \in Elements |-> hh[e].hh_prev])
             /\ tbl.buckets[b].count = Len(chains[b])
        /\ tbl.num_items = total[tbl.num_buckets]
        /\ BackPointers(AppOrder, [e \in Elements |-> hh[e].prev])
        /\ tbl.num_items = Len(AppOrder)

\* The integrity check that uthash.h leaves out of this build would never have
\* failed: through additions, expansions and an export that is half done.
Integrity == head # NULL => HASH_FSCK

\* A lookup finds the element of a key exactly if it is in the table, whatever
\* the hash function and however often the buckets have been redistributed:
\* otherwise a flow would be added twice and its packets split.
FindExact ==
    \A k \in Keys :
        LET holders == {e \in ToSet(AppOrder) : hh[e].key = k}
        IN  holders = IF HASH_FIND(k) = NULL THEN {} ELSE {HASH_FIND(k)}

\* The pointers the code may still follow.
LivePointers ==
    {head, el, tmp}
        \cup (UNION {{hh[e].prev, hh[e].next, hh[e].hh_prev, hh[e].hh_next} : e \in allocated})
        \cup (IF head = NULL THEN {}
              ELSE {tbl.tail} \cup {tbl.buckets[b].hh_head : b \in DOMAIN tbl.buckets})

\* Neither the table nor HASH_ITER's pointers ever name an element that has been
\* freed, and nothing allocated is out of the table's reach (kafka_client.c
\* 135-141 and 188-189: elements are freed inside the loop that walks them).
NoDangling ==
    /\ LivePointers \subseteq allocated \cup {NULL}
    /\ ToSet(AppOrder) = allocated

\* The list that HASH_ITER walks, seen as the keys of an ordered map.
KeyOrder == LET nodes == AppOrder IN [i \in DOMAIN nodes |-> hh[nodes[i]].key]

Map == INSTANCE OrderedMap WITH order <- KeyOrder, draining <- (pc = "iter")

\* The table is an ordered map: an export takes out every flow once, in the
\* order in which the flows began, and leaves the table empty.
ImplementsOrderedMap == Map!Spec

\* Unless it has been inhibited, expansion keeps a bound on the chains: a multiple
\* of the threshold or, when an expansion found the table so full that its
\* ideal length was above the threshold, of that length (uthash.h 804-863;
\* 1073-1083 speak of the threshold alone).
ChainsBounded ==
    head # NULL /\ ~tbl.noexpand =>
        \A b \in DOMAIN tbl.buckets :
            LET m == tbl.buckets[b].expand_mult + 1
            IN  \/ tbl.buckets[b].count <= m * Threshold
                \/ tbl.buckets[b].count <= m * tbl.ideal_chain_maxlen
=============================================================================
