---------------------------- MODULE UtHashProofs ----------------------------
(***************************************************************************)
(* Proofs about the hash table, for every hash function, any number of     *)
(* keys and elements, any initial size and any threshold: HashInv is       *)
(* inductive, and the properties of UtHash and the refinement of           *)
(* OrderedMap follow from it.                                              *)
(***************************************************************************)
EXTENDS UtHash, DataLemmas

-----------------------------------------------------------------------------
(* Linked lists.                                                           *)

\* s lists the n elements of a doubly linked list that begins with first.
IsList(s, n, first, succ, pred) ==
    /\ n \in Nat /\ s \in [1 .. n -> Elements]
    /\ \A i, j \in 1 .. n : s[i] = s[j] => i = j
    /\ first = IF n = 0 THEN NULL ELSE s[1]
    /\ \A i \in 1 .. n : /\ succ[s[i]] = IF i = n THEN NULL ELSE s[i + 1]
                         /\ pred[s[i]] = IF i = 1 THEN NULL ELSE s[i - 1]

On(s, n, e) == \E i \in 1 .. n : s[i] = e

(* A list is no longer than there are elements. *)
LEMMA ListFits ==
    ASSUME NEW s, NEW n, NEW first, NEW succ, NEW pred, IsList(s, n, first, succ, pred)
    PROVE  n \in Nat /\ n < Cardinality(Pointer) /\ Cardinality(Pointer) \in Nat
<1>1. IsFiniteSet(Elements) /\ NULL \notin Elements
  BY UtHashAssumptions
<1>2. /\ Cardinality(Pointer) = Cardinality(Elements) + 1
      /\ Cardinality(Elements) \in Nat
  BY <1>1, FS_AddElement, FS_CardinalityType DEF Pointer
<1>3. n \in Nat /\ s \in Injection(1 .. n, Elements)
  BY DEF IsList, Injection, IsInjective
<1>4. Cardinality(1 .. n) = n
  <2>1. 1 \in Int /\ n \in Int
    BY <1>3
  <2>2. Cardinality(1 .. n) = IF 1 > n THEN 0 ELSE n - 1 + 1
    BY <2>1, FS_Interval
  <2> QED
    BY <1>3, <2>2
<1>5. Cardinality(1 .. n) <= Cardinality(Elements)
  BY <1>1, <1>3, FS_Injection
<1> QED
  BY <1>2, <1>3, <1>4, <1>5

(* Following the links from the first element gives the list. *)
LEMMA NodesOfList ==
    ASSUME NEW s, NEW n, NEW first, NEW succ, NEW pred,
           IsList(s, n, first, succ, pred), succ[NULL] = NULL
    PROVE  Nodes(first, succ) = s
<1> DEFINE K == Cardinality(Pointer)
           B(g) == [i \in 1 .. K |-> IF i = 1 THEN first ELSE succ[g[i - 1]]]
           c == CHOOSE g : g = B(g)
           w == [i \in 1 .. K |-> IF i <= n THEN s[i] ELSE NULL]
<1>1. n \in Nat /\ n < K /\ K \in Nat
  BY ListFits
<1>2. /\ s \in [1 .. n -> Elements] /\ NULL \notin Elements
      /\ first = IF n = 0 THEN NULL ELSE s[1]
      /\ \A i \in 1 .. n : succ[s[i]] = IF i = n THEN NULL ELSE s[i + 1]
  BY UtHashAssumptions DEF IsList
<1> HIDE DEF K
<1>3. w = B(w)
  <2> SUFFICES ASSUME NEW i \in 1 .. K PROVE w[i] = B(w)[i]
    OBVIOUS
  <2>1. CASE i = 1
    BY <1>1, <1>2, <2>1
  <2>2. CASE i # 1 /\ i - 1 <= n
    BY <1>1, <1>2, <2>2
  <2>3. CASE i # 1 /\ i - 1 > n
    BY <1>1, <1>2, <2>3
  <2> QED
    BY <1>1, <2>1, <2>2, <2>3
<1> HIDE DEF B
<1>4. c = B(c)
  BY <1>3
<1> HIDE DEF c
<1>5. DOMAIN c = 1 .. K
  BY <1>4 DEF B
<1>6. \A i \in 1 .. K : c[i] = w[i]
  <2> DEFINE T == {i \in Nat : i + 1 <= K => c[i + 1] = w[i + 1]}
  <2>1. 0 \in T
    BY <1>3, <1>4 DEF B
  <2>2. ASSUME NEW i \in Nat, i \in T PROVE i + 1 \in T
    <3> SUFFICES ASSUME i + 2 <= K PROVE c[i + 2] = w[i + 2]
      OBVIOUS
    <3>1. c[i + 1] = w[i + 1]
      BY <1>1, <2>2
    <3>2. i + 2 \in 1 .. K /\ i + 2 # 1 /\ (i + 2) - 1 = i + 1
      BY <1>1
    <3>3. c[i + 2] = succ[c[i + 1]] /\ B(w)[i + 2] = succ[w[i + 1]]
      BY <1>4, <3>2 DEF B
    <3> QED
      BY <1>3, <3>1, <3>3
  <2> HIDE DEF T
  <2>3. Nat \subseteq T
    BY <2>1, <2>2, NatSetInduction
  <2> TAKE i \in 1 .. K
  <2>4. i - 1 \in T
    BY <1>1, <2>3
  <2> QED
    BY <1>1, <2>4 DEF T
<1>7. {i \in DOMAIN c : c[i] # NULL} = 1 .. n
  BY <1>1, <1>2, <1>5, <1>6
<1>8. Cardinality(1 .. n) = n
  <2>1. 1 \in Int /\ n \in Int
    BY <1>1
  <2>2. Cardinality(1 .. n) = IF 1 > n THEN 0 ELSE n - 1 + 1
    BY <2>1, FS_Interval
  <2> QED
    BY <1>1, <2>2
<1>9. Nodes(first, succ) = [i \in 1 .. n |-> c[i]]
  BY <1>7, <1>8 DEF Nodes, c, B, K
<1> QED
  BY <1>1, <1>2, <1>6, <1>9

(* A list does not depend on the links of other elements. *)
LEMMA ListSame ==
    ASSUME NEW s, NEW n, NEW first, NEW succ, NEW pred, IsList(s, n, first, succ, pred),
           NEW succ2, NEW pred2,
           \A i \in 1 .. n : succ2[s[i]] = succ[s[i]] /\ pred2[s[i]] = pred[s[i]]
    PROVE  IsList(s, n, first, succ2, pred2)
BY DEF IsList

Appended(s, n, e) == [i \in 1 .. n + 1 |-> IF i = n + 1 THEN e ELSE s[i]]

\* The links that change when e is put behind the list s.
AppendLinks(s, n, e, succ, pred, succ2, pred2) ==
    /\ succ2[e] = NULL /\ pred2[e] = (IF n = 0 THEN NULL ELSE s[n])
    /\ n > 0 => succ2[s[n]] = e
    /\ \A i \in 1 .. n : /\ i < n => succ2[s[i]] = succ[s[i]]
                         /\ pred2[s[i]] = pred[s[i]]

(* An element is linked behind the last one. *)
LEMMA ListAppend ==
    ASSUME NEW s, NEW n, NEW first, NEW succ, NEW pred, IsList(s, n, first, succ, pred),
           NEW e \in Elements, ~On(s, n, e), NEW succ2, NEW pred2,
           AppendLinks(s, n, e, succ, pred, succ2, pred2)
    PROVE  /\ IsList(Appended(s, n, e), n + 1, IF n = 0 THEN e ELSE first, succ2, pred2)
           /\ \A x : On(Appended(s, n, e), n + 1, x) <=> On(s, n, x) \/ x = e
<1>t. PICK t : t = Appended(s, n, e)
  OBVIOUS
<1>l. /\ succ2[e] = NULL /\ pred2[e] = IF n = 0 THEN NULL ELSE s[n]
  BY DEF AppendLinks
<1>m. /\ n > 0 => succ2[s[n]] = e
      /\ \A i \in 1 .. n : /\ i < n => succ2[s[i]] = succ[s[i]]
                           /\ pred2[s[i]] = pred[s[i]]
  BY DEF AppendLinks
<1>1. n \in Nat /\ n + 1 \in Nat /\ s \in [1 .. n -> Elements]
  BY DEF IsList
<1>2. /\ \A i \in 1 .. n : i \in 1 .. n + 1 /\ i # n + 1 /\ t[i] = s[i] /\ s[i] # e
      /\ n + 1 \in 1 .. n + 1 /\ t[n + 1] = e
      /\ \A i \in 1 .. n + 1 : i \in 1 .. n \/ i = n + 1
  BY <1>1, <1>t DEF On, Appended
<1>3. t \in [1 .. n + 1 -> Elements]
  BY <1>1, <1>t DEF Appended
<1>i. \A i, j \in 1 .. n : s[i] = s[j] => i = j
  BY DEF IsList
<1>4. \A i, j \in 1 .. n + 1 : t[i] = t[j] => i = j
  <2> SUFFICES ASSUME NEW i \in 1 .. n + 1, NEW j \in 1 .. n + 1, t[i] = t[j] PROVE i = j
    OBVIOUS
  <2>1. CASE i \in 1 .. n /\ j \in 1 .. n
    <3>1. t[i] = s[i] /\ t[j] = s[j]
      BY <1>2, <2>1
    <3> QED
      BY <1>i, <2>1, <3>1
  <2>2. CASE i \in 1 .. n /\ j = n + 1
    BY <1>2, <2>2
  <2>3. CASE i = n + 1 /\ j \in 1 .. n
    BY <1>2, <2>3
  <2> QED
    BY <1>2, <2>1, <2>2, <2>3
<1>5. (IF n = 0 THEN e ELSE first) = IF n + 1 = 0 THEN NULL ELSE t[1]
  BY <1>1, <1>2 DEF IsList
<1>6. \A i \in 1 .. n + 1 : /\ succ2[t[i]] = IF i = n + 1 THEN NULL ELSE t[i + 1]
                            /\ pred2[t[i]] = IF i = 1 THEN NULL ELSE t[i - 1]
  <2> TAKE i \in 1 .. n + 1
  <2>1. CASE i = n + 1
    BY <1>1, <1>2, <1>l, <2>1
  <2>2. CASE i \in 1 .. n /\ i = n
    BY <1>1, <1>2, <1>m, <2>2 DEF IsList
  <2>3. CASE i \in 1 .. n /\ i < n
    <3>1. i + 1 \in 1 .. n /\ i + 1 \in 1 .. n + 1
      BY <1>1, <2>3
    <3> QED
      BY <1>1, <1>2, <1>m, <2>3, <3>1 DEF IsList
  <2> QED
    BY <1>1, <1>2, <2>1, <2>2, <2>3
<1>7. IsList(t, n + 1, IF n = 0 THEN e ELSE first, succ2, pred2)
  BY <1>1, <1>3, <1>4, <1>5, <1>6 DEF IsList
<1>8. \A x : On(t, n + 1, x) <=> On(s, n, x) \/ x = e
  BY <1>2 DEF On
<1> QED
  BY <1>t, <1>7, <1>8

Prepended(s, n, e) == [i \in 1 .. n + 1 |-> IF i = 1 THEN e ELSE s[i - 1]]

\* The links that change when e is put in front of the list s.
PrependLinks(s, n, first, e, succ, pred, succ2, pred2) ==
    /\ succ2[e] = first /\ pred2[e] = NULL
    /\ n > 0 => pred2[s[1]] = e
    /\ \A i \in 1 .. n : /\ succ2[s[i]] = succ[s[i]]
                         /\ i > 1 => pred2[s[i]] = pred[s[i]]

(* An element is linked in front of the first one. *)
LEMMA ListPrepend ==
    ASSUME NEW s, NEW n, NEW first, NEW succ, NEW pred, IsList(s, n, first, succ, pred),
           NEW e \in Elements, ~On(s, n, e), NEW succ2, NEW pred2,
           PrependLinks(s, n, first, e, succ, pred, succ2, pred2)
    PROVE  /\ IsList(Prepended(s, n, e), n + 1, e, succ2, pred2)
           /\ \A x : On(Prepended(s, n, e), n + 1, x) <=> On(s, n, x) \/ x = e
<1>t. PICK t : t = Prepended(s, n, e)
  OBVIOUS
<1>l. succ2[e] = first /\ pred2[e] = NULL
  BY DEF PrependLinks
<1>m. /\ n > 0 => pred2[s[1]] = e
      /\ \A i \in 1 .. n : /\ succ2[s[i]] = succ[s[i]]
                           /\ i > 1 => pred2[s[i]] = pred[s[i]]
  BY DEF PrependLinks
<1>1. n \in Nat /\ n + 1 \in Nat /\ s \in [1 .. n -> Elements]
  BY DEF IsList
<1>2. /\ \A i \in 1 .. n : i + 1 \in 1 .. n + 1 /\ t[i + 1] = s[i] /\ s[i] # e
      /\ 1 \in 1 .. n + 1 /\ t[1] = e
      /\ \A i \in 1 .. n + 1 : i = 1 \/ (i - 1 \in 1 .. n /\ t[i] = s[i - 1])
  BY <1>1, <1>t DEF On, Prepended
<1>3. t \in [1 .. n + 1 -> Elements]
  BY <1>1, <1>2, <1>t DEF Prepended
<1>4. \A i, j \in 1 .. n + 1 : t[i] = t[j] => i = j
  <2> TAKE i \in 1 .. n + 1, j \in 1 .. n + 1
  <2>1. CASE i = 1 \/ j = 1
    BY <1>1, <1>2, <2>1
  <2>2. CASE i # 1 /\ j # 1
    <3>1. i - 1 \in 1 .. n /\ j - 1 \in 1 .. n /\ t[i] = s[i - 1] /\ t[j] = s[j - 1]
      BY <1>2, <2>2
    <3>2. s[i - 1] = s[j - 1] => i - 1 = j - 1
      BY <3>1 DEF IsList
    <3> QED
      BY <1>1, <3>1, <3>2
  <2> QED
    BY <2>1, <2>2
<1>5. e = IF n + 1 = 0 THEN NULL ELSE t[1]
  BY <1>1, <1>2
<1>6. \A i \in 1 .. n + 1 : /\ succ2[t[i]] = IF i = n + 1 THEN NULL ELSE t[i + 1]
                            /\ pred2[t[i]] = IF i = 1 THEN NULL ELSE t[i - 1]
  <2> TAKE i \in 1 .. n + 1
  <2>1. CASE i = 1
    <3>1. n > 0 => t[2] = s[1]
      BY <1>1, <1>2
    <3> QED
      BY <1>1, <1>2, <1>l, <2>1, <3>1 DEF IsList
  <2>2. CASE i # 1
    <3>1. PICK k \in 1 .. n : i = k + 1 /\ t[i] = s[k]
      <4>1. i - 1 \in 1 .. n /\ i = (i - 1) + 1
        BY <1>1, <1>2, <2>2
      <4> QED
        BY <1>2, <2>2, <4>1
    <3>2. succ2[s[k]] = IF k = n THEN NULL ELSE s[k + 1]
      BY <1>m DEF IsList
    <3>3. k < n => t[i + 1] = s[k + 1]
      BY <1>1, <1>2, <3>1
    <3>4. pred2[s[k]] = IF k = 1 THEN e ELSE s[k - 1]
      BY <1>1, <1>m DEF IsList
    <3>5. t[i - 1] = IF k = 1 THEN e ELSE s[k - 1]
      <4>1. i - 1 = k /\ k \in 1 .. n + 1
        BY <1>1, <3>1
      <4> QED
        BY <1>2, <4>1
    <3> QED
      BY <1>1, <2>2, <3>1, <3>2, <3>3, <3>4, <3>5
  <2> QED
    BY <2>1, <2>2
<1>7. IsList(t, n + 1, e, succ2, pred2)
  BY <1>1, <1>3, <1>4, <1>5, <1>6 DEF IsList
<1>8. \A x : On(t, n + 1, x) <=> On(s, n, x) \/ x = e
  <2> TAKE x
  <2>1. On(t, n + 1, x) => On(s, n, x) \/ x = e
    BY <1>2 DEF On
  <2>2. ASSUME On(s, n, x) PROVE On(t, n + 1, x)
    <3>1. PICK i \in 1 .. n : s[i] = x
      BY <2>2 DEF On
    <3>2. i + 1 \in 1 .. n + 1 /\ t[i + 1] = x
      BY <1>2, <3>1
    <3> QED
      BY <3>2 DEF On
  <2>3. On(t, n + 1, e)
    BY <1>2 DEF On
  <2> QED
    BY <2>1, <2>2, <2>3
<1> QED
  BY <1>t, <1>7, <1>8

Without(s, n, j) == [i \in 1 .. n - 1 |-> IF i < j THEN s[i] ELSE s[i + 1]]

\* The links that change when the j-th element of s is taken out.
RemoveLinks(s, n, j, succ, pred, succ2, pred2) ==
    \A i \in 1 .. n : i # j =>
        /\ succ2[s[i]] = IF i = j - 1 THEN succ[s[j]] ELSE succ[s[i]]
        /\ pred2[s[i]] = IF i = j + 1 THEN pred[s[j]] ELSE pred[s[i]]

(* The j-th element is taken out and its neighbours are linked. *)
LEMMA ListRemove ==
    ASSUME NEW s, NEW n, NEW first, NEW succ, NEW pred, IsList(s, n, first, succ, pred),
           NEW j \in 1 .. n, NEW succ2, NEW pred2,
           RemoveLinks(s, n, j, succ, pred, succ2, pred2)
    PROVE  /\ IsList(Without(s, n, j), n - 1, IF j = 1 THEN succ[s[1]] ELSE first, succ2, pred2)
           /\ \A x : On(Without(s, n, j), n - 1, x) <=> On(s, n, x) /\ x # s[j]
<1>t. PICK t : t = [i \in 1 .. n - 1 |-> IF i < j THEN s[i] ELSE s[i + 1]]
  OBVIOUS
<1>l. \A i \in 1 .. n : i # j =>
        /\ succ2[s[i]] = IF i = j - 1 THEN succ[s[j]] ELSE succ[s[i]]
        /\ pred2[s[i]] = IF i = j + 1 THEN pred[s[j]] ELSE pred[s[i]]
  BY DEF RemoveLinks
<1>1. n \in Nat /\ n - 1 \in Nat /\ s \in [1 .. n -> Elements]
  BY DEF IsList
<1>2. /\ \A i \in 1 .. n : i < j => i \in 1 .. n - 1 /\ t[i] = s[i]
      /\ \A i \in 1 .. n : i > j => i - 1 \in 1 .. n - 1 /\ t[i - 1] = s[i]
  BY <1>1, <1>t
<1>3. \A i \in 1 .. n - 1 : \/ i \in 1 .. n /\ i < j /\ t[i] = s[i]
                            \/ i + 1 \in 1 .. n /\ i + 1 > j /\ t[i] = s[i + 1]
  BY <1>1, <1>t
<1>4. t \in [1 .. n - 1 -> Elements]
  BY <1>1, <1>3, <1>t
<1>i. \A i, k \in 1 .. n : s[i] = s[k] => i = k
  BY DEF IsList
<1>5. \A i, k \in 1 .. n - 1 : t[i] = t[k] => i = k
  <2> SUFFICES ASSUME NEW i \in 1 .. n - 1, NEW k \in 1 .. n - 1, t[i] = t[k] PROVE i = k
    OBVIOUS
  <2>1. PICK a : a = IF i < j THEN i ELSE i + 1
    OBVIOUS
  <2>2. PICK c : c = IF k < j THEN k ELSE k + 1
    OBVIOUS
  <2>3. a \in 1 .. n /\ t[i] = s[a]
    BY <1>1, <1>t, <2>1
  <2>4. c \in 1 .. n /\ t[k] = s[c]
    BY <1>1, <1>t, <2>2
  <2>5. a = c
    BY <1>i, <2>3, <2>4
  <2> QED
    BY <1>1, <2>1, <2>2, <2>5
<1>6. \A i \in 1 .. n : /\ succ[s[i]] = IF i = n THEN NULL ELSE s[i + 1]
                        /\ pred[s[i]] = IF i = 1 THEN NULL ELSE s[i - 1]
  BY DEF IsList
<1>7. (IF j = 1 THEN succ[s[1]] ELSE first) = IF n - 1 = 0 THEN NULL ELSE t[1]
  <2>1. CASE j = 1
    BY <1>1, <1>2, <1>6, <2>1
  <2>2. CASE j # 1
    <3>1. 1 \in 1 .. n /\ 1 < j
      BY <1>1, <2>2
    <3> QED
      BY <1>1, <1>2, <2>2, <3>1 DEF IsList
  <2> QED
    BY <2>1, <2>2
<1>8. \A i \in 1 .. n - 1 : /\ succ2[t[i]] = IF i = n - 1 THEN NULL ELSE t[i + 1]
                            /\ pred2[t[i]] = IF i = 1 THEN NULL ELSE t[i - 1]
  <2> TAKE i \in 1 .. n - 1
  <2>1. CASE i < j
    <3>1. i \in 1 .. n /\ i # j /\ t[i] = s[i]
      BY <1>1, <1>t, <2>1
    <3>2. succ2[s[i]] = IF i = n - 1 THEN NULL ELSE t[i + 1]
      <4>1. CASE i = j - 1
        <5>1. succ2[s[i]] = IF j = n THEN NULL ELSE s[j + 1]
          BY <1>6, <1>l, <3>1, <4>1
        <5>2. j < n => t[j] = s[j + 1]
          BY <1>1, <1>t
        <5> QED
          BY <1>1, <4>1, <5>1, <5>2
      <4>2. CASE i # j - 1
        <5>1. i + 1 \in 1 .. n /\ i + 1 < j /\ i # n /\ i # n - 1
          BY <1>1, <2>1, <4>2
        <5>2. succ2[s[i]] = s[i + 1] /\ t[i + 1] = s[i + 1]
          BY <1>2, <1>6, <1>l, <3>1, <4>2, <5>1
        <5> QED
          BY <5>1, <5>2
      <4> QED
        BY <4>1, <4>2
    <3>3. pred2[s[i]] = IF i = 1 THEN NULL ELSE t[i - 1]
      <4>1. i # 1 => t[i - 1] = s[i - 1]
        BY <1>1, <1>t, <2>1
      <4> QED
        BY <1>1, <1>6, <1>l, <2>1, <3>1, <4>1
    <3> QED
      BY <3>1, <3>2, <3>3
  <2>2. CASE ~(i < j)
    <3>1. PICK k \in 1 .. n : k = i + 1 /\ k > j /\ t[i] = s[k]
      BY <1>1, <1>t, <2>2
    <3>2. succ2[s[k]] = IF i = n - 1 THEN NULL ELSE t[i + 1]
      <4>1. k < n => t[i + 1] = s[k + 1]
        BY <1>1, <1>t, <3>1
      <4> QED
        BY <1>1, <1>6, <1>l, <3>1, <4>1
    <3>3. pred2[s[k]] = IF i = 1 THEN NULL ELSE t[i - 1]
      <4>1. CASE k = j + 1
        <5>1. pred2[s[k]] = IF j = 1 THEN NULL ELSE s[j - 1]
          BY <1>6, <1>l, <3>1, <4>1
        <5>2. j # 1 => t[j - 1] = s[j - 1]
          BY <1>1, <1>t
        <5> QED
          BY <1>1, <3>1, <4>1, <5>1, <5>2
      <4>2. CASE k # j + 1
        <5>1. t[i - 1] = s[k - 1] /\ i # 1
          BY <1>1, <1>t, <3>1, <4>2
        <5> QED
          BY <1>1, <1>6, <1>l, <3>1, <4>2, <5>1
      <4> QED
        BY <4>1, <4>2
    <3> QED
      BY <3>1, <3>2, <3>3
  <2> QED
    BY <2>1, <2>2
<1>9. IsList(t, n - 1, IF j = 1 THEN succ[s[1]] ELSE first, succ2, pred2)
  BY <1>1, <1>4, <1>5, <1>7, <1>8 DEF IsList
<1>10. \A x : On(t, n - 1, x) <=> On(s, n, x) /\ x # s[j]
  <2> TAKE x
  <2>1. ASSUME On(t, n - 1, x) PROVE On(s, n, x) /\ x # s[j]
    BY <1>1, <1>3, <2>1 DEF On, IsList
  <2>2. ASSUME On(s, n, x), x # s[j] PROVE On(t, n - 1, x)
    <3>1. PICK i \in 1 .. n : s[i] = x
      BY <2>2 DEF On
    <3>2. i < j \/ i > j
      BY <1>1, <2>2, <3>1
    <3> QED
      BY <1>2, <3>1, <3>2 DEF On
  <2> QED
    BY <2>1, <2>2
<1> QED
  BY <1>t, <1>9, <1>10 DEF Without

-----------------------------------------------------------------------------
(* The chains of the buckets.                                              *)

Handle == [key : Keys \cup {NULL}, prev : Pointer, next : Pointer,
           hh_prev : Pointer, hh_next : Pointer]

Bucket == [hh_head : Pointer, count : Nat, expand_mult : Nat]

PrevOf(h) == [e \in Elements |-> h[e].prev]

HhPrevOf(h) == [e \in Elements |-> h[e].hh_prev]

\* The N buckets bk hold the elements of D, each in the bucket of its key's value under f.
Chained(f, bk, h, N, D) ==
    \E C : \A b \in 0 .. N - 1 :
        /\ IsList(C[b], bk[b].count, bk[b].hh_head, HhNextOf(h), HhPrevOf(h))
        /\ \A e \in Elements :
              On(C[b], bk[b].count, e) <=> e \in D /\ f[h[e].key] % N = b

\* The two heaps differ at most in the links of the chains.
SameButChains(h, h2) ==
    \A e \in Elements : h2[e].key = h[e].key /\ h2[e].prev = h[e].prev /\ h2[e].next = h[e].next

LEMMA PointerLinks ==
    ASSUME NEW h \in [Elements -> Handle]
    PROVE  /\ \A e \in Elements : /\ NextOf(h)[e] = h[e].next /\ PrevOf(h)[e] = h[e].prev
                                  /\ HhNextOf(h)[e] = h[e].hh_next /\ HhPrevOf(h)[e] = h[e].hh_prev
           /\ NextOf(h)[NULL] = NULL /\ HhNextOf(h)[NULL] = NULL
BY UtHashAssumptions DEF NextOf, PrevOf, HhNextOf, HhPrevOf, Pointer

LEMMA LinkFirstProperties ==
    ASSUME NEW h \in [Elements -> Handle], NEW e \in Elements, NEW old \in Pointer
    PROVE  /\ LinkFirst(h, e, old) \in [Elements -> Handle]
           /\ SameButChains(h, LinkFirst(h, e, old))
           /\ LinkFirst(h, e, old)[e].hh_next = old /\ LinkFirst(h, e, old)[e].hh_prev = NULL
           /\ old \notin {NULL, e} => /\ LinkFirst(h, e, old)[old].hh_prev = e
                                      /\ LinkFirst(h, e, old)[old].hh_next = h[old].hh_next
           /\ \A x \in Elements : x # e /\ x # old => LinkFirst(h, e, old)[x] = h[x]
<1> DEFINE l == LinkFirst(h, e, old)
<1>1. \A x \in Elements :
         l[x] = IF x = e THEN [h[e] EXCEPT !.hh_next = old, !.hh_prev = NULL]
                ELSE IF x = old THEN [h[x] EXCEPT !.hh_prev = e] ELSE h[x]
  BY DEF LinkFirst
<1>2. NULL \in Pointer /\ e \in Pointer /\ NULL \notin Elements
  BY UtHashAssumptions DEF Pointer
<1>3. /\ l[e] \in Handle /\ l[e].hh_next = old /\ l[e].hh_prev = NULL
      /\ l[e].key = h[e].key /\ l[e].prev = h[e].prev /\ l[e].next = h[e].next
  <2>1. h[e] \in Handle /\ l[e] = [h[e] EXCEPT !.hh_next = old, !.hh_prev = NULL]
    BY <1>1
  <2> QED
    BY <1>2, <2>1 DEF Handle
<1>4. old \notin {NULL, e} =>
                    /\ l[old] \in Handle /\ l[old].hh_prev = e
                    /\ l[old].hh_next = h[old].hh_next /\ l[old].key = h[old].key
                    /\ l[old].prev = h[old].prev /\ l[old].next = h[old].next
  <2> SUFFICES ASSUME old \notin {NULL, e}
               PROVE  /\ l[old] \in Handle /\ l[old].hh_prev = e
                      /\ l[old].hh_next = h[old].hh_next /\ l[old].key = h[old].key
                      /\ l[old].prev = h[old].prev /\ l[old].next = h[old].next
    OBVIOUS
  <2>1. old \in Elements
    BY DEF Pointer
  <2>2. h[old] \in Handle /\ l[old] = [h[old] EXCEPT !.hh_prev = e]
    BY <1>1, <2>1
  <2> QED
    BY <1>2, <2>2 DEF Handle
<1>5. \A x \in Elements : x # e /\ x # old => l[x] = h[x]
  BY <1>1
<1>6. \A x \in Elements : x = old => old # NULL
  BY <1>2
<1>7. DOMAIN l = Elements /\ l = [x \in Elements |-> l[x]]
  BY DEF LinkFirst
<1> HIDE DEF l
<1>8. l \in [Elements -> Handle]
  <2>1. \A x \in Elements : l[x] \in Handle
    BY <1>3, <1>4, <1>5, <1>6
  <2> QED
    BY <1>7, <2>1
<1>9. SameButChains(h, l)
  BY <1>3, <1>4, <1>5, <1>6 DEF SameButChains
<1> QED
  BY <1>3, <1>4, <1>5, <1>8, <1>9 DEF l

(* Empty buckets hold nothing. *)
LEMMA ChainedEmpty ==
    ASSUME NEW f, NEW bk, NEW h, NEW N \in Nat, \A b \in 0 .. N - 1 : bk[b] = EmptyBucket
    PROVE  Chained(f, bk, h, N, {})
<1>1. PICK C : C = [b \in 0 .. N - 1 |-> [i \in 1 .. 0 |-> NULL]]
  OBVIOUS
<1>2. \A b \in 0 .. N - 1 : bk[b].count = 0 /\ bk[b].hh_head = NULL
  BY DEF EmptyBucket
<1>3. ASSUME NEW b \in 0 .. N - 1
      PROVE  /\ IsList(C[b], 0, NULL, HhNextOf(h), HhPrevOf(h))
             /\ \A e \in Elements : ~On(C[b], 0, e)
  <2>1. C[b] \in [1 .. 0 -> Elements] /\ \A i \in 1 .. 0 : FALSE
    BY <1>1
  <2> QED
    BY <2>1 DEF IsList, On
<1> QED
  BY <1>2, <1>3 DEF Chained

(* Only the chain links and keys of the held elements matter. *)
LEMMA ChainedSame ==
    ASSUME NEW f, NEW bk, NEW N \in Nat, NEW D \in SUBSET Elements,
           NEW h \in [Elements -> Handle], Chained(f, bk, h, N, D),
           NEW h2 \in [Elements -> Handle],
           \A e \in D : h2[e].key = h[e].key /\ h2[e].hh_next = h[e].hh_next
                                             /\ h2[e].hh_prev = h[e].hh_prev
    PROVE  Chained(f, bk, h2, N, D)
<1>1. PICK C : \A b \in 0 .. N - 1 :
        /\ IsList(C[b], bk[b].count, bk[b].hh_head, HhNextOf(h), HhPrevOf(h))
        /\ \A e \in Elements :
              On(C[b], bk[b].count, e) <=> e \in D /\ f[h[e].key] % N = b
  BY DEF Chained
<1>2. ASSUME NEW b \in 0 .. N - 1
      PROVE  /\ IsList(C[b], bk[b].count, bk[b].hh_head, HhNextOf(h2), HhPrevOf(h2))
             /\ \A e \in Elements :
                   On(C[b], bk[b].count, e) <=> e \in D /\ f[h2[e].key] % N = b
  <2>1. PICK n, s : /\ n \in Nat /\ s \in [1 .. n -> Elements]
                    /\ n = bk[b].count /\ s = C[b]
    BY <1>1 DEF IsList
  <2>2. \A i \in 1 .. n : s[i] \in D
    BY <1>1, <2>1 DEF On
  <2>3. \A i \in 1 .. n : /\ HhNextOf(h2)[s[i]] = HhNextOf(h)[s[i]]
                          /\ HhPrevOf(h2)[s[i]] = HhPrevOf(h)[s[i]]
    BY <2>2, PointerLinks
  <2>4. IsList(s, n, bk[b].hh_head, HhNextOf(h2), HhPrevOf(h2))
    BY <1>1, <2>1, <2>3, ListSame
  <2>5. \A e \in Elements : e \in D => h2[e].key = h[e].key
    OBVIOUS
  <2> QED
    BY <1>1, <2>1, <2>4, <2>5
<1> QED
  BY <1>2 DEF Chained

\* e is put in front of the chain of its bucket b.
Pushed(f, N, bk, h, b, e, bk2, h2) ==
    /\ f[h[e].key] % N = b
    /\ h2 = LinkFirst(h, e, bk[b].hh_head)
    /\ bk2[b].hh_head = e /\ bk2[b].count = bk[b].count + 1
    /\ \A x \in 0 .. N - 1 : x # b => bk2[x] = bk[x]

(* An element joins the chain of its bucket. *)
LEMMA ChainedPush ==
    ASSUME NEW f, NEW N \in Nat, NEW D \in SUBSET Elements, NEW bk,
           NEW h \in [Elements -> Handle], Chained(f, bk, h, N, D),
           NEW b \in 0 .. N - 1, NEW e \in Elements \ D, NEW bk2, NEW h2,
           Pushed(f, N, bk, h, b, e, bk2, h2)
    PROVE  /\ Chained(f, bk2, h2, N, D \cup {e})
           /\ bk[b].hh_head \in Pointer /\ bk[b].hh_head # e
<1>p. /\ f[h[e].key] % N = b
      /\ h2 = LinkFirst(h, e, bk[b].hh_head)
      /\ bk2[b].hh_head = e /\ bk2[b].count = bk[b].count + 1
      /\ \A x \in 0 .. N - 1 : x # b => bk2[x] = bk[x]
  BY DEF Pushed
<1>1. PICK C : \A x \in 0 .. N - 1 :
        /\ IsList(C[x], bk[x].count, bk[x].hh_head, HhNextOf(h), HhPrevOf(h))
        /\ \A a \in Elements :
              On(C[x], bk[x].count, a) <=> a \in D /\ f[h[a].key] % N = x
  BY DEF Chained
<1>2. PICK n, s : /\ n \in Nat /\ s \in [1 .. n -> Elements]
                  /\ n = bk[b].count /\ s = C[b]
  BY <1>1 DEF IsList
<1>3. PICK old : old = bk[b].hh_head
  OBVIOUS
<1>4. /\ IsList(s, n, old, HhNextOf(h), HhPrevOf(h))
      /\ \A a \in Elements : On(s, n, a) <=> a \in D /\ f[h[a].key] % N = b
  BY <1>1, <1>2, <1>3
<1>5. old = IF n = 0 THEN NULL ELSE s[1]
  BY <1>4 DEF IsList
<1>o. \A i \in 1 .. n : On(s, n, s[i]) /\ s[i] \in Elements
  BY <1>2 DEF On
<1>6. n # 0 => 1 \in 1 .. n /\ s[1] \in Elements /\ s[1] \in D /\ f[h[s[1]].key] % N = b
  <2> SUFFICES ASSUME n # 0
               PROVE  1 \in 1 .. n /\ s[1] \in Elements /\ s[1] \in D /\ f[h[s[1]].key] % N = b
    OBVIOUS
  <2>1. 1 \in 1 .. n
    BY <1>2
  <2> QED
    BY <1>4, <1>o, <2>1
<1>7. old \in Pointer /\ old # e /\ NULL \notin Elements
  BY <1>5, <1>6, UtHashAssumptions DEF Pointer
<1>8. /\ h2 \in [Elements -> Handle] /\ SameButChains(h, h2)
      /\ h2[e].hh_next = old /\ h2[e].hh_prev = NULL
      /\ old # NULL => h2[old].hh_prev = e /\ h2[old].hh_next = h[old].hh_next
      /\ \A x \in Elements : x # e /\ x # old => h2[x] = h[x]
  BY <1>3, <1>7, <1>p, LinkFirstProperties
<1>9. PICK t : t = Prepended(s, n, e)
  OBVIOUS
<1>10. ~On(s, n, e)
  BY <1>4
<1>11. /\ HhNextOf(h2)[e] = old /\ HhPrevOf(h2)[e] = NULL
       /\ n > 0 => HhPrevOf(h2)[s[1]] = e
  BY <1>5, <1>6, <1>7, <1>8, PointerLinks
<1>12. \A i \in 1 .. n : /\ HhNextOf(h2)[s[i]] = HhNextOf(h)[s[i]]
                         /\ i > 1 => HhPrevOf(h2)[s[i]] = HhPrevOf(h)[s[i]]
  <2> TAKE i \in 1 .. n
  <2>1. s[i] # e /\ s[i] \in Elements
    BY <1>10, <1>o
  <2>2. CASE i = 1
    BY <1>5, <1>6, <1>7, <1>8, <2>1, <2>2, PointerLinks
  <2>3. CASE i > 1
    <3>1. s[i] # old
      BY <1>4, <1>5, <1>6, <2>3 DEF IsList
    <3> QED
      BY <1>8, <2>1, <3>1, PointerLinks
  <2> QED
    BY <2>2, <2>3
<1>13. /\ IsList(t, n + 1, e, HhNextOf(h2), HhPrevOf(h2))
       /\ \A x : On(t, n + 1, x) <=> On(s, n, x) \/ x = e
  <2>1. PrependLinks(s, n, old, e, HhNextOf(h), HhPrevOf(h), HhNextOf(h2), HhPrevOf(h2))
    BY <1>11, <1>12 DEF PrependLinks
  <2> QED
    BY <1>4, <1>9, <1>10, <2>1, ListPrepend, e \in Elements
<1>14. PICK C2 : C2 = [x \in 0 .. N - 1 |-> IF x = b THEN t ELSE C[x]]
  OBVIOUS
<1>15. \A a \in Elements : h2[a].key = h[a].key
  BY <1>8 DEF SameButChains
<1>16. ASSUME NEW x \in 0 .. N - 1
       PROVE  /\ IsList(C2[x], bk2[x].count, bk2[x].hh_head, HhNextOf(h2), HhPrevOf(h2))
              /\ \A a \in Elements :
                    On(C2[x], bk2[x].count, a) <=> a \in D \cup {e} /\ f[h2[a].key] % N = x
  <2>1. CASE x = b
    <3>1. C2[x] = t /\ bk2[x].count = n + 1 /\ bk2[x].hh_head = e
      BY <1>2, <1>14, <1>p, <2>1
    <3>2. \A a \in Elements : On(t, n + 1, a) <=> a \in D \cup {e} /\ f[h2[a].key] % N = b
      BY <1>4, <1>13, <1>15, <1>p
    <3> QED
      BY <1>13, <2>1, <3>1, <3>2
  <2>2. CASE x # b
    <3>1. C2[x] = C[x] /\ bk2[x] = bk[x]
      BY <1>14, <1>p, <2>2
    <3>2. PICK k, u : /\ k \in Nat /\ u \in [1 .. k -> Elements]
                      /\ k = bk[x].count /\ u = C[x]
      BY <1>1 DEF IsList
    <3>3. \A a \in Elements : On(u, k, a) <=> a \in D /\ f[h[a].key] % N = x
      BY <1>1, <3>2
    <3>4. \A i \in 1 .. k : u[i] \in Elements /\ u[i] # e /\ u[i] # old
      <4> TAKE i \in 1 .. k
      <4>1. On(u, k, u[i]) /\ u[i] \in Elements
        BY <3>2 DEF On
      <4>2. u[i] \in D /\ f[h[u[i]].key] % N = x
        BY <3>3, <4>1
      <4> QED
        BY <1>5, <1>6, <1>7, <2>2, <4>1, <4>2
    <3>5. \A i \in 1 .. k : /\ HhNextOf(h2)[u[i]] = HhNextOf(h)[u[i]]
                            /\ HhPrevOf(h2)[u[i]] = HhPrevOf(h)[u[i]]
      BY <1>8, <3>4, PointerLinks
    <3>6. IsList(u, k, bk[x].hh_head, HhNextOf(h2), HhPrevOf(h2))
      BY <1>1, <3>2, <3>5, ListSame
    <3>7. \A a \in Elements : On(u, k, a) <=> a \in D \cup {e} /\ f[h2[a].key] % N = x
      BY <1>15, <1>p, <2>2, <3>3
    <3> QED
      BY <3>1, <3>2, <3>6, <3>7
  <2> QED
    BY <2>1, <2>2
<1>17. Chained(f, bk2, h2, N, D \cup {e})
  BY <1>16 DEF Chained
<1> QED
  BY <1>3, <1>7, <1>17

\* What HASH_DEL_IN_BKT does to the handles other than e's.
LeftChain(h, h2, e) ==
    \A x \in Elements \ {e} :
        /\ h2[x].key = h[x].key
        /\ h2[x].hh_next = (IF x = h[e].hh_prev THEN h[e].hh_next ELSE h[x].hh_next)
        /\ h2[x].hh_prev =
              (IF x # h[e].hh_prev /\ x = h[e].hh_next THEN h[e].hh_prev ELSE h[x].hh_prev)

\* e leaves the chain of its bucket b.
Pulled(f, N, bk, h, b, e, bk2, h2) ==
    /\ f[h[e].key] % N = b /\ LeftChain(h, h2, e)
    /\ bk2[b].hh_head = IF bk[b].hh_head = e THEN h[e].hh_next ELSE bk[b].hh_head
    /\ bk2[b].count = bk[b].count - 1
    /\ \A x \in 0 .. N - 1 : x # b => bk2[x] = bk[x]

(* An element leaves the chain of its bucket. *)
LEMMA ChainedRemove ==
    ASSUME NEW f, NEW N \in Nat, NEW D \in SUBSET Elements, NEW bk,
           NEW h \in [Elements -> Handle], Chained(f, bk, h, N, D),
           NEW b \in 0 .. N - 1, NEW e \in D, NEW h2 \in [Elements -> Handle], NEW bk2,
           Pulled(f, N, bk, h, b, e, bk2, h2)
    PROVE  /\ Chained(f, bk2, h2, N, D \ {e})
           /\ bk2[b].count \in Nat
<1>p. /\ f[h[e].key] % N = b /\ LeftChain(h, h2, e)
      /\ bk2[b].hh_head = IF bk[b].hh_head = e THEN h[e].hh_next ELSE bk[b].hh_head
      /\ bk2[b].count = bk[b].count - 1
      /\ \A x \in 0 .. N - 1 : x # b => bk2[x] = bk[x]
  BY DEF Pulled
<1>1. PICK C : \A x \in 0 .. N - 1 :
        /\ IsList(C[x], bk[x].count, bk[x].hh_head, HhNextOf(h), HhPrevOf(h))
        /\ \A a \in Elements :
              On(C[x], bk[x].count, a) <=> a \in D /\ f[h[a].key] % N = x
  BY DEF Chained
<1>2. PICK n, s : /\ n \in Nat /\ s \in [1 .. n -> Elements]
                  /\ n = bk[b].count /\ s = C[b]
  BY <1>1 DEF IsList
<1>3. PICK old : old = bk[b].hh_head
  OBVIOUS
<1>4. /\ IsList(s, n, old, HhNextOf(h), HhPrevOf(h))
      /\ \A a \in Elements : On(s, n, a) <=> a \in D /\ f[h[a].key] % N = b
  BY <1>1, <1>2, <1>3
<1>5. PICK j \in 1 .. n : s[j] = e
  BY <1>4, <1>p DEF On
<1>o. \A i \in 1 .. n : On(s, n, s[i]) /\ s[i] \in Elements
  BY <1>2 DEF On
<1>6. /\ \A i, k \in 1 .. n : s[i] = s[k] => i = k
      /\ old = s[1] /\ 1 \in 1 .. n
      /\ h[e].hh_next = (IF j = n THEN NULL ELSE s[j + 1])
      /\ h[e].hh_prev = (IF j = 1 THEN NULL ELSE s[j - 1])
  <2>1. /\ HhNextOf(h)[s[j]] = IF j = n THEN NULL ELSE s[j + 1]
        /\ HhPrevOf(h)[s[j]] = IF j = 1 THEN NULL ELSE s[j - 1]
    BY <1>4 DEF IsList
  <2>2. HhNextOf(h)[s[j]] = h[e].hh_next /\ HhPrevOf(h)[s[j]] = h[e].hh_prev
    BY <1>5, <1>o, PointerLinks
  <2> QED
    BY <1>4, <2>1, <2>2 DEF IsList
<1>7. \A i \in 1 .. n : i # j =>
         /\ HhNextOf(h2)[s[i]] = IF i = j - 1 THEN h[e].hh_next ELSE HhNextOf(h)[s[i]]
         /\ HhPrevOf(h2)[s[i]] = IF i = j + 1 THEN h[e].hh_prev ELSE HhPrevOf(h)[s[i]]
  <2> TAKE i \in 1 .. n
  <2> SUFFICES ASSUME i # j
               PROVE  /\ HhNextOf(h2)[s[i]] = IF i = j - 1 THEN h[e].hh_next ELSE HhNextOf(h)[s[i]]
                      /\ HhPrevOf(h2)[s[i]] = IF i = j + 1 THEN h[e].hh_prev ELSE HhPrevOf(h)[s[i]]
    OBVIOUS
  <2>1. s[i] # e /\ s[i] \in Elements \ {e} /\ s[i] # NULL
    BY <1>5, <1>6, <1>o, UtHashAssumptions
  <2>2. s[i] = h[e].hh_prev <=> i = j - 1
    <3>1. CASE j = 1
      BY <1>6, <2>1, <3>1
    <3>2. CASE j # 1
      <4>1. j - 1 \in 1 .. n
        BY <1>2, <3>2
      <4> QED
        BY <1>6, <3>2, <4>1
    <3> QED
      BY <3>1, <3>2
  <2>3. s[i] = h[e].hh_next <=> i = j + 1
    <3>1. CASE j = n
      BY <1>6, <2>1, <3>1
    <3>2. CASE j # n
      <4>1. j + 1 \in 1 .. n
        BY <1>2, <3>2
      <4> QED
        BY <1>6, <3>2, <4>1
    <3> QED
      BY <3>1, <3>2
  <2>4. /\ h2[s[i]].hh_next = IF i = j - 1 THEN h[e].hh_next ELSE h[s[i]].hh_next
        /\ h2[s[i]].hh_prev = IF i = j + 1 THEN h[e].hh_prev ELSE h[s[i]].hh_prev
    <3>1. ~(i = j + 1 /\ i = j - 1)
      OBVIOUS
    <3> QED
      BY <1>p, <2>1, <2>2, <2>3, <3>1 DEF LeftChain
  <2>5. /\ HhNextOf(h2)[s[i]] = h2[s[i]].hh_next /\ HhNextOf(h)[s[i]] = h[s[i]].hh_next
        /\ HhPrevOf(h2)[s[i]] = h2[s[i]].hh_prev /\ HhPrevOf(h)[s[i]] = h[s[i]].hh_prev
    BY <2>1, PointerLinks
  <2> QED
    BY <2>4, <2>5
<1>8. HhNextOf(h)[s[j]] = h[e].hh_next /\ HhPrevOf(h)[s[j]] = h[e].hh_prev
  BY <1>5, <1>o, PointerLinks
<1>9. PICK t : t = Without(s, n, j)
  OBVIOUS
<1>10. RemoveLinks(s, n, j, HhNextOf(h), HhPrevOf(h), HhNextOf(h2), HhPrevOf(h2))
  BY <1>7, <1>8 DEF RemoveLinks
<1>11. /\ IsList(t, n - 1, IF j = 1 THEN HhNextOf(h)[s[1]] ELSE old, HhNextOf(h2), HhPrevOf(h2))
       /\ \A x : On(t, n - 1, x) <=> On(s, n, x) /\ x # s[j]
  BY <1>4, <1>9, <1>10, ListRemove
<1>12. bk2[b].hh_head = IF j = 1 THEN HhNextOf(h)[s[1]] ELSE old
  <2>1. old = e <=> j = 1
    BY <1>5, <1>6
  <2> QED
    BY <1>3, <1>8, <1>p, <2>1
<1>13. \A a \in Elements : a # e => h2[a].key = h[a].key
  BY <1>p DEF LeftChain
<1>14. PICK C2 : C2 = [x \in 0 .. N - 1 |-> IF x = b THEN t ELSE C[x]]
  OBVIOUS
<1>16. ASSUME NEW x \in 0 .. N - 1
       PROVE  /\ IsList(C2[x], bk2[x].count, bk2[x].hh_head, HhNextOf(h2), HhPrevOf(h2))
              /\ \A a \in Elements :
                    On(C2[x], bk2[x].count, a) <=> a \in D \ {e} /\ f[h2[a].key] % N = x
  <2>1. CASE x = b
    <3>1. C2[x] = t /\ bk2[x].count = n - 1
      BY <1>2, <1>14, <1>p, <2>1
    <3>2. \A a \in Elements : On(t, n - 1, a) <=> a \in D \ {e} /\ f[h2[a].key] % N = b
      BY <1>4, <1>5, <1>11, <1>13
    <3> QED
      BY <1>11, <1>12, <2>1, <3>1, <3>2
  <2>2. CASE x # b
    <3>1. C2[x] = C[x] /\ bk2[x] = bk[x]
      BY <1>14, <1>p, <2>2
    <3>2. PICK k, u : /\ k \in Nat /\ u \in [1 .. k -> Elements]
                      /\ k = bk[x].count /\ u = C[x]
      BY <1>1 DEF IsList
    <3>3. \A a \in Elements : On(u, k, a) <=> a \in D /\ f[h[a].key] % N = x
      BY <1>1, <3>2
    <3>4. \A i \in 1 .. k : /\ u[i] \in Elements \ {e} /\ u[i] # h[e].hh_prev
                            /\ u[i] # h[e].hh_next
      <4> TAKE i \in 1 .. k
      <4>1. On(u, k, u[i]) /\ u[i] \in Elements
        BY <3>2 DEF On
      <4>2. u[i] \in D /\ f[h[u[i]].key] % N = x /\ u[i] # NULL
        BY <3>3, <4>1, UtHashAssumptions
      <4>3. \A m \in 1 .. n : u[i] # s[m]
        BY <1>4, <1>o, <2>2, <4>2
      <4>4. j # n => j + 1 \in 1 .. n
        BY <1>2
      <4>5. j # 1 => j - 1 \in 1 .. n
        BY <1>2
      <4> QED
        BY <1>5, <1>6, <4>1, <4>2, <4>3, <4>4, <4>5
    <3>5. \A i \in 1 .. k : /\ HhNextOf(h2)[u[i]] = HhNextOf(h)[u[i]]
                            /\ HhPrevOf(h2)[u[i]] = HhPrevOf(h)[u[i]]
      <4> TAKE i \in 1 .. k
      <4>1. h2[u[i]].hh_next = h[u[i]].hh_next /\ h2[u[i]].hh_prev = h[u[i]].hh_prev
        BY <1>p, <3>4 DEF LeftChain
      <4>2. u[i] \in Elements
        BY <3>4
      <4> QED
        BY <4>1, <4>2, PointerLinks
    <3>6. IsList(u, k, bk[x].hh_head, HhNextOf(h2), HhPrevOf(h2))
      BY <1>1, <3>2, <3>5, ListSame
    <3>7. \A a \in Elements : On(u, k, a) <=> a \in D \ {e} /\ f[h2[a].key] % N = x
      BY <1>13, <1>p, <2>2, <3>3
    <3> QED
      BY <3>1, <3>2, <3>6, <3>7
  <2> QED
    BY <2>1, <2>2
<1>17. Chained(f, bk2, h2, N, D \ {e})
  BY <1>16 DEF Chained
<1>18. bk2[b].count \in Nat
  BY <1>2, <1>5, <1>p
<1> QED
  BY <1>17, <1>18

-----------------------------------------------------------------------------
(* Powers of two and the ideal length of a chain.                          *)

IsPow(p, n) == p = [i \in 0 .. n |-> IF i = 0 THEN 1 ELSE 2 * p[i - 1]]

LEMMA PowUnfold ==
    ASSUME NEW n \in Nat
    PROVE  \E p : IsPow(p, n) /\ Pow2(n) = p[n]
<1> DEFINE B(g) == [i \in 0 .. n |-> IF i = 0 THEN 1 ELSE 2 * g[i - 1]]
           c == CHOOSE g : g = B(g)
<1>0. PICK step : step = [i \in 1 .. n |-> [x \in Nat |-> 2 * x]]
  OBVIOUS
<1>1. PICK S, R, w : IsIteration(w, S, R, 1, n, step) /\ R = [i \in 0 .. n |-> Nat]
  <2>1. PICK S, R : S = Nat /\ R = [i \in 0 .. n |-> S]
    OBVIOUS
  <2>2. StepsLead(S, R, n, step)
    BY <1>0, <2>1 DEF StepsLead
  <2>3. PICK one \in R[0] : one = 1
    BY <2>1
  <2>4. \E w : IsIteration(w, S, R, one, n, step)
    BY <2>2, IterationExists
  <2> QED
    BY <2>1, <2>3, <2>4
<1>2. w = B(w)
  <2>1. \A i \in 1 .. n : w[i] = 2 * w[i - 1]
    <3> TAKE i \in 1 .. n
    <3>1. i - 1 \in 0 .. n
      OBVIOUS
    <3>2. w[i - 1] \in Nat
      BY <1>1, <3>1 DEF IsIteration
    <3> QED
      BY <1>0, <1>1, <3>2 DEF IsIteration
  <2> QED
    BY <1>1, <2>1 DEF IsIteration
<1> HIDE DEF B
<1>3. c = B(c)
  BY <1>2
<1>4. Pow2(n) = c[n]
  BY DEF Pow2, B
<1> HIDE DEF c
<1> QED
  BY <1>3, <1>4 DEF IsPow, B

LEMMA PowProperties ==
    ASSUME NEW n \in Nat
    PROVE  Pow2(n) \in Nat \ {0} /\ Pow2(n + 1) = 2 * Pow2(n)
<1>1. PICK p : IsPow(p, n) /\ Pow2(n) = p[n]
  BY PowUnfold
<1>2. PICK q : IsPow(q, n + 1) /\ Pow2(n + 1) = q[n + 1]
  BY PowUnfold
<1> DEFINE T == {i \in Nat : i <= n => p[i] = q[i] /\ p[i] \in Nat \ {0}}
<1>3. 0 \in T
  BY <1>1, <1>2 DEF IsPow
<1>4. ASSUME NEW i \in Nat, i \in T PROVE i + 1 \in T
  BY <1>1, <1>2, <1>4 DEF IsPow
<1> HIDE DEF T
<1>5. n \in T
  BY <1>3, <1>4, NatSetInduction
<1>6. p[n] = q[n] /\ p[n] \in Nat \ {0}
  BY <1>5 DEF T
<1>7. q[n + 1] = 2 * q[n]
  BY <1>2 DEF IsPow
<1> QED
  BY <1>1, <1>2, <1>6, <1>7

LEMMA IdealProperties ==
    ASSUME NEW t, t.num_items \in Nat, t.log2_num_buckets \in Nat,
           t.num_buckets = Pow2(t.log2_num_buckets)
    PROVE  /\ IdealChainMaxlen(t) \in Nat
           /\ t.num_items > 0 => IdealChainMaxlen(t) > 0
<1>1. PICK N \in Nat \ {0} : N = t.num_buckets /\ Pow2(t.log2_num_buckets + 1) = 2 * N
  BY PowProperties
<1>2. PICK n \in Nat : n = t.num_items
  OBVIOUS
<1>3. PICK d \in Nat \ {0} : d = 2 * N
  BY <1>1
<1>4. PICK q \in Int, r \in 0 .. d - 1 : n = d * q + r /\ q = n \div d /\ r = n % d
  BY <1>3, DivMod, n \in Int
<1>5. IdealChainMaxlen(t) = q + (IF r # 0 THEN 1 ELSE 0)
  BY <1>1, <1>2, <1>3, <1>4 DEF IdealChainMaxlen
<1>6. q >= 0
  <2> SUFFICES ASSUME q < 0 PROVE FALSE
    BY <1>4
  <2>1. d * q + d <= d * 0
    BY <1>3, <1>4, MultiplesApart
  <2>2. PICK x \in Int : x = d * q
    BY <1>3, <1>4
  <2> QED
    BY <1>3, <1>4, <2>1, <2>2
<1>7. n > 0 => q > 0 \/ r # 0
  <2> SUFFICES ASSUME q = 0, r = 0 PROVE n = 0
    BY <1>4, <1>6
  <2> QED
    BY <1>3, <1>4
<1>8. PICK I : I = IdealChainMaxlen(t)
  OBVIOUS
<1>9. I \in Nat /\ (n > 0 => I > 0)
  <2>1. I = q + (IF r # 0 THEN 1 ELSE 0) /\ q \in Nat /\ r \in Nat
    <3>1. q \in Int /\ d - 1 \in Int /\ r \in 0 .. d - 1
      BY <1>3
    <3> QED
      BY <1>5, <1>6, <1>8, <3>1
  <2> QED
    BY <1>7, <2>1
<1> QED
  BY <1>2, <1>8, <1>9

(* A function on 1 .. n is a sequence of length n. *)
LEMMA LenOfFunction ==
    ASSUME NEW S, NEW n \in Nat, NEW s \in [1 .. n -> S]
    PROVE  s \in Seq(S) /\ Len(s) = n /\ DOMAIN s = 1 .. n
<1>1. s \in Seq(S)
  OBVIOUS
<1>2. DOMAIN s = 1 .. Len(s) /\ Len(s) \in Nat
  BY <1>1, LenProperties
<1>3. DOMAIN s = 1 .. n
  OBVIOUS
<1>4. Len(s) = n
  BY <1>2, <1>3
<1> QED
  BY <1>1, <1>3, <1>4

-----------------------------------------------------------------------------
(* Expansion.                                                              *)

Accs(N) == [buckets : [0 .. N - 1 -> Bucket], hh : [Elements -> Handle], nonideal : Nat]

Bounded(b, I) == b.count <= (b.expand_mult + 1) * I

\* x holds the elements of D in N buckets whose ideal length is I; h is the heap before.
Redistributed(f, N, I, h, D, x) ==
    /\ x \in Accs(N)
    /\ SameButChains(h, x.hh)
    /\ Chained(f, x.buckets, x.hh, N, D)
    /\ \A b \in 0 .. N - 1 : Bounded(x.buckets[b], I)

LEMMA OneMoreBounded ==
    ASSUME NEW c \in Nat, NEW m \in Nat, NEW I \in Nat, I > 0, c <= (m + 1) * I
    PROVE  /\ c + 1 > I /\ c + 1 > m * I => c + 1 <= (m + 1 + 1) * I
           /\ ~(c + 1 > I /\ c + 1 > m * I) => c + 1 <= (m + 1) * I
<1>1. PICK p \in Nat : p = m * I
  OBVIOUS
<1>2. (m + 1) * I = p + I /\ (m + 1 + 1) * I = p + I + I
  BY <1>1
<1> QED
  BY <1>1, <1>2

(* A bucket that asks for no expansion is within its bound. *)
LEMMA NotReached ==
    ASSUME NEW b, NEW I \in Nat, b.count \in Nat, b.expand_mult \in Nat,
           ~(b.count >= (b.expand_mult + 1) * I)
    PROVE  Bounded(b, I)
<1>1. PICK c \in Nat, x \in Nat : c = b.count /\ x = b.expand_mult
  OBVIOUS
<1>2. PICK y \in Nat : y = x + 1
  OBVIOUS
<1>3. y * I \in Nat
  OBVIOUS
<1>4. PICK p \in Nat : p = y * I
  BY <1>3
<1>5. c <= p
  BY <1>1, <1>2, <1>4
<1> QED
  BY <1>1, <1>2, <1>4, <1>5, Zenon DEF Bounded

(* One element goes to its new bucket. *)
LEMMA MoveKeeps ==
    ASSUME NEW t, NEW N \in Nat, N = 2 * t.num_buckets, N > 0,
           NEW I \in Nat, I = IdealChainMaxlen(t), I > 0, hashv \in [Keys -> Nat],
           NEW h, NEW D \in SUBSET Elements, NEW x, Redistributed(hashv, N, I, h, D, x),
           NEW e \in Elements \ D, h[e].key \in Keys
    PROVE  Redistributed(hashv, N, I, h, D \cup {e}, Move(t, x, e))
<1>1. /\ x \in Accs(N) /\ SameButChains(h, x.hh)
      /\ Chained(hashv, x.buckets, x.hh, N, D)
      /\ \A b \in 0 .. N - 1 : Bounded(x.buckets[b], I)
  BY DEF Redistributed
<1>2. /\ x.buckets \in [0 .. N - 1 -> Bucket] /\ x.hh \in [Elements -> Handle]
      /\ x.nonideal \in Nat
  BY <1>1 DEF Accs
<1>3. x.hh[e].key \in Keys
  BY <1>1 DEF SameButChains
<1>4. PICK b \in 0 .. N - 1 : b = hashv[x.hh[e].key] % N
  <2>1. PICK v \in Nat : v = hashv[x.hh[e].key]
    BY <1>3
  <2>2. v % N \in 0 .. N - 1
    <3>1. v \in Int /\ N \in Nat \ {0}
      OBVIOUS
    <3> QED
      BY <3>1, DivMod
  <2> QED
    BY <2>1, <2>2
<1>5. PICK old \in Bucket : old = x.buckets[b]
  BY <1>2
<1>e. e \in Elements
  OBVIOUS
<1>g. PICK g \in [Elements -> Handle] : g = x.hh
  BY <1>2
<1>6. PICK y : y = Move(t, x, e)
  OBVIOUS
<1>7. PICK new : /\ new = y.buckets[b]
                 /\ new = [hh_head |-> e, count |-> old.count + 1,
                           expand_mult |-> old.expand_mult
                              + (IF old.count + 1 > I /\ old.count + 1 > old.expand_mult * I
                                 THEN 1 ELSE 0)]
                 /\ y.buckets = [x.buckets EXCEPT ![b] = new]
                 /\ y.hh = LinkFirst(x.hh, e, old.hh_head)
                 /\ y.nonideal = x.nonideal + (IF old.count + 1 > I THEN 1 ELSE 0)
                 /\ y = [buckets |-> y.buckets, hh |-> y.hh, nonideal |-> y.nonideal]
  BY <1>2, <1>4, <1>5, <1>6 DEF Move, HASH_TO_BKT, HASH_VALUE
<1>8. /\ old.count \in Nat /\ old.expand_mult \in Nat /\ old.hh_head \in Pointer
      /\ old.count <= (old.expand_mult + 1) * I
  BY <1>1, <1>5 DEF Bucket, Bounded
<1>9. /\ new.count = old.count + 1 /\ new.hh_head = e /\ new \in Bucket
      /\ Bounded(new, I)
  <2>1. PICK m \in Nat : m = old.expand_mult
    BY <1>8
  <2>2. CASE old.count + 1 > I /\ old.count + 1 > old.expand_mult * I
    <3>1. new = [hh_head |-> e, count |-> old.count + 1, expand_mult |-> m + 1]
      BY <1>7, <2>1, <2>2
    <3>2. new \in Bucket /\ new.count = old.count + 1 /\ new.hh_head = e /\ new.expand_mult = m + 1
      BY <1>8, <3>1 DEF Bucket, Pointer
    <3>3. old.count + 1 <= (m + 1 + 1) * I
      BY <1>8, <2>1, <2>2, OneMoreBounded
    <3> QED
      BY <3>2, <3>3 DEF Bounded
  <2>3. CASE ~(old.count + 1 > I /\ old.count + 1 > old.expand_mult * I)
    <3>1. new = [hh_head |-> e, count |-> old.count + 1, expand_mult |-> m]
      BY <1>7, <2>1, <2>3
    <3>2. new \in Bucket /\ new.count = old.count + 1 /\ new.hh_head = e /\ new.expand_mult = m
      BY <1>8, <3>1 DEF Bucket, Pointer
    <3>3. old.count + 1 <= (m + 1) * I
      BY <1>8, <2>1, <2>3, OneMoreBounded
    <3> QED
      BY <3>2, <3>3 DEF Bounded
  <2> QED
    BY <2>2, <2>3
<1>10. /\ y.buckets \in [0 .. N - 1 -> Bucket]
       /\ \A a \in 0 .. N - 1 : a # b => y.buckets[a] = x.buckets[a]
       /\ y.buckets[b] = new
  BY <1>2, <1>7, <1>9
<1>11. y.hh \in [Elements -> Handle] /\ SameButChains(x.hh, y.hh)
  <2>1. y.hh = LinkFirst(g, e, old.hh_head) /\ old.hh_head \in Pointer
    BY <1>7, <1>8, <1>g
  <2>2. LinkFirst(g, e, old.hh_head) \in [Elements -> Handle]
        /\ SameButChains(g, LinkFirst(g, e, old.hh_head))
    BY <1>8, <1>e, LinkFirstProperties
  <2> QED
    BY <1>g, <2>1, <2>2
<1>12. y.nonideal \in Nat
  BY <1>2, <1>7
<1>13. y \in Accs(N)
  BY <1>7, <1>10, <1>11, <1>12 DEF Accs
<1>14. SameButChains(h, y.hh)
  BY <1>1, <1>11 DEF SameButChains
<1>15. Chained(hashv, y.buckets, y.hh, N, D \cup {e})
  <2>1. Chained(hashv, x.buckets, g, N, D) /\ hashv[g[e].key] % N = b
    BY <1>1, <1>4, <1>g
  <2>2. PICK bk, bk2, h2 : bk = x.buckets /\ bk2 = y.buckets /\ h2 = y.hh
    OBVIOUS
  <2>3. Pushed(hashv, N, bk, g, b, e, bk2, h2)
    BY <1>4, <1>5, <1>7, <1>9, <1>10, <1>g, <2>2 DEF Pushed
  <2>4. Chained(hashv, bk, g, N, D)
    BY <2>1, <2>2
  <2>5. Chained(hashv, bk2, h2, N, D \cup {e})
    BY <2>3, <2>4, ChainedPush
  <2> QED
    BY <2>2, <2>5
<1>16. \A a \in 0 .. N - 1 : Bounded(y.buckets[a], I)
  BY <1>1, <1>9, <1>10
<1> QED
  BY <1>6, <1>13, <1>14, <1>15, <1>16 DEF Redistributed

\* The elements that n steps along c visit.
Visited(c, n) == {c[i] : i \in 1 .. n}

(* The elements of a chain go to their new buckets. *)
LEMMA MoveChainKeeps ==
    ASSUME NEW t, NEW N \in Nat, N = 2 * t.num_buckets, N > 0,
           NEW I \in Nat, I = IdealChainMaxlen(t), I > 0, hashv \in [Keys -> Nat],
           NEW h, NEW D \in SUBSET Elements, NEW x, Redistributed(hashv, N, I, h, D, x),
           NEW n \in Nat, NEW c \in [1 .. n -> Elements],
           \A i, j \in 1 .. n : c[i] = c[j] => i = j,
           \A i \in 1 .. n : c[i] \notin D /\ h[c[i]].key \in Keys
    PROVE  Redistributed(hashv, N, I, h, D \cup Visited(c, n), MoveChain(t, x, c))
<1> DEFINE B(g) == [i \in 0 .. n |-> IF i = 0 THEN x ELSE Move(t, g[i - 1], c[i])]
           ch == CHOOSE g : g = B(g)
<1>1. PICK S : S = Accs(N)
  OBVIOUS
<1>2. PICK R : R = [i \in 0 .. n |->
                      {y \in S : Redistributed(hashv, N, I, h, D \cup Visited(c, i), y)}]
  OBVIOUS
<1>3. PICK step : step = [i \in 1 .. n |-> [y \in S |-> Move(t, y, c[i])]]
  OBVIOUS
<1>4. x \in R[0]
  <2>1. D \cup Visited(c, 0) = D
    BY DEF Visited
  <2>2. x \in S
    BY <1>1 DEF Redistributed
  <2>3. 0 \in 0 .. n
    OBVIOUS
  <2> QED
    BY <1>2, <2>1, <2>2, <2>3
<1>5. StepsLead(S, R, n, step)
  <2>1. \A i \in 0 .. n : R[i] \subseteq S
    BY <1>2
  <2>2. ASSUME NEW i \in 1 .. n, NEW y \in R[i - 1] PROVE step[i][y] \in R[i]
    <3>1. i - 1 \in 0 .. n /\ i \in 0 .. n
      OBVIOUS
    <3>2. y \in S /\ Redistributed(hashv, N, I, h, D \cup Visited(c, i - 1), y)
      BY <1>2, <3>1
    <3>3. c[i] \in Elements \ (D \cup Visited(c, i - 1)) /\ h[c[i]].key \in Keys
      <4>1. c[i] \notin Visited(c, i - 1)
        BY DEF Visited
      <4> QED
        BY <4>1
    <3>4. D \cup Visited(c, i - 1) \in SUBSET Elements
      BY DEF Visited
    <3>5. Redistributed(hashv, N, I, h, (D \cup Visited(c, i - 1)) \cup {c[i]}, Move(t, y, c[i]))
      BY <3>2, <3>3, <3>4, MoveKeeps
    <3>6. (D \cup Visited(c, i - 1)) \cup {c[i]} = D \cup Visited(c, i)
      <4>1. \A j \in 1 .. i : j = i \/ j \in 1 .. i - 1
        OBVIOUS
      <4>2. \A j \in 1 .. i - 1 : j \in 1 .. i
        OBVIOUS
      <4>3. i \in 1 .. i
        OBVIOUS
      <4> QED
        BY <4>1, <4>2, <4>3 DEF Visited
    <3>7. Move(t, y, c[i]) \in S
      BY <1>1, <3>5 DEF Redistributed
    <3> QED
      BY <1>2, <1>3, <3>1, <3>2, <3>5, <3>6, <3>7
  <2> QED
    BY <2>1, <2>2 DEF StepsLead
<1>6. PICK w : IsIteration(w, S, R, x, n, step)
  BY <1>4, <1>5, IterationExists
<1>7. w = B(w)
  <2>1. w \in [0 .. n -> S] /\ w[0] = x
    BY <1>6 DEF IsIteration
  <2>2. \A i \in 1 .. n : w[i] = Move(t, w[i - 1], c[i])
    <3> TAKE i \in 1 .. n
    <3>1. i - 1 \in 0 .. n
      OBVIOUS
    <3>2. w[i - 1] \in S /\ w[i] = step[i][w[i - 1]]
      BY <1>6, <3>1 DEF IsIteration
    <3> QED
      BY <1>3, <3>2
  <2> QED
    BY <2>1, <2>2
<1> HIDE DEF B
<1>8. ch = B(ch)
  BY <1>7
<1>9. Len(c) = n
  BY LenOfFunction
<1>10. MoveChain(t, x, c) = ch[n]
  BY <1>9 DEF MoveChain, B
<1> HIDE DEF ch
<1>11. ch[n] = w[n]
  <2> DEFINE T == {i \in Nat : i <= n => ch[i] = w[i]}
  <2>1. 0 \in T
    BY <1>7, <1>8 DEF B
  <2>2. ASSUME NEW i \in Nat, i \in T PROVE i + 1 \in T
    <3> SUFFICES ASSUME i + 1 <= n PROVE ch[i + 1] = w[i + 1]
      OBVIOUS
    <3>1. i + 1 \in 0 .. n /\ i + 1 # 0 /\ (i + 1) - 1 = i /\ ch[i] = w[i]
      BY <2>2
    <3>2. ch[i + 1] = Move(t, ch[i], c[i + 1]) /\ B(w)[i + 1] = Move(t, w[i], c[i + 1])
      BY <1>8, <3>1 DEF B
    <3> QED
      BY <1>7, <3>1, <3>2
  <2> HIDE DEF T
  <2>3. n \in T
    BY <2>1, <2>2, NatSetInduction
  <2> QED
    BY <2>3 DEF T
<1>12. w[n] \in R[n] /\ n \in 0 .. n
  BY <1>6 DEF IsIteration
<1> QED
  BY <1>2, <1>10, <1>11, <1>12

Table(N) == [buckets : [0 .. N - 1 -> Bucket], num_buckets : {N}, log2_num_buckets : Nat,
             num_items : Nat, tail : Pointer, ideal_chain_maxlen : Nat, nonideal_items : Nat,
             ineff_expands : Nat, noexpand : BOOLEAN]

\* C holds the chains that the code follows; together they have the elements of D.
ChainsAre(f, m, N, D, C) ==
    \A b \in 0 .. N - 1 :
        /\ C[b] = Chain(m, b)
        /\ IsList(C[b], m.tbl.buckets[b].count, m.tbl.buckets[b].hh_head,
                  HhNextOf(m.hh), HhPrevOf(m.hh))
        /\ \A e \in Elements : On(C[b], m.tbl.buckets[b].count, e)
                                  <=> e \in D /\ f[m.hh[e].key] % N = b

(* The bucket chains that the code follows are the lists that Chained speaks of. *)
LEMMA ChainsFound ==
    ASSUME NEW f, NEW m, NEW N \in Nat, NEW D \in SUBSET Elements,
           m.hh \in [Elements -> Handle], Chained(f, m.tbl.buckets, m.hh, N, D)
    PROVE  \E C : ChainsAre(f, m, N, D, C)
<1>1. PICK C : \A b \in 0 .. N - 1 :
         /\ IsList(C[b], m.tbl.buckets[b].count, m.tbl.buckets[b].hh_head,
                   HhNextOf(m.hh), HhPrevOf(m.hh))
         /\ \A e \in Elements : On(C[b], m.tbl.buckets[b].count, e)
                                   <=> e \in D /\ f[m.hh[e].key] % N = b
  BY DEF Chained
<1>2. HhNextOf(m.hh)[NULL] = NULL
  BY PointerLinks
<1>3. \A b \in 0 .. N - 1 : C[b] = Chain(m, b)
  BY <1>1, <1>2, NodesOfList DEF Chain
<1> QED
  BY <1>1, <1>3 DEF ChainsAre

(* Before the loops nothing has been moved. *)
LEMMA StartKeeps ==
    ASSUME NEW f, NEW N \in Nat, NEW I \in Nat, NEW h \in [Elements -> Handle], NEW x,
           x = [buckets |-> [b \in 0 .. N - 1 |-> EmptyBucket], hh |-> h, nonideal |-> 0]
    PROVE  Redistributed(f, N, I, h, {}, x)
<1>1. EmptyBucket \in Bucket /\ EmptyBucket.count = 0 /\ EmptyBucket.expand_mult = 0
      /\ EmptyBucket.hh_head = NULL
  BY DEF EmptyBucket, Bucket, Pointer
<1>2. x \in Accs(N)
  BY <1>1 DEF Accs
<1>3. \A b \in 0 .. N - 1 : Bounded(x.buckets[b], I)
  BY <1>1 DEF Bounded
<1>4. Chained(f, x.buckets, x.hh, N, {})
  <2>1. \A b \in 0 .. N - 1 : x.buckets[b].count = 0 /\ x.buckets[b].hh_head = NULL
    BY <1>1
  <2> QED
    BY <2>1, ChainedEmpty
<1> QED
  BY <1>2, <1>3, <1>4 DEF Redistributed, SameButChains

\* The elements of D whose old bucket comes before n.
Before(f, N, h, D, n) == {e \in D : f[h[e].key] % N < n}

(* Every element goes to its new bucket. *)
LEMMA ExpandKeeps ==
    ASSUME NEW m, NEW N \in Nat \ {0}, m.tbl \in Table(N),
           N = Pow2(m.tbl.log2_num_buckets), m.tbl.num_items > 0,
           m.hh \in [Elements -> Handle], hashv \in [Keys -> Nat],
           NEW D \in SUBSET Elements, \A e \in D : m.hh[e].key \in Keys,
           Chained(hashv, m.tbl.buckets, m.hh, N, D)
    PROVE  \E x : /\ HASH_EXPAND_BUCKETS(m) = [tbl |-> Expanded(m.tbl, x), hh |-> x.hh]
                  /\ Redistributed(hashv, 2 * N, IdealChainMaxlen(m.tbl), m.hh, D, x)
<1>1. PICK t, h, M : t = m.tbl /\ h = m.hh /\ M = 2 * N
  OBVIOUS
<1>2. t.num_buckets = N /\ t.num_items \in Nat /\ t.log2_num_buckets \in Nat
  BY <1>1 DEF Table
<1>3. PICK I : I \in Nat /\ I = IdealChainMaxlen(t) /\ I > 0
  BY <1>1, <1>2, IdealProperties
<1>4. M \in Nat /\ M > 0 /\ M = 2 * t.num_buckets
  BY <1>1, <1>2
<1>5. PICK C : \A b \in 0 .. N - 1 :
              /\ C[b] = Chain(m, b)
              /\ IsList(C[b], t.buckets[b].count, t.buckets[b].hh_head, HhNextOf(h), HhPrevOf(h))
              /\ \A e \in Elements : On(C[b], t.buckets[b].count, e)
                                        <=> e \in D /\ hashv[h[e].key] % N = b
  <2>1. N \in Nat
    OBVIOUS
  <2>2. PICK C : ChainsAre(hashv, m, N, D, C)
    BY <2>1, ChainsFound
  <2> QED
    BY <1>1, <2>2 DEF ChainsAre
<1>6. PICK start : start = [buckets |-> [b \in 0 .. M - 1 |-> EmptyBucket],
                            hh |-> h, nonideal |-> 0]
  OBVIOUS
<1>7. PICK S : S = Accs(M)
  OBVIOUS
<1>8. PICK R : R = [n \in 0 .. N |->
                      {y \in S : Redistributed(hashv, M, I, h, Before(hashv, N, h, D, n), y)}]
  OBVIOUS
<1>9. PICK step : step = [n \in 1 .. N |-> [y \in S |-> MoveChain(t, y, C[n - 1])]]
  OBVIOUS
<1>v. \A e \in D : hashv[h[e].key] % N \in 0 .. N - 1
  <2> TAKE e \in D
  <2>1. PICK v \in Nat : v = hashv[h[e].key]
    BY <1>1
  <2>2. v % N \in 0 .. N - 1
    <3>1. v \in Int /\ N \in Nat \ {0}
      OBVIOUS
    <3> QED
      BY <3>1, DivMod
  <2> QED
    BY <2>1, <2>2
<1>10. start \in R[0]
  <2>1. Before(hashv, N, h, D, 0) = {}
    BY <1>v DEF Before
  <2>2. Redistributed(hashv, M, I, h, {}, start)
    BY <1>1, <1>3, <1>4, <1>6, StartKeeps
  <2>3. start \in S
    BY <1>7, <2>2 DEF Redistributed
  <2>4. 0 \in 0 .. N
    OBVIOUS
  <2> QED
    BY <1>8, <2>1, <2>2, <2>3, <2>4
<1>11. StepsLead(S, R, N, step)
  <2>1. \A n \in 0 .. N : R[n] \subseteq S
    BY <1>8
  <2>2. ASSUME NEW n \in 1 .. N, NEW y \in R[n - 1] PROVE step[n][y] \in R[n]
    <3>1. n - 1 \in 0 .. N /\ n \in 0 .. N /\ n - 1 \in 0 .. N - 1
      OBVIOUS
    <3>2. PICK b, A : b = n - 1 /\ A = Before(hashv, N, h, D, n - 1)
      OBVIOUS
    <3>3. y \in S /\ Redistributed(hashv, M, I, h, A, y)
      BY <1>8, <3>1, <3>2
    <3>4. b \in 0 .. N - 1
      BY <3>1, <3>2
    <3>5. PICK k, c : /\ k \in Nat /\ c \in [1 .. k -> Elements]
                      /\ k = t.buckets[b].count /\ c = C[b]
      BY <1>5, <3>4 DEF IsList
    <3>6. \A e \in Elements : On(c, k, e) <=> e \in D /\ hashv[h[e].key] % N = b
      BY <1>5, <3>4, <3>5
    <3>7. \A i, j \in 1 .. k : c[i] = c[j] => i = j
      <4>1. IsList(c, k, t.buckets[b].hh_head, HhNextOf(h), HhPrevOf(h))
        BY <1>5, <3>4, <3>5
      <4> QED
        BY <4>1 DEF IsList
    <3>8. \A i \in 1 .. k : c[i] \in D /\ hashv[h[c[i]].key] % N = b
      <4> TAKE i \in 1 .. k
      <4>1. On(c, k, c[i]) /\ c[i] \in Elements
        BY <3>5 DEF On
      <4> QED
        BY <3>6, <4>1
    <3>9. \A i \in 1 .. k : c[i] \notin A /\ h[c[i]].key \in Keys
      <4> TAKE i \in 1 .. k
      <4>1. c[i] \in D /\ hashv[h[c[i]].key] % N = b
        BY <3>8
      <4>2. c[i] \notin A
        BY <3>2, <4>1 DEF Before
      <4> QED
        BY <1>1, <4>1, <4>2
    <3>10. A \in SUBSET Elements
      BY <3>2 DEF Before
    <3>11. Redistributed(hashv, M, I, h, A \cup Visited(c, k), MoveChain(t, y, c))
      BY <1>3, <1>4, <3>3, <3>5, <3>7, <3>9, <3>10, MoveChainKeeps
    <3>12. A \cup Visited(c, k) = Before(hashv, N, h, D, n)
      <4>1. ASSUME NEW e \in A \cup Visited(c, k) PROVE e \in Before(hashv, N, h, D, n)
        BY <1>v, <3>2, <3>8 DEF Before, Visited
      <4>2. ASSUME NEW e \in Before(hashv, N, h, D, n) PROVE e \in A \cup Visited(c, k)
        <5>1. e \in D /\ hashv[h[e].key] % N < n /\ hashv[h[e].key] % N \in 0 .. N - 1
          BY <1>v DEF Before
        <5>2. CASE hashv[h[e].key] % N = b
          <6>1. On(c, k, e)
            BY <3>6, <5>1, <5>2
          <6> QED
            BY <6>1 DEF On, Visited
        <5>3. CASE hashv[h[e].key] % N # b
          <6>1. hashv[h[e].key] % N < n - 1
            BY <3>2, <5>1, <5>3
          <6> QED
            BY <3>2, <5>1, <6>1 DEF Before
        <5> QED
          BY <5>2, <5>3
      <4> QED
        BY <4>1, <4>2
    <3>13. MoveChain(t, y, c) \in S
      BY <1>7, <3>11 DEF Redistributed
    <3> QED
      BY <1>8, <1>9, <3>1, <3>2, <3>3, <3>5, <3>11, <3>12, <3>13
  <2> QED
    BY <2>1, <2>2 DEF StepsLead
<1>12. PICK w : IsIteration(w, S, R, start, N, step)
  BY <1>10, <1>11, IterationExists
<1> DEFINE B(g) == [n \in 0 .. N |-> IF n = 0 THEN start ELSE MoveChain(t, g[n - 1], C[n - 1])]
           G(g) == [n \in 0 .. N |->
                      IF n = 0 THEN start ELSE MoveChain(t, g[n - 1], Chain(m, n - 1))]
           done == CHOOSE g : g = G(g)
<1>13. w = B(w)
  <2>1. w \in [0 .. N -> S] /\ w[0] = start
    BY <1>12 DEF IsIteration
  <2>2. \A n \in 1 .. N : w[n] = MoveChain(t, w[n - 1], C[n - 1])
    <3> TAKE n \in 1 .. N
    <3>1. n - 1 \in 0 .. N
      OBVIOUS
    <3>2. w[n - 1] \in S /\ w[n] = step[n][w[n - 1]]
      BY <1>12, <3>1 DEF IsIteration
    <3> QED
      BY <1>9, <3>2
  <2> QED
    BY <2>1, <2>2
<1>14. \A g : G(g) = B(g)
  <2> TAKE g
  <2>1. \A n \in 0 .. N : n # 0 => Chain(m, n - 1) = C[n - 1]
    BY <1>5
  <2> QED
    BY <2>1
<1> HIDE DEF B
<1>15. G(w) = w
  BY <1>13, <1>14
<1> HIDE DEF G
<1>16. done = G(done)
  BY <1>15
<1>17. HASH_EXPAND_BUCKETS(m) = [tbl |-> Expanded(t, done[N]), hh |-> done[N].hh]
  BY <1>1, <1>2, <1>6 DEF HASH_EXPAND_BUCKETS, G
<1> HIDE DEF done
<1>18. done[N] = w[N]
  <2> DEFINE T == {i \in Nat : i <= N => done[i] = w[i]}
  <2>0. done = B(done)
    BY <1>14, <1>16
  <2>1. 0 \in T
    BY <1>13, <2>0 DEF B
  <2>2. ASSUME NEW i \in Nat, i \in T PROVE i + 1 \in T
    <3> SUFFICES ASSUME i + 1 <= N PROVE done[i + 1] = w[i + 1]
      OBVIOUS
    <3>1. i + 1 \in 0 .. N /\ i + 1 # 0 /\ (i + 1) - 1 = i /\ done[i] = w[i]
      BY <2>2
    <3>2. B(done)[i + 1] = MoveChain(t, done[i], C[i]) /\ B(w)[i + 1] = MoveChain(t, w[i], C[i])
      BY <3>1 DEF B
    <3> QED
      BY <1>13, <2>0, <3>1, <3>2
  <2> HIDE DEF T
  <2>3. N \in T
    BY <2>1, <2>2, NatSetInduction
  <2> QED
    BY <2>3 DEF T
<1>19. w[N] \in R[N] /\ N \in 0 .. N
  BY <1>12 DEF IsIteration
<1>20. Before(hashv, N, h, D, N) = D
  BY <1>v DEF Before
<1>21. Redistributed(hashv, M, I, h, D, w[N])
  BY <1>8, <1>19, <1>20
<1> QED
  BY <1>1, <1>3, <1>17, <1>18, <1>21

-----------------------------------------------------------------------------
(* The table as a whole.                                                   *)

Distinct(h, L) ==
    /\ \A e \in L : h[e].key \in Keys
    /\ \A e, a \in L : h[e].key = h[a].key => e = a

\* The n elements of L are listed as s, beginning with hd, those of D are in N buckets.
Shape(f, hd, t, h, D, L, N, n, s) ==
    /\ N \in Nat \ {0} /\ t \in Table(N) /\ N = Pow2(t.log2_num_buckets)
    /\ h \in [Elements -> Handle] /\ D \in SUBSET Elements /\ L \in SUBSET Elements
    /\ Chained(f, t.buckets, h, N, D)
    /\ IsList(s, n, hd, NextOf(h), PrevOf(h))
    /\ \A e \in Elements : On(s, n, e) <=> e \in L
    /\ n > 0 /\ t.num_items = n /\ t.tail = s[n]
    /\ Distinct(h, L)

InBounds(t, N) ==
    ~t.noexpand =>
        \A b \in 0 .. N - 1 : \/ Bounded(t.buckets[b], Threshold)
                              \/ Bounded(t.buckets[b], t.ideal_chain_maxlen)

LEMMA NewTableType ==
    ASSUME NEW N, NEW bk \in [0 .. N - 1 -> Bucket], NEW e \in Pointer, NEW l \in Nat
    PROVE  [buckets |-> bk, num_buckets |-> N, log2_num_buckets |-> l,
            num_items |-> 1, tail |-> e, ideal_chain_maxlen |-> 0, nonideal_items |-> 0,
            ineff_expands |-> 0, noexpand |-> FALSE] \in Table(N)
BY DEF Table

(* The table is made for its first element. *)
LEMMA FirstListed ==
    ASSUME NEW f, NEW h \in [Elements -> Handle], NEW e \in Elements,
           h[e].key \in Keys, h[e].prev = NULL, h[e].next = NULL,
           NEW t, t = [HASH_MAKE_TABLE(e) EXCEPT !.num_items = @ + 1]
    PROVE  /\ Shape(f, e, t, h, {}, {e}, Pow2(InitialLog2), 1, [i \in 1 .. 1 |-> e])
           /\ InBounds(t, Pow2(InitialLog2))
<1>1. PICK N \in Nat \ {0} : N = Pow2(InitialLog2)
  BY PowProperties, UtHashAssumptions
<1>2. /\ EmptyBucket \in Bucket /\ EmptyBucket.count = 0 /\ EmptyBucket.expand_mult = 0
      /\ EmptyBucket.hh_head = NULL
  BY DEF EmptyBucket, Bucket, Pointer
<1>b. PICK bk : bk = [b \in 0 .. N - 1 |-> EmptyBucket]
  OBVIOUS
<1>3. t = [buckets |-> bk, num_buckets |-> N, log2_num_buckets |-> InitialLog2,
           num_items |-> 1, tail |-> e, ideal_chain_maxlen |-> 0, nonideal_items |-> 0,
           ineff_expands |-> 0, noexpand |-> FALSE]
  <2>1. PICK g : g = HASH_MAKE_TABLE(e)
    OBVIOUS
  <2>2. g = [buckets |-> bk, num_buckets |-> N, log2_num_buckets |-> InitialLog2,
             num_items |-> 0, tail |-> e, ideal_chain_maxlen |-> 0, nonideal_items |-> 0,
             ineff_expands |-> 0, noexpand |-> FALSE]
    BY <1>1, <1>b, <2>1, Zenon DEF HASH_MAKE_TABLE
  <2>3. t = [g EXCEPT !.num_items = 0 + 1]
    BY <2>1, <2>2
  <2>4. t = [g EXCEPT !.num_items = 1]
    <3>1. 0 + 1 = 1
      OBVIOUS
    <3> QED
      BY <2>3, <3>1, Zenon
  <2> QED
    BY <2>2, <2>4
<1>4. t \in Table(N)
  <2>1. bk \in [0 .. N - 1 -> Bucket]
    BY <1>2, <1>b
  <2>2. e \in Pointer /\ InitialLog2 \in Nat /\ 0 \in Nat /\ 1 \in Nat /\ FALSE \in BOOLEAN
    BY UtHashAssumptions DEF Pointer
  <2>3. PICK l : l = InitialLog2
    OBVIOUS
  <2>4. l \in Nat
    BY <2>2, <2>3
  <2>5. [buckets |-> bk, num_buckets |-> N, log2_num_buckets |-> l,
         num_items |-> 1, tail |-> e, ideal_chain_maxlen |-> 0, nonideal_items |-> 0,
         ineff_expands |-> 0, noexpand |-> FALSE] \in Table(N)
    BY <2>1, <2>2, <2>4, NewTableType, Zenon
  <2> QED
    BY <1>3, <2>3, <2>5, Zenon
<1>5. Chained(f, t.buckets, h, N, {})
  <2>1. \A b \in 0 .. N - 1 : t.buckets[b] = EmptyBucket
    BY <1>3, <1>b
  <2> QED
    BY <2>1, ChainedEmpty, N \in Nat
<1>6. PICK s : s = [i \in 1 .. 1 |-> e]
  OBVIOUS
<1>7. IsList(s, 1, e, NextOf(h), PrevOf(h))
  BY <1>6, PointerLinks DEF IsList
<1>8. \A a \in Elements : On(s, 1, a) <=> a \in {e}
  BY <1>6 DEF On
<1>9. Distinct(h, {e})
  BY DEF Distinct
<1>10. InBounds(t, N)
  <2>1. \A b \in 0 .. N - 1 : Bounded(EmptyBucket, Threshold)
    BY <1>2, UtHashAssumptions DEF Bounded
  <2> QED
    BY <1>3, <1>b, <2>1 DEF InBounds
<1>11. t.log2_num_buckets = InitialLog2 /\ t.num_items = 1 /\ t.tail = s[1]
  BY <1>3, <1>6
<1> QED
  BY <1>1, <1>4, <1>5, <1>6, <1>7, <1>8, <1>9, <1>10, <1>11 DEF Shape

\* What HASH_APPEND_LIST does to the handles, that of e being new.
LinkedLast(h, h2, e, last) ==
    /\ h2 \in [Elements -> Handle]
    /\ h2[e].next = NULL /\ h2[e].prev = last
    /\ \A x \in Elements \ {e} :
          /\ h2[x].next = IF x = last THEN e ELSE h[x].next
          /\ h2[x].key = h[x].key /\ h2[x].prev = h[x].prev
          /\ h2[x].hh_next = h[x].hh_next /\ h2[x].hh_prev = h[x].hh_prev

(* A further element is listed behind the last one. *)
LEMMA NextListed ==
    ASSUME NEW f, NEW hd, NEW t, NEW h, NEW A, NEW N, NEW n, NEW s,
           Shape(f, hd, t, h, A, A, N, n, s),
           NEW e \in Elements \ A, NEW h2, LinkedLast(h, h2, e, t.tail),
           h2[e].key \in Keys, \A a \in A : h[a].key # h2[e].key,
           NEW t2, t2 = [t EXCEPT !.tail = e, !.num_items = @ + 1]
    PROVE  Shape(f, hd, t2, h2, A, A \cup {e}, N, n + 1, Appended(s, n, e))
<1>1. /\ N \in Nat \ {0} /\ t \in Table(N) /\ N = Pow2(t.log2_num_buckets)
      /\ h \in [Elements -> Handle] /\ A \in SUBSET Elements
      /\ Chained(f, t.buckets, h, N, A)
      /\ IsList(s, n, hd, NextOf(h), PrevOf(h))
      /\ \A a \in Elements : On(s, n, a) <=> a \in A
      /\ n > 0 /\ t.num_items = n /\ t.tail = s[n]
      /\ Distinct(h, A)
  BY DEF Shape
<1>2. n \in Nat /\ n # 0 /\ n \in 1 .. n /\ s \in [1 .. n -> Elements]
      /\ \A i, j \in 1 .. n : s[i] = s[j] => i = j
  BY <1>1 DEF IsList
<1>o. \A i \in 1 .. n : s[i] \in Elements /\ s[i] \in A /\ s[i] # e
  <2> TAKE i \in 1 .. n
  <2>1. On(s, n, s[i]) /\ s[i] \in Elements
    BY <1>2 DEF On
  <2> QED
    BY <1>1, <2>1
<1>3. /\ h2 \in [Elements -> Handle] /\ h2[e].next = NULL /\ h2[e].prev = s[n]
      /\ \A x \in Elements \ {e} :
          /\ h2[x].next = IF x = s[n] THEN e ELSE h[x].next
          /\ h2[x].key = h[x].key /\ h2[x].prev = h[x].prev
          /\ h2[x].hh_next = h[x].hh_next /\ h2[x].hh_prev = h[x].hh_prev
  BY <1>1 DEF LinkedLast
<1>4. t2 \in Table(N) /\ t2.log2_num_buckets = t.log2_num_buckets /\ t2.buckets = t.buckets
      /\ t2.num_items = n + 1 /\ t2.tail = e
  <2>1. e \in Pointer /\ n + 1 \in Nat
    BY <1>2 DEF Pointer
  <2> QED
    BY <1>1, <2>1 DEF Table
<1>5. Chained(f, t2.buckets, h2, N, A)
  <2>1. \A a \in A : /\ h2[a].key = h[a].key /\ h2[a].hh_next = h[a].hh_next
                     /\ h2[a].hh_prev = h[a].hh_prev
    BY <1>1, <1>3
  <2>2. Chained(f, t.buckets, h2, N, A)
    BY <1>1, <1>3, <2>1, ChainedSame
  <2> QED
    BY <1>4, <2>2
<1>6. AppendLinks(s, n, e, NextOf(h), PrevOf(h), NextOf(h2), PrevOf(h2))
  <2>1. NextOf(h2)[e] = NULL /\ PrevOf(h2)[e] = s[n]
    BY <1>3, PointerLinks
  <2>2. NextOf(h2)[s[n]] = e
    BY <1>2, <1>3, <1>o, PointerLinks
  <2>3. ASSUME NEW i \in 1 .. n
        PROVE  /\ i < n => NextOf(h2)[s[i]] = NextOf(h)[s[i]]
               /\ PrevOf(h2)[s[i]] = PrevOf(h)[s[i]]
    <3>1. i < n => s[i] # s[n]
      BY <1>2
    <3> QED
      BY <1>1, <1>3, <1>o, <3>1, PointerLinks
  <2> QED
    BY <1>2, <2>1, <2>2, <2>3 DEF AppendLinks
<1>7. ~On(s, n, e)
  BY <1>1
<1>8. /\ IsList(Appended(s, n, e), n + 1, IF n = 0 THEN e ELSE hd, NextOf(h2), PrevOf(h2))
      /\ \A x : On(Appended(s, n, e), n + 1, x) <=> On(s, n, x) \/ x = e
  BY <1>1, <1>6, <1>7, ListAppend, e \in Elements
<1>9. IsList(Appended(s, n, e), n + 1, hd, NextOf(h2), PrevOf(h2))
  BY <1>2, <1>8
<1>10. \A a \in Elements : On(Appended(s, n, e), n + 1, a) <=> a \in A \cup {e}
  BY <1>1, <1>8
<1>11. Appended(s, n, e)[n + 1] = e /\ n + 1 > 0
  BY <1>2 DEF Appended
<1>12. Distinct(h2, A \cup {e})
  <2>1. \A a \in A : h2[a].key = h[a].key /\ h2[a].key \in Keys /\ h2[a].key # h2[e].key
    BY <1>1, <1>3 DEF Distinct
  <2> QED
    BY <1>1, <2>1 DEF Distinct
<1> QED
  BY <1>1, <1>3, <1>4, <1>5, <1>9, <1>10, <1>11, <1>12 DEF Shape

(* The list of insertion and the keys do not depend on the links of the chains. *)
LEMMA ListedSame ==
    ASSUME NEW hd, NEW h \in [Elements -> Handle], NEW L \in SUBSET Elements, NEW n, NEW s,
           IsList(s, n, hd, NextOf(h), PrevOf(h)), Distinct(h, L),
           NEW h2 \in [Elements -> Handle], SameButChains(h, h2)
    PROVE  IsList(s, n, hd, NextOf(h2), PrevOf(h2)) /\ Distinct(h2, L)
<1>1. \A i \in 1 .. n : s[i] \in Elements
  BY DEF IsList
<1>2. \A i \in 1 .. n : /\ NextOf(h2)[s[i]] = NextOf(h)[s[i]]
                        /\ PrevOf(h2)[s[i]] = PrevOf(h)[s[i]]
  BY <1>1, PointerLinks DEF SameButChains
<1>3. IsList(s, n, hd, NextOf(h2), PrevOf(h2))
  BY <1>2, ListSame
<1>4. Distinct(h2, L)
  BY DEF Distinct, SameButChains
<1> QED
  BY <1>3, <1>4

\* The bucket after one more element.
OneMore(old, e) == [hh_head |-> e, count |-> old.count + 1, expand_mult |-> old.expand_mult]

\* e has joined bucket b of the table t with the heap h, which leaves m2.
Joined(f, hd, m2, t, h, D, L, N, n, s, b, e) ==
    \E t2, h2 : /\ m2 = [tbl |-> t2, hh |-> h2]
                /\ Shape(f, hd, t2, h2, D \cup {e}, L, N, n, s)
                /\ SameButChains(h, h2) /\ b \in 0 .. N - 1
                /\ t2 = [t EXCEPT !.buckets[b] = OneMore(t.buckets[b], e)]

(* An element that has been listed joins its bucket. *)
LEMMA BucketJoined ==
    ASSUME NEW hd, NEW t, NEW h, NEW D, NEW L, NEW N, NEW n, NEW s,
           Shape(hashv, hd, t, h, D, L, N, n, s), hashv \in [Keys -> Nat],
           NEW e \in L \ D, NEW b, b = hashv[h[e].key] % N,
           NEW m, m = [tbl |-> t, hh |-> h]
    PROVE  Joined(hashv, hd, InBucket(m, b, e), t, h, D, L, N, n, s, b, e)
<1>1. /\ N \in Nat \ {0} /\ t \in Table(N) /\ N = Pow2(t.log2_num_buckets)
      /\ h \in [Elements -> Handle] /\ D \in SUBSET Elements /\ L \in SUBSET Elements
      /\ Chained(hashv, t.buckets, h, N, D)
      /\ IsList(s, n, hd, NextOf(h), PrevOf(h))
      /\ \A a \in Elements : On(s, n, a) <=> a \in L
      /\ n > 0 /\ t.num_items = n /\ t.tail = s[n]
      /\ Distinct(h, L)
  BY DEF Shape
<1>2. b \in 0 .. N - 1
  <2>1. PICK v \in Nat : v = hashv[h[e].key]
    BY <1>1 DEF Distinct
  <2>2. v % N \in 0 .. N - 1
    <3>1. v \in Int /\ N \in Nat \ {0}
      BY <1>1
    <3> QED
      BY <3>1, DivMod
  <2> QED
    BY <2>1, <2>2
<1>3. t.buckets \in [0 .. N - 1 -> Bucket]
  BY <1>1 DEF Table
<1>4. PICK old \in Bucket : old = t.buckets[b]
  BY <1>2, <1>3
<1>5. PICK new \in Bucket : /\ new = OneMore(old, e) /\ new.hh_head = e
                            /\ new.count = old.count + 1
  <2>1. e \in Pointer /\ old.count + 1 \in Nat /\ old.expand_mult \in Nat
    BY <1>1 DEF Pointer, Bucket
  <2>2. OneMore(old, e) \in Bucket
    BY <2>1 DEF OneMore, Bucket
  <2>3. OneMore(old, e).hh_head = e /\ OneMore(old, e).count = old.count + 1
    BY DEF OneMore
  <2> QED
    BY <2>2, <2>3
<1>6. PICK bk : bk = [t.buckets EXCEPT ![b] = new]
  OBVIOUS
<1>7. bk \in [0 .. N - 1 -> Bucket] /\ bk[b] = new
      /\ \A x \in 0 .. N - 1 : x # b => bk[x] = t.buckets[x]
  BY <1>2, <1>3, <1>6
<1>8. PICK t2 : t2 = [t EXCEPT !.buckets = bk]
  OBVIOUS
<1>9. PICK h2 : h2 = LinkFirst(h, e, old.hh_head)
  OBVIOUS
<1>10. /\ t2 \in Table(N) /\ t2.buckets = bk /\ t2.log2_num_buckets = t.log2_num_buckets
       /\ t2.num_items = n /\ t2.tail = s[n]
  BY <1>1, <1>7, <1>8 DEF Table
<1>11. InBucket(m, b, e) = [tbl |-> t2, hh |-> h2]
  <2>1. m.tbl = t /\ m.hh = h
    OBVIOUS
  <2>2. [t EXCEPT !.buckets[b].count = @ + 1, !.buckets[b].hh_head = e] = t2
    <3>1. PICK mid : mid = [old EXCEPT !.count = old.count + 1]
      OBVIOUS
    <3>2. new = [mid EXCEPT !.hh_head = e]
      <4>1. PICK c, c2, x, p : c = old.count /\ x = old.expand_mult /\ p = old.hh_head
                               /\ c2 = old.count + 1
        OBVIOUS
      <4>2. old = [hh_head |-> p, count |-> c, expand_mult |-> x]
        BY <4>1 DEF Bucket
      <4>3. new = [hh_head |-> e, count |-> c2, expand_mult |-> x]
        BY <1>5, <4>1 DEF OneMore
      <4>4. mid = [hh_head |-> p, count |-> c2, expand_mult |-> x]
        BY <3>1, <4>1, <4>2
      <4> QED
        BY <4>3, <4>4
    <3>3. PICK bk0 : bk0 = [t.buckets EXCEPT ![b] = mid]
      OBVIOUS
    <3>4. PICK t1 : t1 = [t EXCEPT !.buckets = bk0]
      OBVIOUS
    <3>5. [t EXCEPT !.buckets[b].count = @ + 1] = t1
      BY <1>4, <3>1, <3>3, <3>4
    <3>6. t1.buckets = bk0 /\ bk0[b] = mid
      BY <1>1, <1>2, <1>3, <3>3, <3>4 DEF Table
    <3>7. [t1 EXCEPT !.buckets[b].hh_head = e] = [t1 EXCEPT !.buckets = [bk0 EXCEPT ![b] = new]]
      BY <3>2, <3>6
    <3>8. [bk0 EXCEPT ![b] = new] = bk
      BY <1>3, <1>6, <3>3
    <3>9. [t1 EXCEPT !.buckets = bk] = t2
      BY <1>1, <1>8, <3>4 DEF Table
    <3> QED
      BY <3>5, <3>7, <3>8, <3>9
  <2> QED
    BY <1>4, <1>9, <2>1, <2>2 DEF InBucket
<1>12. t2 = [t EXCEPT !.buckets[b] = OneMore(t.buckets[b], e)]
  BY <1>4, <1>5, <1>6, <1>8
<1>13. e \in Elements /\ old.hh_head \in Pointer
  BY <1>1 DEF Bucket
<1>14. h2 \in [Elements -> Handle] /\ SameButChains(h, h2)
  BY <1>1, <1>9, <1>13, LinkFirstProperties
<1>15. Chained(hashv, bk, h2, N, D \cup {e})
  <2>1. PICK bk0 : bk0 = t.buckets
    OBVIOUS
  <2>2. Pushed(hashv, N, bk0, h, b, e, bk, h2)
    BY <1>4, <1>5, <1>7, <1>9, <2>1 DEF Pushed
  <2>3. Chained(hashv, bk0, h, N, D)
    BY <1>1, <2>1
  <2>4. e \in Elements \ D /\ N \in Nat
    BY <1>1
  <2> QED
    BY <1>1, <1>2, <2>2, <2>3, <2>4, ChainedPush
<1>16. IsList(s, n, hd, NextOf(h2), PrevOf(h2)) /\ Distinct(h2, L)
  BY <1>1, <1>14, ListedSame
<1>17. D \cup {e} \in SUBSET Elements
  BY <1>1, <1>13
<1>18. Shape(hashv, hd, t2, h2, D \cup {e}, L, N, n, s)
  BY <1>1, <1>10, <1>14, <1>15, <1>16, <1>17 DEF Shape
<1> QED
  BY <1>2, <1>11, <1>12, <1>14, <1>18 DEF Joined

(* An expansion keeps the table. *)
LEMMA ExpandedShape ==
    ASSUME NEW hd, NEW t, NEW h, NEW D, NEW N, NEW n, NEW s,
           Shape(hashv, hd, t, h, D, D, N, n, s), hashv \in [Keys -> Nat],
           NEW m, m = [tbl |-> t, hh |-> h]
    PROVE  \E t2, h2, M : /\ HASH_EXPAND_BUCKETS(m) = [tbl |-> t2, hh |-> h2]
                          /\ Shape(hashv, hd, t2, h2, D, D, M, n, s)
                          /\ InBounds(t2, M) /\ SameButChains(h, h2)
<1>1. /\ N \in Nat \ {0} /\ t \in Table(N) /\ N = Pow2(t.log2_num_buckets)
      /\ h \in [Elements -> Handle] /\ D \in SUBSET Elements
      /\ Chained(hashv, t.buckets, h, N, D)
      /\ IsList(s, n, hd, NextOf(h), PrevOf(h))
      /\ \A a \in Elements : On(s, n, a) <=> a \in D
      /\ n > 0 /\ t.num_items = n /\ t.tail = s[n]
      /\ Distinct(h, D)
  BY DEF Shape
<1>2. m.tbl = t /\ m.hh = h
  OBVIOUS
<1>3. PICK x : /\ HASH_EXPAND_BUCKETS(m) = [tbl |-> Expanded(m.tbl, x), hh |-> x.hh]
               /\ Redistributed(hashv, 2 * N, IdealChainMaxlen(m.tbl), m.hh, D, x)
  <2>1. /\ m.tbl \in Table(N) /\ N = Pow2(m.tbl.log2_num_buckets) /\ m.tbl.num_items > 0
        /\ m.hh \in [Elements -> Handle] /\ Chained(hashv, m.tbl.buckets, m.hh, N, D)
    BY <1>1, <1>2
  <2>2. \A e \in D : m.hh[e].key \in Keys
    BY <1>1, <1>2 DEF Distinct
  <2> QED
    BY <1>1, <2>1, <2>2, ExpandKeeps
<1>4. PICK I : I \in Nat /\ I = IdealChainMaxlen(t)
  BY <1>1, IdealProperties DEF Table
<1>5. PICK M \in Nat \ {0} : M = 2 * N
  BY <1>1
<1>6. PICK t2, h2 : t2 = Expanded(t, x) /\ h2 = x.hh
  OBVIOUS
<1>7. /\ HASH_EXPAND_BUCKETS(m) = [tbl |-> t2, hh |-> h2]
      /\ Redistributed(hashv, M, I, h, D, x)
  BY <1>2, <1>3, <1>4, <1>5, <1>6
<1>8. /\ x.buckets \in [0 .. M - 1 -> Bucket] /\ h2 \in [Elements -> Handle]
      /\ x.nonideal \in Nat /\ SameButChains(h, h2)
      /\ Chained(hashv, x.buckets, h2, M, D)
      /\ \A b \in 0 .. M - 1 : Bounded(x.buckets[b], I)
  BY <1>6, <1>7 DEF Redistributed, Accs
<1>9. M = Pow2(t.log2_num_buckets + 1) /\ t.log2_num_buckets + 1 \in Nat
  <2>1. t.log2_num_buckets \in Nat
    BY <1>1 DEF Table
  <2> QED
    BY <1>1, <1>5, <2>1, PowProperties
<1>10. PICK ineff \in Nat :
         ineff = IF x.nonideal > t.num_items \div 2 THEN t.ineff_expands + 1 ELSE 0
  BY <1>1 DEF Table
<1>11. PICK no \in BOOLEAN : no = (t.noexpand \/ ineff > 1)
  OBVIOUS
<1>12. PICK bk, nn : bk = x.buckets /\ nn = x.nonideal
  OBVIOUS
<1>13. t2 = [t EXCEPT !.buckets = bk, !.num_buckets = M, !.log2_num_buckets = @ + 1,
                      !.ideal_chain_maxlen = I, !.nonideal_items = nn,
                      !.ineff_expands = ineff, !.noexpand = no]
  <2>1. t.num_buckets = N
    BY <1>1 DEF Table
  <2> QED
    BY <1>1, <1>4, <1>5, <1>6, <1>10, <1>11, <1>12, <2>1 DEF Expanded, Table
<1>14. /\ t2 \in Table(M) /\ t2.buckets = bk /\ t2.log2_num_buckets = t.log2_num_buckets + 1
       /\ t2.num_items = n /\ t2.tail = s[n] /\ t2.ideal_chain_maxlen = I
  <2>1. bk \in [0 .. M - 1 -> Bucket] /\ nn \in Nat
    BY <1>8, <1>12
  <2> QED
    BY <1>1, <1>4, <1>9, <1>13, <2>1 DEF Table
<1>15. IsList(s, n, hd, NextOf(h2), PrevOf(h2)) /\ Distinct(h2, D)
  BY <1>1, <1>8, ListedSame
<1>16. Chained(hashv, t2.buckets, h2, M, D)
  BY <1>8, <1>12, <1>14
<1>17. M = Pow2(t2.log2_num_buckets)
  BY <1>9, <1>14
<1>18. Shape(hashv, hd, t2, h2, D, D, M, n, s)
  BY <1>1, <1>8, <1>14, <1>15, <1>16, <1>17 DEF Shape
<1>19. InBounds(t2, M)
  BY <1>8, <1>12, <1>14 DEF InBounds
<1> QED
  BY <1>7, <1>8, <1>18, <1>19

(* HASH_ADD_TO_BKT, with the expansion that it may cause. *)
LEMMA AddToBucket ==
    ASSUME NEW hd, NEW t, NEW h, NEW D, NEW L, NEW N, NEW n, NEW s,
           Shape(hashv, hd, t, h, D, L, N, n, s), InBounds(t, N), hashv \in [Keys -> Nat],
           NEW e \in L \ D, L = D \cup {e}, NEW b, b = hashv[h[e].key] % N,
           NEW m, m = [tbl |-> t, hh |-> h]
    PROVE  \E t2, h2, M : /\ HASH_ADD_TO_BKT(m, b, e) = [tbl |-> t2, hh |-> h2]
                          /\ Shape(hashv, hd, t2, h2, L, L, M, n, s)
                          /\ InBounds(t2, M) /\ SameButChains(h, h2)
<1>1. PICK t1, h1 : /\ InBucket(m, b, e) = [tbl |-> t1, hh |-> h1]
                    /\ Shape(hashv, hd, t1, h1, D \cup {e}, L, N, n, s)
                    /\ SameButChains(h, h1) /\ b \in 0 .. N - 1
                    /\ t1 = [t EXCEPT !.buckets[b] = OneMore(t.buckets[b], e)]
  <2>1. Joined(hashv, hd, InBucket(m, b, e), t, h, D, L, N, n, s, b, e)
    BY BucketJoined
  <2> QED
    BY <2>1 DEF Joined
<1>2. PICK m1 : m1 = [tbl |-> t1, hh |-> h1]
  OBVIOUS
<1>3. m1.tbl = t1 /\ InBucket(m, b, e) = m1
  BY <1>1, <1>2
<1>4. Shape(hashv, hd, t1, h1, L, L, N, n, s)
  BY <1>1
<1>5. CASE MustExpand(t1, b)
  <2>1. HASH_ADD_TO_BKT(m, b, e) = HASH_EXPAND_BUCKETS(m1)
    BY <1>3, <1>5 DEF HASH_ADD_TO_BKT
  <2>2. PICK t2, h2, M : /\ HASH_EXPAND_BUCKETS(m1) = [tbl |-> t2, hh |-> h2]
                         /\ Shape(hashv, hd, t2, h2, L, L, M, n, s)
                         /\ InBounds(t2, M) /\ SameButChains(h1, h2)
    BY <1>2, <1>4, ExpandedShape
  <2>3. SameButChains(h, h2)
    BY <1>1, <2>2 DEF SameButChains
  <2> QED
    BY <2>1, <2>2, <2>3
<1>6. CASE ~MustExpand(t1, b)
  <2>1. HASH_ADD_TO_BKT(m, b, e) = m1
    BY <1>3, <1>6 DEF HASH_ADD_TO_BKT
  <2>2. t \in Table(N) /\ t1 \in Table(N)
    BY <1>1 DEF Shape
  <2>3. /\ t1.buckets[b] \in Bucket
        /\ t1.noexpand = t.noexpand /\ t1.ideal_chain_maxlen = t.ideal_chain_maxlen
        /\ \A x \in 0 .. N - 1 : x # b => t1.buckets[x] = t.buckets[x]
    BY <1>1, <2>2 DEF Table
  <2>4. ~t1.noexpand => Bounded(t1.buckets[b], Threshold)
    <3>1. t1.buckets[b].count \in Nat /\ t1.buckets[b].expand_mult \in Nat /\ Threshold \in Nat
      BY <2>3, UtHashAssumptions DEF Bucket
    <3>2. ~t1.noexpand =>
             ~(t1.buckets[b].count >= (t1.buckets[b].expand_mult + 1) * Threshold)
      BY <1>6, Zenon DEF MustExpand
    <3> QED
      BY <3>1, <3>2, NotReached
  <2>5. InBounds(t1, N)
    BY <2>3, <2>4 DEF InBounds
  <2> QED
    BY <1>1, <1>2, <1>4, <2>1, <2>5
<1> QED
  BY <1>5, <1>6

\* The handle that a new element gets.
Keyed(h, k, e) == [h EXCEPT ![e] = [Blank EXCEPT !.key = k]]

LEMMA KeyedProperties ==
    ASSUME NEW h \in [Elements -> Handle], NEW k \in Keys, NEW e \in Elements
    PROVE  /\ Keyed(h, k, e) \in [Elements -> Handle]
           /\ Keyed(h, k, e)[e].key = k /\ Keyed(h, k, e)[e].prev = NULL
           /\ Keyed(h, k, e)[e].next = NULL
           /\ \A x \in Elements \ {e} : Keyed(h, k, e)[x] = h[x]
<1>1. PICK new : new = [Blank EXCEPT !.key = k]
  OBVIOUS
<1>2. new = [key |-> k, prev |-> NULL, next |-> NULL, hh_prev |-> NULL, hh_next |-> NULL]
  BY <1>1 DEF Blank
<1>3. new \in Handle /\ new.key = k /\ new.prev = NULL /\ new.next = NULL
  BY <1>2 DEF Handle, Pointer
<1>4. Keyed(h, k, e) = [h EXCEPT ![e] = new]
  BY <1>1 DEF Keyed
<1> QED
  BY <1>3, <1>4

\* HASH_ADD of e with key k to the table t with first element hd and heap h leaves m2.
Adds(f, hd, m2, h, A, k, e, n, s) ==
    \E t2, h2, M : /\ m2 = [tbl |-> t2, hh |-> h2]
                   /\ Shape(f, hd, t2, h2, A \cup {e}, A \cup {e}, M, n, s)
                   /\ InBounds(t2, M)
                   /\ \A x \in Elements : h2[x].key = IF x = e THEN k ELSE h[x].key

(* The first element makes the table. *)
LEMMA AddFirst ==
    ASSUME hashv \in [Keys -> Nat], hh \in [Elements -> Handle], head = NULL,
           NEW k \in Keys, NEW e \in Elements
    PROVE  Adds(hashv, e, HASH_ADD(k, e), hh, {}, k, e, 1, [i \in 1 .. 1 |-> e])
<1>1. PICK h : h = Keyed(hh, k, e)
  OBVIOUS
<1>2. /\ h \in [Elements -> Handle] /\ h[e].key = k /\ h[e].prev = NULL /\ h[e].next = NULL
      /\ \A x \in Elements \ {e} : h[x] = hh[x]
  BY <1>1, KeyedProperties
<1>3. PICK t : t = [HASH_MAKE_TABLE(e) EXCEPT !.num_items = @ + 1]
  OBVIOUS
<1>4. PICK N, s : N = Pow2(InitialLog2) /\ s = [i \in 1 .. 1 |-> e]
  OBVIOUS
<1>5. Shape(hashv, e, t, h, {}, {e}, N, 1, s) /\ InBounds(t, N)
  BY <1>2, <1>3, <1>4, FirstListed
<1>6. PICK b : b = hashv[h[e].key] % N
  OBVIOUS
<1>7. PICK m : m = [tbl |-> t, hh |-> h]
  OBVIOUS
<1>8. HASH_ADD(k, e) = HASH_ADD_TO_BKT(m, b, e)
  <2>1. PICK g, m0 : g = HASH_MAKE_TABLE(e) /\ m0 = [tbl |-> g, hh |-> h]
    OBVIOUS
  <2>2. HASH_ADD(k, e) = HASH_ADD_TO_TABLE(m0, e)
    BY <1>1, <2>1 DEF HASH_ADD, Keyed
  <2>3. [m0 EXCEPT !.tbl.num_items = @ + 1] = m
    BY <1>3, <1>7, <2>1
  <2>4. HASH_TO_BKT(m0.hh[e].key, m0.tbl.num_buckets) = b
    BY <1>4, <1>6, <2>1 DEF HASH_TO_BKT, HASH_VALUE, HASH_MAKE_TABLE
  <2> QED
    BY <2>2, <2>3, <2>4 DEF HASH_ADD_TO_TABLE
<1>9. PICK t2, h2, M : /\ HASH_ADD_TO_BKT(m, b, e) = [tbl |-> t2, hh |-> h2]
                       /\ Shape(hashv, e, t2, h2, {e}, {e}, M, 1, s)
                       /\ InBounds(t2, M) /\ SameButChains(h, h2)
  BY <1>5, <1>6, <1>7, AddToBucket
<1>10. \A x \in Elements : h2[x].key = IF x = e THEN k ELSE hh[x].key
  BY <1>2, <1>9 DEF SameButChains
<1>11. {} \cup {e} = {e}
  OBVIOUS
<1> QED
  BY <1>4, <1>8, <1>9, <1>10, <1>11 DEF Adds

(* Any other element is listed behind the last one. *)
LEMMA AddNext ==
    ASSUME hashv \in [Keys -> Nat], head # NULL, NEW A, NEW N, NEW n, NEW s,
           Shape(hashv, head, tbl, hh, A, A, N, n, s), InBounds(tbl, N),
           NEW k \in Keys, NEW e \in Elements \ A, \A a \in A : hh[a].key # k
    PROVE  Adds(hashv, head, HASH_ADD(k, e), hh, A, k, e, n + 1, Appended(s, n, e))
<1>1. /\ N \in Nat \ {0} /\ tbl \in Table(N)
      /\ hh \in [Elements -> Handle] /\ A \in SUBSET Elements
      /\ IsList(s, n, head, NextOf(hh), PrevOf(hh))
      /\ \A a \in Elements : On(s, n, a) <=> a \in A
      /\ n > 0 /\ tbl.num_items = n /\ tbl.tail = s[n]
  BY DEF Shape
<1>2. PICK h : h = Keyed(hh, k, e)
  OBVIOUS
<1>3. /\ h \in [Elements -> Handle] /\ h[e].key = k /\ h[e].prev = NULL /\ h[e].next = NULL
      /\ \A x \in Elements \ {e} : h[x] = hh[x]
  BY <1>1, <1>2, KeyedProperties
<1>4. PICK last \in Elements : last = tbl.tail /\ last \in A /\ last # e
  <2>1. n \in 1 .. n /\ s[n] \in Elements
    BY <1>1 DEF IsList
  <2>2. On(s, n, s[n])
    BY <2>1 DEF On
  <2> QED
    BY <1>1, <2>1, <2>2
<1>5. PICK h0 : h0 = [h EXCEPT ![e].next = NULL, ![e].prev = last, ![last].next = e]
  OBVIOUS
<1>6. LinkedLast(hh, h0, e, last) /\ h0[e].key = k
  <2>1. PICK new : new = [h[e] EXCEPT !.next = NULL, !.prev = last]
    OBVIOUS
  <2>2. h[e] \in Handle /\ h[last] \in Handle /\ e \in Pointer /\ last \in Pointer
        /\ NULL \in Pointer
    BY <1>3 DEF Pointer
  <2>3. /\ new \in Handle /\ new.next = NULL /\ new.prev = last /\ new.key = k
    BY <1>3, <2>1, <2>2 DEF Handle
  <2>4. PICK old : old = [h[last] EXCEPT !.next = e]
    OBVIOUS
  <2>5. /\ old \in Handle /\ old.next = e /\ old.key = h[last].key /\ old.prev = h[last].prev
        /\ old.hh_next = h[last].hh_next /\ old.hh_prev = h[last].hh_prev
    BY <2>2, <2>4 DEF Handle
  <2>6. h0 = [h EXCEPT ![e] = new, ![last] = old]
    BY <1>3, <1>4, <1>5, <2>1, <2>4
  <2>7. h0 \in [Elements -> Handle] /\ h0[e] = new /\ h0[last] = old
        /\ \A x \in Elements : x # e /\ x # last => h0[x] = h[x]
    BY <1>3, <1>4, <2>3, <2>5, <2>6
  <2> QED
    BY <1>3, <1>4, <2>3, <2>5, <2>7 DEF LinkedLast
<1>7. PICK t : t = [tbl EXCEPT !.tail = e, !.num_items = @ + 1]
  OBVIOUS
<1>8. PICK s2, L : s2 = Appended(s, n, e) /\ L = A \cup {e}
  OBVIOUS
<1>9. Shape(hashv, head, t, h0, A, L, N, n + 1, s2)
  <2>1. LinkedLast(hh, h0, e, tbl.tail) /\ h0[e].key \in Keys
        /\ \A a \in A : hh[a].key # h0[e].key
    BY <1>4, <1>6
  <2> QED
    BY <1>7, <1>8, <2>1, NextListed
<1>10. InBounds(t, N)
  <2>1. t.noexpand = tbl.noexpand /\ t.buckets = tbl.buckets
        /\ t.ideal_chain_maxlen = tbl.ideal_chain_maxlen
    BY <1>1, <1>7 DEF Table
  <2> QED
    BY <2>1 DEF InBounds
<1>11. PICK b : b = hashv[h0[e].key] % N
  OBVIOUS
<1>12. PICK m : m = [tbl |-> t, hh |-> h0]
  OBVIOUS
<1>13. HASH_ADD(k, e) = HASH_ADD_TO_BKT(m, b, e)
  <2>1. PICK t0, m0, m1 : /\ t0 = [tbl EXCEPT !.tail = e] /\ m0 = [tbl |-> t0, hh |-> h0]
                          /\ m1 = [tbl |-> tbl, hh |-> h]
    OBVIOUS
  <2>2. HASH_APPEND_LIST(m1, e) = m0
    <3>1. PICK a1, a2 : a1 = [h EXCEPT ![e].next = NULL] /\ a2 = [a1 EXCEPT ![e].prev = last]
      OBVIOUS
    <3>2. h0 = [a2 EXCEPT ![last].next = e]
      BY <1>5, <3>1
    <3>3. PICK m2, m3, m4 : /\ m2 = [tbl |-> tbl, hh |-> a1] /\ m3 = [tbl |-> tbl, hh |-> a2]
                            /\ m4 = [tbl |-> tbl, hh |-> h0]
      OBVIOUS
    <3>4. m2 = [m1 EXCEPT !.hh[e].next = NULL]
      BY <2>1, <3>1, <3>3
    <3>5. m3 = [m2 EXCEPT !.hh[e].prev = last]
      BY <3>1, <3>3
    <3>6. m4 = [m3 EXCEPT !.hh[last].next = e]
      BY <3>2, <3>3
    <3>7. m0 = [m4 EXCEPT !.tbl.tail = e]
      BY <2>1, <3>3
    <3>8. m1.tbl.tail = last
      BY <1>4, <2>1
    <3> QED
      BY <3>4, <3>5, <3>6, <3>7, <3>8 DEF HASH_APPEND_LIST
  <2>3. HASH_ADD(k, e) = HASH_ADD_TO_TABLE(m0, e)
    BY <1>2, <2>1, <2>2 DEF HASH_ADD, Keyed
  <2>4. t0.num_items = tbl.num_items /\ t0.num_buckets = N
    BY <1>1, <2>1 DEF Table
  <2>5. [t0 EXCEPT !.num_items = @ + 1] = t
    BY <1>1, <1>7, <2>1, <2>4 DEF Table
  <2>6. [m0 EXCEPT !.tbl.num_items = @ + 1] = m
    <3>1. PICK v : v = t0.num_items + 1
      OBVIOUS
    <3>2. [t0 EXCEPT !.num_items = v] = t
      BY <2>5, <3>1
    <3>3. [m0 EXCEPT !.tbl.num_items = v] = m
      BY <1>12, <2>1, <3>2
    <3>4. m0.tbl.num_items + 1 = v
      BY <2>1, <3>1
    <3> QED
      BY <3>3, <3>4
  <2>7. HASH_TO_BKT(m0.hh[e].key, m0.tbl.num_buckets) = b
    BY <1>11, <2>1, <2>4 DEF HASH_TO_BKT, HASH_VALUE
  <2> QED
    BY <2>3, <2>6, <2>7 DEF HASH_ADD_TO_TABLE
<1>14. PICK t2, h2, M : /\ HASH_ADD_TO_BKT(m, b, e) = [tbl |-> t2, hh |-> h2]
                        /\ Shape(hashv, head, t2, h2, L, L, M, n + 1, s2)
                        /\ InBounds(t2, M) /\ SameButChains(h0, h2)
  <2>1. e \in L \ A /\ L = A \cup {e}
    BY <1>8
  <2> QED
    BY <1>9, <1>10, <1>11, <1>12, <2>1, AddToBucket
<1>15. \A x \in Elements : h2[x].key = IF x = e THEN k ELSE hh[x].key
  BY <1>6, <1>14 DEF SameButChains, LinkedLast
<1> QED
  BY <1>8, <1>13, <1>14, <1>15 DEF Adds

(* HASH_FIND tells whether an element has the key, and which one. *)
LEMMA FindProperties ==
    ASSUME hashv \in [Keys -> Nat], head # NULL, NEW A, NEW N, NEW n, NEW s,
           Shape(hashv, head, tbl, hh, A, A, N, n, s), NEW k \in Keys
    PROVE  /\ HASH_FIND(k) = NULL => \A a \in A : hh[a].key # k
           /\ HASH_FIND(k) # NULL => HASH_FIND(k) \in A /\ hh[HASH_FIND(k)].key = k
<1>1. /\ N \in Nat \ {0} /\ tbl \in Table(N) /\ tbl.num_buckets = N
      /\ hh \in [Elements -> Handle] /\ A \in SUBSET Elements
      /\ Chained(hashv, tbl.buckets, hh, N, A) /\ Distinct(hh, A)
  BY DEF Shape, Table
<1>2. Memory.tbl = tbl /\ Memory.hh = hh
  BY DEF Memory
<1>3. PICK C : ChainsAre(hashv, Memory, N, A, C)
  <2>1. Memory.hh \in [Elements -> Handle] /\ Chained(hashv, Memory.tbl.buckets, Memory.hh, N, A)
    BY <1>1, <1>2
  <2> QED
    BY <1>1, <2>1, ChainsFound
<1>4. PICK b \in 0 .. N - 1 : b = hashv[k] % N
  <2>1. PICK v \in Int : v = hashv[k]
    OBVIOUS
  <2> QED
    BY <1>1, <2>1, DivMod
<1>5. PICK c, m : /\ c = C[b] /\ m \in Nat /\ c \in [1 .. m -> Elements] /\ c = Chain(Memory, b)
                  /\ \A e \in Elements : On(c, m, e) <=> e \in A /\ hashv[hh[e].key] % N = b
  BY <1>2, <1>3 DEF ChainsAre, IsList
<1>6. Len(c) = m
  BY <1>5, LenOfFunction
<1>7. HASH_FIND(k) = HASH_FIND_IN_BKT(c, k)
  BY <1>1, <1>4, <1>5 DEF HASH_FIND, HASH_TO_BKT, HASH_VALUE
<1>8. PICK I : I = {i \in 1 .. m : hashv[hh[c[i]].key] = hashv[k] /\ hh[c[i]].key = k}
  OBVIOUS
<1>9. HASH_FIND(k) = IF (IF I # {} THEN Min(I) ELSE 0) = 0 THEN NULL
                     ELSE c[IF I # {} THEN Min(I) ELSE 0]
  BY <1>6, <1>7, <1>8 DEF HASH_FIND_IN_BKT, SelectInSeq, HASH_VALUE
<1>10. ASSUME NEW i \in 1 .. m PROVE c[i] \in A
  <2>1. On(c, m, c[i]) /\ c[i] \in Elements
    BY <1>5 DEF On
  <2> QED
    BY <1>5, <2>1
<1>11. CASE I = {}
  <2>1. HASH_FIND(k) = NULL
    BY <1>9, <1>11
  <2>2. ASSUME NEW a \in A, hh[a].key = k PROVE FALSE
    <3>1. On(c, m, a)
      BY <1>1, <1>4, <1>5, <2>2
    <3>2. PICK i \in 1 .. m : c[i] = a
      BY <3>1 DEF On
    <3> QED
      BY <1>8, <1>11, <2>2, <3>2
  <2> QED
    BY <2>1, <2>2
<1>12. CASE I # {}
  <2>1. PICK i \in I : \A j \in I : i <= j
    <3>1. I \subseteq Nat
      BY <1>8
    <3> QED
      BY <1>12, <3>1, LeastNat
  <2>2. Min(I) \in I
    BY <2>1 DEF Min
  <2>3. PICK j \in 1 .. m : j = Min(I) /\ hh[c[j]].key = k
    BY <1>8, <2>2
  <2>4. HASH_FIND(k) = c[j]
    BY <1>9, <1>12, <2>3
  <2>5. c[j] \in A /\ c[j] # NULL
    BY <1>1, <1>10, UtHashAssumptions
  <2> QED
    BY <2>3, <2>4, <2>5
<1> QED
  BY <1>11, <1>12

\* What HASH_DELETE_HH leaves of the table when its first of several elements goes.
Shorter(t, h, e, b) ==
    LET after == HASH_DEL_IN_BKT(Unlink([tbl |-> t, hh |-> h], e), b, e)
    IN  [tbl |-> [after.tbl EXCEPT !.num_items = @ - 1],
         hh  |-> [after.hh EXCEPT ![e] = Blank]]

LEMMA OneLessBounded ==
    ASSUME NEW old, NEW new, NEW I \in Nat, old.count \in Nat, old.expand_mult \in Nat,
           new.count = old.count - 1, new.expand_mult = old.expand_mult, Bounded(old, I)
    PROVE  Bounded(new, I)
<1>1. PICK p \in Nat : p = (old.expand_mult + 1) * I
  OBVIOUS
<1> QED
  BY <1>1 DEF Bounded

\* The table m2 is without its first element hd.
Removed(f, hd, h, A, N, n, s, m2) ==
    /\ Shape(f, h[hd].next, m2.tbl, m2.hh, A \ {hd}, A \ {hd}, N, n - 1, Without(s, n, 1))
    /\ InBounds(m2.tbl, N) /\ hd \in A /\ h[hd].next # NULL
    /\ \A x \in Elements \ {hd} : m2.hh[x].key = h[x].key

LEMMA MemoryFields ==
    ASSUME NEW m, NEW t, NEW h, m = [tbl |-> t, hh |-> h]
    PROVE  m.tbl = t /\ m.hh = h
OBVIOUS

(* The first of several elements leaves the table. *)
LEMMA HeadRemoved ==
    ASSUME NEW f, NEW hd, NEW t, NEW h, NEW A, NEW N, NEW n, NEW s,
           Shape(f, hd, t, h, A, A, N, n, s), InBounds(t, N), n > 1, f \in [Keys -> Nat],
           NEW b, b = f[h[hd].key] % N, NEW m2, m2 = Shorter(t, h, hd, b)
    PROVE  Removed(f, hd, h, A, N, n, s, m2)
<1>1. /\ N \in Nat \ {0} /\ t \in Table(N) /\ N = Pow2(t.log2_num_buckets)
      /\ h \in [Elements -> Handle] /\ A \in SUBSET Elements
      /\ Chained(f, t.buckets, h, N, A)
      /\ IsList(s, n, hd, NextOf(h), PrevOf(h))
      /\ \A a \in Elements : On(s, n, a) <=> a \in A
      /\ t.num_items = n /\ t.tail = s[n]
      /\ Distinct(h, A)
  BY DEF Shape
<1>2. /\ n \in Nat /\ s \in [1 .. n -> Elements] /\ 1 \in 1 .. n /\ 2 \in 1 .. n /\ n \in 1 .. n
      /\ \A i, j \in 1 .. n : s[i] = s[j] => i = j
      /\ hd = s[1]
  BY <1>1 DEF IsList
<1>o. \A i \in 1 .. n : s[i] \in Elements /\ s[i] \in A
  <2> TAKE i \in 1 .. n
  <2>1. On(s, n, s[i]) /\ s[i] \in Elements
    BY <1>2 DEF On
  <2> QED
    BY <1>1, <2>1
<1>3. PICK e \in Elements, nx \in Elements :
         e = hd /\ nx = s[2] /\ e # nx /\ e \in A /\ nx \in A /\ e = s[1]
  BY <1>2, <1>o
<1>4. h[e].prev = NULL /\ h[e].next = nx /\ t.tail # e
  <2>1. NextOf(h)[s[1]] = s[2] /\ PrevOf(h)[s[1]] = NULL
    <3>1. /\ NextOf(h)[s[1]] = IF 1 = n THEN NULL ELSE s[1 + 1]
          /\ PrevOf(h)[s[1]] = NULL
      BY <1>1, <1>2 DEF IsList
    <3>2. 1 # n /\ 1 + 1 = 2
      BY <1>2
    <3> QED
      BY <3>1, <3>2
  <2>2. NextOf(h)[e] = h[e].next /\ PrevOf(h)[e] = h[e].prev
    BY <1>1, PointerLinks
  <2> QED
    BY <1>1, <1>2, <1>3, <2>1, <2>2
<1>n. NULL \notin Elements /\ NULL \in Pointer
  BY UtHashAssumptions DEF Pointer
<1>5. PICK u : u = [x \in Elements |-> IF x = nx THEN [h[x] EXCEPT !.prev = NULL] ELSE h[x]]
  OBVIOUS
<1>6. Unlink([tbl |-> t, hh |-> h], e) = [tbl |-> t, hh |-> u]
  <2>1. PICK m : m = [tbl |-> t, hh |-> h]
    OBVIOUS
  <2>2. \A x \in Elements : x # h[e].prev
    BY <1>4, <1>n
  <2>3. u = [x \in Elements |->
                 IF x = h[e].prev THEN [h[x] EXCEPT !.next = h[e].next]
                 ELSE IF x = h[e].next THEN [h[x] EXCEPT !.prev = h[e].prev] ELSE h[x]]
    BY <1>4, <1>5, <2>2
  <2>4. [t EXCEPT !.tail = t.tail] = t
    BY <1>1 DEF Table
  <2>5. [[m EXCEPT !.tbl.tail = t.tail] EXCEPT !.hh = u] = [tbl |-> t, hh |-> u]
    <3>1. PICK m0 : m0 = [m EXCEPT !.tbl.tail = t.tail]
      OBVIOUS
    <3>2. m0 = [tbl |-> t, hh |-> h]
      BY <2>1, <2>4, <3>1
    <3>3. [m0 EXCEPT !.hh = u] = [tbl |-> t, hh |-> u]
      BY <3>2
    <3> QED
      BY <3>1, <3>3, Zenon
  <2>6. m.hh = h /\ m.tbl = t
    BY <2>1
  <2> QED
    BY <1>4, <2>1, <2>3, <2>5, <2>6 DEF Unlink
<1>7. /\ u \in [Elements -> Handle] /\ u[nx].prev = NULL /\ u[e] = h[e]
      /\ \A x \in Elements : /\ u[x].key = h[x].key /\ u[x].next = h[x].next
                             /\ u[x].hh_next = h[x].hh_next /\ u[x].hh_prev = h[x].hh_prev
                             /\ x # nx => u[x].prev = h[x].prev
  <2>1. \A x \in Elements : h[x] \in Handle
    BY <1>1
  <2>2. [h[nx] EXCEPT !.prev = NULL] \in Handle
    BY <1>n, <2>1 DEF Handle
  <2>3. u \in [Elements -> Handle]
    BY <1>5, <2>1, <2>2
  <2> QED
    BY <1>3, <1>5, <2>1, <2>3 DEF Handle
<1>8. PICK bk : bk = t.buckets /\ bk \in [0 .. N - 1 -> Bucket]
  BY <1>1 DEF Table
<1>9. b \in 0 .. N - 1
  <2>1. PICK v : v = f[h[e].key] /\ v \in Nat /\ v \in Int
    BY <1>1, <1>3 DEF Distinct
  <2> QED
    BY <1>1, <1>3, <2>1, DivMod
<1>10. PICK old \in Bucket : old = bk[b]
  BY <1>8, <1>9
<1>11. PICK new : new = [old EXCEPT !.count = @ - 1,
                                    !.hh_head = IF @ = e THEN h[e].hh_next ELSE @]
  OBVIOUS
<1>12. /\ new.count = old.count - 1 /\ new.expand_mult = old.expand_mult
       /\ new.hh_head = IF old.hh_head = e THEN h[e].hh_next ELSE old.hh_head
       /\ new.hh_head \in Pointer
       /\ new = [hh_head |-> new.hh_head, count |-> new.count, expand_mult |-> new.expand_mult]
  <2>1. h[e].hh_next \in Pointer
    BY <1>1 DEF Handle
  <2> QED
    BY <1>11, <2>1 DEF Bucket
<1>13. PICK bk2 : bk2 = [bk EXCEPT ![b] = new]
  OBVIOUS
<1>14. bk2[b] = new /\ \A x \in 0 .. N - 1 : x # b => bk2[x] = bk[x]
  BY <1>8, <1>9, <1>13
<1>15. PICK w : w = [x \in Elements |->
                       IF x = u[e].hh_prev THEN [u[x] EXCEPT !.hh_next = u[e].hh_next]
                       ELSE IF x = u[e].hh_next THEN [u[x] EXCEPT !.hh_prev = u[e].hh_prev]
                       ELSE u[x]]
  OBVIOUS
<1>16. PICK h2 : h2 = [w EXCEPT ![e] = Blank]
  OBVIOUS
<1>17. PICK t2 : t2 = [t EXCEPT !.buckets = bk2, !.num_items = @ - 1]
  OBVIOUS
<1>18. m2 = [tbl |-> t2, hh |-> h2]
  <2>1. PICK m, t1 : m = [tbl |-> t, hh |-> u] /\ t1 = [t EXCEPT !.buckets = bk2]
    OBVIOUS
  <2>2. m.tbl = t /\ m.hh = u /\ m.hh[e].hh_next = h[e].hh_next
    BY <1>7, <2>1
  <2>3. [t EXCEPT !.buckets[b] = new] = t1
    BY <1>8, <1>13, <2>1
  <2>4. HASH_DEL_IN_BKT(m, b, e).hh = w
    BY <1>15, <2>2 DEF HASH_DEL_IN_BKT
  <2>5. HASH_DEL_IN_BKT(m, b, e).tbl = t1
    <3>1. PICK p, hd2 : /\ p = h[e].hh_next
                        /\ hd2 = IF old.hh_head = e THEN p ELSE old.hh_head
      OBVIOUS
    <3>2. PICK mid : mid = [old EXCEPT !.count = old.count - 1]
      OBVIOUS
    <3>3. new = [mid EXCEPT !.hh_head = hd2] /\ mid.hh_head = old.hh_head
      BY <1>11, <3>1, <3>2 DEF Bucket
    <3>4. PICK bk0, t0 : bk0 = [bk EXCEPT ![b] = mid] /\ t0 = [t EXCEPT !.buckets = bk0]
      OBVIOUS
    <3>5. [t EXCEPT !.buckets[b].count = @ - 1] = t0
      BY <1>8, <1>10, <3>2, <3>4
    <3>6. t0.buckets = bk0 /\ bk0[b] = mid
      BY <1>1, <1>8, <1>9, <3>4 DEF Table
    <3>7. [t0 EXCEPT !.buckets[b].hh_head = hd2] = [t0 EXCEPT !.buckets = [bk0 EXCEPT ![b] = new]]
      BY <3>3, <3>6
    <3>8. [bk0 EXCEPT ![b] = new] = bk2
      BY <1>8, <1>13, <3>4
    <3>9. [t0 EXCEPT !.buckets = bk2] = t1
      BY <1>1, <2>1, <3>4 DEF Table
    <3>10. [t0 EXCEPT !.buckets[b].hh_head = hd2] = t1
      BY <3>7, <3>8, <3>9
    <3>11. hd2 = IF t0.buckets[b].hh_head = e THEN p ELSE t0.buckets[b].hh_head
      BY <3>1, <3>3, <3>6
    <3>12. t.buckets[b].hh_head = old.hh_head
      BY <1>8, <1>10
    <3>13. HASH_DEL_IN_BKT(m, b, e).tbl =
             [m.tbl EXCEPT !.buckets[b].count = @ - 1,
                           !.buckets[b].hh_head = IF @ = e THEN m.hh[e].hh_next ELSE @]
      BY DEF HASH_DEL_IN_BKT
    <3>14. HASH_DEL_IN_BKT(m, b, e).tbl =
             [t EXCEPT !.buckets[b].count = @ - 1, !.buckets[b].hh_head = hd2]
      BY <2>2, <3>1, <3>12, <3>13
    <3> QED
      BY <3>5, <3>10, <3>14
  <2>6. [t1 EXCEPT !.num_items = @ - 1] = t2
    BY <1>1, <1>17, <2>1 DEF Table
  <2> QED
    BY <1>3, <1>6, <1>16, <2>1, <2>4, <2>5, <2>6 DEF Shorter
<1>19. /\ w \in [Elements -> Handle]
       /\ \A x \in Elements :
            /\ w[x].key = u[x].key /\ w[x].next = u[x].next /\ w[x].prev = u[x].prev
            /\ w[x].hh_next = (IF x = h[e].hh_prev THEN h[e].hh_next ELSE h[x].hh_next)
            /\ w[x].hh_prev = (IF x # h[e].hh_prev /\ x = h[e].hh_next THEN h[e].hh_prev
                               ELSE h[x].hh_prev)
  <2> SUFFICES ASSUME NEW x \in Elements
      PROVE  /\ w[x] \in Handle
             /\ w[x].key = u[x].key /\ w[x].next = u[x].next /\ w[x].prev = u[x].prev
             /\ w[x].hh_next = (IF x = h[e].hh_prev THEN h[e].hh_next ELSE h[x].hh_next)
             /\ w[x].hh_prev = (IF x # h[e].hh_prev /\ x = h[e].hh_next THEN h[e].hh_prev
                                ELSE h[x].hh_prev)
    BY <1>15
  <2>1. u[x] \in Handle /\ u[e].hh_next \in Pointer /\ u[e].hh_prev \in Pointer
    BY <1>7 DEF Handle
  <2>2. /\ u[x].hh_next = h[x].hh_next /\ u[x].hh_prev = h[x].hh_prev
        /\ u[e].hh_next = h[e].hh_next /\ u[e].hh_prev = h[e].hh_prev
    BY <1>7
  <2>3. CASE x = u[e].hh_prev
    <3>1. w[x] = [u[x] EXCEPT !.hh_next = u[e].hh_next]
      BY <1>15, <2>3
    <3> QED
      BY <2>1, <2>2, <2>3, <3>1 DEF Handle
  <2>4. CASE x # u[e].hh_prev /\ x = u[e].hh_next
    <3>1. w[x] = [u[x] EXCEPT !.hh_prev = u[e].hh_prev]
      BY <1>15, <2>4
    <3> QED
      BY <2>1, <2>2, <2>4, <3>1 DEF Handle
  <2>5. CASE x # u[e].hh_prev /\ x # u[e].hh_next
    BY <1>15, <2>1, <2>2, <2>5
  <2> QED
    BY <2>3, <2>4, <2>5
<1>20. h2 \in [Elements -> Handle] /\ \A x \in Elements \ {e} : h2[x] = w[x]
  <2>1. Blank \in Handle
    BY <1>n DEF Blank, Handle
  <2> QED
    BY <1>16, <1>19, <2>1
<1>21. Chained(f, bk2, h2, N, A \ {e}) /\ bk2[b].count \in Nat
  <2>1. LeftChain(h, h2, e)
    BY <1>7, <1>19, <1>20 DEF LeftChain
  <2>2. Pulled(f, N, bk, h, b, e, bk2, h2)
    BY <1>3, <1>10, <1>12, <1>14, <2>1 DEF Pulled
  <2>3. Chained(f, bk, h, N, A)
    BY <1>1, <1>8
  <2>4. N \in Nat
    BY <1>1
  <2> QED
    BY <1>1, <1>3, <1>9, <1>20, <2>2, <2>3, <2>4, ChainedRemove
<1>22. /\ t2 \in Table(N) /\ t2.buckets = bk2 /\ t2.log2_num_buckets = t.log2_num_buckets
       /\ t2.num_items = n - 1 /\ t2.tail = s[n] /\ t2.noexpand = t.noexpand
       /\ t2.ideal_chain_maxlen = t.ideal_chain_maxlen
  <2>1. new \in Bucket
    BY <1>12, <1>14, <1>21 DEF Bucket
  <2>2. bk2 \in [0 .. N - 1 -> Bucket] /\ n - 1 \in Nat
    <3>1. \A x \in 0 .. N - 1 : bk2[x] \in Bucket
      BY <1>8, <1>14, <2>1
    <3>2. bk2 \in [0 .. N - 1 -> Bucket]
      BY <1>8, <1>13, <3>1
    <3> QED
      BY <1>2, <3>2
  <2> QED
    BY <1>1, <1>17, <2>2 DEF Table
<1>23. RemoveLinks(s, n, 1, NextOf(h), PrevOf(h), NextOf(h2), PrevOf(h2))
  <2> SUFFICES ASSUME NEW i \in 1 .. n, i # 1
               PROVE  /\ NextOf(h2)[s[i]] = NextOf(h)[s[i]]
                      /\ PrevOf(h2)[s[i]] = IF i = 2 THEN PrevOf(h)[s[1]] ELSE PrevOf(h)[s[i]]
    BY SMTT(30), <1>2 DEF RemoveLinks
  <2>1. s[i] \in Elements \ {e} /\ (s[i] = nx <=> i = 2)
    BY <1>2, <1>3, <1>o
  <2>2. h2[s[i]].next = h[s[i]].next
    BY <1>7, <1>19, <1>20, <2>1
  <2>3. h2[s[i]].prev = IF i = 2 THEN h[s[1]].prev ELSE h[s[i]].prev
    BY <1>3, <1>4, <1>7, <1>19, <1>20, <2>1
  <2> QED
    BY <1>1, <1>3, <1>20, <2>1, <2>2, <2>3, PointerLinks
<1>24. PICK s2 : s2 = Without(s, n, 1)
  OBVIOUS
<1>25. /\ IsList(s2, n - 1, nx, NextOf(h2), PrevOf(h2))
       /\ \A x : On(s2, n - 1, x) <=> On(s, n, x) /\ x # e
  <2>1. NextOf(h)[s[1]] = nx
    BY <1>1, <1>3, <1>4, PointerLinks
  <2>2. /\ IsList(s2, n - 1, IF 1 = 1 THEN NextOf(h)[s[1]] ELSE hd, NextOf(h2), PrevOf(h2))
        /\ \A x : On(s2, n - 1, x) <=> On(s, n, x) /\ x # s[1]
    BY <1>1, <1>2, <1>23, <1>24, ListRemove
  <2> QED
    BY <1>3, <2>1, <2>2
<1>26. \A x \in Elements : On(s2, n - 1, x) <=> x \in A \ {e}
  BY <1>1, <1>25
<1>27. s2[n - 1] = s[n] /\ n - 1 > 0
  BY <1>2, <1>24 DEF Without
<1>28. \A x \in Elements \ {e} : h2[x].key = h[x].key
  BY <1>7, <1>19, <1>20
<1>29. Distinct(h2, A \ {e})
  BY <1>1, <1>28 DEF Distinct
<1>30. InBounds(t2, N)
  <2> SUFFICES ASSUME ~t.noexpand, NEW x \in 0 .. N - 1
               PROVE  \/ Bounded(bk2[x], Threshold)
                      \/ Bounded(bk2[x], t.ideal_chain_maxlen)
    BY <1>22 DEF InBounds
  <2>1. Bounded(bk[x], Threshold) \/ Bounded(bk[x], t.ideal_chain_maxlen)
    BY <1>8 DEF InBounds
  <2>2. CASE x # b
    BY <1>14, <2>1, <2>2
  <2>3. CASE x = b
    <3>1. old.count \in Nat /\ old.expand_mult \in Nat
      BY DEF Bucket
    <3>2. Threshold \in Nat /\ t.ideal_chain_maxlen \in Nat
      BY <1>1, UtHashAssumptions DEF Table
    <3>3. Bounded(old, Threshold) => Bounded(new, Threshold)
      BY <1>12, <3>1, <3>2, OneLessBounded
    <3>4. Bounded(old, t.ideal_chain_maxlen) => Bounded(new, t.ideal_chain_maxlen)
      BY <1>12, <3>1, <3>2, OneLessBounded
    <3> QED
      BY <1>10, <1>14, <2>1, <2>3, <3>3, <3>4
  <2> QED
    BY <2>2, <2>3
<1>31. Shape(f, nx, t2, h2, A \ {e}, A \ {e}, N, n - 1, s2)
  <2>1. Chained(f, t2.buckets, h2, N, A \ {e}) /\ N = Pow2(t2.log2_num_buckets)
    BY <1>1, <1>21, <1>22
  <2>2. A \ {e} \in SUBSET Elements
    BY <1>1
  <2>3. t2.num_items = n - 1 /\ t2.tail = s2[n - 1]
    BY <1>22, <1>27
  <2> QED
    BY <1>1, <1>20, <1>22, <1>25, <1>26, <1>27, <1>29, <2>1, <2>2, <2>3 DEF Shape
<1>32. m2.tbl = t2 /\ m2.hh = h2 /\ h[hd].next = nx
  <2>1. h[hd].next = nx
    BY <1>3, <1>4, Zenon
  <2>2. m2.tbl = t2 /\ m2.hh = h2
    BY <1>18, MemoryFields, Zenon
  <2> QED
    BY <2>1, <2>2, Zenon
<1> QED
  BY <1>3, <1>24, <1>28, <1>30, <1>31, <1>32, <1>n DEF Removed

-----------------------------------------------------------------------------
(* The invariant.                                                          *)

NoElements == [i \in 1 .. 0 |-> NULL]

\* The table, if there is one, holds the n elements of A in the order s.
Holds(f, hd, t, h, A, n, s) ==
    /\ hd = NULL => A = {} /\ n = 0 /\ s = NoElements
    /\ hd # NULL => \E N : Shape(f, hd, t, h, A, A, N, n, s) /\ InBounds(t, N)

\* HASH_ITER's pointers are at the first element and the one behind it.
Cursor ==
    /\ pc \in {"idle", "iter", "exited"}
    /\ pc = "iter" => el = head /\ tmp = IF head = NULL THEN NULL ELSE hh[head].next
    /\ pc # "iter" => el = NULL /\ tmp = NULL

HashInv ==
    /\ hashv \in HashFunctions
    /\ hh \in [Elements -> Handle] /\ allocated \in SUBSET Elements
    /\ \E n, s : Holds(hashv, head, tbl, hh, allocated, n, s)
    /\ Cursor

LEMMA HashIsFunction == hashv \in HashFunctions => hashv \in [Keys -> Nat]
BY UtHashAssumptions

\* The n elements of A are linked from hd in the order s.
Listed(hd, h, A, n, s) ==
    /\ n \in Nat /\ s \in [1 .. n -> Elements]
    /\ \A i, j \in 1 .. n : s[i] = s[j] => i = j
    /\ \A e \in Elements : On(s, n, e) <=> e \in A
    /\ \A i \in 1 .. n : s[i] \in A
    /\ Distinct(h, A) /\ Nodes(hd, NextOf(h)) = s
    /\ hd = (IF n = 0 THEN NULL ELSE s[1])
    /\ IsList(s, n, hd, NextOf(h), PrevOf(h))

(* What the table holds, whether it exists or not. *)
LEMMA HoldsProperties ==
    ASSUME NEW f, NEW hd, NEW t, NEW h \in [Elements -> Handle], NEW A \in SUBSET Elements,
           NEW n, NEW s, Holds(f, hd, t, h, A, n, s)
    PROVE  Listed(hd, h, A, n, s)
<1>1. CASE hd = NULL
  <2>1. A = {} /\ n = 0 /\ s = NoElements
    BY <1>1 DEF Holds
  <2>2. IsList(s, n, hd, NextOf(h), PrevOf(h))
    BY <1>1, <2>1 DEF IsList, NoElements
  <2>3. NextOf(h)[NULL] = NULL
    BY PointerLinks
  <2>4. Nodes(hd, NextOf(h)) = s
    BY <2>2, <2>3, NodesOfList
  <2> QED
    BY <1>1, <2>1, <2>2, <2>4 DEF NoElements, On, Distinct, Listed
<1>2. CASE hd # NULL
  <2>1. /\ n > 0 /\ IsList(s, n, hd, NextOf(h), PrevOf(h))
        /\ \A e \in Elements : On(s, n, e) <=> e \in A
        /\ Distinct(h, A)
    BY <1>2 DEF Holds, Shape
  <2>2. NextOf(h)[NULL] = NULL
    BY PointerLinks
  <2>3. Nodes(hd, NextOf(h)) = s
    BY <2>1, <2>2, NodesOfList
  <2>4. /\ n \in Nat /\ s \in [1 .. n -> Elements]
        /\ \A i, j \in 1 .. n : s[i] = s[j] => i = j
        /\ hd = IF n = 0 THEN NULL ELSE s[1]
    BY <2>1 DEF IsList
  <2>5. ASSUME NEW i \in 1 .. n PROVE s[i] \in A
    <3>1. On(s, n, s[i]) /\ s[i] \in Elements
      BY <2>4 DEF On
    <3> QED
      BY <2>1, <3>1
  <2> QED
    BY <2>1, <2>3, <2>4, <2>5 DEF Listed
<1> QED
  BY <1>1, <1>2

(* A miss puts a new element with the key behind the others. *)
LEMMA MissStep ==
    ASSUME hashv \in HashFunctions, hh \in [Elements -> Handle],
           allocated \in SUBSET Elements, NEW n, NEW s,
           Holds(hashv, head, tbl, hh, allocated, n, s), NEW k \in Keys, Miss(k)
    PROVE  \E e \in Elements \ allocated :
              /\ Holds(hashv', head', tbl', hh', allocated', n + 1, Appended(s, n, e))
              /\ allocated' = allocated \cup {e} /\ hh' \in [Elements -> Handle]
              /\ \A a \in allocated : hh[a].key # k
              /\ \A x \in Elements : hh'[x].key = IF x = e THEN k ELSE hh[x].key
<1>1. PICK e \in Elements \ allocated :
         /\ allocated' = allocated \cup {e}
         /\ head' = IF head = NULL THEN e ELSE head
         /\ tbl' = HASH_ADD(k, e).tbl /\ hh' = HASH_ADD(k, e).hh
  BY DEF Miss
<1>2. hashv' = hashv /\ HASH_FIND(k) = NULL
  BY DEF Miss
<1>3. hashv \in [Keys -> Nat]
  BY HashIsFunction
<1>4. PICK f2, hd2, m2, h1, A1 : /\ f2 = hashv' /\ hd2 = head' /\ m2 = HASH_ADD(k, e)
                                 /\ h1 = hh /\ A1 = allocated
  OBVIOUS
<1>n. NULL \notin Elements
  BY UtHashAssumptions
<1>5. CASE head = NULL
  <2>1. allocated = {} /\ n = 0
    BY <1>5 DEF Holds
  <2>2. PICK s2 : s2 = [i \in 1 .. 1 |-> e]
    OBVIOUS
  <2>3. Adds(hashv, e, HASH_ADD(k, e), hh, {}, k, e, 1, [i \in 1 .. 1 |-> e])
    BY <1>3, <1>5, AddFirst, e \in Elements
  <2>4. PICK t3, h3, M : /\ HASH_ADD(k, e) = [tbl |-> t3, hh |-> h3]
                         /\ Shape(hashv, e, t3, h3, {} \cup {e}, {} \cup {e}, M, 1, s2)
                         /\ InBounds(t3, M)
                         /\ \A x \in Elements : h3[x].key = IF x = e THEN k ELSE hh[x].key
    BY <2>2, <2>3 DEF Adds
  <2>5. tbl' = t3 /\ hh' = h3 /\ head' = e /\ allocated' = {} \cup {e}
    BY <1>1, <1>5, <2>1, <2>4
  <2>6. Shape(hashv', head', tbl', hh', allocated', allocated', M, 1, s2) /\ InBounds(tbl', M)
    BY <1>2, <2>4, <2>5
  <2>7. Appended(s, n, e) = s2 /\ n + 1 = 1
    BY <2>1, <2>2 DEF Appended
  <2>8. Holds(hashv', head', tbl', hh', allocated', n + 1, Appended(s, n, e))
    BY <1>n, <2>5, <2>6, <2>7 DEF Holds
  <2>9. hh' \in [Elements -> Handle]
    BY <2>6 DEF Shape
  <2> QED
    BY <1>1, <2>1, <2>4, <2>5, <2>8, <2>9
<1>6. CASE head # NULL
  <2>1. PICK N : Shape(hashv, head, tbl, hh, allocated, allocated, N, n, s) /\ InBounds(tbl, N)
    BY <1>6 DEF Holds
  <2>2. \A a \in allocated : hh[a].key # k
    BY <1>2, <1>3, <1>6, <2>1, FindProperties
  <2>3. PICK s2 : s2 = Appended(s, n, e)
    OBVIOUS
  <2>4. Adds(hashv, head, HASH_ADD(k, e), hh, allocated, k, e, n + 1, Appended(s, n, e))
    BY <1>3, <1>6, <2>1, <2>2, AddNext
  <2>5. PICK t3, h3, M :
           /\ HASH_ADD(k, e) = [tbl |-> t3, hh |-> h3]
           /\ Shape(hashv, head, t3, h3, allocated \cup {e}, allocated \cup {e}, M, n + 1, s2)
           /\ InBounds(t3, M)
           /\ \A x \in Elements : h3[x].key = IF x = e THEN k ELSE hh[x].key
    BY <2>3, <2>4 DEF Adds
  <2>6. tbl' = t3 /\ hh' = h3 /\ head' = head /\ allocated' = allocated \cup {e}
    BY <1>1, <1>6, <2>5
  <2>7. Shape(hashv', head', tbl', hh', allocated', allocated', M, n + 1, s2) /\ InBounds(tbl', M)
    BY <1>2, <2>5, <2>6
  <2>8. Holds(hashv', head', tbl', hh', allocated', n + 1, Appended(s, n, e))
    BY <1>6, <2>3, <2>6, <2>7 DEF Holds
  <2>9. hh' \in [Elements -> Handle]
    BY <2>7 DEF Shape
  <2> QED
    BY <1>1, <2>2, <2>5, <2>6, <2>8, <2>9
<1> QED
  BY <1>5, <1>6

(* The body of HASH_ITER takes out the first element. *)
LEMMA DeleteStep ==
    ASSUME hashv \in HashFunctions, hh \in [Elements -> Handle],
           allocated \in SUBSET Elements, NEW n, NEW s,
           Holds(hashv, head, tbl, hh, allocated, n, s), Cursor, IterDelete
    PROVE  /\ n > 0 /\ head # NULL
           /\ Holds(hashv', head', tbl', hh', allocated', n - 1, Without(s, n, 1))
           /\ allocated' = allocated \ {head} /\ hh' \in [Elements -> Handle]
           /\ \A x \in Elements \ {head} : hh'[x].key = hh[x].key
           /\ head' = hh[head].next /\ hashv' = hashv /\ pc' = "iter"
           /\ el' = tmp /\ tmp' = IF tmp = NULL THEN NULL ELSE hh'[tmp].next
<1>1. pc = "iter" /\ el = head /\ head # NULL /\ HASH_DELETE_HH(head)
  BY DEF IterDelete, Cursor
<1>2. PICK N : Shape(hashv, head, tbl, hh, allocated, allocated, N, n, s) /\ InBounds(tbl, N)
  BY <1>1 DEF Holds
<1>3. /\ tbl \in Table(N) /\ N \in Nat \ {0} /\ IsList(s, n, head, NextOf(hh), PrevOf(hh)) /\ n > 0
      /\ \A a \in Elements : On(s, n, a) <=> a \in allocated
  BY <1>2 DEF Shape
<1>4. n \in Nat /\ s \in [1 .. n -> Elements] /\ head = s[1] /\ head \in Elements
      /\ NULL \notin Elements
  BY <1>3, UtHashAssumptions DEF IsList
<1>5. hh[head].prev = NULL /\ hh[head].next = IF 1 = n THEN NULL ELSE s[2]
  <2>1. NextOf(hh)[s[1]] = (IF 1 = n THEN NULL ELSE s[1 + 1]) /\ PrevOf(hh)[s[1]] = NULL
    BY <1>3, <1>4 DEF IsList
  <2>2. 1 + 1 = 2
    OBVIOUS
  <2> QED
    BY <1>4, <2>1, <2>2, PointerLinks
<1>6. hashv' = hashv /\ pc' = "iter" /\ allocated' = allocated \ {head}
      /\ el' = tmp /\ tmp' = IF tmp = NULL THEN NULL ELSE hh'[tmp].next
  BY <1>1 DEF IterDelete, HASH_DELETE_HH
<1>7. CASE n = 1
  <2>1. hh[head].next = NULL
    BY <1>5, <1>7
  <2>2. head' = NULL /\ tbl' = NoTable /\ hh' = [hh EXCEPT ![head] = Blank]
    BY <1>1, <1>5, <2>1 DEF HASH_DELETE_HH
  <2>3. allocated' = {}
    <3>1. ASSUME NEW a \in allocated PROVE a = head
      <4>1. On(s, n, a)
        BY <1>3
      <4> QED
        BY <1>4, <1>7, <4>1 DEF On
    <3> QED
      BY <1>6, <3>1
  <2>4. Without(s, n, 1) = NoElements /\ n - 1 = 0
    BY <1>7 DEF Without, NoElements
  <2>5. Blank \in Handle
    BY DEF Blank, Handle, Pointer
  <2>6. hh' \in [Elements -> Handle] /\ \A x \in Elements \ {head} : hh'[x].key = hh[x].key
    BY <2>2, <2>5
  <2>7. Holds(hashv', head', tbl', hh', allocated', n - 1, Without(s, n, 1))
    BY <2>2, <2>3, <2>4 DEF Holds
  <2> QED
    BY <1>1, <1>3, <1>6, <2>1, <2>2, <2>6, <2>7
<1>8. CASE n # 1
  <2>1. 2 \in 1 .. n /\ n > 1
    BY <1>3, <1>4, <1>8
  <2>2. hh[head].next # NULL /\ hh[head].next = s[2]
    BY <1>4, <1>5, <1>8, <2>1
  <2>3. PICK b : b = hashv[hh[head].key] % N
    OBVIOUS
  <2>4. PICK m2 : m2 = Shorter(tbl, hh, head, b)
    OBVIOUS
  <2>5. HASH_TO_BKT(hh[head].key, tbl.num_buckets) = b
    BY <1>3, <2>3 DEF HASH_TO_BKT, HASH_VALUE, Table
  <2>6. head' = hh[head].next /\ tbl' = m2.tbl /\ hh' = m2.hh
    BY <1>1, <1>5, <2>2, <2>4, <2>5 DEF HASH_DELETE_HH, Shorter, Memory
  <2>7. Removed(hashv, head, hh, allocated, N, n, s, m2)
    <3>1. hashv \in [Keys -> Nat] /\ n > 1
      BY <2>1, HashIsFunction
    <3> QED
      BY <1>2, <2>3, <2>4, <3>1, HeadRemoved
  <2>8. Shape(hashv', head', tbl', hh', allocated', allocated', N, n - 1, Without(s, n, 1))
        /\ InBounds(tbl', N) /\ \A x \in Elements \ {head} : hh'[x].key = hh[x].key
    BY <1>6, <2>6, <2>7 DEF Removed
  <2>9. Holds(hashv', head', tbl', hh', allocated', n - 1, Without(s, n, 1))
    BY <2>2, <2>6, <2>8 DEF Holds
  <2>10. hh' \in [Elements -> Handle]
    BY <2>8 DEF Shape
  <2> QED
    BY <1>1, <1>3, <1>6, <2>6, <2>8, <2>9, <2>10
<1> QED
  BY <1>7, <1>8

LEMMA HashInvInit == Init => HashInv
<1> SUFFICES ASSUME Init PROVE HashInv
  OBVIOUS
<1>1. /\ hashv \in HashFunctions /\ head = NULL /\ allocated = {} /\ pc = "idle" /\ el = NULL
      /\ tmp = NULL /\ hh = [e \in Elements |-> Blank]
  BY DEF Init
<1>2. hh \in [Elements -> Handle]
  <2>1. Blank \in Handle
    BY DEF Blank, Handle, Pointer
  <2> QED
    BY <1>1, <2>1
<1>3. Holds(hashv, head, tbl, hh, allocated, 0, NoElements)
  BY <1>1 DEF Holds
<1> QED
  BY <1>1, <1>2, <1>3 DEF HashInv, Cursor

LEMMA HashInvStep == HashInv /\ [Next]_vars => HashInv'
<1> SUFFICES ASSUME HashInv, [Next]_vars PROVE HashInv'
  OBVIOUS
<1>1. /\ hashv \in HashFunctions /\ hh \in [Elements -> Handle] /\ allocated \in SUBSET Elements
      /\ Cursor
  BY DEF HashInv
<1>2. PICK n, s : Holds(hashv, head, tbl, hh, allocated, n, s)
  BY DEF HashInv
<1>3. CASE UNCHANGED vars
  BY <1>1, <1>2, <1>3 DEF HashInv, Cursor, vars
<1>4. ASSUME NEW k \in Keys, Hit(k) PROVE HashInv'
  BY <1>3, <1>4 DEF Hit
<1>5. ASSUME NEW k \in Keys, Miss(k) PROVE HashInv'
  <2>1. PICK e \in Elements \ allocated :
          /\ Holds(hashv', head', tbl', hh', allocated', n + 1, Appended(s, n, e))
          /\ allocated' = allocated \cup {e} /\ hh' \in [Elements -> Handle]
    BY <1>1, <1>2, <1>5, MissStep
  <2>2. pc = "idle" /\ pc' = pc /\ el' = el /\ tmp' = tmp /\ hashv' = hashv
    BY <1>5 DEF Miss
  <2>3. Cursor'
    BY <1>1, <2>2 DEF Cursor
  <2> QED
    BY <1>1, <2>1, <2>2, <2>3 DEF HashInv
<1>6. ASSUME NEW k \in Keys, OutOfMemory(k) PROVE HashInv'
  BY <1>1, <1>2, <1>6 DEF OutOfMemory, HashInv, Cursor
<1>7. CASE IterBegin
  BY <1>1, <1>2, <1>7 DEF IterBegin, HashInv, Cursor
<1>8. CASE IterDelete
  <2>1. /\ Holds(hashv', head', tbl', hh', allocated', n - 1, Without(s, n, 1))
        /\ allocated' = allocated \ {head} /\ hh' \in [Elements -> Handle]
        /\ head # NULL /\ head' = hh[head].next /\ hashv' = hashv /\ pc' = "iter"
        /\ el' = tmp /\ tmp' = IF tmp = NULL THEN NULL ELSE hh'[tmp].next
    BY <1>1, <1>2, <1>8, DeleteStep
  <2>2. tmp = hh[head].next
    BY <1>1, <1>8, <2>1 DEF Cursor, IterDelete
  <2>3. Cursor'
    BY <2>1, <2>2 DEF Cursor
  <2> QED
    BY <1>1, <2>1, <2>3 DEF HashInv
<1>9. CASE IterEnd
  <2>1. head = NULL /\ tmp = NULL /\ el = NULL
    BY <1>1, <1>9 DEF IterEnd, Cursor
  <2> QED
    BY <1>1, <1>2, <1>9, <2>1 DEF IterEnd, HashInv, Cursor
<1>10. CASE Exited
  BY <1>3, <1>10 DEF Exited
<1> QED
  BY <1>3, <1>4, <1>5, <1>6, <1>7, <1>8, <1>9, <1>10 DEF Next

(* The invariant holds in every reachable state. *)
LEMMA HashInvariant == Spec => []HashInv
BY HashInvInit, HashInvStep, PTL DEF Spec

-----------------------------------------------------------------------------
(* What follows from the invariant.                                        *)

(* The list that the code walks has exactly the allocated elements. *)
LEMMA OrderIsList ==
    ASSUME hh \in [Elements -> Handle], allocated \in SUBSET Elements, NEW n, NEW s,
           Holds(hashv, head, tbl, hh, allocated, n, s)
    PROVE  AppOrder = s /\ DOMAIN AppOrder = 1 .. n /\ ToSet(AppOrder) = allocated
<1>0. Listed(head, hh, allocated, n, s)
  BY HoldsProperties
<1>1. /\ n \in Nat /\ s \in [1 .. n -> Elements] /\ Nodes(head, NextOf(hh)) = s
      /\ \A e \in Elements : On(s, n, e) <=> e \in allocated
      /\ \A i \in 1 .. n : s[i] \in allocated
  BY <1>0 DEF Listed
<1>2. AppOrder = s
  BY <1>1 DEF AppOrder
<1>3. ToSet(s) = {s[i] : i \in 1 .. n}
  BY <1>1 DEF ToSet
<1>4. {s[i] : i \in 1 .. n} = allocated
  BY <1>1 DEF On
<1> QED
  BY <1>1, <1>2, <1>3, <1>4

LEMMA TypesHold == HashInv => TypeOK
<1> SUFFICES ASSUME HashInv PROVE TypeOK
  OBVIOUS
<1>1. /\ hh \in [Elements -> Handle] /\ allocated \in SUBSET Elements /\ Cursor
  BY DEF HashInv
<1>2. PICK n, s : Holds(hashv, head, tbl, hh, allocated, n, s)
  BY DEF HashInv
<1>3. /\ n \in Nat /\ s \in [1 .. n -> Elements]
      /\ head = (IF n = 0 THEN NULL ELSE s[1])
  <2>1. Listed(head, hh, allocated, n, s)
    BY <1>1, <1>2, HoldsProperties
  <2> QED
    BY <2>1 DEF Listed
<1>4. head \in Pointer
  BY <1>3 DEF Pointer
<1>5. el \in Pointer /\ tmp \in Pointer
  <2>1. NULL \in Pointer
    BY DEF Pointer
  <2>2. CASE pc = "iter"
    <3>1. CASE head = NULL
      BY <1>1, <2>1, <2>2, <3>1 DEF Cursor
    <3>2. CASE head # NULL
      <4>1. head \in Elements
        BY <1>4, <3>2 DEF Pointer
      <4>2. hh[head].next \in Pointer
        BY <1>1, <4>1 DEF Handle
      <4> QED
        BY <1>1, <1>4, <2>2, <3>2, <4>2 DEF Cursor
    <3> QED
      BY <3>1, <3>2
  <2>3. CASE pc # "iter"
    BY <1>1, <2>1, <2>3 DEF Cursor
  <2> QED
    BY <2>2, <2>3
<1>6. ASSUME head # NULL
      PROVE  /\ tbl.num_buckets = Pow2(tbl.log2_num_buckets)
             /\ tbl.buckets \in [0 .. tbl.num_buckets - 1 -> Bucket]
  <2>1. PICK N : tbl \in Table(N) /\ N = Pow2(tbl.log2_num_buckets)
    BY <1>2, <1>6 DEF Holds, Shape
  <2> QED
    BY <2>1 DEF Table
<1> QED
  BY <1>1, <1>4, <1>5, <1>6 DEF TypeOK, Handle, Bucket

(* Types.  What the macros of uthash.h write into handles, buckets and the *)
(* table stays well formed, and the number of buckets is the power of two  *)
(* that HASH_TO_BKT takes it for.                                          *)
THEOREM HashTypes == Spec => []TypeOK
<1>1. HashInv => TypeOK
  BY TypesHold
<1> QED
  BY <1>1, HashInvariant, PTL

LEMMA LookupsHold == HashInv => FindExact
<1> SUFFICES ASSUME HashInv, NEW k \in Keys
             PROVE  {e \in ToSet(AppOrder) : hh[e].key = k}
                        = IF HASH_FIND(k) = NULL THEN {} ELSE {HASH_FIND(k)}
  BY DEF FindExact
<1>1. hh \in [Elements -> Handle] /\ allocated \in SUBSET Elements /\ hashv \in [Keys -> Nat]
  BY HashIsFunction DEF HashInv
<1>2. PICK n, s : Holds(hashv, head, tbl, hh, allocated, n, s)
  BY DEF HashInv
<1>3. ToSet(AppOrder) = allocated
  BY <1>1, <1>2, OrderIsList
<1>4. Distinct(hh, allocated)
  <2>1. Listed(head, hh, allocated, n, s)
    BY <1>1, <1>2, HoldsProperties
  <2> QED
    BY <2>1 DEF Listed
<1>5. /\ HASH_FIND(k) = NULL => \A a \in allocated : hh[a].key # k
      /\ HASH_FIND(k) # NULL => HASH_FIND(k) \in allocated /\ hh[HASH_FIND(k)].key = k
  <2>1. CASE head = NULL
    BY <1>2, <2>1 DEF HASH_FIND, Holds
  <2>2. CASE head # NULL
    <3>1. PICK N : Shape(hashv, head, tbl, hh, allocated, allocated, N, n, s)
      BY <1>2, <2>2 DEF Holds
    <3> QED
      BY <1>1, <2>2, <3>1, FindProperties
  <2> QED
    BY <2>1, <2>2
<1>6. PICK found : found = HASH_FIND(k)
  OBVIOUS
<1>7. CASE found = NULL
  BY <1>3, <1>5, <1>6, <1>7
<1>8. CASE found # NULL
  <2>1. found \in allocated /\ hh[found].key = k
    BY <1>5, <1>6, <1>8
  <2>2. \A e \in allocated : hh[e].key = k => e = found
    BY <1>4, <2>1 DEF Distinct
  <2>3. {e \in allocated : hh[e].key = k} = {found}
    BY <2>1, <2>2
  <2> QED
    BY <1>3, <1>6, <1>8, <2>3
<1> QED
  BY <1>7, <1>8

(* Lookups.  HASH_FIND (uthash.h) finds the element of a key if and only if *)
(* it is in the table, for every hash function and after any number of      *)
(* expansions: a flow is never added twice.                                 *)
THEOREM LookupsAreExact == Spec => []FindExact
<1>1. HashInv => FindExact
  BY LookupsHold
<1> QED
  BY <1>1, HashInvariant, PTL

LEMMA ChainsInBounds == HashInv => ChainsBounded
<1> SUFFICES ASSUME HashInv, head # NULL, ~tbl.noexpand, NEW b \in DOMAIN tbl.buckets
             PROVE  \/ tbl.buckets[b].count <= (tbl.buckets[b].expand_mult + 1) * Threshold
                    \/ tbl.buckets[b].count
                           <= (tbl.buckets[b].expand_mult + 1) * tbl.ideal_chain_maxlen
  BY DEF ChainsBounded
<1>1. PICK n, s : Holds(hashv, head, tbl, hh, allocated, n, s)
  BY DEF HashInv
<1>2. PICK N : tbl \in Table(N) /\ InBounds(tbl, N)
  BY <1>1 DEF Holds, Shape
<1>3. b \in 0 .. N - 1
  BY <1>2 DEF Table
<1> QED
  BY <1>2, <1>3 DEF InBounds, Bounded

(* Lengths.  Until HASH_EXPAND_BUCKETS has given up, no chain is longer than *)
(* its bucket's multiple of the threshold or of the ideal length.           *)
THEOREM ChainsAreBounded == Spec => []ChainsBounded
<1>1. HashInv => ChainsBounded
  BY ChainsInBounds
<1> QED
  BY <1>1, HashInvariant, PTL

(* The links of a list whose elements are in A lead to elements of A. *)
LEMMA LinksStay ==
    ASSUME NEW s, NEW n, NEW first, NEW succ, NEW pred, IsList(s, n, first, succ, pred),
           NEW A, \A i \in 1 .. n : s[i] \in A
    PROVE  /\ first \in A \cup {NULL}
           /\ \A i \in 1 .. n : succ[s[i]] \in A \cup {NULL} /\ pred[s[i]] \in A \cup {NULL}
<1>1. /\ n \in Nat /\ first = IF n = 0 THEN NULL ELSE s[1]
      /\ \A i \in 1 .. n : /\ succ[s[i]] = IF i = n THEN NULL ELSE s[i + 1]
                           /\ pred[s[i]] = IF i = 1 THEN NULL ELSE s[i - 1]
  BY DEF IsList
<1>2. n # 0 => 1 \in 1 .. n
  BY <1>1
<1>3. ASSUME NEW i \in 1 .. n PROVE succ[s[i]] \in A \cup {NULL} /\ pred[s[i]] \in A \cup {NULL}
  <2>1. (i # n => i + 1 \in 1 .. n) /\ (i # 1 => i - 1 \in 1 .. n)
    BY <1>1
  <2> QED
    BY <1>1, <2>1
<1> QED
  BY <1>1, <1>2, <1>3

LEMMA NothingLost == HashInv => NoDangling
<1> SUFFICES ASSUME HashInv PROVE NoDangling
  OBVIOUS
<1>1. hh \in [Elements -> Handle] /\ allocated \in SUBSET Elements /\ hashv \in [Keys -> Nat] /\ Cursor
  BY HashIsFunction DEF HashInv
<1>2. PICK n, s : Holds(hashv, head, tbl, hh, allocated, n, s)
  BY DEF HashInv
<1>3. ToSet(AppOrder) = allocated
  BY <1>1, <1>2, OrderIsList
<1>4. /\ n \in Nat /\ \A i \in 1 .. n : s[i] \in allocated
      /\ \A e \in Elements : On(s, n, e) <=> e \in allocated
      /\ IsList(s, n, head, NextOf(hh), PrevOf(hh))
  <2>1. Listed(head, hh, allocated, n, s)
    BY <1>1, <1>2, HoldsProperties
  <2> QED
    BY <2>1 DEF Listed
<1>5. PICK live : live = allocated \cup {NULL}
  OBVIOUS
<1>6. head \in live
  BY <1>4, <1>5, LinksStay
<1>7. \A e \in allocated : hh[e].next \in live /\ hh[e].prev \in live
  <2> TAKE e \in allocated
  <2>1. PICK i \in 1 .. n : s[i] = e
    BY <1>1, <1>4 DEF On
  <2>2. NextOf(hh)[s[i]] \in live /\ PrevOf(hh)[s[i]] \in live
    BY <1>4, <1>5, LinksStay
  <2> QED
    BY <1>1, <2>1, <2>2, PointerLinks
<1>8. el \in live /\ tmp \in live
  BY <1>1, <1>5, <1>6, <1>7 DEF Cursor
<1>9. ASSUME head # NULL
      PROVE  /\ tbl.tail \in live /\ \A b \in DOMAIN tbl.buckets : tbl.buckets[b].hh_head \in live
             /\ \A e \in allocated : hh[e].hh_next \in live /\ hh[e].hh_prev \in live
  <2>1. PICK N : Shape(hashv, head, tbl, hh, allocated, allocated, N, n, s)
    BY <1>2, <1>9 DEF Holds
  <2>2. /\ N \in Nat \ {0} /\ tbl \in Table(N) /\ n > 0 /\ tbl.tail = s[n]
        /\ Chained(hashv, tbl.buckets, hh, N, allocated) /\ Distinct(hh, allocated)
    BY <2>1 DEF Shape
  <2>3. tbl.tail \in live
    BY <1>4, <1>5, <2>2
  <2>4. PICK C : \A b \in 0 .. N - 1 :
           /\ IsList(C[b], tbl.buckets[b].count, tbl.buckets[b].hh_head, HhNextOf(hh), HhPrevOf(hh))
           /\ \A e \in Elements : On(C[b], tbl.buckets[b].count, e)
                                     <=> e \in allocated /\ hashv[hh[e].key] % N = b
    BY <2>2 DEF Chained
  <2>5. ASSUME NEW b \in 0 .. N - 1
        PROVE  /\ tbl.buckets[b].hh_head \in live
               /\ \A i \in 1 .. tbl.buckets[b].count :
                     HhNextOf(hh)[C[b][i]] \in live /\ HhPrevOf(hh)[C[b][i]] \in live
    <3>1. PICK m, c : /\ m \in Nat /\ c \in [1 .. m -> Elements]
                      /\ m = tbl.buckets[b].count /\ c = C[b]
      BY <2>4 DEF IsList
    <3>2. \A i \in 1 .. m : c[i] \in allocated
      <4> TAKE i \in 1 .. m
      <4>1. On(c, m, c[i]) /\ c[i] \in Elements
        BY <3>1 DEF On
      <4> QED
        BY <2>4, <3>1, <4>1
    <3>3. IsList(c, m, tbl.buckets[b].hh_head, HhNextOf(hh), HhPrevOf(hh))
      BY <2>4, <3>1
    <3> QED
      BY <1>5, <3>1, <3>2, <3>3, LinksStay
  <2>6. DOMAIN tbl.buckets = 0 .. N - 1
    BY <2>2 DEF Table
  <2>7. ASSUME NEW e \in allocated PROVE hh[e].hh_next \in live /\ hh[e].hh_prev \in live
    <3>1. PICK v \in Int : v = hashv[hh[e].key]
      BY <1>1, <2>2 DEF Distinct
    <3>2. PICK b \in 0 .. N - 1 : b = hashv[hh[e].key] % N
      BY <2>2, <3>1, DivMod
    <3>3. PICK i \in 1 .. tbl.buckets[b].count : C[b][i] = e
      BY <1>1, <2>4, <3>2 DEF On
    <3> QED
      BY <1>1, <2>5, <3>3, PointerLinks
  <2> QED
    BY <2>3, <2>5, <2>6, <2>7
<1>10. \A e \in allocated : hh[e].hh_next \in live /\ hh[e].hh_prev \in live
  <2>1. head = NULL => allocated = {}
    BY <1>2 DEF Holds
  <2> QED
    BY <1>9, <2>1
<1>11. LivePointers \subseteq live
  <2>1. PICK P : P = UNION {{hh[e].prev, hh[e].next, hh[e].hh_prev, hh[e].hh_next}
                                : e \in allocated}
    OBVIOUS
  <2>2. PICK Q : Q = IF head = NULL THEN {}
                     ELSE {tbl.tail} \cup {tbl.buckets[b].hh_head : b \in DOMAIN tbl.buckets}
    OBVIOUS
  <2>3. {head, el, tmp} \subseteq live
    BY <1>6, <1>8
  <2>4. LivePointers = {head, el, tmp} \cup P \cup Q
    BY <2>1, <2>2, Zenon DEF LivePointers
  <2>5. ASSUME NEW p \in P PROVE p \in live
    <3>1. PICK e \in allocated : p \in {hh[e].prev, hh[e].next, hh[e].hh_prev, hh[e].hh_next}
      BY <2>1, Zenon
    <3> QED
      BY <1>7, <1>10, <3>1
  <2>6. ASSUME NEW p \in Q PROVE p \in live
    <3>1. head # NULL /\ (p = tbl.tail \/ \E b \in DOMAIN tbl.buckets : p = tbl.buckets[b].hh_head)
      BY <2>2
    <3> QED
      BY <1>9, <3>1
  <2> QED
    BY <2>3, <2>4, <2>5, <2>6
<1> QED
  BY <1>3, <1>5, <1>11 DEF NoDangling

(* Memory.  After HASH_DEL and free() no pointer that HASH_ITER or the macros *)
(* follow names a freed element, and every element that has not been freed    *)
(* can still be reached from the table.                                       *)
THEOREM NothingDangles == Spec => []NoDangling
<1>1. HashInv => NoDangling
  BY NothingLost
<1> QED
  BY <1>1, HashInvariant, PTL

(* A list without repetitions has as many elements as it is long. *)
LEMMA ListCount ==
    ASSUME NEW s, NEW n, NEW first, NEW succ, NEW pred, IsList(s, n, first, succ, pred),
           NEW S \in SUBSET Elements, \A e \in Elements : On(s, n, e) <=> e \in S
    PROVE  IsFiniteSet(S) /\ Cardinality(S) = n
<1>1. n \in Nat /\ s \in [1 .. n -> Elements] /\ \A i, j \in 1 .. n : s[i] = s[j] => i = j
  BY DEF IsList
<1>2. \A i \in 1 .. n : s[i] \in S
  <2> TAKE i \in 1 .. n
  <2>1. On(s, n, s[i]) /\ s[i] \in Elements
    BY <1>1 DEF On
  <2> QED
    BY <2>1
<1>3. s \in [1 .. n -> S]
  BY <1>1, <1>2
<1>4. s \in Bijection(1 .. n, S)
  <2>1. \A e \in S : \E i \in 1 .. n : s[i] = e
    BY DEF On
  <2> QED
    BY <1>1, <1>3, <2>1 DEF Bijection, Injection, Surjection, IsInjective
<1>5. ExistsBijection(1 .. n, S)
  BY <1>4 DEF ExistsBijection
<1>6. Cardinality(S) = n
  BY <1>1, <1>5, FS_CountingElements
<1>7. IsFiniteSet(S)
  BY <1>1, <1>5, FS_NatBijection
<1> QED
  BY <1>6, <1>7

LEMMA DisjointUnion ==
    ASSUME NEW S, IsFiniteSet(S), NEW T, IsFiniteSet(T), S \cap T = {}
    PROVE  IsFiniteSet(S \cup T) /\ Cardinality(S \cup T) = Cardinality(S) + Cardinality(T)
<1>1. /\ IsFiniteSet(S \cup T)
      /\ Cardinality(S \cup T) = Cardinality(S) + Cardinality(T) - Cardinality(S \cap T)
  BY FS_Union
<1>2. Cardinality(S \cap T) = 0
  BY FS_EmptySet
<1>3. Cardinality(S) \in Nat /\ Cardinality(T) \in Nat
  BY FS_CardinalityType
<1> QED
  BY <1>1, <1>2, <1>3

\* len[b + 1] is the number of elements in bucket b.
Counted(f, N, h, A, len) ==
    \A b \in 0 .. N - 1 : LET S == {e \in A : f[h[e].key] % N = b}
                          IN  IsFiniteSet(S) /\ Cardinality(S) = len[b + 1]

(* Together the chains are as long as there are elements. *)
LEMMA ChainsTotal ==
    ASSUME NEW f \in [Keys -> Nat], NEW N \in Nat \ {0}, NEW h, NEW A \in SUBSET Elements,
           \A e \in A : h[e].key \in Keys, NEW len, NEW g, IsRunningSum(g, len, N),
           Counted(f, N, h, A, len)
    PROVE  g[N] = Cardinality(A)
<1> DEFINE T == {n \in Nat : n <= N => /\ IsFiniteSet(Before(f, N, h, A, n))
                                       /\ Cardinality(Before(f, N, h, A, n)) = g[n]}
<1>v. \A e \in A : f[h[e].key] % N \in 0 .. N - 1
  <2> TAKE e \in A
  <2>1. PICK v \in Int : v = f[h[e].key]
    OBVIOUS
  <2> QED
    BY <2>1, DivMod
<1>1. 0 \in T
  <2>1. Before(f, N, h, A, 0) = {}
    BY <1>v DEF Before
  <2>2. g[0] = 0
    BY DEF IsRunningSum
  <2> QED
    BY <2>1, <2>2, FS_EmptySet
<1>2. ASSUME NEW n \in Nat, n \in T PROVE n + 1 \in T
  <2> SUFFICES ASSUME n + 1 <= N
               PROVE  /\ IsFiniteSet(Before(f, N, h, A, n + 1))
                      /\ Cardinality(Before(f, N, h, A, n + 1)) = g[n + 1]
    OBVIOUS
  <2>1. PICK B : B = Before(f, N, h, A, n) /\ IsFiniteSet(B) /\ Cardinality(B) = g[n]
    BY <1>2
  <2>2. PICK S : S = {e \in A : f[h[e].key] % N = n} /\ IsFiniteSet(S) /\ Cardinality(S) = len[n + 1]
    <3>1. n \in 0 .. N - 1
      OBVIOUS
    <3> QED
      BY <3>1 DEF Counted
  <2>3. Before(f, N, h, A, n + 1) = B \cup S
    BY <1>v, <2>1, <2>2 DEF Before
  <2>4. B \cap S = {}
    BY <1>v, <2>1, <2>2 DEF Before
  <2>5. g[n + 1] = g[n] + len[n + 1]
    BY DEF IsRunningSum
  <2>6. IsFiniteSet(B \cup S) /\ Cardinality(B \cup S) = Cardinality(B) + Cardinality(S)
    BY <2>1, <2>2, <2>4, DisjointUnion
  <2> QED
    BY <2>1, <2>2, <2>3, <2>5, <2>6
<1> HIDE DEF T
<1>3. Nat \subseteq T
  BY <1>1, <1>2, NatSetInduction
<1>4. Cardinality(Before(f, N, h, A, N)) = g[N]
  BY <1>3 DEF T
<1>5. Before(f, N, h, A, N) = A
  BY <1>v DEF Before
<1> QED
  BY <1>4, <1>5

LEMMA IntegrityHolds == HashInv => Integrity
<1> SUFFICES ASSUME HashInv, head # NULL PROVE HASH_FSCK
  BY DEF Integrity
<1>1. hh \in [Elements -> Handle] /\ allocated \in SUBSET Elements /\ hashv \in [Keys -> Nat]
  BY HashIsFunction DEF HashInv
<1>2. PICK n, s : Holds(hashv, head, tbl, hh, allocated, n, s)
  BY DEF HashInv
<1>3. PICK N : Shape(hashv, head, tbl, hh, allocated, allocated, N, n, s)
  BY <1>2 DEF Holds
<1>4. /\ N \in Nat \ {0} /\ tbl \in Table(N) /\ tbl.num_buckets = N /\ tbl.num_items = n
      /\ Chained(hashv, tbl.buckets, hh, N, allocated) /\ Distinct(hh, allocated)
      /\ IsList(s, n, head, NextOf(hh), PrevOf(hh))
      /\ \A e \in Elements : On(s, n, e) <=> e \in allocated
  BY <1>3 DEF Shape, Table
<1>5. /\ AppOrder = s /\ DOMAIN AppOrder = 1 .. n
  BY <1>1, <1>2, OrderIsList
<1>6. n \in Nat /\ s \in [1 .. n -> Elements] /\ Len(s) = n
  BY <1>4, LenOfFunction DEF IsList
<1>7. BackPointers(AppOrder, [e \in Elements |-> hh[e].prev])
  BY <1>4, <1>5 DEF BackPointers, IsList, PrevOf
<1>8. Memory.tbl = tbl /\ Memory.hh = hh
  BY DEF Memory
<1>9. PICK C : ChainsAre(hashv, Memory, N, allocated, C)
  <2>1. Memory.hh \in [Elements -> Handle]
        /\ Chained(hashv, Memory.tbl.buckets, Memory.hh, N, allocated)
    BY <1>1, <1>4, <1>8
  <2> QED
    BY <1>1, <1>4, <2>1, ChainsFound
<1>10. \A b \in 0 .. N - 1 :
         /\ C[b] = Chain(Memory, b)
         /\ IsList(C[b], tbl.buckets[b].count, tbl.buckets[b].hh_head, HhNextOf(hh), HhPrevOf(hh))
         /\ \A e \in Elements : On(C[b], tbl.buckets[b].count, e)
                                   <=> e \in allocated /\ hashv[hh[e].key] % N = b
  BY <1>8, <1>9 DEF ChainsAre
<1> DEFINE chains == [b \in 0 .. tbl.num_buckets - 1 |-> Chain(Memory, b)]
           B(g) == [i \in 0 .. tbl.num_buckets |->
                      IF i = 0 THEN 0 ELSE g[i - 1] + Len(chains[i - 1])]
           total == CHOOSE g : g = B(g)
<1>11. ASSUME NEW b \in 0 .. N - 1
       PROVE  /\ BackPointers(chains[b], [e \in Elements |-> hh[e].hh_prev])
              /\ tbl.buckets[b].count = Len(chains[b])
              /\ LET S == {e \in allocated : hashv[hh[e].key] % N = b}
                 IN  IsFiniteSet(S) /\ Cardinality(S) = Len(chains[b])
  <2>1. PICK m, c, fst : m = tbl.buckets[b].count /\ c = C[b] /\ fst = tbl.buckets[b].hh_head
    OBVIOUS
  <2>2. /\ chains[b] = c /\ IsList(c, m, fst, HhNextOf(hh), HhPrevOf(hh))
        /\ \A e \in Elements : On(c, m, e) <=> e \in allocated /\ hashv[hh[e].key] % N = b
    BY <1>4, <1>10, <2>1
  <2>3. /\ m \in Nat /\ c \in [1 .. m -> Elements]
        /\ \A i \in 1 .. m : HhPrevOf(hh)[c[i]] = IF i = 1 THEN NULL ELSE c[i - 1]
    BY <2>2 DEF IsList
  <2>4. Len(c) = m /\ DOMAIN c = 1 .. m
    BY <2>3, LenOfFunction
  <2>5. BackPointers(c, [e \in Elements |-> hh[e].hh_prev])
    BY <2>3, <2>4 DEF BackPointers, HhPrevOf
  <2>6. PICK S : S = {e \in allocated : hashv[hh[e].key] % N = b} /\ S \in SUBSET Elements
    BY <1>1
  <2>7. \A e \in Elements : On(c, m, e) <=> e \in S
    BY <2>2, <2>6
  <2>8. IsFiniteSet(S) /\ Cardinality(S) = m
    BY <2>2, <2>6, <2>7, ListCount
  <2> QED
    BY <2>1, <2>2, <2>4, <2>5, <2>6, <2>8
<1>12. PICK len : len = [i \in 1 .. N |-> Len(chains[i - 1])]
  OBVIOUS
<1> HIDE DEF chains
<1>13. PICK w : IsRunningSum(w, len, N)
  BY <1>4, RunningSumExists
<1>s. \A i \in 1 .. N : len[i] = Len(chains[i - 1])
  BY <1>12
<1>14. w = B(w)
  <2>1. w = [i \in 0 .. N |-> IF i = 0 THEN 0 ELSE w[i - 1] + len[i]]
    BY <1>13 DEF IsRunningSum
  <2>2. \A i \in 0 .. N : (IF i = 0 THEN 0 ELSE w[i - 1] + len[i])
                            = (IF i = 0 THEN 0 ELSE w[i - 1] + Len(chains[i - 1]))
    BY <1>4, <1>s
  <2>3. B(w) = [i \in 0 .. N |-> IF i = 0 THEN 0 ELSE w[i - 1] + len[i]]
    BY <1>4, <2>2
  <2> QED
    BY <2>1, <2>3, Zenon
<1> HIDE DEF B
<1>15. total = B(total)
  BY <1>14
<1> HIDE DEF total
<1>16. IsRunningSum(total, len, N)
  <2>1. total = [i \in 0 .. N |-> IF i = 0 THEN 0 ELSE total[i - 1] + Len(chains[i - 1])]
    BY <1>4, <1>15 DEF B
  <2>2. \A i \in 0 .. N : (IF i = 0 THEN 0 ELSE total[i - 1] + len[i])
                            = (IF i = 0 THEN 0 ELSE total[i - 1] + Len(chains[i - 1]))
    BY <1>4, <1>s
  <2> QED
    BY <2>1, <2>2 DEF IsRunningSum
<1>17. total[N] = Cardinality(allocated)
  <2>1. PICK g : g = total
    OBVIOUS
  <2>2. Counted(hashv, N, hh, allocated, len)
    <3> SUFFICES ASSUME NEW b \in 0 .. N - 1
                 PROVE  LET S == {e \in allocated : hashv[hh[e].key] % N = b}
                        IN  IsFiniteSet(S) /\ Cardinality(S) = len[b + 1]
      BY DEF Counted
    <3>1. b + 1 \in 1 .. N /\ (b + 1) - 1 = b
      BY <1>4
    <3>2. len[b + 1] = Len(chains[b])
      BY <1>12, <3>1
    <3> QED
      BY <1>11, <3>2
  <2>3. \A e \in allocated : hh[e].key \in Keys
    BY <1>4 DEF Distinct
  <2>4. g[N] = Cardinality(allocated)
    BY <1>1, <1>4, <1>16, <2>1, <2>2, <2>3, ChainsTotal
  <2> QED
    BY <2>1, <2>4
<1>18. Cardinality(allocated) = n
  BY <1>1, <1>4, ListCount
<1>19. /\ \A b \in DOMAIN chains :
             /\ BackPointers(chains[b], [e \in Elements |-> hh[e].hh_prev])
             /\ tbl.buckets[b].count = Len(chains[b])
       /\ tbl.num_items = total[tbl.num_buckets]
       /\ BackPointers(AppOrder, [e \in Elements |-> hh[e].prev])
       /\ tbl.num_items = Len(AppOrder)
  <2>1. DOMAIN chains = 0 .. N - 1
    BY <1>4 DEF chains
  <2> QED
    BY <1>4, <1>5, <1>6, <1>7, <1>11, <1>17, <1>18, <2>1
<1> QED
  BY <1>19 DEF HASH_FSCK, total, B, chains

(* Integrity.  The checks of HASH_FSCK, which uthash.h leaves out of this  *)
(* build, never fail: every back pointer and every count is right.          *)
THEOREM TableIntegrity == Spec => []Integrity
<1>1. HashInv => Integrity
  BY IntegrityHolds
<1> QED
  BY <1>1, HashInvariant, PTL

-----------------------------------------------------------------------------
(* The table is an ordered map.                                            *)

\* The keys of the list that begins with hd in the heap h.
KeysFrom(hd, h) ==
    LET nodes == Nodes(hd, NextOf(h)) IN [i \in DOMAIN nodes |-> h[nodes[i]].key]

\* q has the keys of the n elements s of A, in this order.
KeysAre(q, hd, h, A, n, s) ==
    /\ n \in Nat /\ q = [i \in 1 .. n |-> h[s[i]].key]
    /\ q \in Seq(Keys) /\ Len(q) = n /\ ToSet(q) = {h[a].key : a \in A}
    /\ (n = 0 <=> hd = NULL)

LEMMA KeysListed ==
    ASSUME NEW hd, NEW h \in [Elements -> Handle], NEW A \in SUBSET Elements, NEW n, NEW s,
           Listed(hd, h, A, n, s)
    PROVE  KeysAre(KeysFrom(hd, h), hd, h, A, n, s)
<1>1. /\ n \in Nat /\ s \in [1 .. n -> Elements] /\ Nodes(hd, NextOf(h)) = s
      /\ \A i \in 1 .. n : s[i] \in A
      /\ \A e \in Elements : On(s, n, e) <=> e \in A
      /\ hd = IF n = 0 THEN NULL ELSE s[1]
      /\ \A a \in A : h[a].key \in Keys
  BY DEF Listed, Distinct
<1>2. PICK q : q = [i \in 1 .. n |-> h[s[i]].key]
  OBVIOUS
<1>3. KeysFrom(hd, h) = q
  BY <1>1, <1>2 DEF KeysFrom
<1>4. q \in [1 .. n -> Keys]
  BY <1>1, <1>2
<1>5. q \in Seq(Keys) /\ Len(q) = n /\ DOMAIN q = 1 .. n
  BY <1>1, <1>4, LenOfFunction
<1>6. ToSet(q) = {h[a].key : a \in A}
  <2>1. ToSet(q) = {q[i] : i \in 1 .. n}
    BY <1>5 DEF ToSet
  <2>2. ASSUME NEW i \in 1 .. n PROVE q[i] \in {h[a].key : a \in A}
    BY <1>1, <1>2
  <2>3. ASSUME NEW a \in A PROVE h[a].key \in {q[i] : i \in 1 .. n}
    <3>1. PICK i \in 1 .. n : s[i] = a
      BY <1>1 DEF On
    <3>2. q[i] = h[a].key
      BY <1>2, <3>1
    <3> QED
      BY <3>2
  <2> QED
    BY <2>1, <2>2, <2>3
<1>7. n = 0 <=> hd = NULL
  <2>1. n # 0 => 1 \in 1 .. n
    BY <1>1
  <2> QED
    BY <1>1, <2>1, UtHashAssumptions
<1> QED
  BY <1>1, <1>2, <1>3, <1>5, <1>6, <1>7 DEF KeysAre

LEMMA NoKeys == ASSUME NEW q \in Seq(Keys) PROVE q = <<>> <=> Len(q) = 0
OBVIOUS

LEMMA KeyOrderIs == KeyOrder = KeysFrom(head, hh)
BY DEF KeyOrder, AppOrder, KeysFrom

LEMMA KeyOrderBecomes == KeyOrder' = KeysFrom(head', hh')
BY DEF KeyOrder, AppOrder, KeysFrom

\* q has the keys that the n elements of s have in the heap h.
IsKeys(q, h, n, s) == q = [i \in 1 .. n |-> h[s[i]].key]

\* The elements i .. n of s keep their keys; all have one.
SameKeys(h, h2, s, i, n) ==
    /\ \A j \in i .. n : h2[s[j]].key = h[s[j]].key
    /\ \A j \in 1 .. n : h[s[j]].key \in Keys

(* One more element puts its key behind the others. *)
LEMMA KeysAppended ==
    ASSUME NEW n \in Nat, NEW s \in [1 .. n -> Elements], NEW e, NEW k \in Keys, NEW h, NEW h2,
           SameKeys(h, h2, s, 1, n), h2[e].key = k,
           NEW q, IsKeys(q, h, n, s), NEW r, IsKeys(r, h2, n + 1, Appended(s, n, e))
    PROVE  r = Append(q, k)
<1>1. q = [i \in 1 .. n |-> h[s[i]].key]
  BY DEF IsKeys
<1>2. r = [i \in 1 .. n + 1 |-> h2[Appended(s, n, e)[i]].key]
  BY DEF IsKeys
<1>3. q \in [1 .. n -> Keys]
  BY <1>1 DEF SameKeys
<1>4. q \in Seq(Keys) /\ Len(q) = n
  BY <1>3, LenOfFunction
<1>5. /\ Append(q, k) \in Seq(Keys) /\ Len(Append(q, k)) = n + 1
      /\ \A i \in 1 .. n : Append(q, k)[i] = q[i]
      /\ Append(q, k)[n + 1] = k
  BY <1>4, AppendProperties
<1>6. \A i \in 1 .. n + 1 : r[i] = Append(q, k)[i] /\ r[i] \in Keys
  <2> TAKE i \in 1 .. n + 1
  <2>1. CASE i = n + 1
    BY <1>2, <1>5, <2>1 DEF Appended
  <2>2. CASE i # n + 1
    <3>1. i \in 1 .. n /\ Appended(s, n, e)[i] = s[i]
      BY <2>2 DEF Appended
    <3> QED
      BY <1>1, <1>2, <1>5, <3>1 DEF SameKeys
  <2> QED
    BY <2>1, <2>2
<1>7. r \in [1 .. n + 1 -> Keys] /\ n + 1 \in Nat
  BY <1>2, <1>6
<1>8. r \in Seq(Keys) /\ Len(r) = n + 1
  BY <1>7, LenOfFunction
<1>9. r = Append(q, k)
  BY <1>5, <1>6, <1>8, SeqEqual
<1> QED
  BY <1>9

(* Taking out the first element takes out the first key. *)
LEMMA KeysRemoved ==
    ASSUME NEW n \in Nat \ {0}, NEW s \in [1 .. n -> Elements], NEW h, NEW h2,
           SameKeys(h, h2, s, 2, n),
           NEW q, IsKeys(q, h, n, s), NEW r, IsKeys(r, h2, n - 1, Without(s, n, 1))
    PROVE  r = Tail(q)
<1>1. q = [i \in 1 .. n |-> h[s[i]].key]
  BY DEF IsKeys
<1>2. r = [i \in 1 .. n - 1 |-> h2[Without(s, n, 1)[i]].key]
  BY DEF IsKeys
<1>3. q \in [1 .. n -> Keys]
  BY <1>1 DEF SameKeys
<1>4. q \in Seq(Keys) /\ Len(q) = n
  BY <1>3, LenOfFunction
<1>5. /\ Tail(q) \in Seq(Keys) /\ Len(Tail(q)) = n - 1
      /\ \A i \in 1 .. n - 1 : Tail(q)[i] = q[i + 1]
  <2>1. q # <<>>
    BY <1>4
  <2> QED
    BY <1>4, <2>1, HeadTailProperties
<1>6. \A i \in 1 .. n - 1 : r[i] = Tail(q)[i] /\ r[i] \in Keys
  <2> TAKE i \in 1 .. n - 1
  <2>1. i + 1 \in 2 .. n /\ i + 1 \in 1 .. n /\ Without(s, n, 1)[i] = s[i + 1]
    BY DEF Without
  <2> QED
    BY <1>1, <1>2, <1>5, <2>1 DEF SameKeys
<1>7. r \in [1 .. n - 1 -> Keys] /\ n - 1 \in Nat
  BY <1>2, <1>6
<1>8. r \in Seq(Keys) /\ Len(r) = n - 1
  <2>1. PICK m \in Nat : m = n - 1 /\ r \in [1 .. m -> Keys]
    BY <1>7
  <2> QED
    BY <2>1, LenOfFunction
<1>9. r = Tail(q)
  BY <1>5, <1>6, <1>8, SeqEqual
<1> QED
  BY <1>9

LEMMA MapInit == Init => Map!Init
<1> SUFFICES ASSUME Init PROVE KeyOrder = <<>> /\ (pc = "iter") = FALSE
  BY DEF Map!Init
<1>1. pc = "idle"
  BY DEF Init
<1>2. HashInv /\ head = NULL
  BY HashInvInit DEF Init
<1>3. hh \in [Elements -> Handle] /\ allocated \in SUBSET Elements
  BY <1>2 DEF HashInv
<1>4. PICK n, s : Holds(hashv, head, tbl, hh, allocated, n, s)
  BY <1>2 DEF HashInv
<1>5. Listed(head, hh, allocated, n, s)
  BY <1>3, <1>4, HoldsProperties
<1>6. KeysFrom(head, hh) \in Seq(Keys) /\ Len(KeysFrom(head, hh)) = 0
  <2>1. KeysAre(KeysFrom(head, hh), head, hh, allocated, n, s)
    BY <1>3, <1>5, KeysListed
  <2> QED
    BY <1>2, <2>1 DEF KeysAre
<1> QED
  BY <1>1, <1>6, KeyOrderIs, NoKeys

LEMMA MapStep == HashInv /\ [Next]_vars => [Map!Next]_(Map!vars)
<1> SUFFICES ASSUME HashInv, [Next]_vars PROVE [Map!Next]_(Map!vars)
  OBVIOUS
<1>1. /\ hashv \in HashFunctions /\ hh \in [Elements -> Handle] /\ allocated \in SUBSET Elements
      /\ Cursor
  BY DEF HashInv
<1>2. PICK n, s : Holds(hashv, head, tbl, hh, allocated, n, s)
  BY DEF HashInv
<1>3. Listed(head, hh, allocated, n, s)
  BY <1>1, <1>2, HoldsProperties
<1>4. PICK q : q = KeyOrder
  OBVIOUS
<1>5. /\ n \in Nat /\ q = [i \in 1 .. n |-> hh[s[i]].key] /\ q \in Seq(Keys) /\ Len(q) = n
      /\ ToSet(q) = {hh[a].key : a \in allocated}
      /\ (n = 0 <=> head = NULL)
  <2>1. KeysAre(KeysFrom(head, hh), head, hh, allocated, n, s)
    BY <1>1, <1>3, KeysListed
  <2> QED
    BY <1>4, <2>1, KeyOrderIs DEF KeysAre
<1>6. q = <<>> <=> head = NULL
  BY <1>5, NoKeys
<1>7. /\ s \in [1 .. n -> Elements] /\ \A i \in 1 .. n : s[i] \in allocated /\ hh[s[i]].key \in Keys
      /\ \A i, j \in 1 .. n : s[i] = s[j] => i = j
      /\ head = IF n = 0 THEN NULL ELSE s[1]
  BY <1>3 DEF Listed, Distinct
<1>8. ASSUME head' = head, hh' = hh, (pc' = "iter") <=> (pc = "iter") PROVE [Map!Next]_(Map!vars)
  <2>1. KeyOrder' = KeyOrder
    BY <1>8, KeyOrderIs, KeyOrderBecomes
  <2>2. (pc = "iter")' = (pc = "iter")
    BY <1>8
  <2> QED
    BY <2>1, <2>2 DEF Map!vars
<1>9. CASE UNCHANGED vars
  BY <1>8, <1>9 DEF vars
<1>10. ASSUME NEW k \in Keys, Hit(k) PROVE [Map!Next]_(Map!vars)
  BY <1>8, <1>10 DEF Hit, vars
<1>11. ASSUME NEW k \in Keys, Miss(k) PROVE [Map!Next]_(Map!vars)
  <2>1. PICK e \in Elements \ allocated :
          /\ Holds(hashv', head', tbl', hh', allocated', n + 1, Appended(s, n, e))
          /\ allocated' = allocated \cup {e} /\ hh' \in [Elements -> Handle]
          /\ \A a \in allocated : hh[a].key # k
          /\ \A x \in Elements : hh'[x].key = IF x = e THEN k ELSE hh[x].key
    BY <1>1, <1>2, <1>11, MissStep
  <2>2. PICK f2, hd2, t2, h2, A2, s2 :
           /\ f2 = hashv' /\ hd2 = head' /\ t2 = tbl' /\ h2 = hh' /\ A2 = allocated'
           /\ s2 = Appended(s, n, e)
    OBVIOUS
  <2>3. /\ Holds(f2, hd2, t2, h2, A2, n + 1, s2)
        /\ h2 \in [Elements -> Handle] /\ A2 \in SUBSET Elements
    BY <1>1, <2>1, <2>2
  <2>4. Listed(hd2, h2, A2, n + 1, s2)
    BY <2>3, HoldsProperties
  <2>5. KeysFrom(hd2, h2) = [i \in 1 .. n + 1 |-> h2[s2[i]].key]
    <3>1. KeysAre(KeysFrom(hd2, h2), hd2, h2, A2, n + 1, s2)
      BY <2>3, <2>4, KeysListed
    <3> QED
      BY <3>1 DEF KeysAre
  <2>6. \A i \in 1 .. n : h2[s[i]].key = hh[s[i]].key
    BY <1>7, <2>1, <2>2
  <2>7. h2[e].key = k
    BY <2>1, <2>2
  <2>8. [i \in 1 .. n + 1 |-> h2[s2[i]].key] = Append(q, k)
    <3>1. PICK h : h = hh
      OBVIOUS
    <3>2. SameKeys(h, h2, s, 1, n) /\ IsKeys(q, h, n, s)
      BY <1>5, <1>7, <2>6, <3>1 DEF SameKeys, IsKeys
    <3>3. PICK r : r = [i \in 1 .. n + 1 |-> h2[s2[i]].key]
      OBVIOUS
    <3>4. IsKeys(r, h2, n + 1, Appended(s, n, e))
      BY <2>2, <3>3 DEF IsKeys
    <3>5. r = Append(q, k)
      BY <1>5, <1>7, <2>7, <3>2, <3>4, KeysAppended
    <3> QED
      BY <3>3, <3>5
  <2>9. KeyOrder' = Append(KeyOrder, k)
    BY <1>4, <2>2, <2>5, <2>8, KeyOrderBecomes
  <2>10. k \notin ToSet(KeyOrder)
    BY <1>4, <1>5, <2>1
  <2>11. pc = "idle" /\ pc' = pc
    BY <1>11 DEF Miss
  <2>12. Map!Insert(k)
    BY <2>9, <2>10, <2>11 DEF Map!Insert, ToSet, Map!ToSet
  <2> QED
    BY <2>12 DEF Map!Next
<1>12. ASSUME NEW k \in Keys, OutOfMemory(k) PROVE [Map!Next]_(Map!vars)
  BY <1>8, <1>12 DEF OutOfMemory
<1>13. CASE IterBegin
  <2>1. pc = "idle" /\ head # NULL /\ pc' = "iter" /\ head' = head /\ hh' = hh
    BY <1>13 DEF IterBegin
  <2>2. KeyOrder' = KeyOrder /\ KeyOrder # <<>>
    BY <1>4, <1>6, <2>1, KeyOrderIs, KeyOrderBecomes
  <2>3. Map!BeginDrain
    BY <2>1, <2>2 DEF Map!BeginDrain
  <2> QED
    BY <2>3 DEF Map!Next
<1>14. CASE IterDelete
  <2>1. /\ n > 0 /\ head # NULL
        /\ Holds(hashv', head', tbl', hh', allocated', n - 1, Without(s, n, 1))
        /\ allocated' = allocated \ {head} /\ hh' \in [Elements -> Handle]
        /\ \A x \in Elements \ {head} : hh'[x].key = hh[x].key
        /\ pc' = "iter"
    BY <1>1, <1>2, <1>14, DeleteStep
  <2>2. PICK f2, hd2, t2, h2, A2, s2 :
           /\ f2 = hashv' /\ hd2 = head' /\ t2 = tbl' /\ h2 = hh' /\ A2 = allocated'
           /\ s2 = Without(s, n, 1)
    OBVIOUS
  <2>3. /\ Holds(f2, hd2, t2, h2, A2, n - 1, s2)
        /\ h2 \in [Elements -> Handle] /\ A2 \in SUBSET Elements
    BY <1>1, <2>1, <2>2
  <2>4. Listed(hd2, h2, A2, n - 1, s2)
    BY <2>3, HoldsProperties
  <2>5. KeysFrom(hd2, h2) = [i \in 1 .. n - 1 |-> h2[s2[i]].key]
    <3>1. KeysAre(KeysFrom(hd2, h2), hd2, h2, A2, n - 1, s2)
      BY <2>3, <2>4, KeysListed
    <3> QED
      BY <3>1 DEF KeysAre
  <2>6. \A i \in 2 .. n : h2[s[i]].key = hh[s[i]].key
    <3> TAKE i \in 2 .. n
    <3>1. i \in 1 .. n /\ 1 \in 1 .. n /\ i # 1
      BY <1>5, <2>1
    <3>2. s[i] \in Elements \ {head}
      BY <1>5, <1>7, <2>1, <3>1
    <3> QED
      BY <2>1, <2>2, <3>2
  <2>7. [i \in 1 .. n - 1 |-> h2[s2[i]].key] = Tail(q)
    <3>1. PICK h : h = hh
      OBVIOUS
    <3>2. n \in Nat \ {0} /\ SameKeys(h, h2, s, 2, n) /\ IsKeys(q, h, n, s)
      BY <1>5, <1>7, <2>1, <2>6, <3>1 DEF SameKeys, IsKeys
    <3>3. PICK r : r = [i \in 1 .. n - 1 |-> h2[s2[i]].key]
      OBVIOUS
    <3>4. IsKeys(r, h2, n - 1, Without(s, n, 1))
      BY <2>2, <3>3 DEF IsKeys
    <3>5. r = Tail(q)
      BY <1>7, <3>2, <3>4, KeysRemoved
    <3> QED
      BY <3>3, <3>5
  <2>8. KeyOrder' = Tail(KeyOrder) /\ KeyOrder # <<>>
    BY <1>4, <1>6, <2>1, <2>2, <2>5, <2>7, KeyOrderBecomes
  <2>9. pc = "iter"
    BY <1>14 DEF IterDelete
  <2>10. Map!RemoveOldest
    BY <2>1, <2>8, <2>9 DEF Map!RemoveOldest
  <2> QED
    BY <2>10 DEF Map!Next
<1>15. CASE IterEnd
  <2>1. pc = "iter" /\ el = NULL /\ pc' = "idle" /\ head' = head /\ hh' = hh
    BY <1>15 DEF IterEnd
  <2>2. KeyOrder' = KeyOrder /\ KeyOrder = <<>>
    BY <1>1, <1>4, <1>6, <2>1, KeyOrderIs, KeyOrderBecomes DEF Cursor
  <2>3. Map!EndDrain
    BY <2>1, <2>2 DEF Map!EndDrain
  <2> QED
    BY <2>3 DEF Map!Next
<1>16. CASE Exited
  BY <1>9, <1>16 DEF Exited
<1> QED
  BY <1>9, <1>10, <1>11, <1>12, <1>13, <1>14, <1>15, <1>16 DEF Next

(* Refinement.  For the sniffer the table is an ordered map: HASH_ADD puts a *)
(* new key behind the others and HASH_ITER with HASH_DEL takes out every     *)
(* entry once, oldest first, whatever the buckets are doing meanwhile.       *)
THEOREM TableIsOrderedMap == Spec => ImplementsOrderedMap
<1>1. Init => Map!Init
  BY MapInit
<1>2. HashInv /\ [Next]_vars => [Map!Next]_(Map!vars)
  BY MapStep
<1> QED
  BY <1>1, <1>2, HashInvariant, PTL DEF Spec, ImplementsOrderedMap, Map!Spec
=============================================================================
