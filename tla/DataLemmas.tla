----------------------------- MODULE DataLemmas -----------------------------
(***************************************************************************)
(* Facts about natural numbers, running sums and sequences that the proofs *)
(* of several components use.  Induction is stated over sets, which have   *)
(* no operator for the provers to instantiate: to show P(n) for all n,     *)
(* apply NatSetInduction to {n \in Nat : P(n)}.                            *)
(***************************************************************************)
EXTENDS Integers, Sequences, FiniteSets, FiniteSetTheorems, SequenceTheorems, TLAPS

(* A set of natural numbers that is not empty has a least element. *)
LEMMA LeastNat ==
    ASSUME NEW T, T \subseteq Nat, T # {}
    PROVE  \E x \in T : \A y \in T : x <= y
<1>1. PICK x \in T : \A y \in T : ~ (<<y, x>> \in OpToRel(<, Nat))
  BY NatLessThanWellFounded, WFMin
<1>2. \A y \in T : ~(y < x)
  BY <1>1 DEF OpToRel
<1> QED
  BY <1>2

(* A set with 0 and the successor of each of its numbers has them all. *)
LEMMA NatSetInduction ==
    ASSUME NEW T, 0 \in T, \A n \in Nat : n \in T => n + 1 \in T
    PROVE  Nat \subseteq T
<1> SUFFICES ASSUME Nat \ T # {} PROVE FALSE
  OBVIOUS
<1>1. PICK x \in Nat \ T : \A y \in Nat \ T : x <= y
  BY LeastNat
<1>2. x - 1 \in Nat /\ x - 1 \in T
  BY <1>1
<1> QED
  BY <1>1, <1>2

-----------------------------------------------------------------------------

\* f lists the sums of the first 0, 1, ..., n members of a.
IsRunningSum(f, a, n) == f = [i \in 0 .. n |-> IF i = 0 THEN 0 ELSE f[i - 1] + a[i]]

(* Running sums exist. *)
LEMMA RunningSumExists ==
    ASSUME NEW a, NEW n \in Nat
    PROVE  \E f : IsRunningSum(f, a, n)
<1> DEFINE T == {m \in Nat : \E f : IsRunningSum(f, a, m)}
<1>1. 0 \in T
  <2>1. IsRunningSum([i \in 0 .. 0 |-> 0], a, 0)
    BY DEF IsRunningSum
  <2> QED
    BY <2>1
<1>2. ASSUME NEW m \in Nat, m \in T PROVE m + 1 \in T
  <2>1. PICK f : IsRunningSum(f, a, m)
    BY <1>2
  <2>2. PICK g : g = [i \in 0 .. m + 1 |-> IF i = m + 1 THEN f[m] + a[m + 1] ELSE f[i]]
    OBVIOUS
  <2>3. IsRunningSum(g, a, m + 1)
    BY <2>1, <2>2 DEF IsRunningSum
  <2> QED
    BY <2>3
<1> HIDE DEF T
<1>3. n \in T
  BY <1>1, <1>2, NatSetInduction
<1> QED
  BY <1>3 DEF T

(* They are integers if the members are. *)
LEMMA RunningSumType ==
    ASSUME NEW a, NEW n \in Nat, NEW f, IsRunningSum(f, a, n), \A i \in 1 .. n : a[i] \in Int
    PROVE  \A i \in 0 .. n : f[i] \in Int
<1> DEFINE T == {m \in Nat : m <= n => f[m] \in Int}
<1>1. 0 \in T
  BY DEF IsRunningSum
<1>2. ASSUME NEW m \in Nat, m \in T PROVE m + 1 \in T
  BY <1>2 DEF IsRunningSum
<1> HIDE DEF T
<1>3. Nat \subseteq T
  BY <1>1, <1>2, NatSetInduction
<1> QED
  BY <1>3 DEF T

(* One more member is added to the sum of the others. *)
LEMMA RunningSumExtends ==
    ASSUME NEW n \in Nat, NEW a, NEW f, IsRunningSum(f, a, n),
           NEW b, NEW g, IsRunningSum(g, b, n + 1), \A i \in 1 .. n : a[i] = b[i]
    PROVE  f[n] = g[n] /\ g[n + 1] = g[n] + b[n + 1]
<1> DEFINE T == {k \in Nat : k <= n => f[k] = g[k]}
<1>1. 0 \in T
  BY DEF IsRunningSum
<1>2. ASSUME NEW k \in Nat, k \in T PROVE k + 1 \in T
  BY <1>2 DEF IsRunningSum
<1> HIDE DEF T
<1>3. Nat \subseteq T
  BY <1>1, <1>2, NatSetInduction
<1>4. f[n] = g[n]
  BY <1>3 DEF T
<1>5. g[n + 1] = g[n] + b[n + 1]
  BY DEF IsRunningSum
<1> QED
  BY <1>4, <1>5

(* Leaving out the first member takes it off the sum. *)
LEMMA RunningSumShift ==
    ASSUME NEW a, NEW b, NEW n \in Nat, NEW f, IsRunningSum(f, a, n + 1),
           NEW g, IsRunningSum(g, b, n),
           \A i \in 1 .. n + 1 : a[i] \in Int,
           \A i \in 1 .. n : b[i] = a[i + 1]
    PROVE  g[n] = f[n + 1] - a[1]
<1> DEFINE T == {k \in Nat : k <= n => g[k] = f[k + 1] - a[1]}
<1>0. /\ \A i \in 0 .. n + 1 : f[i] \in Int
      /\ \A i \in 0 .. n : g[i] \in Int
  BY RunningSumType, SMTT(30)
<1>1. 0 \in T
  BY <1>0 DEF IsRunningSum
<1>2. ASSUME NEW k \in Nat, k \in T PROVE k + 1 \in T
  <2> SUFFICES ASSUME k + 1 <= n PROVE g[k + 1] = f[k + 2] - a[1]
    OBVIOUS
  <2>1. g[k] = f[k + 1] - a[1]
    BY <1>2
  <2>2. g[k + 1] = g[k] + b[k + 1]
    BY DEF IsRunningSum
  <2>3. f[k + 2] = f[k + 1] + a[k + 2]
    BY DEF IsRunningSum
  <2> QED
    BY <2>1, <2>2, <2>3, <1>0
<1> HIDE DEF T
<1>3. Nat \subseteq T
  BY <1>1, <1>2, NatSetInduction
<1> QED
  BY <1>3 DEF T

-----------------------------------------------------------------------------

\* f lists the concatenations of the first 0, 1, ..., n members of a.
IsRunningConcat(f, a, n) == f = [i \in 0 .. n |-> IF i = 0 THEN <<>> ELSE f[i - 1] \o a[i]]

LEMMA RunningConcatExists ==
    ASSUME NEW a, NEW n \in Nat
    PROVE  \E f : IsRunningConcat(f, a, n)
<1> DEFINE T == {m \in Nat : \E f : IsRunningConcat(f, a, m)}
<1>1. 0 \in T
  <2>1. IsRunningConcat([i \in 0 .. 0 |-> <<>>], a, 0)
    BY DEF IsRunningConcat
  <2> QED
    BY <2>1
<1>2. ASSUME NEW m \in Nat, m \in T PROVE m + 1 \in T
  <2>1. PICK f : IsRunningConcat(f, a, m)
    BY <1>2
  <2>2. PICK g : g = [i \in 0 .. m + 1 |-> IF i = m + 1 THEN f[m] \o a[m + 1] ELSE f[i]]
    OBVIOUS
  <2>3. IsRunningConcat(g, a, m + 1)
    BY <2>1, <2>2 DEF IsRunningConcat
  <2> QED
    BY <2>3
<1> HIDE DEF T
<1>3. n \in T
  BY <1>1, <1>2, NatSetInduction
<1> QED
  BY <1>3 DEF T

LEMMA RunningConcatStep ==
    ASSUME NEW a, NEW n \in Nat, NEW f, IsRunningConcat(f, a, n), NEW m \in Nat, m + 1 <= n
    PROVE  f[0] = <<>> /\ f[m + 1] = f[m] \o a[m + 1]
<1>1. /\ 0 \in 0 .. n /\ m + 1 \in 0 .. n /\ m + 1 # 0
      /\ (m + 1) - 1 = m
  OBVIOUS
<1>2. \A i \in 0 .. n : f[i] = IF i = 0 THEN <<>> ELSE f[i - 1] \o a[i]
  BY Zenon DEF IsRunningConcat
<1>3. f[m + 1] = f[(m + 1) - 1] \o a[m + 1]
  BY <1>1, <1>2, Zenon
<1> QED
  BY <1>1, <1>2, <1>3, Zenon

LEMMA RunningConcatType ==
    ASSUME NEW S, NEW a, NEW n \in Nat, NEW f, IsRunningConcat(f, a, n),
           \A i \in 1 .. n : a[i] \in Seq(S)
    PROVE  \A i \in 0 .. n : f[i] \in Seq(S)
<1> DEFINE T == {m \in Nat : m <= n => f[m] \in Seq(S)}
<1>1. 0 \in T
  BY DEF IsRunningConcat
<1>2. ASSUME NEW m \in Nat, m \in T PROVE m + 1 \in T
  <2> SUFFICES ASSUME m + 1 <= n PROVE f[m + 1] \in Seq(S)
    OBVIOUS
  <2>1. f[m + 1] = f[m] \o a[m + 1]
    BY RunningConcatStep
  <2>2. f[m] \in Seq(S) /\ a[m + 1] \in Seq(S)
    BY <1>2
  <2> QED
    BY <2>1, <2>2
<1> HIDE DEF T
<1>3. Nat \subseteq T
  BY <1>1, <1>2, NatSetInduction
<1> QED
  BY <1>3 DEF T

LEMMA RunningConcatAgrees ==
    ASSUME NEW n \in Nat, NEW l \in Nat, l <= n, NEW a, NEW f, IsRunningConcat(f, a, l),
           NEW b, NEW g, IsRunningConcat(g, b, n), \A i \in 1 .. l : a[i] = b[i]
    PROVE  f[l] = g[l]
<1> DEFINE T == {k \in Nat : k <= l => f[k] = g[k]}
<1>1. 0 \in T
  BY DEF IsRunningConcat
<1>2. ASSUME NEW k \in Nat, k \in T PROVE k + 1 \in T
  <2> SUFFICES ASSUME k + 1 <= l PROVE f[k + 1] = g[k + 1]
    OBVIOUS
  <2>1. f[k + 1] = f[k] \o a[k + 1]
    BY RunningConcatStep
  <2>2. g[k + 1] = g[k] \o b[k + 1]
    BY RunningConcatStep, k + 1 <= n
  <2>3. f[k] = g[k] /\ a[k + 1] = b[k + 1]
    BY <1>2
  <2> QED
    BY <2>1, <2>2, <2>3, Zenon
<1> HIDE DEF T
<1>3. Nat \subseteq T
  BY <1>1, <1>2, NatSetInduction
<1> QED
  BY <1>3 DEF T

-----------------------------------------------------------------------------

(* Sets of positions are finite. *)
LEMMA PositionsFinite ==
    ASSUME NEW n \in Nat, NEW P \in SUBSET (1 .. n)
    PROVE  IsFiniteSet(P) /\ Cardinality(P) \in Nat
<1>1. IsFiniteSet(1 .. n)
  BY FS_Interval
<1>2. IsFiniteSet(P)
  BY <1>1, FS_Subset
<1> QED
  BY <1>2, FS_CardinalityType

(* One more position. *)
LEMMA OneMorePosition ==
    ASSUME NEW S, IsFiniteSet(S), NEW x, NEW T, T \subseteq S \cup {x}
    PROVE  /\ IsFiniteSet(T) /\ Cardinality(T) \in Nat /\ Cardinality(S) \in Nat
           /\ Cardinality(T) <= Cardinality(S) + 1
<1>1. Cardinality(S) \in Nat
  BY FS_CardinalityType
<1>2. IsFiniteSet(S \cup {x}) /\ Cardinality(S \cup {x}) <= Cardinality(S) + 1
  BY <1>1, FS_AddElement
<1>3. Cardinality(S \cup {x}) \in Nat
  BY <1>2, FS_CardinalityType
<1>4. IsFiniteSet(T) /\ Cardinality(T) <= Cardinality(S \cup {x})
  BY <1>2, FS_Subset
<1>5. Cardinality(T) \in Nat
  BY <1>4, FS_CardinalityType
<1> QED
  BY <1>1, <1>2, <1>3, <1>4, <1>5

(* Moving positions along keeps their number. *)
LEMMA ShiftedPositions ==
    ASSUME NEW n \in Nat, NEW P \in SUBSET (1 .. n), NEW Q \in SUBSET (1 .. n + 1),
           \A i \in P : i + 1 \in Q
    PROVE  Cardinality(P) <= Cardinality(Q)
<1> DEFINE f == [i \in P |-> i + 1]
<1>1. f \in Injection(P, Q)
  BY DEF Injection, IsInjective
<1>2. n + 1 \in Nat /\ IsFiniteSet(Q)
  BY PositionsFinite, n + 1 \in Nat
<1> QED
  BY <1>1, <1>2, FS_Injection

-----------------------------------------------------------------------------
(* Quotients and remainders, for a divisor that is not a fixed number.     *)

LEMMA DivMod ==
    ASSUME NEW m \in Nat \ {0}, NEW a \in Int
    PROVE  a \div m \in Int /\ a % m \in 0 .. m - 1 /\ a = m * (a \div m) + (a % m)
OBVIOUS

LEMMA MultiplesApart ==
    ASSUME NEW m \in Nat \ {0}, NEW p \in Int, NEW q \in Int, p < q
    PROVE  m * p + m <= m * q
<1>1. PICK d \in Nat : q = p + 1 + d
  <2>1. q - p - 1 \in Nat /\ q = p + 1 + (q - p - 1)
    OBVIOUS
  <2> QED
    BY <2>1
<1>2. m * q = m * p + m + m * d
  BY <1>1
<1>3. m * d \in Nat /\ m * p \in Int
  OBVIOUS
<1> QED
  BY <1>2, <1>3

(* Quotient and remainder are the only numbers of their kind. *)
LEMMA DivModUnique ==
    ASSUME NEW m \in Nat \ {0}, NEW a \in Int, NEW q \in Int, NEW r \in 0 .. m - 1,
           a = m * q + r
    PROVE  a \div m = q /\ a % m = r
<1>1. PICK p \in Int, s \in 0 .. m - 1 : p = a \div m /\ s = a % m /\ a = m * p + s
  BY DivMod
<1>2. m * p \in Int /\ m * q \in Int
  OBVIOUS
<1>3. ~(p < q)
  BY <1>1, <1>2, MultiplesApart
<1>4. ~(q < p)
  BY <1>1, <1>2, MultiplesApart
<1>5. p = q
  BY <1>3, <1>4
<1> QED
  BY <1>1, <1>2, <1>5

(* A sum may be reduced at every addition or once. *)
LEMMA ModAdd ==
    ASSUME NEW m \in Nat \ {0}, NEW a \in Int, NEW b \in Int
    PROVE  ((a % m) + b) % m = (a + b) % m
<1>1. PICK p \in Int, s \in 0 .. m - 1 : s = a % m /\ a = m * p + s
  BY DivMod
<1>2. PICK q \in Int, r \in 0 .. m - 1 : r = (s + b) % m /\ s + b = m * q + r
  BY DivMod, s + b \in Int
<1>3. m * p \in Int /\ m * q \in Int /\ m * (p + q) = m * p + m * q
  OBVIOUS
<1>4. PICK u \in Int, v \in Int : u = m * p /\ v = m * q /\ u + v = m * (p + q)
  BY <1>3
<1>5. a = u + s /\ s + b = v + r
  BY <1>1, <1>2, <1>4
<1>6. a + b = (u + v) + r /\ a + b \in Int /\ p + q \in Int
  BY <1>5
<1>7. PICK c \in Int, d \in Int : c = a + b /\ d = p + q /\ c = m * d + r
  BY <1>4, <1>6, Zenon
<1>8. c % m = r
  BY <1>7, DivModUnique
<1> QED
  BY <1>1, <1>2, <1>7, <1>8

(* The multiple of m at or below a: a itself when m divides it, the one at *)
(* or below a - 1 otherwise.                                               *)
LEMMA MultipleBelow ==
    ASSUME NEW m \in Nat \ {0}, NEW a \in Nat
    PROVE  /\ a % m = 0 => m * (a \div m) = a
           /\ a % m # 0 => a \div m = (a - 1) \div m
           /\ a >= 1 => m * ((a - 1) \div m) \in 0 .. a - 1
           /\ a >= 1 => a - m * ((a - 1) \div m) \in 1 .. m
<1>1. PICK p \in Int, s \in 0 .. m - 1 : p = a \div m /\ s = a % m /\ a = m * p + s
  BY DivMod
<1>2. PICK q \in Int, r \in 0 .. m - 1 : q = (a - 1) \div m /\ a - 1 = m * q + r
  BY DivMod, a - 1 \in Int
<1>3. m * p \in Int /\ m * q \in Int
  OBVIOUS
<1>4. s # 0 => a - 1 = m * p + (s - 1) /\ s - 1 \in 0 .. m - 1 /\ a - 1 \in Int
  BY <1>1, <1>3
<1>5. s # 0 => (a - 1) \div m = p
  BY <1>4, DivModUnique
<1>6. a >= 1 => q >= 0
  <2> SUFFICES ASSUME a >= 1, q < 0 PROVE FALSE
    OBVIOUS
  <2>1. m * q + m <= m * 0
    BY MultiplesApart
  <2> QED
    BY <1>2, <1>3, <2>1
<1>7. q >= 0 => m * q \in Nat
  OBVIOUS
<1>8. a >= 1 => m * q \in 0 .. a - 1 /\ a - m * q \in 1 .. m
  BY <1>2, <1>3, <1>6, <1>7
<1> QED
  BY <1>1, <1>2, <1>3, <1>5, <1>8

\* The i-th of n steps leads from R[i - 1] to R[i], sets of values of S.
StepsLead(S, R, n, step) ==
    /\ \A i \in 0 .. n : R[i] \subseteq S
    /\ \A i \in 1 .. n : \A x \in R[i - 1] : step[i][x] \in R[i]

\* w holds what the first steps make of a.
IsIteration(w, S, R, a, n, step) ==
    /\ w \in [0 .. n -> S] /\ w[0] = a
    /\ \A i \in 0 .. n : w[i] \in R[i]
    /\ \A i \in 1 .. n : w[i] = step[i][w[i - 1]]

(* Steps can be taken one after the other. *)
LEMMA IterationExists ==
    ASSUME NEW S, NEW R, NEW a \in R[0], NEW n \in Nat, NEW step, StepsLead(S, R, n, step)
    PROVE  \E w : IsIteration(w, S, R, a, n, step)
<1> DEFINE T == {m \in Nat : m <= n => \E w : IsIteration(w, S, R, a, m, step)}
<1>1. 0 \in T
  <2>1. IsIteration([i \in 0 .. 0 |-> a], S, R, a, 0, step)
    BY DEF IsIteration, StepsLead
  <2> QED
    BY <2>1
<1>2. ASSUME NEW m \in Nat, m \in T PROVE m + 1 \in T
  <2> SUFFICES ASSUME m + 1 <= n PROVE \E w : IsIteration(w, S, R, a, m + 1, step)
    OBVIOUS
  <2>1. PICK w : IsIteration(w, S, R, a, m, step)
    BY <1>2
  <2>2. PICK v : v = [i \in 0 .. m + 1 |-> IF i = m + 1 THEN step[m + 1][w[m]] ELSE w[i]]
    OBVIOUS
  <2>3. step[m + 1][w[m]] \in R[m + 1]
    <3>1. m + 1 \in 1 .. n /\ (m + 1) - 1 = m /\ m \in 0 .. m
      OBVIOUS
    <3> QED
      BY <2>1, <3>1 DEF IsIteration, StepsLead
  <2>4. /\ v[m + 1] = step[m + 1][w[m]]
        /\ \A i \in 0 .. m : v[i] = w[i]
    BY <2>2
  <2>5. \A i \in 0 .. m + 1 : v[i] \in R[i] /\ v[i] \in S
    <3> TAKE i \in 0 .. m + 1
    <3>1. v[i] \in R[i]
      BY <2>1, <2>3, <2>4 DEF IsIteration
    <3> QED
      BY <3>1 DEF StepsLead
  <2>6. v \in [0 .. m + 1 -> S]
    BY <2>2, <2>5
  <2>7. ASSUME NEW i \in 1 .. m + 1 PROVE v[i] = step[i][v[i - 1]]
    <3>1. CASE i = m + 1
      BY <2>4, <3>1
    <3>2. CASE i # m + 1
      BY <2>1, <2>4, <3>2 DEF IsIteration
    <3> QED
      BY <3>1, <3>2
  <2>8. v[0] = a
    BY <2>1, <2>4 DEF IsIteration
  <2> QED
    BY <2>5, <2>6, <2>7, <2>8 DEF IsIteration
<1> HIDE DEF T
<1>3. n \in T
  BY <1>1, <1>2, NatSetInduction
<1> QED
  BY <1>3 DEF T
=============================================================================
