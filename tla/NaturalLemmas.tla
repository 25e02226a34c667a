---------------------------- MODULE NaturalLemmas ----------------------------
(***************************************************************************)
(* Facts about natural numbers that the proofs of several modules rest on: *)
(* the least-number principle stated for a set, what it says of recursion  *)
(* and of a loop that runs until a condition fails, and linear probing.    *)
(***************************************************************************)
EXTENDS Integers, FiniteSetTheorems, WellFoundedInduction, TLAPS

(* A set of naturals that is not empty has a least element.  It stands in  *)
(* for induction in the proofs below: the least counterexample.  The       *)
(* intervals 1..n, ordered by inclusion, are well founded.                 *)
LEMMA LeastNatural ==
  ASSUME NEW T \in SUBSET Nat, T # {}
  PROVE  \E n \in T : \A m \in T : n <= m
<1> DEFINE F == {1..n : n \in T}
           R == StrictSubsetOrdering(Nat)
<1>1. F \subseteq FiniteSubsetsOf(Nat)
  BY FS_Interval DEF FiniteSubsetsOf
<1>2. F # {}
  OBVIOUS
<1>3. IsWellFoundedOn(R, FiniteSubsetsOf(Nat))
  BY FS_StrictSubsetOrderingWellFounded
<1> HIDE DEF F, R
<1>4. PICK X \in F : \A Y \in F : ~ (<<Y, X>> \in R)
  BY <1>1, <1>2, <1>3, WFMin
<1> USE DEF F, R
<1>5. PICK x \in T : X = 1..x
  BY <1>4
<1>6. ASSUME NEW y \in T PROVE x <= y
  <2>1. ~ (<<1..y, 1..x>> \in R)
    BY <1>4, <1>5
  <2>2. CASE y < x
    <3>1. 1..y \subseteq 1..x /\ 1..y # 1..x /\ 1..y \subseteq Nat /\ 1..x \subseteq Nat
      BY <2>2
    <3> QED BY <3>1, <2>1 DEF StrictSubsetOrdering
  <2> QED BY <2>2
<1> QED BY <1>6

(* A loop over 1..n that goes on while its index is in S stops at a        *)
(* definite place: after the longest prefix of 1..n inside S.              *)
LEMMA LongestPrefix ==
  ASSUME NEW n \in Nat, NEW S
  PROVE  \E k \in 0..n : /\ \A i \in 1..k : i \in S
                         /\ k < n => (k + 1) \notin S
<1> DEFINE T == {k \in 0..n : k = n \/ (k + 1) \notin S}
<1>1. T \in SUBSET Nat /\ n \in T
  OBVIOUS
<1>2. PICK k \in T : \A m \in T : k <= m
  BY <1>1, LeastNatural
<1>3. ASSUME NEW i \in 1..k PROVE i \in S
  <2>1. i - 1 \in 0..n /\ i - 1 < k
    BY <1>2
  <2>2. (i - 1) \notin T
    BY <1>2, <2>1
  <2> QED BY <2>1, <2>2
<1> QED BY <1>2, <1>3

(* Induction over 0..n, for a property that is given as a set.             *)
LEMMA InductionUpTo ==
  ASSUME NEW n \in Nat, NEW T, 0 \in T, \A i \in 1..n : i - 1 \in T => i \in T
  PROVE  \A i \in 0..n : i \in T
<1> DEFINE U == {i \in 0..n : i \notin T}
<1> SUFFICES ASSUME U # {} PROVE FALSE
  OBVIOUS
<1>1. PICK i \in U : \A j \in U : i <= j
  <2>1. U \in SUBSET Nat
    OBVIOUS
  <2> QED BY <2>1, LeastNatural
<1>2. i \in 1..n
  BY <1>1
<1>3. i - 1 \in 0..n /\ (i - 1) \notin U
  BY <1>1, <1>2
<1> QED BY <1>1, <1>2, <1>3

(* What holds at the start of a recursion and is kept by every step holds  *)
(* at every index.                                                         *)
LEMMA StaysInside ==
  ASSUME NEW D, NEW n \in Nat, NEW r, r[0] \in D,
         \A i \in 1..n : r[i - 1] \in D => r[i] \in D
  PROVE  \A i \in 0..n : r[i] \in D
<1> DEFINE T == {i \in 0..n : r[i] \in D}
<1>1. 0 \in T
  OBVIOUS
<1>2. ASSUME NEW i \in 1..n, i - 1 \in T PROVE i \in T
  BY <1>2
<1> HIDE DEF T
<1>3. \A i \in 0..n : i \in T
  BY <1>1, <1>2, InductionUpTo
<1> QED BY <1>3 DEF T

(* The function that a recursive definition over 0..n chooses exists.      *)
IsRecursion(f, n, base, F) == f[0] = base /\ \A i \in 1..n : f[i] = F[i][f[i - 1]]

LEMMA RecursionExists ==
  ASSUME NEW D, NEW base \in D, NEW F \in [Nat -> [D -> D]], NEW n \in Nat
  PROVE  \E f \in [0..n -> D] : IsRecursion(f, n, base, F)
<1> USE DEF IsRecursion
<1> DEFINE Rec(f, m) == f \in [0..m -> D] /\ IsRecursion(f, m, base, F)
           T == {m \in Nat : ~ \E f : Rec(f, m)}
<1>1. T = {}
  <2> SUFFICES ASSUME T # {} PROVE FALSE
    OBVIOUS
  <2>1. T \in SUBSET Nat
    OBVIOUS
  <2>2. PICK m \in T : \A j \in T : m <= j
    BY <2>1, LeastNatural
  <2>3. m \in Nat /\ ~ \E f : Rec(f, m)
    BY <2>2
  <2>4. CASE m = 0
    <3>1. Rec([i \in 0..0 |-> base], 0)
      OBVIOUS
    <3> QED BY <2>3, <2>4, <3>1
  <2>5. CASE m # 0
    <3>1. m - 1 \in Nat /\ (m - 1) \notin T
      <4>1. m \in Nat /\ \A j \in T : m <= j
        BY <2>2, <2>3
      <4> HIDE DEF T
      <4> QED BY <2>5, <4>1
    <3>2. PICK g : Rec(g, m - 1)
      BY <3>1
    <3> DEFINE f == [i \in 0..m |-> IF i = m THEN F[m][g[m - 1]] ELSE g[i]]
    <3>3. m - 1 \in 0..m - 1 /\ g[m - 1] \in D
      BY <3>1, <3>2
    <3>4. F[m][g[m - 1]] \in D
      BY <2>3, <3>3
    <3>5. f \in [0..m -> D]
      BY <3>2, <3>4
    <3>6. f[0] = base
      BY <2>3, <2>5, <3>2
    <3>7. ASSUME NEW i \in 1..m PROVE f[i] = F[i][f[i - 1]]
      <4>1. i - 1 \in 0..m - 1 /\ f[i - 1] = g[i - 1]
        BY <2>3
      <4>2. CASE i = m
        BY <4>1, <4>2
      <4>3. CASE i # m
        <5>1. i \in 1..m - 1 /\ f[i] = g[i]
          BY <4>3
        <5> QED BY <3>2, <4>1, <5>1
      <4> QED BY <4>2, <4>3
    <3> HIDE DEF f
    <3>8. Rec(f, m)
      BY <3>5, <3>6, <3>7
    <3> QED BY <2>3, <3>8
  <2> QED BY <2>4, <2>5
<1> QED BY <1>1

(* A set of naturals up to n that is not empty has a largest element.      *)
LEMMA LargestNatural ==
  ASSUME NEW n \in Nat, NEW T \in SUBSET (0..n), T # {}
  PROVE  \E i \in T : \A j \in T : j <= i
<1> DEFINE U == {n - i : i \in T}
<1>1. U \in SUBSET Nat /\ U # {}
  <2>1. \A i \in T : i \in 0..n
    OBVIOUS
  <2> QED BY <2>1
<1>2. PICK u \in U : \A v \in U : u <= v
  BY <1>1, LeastNatural
<1>3. PICK i \in T : u = n - i
  BY <1>2
<1>4. ASSUME NEW j \in T PROVE j <= i
  <2>1. n - j \in U /\ i \in 0..n /\ j \in 0..n
    OBVIOUS
  <2>2. n - i <= n - j
    BY <1>2, <1>3, <2>1
  <2> QED BY <2>1, <2>2
<1> QED BY <1>4

----------------------------------------------------------------------------
(* Linear probing from h in an array of n comes to every index.            *)

LEMMA RemainderIsUnique ==
  ASSUME NEW n \in Nat, n > 0, NEW q \in Int, NEW j \in 0..n - 1
  PROVE  (n * q + j) % n = j
<1> DEFINE a == n * q + j
<1>1. a \in Int
  OBVIOUS
<1>2. a = n * (a \div n) + (a % n) /\ a \div n \in Int /\ a % n \in 0..n - 1
  BY <1>1
<1> DEFINE p == a \div n
           r == a % n
<1>3. p \in Int /\ r \in 0..n - 1 /\ n * q + j = n * p + r
  BY <1>2
<1> HIDE DEF p, r
<1>4. n * (q - p) = r - j
  BY <1>3
<1>5. CASE q > p
  <2>1. n * (q - p) >= n
    BY <1>3, <1>5
  <2> QED BY <1>3, <1>4, <2>1
<1>6. CASE q < p
  <2>1. n * (q - p) <= -n
    BY <1>3, <1>6
  <2> QED BY <1>3, <1>4, <2>1
<1>7. CASE q = p
  BY <1>3, <1>7
<1>8. r = j
  BY <1>3, <1>5, <1>6, <1>7
<1> QED BY <1>8 DEF r

LEMMA ProbingReaches ==
  ASSUME NEW n \in Nat, n > 0, NEW h \in Nat, NEW j \in 0..n - 1
  PROVE  \E d \in 0..n - 1 : (h + d) % n = j
<1> DEFINE q == h \div n
           r == h % n
           d == IF r <= j THEN j - r ELSE j + n - r
<1>1. h = n * q + r /\ q \in Nat /\ r \in 0..n - 1
  OBVIOUS
<1> HIDE DEF q, r
<1>2. d \in 0..n - 1
  BY <1>1
<1>3. CASE r <= j
  <2>1. h + d = n * q + j
    BY <1>1, <1>3
  <2>2. (n * q + j) % n = j
    BY <1>1, RemainderIsUnique
  <2> QED BY <1>2, <2>1, <2>2
<1>4. CASE ~(r <= j)
  <2> DEFINE e == q + 1
  <2>1. h + d = n * e + j /\ e \in Nat
    BY <1>1, <1>4
  <2> HIDE DEF e
  <2>2. e \in Int
    BY <2>1
  <2>3. (n * e + j) % n = j
    BY <2>2, RemainderIsUnique
  <2> QED BY <1>2, <2>1, <2>3
<1> QED BY <1>3, <1>4

(* A part of an array of n that has fewer than n elements leaves one out.  *)
LEMMA SomeIndexLeft ==
  ASSUME NEW n \in Nat, NEW T \in SUBSET (0..n - 1), Cardinality(T) < n
  PROVE  \E i \in 0..n - 1 : i \notin T
<1>1. Cardinality(0..n - 1) = n
  BY FS_Interval
<1>2. T # 0..n - 1
  BY <1>1
<1> QED BY <1>2
=============================================================================
