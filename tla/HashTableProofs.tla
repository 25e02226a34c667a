---------------------------- MODULE HashTableProofs ----------------------------
(***************************************************************************)
(* For any keys, hashes and capacities: a probe always ends, a key is in   *)
(* the table once and where a probe for it looks, and the table answers as *)
(* the map it stands for.                                                  *)
(*                                                                         *)
(* The argument.  The indices that a probe tries reach every index of the  *)
(* table, and a quarter of the entries is empty, so a probe ends.  On the  *)
(* way to a live entry, a probe for its key meets no empty entry (Probed   *)
(* below); storing and burying turn no entry into an empty one, which is   *)
(* what tombstones are for, so they disturb no other key.  Rehashing       *)
(* stores the live entries in a fresh table, one after the other.          *)
(***************************************************************************)
EXTENDS HashTable, NaturalLemmas

Slot == {Empty, Tombstone} \cup {Entry(k, v) : k \in Key, v \in Value}
Table(n) == [0..n - 1 -> Slot]
Used(t) == {i \in DOMAIN t : t[i].used}
HasEmpty(t) == \E i \in DOMAIN t : t[i] = Empty

(* A probe for k passes every index it tries before the d-th.              *)
Passes(t, k, d) ==
  \A e \in 0..d - 1 : t[Try(t, k, e)] # Empty /\ t[Try(t, k, e)].key # k

(* A probe for the key of a live entry comes to that entry.                *)
Probed(t) ==
  \A i \in DOMAIN t : t[i].key # Missing =>
    \E d \in 0..Capacity(t) - 1 : Try(t, t[i].key, d) = i /\ Passes(t, t[i].key, d)

----------------------------------------------------------------------------
(* Entries.                                                                *)

LEMMA SlotFields ==
  /\ Empty \in Slot /\ Empty.key = Missing /\ ~Empty.used
  /\ Tombstone \in Slot /\ Tombstone.key = Missing /\ Tombstone.used
  /\ \A k \in Key, v \in Value :
       /\ Entry(k, v) \in Slot /\ Entry(k, v).used
       /\ Entry(k, v).key = k /\ Entry(k, v).value = v
<1>1. Empty \in Slot /\ Tombstone \in Slot
  BY DEF Slot
<1>2. Empty.key = Missing /\ ~Empty.used /\ Tombstone.key = Missing /\ Tombstone.used
  BY DEF Empty, Tombstone
<1>3. ASSUME NEW k \in Key, NEW v \in Value
      PROVE  /\ Entry(k, v) \in Slot /\ Entry(k, v).used
             /\ Entry(k, v).key = k /\ Entry(k, v).value = v
  <2>1. Entry(k, v) \in Slot
    BY DEF Slot
  <2>2. Entry(k, v).used /\ Entry(k, v).key = k /\ Entry(k, v).value = v
    BY DEF Entry
  <2> QED BY <2>1, <2>2
<1> QED BY <1>1, <1>2, <1>3

LEMMA SlotKinds ==
  ASSUME NEW e \in Slot
  PROVE  /\ e.used \in BOOLEAN /\ (e = Empty <=> ~e.used)
         /\ e.key \in Key \cup {Missing}
         /\ e.key = Missing => e \in {Empty, Tombstone}
         /\ e.key # Missing => e.value \in Value /\ e = Entry(e.key, e.value)
<1>0. Missing \notin Key
  BY HashTableAssumption
<1>1. CASE e = Empty
  BY <1>1 DEF Empty
<1>2. CASE e = Tombstone
  BY <1>2 DEF Empty, Tombstone
<1>3. CASE \E k \in Key, v \in Value : e = Entry(k, v)
  <2>1. PICK k \in Key, v \in Value : e = Entry(k, v)
    BY <1>3
  <2>2. e.used /\ e.key = k /\ e.value = v
    BY <2>1 DEF Entry
  <2>3. e # Empty
    BY <2>2 DEF Empty
  <2> QED BY <1>0, <2>1, <2>2, <2>3
<1> QED BY <1>1, <1>2, <1>3 DEF Slot

LEMMA TableDomain ==
  ASSUME NEW n \in Nat, NEW t \in Table(n)
  PROVE  /\ DOMAIN t = 0..n - 1 /\ Capacity(t) = n
         /\ IsFiniteSet(Used(t)) /\ Cardinality(Used(t)) \in Nat
<1>1. DOMAIN t = 0..n - 1
  BY DEF Table
<1>2. Cardinality(0..n - 1) = n /\ IsFiniteSet(0..n - 1)
  BY FS_Interval
<1>3. IsFiniteSet(Used(t))
  BY <1>1, <1>2, FS_Subset DEF Used
<1> QED BY <1>1, <1>2, <1>3, FS_CardinalityType DEF Capacity

----------------------------------------------------------------------------
(* The indices that a probe tries.                                         *)

LEMMA TryInside ==
  ASSUME NEW n \in Nat, n > 0, NEW t \in Table(n), NEW k \in Key, NEW d \in Nat
  PROVE  Try(t, k, d) \in 0..n - 1 /\ Try(t, k, d) \in DOMAIN t
<1>1. Hash[k] \in Nat
  BY HashTableAssumption
<1>2. (Hash[k] + d) % n \in 0..n - 1
  BY <1>1
<1> QED BY <1>2, TableDomain DEF Try

(* The loop of findEntry comes to every entry of the table.                *)
LEMMA TryReaches ==
  ASSUME NEW n \in Nat, n > 0, NEW t \in Table(n), NEW k \in Key, NEW j \in 0..n - 1
  PROVE  \E d \in 0..n - 1 : Try(t, k, d) = j
<1>1. Hash[k] \in Nat /\ Capacity(t) = n
  BY HashTableAssumption, TableDomain
<1> QED BY <1>1, ProbingReaches DEF Try

----------------------------------------------------------------------------
(* findEntry.                                                              *)

(* ProbingEnds for one key: an empty entry is enough.                      *)
LEMMA EmptyStops ==
  ASSUME NEW n \in Nat, NEW t \in Table(n), HasEmpty(t), NEW k \in Key
  PROVE  n > 0 /\ Stops(t, k) # {}
<1>1. PICK j \in 0..n - 1 : t[j] = Empty
  BY TableDomain DEF HasEmpty
<1>2. n > 0
  BY <1>1
<1>3. PICK d \in 0..n - 1 : Try(t, k, d) = j
  BY <1>2, TryReaches
<1>4. d \in Stops(t, k)
  BY <1>1, <1>3, TableDomain DEF Stops
<1> QED BY <1>2, <1>4

(* Stop is the first place at which the loop returns.                      *)
LEMMA StopIsFirst ==
  ASSUME NEW n \in Nat, NEW t \in Table(n), HasEmpty(t), NEW k \in Key
  PROVE  /\ Stop(t, k) \in 0..n - 1
         /\ t[Try(t, k, Stop(t, k))] = Empty \/ t[Try(t, k, Stop(t, k))].key = k
         /\ Passes(t, k, Stop(t, k))
         /\ \A d \in 0..n - 1 :
              (t[Try(t, k, d)].key = k /\ Passes(t, k, d)) => Stop(t, k) = d
<1>1. Capacity(t) = n
  BY TableDomain
<1>2. Stops(t, k) # {} /\ Stops(t, k) \in SUBSET Nat /\ Stops(t, k) \subseteq 0..n - 1
  BY <1>1, EmptyStops DEF Stops
<1>3. \E i \in Stops(t, k) : \A j \in Stops(t, k) : i <= j
  BY <1>2, LeastNatural
<1> DEFINE s == Stop(t, k)
<1>4. s \in Stops(t, k) /\ \A j \in Stops(t, k) : s <= j
  BY <1>3 DEF Stop
<1> HIDE DEF s
<1>5. s \in 0..n - 1 /\ (t[Try(t, k, s)] = Empty \/ t[Try(t, k, s)].key = k)
  BY <1>1, <1>4 DEF Stops
<1>6. Passes(t, k, s)
  <2>1. ASSUME NEW e \in 0..s - 1, t[Try(t, k, e)] = Empty \/ t[Try(t, k, e)].key = k
        PROVE  FALSE
    <3>1. e \in 0..n - 1 /\ e < s
      BY <1>5
    <3>2. e \in Stops(t, k)
      BY <1>1, <2>1, <3>1 DEF Stops
    <3> QED BY <1>4, <1>5, <3>1, <3>2
  <2> QED BY <2>1 DEF Passes
<1>7. ASSUME NEW d \in 0..n - 1, t[Try(t, k, d)].key = k, Passes(t, k, d)
      PROVE  s = d
  <2>1. d \in Stops(t, k)
    BY <1>1, <1>7 DEF Stops
  <2>2. s <= d
    BY <1>4, <2>1
  <2>3. ~(s < d)
    <3> SUFFICES ASSUME s < d PROVE FALSE
      OBVIOUS
    <3>1. s \in 0..d - 1
      BY <1>5
    <3> QED BY <1>5, <1>7, <3>1 DEF Passes
  <2> QED BY <1>5, <2>2, <2>3
<1> QED BY <1>5, <1>6, <1>7 DEF s

(* What findEntry returns: the entry of the key, or an entry without a key *)
(* on the way of a probe that does not find it.                            *)
LEMMA FindEntryIs ==
  ASSUME NEW n \in Nat, NEW t \in Table(n), HasEmpty(t), NEW k \in Key
  PROVE  /\ FindEntry(t, k) \in 0..n - 1 /\ FindEntry(t, k) \in DOMAIN t
         /\ t[FindEntry(t, k)].key \in {k, Missing}
         /\ \E f \in 0..n - 1 :
              /\ FindEntry(t, k) = Try(t, k, f) /\ Passes(t, k, f)
              /\ \A e \in 0..f - 1 : Try(t, k, e) # FindEntry(t, k)
         /\ t[FindEntry(t, k)].key = Missing => t[Try(t, k, Stop(t, k))] = Empty
<1>1. Missing \notin Key /\ n > 0
  BY HashTableAssumption, EmptyStops
<1> DEFINE s == Stop(t, k)
           x(i) == t[Try(t, k, i)]
           graves == {i \in 0..s : x(i) = Tombstone}
<1>2. s \in 0..n - 1 /\ (x(s) = Empty \/ x(s).key = k) /\ Passes(t, k, s)
  BY StopIsFirst
<1>3. \A i \in 0..s : Try(t, k, i) \in 0..n - 1 /\ Try(t, k, i) \in DOMAIN t
  BY <1>1, <1>2, TryInside
<1>4. FindEntry(t, k) = IF x(s) = Empty /\ graves # {}
        THEN Try(t, k, CHOOSE i \in graves : \A j \in graves : i <= j)
        ELSE Try(t, k, s)
  BY DEF FindEntry
<1>5. Empty.key = Missing /\ Tombstone.key = Missing /\ Empty # Tombstone
  BY SlotFields
<1>6. \A e \in 0..s - 1 : x(e) # Empty /\ x(e).key # k
  BY <1>2 DEF Passes
<1> HIDE DEF s, x
<1>7. CASE x(s) = Empty /\ graves # {}
  <2>1. graves \in SUBSET Nat
    BY <1>2
  <2>2. PICK i \in graves : \A j \in graves : i <= j
    BY <1>7, <2>1, LeastNatural
  <2> DEFINE f == CHOOSE i2 \in graves : \A j \in graves : i2 <= j
  <2>3. f \in graves /\ \A j \in graves : f <= j
    BY <2>2
  <2> HIDE DEF f
  <2>4. FindEntry(t, k) = Try(t, k, f) /\ f \in 0..s /\ x(f) = Tombstone /\ f \in 0..n - 1
    BY <1>2, <1>4, <1>7, <2>3 DEF f
  <2>5. f # s
    BY <1>5, <1>7, <2>4
  <2>6. \A e \in 0..f - 1 : e \in 0..s - 1 /\ e \notin graves /\ e \in 0..s
    BY <1>2, <2>3, <2>4
  <2>7. Passes(t, k, f)
    BY <1>6, <2>6 DEF Passes, x
  <2>8. \A e \in 0..f - 1 : Try(t, k, e) # Try(t, k, f)
    BY <2>4, <2>6 DEF x
  <2> QED BY <1>3, <1>5, <1>7, <2>4, <2>7, <2>8 DEF x, s
<1>8. CASE ~(x(s) = Empty /\ graves # {})
  <2>1. FindEntry(t, k) = Try(t, k, s)
    BY <1>4, <1>8
  <2>2. x(s).key \in {k, Missing}
    BY <1>2, <1>5
  <2>3. \A e \in 0..s - 1 : Try(t, k, e) # Try(t, k, s)
    BY <1>2, <1>6 DEF x
  <2>4. Try(t, k, s) \in 0..n - 1 /\ Try(t, k, s) \in DOMAIN t
    BY <1>2, <1>3
  <2>5. x(s).key = Missing => x(s) = Empty
    BY <1>1, <1>2
  <2>6. \E f \in 0..n - 1 : /\ FindEntry(t, k) = Try(t, k, f) /\ Passes(t, k, f)
                           /\ \A e \in 0..f - 1 : Try(t, k, e) # FindEntry(t, k)
    BY <1>2, <2>1, <2>3
  <2> QED BY <2>1, <2>2, <2>4, <2>5, <2>6 DEF x, s
<1> QED BY <1>7, <1>8

(* findEntry finds a live entry.                                           *)
LEMMA FindsLive ==
  ASSUME NEW n \in Nat, NEW t \in Table(n), HasEmpty(t), Probed(t),
         NEW i \in DOMAIN t, t[i].key # Missing
  PROVE  FindEntry(t, t[i].key) = i
<1> DEFINE k == t[i].key
<1>1. Capacity(t) = n /\ i \in 0..n - 1 /\ t[i] \in Slot
  BY TableDomain DEF Table
<1>2. k \in Key
  BY <1>1, SlotKinds
<1>3. PICK d \in 0..n - 1 : Try(t, k, d) = i /\ Passes(t, k, d)
  BY <1>1 DEF Probed
<1>4. Stop(t, k) = d
  BY <1>2, <1>3, StopIsFirst
<1>5. t[Try(t, k, Stop(t, k))] # Empty
  BY <1>3, <1>4, SlotFields
<1> QED BY <1>3, <1>4, <1>5 DEF FindEntry

LEMMA KeysAreUnique ==
  ASSUME NEW n \in Nat, NEW t \in Table(n), HasEmpty(t), Probed(t),
         NEW i \in DOMAIN t, NEW j \in DOMAIN t, t[i].key # Missing, t[i].key = t[j].key
  PROVE  i = j
  BY FindsLive

(* tableGet and the tests for a key: whether findEntry finds it.           *)
LEMMA FindEntryDecides ==
  ASSUME NEW n \in Nat, NEW t \in Table(n), HasEmpty(t), Probed(t), NEW k \in Key
  PROVE  /\ k \in Present(t) <=> t[FindEntry(t, k)].key = k
         /\ k \notin Present(t) <=> t[FindEntry(t, k)].key = Missing
         /\ k \in Present(t) => MapOf(t)[k] = t[FindEntry(t, k)].value
<1>1. Missing \notin Key
  BY HashTableAssumption
<1>2. FindEntry(t, k) \in DOMAIN t /\ t[FindEntry(t, k)].key \in {k, Missing}
  BY FindEntryIs
<1>3. ASSUME k \in Present(t) PROVE t[FindEntry(t, k)].key = k
  <2>1. PICK i \in DOMAIN t : t[i].key = k
    BY <1>3 DEF Present
  <2> QED BY <1>1, <2>1, FindsLive
<1>4. ASSUME t[FindEntry(t, k)].key = k PROVE k \in Present(t)
  BY <1>1, <1>2, <1>4 DEF Present
<1>5. ASSUME k \in Present(t) PROVE MapOf(t)[k] = t[FindEntry(t, k)].value
  <2> DEFINE i == CHOOSE i \in DOMAIN t : t[i].key = k
  <2>1. i \in DOMAIN t /\ t[i].key = k
    BY <1>2, <1>3, <1>5
  <2>2. MapOf(t)[k] = t[i].value
    BY <1>5 DEF MapOf
  <2> HIDE DEF i
  <2>3. i = FindEntry(t, k)
    BY <1>1, <2>1, FindsLive
  <2> QED BY <2>2, <2>3
<1> QED BY <1>1, <1>2, <1>3, <1>4, <1>5

LEMMA MapOfLive ==
  ASSUME NEW n \in Nat, NEW t \in Table(n), HasEmpty(t), Probed(t),
         NEW i \in DOMAIN t, t[i].key # Missing
  PROVE  t[i].key \in Key /\ t[i].key \in Present(t) /\ MapOf(t)[t[i].key] = t[i].value
<1>1. t[i] \in Slot
  BY TableDomain DEF Table
<1>2. t[i].key \in Key
  BY <1>1, SlotKinds
<1>3. t[i].key \in Present(t)
  BY DEF Present
<1> QED BY <1>2, <1>3, FindsLive, FindEntryDecides

----------------------------------------------------------------------------
(* The end of tableSet, and tableDelete.                                   *)

With(m, k, v) == [x \in DOMAIN m \cup {k} |-> IF x = k THEN v ELSE m[x]]
Without(m, S) == [x \in DOMAIN m \ S |-> m[x]]

(* What a call that left u instead of t did to the live entries and to the *)
(* map: the new entry at i, or the keys S buried, or another capacity.     *)
Stored(u, t, i, k, v) ==
  /\ Present(u) = Present(t) \cup {k}
  /\ MapOf(u) = With(MapOf(t), k, v)
  /\ Used(u) = Used(t) \cup {i}
Removed(u, t, S) ==
  /\ Present(u) = Present(t) \ S
  /\ MapOf(u) = Without(MapOf(t), S)
  /\ Used(u) = Used(t)
Resized(u, t) ==
  /\ Present(u) = Present(t)
  /\ MapOf(u) = MapOf(t)
  /\ Cardinality(Used(u)) = Cardinality(Present(t))

LEMMA StoreKeeps ==
  ASSUME NEW n \in Nat, NEW t \in Table(n), HasEmpty(t), Probed(t),
         NEW k \in Key, NEW v \in Value,
         NEW i, i = FindEntry(t, k), NEW u, u = [t EXCEPT ![i] = Entry(k, v)]
  PROVE  u \in Table(n) /\ Probed(u) /\ i \in DOMAIN t /\ Stored(u, t, i, k, v)
<1> DEFINE e == Entry(k, v)
<1>1. e \in Slot /\ e.used /\ e.key = k /\ e.value = v
  BY SlotFields
<1>2. Missing \notin Key /\ n > 0
  BY HashTableAssumption, EmptyStops
<1>3. DOMAIN t = 0..n - 1 /\ Capacity(t) = n /\ t \in [0..n - 1 -> Slot]
  BY TableDomain DEF Table
<1>4. /\ i \in 0..n - 1 /\ t[i].key \in {k, Missing}
      /\ \E f \in 0..n - 1 : i = Try(t, k, f) /\ Passes(t, k, f)
                             /\ \A g \in 0..f - 1 : Try(t, k, g) # i
  BY FindEntryIs
<1> HIDE DEF e
<1>5. /\ u \in [0..n - 1 -> Slot] /\ u[i] = e /\ DOMAIN u = 0..n - 1
      /\ \A j \in 0..n - 1 : j # i => u[j] = t[j]
  <2>1. u = [t EXCEPT ![i] = e]
    BY DEF e
  <2> QED BY <1>1, <1>3, <1>4, <2>1
<1>6. u \in Table(n)
  BY <1>5 DEF Table
<1>7. Capacity(u) = n
  BY <1>6, TableDomain
<1>8. \A x, d : Try(u, x, d) = Try(t, x, d)
  BY <1>3, <1>7 DEF Try
<1>9. Probed(u)
  <2> SUFFICES ASSUME NEW j \in 0..n - 1, u[j].key # Missing
               PROVE  \E d \in 0..n - 1 : Try(u, u[j].key, d) = j /\ Passes(u, u[j].key, d)
    BY <1>5, <1>7 DEF Probed
  <2>1. CASE j = i
    <3>1. PICK f \in 0..n - 1 : i = Try(t, k, f) /\ Passes(t, k, f)
                               /\ \A g \in 0..f - 1 : Try(t, k, g) # i
      BY <1>4
    <3>2. ASSUME NEW g \in 0..f - 1
          PROVE  u[Try(t, k, g)] # Empty /\ u[Try(t, k, g)].key # k
      <4>1. Try(t, k, g) # i /\ Try(t, k, g) \in 0..n - 1
        BY <1>2, <3>1, TryInside
      <4> QED BY <1>5, <3>1, <4>1 DEF Passes
    <3>3. Passes(u, k, f)
      BY <1>8, <3>2 DEF Passes
    <3>4. u[j].key = k
      BY <1>1, <1>5, <2>1
    <3> QED BY <1>8, <2>1, <3>1, <3>3, <3>4
  <2>2. CASE j # i
    <3> DEFINE x == t[j].key
    <3>1. u[j] = t[j] /\ x # Missing
      BY <1>5, <2>2
    <3>2. x # k
      BY <1>3, <2>2, <3>1, FindsLive
    <3>3. PICK d \in 0..n - 1 : Try(t, x, d) = j /\ Passes(t, x, d)
      BY <1>3, <3>1 DEF Probed
    <3>4. x \in Key
      BY <1>3, <3>1, MapOfLive
    <3>5. ASSUME NEW g \in 0..d - 1
          PROVE  u[Try(t, x, g)] # Empty /\ u[Try(t, x, g)].key # x
      <4>1. Try(t, x, g) \in 0..n - 1
        BY <1>2, <3>3, <3>4, TryInside
      <4>2. e # Empty
        BY <1>1, SlotFields
      <4>3. t[Try(t, x, g)] # Empty /\ t[Try(t, x, g)].key # x
        BY <3>3 DEF Passes
      <4>4. CASE Try(t, x, g) = i
        BY <1>1, <1>5, <3>2, <4>2, <4>4
      <4>5. CASE Try(t, x, g) # i
        BY <1>5, <4>1, <4>3, <4>5
      <4> QED BY <4>4, <4>5
    <3>6. Passes(u, x, d)
      BY <1>8, <3>5 DEF Passes
    <3> QED BY <1>8, <3>1, <3>3, <3>6
  <2> QED BY <2>1, <2>2
<1>10. Present(u) = Present(t) \cup {k}
  <2>1. k \in Present(u)
    BY <1>1, <1>2, <1>4, <1>5 DEF Present
  <2>2. ASSUME NEW x \in Present(t), x # k PROVE x \in Present(u)
    <3>1. PICK j \in 0..n - 1 : t[j].key = x /\ x # Missing
      BY <1>3 DEF Present
    <3>2. j # i
      BY <1>4, <2>2, <3>1
    <3> QED BY <1>5, <3>1, <3>2 DEF Present
  <2>3. ASSUME NEW x \in Present(u), x # k PROVE x \in Present(t)
    <3>1. PICK j \in 0..n - 1 : u[j].key = x /\ x # Missing
      BY <1>5 DEF Present
    <3>2. j # i
      BY <1>1, <1>5, <2>3, <3>1
    <3> QED BY <1>3, <1>5, <3>1, <3>2 DEF Present
  <2> QED BY <2>1, <2>2, <2>3
<1>11. ASSUME NEW x \in Present(t) \cup {k}
       PROVE  MapOf(u)[x] = IF x = k THEN v ELSE MapOf(t)[x]
  <2> DEFINE c == CHOOSE c \in DOMAIN u : u[c].key = x
  <2>1. MapOf(u)[x] = u[c].value
    BY <1>10 DEF MapOf
  <2>2. \E j \in DOMAIN u : u[j].key = x
    BY <1>10 DEF Present
  <2>3. c \in 0..n - 1 /\ u[c].key = x
    BY <1>5, <2>2
  <2> HIDE DEF c
  <2>4. x # Missing
    BY <1>2 DEF Present
  <2>5. CASE c = i
    <3>1. x = k
      BY <1>1, <1>5, <2>3, <2>5
    <3> QED BY <1>1, <1>5, <2>1, <2>5, <3>1
  <2>6. CASE c # i
    <3>1. u[c] = t[c] /\ t[c].key = x
      BY <1>5, <2>3, <2>6
    <3>2. x # k
      BY <1>3, <2>3, <2>4, <2>6, <3>1, FindsLive
    <3>3. MapOf(t)[x] = t[c].value
      BY <1>3, <2>3, <2>4, <3>1, MapOfLive
    <3> QED BY <2>1, <3>1, <3>2, <3>3
  <2> QED BY <2>5, <2>6
<1>12. MapOf(u) = With(MapOf(t), k, v)
  <2>1. MapOf(u) = [x \in Present(u) |-> MapOf(u)[x]] /\ DOMAIN MapOf(t) = Present(t)
    BY DEF MapOf
  <2> QED BY <1>10, <1>11, <2>1 DEF With
<1>13. Used(u) = Used(t) \cup {i}
  BY <1>1, <1>3, <1>4, <1>5 DEF Used
<1> QED BY <1>3, <1>4, <1>6, <1>9, <1>10, <1>12, <1>13 DEF Stored

LEMMA BuryKeeps ==
  ASSUME NEW n \in Nat, NEW t \in Table(n), HasEmpty(t), Probed(t), NEW S \in SUBSET Key,
         NEW u, u = Buried(t, S)
  PROVE  u \in Table(n) /\ Probed(u) /\ HasEmpty(u) /\ Removed(u, t, S)
<1>1. Tombstone \in Slot /\ Tombstone.key = Missing /\ Tombstone.used /\ Tombstone # Empty
  BY SlotFields
<1>2. Missing \notin Key /\ n > 0 /\ Missing \notin S
  BY HashTableAssumption, TableDomain DEF HasEmpty
<1>3. DOMAIN t = 0..n - 1 /\ Capacity(t) = n /\ t \in [0..n - 1 -> Slot]
  BY TableDomain DEF Table
<1>4. u = [j \in 0..n - 1 |-> IF t[j].key \in S THEN Tombstone ELSE t[j]]
  BY <1>3 DEF Buried
<1>5. /\ u \in [0..n - 1 -> Slot] /\ DOMAIN u = 0..n - 1
      /\ \A j \in 0..n - 1 : u[j] = IF t[j].key \in S THEN Tombstone ELSE t[j]
  BY <1>1, <1>3, <1>4
<1>6. u \in Table(n)
  BY <1>5 DEF Table
<1>7. Capacity(u) = n
  BY <1>6, TableDomain
<1>8. \A x, d : Try(u, x, d) = Try(t, x, d)
  BY <1>3, <1>7 DEF Try
<1>9. \A j \in 0..n - 1 : u[j].key # Missing => u[j] = t[j] /\ t[j].key \notin S
  BY <1>1, <1>5
<1>10. \A j \in 0..n - 1 : t[j].key \notin S => u[j] = t[j]
  BY <1>5
<1>11. Probed(u)
  <2> SUFFICES ASSUME NEW j \in 0..n - 1, u[j].key # Missing
               PROVE  \E d \in 0..n - 1 : Try(u, u[j].key, d) = j /\ Passes(u, u[j].key, d)
    BY <1>5, <1>7 DEF Probed
  <2> DEFINE x == t[j].key
  <2>1. u[j] = t[j] /\ x # Missing
    BY <1>9
  <2>2. PICK d \in 0..n - 1 : Try(t, x, d) = j /\ Passes(t, x, d)
    BY <1>3, <2>1 DEF Probed
  <2>3. x \in Key
    BY <1>3, <2>1, MapOfLive
  <2>4. ASSUME NEW g \in 0..d - 1
        PROVE  u[Try(t, x, g)] # Empty /\ u[Try(t, x, g)].key # x
    <3>1. Try(t, x, g) \in 0..n - 1
      BY <1>2, <2>2, <2>3, TryInside
    <3>2. t[Try(t, x, g)] # Empty /\ t[Try(t, x, g)].key # x
      BY <2>2 DEF Passes
    <3> QED BY <1>1, <1>5, <2>1, <3>1, <3>2
  <2>5. Passes(u, x, d)
    BY <1>8, <2>4 DEF Passes
  <2> QED BY <1>8, <2>1, <2>2, <2>5
<1>12. HasEmpty(u)
  <2>1. PICK j \in 0..n - 1 : t[j] = Empty
    BY <1>3 DEF HasEmpty
  <2>2. t[j].key \notin S
    BY <1>2, <2>1, SlotFields
  <2> QED BY <1>5, <1>10, <2>1, <2>2 DEF HasEmpty
<1>13. Present(u) = Present(t) \ S
  <2>1. ASSUME NEW x \in Present(u) PROVE x \in Present(t) \ S
    <3>1. PICK j \in 0..n - 1 : u[j].key = x /\ x # Missing
      BY <1>5 DEF Present
    <3> QED BY <1>3, <1>9, <3>1 DEF Present
  <2>2. ASSUME NEW x \in Present(t), x \notin S PROVE x \in Present(u)
    <3>1. PICK j \in 0..n - 1 : t[j].key = x /\ x # Missing
      BY <1>3 DEF Present
    <3> QED BY <1>5, <1>10, <2>2, <3>1 DEF Present
  <2> QED BY <2>1, <2>2
<1>14. ASSUME NEW x \in Present(u) PROVE MapOf(u)[x] = MapOf(t)[x]
  <2> DEFINE c == CHOOSE c \in DOMAIN u : u[c].key = x
  <2>1. MapOf(u)[x] = u[c].value
    BY DEF MapOf
  <2>2. \E j \in DOMAIN u : u[j].key = x
    BY DEF Present
  <2>3. c \in 0..n - 1 /\ u[c].key = x
    BY <1>5, <2>2
  <2> HIDE DEF c
  <2>4. x # Missing
    BY DEF Present
  <2>5. u[c] = t[c]
    BY <1>9, <2>3, <2>4
  <2> QED BY <1>3, <2>1, <2>3, <2>4, <2>5, MapOfLive
<1>15. MapOf(u) = Without(MapOf(t), S)
  <2>1. MapOf(u) = [x \in Present(u) |-> MapOf(u)[x]] /\ DOMAIN MapOf(t) = Present(t)
    BY DEF MapOf
  <2> QED BY <1>13, <1>14, <2>1 DEF Without
<1>16. Used(u) = Used(t)
  <2>1. \A j \in 0..n - 1 : t[j].key \in S => t[j].used
    <3> SUFFICES ASSUME NEW j \in 0..n - 1, t[j].key \in S PROVE t[j].used
      OBVIOUS
    <3>1. t[j] \in Slot /\ t[j].key # Missing
      BY <1>2, <1>3
    <3> QED BY <3>1, SlotKinds, SlotFields
  <2>2. \A j \in 0..n - 1 : u[j].used <=> t[j].used
    BY <1>1, <1>5, <2>1
  <2> QED BY <1>3, <1>5, <2>2 DEF Used
<1> QED BY <1>6, <1>11, <1>12, <1>13, <1>15, <1>16 DEF Removed

----------------------------------------------------------------------------
(* adjustCapacity.                                                         *)

(* One entry moves to the array x.                                         *)
Moved(x, e) == IF e.key = Missing THEN x ELSE [x EXCEPT ![FindEntry(x, e.key)] = e]

(* The array after i entries of t have moved to one of n.                  *)
IsMoving(f, t, n, m) ==
  f = [i \in 0..m |-> IF i = 0 THEN Fresh(n) ELSE Moved(f[i - 1], t[i - 1])]

LEMMA MovingExists ==
  ASSUME NEW t, NEW n, NEW m \in Nat
  PROVE  \E f : IsMoving(f, t, n, m)
<1> DEFINE T == {i \in Nat : ~ \E f : IsMoving(f, t, n, i)}
<1> SUFFICES ASSUME T # {} PROVE FALSE
  OBVIOUS
<1>1. T \in SUBSET Nat
  OBVIOUS
<1>2. PICK i \in T : \A j \in T : i <= j
  BY <1>1, LeastNatural
<1>3. i \in Nat /\ ~ \E f : IsMoving(f, t, n, i)
  BY <1>2
<1>4. CASE i = 0
  <2> DEFINE f == [j \in 0..0 |-> Fresh(n)]
  <2>1. f = [j \in 0..0 |-> IF j = 0 THEN Fresh(n) ELSE Moved(f[j - 1], t[j - 1])]
    OBVIOUS
  <2>2. IsMoving(f, t, n, 0)
    BY <2>1 DEF IsMoving
  <2> QED BY <1>3, <1>4, <2>2
<1>5. CASE i # 0
  <2>1. i - 1 \in Nat /\ (i - 1) \notin T
    BY <1>2, <1>3, <1>5
  <2>2. PICK g : IsMoving(g, t, n, i - 1)
    BY <2>1
  <2> DEFINE f == [j \in 0..i |-> IF j = i THEN Moved(g[i - 1], t[i - 1]) ELSE g[j]]
  <2>3. g = [j \in 0..i - 1 |-> IF j = 0 THEN Fresh(n) ELSE Moved(g[j - 1], t[j - 1])]
    BY <2>2 DEF IsMoving
  <2>4. ASSUME NEW j \in 0..i
        PROVE  f[j] = IF j = 0 THEN Fresh(n) ELSE Moved(f[j - 1], t[j - 1])
    <3>1. CASE j = i
      <4>1. j - 1 \in 0..i /\ j - 1 # i
        BY <1>3, <1>5, <3>1
      <4>2. f[j - 1] = g[i - 1]
        BY <3>1, <4>1
      <4> QED BY <1>5, <3>1, <4>2
    <3>2. CASE j # i
      <4>1. j \in 0..i - 1 /\ f[j] = g[j]
        BY <1>3, <3>2
      <4>2. g[j] = IF j = 0 THEN Fresh(n) ELSE Moved(g[j - 1], t[j - 1])
        BY <2>3, <4>1
      <4>3. j # 0 => f[j - 1] = g[j - 1]
        BY <1>3, <4>1
      <4> QED BY <4>1, <4>2, <4>3
    <3> QED BY <3>1, <3>2
  <2>5. f = [j \in 0..i |-> f[j]]
    OBVIOUS
  <2> HIDE DEF f
  <2>6. f = [j \in 0..i |-> IF j = 0 THEN Fresh(n) ELSE Moved(f[j - 1], t[j - 1])]
    BY <2>4, <2>5
  <2>7. IsMoving(f, t, n, i)
    BY <2>6 DEF IsMoving
  <2> QED BY <1>3, <2>7
<1> QED BY <1>4, <1>5

LEMMA RehashMoves ==
  ASSUME NEW m \in Nat, NEW t \in Table(m), NEW n
  PROVE  \E f : IsMoving(f, t, n, m) /\ Rehash(t, n) = f[m]
<1> DEFINE r == CHOOSE r : r = [i \in 0..Capacity(t) |->
                  IF i = 0 THEN Fresh(n)
                  ELSE IF t[i - 1].key = Missing THEN r[i - 1]
                  ELSE [r[i - 1] EXCEPT ![FindEntry(r[i - 1], t[i - 1].key)] = t[i - 1]]]
<1>1. Capacity(t) = m
  BY TableDomain
<1>2. Rehash(t, n) = r[Capacity(t)]
  BY DEF Rehash
<1>3. PICK f : IsMoving(f, t, n, m)
  BY MovingExists
<1>4. f = [i \in 0..Capacity(t) |->
             IF i = 0 THEN Fresh(n)
             ELSE IF t[i - 1].key = Missing THEN f[i - 1]
             ELSE [f[i - 1] EXCEPT ![FindEntry(f[i - 1], t[i - 1].key)] = t[i - 1]]]
  BY <1>1, <1>3 DEF IsMoving, Moved
<1>5. r = [i \in 0..Capacity(t) |->
             IF i = 0 THEN Fresh(n)
             ELSE IF t[i - 1].key = Missing THEN r[i - 1]
             ELSE [r[i - 1] EXCEPT ![FindEntry(r[i - 1], t[i - 1].key)] = t[i - 1]]]
  BY <1>4
<1> HIDE DEF r
<1>6. IsMoving(r, t, n, m)
  BY <1>1, <1>5 DEF IsMoving, Moved
<1> QED BY <1>1, <1>2, <1>6

(* Too few live entries to fill the array.                                 *)
LEMMA FewLeaveAnEmpty ==
  ASSUME NEW n \in Nat, NEW t \in Table(n), Cardinality(Used(t)) < n
  PROVE  HasEmpty(t)
<1> SUFFICES ASSUME ~HasEmpty(t) PROVE FALSE
  OBVIOUS
<1>1. DOMAIN t = 0..n - 1 /\ t \in [0..n - 1 -> Slot]
  BY TableDomain DEF Table
<1>2. ASSUME NEW i \in 0..n - 1 PROVE t[i].used
  <2>1. t[i] \in Slot /\ t[i] # Empty
    BY <1>1 DEF HasEmpty
  <2> QED BY <2>1, SlotKinds
<1>3. Used(t) = 0..n - 1
  BY <1>1, <1>2 DEF Used
<1>4. Cardinality(0..n - 1) = n
  BY FS_Interval
<1> QED BY <1>3, <1>4

LEMMA PresentIsSmall ==
  ASSUME NEW n \in Nat, NEW t \in Table(n)
  PROVE  /\ IsFiniteSet(Present(t)) /\ Cardinality(Present(t)) \in Nat
         /\ Cardinality(Present(t)) <= Cardinality(Used(t))
         /\ Present(t) \subseteq Key
<1>1. IsFiniteSet(Used(t)) /\ DOMAIN t = 0..n - 1 /\ t \in [0..n - 1 -> Slot]
  BY TableDomain DEF Table
<1> DEFINE f == [i \in Used(t) |-> t[i].key]
           Image == {t[i].key : i \in Used(t)}
<1>2. f \in Surjection(Used(t), Image)
  BY DEF Surjection
<1>3. IsFiniteSet(Image) /\ Cardinality(Image) <= Cardinality(Used(t))
  BY <1>1, <1>2, FS_Surjection
<1>4. \A i \in 0..n - 1 : t[i].key # Missing => i \in Used(t) /\ t[i].key \in Key
  <2> SUFFICES ASSUME NEW i \in 0..n - 1, t[i].key # Missing
               PROVE  i \in Used(t) /\ t[i].key \in Key
    OBVIOUS
  <2>1. t[i] \in Slot /\ t[i] # Empty
    BY <1>1, SlotFields
  <2> QED BY <1>1, <2>1, SlotKinds DEF Used
<1>5. Present(t) \subseteq Image /\ Present(t) \subseteq Key
  BY <1>1, <1>4 DEF Present
<1>6. IsFiniteSet(Present(t)) /\ Cardinality(Present(t)) <= Cardinality(Image)
  BY <1>3, <1>5, FS_Subset
<1>7. Cardinality(Present(t)) \in Nat /\ Cardinality(Image) \in Nat /\ Cardinality(Used(t)) \in Nat
  BY <1>1, <1>3, <1>6, FS_CardinalityType
<1> QED BY <1>3, <1>5, <1>6, <1>7

(* The array x holds the first i entries of t and no tombstone.            *)
Carries(x, t, n, i) ==
  /\ x \in Table(n) /\ Probed(x)
  /\ \A j \in 0..n - 1 : x[j].key = Missing => x[j] = Empty
  /\ Present(x) = {t[j].key : j \in 0..i - 1} \ {Missing}
  /\ Cardinality(Used(x)) = Cardinality(Present(x))
  /\ \A k \in Present(x) : MapOf(x)[k] = MapOf(t)[k]

LEMMA FreshCarries ==
  ASSUME NEW n \in Nat, NEW t
  PROVE  Carries(Fresh(n), t, n, 0)
<1> DEFINE x == Fresh(n)
<1>1. Empty \in Slot /\ Empty.key = Missing /\ ~Empty.used
  BY SlotFields
<1>2. x = [i \in 0..n - 1 |-> Empty]
  BY DEF Fresh
<1> HIDE DEF x
<1>3. x \in Table(n) /\ DOMAIN x = 0..n - 1 /\ \A j \in 0..n - 1 : x[j] = Empty
  BY <1>1, <1>2 DEF Table
<1>4. Present(x) = {} /\ Used(x) = {}
  BY <1>1, <1>3 DEF Present, Used
<1>5. Probed(x)
  BY <1>1, <1>3 DEF Probed
<1>6. {t[j].key : j \in 0..0 - 1} = {}
  OBVIOUS
<1> QED BY <1>3, <1>4, <1>5, <1>6 DEF Carries, x

LEMMA MovedCarries ==
  ASSUME NEW m \in Nat, NEW t \in Table(m), HasEmpty(t), Probed(t),
         NEW n \in Nat, Cardinality(Present(t)) < n,
         NEW i \in 0..m - 1, NEW x, Carries(x, t, n, i)
  PROVE  Carries(Moved(x, t[i]), t, n, i + 1)
<1> DEFINE e == t[i]
           Keys(l) == {t[j].key : j \in 0..l - 1}
<1>1. DOMAIN t = 0..m - 1 /\ e \in Slot
  BY TableDomain DEF Table
<1>2. Keys(i + 1) = Keys(i) \cup {e.key}
  <2>1. 0..(i + 1) - 1 = (0..i - 1) \cup {i}
    OBVIOUS
  <2> QED BY <2>1
<1>3. /\ x \in Table(n) /\ Probed(x) /\ Present(x) = Keys(i) \ {Missing}
      /\ \A j \in 0..n - 1 : x[j].key = Missing => x[j] = Empty
      /\ Cardinality(Used(x)) = Cardinality(Present(x))
      /\ \A k \in Present(x) : MapOf(x)[k] = MapOf(t)[k]
  BY DEF Carries
<1> HIDE DEF e, Keys
<1>4. CASE e.key = Missing
  <2>1. Moved(x, e) = x /\ Keys(i + 1) \ {Missing} = Keys(i) \ {Missing}
    BY <1>2, <1>4 DEF Moved
  <2>2. Carries(x, t, n, i + 1)
    BY <1>3, <2>1 DEF Carries, Keys
  <2> QED BY <2>1, <2>2 DEF e
<1>5. CASE e.key # Missing
  <2> DEFINE k == e.key
             f == FindEntry(x, k)
             u == [x EXCEPT ![f] = Entry(k, e.value)]
  <2>1. k \in Key /\ e.value \in Value /\ e = Entry(k, e.value)
    BY <1>1, <1>5, SlotKinds
  <2>2. Moved(x, e) = u
    BY <1>5, <2>1 DEF Moved
  <2>3. Present(x) \subseteq Present(t)
    <3>1. ASSUME NEW y \in Keys(i), y # Missing PROVE y \in Present(t)
      <4>1. PICK j \in 0..i - 1 : y = t[j].key
        BY <3>1 DEF Keys
      <4>2. j \in DOMAIN t
        BY <1>1
      <4> QED BY <3>1, <4>1, <4>2 DEF Present
    <3> QED BY <1>3, <3>1
  <2>4. HasEmpty(x)
    <3>1. IsFiniteSet(Present(t)) /\ Cardinality(Present(t)) \in Nat
      BY PresentIsSmall
    <3>2. Cardinality(Present(x)) <= Cardinality(Present(t))
      BY <2>3, <3>1, FS_Subset
    <3>3. Cardinality(Present(x)) \in Nat
      BY <1>3, PresentIsSmall
    <3> QED BY <1>3, <3>1, <3>2, <3>3, FewLeaveAnEmpty
  <2>5. k \notin Present(x)
    <3> SUFFICES ASSUME k \in Keys(i) PROVE FALSE
      BY <1>3
    <3>1. PICK j \in 0..i - 1 : k = t[j].key
      BY DEF Keys
    <3>2. j \in DOMAIN t /\ i \in DOMAIN t /\ i # j
      BY <1>1
    <3> QED BY <1>5, <3>1, <3>2, KeysAreUnique DEF e
  <2> DEFINE v == e.value
  <2> HIDE DEF k, f
  <2>a. f = FindEntry(x, k) /\ u = [x EXCEPT ![f] = Entry(k, v)]
    BY DEF f
  <2>b. k \in Key /\ v \in Value
    BY <2>1
  <2> HIDE DEF v, u
  <2>6. /\ u \in Table(n) /\ Probed(u) /\ f \in DOMAIN x
        /\ Present(u) = Present(x) \cup {k} /\ Used(u) = Used(x) \cup {f}
        /\ MapOf(u) = With(MapOf(x), k, v)
    <3>1. x \in Table(n) /\ HasEmpty(x) /\ Probed(x)
      BY <1>3, <2>4
    <3>2. u \in Table(n) /\ Probed(u) /\ f \in DOMAIN x /\ Stored(u, x, f, k, v)
      BY <3>1, <2>a, <2>b, StoreKeeps
    <3> QED BY <3>2 DEF Stored
  <2>7. f \in 0..n - 1 /\ DOMAIN x = 0..n - 1
    BY <1>3, <2>6, TableDomain
  <2>8. x[f] = Empty /\ f \notin Used(x)
    <3>1. x[f].key = Missing
      BY <1>3, <2>1, <2>4, <2>5, FindEntryDecides DEF f
    <3>2. x[f] = Empty
      BY <1>3, <2>7, <3>1
    <3> QED BY <3>2, SlotFields DEF Used
  <2>9. Cardinality(Used(u)) = Cardinality(Present(u))
    <3>1. IsFiniteSet(Used(x)) /\ IsFiniteSet(Present(x))
      BY <1>3, TableDomain, PresentIsSmall
    <3>2. Cardinality(Used(u)) = Cardinality(Used(x)) + 1
      BY <2>6, <2>8, <3>1, FS_AddElement
    <3>3. Cardinality(Present(u)) = Cardinality(Present(x)) + 1
      BY <2>5, <2>6, <3>1, FS_AddElement
    <3> QED BY <1>3, <3>2, <3>3
  <2>10. ASSUME NEW j \in 0..n - 1, u[j].key = Missing PROVE u[j] = Empty
    <3> DEFINE entry == Entry(k, v)
    <3>1. entry.key = k /\ k # Missing
      BY <1>5, <2>b, SlotFields DEF k
    <3> HIDE DEF entry
    <3>2. u[j] = IF j = f THEN entry ELSE x[j]
      BY <2>7, <2>a DEF entry
    <3>3. j # f
      BY <2>10, <3>1, <3>2
    <3> QED BY <1>3, <2>10, <3>2, <3>3
  <2>11. Present(u) = Keys(i + 1) \ {Missing}
    BY <1>2, <1>3, <1>5, <2>6 DEF k
  <2>12. MapOf(t)[k] = v
    BY <1>1, <1>5, MapOfLive DEF e, k, v
  <2>13. \A y \in Present(u) : MapOf(u)[y] = MapOf(t)[y]
    <3>1. DOMAIN MapOf(x) = Present(x)
      BY DEF MapOf
    <3> QED BY <1>3, <2>5, <2>6, <2>12, <3>1 DEF With
  <2>14. Carries(u, t, n, i + 1)
    BY <2>6, <2>9, <2>10, <2>11, <2>13 DEF Carries, Keys
  <2> QED BY <2>2, <2>14 DEF e, u, v
<1> QED BY <1>4, <1>5

(* The new array holds what the old one held, and nothing else.            *)
LEMMA RehashKeeps ==
  ASSUME NEW m \in Nat, NEW t \in Table(m), m > 0 => HasEmpty(t), Probed(t),
         NEW n \in Nat, Cardinality(Present(t)) < n,
         NEW u, u = Rehash(t, n)
  PROVE  u \in Table(n) /\ Probed(u) /\ HasEmpty(u) /\ Resized(u, t)
<1>1. PICK f : IsMoving(f, t, n, m) /\ u = f[m]
  BY RehashMoves
<1>2. f = [i \in 0..m |-> IF i = 0 THEN Fresh(n) ELSE Moved(f[i - 1], t[i - 1])]
  BY <1>1 DEF IsMoving
<1> DEFINE T == {i \in 0..m : ~Carries(f[i], t, n, i)}
<1>3. T = {}
  <2> SUFFICES ASSUME T # {} PROVE FALSE
    OBVIOUS
  <2>1. T \in SUBSET Nat
    OBVIOUS
  <2>2. PICK i \in T : \A j \in T : i <= j
    BY <2>1, LeastNatural
  <2>3. i \in 0..m /\ ~Carries(f[i], t, n, i)
    BY <2>2
  <2>4. CASE i = 0
    <3>1. f[0] = Fresh(n)
      BY <1>2
    <3> QED BY <2>3, <2>4, <3>1, FreshCarries
  <2>5. CASE i # 0
    <3>1. i - 1 \in 0..m - 1 /\ i - 1 \in 0..m /\ (i - 1) \notin T /\ m > 0
      BY <2>2, <2>3, <2>5
    <3>2. Carries(f[i - 1], t, n, i - 1)
      BY <3>1
    <3>3. f[i] = Moved(f[i - 1], t[i - 1])
      BY <1>2, <2>3, <2>5
    <3>4. Carries(Moved(f[i - 1], t[i - 1]), t, n, (i - 1) + 1)
      BY <3>1, <3>2, MovedCarries
    <3>5. (i - 1) + 1 = i
      BY <2>3
    <3> QED BY <2>3, <3>3, <3>4, <3>5
  <2> QED BY <2>4, <2>5
<1>4. Carries(u, t, n, m)
  BY <1>1, <1>3
<1>5. u \in Table(n) /\ Probed(u) /\ Present(u) = {t[j].key : j \in 0..m - 1} \ {Missing}
      /\ Cardinality(Used(u)) = Cardinality(Present(u))
      /\ \A k \in Present(u) : MapOf(u)[k] = MapOf(t)[k]
  BY <1>4 DEF Carries
<1>6. Present(u) = Present(t)
  BY <1>5, TableDomain DEF Present
<1>7. HasEmpty(u)
  BY <1>5, <1>6, FewLeaveAnEmpty
<1>8. MapOf(u) = MapOf(t)
  <2>1. MapOf(u) = [k \in Present(u) |-> MapOf(u)[k]] /\ MapOf(t) = [k \in Present(t) |-> MapOf(t)[k]]
    BY DEF MapOf
  <2> QED BY <1>5, <1>6, <2>1
<1> QED BY <1>5, <1>6, <1>7, <1>8 DEF Resized

----------------------------------------------------------------------------
(* The inductive invariant.                                                *)

(* A table t with the count n.                                             *)
Sound(t, n) ==
  /\ \E c \in Nat : t \in Table(c) /\ (c = 0 \/ c >= MinCapacity) /\ 4 * n <= 3 * c
  /\ Probed(t)
  /\ n = Cardinality(Used(t))

IInv ==
  /\ Sound(entries, count)
  /\ setting \in {Missing} \cup [key : Key, value : Value]

LEMMA SoundFacts ==
  ASSUME NEW t, NEW n, Sound(t, n)
  PROVE  /\ Capacity(t) \in Nat /\ t \in Table(Capacity(t)) /\ n \in Nat
         /\ Capacity(t) = 0 \/ Capacity(t) >= MinCapacity
         /\ 4 * n <= 3 * Capacity(t)
         /\ Capacity(t) > 0 => HasEmpty(t)
         /\ Capacity(t) = 0 => n = 0 /\ Present(t) = {}
         /\ n = 0 => Present(t) = {}
<1>1. PICK c \in Nat : t \in Table(c) /\ (c = 0 \/ c >= MinCapacity) /\ 4 * n <= 3 * c
  BY DEF Sound
<1>2. Capacity(t) = c /\ DOMAIN t = 0..c - 1 /\ n = Cardinality(Used(t)) /\ n \in Nat
  BY <1>1, TableDomain DEF Sound
<1>3. c > 0 => n < c
  BY <1>1, <1>2
<1>4. c > 0 => HasEmpty(t)
  BY <1>1, <1>2, <1>3, FewLeaveAnEmpty
<1>5. c = 0 => n = 0
  BY <1>1, <1>2
<1>6. n = 0 => Present(t) = {}
  <2>1. IsFiniteSet(Present(t)) /\ Cardinality(Present(t)) \in Nat
        /\ Cardinality(Present(t)) <= Cardinality(Used(t))
    BY <1>1, PresentIsSmall
  <2>2. n = 0 => Cardinality(Present(t)) = 0
    BY <1>2, <2>1
  <2> QED BY <2>1, <2>2, FS_EmptySet
<1> QED BY <1>1, <1>2, <1>4, <1>5, <1>6

LEMMA SoundImplies ==
  ASSUME Sound(entries, count)
  PROVE  TypeOK /\ ProbingEnds /\ OneEntryPerKey
<1> DEFINE c == Capacity(entries)
<1>1. /\ c \in Nat /\ entries \in Table(c) /\ count \in Nat /\ 4 * count <= 3 * c
      /\ c > 0 => HasEmpty(entries)
  BY SoundFacts
<1>2. Probed(entries) /\ count = Cardinality(Used(entries))
  BY DEF Sound
<1>3. DOMAIN entries = 0..c - 1 /\ entries \in [0..c - 1 -> Slot]
  BY <1>1, TableDomain DEF Table
<1>4. TypeOK
  BY <1>1, <1>2, <1>3 DEF TypeOK, Used, Slot
<1>5. ProbingEnds
  BY <1>1, EmptyStops DEF ProbingEnds
<1>6. OneEntryPerKey
  <2> SUFFICES ASSUME NEW i \in DOMAIN entries, entries[i].key # Missing
               PROVE  FindEntry(entries, entries[i].key) = i
    BY DEF OneEntryPerKey
  <2>1. c > 0
    BY <1>1, <1>3
  <2> QED BY <1>1, <1>2, <2>1, FindsLive
<1> QED BY <1>4, <1>5, <1>6

(* The end of tableSet over an array with room for one more.               *)
LEMMA StoreStep ==
  ASSUME NEW c \in Nat, NEW t \in Table(c), HasEmpty(t), Probed(t), c >= MinCapacity,
         NEW n \in Nat, n = Cardinality(Used(t)), 4 * (n + 1) <= 3 * c,
         NEW k \in Key, NEW v \in Value, Store(t, n, k, v)
  PROVE  /\ Sound(entries', count')
         /\ MapOf(entries') = With(MapOf(t), k, v)
         /\ answer' = (k \notin Present(t))
<1> DEFINE i == FindEntry(t, k)
<1>1. i = FindEntry(t, k) /\ entries' = [t EXCEPT ![i] = Entry(k, v)]
      /\ count' = (IF t[i] = Empty THEN n + 1 ELSE n) /\ answer' = (t[i].key = Missing)
  BY DEF Store
<1> HIDE DEF i
<1>2. entries' \in Table(c) /\ Probed(entries') /\ i \in DOMAIN t
      /\ Stored(entries', t, i, k, v)
  BY <1>1, StoreKeeps
<1>3. MapOf(entries') = With(MapOf(t), k, v) /\ Used(entries') = Used(t) \cup {i}
  BY <1>2 DEF Stored
<1>4. i \in Used(t) <=> t[i] # Empty
  <2>1. t[i] \in Slot
    BY <1>2, TableDomain DEF Table
  <2> QED BY <1>2, <2>1, SlotKinds DEF Used
<1>5. count' = Cardinality(Used(entries')) /\ count' \in Nat /\ 4 * count' <= 3 * c
  <2>1. IsFiniteSet(Used(t))
    BY TableDomain
  <2>2. Cardinality(Used(entries')) = IF i \in Used(t) THEN n ELSE n + 1
    BY <1>3, <2>1, FS_AddElement
  <2> QED BY <1>1, <1>4, <2>2
<1>6. Sound(entries', count')
  BY <1>2, <1>5 DEF Sound
<1>7. answer' = (k \notin Present(t))
  <2>1. k \notin Present(t) <=> t[FindEntry(t, k)].key = Missing
    BY FindEntryDecides
  <2> QED BY <1>1, <2>1
<1> QED BY <1>3, <1>6, <1>7

LEMMA BuryStep ==
  ASSUME Sound(entries, count), NEW S \in SUBSET Key, Present(entries) # {},
         entries' = Buried(entries, S), count' = count
  PROVE  /\ Sound(entries', count')
         /\ MapOf(entries') = Without(MapOf(entries), S)
<1> DEFINE c == Capacity(entries)
<1>1. /\ c \in Nat /\ entries \in Table(c) /\ (c = 0 \/ c >= MinCapacity)
      /\ 4 * count <= 3 * c /\ HasEmpty(entries) /\ Probed(entries)
      /\ count = Cardinality(Used(entries))
  BY SoundFacts DEF Sound
<1> HIDE DEF c
<1>2. entries' \in Table(c) /\ Probed(entries') /\ Removed(entries', entries, S)
  BY <1>1, BuryKeeps
<1>3. MapOf(entries') = Without(MapOf(entries), S) /\ Used(entries') = Used(entries)
  BY <1>2 DEF Removed
<1>4. Sound(entries', count')
  BY <1>1, <1>2, <1>3 DEF Sound
<1> QED BY <1>3, <1>4

(* tableGet, and the test that tableDelete makes.                          *)
LEMMA FoundIsPresent ==
  ASSUME Sound(entries, count), NEW k \in Key
  PROVE  /\ Found(entries, k) <=> k \in Present(entries)
         /\ Found(entries, k) =>
              entries[FindEntry(entries, k)].value = MapOf(entries)[k]
<1>1. CASE count = 0
  <2>1. Present(entries) = {}
    BY <1>1, SoundFacts
  <2> QED BY <1>1, <2>1 DEF Found
<1>2. CASE count # 0
  <2> DEFINE c == Capacity(entries)
  <2>1. c \in Nat /\ entries \in Table(c) /\ HasEmpty(entries) /\ Probed(entries) /\ count > 0
    BY <1>2, SoundFacts DEF Sound
  <2> HIDE DEF c
  <2> QED BY <2>1, FindEntryDecides DEF Found
<1> QED BY <1>1, <1>2

----------------------------------------------------------------------------
(* Every step keeps the invariant and is a step of the map or a stutter.   *)

LEMMA InitStep == Init => IInv /\ Abstract!Init
<1> SUFFICES ASSUME Init PROVE IInv /\ Abstract!Init
  OBVIOUS
<1>1. entries = Fresh(0) /\ count = 0 /\ setting = Missing /\ answer = Missing
  BY DEF Init
<1>2. Fresh(0) \in Table(0) /\ DOMAIN Fresh(0) = {}
  BY DEF Fresh, Table
<1>3. Present(entries) = {} /\ Used(entries) = {} /\ Probed(entries)
  BY <1>1, <1>2 DEF Present, Used, Probed
<1>4. Sound(entries, count)
  BY <1>1, <1>2, <1>3, FS_EmptySet DEF Sound
<1>5. MapOf(entries) = [k \in {} |-> Missing]
  BY <1>3 DEF MapOf
<1> QED BY <1>1, <1>4, <1>5 DEF IInv, Abstract!Init

LEMMA GetStep ==
  ASSUME IInv, NEW k \in Key, Get(k)
  PROVE  IInv' /\ Abstract!Get(k)
<1>1. Sound(entries, count) /\ setting \in {Missing} \cup [key : Key, value : Value]
  BY DEF IInv
<1>2. entries' = entries /\ count' = count /\ setting' = setting
      /\ answer' = IF Found(entries, k) THEN entries[FindEntry(entries, k)].value ELSE Missing
  BY DEF Get
<1>3. IInv'
  BY <1>1, <1>2 DEF IInv
<1>4. answer' = IF k \in Present(entries) THEN MapOf(entries)[k] ELSE Missing
  BY <1>1, <1>2, FoundIsPresent
<1>5. DOMAIN MapOf(entries) = Present(entries)
  BY DEF MapOf
<1> QED BY <1>2, <1>3, <1>4, <1>5 DEF Abstract!Get

LEMMA SetStep ==
  ASSUME IInv, NEW k \in Key, NEW v \in Value, Set(k, v)
  PROVE  IInv' /\ Abstract!Set(k, v)
<1> DEFINE c == Capacity(entries)
<1>1. /\ c \in Nat /\ entries \in Table(c) /\ count \in Nat /\ (c = 0 \/ c >= MinCapacity)
      /\ c > 0 => HasEmpty(entries)
      /\ Probed(entries) /\ count = Cardinality(Used(entries))
      /\ setting \in {Missing} \cup [key : Key, value : Value]
  BY SoundFacts DEF IInv, Sound
<1>2. 4 * (count + 1) <= 3 * c /\ Store(entries, count, k, v) /\ setting' = setting
  <2>1. ~(4 * (count + 1) > 3 * c) /\ Store(entries, count, k, v) /\ setting' = setting
    BY DEF Set, Full
  <2> HIDE DEF c
  <2> QED BY <1>1, <2>1
<1> HIDE DEF c
<1>3. c > 0
  BY <1>1, <1>2
<1>4. /\ Sound(entries', count') /\ MapOf(entries') = With(MapOf(entries), k, v)
      /\ answer' = (k \notin Present(entries))
  BY <1>1, <1>2, <1>3, StoreStep
<1>5. DOMAIN MapOf(entries) = Present(entries)
  BY DEF MapOf
<1> QED BY <1>1, <1>2, <1>4, <1>5 DEF IInv, Abstract!Set, With

LEMMA FinishGrowStep ==
  ASSUME IInv, FinishGrow
  PROVE  IInv' /\ \E k \in Key, v \in Value : Abstract!Set(k, v)
<1> DEFINE c == Capacity(entries)
           n == GrowCapacity(c)
           t == Rehash(entries, n)
           l == Cardinality(Present(entries))
           k == setting.key
           v == setting.value
<1>1. /\ c \in Nat /\ entries \in Table(c) /\ count \in Nat /\ (c = 0 \/ c >= MinCapacity)
      /\ c > 0 => HasEmpty(entries)
      /\ 4 * count <= 3 * c /\ (c = 0 => count = 0)
      /\ Probed(entries) /\ count = Cardinality(Used(entries))
  BY SoundFacts DEF IInv, Sound
<1>2. setting # Missing /\ Store(t, l, k, v) /\ setting' = Missing
  BY DEF FinishGrow, Idle
<1>3. k \in Key /\ v \in Value
  BY <1>2 DEF IInv
<1> HIDE DEF k, v
<1>4. n \in Nat /\ n >= MinCapacity /\ 4 * (count + 1) <= 3 * n
  <2>1. n = IF c < MinCapacity THEN MinCapacity ELSE c * 2
    BY DEF GrowCapacity
  <2>2. MinCapacity \in Nat /\ MinCapacity >= 2
    BY HashTableAssumption
  <2> HIDE DEF c, n
  <2> QED BY <1>1, <2>1, <2>2
<1>5. l \in Nat /\ l <= count
  BY <1>1, PresentIsSmall
<1> HIDE DEF c, n, l
<1>6. l < n /\ 4 * (l + 1) <= 3 * n
  BY <1>1, <1>4, <1>5
<1>7. t \in Table(n) /\ Probed(t) /\ HasEmpty(t) /\ Resized(t, entries)
  <2>1. Cardinality(Present(entries)) < n
    BY <1>6 DEF l
  <2> QED BY <1>1, <1>4, <2>1, RehashKeeps
<1> HIDE DEF t
<1>8. Present(t) = Present(entries) /\ MapOf(t) = MapOf(entries) /\ Cardinality(Used(t)) = l
  BY <1>7 DEF Resized, l
<1>9. /\ Sound(entries', count') /\ MapOf(entries') = With(MapOf(t), k, v)
      /\ answer' = (k \notin Present(t))
  BY <1>2, <1>3, <1>4, <1>5, <1>6, <1>7, <1>8, StoreStep
<1>10. DOMAIN MapOf(entries) = Present(entries)
  BY DEF MapOf
<1>11. Abstract!Set(k, v)
  BY <1>8, <1>9, <1>10 DEF Abstract!Set, With
<1> QED BY <1>2, <1>3, <1>9, <1>11 DEF IInv

LEMMA DeleteStep ==
  ASSUME IInv, NEW k \in Key, Delete(k)
  PROVE  IInv' /\ Abstract!Delete(k)
<1> DEFINE f == FindEntry(entries, k)
<1>1. Sound(entries, count) /\ setting \in {Missing} \cup [key : Key, value : Value]
  BY DEF IInv
<1>2. /\ answer' = Found(entries, k)
      /\ entries' = (IF Found(entries, k) THEN [entries EXCEPT ![f] = Tombstone] ELSE entries)
      /\ count' = count /\ setting' = setting
  BY DEF Delete
<1>3. (Found(entries, k) <=> k \in Present(entries)) /\ Found(entries, k) \in BOOLEAN
  BY <1>1, FoundIsPresent DEF Found
<1>4. DOMAIN MapOf(entries) = Present(entries)
  BY DEF MapOf
<1>5. answer' = (k \in Present(entries))
  BY <1>2, <1>3
<1>6. CASE k \in Present(entries)
  <2> DEFINE c == Capacity(entries)
  <2>1. /\ c \in Nat /\ entries \in Table(c) /\ Probed(entries) /\ HasEmpty(entries)
        /\ DOMAIN entries = 0..c - 1
    BY <1>1, <1>6, SoundFacts, TableDomain DEF Sound
  <2> HIDE DEF c
  <2>2. entries[f].key = k /\ f \in DOMAIN entries
    BY <1>6, <2>1, FindEntryDecides, FindEntryIs
  <2>3. \A j \in DOMAIN entries : entries[j].key = k => j = f
    <3> SUFFICES ASSUME NEW j \in DOMAIN entries, entries[j].key = k PROVE j = f
      OBVIOUS
    <3>1. k # Missing
      BY HashTableAssumption
    <3> QED BY <2>1, <3>1, FindsLive
  <2> HIDE DEF f
  <2>4. entries' = [entries EXCEPT ![f] = Tombstone]
    BY <1>2, <1>3, <1>6
  <2>5. entries = [j \in DOMAIN entries |-> entries[j]]
    BY <2>1 DEF Table
  <2>6. entries' = [j \in DOMAIN entries |-> IF j = f THEN Tombstone ELSE entries[j]]
    BY <2>4, <2>5
  <2>7. \A j \in DOMAIN entries : (j = f) <=> (entries[j].key \in {k})
    BY <2>2, <2>3
  <2>8. entries' = Buried(entries, {k})
    BY <2>6, <2>7 DEF Buried
  <2>9. {k} \in SUBSET Key /\ Present(entries) # {}
    BY <1>6
  <2>10. Sound(entries', count') /\ MapOf(entries') = Without(MapOf(entries), {k})
    BY <1>1, <1>2, <2>8, <2>9, BuryStep
  <2> QED BY <1>1, <1>2, <1>4, <1>5, <2>10 DEF IInv, Abstract!Delete, Without
<1>7. CASE k \notin Present(entries)
  <2>1. entries' = entries
    BY <1>2, <1>3, <1>7
  <2>2. IInv'
    BY <1>1, <1>2, <2>1 DEF IInv
  <2>3. MapOf(entries) = [x \in Present(entries) |-> MapOf(entries)[x]]
    BY DEF MapOf
  <2>4. Present(entries) \ {k} = Present(entries)
    BY <1>7
  <2>5. MapOf(entries) = [x \in DOMAIN MapOf(entries) \ {k} |-> MapOf(entries)[x]]
    BY <1>4, <2>3, <2>4
  <2>6. MapOf(entries)' = MapOf(entries)
    BY <2>1
  <2> QED BY <1>4, <1>5, <2>2, <2>5, <2>6 DEF Abstract!Delete
<1> QED BY <1>6, <1>7

LEMMA RemoveWhiteStep ==
  ASSUME IInv, NEW white \in SUBSET Key, RemoveWhite(white)
  PROVE  IInv' /\ Abstract!Retain(Key \ white)
<1>1. Sound(entries, count) /\ setting \in {Missing} \cup [key : Key, value : Value]
  BY DEF IInv
<1>2. /\ Present(entries) # {} /\ entries' = Buried(entries, white)
      /\ count' = count /\ setting' = setting /\ answer' = answer
  BY DEF RemoveWhite
<1>3. Sound(entries', count') /\ MapOf(entries') = Without(MapOf(entries), white)
  BY <1>1, <1>2, BuryStep
<1>4. DOMAIN MapOf(entries) = Present(entries) /\ Present(entries) \subseteq Key
  BY <1>1, PresentIsSmall DEF Sound, MapOf
<1>5. DOMAIN MapOf(entries) \ white = DOMAIN MapOf(entries) \cap (Key \ white)
  BY <1>4
<1>6. MapOf(entries)' = [x \in DOMAIN MapOf(entries) \cap (Key \ white) |-> MapOf(entries)[x]]
  BY <1>3, <1>5 DEF Without
<1> QED BY <1>1, <1>2, <1>3, <1>6 DEF IInv, Abstract!Retain

LEMMA NextStep == IInv /\ [Next]_vars => IInv' /\ [Abstract!Next]_<<MapOf(entries), answer>>
<1> SUFFICES ASSUME IInv, [Next]_vars
             PROVE  IInv' /\ [Abstract!Next]_<<MapOf(entries), answer>>
  OBVIOUS
<1>1. ASSUME NEW k \in Key, Get(k) PROVE IInv' /\ Abstract!Next
  BY <1>1, GetStep DEF Abstract!Next
<1>2. ASSUME NEW k \in Key, Delete(k) PROVE IInv' /\ Abstract!Next
  BY <1>2, DeleteStep DEF Abstract!Next
<1>3. ASSUME NEW k \in Key, NEW v \in Value, Set(k, v) PROVE IInv' /\ Abstract!Next
  BY <1>3, SetStep DEF Abstract!Next
<1>4. ASSUME NEW k \in Key, NEW v \in Value, BeginGrow(k, v)
      PROVE  IInv' /\ entries' = entries /\ answer' = answer
  BY <1>4 DEF IInv, BeginGrow
<1>5. ASSUME FinishGrow PROVE IInv' /\ Abstract!Next
  BY <1>5, FinishGrowStep DEF Abstract!Next
<1>6. ASSUME NEW white \in SUBSET Key, RemoveWhite(white) PROVE IInv' /\ Abstract!Next
  <2>1. Key \ white \in SUBSET Key
    OBVIOUS
  <2> QED BY <1>6, <2>1, RemoveWhiteStep DEF Abstract!Next
<1>7. ASSUME UNCHANGED vars PROVE IInv' /\ entries' = entries /\ answer' = answer
  BY <1>7 DEF vars, IInv
<1> QED BY <1>1, <1>2, <1>3, <1>4, <1>5, <1>6, <1>7 DEF Next

----------------------------------------------------------------------------
(* The theorems.                                                           *)

THEOREM Invariance == Spec => []IInv
<1>1. Init => IInv
  BY InitStep
<1>2. IInv /\ [Next]_vars => IInv'
  BY NextStep
<1> QED BY <1>1, <1>2, PTL DEF Spec

(* The count that tableSet keeps is what the entries show, tombstones       *)
(* included, and never more than 3/4 of the capacity.                      *)
THEOREM CountIsRight == Spec => []TypeOK
<1>1. IInv => TypeOK
  BY SoundImplies DEF IInv
<1> QED BY <1>1, Invariance, PTL

(* The loop of findEntry, which has no bound, always ends.                 *)
THEOREM ProbingAlwaysEnds == Spec => []ProbingEnds
<1>1. IInv => ProbingEnds
  BY SoundImplies DEF IInv
<1> QED BY <1>1, Invariance, PTL

(* No key is in the table twice: findEntry finds the only entry.           *)
THEOREM KeysHaveOneEntry == Spec => []OneEntryPerKey
<1>1. IInv => OneEntryPerKey
  BY SoundImplies DEF IInv
<1> QED BY <1>1, Invariance, PTL

(* What hashtable.h promises: the table answers as the finite map.         *)
THEOREM TableIsAMap == Spec => ImplementsPartialMap
<1>1. Init => Abstract!Init
  BY InitStep
<1>2. IInv /\ [Next]_vars => [Abstract!Next]_<<MapOf(entries), answer>>
  BY NextStep
<1> QED BY <1>1, <1>2, Invariance, PTL DEF Spec, ImplementsPartialMap, Abstract!Spec
=============================================================================
