------------------------ MODULE NamesAndNumbersProofs ------------------------
(***************************************************************************)
(* Proofs about what the constants of a unit are made of: the names of     *)
(* StringSet, and the numbers of Numbers.                                  *)
(*                                                                         *)
(* Names.                                                                  *)
(* Whatever strings are interned, with whatever hashes and however often   *)
(* the set grows: an offset that was handed out goes on to name its        *)
(* string, the same string always gets the same offset, and                *)
(* stringSetContains knows what was added and nothing else.                *)
(*                                                                         *)
(* The invariant says that the array holds exactly the entries of the      *)
(* strings that have an offset, each once, where a probe from its hash     *)
(* meets it before anything free (Kept), that their bytes lie in the       *)
(* arena where their offsets say (Placed), and that a quarter is free.     *)
(* Nothing is ever freed, so a probe that met an entry meets it for good;  *)
(* only growth has to be followed entry by entry.                          *)
(*                                                                         *)
(* Numbers.                                                                *)
(* Integer arithmetic is exact or refused, and casts keep the number, at   *)
(* every width of a payload, of a kind and of a float.                     *)
(*                                                                         *)
(* Arithmetic.  Between the limits of a kind, int64_t holds every number   *)
(* (Canonical), so the tests of signedArithmetic compute what they say;    *)
(* the quotient they compare a factor with is the largest that still fits  *)
(* (FactorFits).  What passes a test lies between the limits, where        *)
(* truncation changes nothing (TruncationKeeps).                           *)
(*                                                                         *)
(* Casts.  The floats of a kind are the representable numbers in its range *)
(* (FloatsOfAKind).  Rounding finds the multiple of the last place that is *)
(* nearest (NearestMultiple); a representable number that is none lies     *)
(* below the smallest significand, which is nearer (NoneIsNearer).  Twice  *)
(* a word is representable, so no integer is rounded out of range          *)
(* (IntegerIsRounded).                                                     *)
(***************************************************************************)
EXTENDS StringSet, Numbers, NaturalLemmas

----------------------------------------------------------------------------
(* Names.                                                                  *)

Slot == {Free} \cup [offset : Nat, length : Nat, hash : Nat]
Table(n) == [0..n - 1 -> Slot]
Used(t) == {i \in DOMAIN t : t[i].length # -1}
HasFree(t) == \E i \in DOMAIN t : t[i] = Free

(* The strings that have an offset in g, and the entry of one of them.     *)
Interned(g) == {s \in StringKey : g[s] # NoOffset}
EntryOf(g, s) == [offset |-> g[s], length |-> Len(Bytes[s]), hash |-> Hash[s]]

(* The bytes of a string lie in the arena a at its offset.                 *)
Lies(g, a, s) ==
  /\ g[s] + Len(Bytes[s]) <= Len(a)
  /\ SubSeq(a, g[s] + 1, g[s] + Len(Bytes[s])) = Bytes[s]

Placed(g, a) ==
  /\ g \in [StringKey -> Nat \cup {NoOffset}]
  /\ a \in Seq(Byte)
  /\ \A s \in Interned(g) : Lies(g, a, s)

(* A probe for s meets its entry before anything free.                     *)
Reaches(t, g, s) ==
  \E i \in 0..Capacity(t) - 1 :
    /\ t[Try(t, Hash[s], i)] = EntryOf(g, s)
    /\ \A j \in 0..i - 1 : t[Try(t, Hash[s], j)] # Free

(* Where a probe for s meets a free entry first.                           *)
FirstFree(t, s, p) ==
  \E i \in 0..Capacity(t) - 1 :
    /\ p = Try(t, Hash[s], i) /\ t[p] = Free
    /\ \A j \in 0..i - 1 : t[Try(t, Hash[s], j)] # Free

(* The array t has the entries of the strings S, each once.                *)
Kept(t, g, S) ==
  /\ \A j \in DOMAIN t : t[j] = Free \/ \E s \in S : t[j] = EntryOf(g, s)
  /\ \A i, j \in DOMAIN t : t[i] = t[j] /\ t[i] # Free => i = j
  /\ \A s \in S : Reaches(t, g, s)

IInv ==
  /\ Capacity(entries) \in Nat /\ entries \in Table(Capacity(entries))
  /\ Capacity(entries) = 0 \/ Capacity(entries) >= MinCapacity
  /\ count = Cardinality(Used(entries))
  /\ 4 * count <= 3 * Capacity(entries)
  /\ Placed(given, arena)
  /\ Kept(entries, given, Interned(given))

----------------------------------------------------------------------------
(* Entries and strings.                                                    *)

LEMMA FreeSlot ==
  /\ Free \in Slot /\ Free.length = -1
  /\ \A e \in Slot : e = Free <=> e.length = -1
  /\ \A e \in Slot : e # Free => e.offset \in Nat /\ e.length \in Nat /\ e.hash \in Nat
BY DEF Slot, Free

LEMMA StringBytes ==
  ASSUME NEW s \in StringKey
  PROVE  Bytes[s] \in Seq(Byte) /\ Len(Bytes[s]) \in Nat /\ Hash[s] \in Nat
<1>1. Bytes[s] \in Seq(Byte) /\ Hash[s] \in Nat
  BY StringSetAssumption
<1> QED BY <1>1

LEMMA EntryFields ==
  ASSUME NEW g \in [StringKey -> Nat \cup {NoOffset}], NEW s \in Interned(g)
  PROVE  /\ s \in StringKey /\ g[s] \in Nat
         /\ EntryOf(g, s) \in Slot /\ EntryOf(g, s) # Free
         /\ EntryOf(g, s).offset = g[s] /\ EntryOf(g, s).length = Len(Bytes[s])
         /\ EntryOf(g, s).hash = Hash[s]
<1>1. s \in StringKey /\ g[s] \in Nat
  BY DEF Interned
<1>2. Len(Bytes[s]) \in Nat /\ Hash[s] \in Nat
  BY <1>1, StringBytes
<1>3. EntryOf(g, s) \in Slot /\ EntryOf(g, s).length \in Nat
  BY <1>1, <1>2 DEF EntryOf, Slot
<1> QED BY <1>1, <1>3, FreeSlot DEF EntryOf

LEMMA EntriesDiffer ==
  ASSUME NEW g, NEW a, Placed(g, a), NEW s \in Interned(g), NEW u \in Interned(g),
         EntryOf(g, s) = EntryOf(g, u)
  PROVE  s = u
<1>1. g \in [StringKey -> Nat \cup {NoOffset}] /\ Lies(g, a, s) /\ Lies(g, a, u)
  BY DEF Placed
<1>2. s \in StringKey /\ u \in StringKey /\ g[s] = g[u] /\ Len(Bytes[s]) = Len(Bytes[u])
  BY <1>1, EntryFields
<1>3. Bytes[s] = Bytes[u]
  BY <1>1, <1>2 DEF Lies
<1> QED BY <1>2, <1>3, StringSetAssumption

(* memcmp tells the strings apart.                                         *)
LEMMA MatchesOnlyItself ==
  ASSUME Placed(given, arena), NEW s \in Interned(given), NEW x \in StringKey
  PROVE  Matches(EntryOf(given, s), Bytes[x], Hash[x]) <=> s = x
<1>1. given \in [StringKey -> Nat \cup {NoOffset}] /\ Lies(given, arena, s)
  BY DEF Placed
<1> DEFINE e == EntryOf(given, s)
<1>2. /\ s \in StringKey /\ e.offset = given[s] /\ e.length = Len(Bytes[s]) /\ e.hash = Hash[s]
      /\ e \in Slot /\ e # Free
  BY <1>1, EntryFields
<1>3. e.length # -1
  BY <1>2, FreeSlot
<1>4. BytesAt(e.offset, e.length) = Bytes[s]
  BY <1>1, <1>2 DEF Lies, BytesAt
<1> HIDE DEF e
<1>5. CASE s = x
  BY <1>2, <1>4, <1>5 DEF Matches, e
<1>6. CASE s # x
  <2>1. Bytes[s] # Bytes[x]
    BY <1>2, <1>6, StringSetAssumption
  <2> QED BY <1>3, <1>4, <1>6, <2>1 DEF Matches, e
<1> QED BY <1>5, <1>6

LEMMA TableDomain ==
  ASSUME NEW n \in Nat, NEW t \in Table(n)
  PROVE  /\ DOMAIN t = 0..n - 1 /\ Capacity(t) = n
         /\ Used(t) \in SUBSET (0..n - 1)
         /\ IsFiniteSet(Used(t)) /\ Cardinality(Used(t)) \in Nat
         /\ Used(t) = {i \in 0..n - 1 : t[i] # Free}
<1>1. DOMAIN t = 0..n - 1
  BY DEF Table
<1>2. Cardinality(0..n - 1) = n /\ IsFiniteSet(0..n - 1)
  BY FS_Interval
<1>3. Used(t) \in SUBSET (0..n - 1)
  BY <1>1 DEF Used
<1>4. IsFiniteSet(Used(t))
  BY <1>2, <1>3, FS_Subset
<1>5. \A i \in 0..n - 1 : t[i] \in Slot
  BY DEF Table
<1>6. Used(t) = {i \in 0..n - 1 : t[i] # Free}
  BY <1>1, <1>5, FreeSlot DEF Used
<1> QED BY <1>1, <1>2, <1>3, <1>4, <1>6, FS_CardinalityType DEF Capacity

LEMMA RoomLeft ==
  ASSUME NEW n \in Nat, NEW t \in Table(n), Cardinality(Used(t)) < n
  PROVE  HasFree(t)
<1>1. \E i \in 0..n - 1 : i \notin Used(t)
  BY TableDomain, SomeIndexLeft
<1> QED BY <1>1, TableDomain DEF HasFree

----------------------------------------------------------------------------
(* findSlot.                                                               *)

LEMMA TryInside ==
  ASSUME NEW n \in Nat, n > 0, NEW t \in Table(n), NEW h \in Nat, NEW i \in Nat
  PROVE  Try(t, h, i) \in 0..n - 1 /\ Try(t, h, i) \in DOMAIN t
<1>1. (h + i) % n \in 0..n - 1
  OBVIOUS
<1> QED BY <1>1, TableDomain DEF Try

(* The loop stops, at the first entry that matches.                        *)
LEMMA FindSlotStops ==
  ASSUME NEW n \in Nat, n > 0, NEW t \in Table(n), HasFree(t), NEW b, NEW h \in Nat
  PROVE  \E i \in 0..n - 1 :
           /\ FindSlot(t, b, h) = Try(t, h, i)
           /\ Matches(t[Try(t, h, i)], b, h)
           /\ \A j \in 0..i - 1 : ~Matches(t[Try(t, h, j)], b, h)
<1> DEFINE stops == {i \in 0..Capacity(t) - 1 : Matches(t[Try(t, h, i)], b, h)}
           k == CHOOSE i \in stops : \A j \in stops : i <= j
<1>1. Capacity(t) = n /\ DOMAIN t = 0..n - 1
  BY TableDomain
<1>2. PICK f \in 0..n - 1 : t[f] = Free
  BY <1>1 DEF HasFree
<1>3. PICK d \in 0..n - 1 : (h + d) % n = f
  BY ProbingReaches
<1>4. d \in stops
  BY <1>1, <1>2, <1>3, FreeSlot DEF Try, Matches
<1>5. stops \in SUBSET Nat
  BY <1>1
<1>6. \E i \in stops : \A j \in stops : i <= j
  BY <1>4, <1>5, LeastNatural
<1>7. k \in stops /\ \A j \in stops : k <= j
  BY <1>6
<1>8. FindSlot(t, b, h) = Try(t, h, k)
  BY DEF FindSlot
<1>9. k \in 0..n - 1 /\ Matches(t[Try(t, h, k)], b, h)
  BY <1>1, <1>7
<1>10. ASSUME NEW j \in 0..k - 1 PROVE ~Matches(t[Try(t, h, j)], b, h)
  <2>1. j \in 0..Capacity(t) - 1 /\ ~(k <= j)
    BY <1>1, <1>9
  <2> QED BY <1>7, <2>1
<1> HIDE DEF k
<1> QED BY <1>8, <1>9, <1>10

LEMMA FindsEntry ==
  ASSUME Placed(given, arena), NEW n \in Nat, n > 0, NEW t \in Table(n), HasFree(t),
         NEW S \in SUBSET Interned(given), Kept(t, given, S), NEW x \in S
  PROVE  /\ FindSlot(t, Bytes[x], Hash[x]) \in 0..n - 1
         /\ t[FindSlot(t, Bytes[x], Hash[x])] = EntryOf(given, x)
<1> DEFINE b == Bytes[x]
           h == Hash[x]
<1>1. x \in Interned(given) /\ x \in StringKey /\ h \in Nat
  BY StringBytes DEF Interned
<1>2. PICK i \in 0..n - 1 :
        /\ FindSlot(t, b, h) = Try(t, h, i)
        /\ Matches(t[Try(t, h, i)], b, h)
        /\ \A j \in 0..i - 1 : ~Matches(t[Try(t, h, j)], b, h)
  BY <1>1, FindSlotStops
<1>3. PICK k \in 0..n - 1 :
        t[Try(t, h, k)] = EntryOf(given, x) /\ \A j \in 0..k - 1 : t[Try(t, h, j)] # Free
  BY TableDomain DEF Kept, Reaches
<1>4. Matches(t[Try(t, h, k)], b, h)
  BY <1>1, <1>3, MatchesOnlyItself
<1>5. i <= k
  BY <1>2, <1>4
<1>7. i \in Nat /\ Try(t, h, i) \in 0..n - 1 /\ Try(t, h, i) \in DOMAIN t
  <2>1. i \in Nat
    OBVIOUS
  <2> QED BY <1>1, <2>1, TryInside
<1>6. t[Try(t, h, i)] = EntryOf(given, x)
  <2>1. CASE i = k
    BY <1>3, <2>1
  <2>2. CASE i # k
    <3>1. t[Try(t, h, i)] # Free
      BY <1>3, <1>5, <2>2
    <3>2. PICK s \in S : t[Try(t, h, i)] = EntryOf(given, s)
      BY <1>7, <3>1 DEF Kept
    <3>3. s = x
      BY <1>1, <1>2, <3>2, MatchesOnlyItself
    <3> QED BY <3>2, <3>3
  <2> QED BY <2>1, <2>2
<1> QED BY <1>2, <1>6, <1>7

LEMMA FindsFree ==
  ASSUME Placed(given, arena), NEW n \in Nat, n > 0, NEW t \in Table(n), HasFree(t),
         NEW S \in SUBSET Interned(given), Kept(t, given, S), NEW x \in StringKey, x \notin S
  PROVE  FirstFree(t, x, FindSlot(t, Bytes[x], Hash[x]))
<1> DEFINE b == Bytes[x]
           h == Hash[x]
<1>1. h \in Nat
  BY StringBytes
<1>2. PICK i \in 0..n - 1 :
        /\ FindSlot(t, b, h) = Try(t, h, i)
        /\ Matches(t[Try(t, h, i)], b, h)
        /\ \A j \in 0..i - 1 : ~Matches(t[Try(t, h, j)], b, h)
  BY <1>1, FindSlotStops
<1>3. t[Try(t, h, i)] = Free
  <2> SUFFICES ASSUME t[Try(t, h, i)] # Free PROVE FALSE
    OBVIOUS
  <2>0. Try(t, h, i) \in DOMAIN t
    <3>1. i \in Nat
      OBVIOUS
    <3> QED BY <1>1, <3>1, TryInside
  <2>1. PICK s \in S : t[Try(t, h, i)] = EntryOf(given, s)
    BY <2>0 DEF Kept
  <2>2. s = x
    BY <1>2, <2>1, MatchesOnlyItself
  <2> QED BY <2>2
<1>4. \A j \in 0..i - 1 : t[Try(t, h, j)] # Free
  BY <1>2, FreeSlot DEF Matches
<1>5. Capacity(t) = n
  BY TableDomain
<1> QED BY <1>2, <1>3, <1>4, <1>5 DEF FirstFree

----------------------------------------------------------------------------
(* An entry is stored.                                                     *)

Stores(u, t, p, e) == u = [t EXCEPT ![p] = e]

LEMMA Putting ==
  ASSUME NEW g, NEW a, Placed(g, a), NEW n \in Nat, n > 0, NEW t \in Table(n),
         NEW S \in SUBSET Interned(g), Kept(t, g, S), NEW x \in Interned(g), x \notin S,
         NEW p, FirstFree(t, x, p), NEW u, Stores(u, t, p, EntryOf(g, x))
  PROVE  /\ u \in Table(n) /\ Kept(u, g, S \cup {x})
         /\ Used(u) = Used(t) \cup {p} /\ p \notin Used(t)
<1>1. g \in [StringKey -> Nat \cup {NoOffset}]
  BY DEF Placed
<1>2. x \in StringKey /\ Hash[x] \in Nat /\ EntryOf(g, x) \in Slot /\ EntryOf(g, x) # Free
  BY <1>1, EntryFields, StringBytes
<1>a. DOMAIN t = 0..n - 1 /\ Capacity(t) = n
  BY TableDomain
<1>b. PICK i \in 0..n - 1 :
        /\ p = Try(t, Hash[x], i) /\ t[p] = Free
        /\ \A j \in 0..i - 1 : t[Try(t, Hash[x], j)] # Free
  BY <1>a DEF FirstFree
<1>c. i \in Nat /\ \A j \in 0..i - 1 : j \in Nat
  OBVIOUS
<1>3. p \in 0..n - 1 /\ DOMAIN t = 0..n - 1 /\ Capacity(t) = n
  BY <1>2, <1>a, <1>b, <1>c, TryInside
<1>4. u \in Table(n)
  BY <1>2, <1>3 DEF Table, Stores
<1>5. DOMAIN u = 0..n - 1 /\ Capacity(u) = n
  BY <1>4, TableDomain
<1>6. u[p] = EntryOf(g, x) /\ \A j \in 0..n - 1 : j # p => u[j] = t[j]
  BY <1>3 DEF Stores
<1>7. \A h, j : Try(u, h, j) = Try(t, h, j)
  BY <1>3, <1>5 DEF Try
<1>8. ASSUME NEW j \in 0..n - 1, t[j] # Free PROVE u[j] = t[j]
  BY <1>6, <1>8, <1>b
<1>9. Used(u) = Used(t) \cup {p} /\ p \notin Used(t)
  <2>1. Used(u) = {j \in 0..n - 1 : u[j] # Free} /\ Used(t) = {j \in 0..n - 1 : t[j] # Free}
    BY <1>4, TableDomain
  <2> QED BY <1>2, <1>3, <1>6, <1>b, <2>1
<1>10. \A j \in DOMAIN u : u[j] = Free \/ \E s \in S \cup {x} : u[j] = EntryOf(g, s)
  BY <1>3, <1>5, <1>6 DEF Kept
<1>11. ASSUME NEW j \in 0..n - 1 PROVE t[j] # EntryOf(g, x)
  <2> SUFFICES ASSUME t[j] = EntryOf(g, x) PROVE FALSE
    OBVIOUS
  <2>1. PICK s \in S : t[j] = EntryOf(g, s)
    BY <1>2, <1>3 DEF Kept
  <2>2. s = x
    BY <2>1, EntriesDiffer
  <2> QED BY <2>2
<1>12. \A k, j \in DOMAIN u : u[k] = u[j] /\ u[k] # Free => k = j
  BY <1>3, <1>5, <1>6, <1>11 DEF Kept
<1>13. ASSUME NEW s \in S PROVE Reaches(u, g, s)
  <2>1. PICK k \in 0..n - 1 :
          t[Try(t, Hash[s], k)] = EntryOf(g, s) /\ \A j \in 0..k - 1 : t[Try(t, Hash[s], j)] # Free
    BY <1>3 DEF Kept, Reaches
  <2>2. s \in Interned(g) /\ EntryOf(g, s) # Free /\ Hash[s] \in Nat
    BY <1>1, EntryFields, StringBytes
  <2>3. \A j \in 0..k : Try(t, Hash[s], j) \in 0..n - 1 /\ t[Try(t, Hash[s], j)] # Free
    <3>1. \A j \in 0..k : Try(t, Hash[s], j) \in 0..n - 1
      <4>1. \A j \in 0..k : j \in Nat
        OBVIOUS
      <4> QED BY <2>2, <4>1, TryInside
    <3> QED BY <2>1, <2>2, <3>1
  <2>4. \A j \in 0..k : u[Try(u, Hash[s], j)] = t[Try(t, Hash[s], j)]
    BY <1>7, <1>8, <2>3
  <2>0. k \in 0..k /\ \A j \in 0..k - 1 : j \in 0..k
    OBVIOUS
  <2>5. u[Try(u, Hash[s], k)] = EntryOf(g, s)
    BY <2>0, <2>1, <2>4
  <2>6. \A j \in 0..k - 1 : u[Try(u, Hash[s], j)] # Free
    BY <2>0, <2>3, <2>4
  <2> QED BY <1>5, <2>5, <2>6 DEF Reaches
<1>14. Reaches(u, g, x)
  <2>1. \A j \in 0..i - 1 : Try(t, Hash[x], j) \in 0..n - 1
    BY <1>2, <1>c, TryInside
  <2>2. \A j \in 0..i - 1 : u[Try(u, Hash[x], j)] # Free
    BY <1>7, <1>8, <1>b, <2>1
  <2>3. u[Try(u, Hash[x], i)] = EntryOf(g, x)
    BY <1>6, <1>7, <1>b
  <2> QED BY <1>5, <2>2, <2>3 DEF Reaches
<1> QED BY <1>4, <1>9, <1>10, <1>12, <1>13, <1>14 DEF Kept

----------------------------------------------------------------------------
(* adjustCapacity.                                                         *)

(* The array after k entries of t have moved.                              *)
IsMoving(r, t, n, m) ==
  r = [i \in 0..m |->
         IF i = 0 THEN Fresh(n)
         ELSE LET e == t[i - 1]
              IN  IF e.length = -1 THEN r[i - 1]
                  ELSE [r[i - 1] EXCEPT ![FindSlot(r[i - 1], BytesAt(e.offset, e.length), e.hash)] = e]]

LEMMA Adjusting ==
  ASSUME NEW m \in Nat, NEW t \in Table(m), NEW n \in Nat
  PROVE  \E r : IsMoving(r, t, n, m) /\ AdjustCapacity(t, n) = r[m]
<1> DEFINE F == [i \in Nat |-> [x \in Table(n) |->
                   IF i \in 1..m /\ t[i - 1].length # -1
                     THEN [x EXCEPT ![FindSlot(x, BytesAt(t[i - 1].offset, t[i - 1].length),
                                               t[i - 1].hash)] = t[i - 1]]
                     ELSE x]]
           r == CHOOSE r : r = [i \in 0..Capacity(t) |->
                  IF i = 0 THEN Fresh(n)
                  ELSE LET e == t[i - 1]
                       IN  IF e.length = -1 THEN r[i - 1]
                           ELSE [r[i - 1] EXCEPT ![FindSlot(r[i - 1], BytesAt(e.offset, e.length), e.hash)] = e]]
<1>1. Capacity(t) = m
  BY TableDomain
<1>2. AdjustCapacity(t, n) = r[Capacity(t)]
  BY DEF AdjustCapacity
<1>3. F \in [Nat -> [Table(n) -> Table(n)]]
  <2> SUFFICES ASSUME NEW i \in Nat, NEW x \in Table(n)
               PROVE  (IF i \in 1..m /\ t[i - 1].length # -1
                         THEN [x EXCEPT ![FindSlot(x, BytesAt(t[i - 1].offset, t[i - 1].length),
                                                   t[i - 1].hash)] = t[i - 1]]
                         ELSE x) \in Table(n)
    OBVIOUS
  <2>1. CASE i \in 1..m
    <3>1. t[i - 1] \in Slot
      BY <2>1 DEF Table
    <3> QED BY <2>1, <3>1 DEF Table
  <2>2. CASE i \notin 1..m
    BY <2>2
  <2> QED BY <2>1, <2>2
<1> HIDE DEF F, r
<1>4. Fresh(n) \in Table(n)
  BY FreeSlot DEF Fresh, Table
<1>5. PICK f \in [0..m -> Table(n)] : IsRecursion(f, m, Fresh(n), F)
  BY <1>3, <1>4, RecursionExists
<1>6. ASSUME NEW i \in 0..m
      PROVE  f[i] = IF i = 0 THEN Fresh(n)
                    ELSE LET e == t[i - 1]
                         IN  IF e.length = -1 THEN f[i - 1]
                             ELSE [f[i - 1] EXCEPT ![FindSlot(f[i - 1], BytesAt(e.offset, e.length), e.hash)] = e]
  <2>1. CASE i = 0
    BY <1>5, <2>1 DEF IsRecursion
  <2>2. CASE i # 0
    <3>1. i \in 1..m /\ i - 1 \in 0..m /\ i \in Nat
      BY <2>2
    <3>2. f[i - 1] \in Table(n)
      BY <1>5, <3>1
    <3>3. f[i] = F[i][f[i - 1]]
      BY <1>5, <3>1 DEF IsRecursion
    <3> QED BY <2>2, <3>1, <3>2, <3>3 DEF F
  <2> QED BY <2>1, <2>2
<1>7. IsMoving(f, t, n, m)
  <2>1. f = [i \in 0..m |-> f[i]]
    BY <1>5
  <2> QED BY <1>6, <2>1 DEF IsMoving
<1>8. IsMoving(r, t, n, m)
  BY <1>1, <1>7 DEF IsMoving, r
<1> QED BY <1>1, <1>2, <1>8

LEMMA AdjustCapacityHolds ==
  ASSUME Placed(given, arena), NEW m \in Nat, NEW t \in Table(m),
         NEW S \in SUBSET Interned(given), Kept(t, given, S),
         NEW n \in Nat, Cardinality(Used(t)) < n
  PROVE  /\ AdjustCapacity(t, n) \in Table(n)
         /\ Kept(AdjustCapacity(t, n), given, S)
         /\ Cardinality(Used(AdjustCapacity(t, n))) = Cardinality(Used(t))
<1> DEFINE P(k) == {s \in S : \E j \in 0..k - 1 : t[j] = EntryOf(given, s)}
           U(k) == {j \in Used(t) : j < k}
<1>1. PICK r : IsMoving(r, t, n, m) /\ AdjustCapacity(t, n) = r[m]
  BY Adjusting
<1> DEFINE T == {k \in 0..m : /\ r[k] \in Table(n) /\ Kept(r[k], given, P(k))
                             /\ Cardinality(Used(r[k])) = Cardinality(U(k))}
<1>2. given \in [StringKey -> Nat \cup {NoOffset}]
  BY DEF Placed
<1>3. DOMAIN t = 0..m - 1 /\ IsFiniteSet(Used(t)) /\ Used(t) = {i \in 0..m - 1 : t[i] # Free}
  BY TableDomain
<1>4. \A k \in 0..m : IsFiniteSet(U(k)) /\ Cardinality(U(k)) <= Cardinality(Used(t))
                      /\ Cardinality(U(k)) \in Nat
  BY <1>3, FS_Subset, FS_CardinalityType
<1>5. r[0] = Fresh(n) /\ \A i \in 1..m :
        r[i] = IF t[i - 1].length = -1 THEN r[i - 1]
               ELSE [r[i - 1] EXCEPT ![FindSlot(r[i - 1], BytesAt(t[i - 1].offset, t[i - 1].length),
                                                t[i - 1].hash)] = t[i - 1]]
  <2>1. ASSUME NEW i \in 0..m
        PROVE  r[i] = IF i = 0 THEN Fresh(n)
                      ELSE LET e == t[i - 1]
                           IN  IF e.length = -1 THEN r[i - 1]
                               ELSE [r[i - 1] EXCEPT ![FindSlot(r[i - 1], BytesAt(e.offset, e.length), e.hash)] = e]
    BY <1>1 DEF IsMoving
  <2>2. 0 \in 0..m /\ \A i \in 1..m : i \in 0..m /\ i # 0
    OBVIOUS
  <2> QED BY <2>1, <2>2
<1>6. 0 \in T
  <2>1. Fresh(n) \in Table(n) /\ DOMAIN Fresh(n) = 0..n - 1 /\ \A j \in 0..n - 1 : Fresh(n)[j] = Free
    BY FreeSlot DEF Fresh, Table
  <2>2. P(0) = {} /\ U(0) = {}
    BY <1>3
  <2>3. Kept(Fresh(n), given, {})
    BY <2>1 DEF Kept
  <2>4. Used(Fresh(n)) = {}
    BY <2>1, TableDomain
  <2>5. Kept(r[0], given, P(0)) /\ Cardinality(Used(r[0])) = Cardinality(U(0))
    BY <1>5, <2>2, <2>3, <2>4
  <2> HIDE DEF P, U
  <2> QED BY <1>5, <2>1, <2>5
<1>7. ASSUME NEW k \in 1..m, k - 1 \in T PROVE k \in T
  <2> DEFINE x == r[k - 1]
             e == t[k - 1]
             p == FindSlot(x, BytesAt(e.offset, e.length), e.hash)
  <2>1. /\ x \in Table(n) /\ Kept(x, given, P(k - 1))
        /\ Cardinality(Used(x)) = Cardinality(U(k - 1))
        /\ k - 1 \in 0..m - 1 /\ e \in Slot
    BY <1>7 DEF Table
  <2>2. CASE e = Free
    <3>1. r[k] = x
      BY <1>5, <2>2, FreeSlot
    <3>2. P(k) = P(k - 1)
      <4>1. ASSUME NEW s \in S, NEW j \in 0..k - 1, t[j] = EntryOf(given, s)
            PROVE  j \in 0..(k - 1) - 1
        <5>1. EntryOf(given, s) # Free
          BY <1>2, EntryFields
        <5> QED BY <2>2, <4>1, <5>1
      <4> QED BY <4>1
    <3>3. U(k) = U(k - 1)
      BY <1>3, <2>2
    <3>4. Kept(r[k], given, P(k)) /\ Cardinality(Used(r[k])) = Cardinality(U(k))
      BY <2>1, <3>1, <3>2, <3>3
    <3>5. r[k] \in Table(n)
      BY <2>1, <3>1
    <3> HIDE DEF P, U
    <3> QED BY <3>4, <3>5
  <2>3. CASE e # Free
    <3>1. PICK s \in S : e = EntryOf(given, s)
      BY <1>3, <2>1, <2>3 DEF Kept
    <3>2. s \in Interned(given) /\ s \in StringKey /\ e.offset = given[s]
          /\ e.length = Len(Bytes[s]) /\ e.hash = Hash[s]
      BY <1>2, <3>1, EntryFields
    <3>3. BytesAt(e.offset, e.length) = Bytes[s]
      BY <3>2 DEF BytesAt, Placed, Lies
    <3>4. r[k] = [x EXCEPT ![FindSlot(x, Bytes[s], Hash[s])] = e]
      BY <1>5, <2>1, <2>3, <3>2, <3>3, FreeSlot
    <3>5. s \notin P(k - 1)
      <4>1. ASSUME NEW j \in 0..(k - 1) - 1, t[j] = EntryOf(given, s) PROVE FALSE
        <5>1. j \in DOMAIN t /\ k - 1 \in DOMAIN t /\ j # k - 1
          BY <1>3
        <5> QED BY <2>3, <3>1, <4>1, <5>1 DEF Kept
      <4> QED BY <4>1
    <3>6. P(k) = P(k - 1) \cup {s}
      <4>1. ASSUME NEW q \in S, t[k - 1] = EntryOf(given, q) PROVE q = s
        BY <3>1, <3>2, <4>1, EntriesDiffer
      <4>2. 0..k - 1 = (0..(k - 1) - 1) \cup {k - 1}
        OBVIOUS
      <4> QED BY <3>1, <4>1, <4>2
    <3>7. U(k) = U(k - 1) \cup {k - 1} /\ k - 1 \notin U(k - 1)
      <4>1. k - 1 \in Used(t)
        BY <1>3, <2>1, <2>3
      <4>2. \A j \in Used(t) : j < k <=> j < k - 1 \/ j = k - 1
        BY <1>3
      <4> QED BY <4>1, <4>2
    <3>8. Cardinality(U(k)) = Cardinality(U(k - 1)) + 1
      <4>1. k - 1 \in 0..m
        OBVIOUS
      <4>2. IsFiniteSet(U(k - 1))
        BY <1>4, <4>1
      <4> HIDE DEF U
      <4> QED BY <3>7, <4>2, FS_AddElement
    <3>9. n > 0 /\ Cardinality(Used(x)) < n
      <4>1. k - 1 \in 0..m
        OBVIOUS
      <4>2. Cardinality(U(k - 1)) <= Cardinality(Used(t)) /\ Cardinality(U(k - 1)) \in Nat
        BY <1>4, <4>1
      <4>3. Cardinality(Used(t)) \in Nat
        BY TableDomain
      <4> QED BY <2>1, <4>2, <4>3
    <3> HIDE DEF P, U, x, e
    <3>10. P(k - 1) \in SUBSET Interned(given)
      BY DEF P
    <3>11. HasFree(x)
      BY <2>1, <3>9, RoomLeft
    <3> DEFINE w == FindSlot(x, Bytes[s], Hash[s])
    <3>12. FirstFree(x, s, w)
      BY <2>1, <3>2, <3>5, <3>9, <3>10, <3>11, FindsFree
    <3>13. Stores(r[k], x, w, EntryOf(given, s))
      BY <3>1, <3>4 DEF Stores
    <3> HIDE DEF w
    <3>15. /\ r[k] \in Table(n) /\ Kept(r[k], given, P(k - 1) \cup {s})
           /\ Used(r[k]) = Used(x) \cup {w} /\ w \notin Used(x)
      BY <2>1, <3>2, <3>5, <3>9, <3>10, <3>12, <3>13, Putting
    <3>16. Cardinality(Used(r[k])) = Cardinality(Used(x)) + 1
      BY <2>1, <3>15, TableDomain, FS_AddElement
    <3>17. Cardinality(Used(r[k])) = Cardinality(U(k))
      BY <2>1, <3>8, <3>16
    <3> QED BY <3>6, <3>15, <3>17
  <2> QED BY <2>2, <2>3
<1> HIDE DEF T
<1>8. m \in T
  BY <1>6, <1>7, InductionUpTo
<1>9. P(m) = S /\ U(m) = Used(t)
  <2>1. ASSUME NEW s \in S PROVE \E j \in 0..m - 1 : t[j] = EntryOf(given, s)
    <3>1. PICK i \in 0..m - 1 : t[Try(t, Hash[s], i)] = EntryOf(given, s)
      BY TableDomain DEF Kept, Reaches
    <3>2. Hash[s] \in Nat /\ i \in Nat /\ m > 0
      BY <1>2, EntryFields, StringBytes
    <3> QED BY <3>1, <3>2, TryInside
  <2> QED BY <1>3, <2>1
<1> HIDE DEF P, U
<1> QED BY <1>1, <1>8, <1>9 DEF T

----------------------------------------------------------------------------
(* The arena.                                                              *)

LEMMA AppendedBytes ==
  ASSUME NEW a \in Seq(Byte), NEW b \in Seq(Byte)
  PROVE  /\ SubSeq(a \o b, Len(a) + 1, Len(a) + Len(b)) = b
         /\ a \o b \in Seq(Byte) /\ Len(a \o b) = Len(a) + Len(b)
OBVIOUS

LEMMA PrefixKept ==
  ASSUME NEW a \in Seq(Byte), NEW b \in Seq(Byte), NEW o \in Nat, NEW l \in Nat,
         o + l <= Len(a)
  PROVE  SubSeq(a \o b, o + 1, o + l) = SubSeq(a, o + 1, o + l)
OBVIOUS

LEMMA PlacedGrows ==
  ASSUME NEW g, NEW a, Placed(g, a), NEW s \in StringKey, g[s] = NoOffset,
         NEW h, Stores(h, g, s, Len(a))
  PROVE  /\ Placed(h, a \o Bytes[s]) /\ Interned(h) = Interned(g) \cup {s}
         /\ \A x \in Interned(g) : EntryOf(h, x) = EntryOf(g, x)
<1>1. g \in [StringKey -> Nat \cup {NoOffset}] /\ a \in Seq(Byte) /\ Len(a) \in Nat
  BY DEF Placed
<1>2. Bytes[s] \in Seq(Byte) /\ Len(a) # NoOffset
  BY <1>1, StringBytes, StringSetAssumption
<1>3. h \in [StringKey -> Nat \cup {NoOffset}] /\ h[s] = Len(a) /\ \A x \in StringKey : x # s => h[x] = g[x]
  BY <1>1 DEF Stores
<1>4. Interned(h) = Interned(g) \cup {s} /\ s \notin Interned(g)
  BY <1>2, <1>3 DEF Interned
<1>5. \A x \in Interned(g) : h[x] = g[x] /\ g[x] \in Nat /\ Len(Bytes[x]) \in Nat
  BY <1>1, <1>3, StringBytes DEF Interned
<1>6. ASSUME NEW x \in Interned(g) PROVE Lies(h, a \o Bytes[s], x)
  <2>1. g[x] + Len(Bytes[x]) <= Len(a)
        /\ SubSeq(a, g[x] + 1, g[x] + Len(Bytes[x])) = Bytes[x]
    BY DEF Placed, Lies
  <2>2. Len(a \o Bytes[s]) = Len(a) + Len(Bytes[s]) /\ Len(Bytes[s]) \in Nat
    BY <1>1, <1>2
  <2>3. SubSeq(a \o Bytes[s], g[x] + 1, g[x] + Len(Bytes[x])) = Bytes[x]
    <3>1. g[x] \in Nat /\ Len(Bytes[x]) \in Nat
      BY <1>5
    <3>2. SubSeq(a \o Bytes[s], g[x] + 1, g[x] + Len(Bytes[x]))
            = SubSeq(a, g[x] + 1, g[x] + Len(Bytes[x]))
      BY <1>1, <1>2, <2>1, <3>1, PrefixKept
    <3> QED BY <2>1, <3>2
  <2>4. g[x] + Len(Bytes[x]) <= Len(a \o Bytes[s])
    BY <1>1, <1>5, <2>1, <2>2
  <2> QED BY <1>5, <2>3, <2>4 DEF Lies
<1>7. Lies(h, a \o Bytes[s], s)
  <2>1. Len(a \o Bytes[s]) = Len(a) + Len(Bytes[s])
    BY <1>1, <1>2
  <2>2. SubSeq(a \o Bytes[s], Len(a) + 1, Len(a) + Len(Bytes[s])) = Bytes[s]
    BY <1>1, <1>2, AppendedBytes
  <2>3. Len(a) + Len(Bytes[s]) <= Len(a \o Bytes[s])
    BY <1>1, <2>1, StringBytes
  <2> QED BY <1>3, <2>2, <2>3 DEF Lies
<1>8. a \o Bytes[s] \in Seq(Byte)
  BY <1>1, <1>2
<1>9. \A x \in Interned(g) : EntryOf(h, x) = EntryOf(g, x)
  BY <1>5 DEF EntryOf
<1> QED BY <1>3, <1>4, <1>6, <1>7, <1>8, <1>9 DEF Placed

LEMMA SameEntries ==
  ASSUME NEW t, NEW g, NEW h, NEW S, Kept(t, g, S),
         \A x \in S : EntryOf(h, x) = EntryOf(g, x)
  PROVE  Kept(t, h, S)
BY DEF Kept, Reaches

----------------------------------------------------------------------------
(* stringSetIntern.                                                        *)

LEMMA GrownHolds ==
  ASSUME IInv
  PROVE  /\ Capacity(Grown) \in Nat /\ Capacity(Grown) >= MinCapacity
         /\ Grown \in Table(Capacity(Grown))
         /\ Kept(Grown, given, Interned(given))
         /\ Cardinality(Used(Grown)) = count /\ count \in Nat
         /\ 4 * (count + 1) <= 3 * Capacity(Grown)
<1> DEFINE c == Capacity(entries)
           n == IF c < MinCapacity THEN MinCapacity ELSE 2 * c
<1>1. /\ c \in Nat /\ entries \in Table(c) /\ (c = 0 \/ c >= MinCapacity)
      /\ count = Cardinality(Used(entries)) /\ 4 * count <= 3 * c
      /\ Placed(given, arena) /\ Kept(entries, given, Interned(given))
  BY DEF IInv
<1>2. count \in Nat /\ MinCapacity \in Nat /\ MinCapacity >= 2
  BY <1>1, TableDomain, StringSetAssumption
<1>3. CASE ~Full
  <2>1. Grown = entries
    BY <1>3 DEF Grown
  <2>2. ~(count + 1 > (3 * c) \div 4)
    BY <1>3 DEF Full
  <2> HIDE DEF c
  <2>3. 4 * (count + 1) <= 3 * c
    BY <1>1, <1>2, <2>2
  <2>4. c >= MinCapacity
    BY <1>1, <1>2, <2>3
  <2> QED BY <1>1, <1>2, <2>1, <2>3, <2>4 DEF c
<1>4. CASE Full
  <2>1. Grown = AdjustCapacity(entries, n)
    BY <1>4 DEF Grown
  <2>2. n \in Nat /\ n >= MinCapacity /\ 4 * (count + 1) <= 3 * n /\ count < n
    <3> HIDE DEF c
    <3> QED BY <1>1, <1>2
  <2> HIDE DEF n, c
  <2>3. /\ Grown \in Table(n) /\ Kept(Grown, given, Interned(given))
        /\ Cardinality(Used(Grown)) = Cardinality(Used(entries))
    BY <1>1, <2>1, <2>2, AdjustCapacityHolds
  <2>4. Capacity(Grown) = n
    BY <2>2, <2>3, TableDomain
  <2> QED BY <1>1, <1>2, <2>2, <2>3, <2>4
<1> QED BY <1>3, <1>4

LEMMA InternKeeps ==
  ASSUME IInv, NEW s \in StringKey, Intern(s)
  PROVE  IInv' /\ \A x \in StringKey : given[x] # NoOffset => given'[x] = given[x]
<1> DEFINE t == Grown
           n == Capacity(t)
           i == FindSlot(t, Bytes[s], Hash[s])
<1>1. /\ n \in Nat /\ n >= MinCapacity /\ t \in Table(n)
      /\ Kept(t, given, Interned(given)) /\ Cardinality(Used(t)) = count
      /\ count \in Nat /\ 4 * (count + 1) <= 3 * n
  BY GrownHolds
<1>2. /\ IF t[i].length # -1
            THEN entries' = t /\ given' = [given EXCEPT ![s] = t[i].offset]
                 /\ UNCHANGED <<count, arena>>
            ELSE /\ arena' = arena \o Bytes[s]
                 /\ entries' = [t EXCEPT ![i] = [offset |-> Len(arena), length |-> Len(Bytes[s]),
                                                hash |-> Hash[s]]]
                 /\ count' = count + 1
                 /\ given' = [given EXCEPT ![s] = Len(arena)]
  BY DEF Intern
<1>3. n > 0 /\ MinCapacity >= 2 /\ MinCapacity \in Nat
  BY <1>1, StringSetAssumption
<1> HIDE DEF t, n
<1>4. HasFree(t)
  <2>1. Cardinality(Used(t)) < n
    BY <1>1
  <2> QED BY <1>1, <2>1, RoomLeft
<1>5. Placed(given, arena) /\ given \in [StringKey -> Nat \cup {NoOffset}] /\ arena \in Seq(Byte)
  BY DEF IInv, Placed
<1>6. CASE given[s] # NoOffset
  <2>1. s \in Interned(given)
    BY <1>6 DEF Interned
  <2>2. t[i] = EntryOf(given, s)
    BY <1>1, <1>3, <1>4, <1>5, <2>1, FindsEntry
  <2>3. t[i].length # -1 /\ t[i].offset = given[s]
    BY <1>5, <2>1, <2>2, EntryFields, FreeSlot
  <2>4. entries' = t /\ given' = given /\ count' = count /\ arena' = arena
    BY <1>2, <1>5, <2>3
  <2>5. Capacity(entries') = n
    BY <1>1, <2>4, TableDomain
  <2> QED BY <1>1, <1>5, <2>4, <2>5 DEF IInv
<1>7. CASE given[s] = NoOffset
  <2>1. s \notin Interned(given)
    BY <1>7 DEF Interned
  <2>2. FirstFree(t, s, i)
    BY <1>1, <1>3, <1>4, <1>5, <2>1, FindsFree
  <2>3. t[i] = Free
    BY <2>2 DEF FirstFree
  <2>4. /\ arena' = arena \o Bytes[s] /\ count' = count + 1
        /\ entries' = [t EXCEPT ![i] = [offset |-> Len(arena), length |-> Len(Bytes[s]),
                                       hash |-> Hash[s]]]
        /\ given' = [given EXCEPT ![s] = Len(arena)]
    BY <1>2, <2>3, FreeSlot
  <2> HIDE DEF i
  <2>14. Stores(given', given, s, Len(arena))
    BY <2>4 DEF Stores
  <2>5. /\ Placed(given', arena') /\ Interned(given') = Interned(given) \cup {s}
        /\ \A x \in Interned(given) : EntryOf(given', x) = EntryOf(given, x)
    <3>1. arena' = arena \o Bytes[s]
      BY <2>4
    <3>2. /\ Placed(given', arena \o Bytes[s]) /\ Interned(given') = Interned(given) \cup {s}
          /\ \A x \in Interned(given) : EntryOf(given', x) = EntryOf(given, x)
      BY <1>5, <1>7, <2>14, PlacedGrows
    <3> QED BY <3>1, <3>2
  <2>6. given'[s] = Len(arena) /\ \A x \in StringKey : x # s => given'[x] = given[x]
    BY <1>5, <2>4
  <2>7. Stores(entries', t, i, EntryOf(given', s))
    BY <2>4, <2>6 DEF Stores, EntryOf
  <2>8. Kept(t, given', Interned(given))
    BY <1>1, <2>5, SameEntries
  <2>9. Interned(given) \in SUBSET Interned(given') /\ s \in Interned(given')
    BY <2>5
  <2>10. /\ entries' \in Table(n) /\ Kept(entries', given', Interned(given) \cup {s})
         /\ Used(entries') = Used(t) \cup {i} /\ i \notin Used(t)
    BY <1>1, <1>3, <2>1, <2>2, <2>5, <2>7, <2>8, <2>9, Putting
  <2>11. Cardinality(Used(entries')) = count + 1
    BY <1>1, <2>10, TableDomain, FS_AddElement
  <2>12. Capacity(entries') = n
    BY <1>1, <2>10, TableDomain
  <2>13. IInv'
    BY <1>1, <2>4, <2>5, <2>10, <2>11, <2>12 DEF IInv
  <2> QED BY <1>7, <2>6, <2>13
<1> QED BY <1>6, <1>7

----------------------------------------------------------------------------
(* The theorems.                                                           *)

LEMMA Initially == Init => IInv
<1> SUFFICES ASSUME Init PROVE IInv
  OBVIOUS
<1>1. /\ entries \in Table(0) /\ count = 0 /\ arena = << >>
      /\ \A s \in StringKey : given[s] = NoOffset
      /\ given \in [StringKey -> Nat \cup {NoOffset}]
  BY DEF Init, Fresh, Table
<1>2. DOMAIN entries = {} /\ Capacity(entries) = 0 /\ Used(entries) = {}
  <2>1. DOMAIN entries = 0..0 - 1 /\ Capacity(entries) = 0
    BY <1>1, TableDomain
  <2>2. 0..0 - 1 = {}
    OBVIOUS
  <2> QED BY <2>1, <2>2 DEF Used
<1>3. Interned(given) = {} /\ Cardinality(Used(entries)) = 0
  BY <1>1, <1>2, FS_EmptySet DEF Interned
<1>4. Placed(given, arena)
  <2>1. << >> \in Seq(Byte)
    OBVIOUS
  <2>2. arena = << >> /\ given \in [StringKey -> Nat \cup {NoOffset}]
    BY <1>1
  <2>4. arena \in Seq(Byte)
    BY <2>1, <2>2
  <2>3. \A s \in Interned(given) : Lies(given, arena, s)
    BY <1>3
  <2> QED BY <2>2, <2>3, <2>4 DEF Placed
<1>5. Kept(entries, given, Interned(given))
  BY <1>2, <1>3 DEF Kept
<1> QED BY <1>1, <1>2, <1>3, <1>4, <1>5 DEF IInv

LEMMA StepKeeps == IInv /\ [Next]_vars => IInv'
<1> SUFFICES ASSUME IInv, [Next]_vars PROVE IInv'
  OBVIOUS
<1>1. CASE UNCHANGED vars
  <2>1. entries' = entries /\ count' = count /\ arena' = arena /\ given' = given
    BY <1>1 DEF vars
  <2> QED BY <2>1 DEF IInv
<1>2. CASE Next
  BY <1>2, InternKeeps DEF Next
<1> QED BY <1>1, <1>2

(* The inductive invariant: what the array, the arena and the offsets that *)
(* were handed out have to do with each other.                             *)
THEOREM Invariance == Spec => []IInv
BY Initially, StepKeeps, PTL DEF Spec

(* The entries lie in the arena, the count is theirs, and one is free.     *)
THEOREM TypeCorrect == Spec => []TypeOK
<1>1. IInv => TypeOK
  <2> SUFFICES ASSUME IInv PROVE TypeOK
    OBVIOUS
  <2> DEFINE n == Capacity(entries)
  <2>1. n \in Nat /\ entries \in Table(n) /\ count = Cardinality(Used(entries))
        /\ 4 * count <= 3 * n /\ Kept(entries, given, Interned(given))
        /\ given \in [StringKey -> Nat \cup {NoOffset}] /\ \A s \in Interned(given) : Lies(given, arena, s)
    BY DEF IInv, Placed
  <2>2. ASSUME NEW i \in DOMAIN entries, entries[i] # Free
        PROVE  entries[i].offset + entries[i].length <= Len(arena)
    <3>1. PICK s \in Interned(given) : entries[i] = EntryOf(given, s)
      BY <2>1, <2>2 DEF Kept
    <3> QED BY <2>1, <3>1, EntryFields DEF Lies
  <2>3. count \in Nat
    BY <2>1, TableDomain
  <2>4. n > 0 => count < n
    BY <2>1, <2>3
  <2> QED BY <2>1, <2>2, <2>4 DEF TypeOK, Used
<1> QED BY <1>1, Invariance, PTL

LEMMA ContainsIsExact ==
  ASSUME IInv, NEW s \in StringKey
  PROVE  Contains(s) <=> given[s] # NoOffset
<1> DEFINE n == Capacity(entries)
           i == FindSlot(entries, Bytes[s], Hash[s])
<1>1. /\ n \in Nat /\ entries \in Table(n) /\ count = Cardinality(Used(entries))
      /\ 4 * count <= 3 * n /\ Placed(given, arena) /\ Kept(entries, given, Interned(given))
  BY DEF IInv
<1>2. count \in Nat /\ IsFiniteSet(Used(entries)) /\ DOMAIN entries = 0..n - 1
  BY <1>1, TableDomain
<1>3. n > 0 => HasFree(entries)
  <2>1. n > 0 => Cardinality(Used(entries)) < n
    BY <1>1, <1>2
  <2> QED BY <1>1, <2>1, RoomLeft
<1> HIDE DEF n, i
<1>4. CASE given[s] # NoOffset
  <2>1. s \in Interned(given)
    BY <1>4 DEF Interned
  <2>2. given \in [StringKey -> Nat \cup {NoOffset}]
    BY <1>1 DEF Placed
  <2>3. Capacity(entries) = n
    BY DEF n
  <2>4. n > 0
    <3>1. \E k \in 0..n - 1 : TRUE
      BY <1>1, <2>1, <2>3 DEF Kept, Reaches
    <3> QED BY <1>1, <3>1
  <2>5. i \in 0..n - 1 /\ entries[i] = EntryOf(given, s)
    BY <1>1, <1>3, <2>1, <2>4, FindsEntry DEF i
  <2>6. entries[i].length # -1
    BY <2>1, <2>2, <2>5, EntryFields, FreeSlot
  <2>7. i \in Used(entries)
    BY <1>2, <2>5, <2>6 DEF Used
  <2>8. count > 0
    BY <1>1, <1>2, <2>7, FS_EmptySet
  <2> QED BY <1>4, <2>6, <2>8 DEF Contains, i
<1>5. CASE given[s] = NoOffset
  <2>1. s \notin Interned(given)
    BY <1>5 DEF Interned
  <2>2. CASE count > 0
    <3>1. n > 0
      BY <1>1, <1>2, <2>2
    <3>2. FirstFree(entries, s, i)
      BY <1>1, <1>3, <2>1, <3>1, FindsFree DEF i
    <3>3. entries[i].length = -1
      BY <3>2, FreeSlot DEF FirstFree
    <3> QED BY <1>5, <3>3 DEF Contains, i
  <2>3. CASE ~(count > 0)
    BY <1>5, <2>3 DEF Contains
  <2> QED BY <2>2, <2>3
<1> QED BY <1>4, <1>5

(* A constant that a unit wrote down long ago still reads as its string,   *)
(* and stringSetContains knows what was added and nothing else.            *)
THEOREM OffsetsName == Spec => []OffsetsKeepTheirString
<1>1. IInv => OffsetsKeepTheirString
  <2> SUFFICES ASSUME IInv, NEW s \in StringKey
               PROVE  IF given[s] = NoOffset THEN ~Contains(s)
                      ELSE /\ Contains(s)
                           /\ given[s] + Len(Bytes[s]) <= Len(arena)
                           /\ BytesAt(given[s], Len(Bytes[s])) = Bytes[s]
    BY DEF OffsetsKeepTheirString
  <2>1. given[s] # NoOffset => Lies(given, arena, s)
    BY DEF IInv, Placed, Interned
  <2> QED BY <2>1, ContainsIsExact DEF Lies, BytesAt
<1> QED BY <1>1, Invariance, PTL

(* The same string always gets the same offset from stringSetIntern.       *)
THEOREM OffsetsStay == Spec => OffsetsAreStable
<1>1. IInv /\ [Next]_vars => [\A s \in StringKey : given[s] # NoOffset => given'[s] = given[s]]_vars
  BY InternKeeps DEF Next
<1> QED BY <1>1, Invariance, PTL DEF Spec, OffsetsAreStable

----------------------------------------------------------------------------
(* Powers of two.                                                          *)

MaxPower == WordBits + MaxExponent
Doubles(f) == f[0] = 1 /\ \A i \in 1..MaxPower : f[i] = 2 * f[i - 1]

LEMMA DoublingIs ==
  ASSUME NEW f \in [0..MaxPower -> Nat], Doubles(f)
  PROVE  f = [n \in 0..MaxPower |-> IF n = 0 THEN 1 ELSE 2 * f[n - 1]]
<1>1. MaxPower \in Nat
  BY NumbersAssumption DEF MaxPower
<1>2. \A n \in 0..MaxPower : f[n] = IF n = 0 THEN 1 ELSE 2 * f[n - 1]
  BY <1>1 DEF Doubles
<1> QED BY <1>2

LEMMA PowerExists == Power \in [0..MaxPower -> Nat] /\ Doubles(Power)
<1> DEFINE Def(f) == f = [n \in 0..MaxPower |-> IF n = 0 THEN 1 ELSE 2 * f[n - 1]]
           Double == [i \in Nat |-> [x \in Nat |-> 2 * x]]
<1>1. MaxPower \in Nat
  BY NumbersAssumption DEF MaxPower
<1>2. \E f \in [0..MaxPower -> Nat] : IsRecursion(f, MaxPower, 1, Double)
  <2>1. Double \in [Nat -> [Nat -> Nat]]
    OBVIOUS
  <2> HIDE DEF Double
  <2> QED BY <1>1, <2>1, RecursionExists
<1>3. PICK f \in [0..MaxPower -> Nat] : IsRecursion(f, MaxPower, 1, Double)
  BY <1>2
<1>4. ASSUME NEW i \in 1..MaxPower PROVE i - 1 \in 0..MaxPower /\ f[i] = 2 * f[i - 1]
  <2>1. i \in Nat /\ i - 1 \in 0..MaxPower
    BY <1>1
  <2>3. f[i - 1] \in Nat
    BY <1>3, <2>1
  <2>2. f[i] = Double[i][f[i - 1]]
    BY <1>3 DEF IsRecursion
  <2> QED BY <2>1, <2>2, <2>3
<1>5. Def(f)
  <2>1. f \in [0..MaxPower -> Nat] /\ Doubles(f)
    BY <1>3, <1>4 DEF IsRecursion, Doubles
  <2> QED BY <2>1, DoublingIs
<1> HIDE DEF Def
<1>6. Def(CHOOSE h : Def(h))
  BY <1>5
<1>7. Def(Power)
  BY <1>6 DEF Def, Power, MaxPower
<1>8. DOMAIN Power = 0..MaxPower /\ Power[0] = 1 /\ \A i \in 1..MaxPower : Power[i] = 2 * Power[i - 1]
  BY <1>1, <1>7 DEF Def
<1>9. \A i \in 0..MaxPower : Power[i] \in Nat
  <2>1. ASSUME NEW i \in 1..MaxPower, Power[i - 1] \in Nat PROVE Power[i] \in Nat
    BY <1>8, <2>1
  <2>2. Power[0] \in Nat
    BY <1>8
  <2> QED BY <1>1, <2>1, <2>2, StaysInside
<1>10. Power \in [0..MaxPower -> Nat]
  BY <1>7, <1>8, <1>9 DEF Def
<1> QED BY <1>8, <1>10 DEF Doubles

LEMMA PowerRange ==
  /\ MaxPower \in Nat /\ Power[0] = 1
  /\ \A n \in 0..MaxPower : Power[n] \in Nat \ {0}
  /\ \A n \in 1..MaxPower : n - 1 \in 0..MaxPower /\ Power[n] = 2 * Power[n - 1]
<1>0. MaxPower \in Nat
  BY NumbersAssumption DEF MaxPower
<1>1. MaxPower \in Nat /\ Power \in [0..MaxPower -> Nat] /\ Power[0] = 1
      /\ \A n \in 1..MaxPower : Power[n] = 2 * Power[n - 1]
  BY <1>0, PowerExists DEF Doubles
<1>2. ASSUME NEW n \in 1..MaxPower, Power[n - 1] \in Nat \ {0} PROVE Power[n] \in Nat \ {0}
  BY <1>1, <1>2
<1>3. \A n \in 0..MaxPower : Power[n] \in Nat \ {0}
  <2>1. Power[0] \in Nat \ {0}
    BY <1>1
  <2> QED BY <1>1, <1>2, <2>1, StaysInside
<1> QED BY <1>1, <1>3

LEMMA PowerFacts ==
  /\ \A n \in 0..WordBits : Power[n] \in Nat \ {0}
  /\ \A n \in 1..WordBits : n - 1 \in 0..WordBits /\ Power[n] = 2 * Power[n - 1]
BY PowerRange, NumbersAssumption DEF MaxPower

LEMMA PowersMultiply ==
  ASSUME NEW m \in Nat, NEW n \in Nat, m + n <= MaxPower
  PROVE  /\ Power[m + n] = Power[m] * Power[n]
         /\ Power[m] \in Nat \ {0} /\ Power[n] \in Nat \ {0}
         /\ Power[m] <= Power[m + n]
<1> DEFINE T == {i \in 0..n : Power[m + i] = Power[m] * Power[i]}
<1>1. m \in 0..MaxPower /\ n \in 0..MaxPower /\ Power[m] \in Nat \ {0} /\ Power[n] \in Nat \ {0}
  BY PowerRange
<1>2. 0 \in T
  BY <1>1, PowerRange
<1>3. ASSUME NEW i \in 1..n, i - 1 \in T PROVE i \in T
  <2>1. i \in 1..MaxPower /\ m + i \in 1..MaxPower /\ (m + i) - 1 = m + (i - 1)
    BY <1>1, PowerRange
  <2>2. Power[i] = 2 * Power[i - 1] /\ Power[i - 1] \in Nat
    BY <2>1, PowerRange
  <2>3. Power[m + i] = 2 * Power[m + (i - 1)]
    BY <2>1, PowerRange
  <2>4. 2 * (Power[m] * Power[i - 1]) = Power[m] * (2 * Power[i - 1])
    BY <1>1, <2>2
  <2> QED BY <1>3, <2>2, <2>3, <2>4
<1> HIDE DEF T
<1>4. n \in T
  BY <1>2, <1>3, InductionUpTo
<1>5. Power[m + n] = Power[m] * Power[n]
  BY <1>4 DEF T
<1>6. Power[m] * Power[n] >= Power[m]
  BY <1>1
<1> QED BY <1>1, <1>5, <1>6

(* A payload has room for a number of values of a narrower kind.           *)
LEMMA PowersDivide ==
  ASSUME NEW b \in 0..WordBits
  PROVE  \E k \in Nat \ {0} : Word = k * Power[b]
<1>1. WordBits - b \in Nat /\ b \in Nat /\ (WordBits - b) + b = WordBits /\ WordBits <= MaxPower
  BY NumbersAssumption DEF MaxPower
<1>2. Word = Power[WordBits - b] * Power[b] /\ Power[WordBits - b] \in Nat \ {0}
  BY <1>1, PowersMultiply DEF Word
<1> QED BY <1>2

----------------------------------------------------------------------------
(* Payloads.                                                               *)

Half == Power[WordBits - 1]

LEMMA WordFacts == /\ Half \in Nat \ {0} /\ Word \in Nat \ {0} /\ Word = 2 * Half
BY PowerFacts, NumbersAssumption DEF Half, Word

LEMMA Canonical ==
  /\ \A i \in Int : AsRaw(i) \in 0..Word - 1
  /\ \A i \in 0..Word - 1 : AsRaw(i) = i
  /\ \A i \in -Half..Half - 1 :
       C(i) = i /\ AsSigned(AsRaw(i)) = i /\ AsRaw(i) = IF i < 0 THEN i + Word ELSE i
<1>1. Half \in Nat \ {0} /\ Word \in Nat \ {0} /\ Word = 2 * Half
  BY WordFacts
<1>2. ASSUME NEW i \in Int PROVE AsRaw(i) \in 0..Word - 1
  BY <1>1 DEF AsRaw
<1>3. ASSUME NEW i \in 0..Word - 1 PROVE AsRaw(i) = i
  <2>1. (Word * 0 + i) % Word = i
    BY <1>1, RemainderIsUnique
  <2> QED BY <1>1, <2>1 DEF AsRaw
<1>4. ASSUME NEW i \in -Half..Half - 1
      PROVE  C(i) = i /\ AsSigned(AsRaw(i)) = i /\ AsRaw(i) = IF i < 0 THEN i + Word ELSE i
  <2>1. CASE i < 0
    <3>1. i + Word \in 0..Word - 1 /\ Word * (-1) + (i + Word) = i
      BY <1>1, <2>1
    <3>2. (Word * (-1) + (i + Word)) % Word = i + Word
      BY <1>1, <3>1, RemainderIsUnique
    <3>3. AsRaw(i) = i + Word /\ i + Word >= Half
      BY <1>1, <3>1, <3>2 DEF AsRaw
    <3> QED BY <1>1, <2>1, <3>3 DEF AsSigned, C, Half
  <2>2. CASE ~(i < 0)
    <3>1. i \in 0..Word - 1 /\ i < Half
      BY <1>1, <2>2
    <3>2. AsRaw(i) = i
      BY <1>3, <3>1
    <3> QED BY <1>1, <2>2, <3>1, <3>2 DEF AsSigned, C, Half
  <2> QED BY <2>1, <2>2
<1> QED BY <1>2, <1>3, <1>4

----------------------------------------------------------------------------
(* Kinds.                                                                  *)

LEMMA KindFacts ==
  ASSUME NEW kind \in IntegerKinds
  PROVE  /\ kind.bits \in 1..WordBits /\ kind.bits \in Nat /\ kind.signed \in BOOLEAN
         /\ ~IsFloat(kind)
         /\ NumberKindMin(kind) \in Int /\ NumberKindMax(kind) \in Nat
         /\ NumberKindMin(kind) <= 0
         /\ Power[kind.bits] \in Nat \ {0} /\ Power[kind.bits - 1] \in Nat \ {0}
         /\ Power[kind.bits] = 2 * Power[kind.bits - 1]
         /\ kind.signed => /\ NumberKindMin(kind) = -Power[kind.bits - 1]
                           /\ NumberKindMax(kind) = Power[kind.bits - 1] - 1
                           /\ Power[kind.bits - 1] <= Half
         /\ ~kind.signed => /\ NumberKindMin(kind) = 0
                            /\ NumberKindMax(kind) = Power[kind.bits] - 1
         /\ Power[kind.bits] <= Word
<1>1. kind.bits \in 1..WordBits /\ kind.signed \in BOOLEAN /\ WordBits \in Nat
  BY NumbersAssumption
<1>2. kind.bits \in Nat /\ kind.bits \in 0..WordBits /\ kind.bits - 1 \in 0..WordBits
  BY <1>1
<1>3. ~IsFloat(kind)
  BY NumbersAssumption DEF IsFloat, FloatingKinds
<1>4. /\ Power[kind.bits] \in Nat \ {0} /\ Power[kind.bits - 1] \in Nat \ {0}
      /\ Power[kind.bits] = 2 * Power[kind.bits - 1]
  BY <1>1, <1>2, PowerFacts
<1>5. Power[kind.bits] <= Word
  <2>1. PICK k \in Nat \ {0} : Word = k * Power[kind.bits]
    BY <1>2, PowersDivide
  <2>2. Word = Power[kind.bits] + (k - 1) * Power[kind.bits]
    BY <1>4, <2>1
  <2>3. (k - 1) * Power[kind.bits] >= 0
    BY <1>4, <2>1
  <2> QED BY <1>4, <2>1, <2>2, <2>3
<1>6. Power[kind.bits - 1] <= Half
  BY <1>4, <1>5, WordFacts
<1> QED BY <1>1, <1>2, <1>3, <1>4, <1>5, <1>6 DEF NumberKindMin, NumberKindMax

(* Between its limits, a number of a kind and its payload are the same,    *)
(* and a payload that is read and written again has not changed.           *)
Numbered(kind) == NumberKindMin(kind)..NumberKindMax(kind)

LEMMA NumberedFacts ==
  ASSUME NEW kind \in IntegerKinds, NEW i \in Numbered(kind)
  PROVE  /\ i \in Int /\ AsRaw(i) \in Values(kind) /\ Reads(kind, AsRaw(i)) = i
         /\ kind.signed => i \in -Half..Half - 1
         /\ ~kind.signed => i \in 0..Word - 1
<1>1. i \in Int /\ NumberKindMin(kind) <= i /\ i <= NumberKindMax(kind)
  BY KindFacts DEF Numbered
<1>2. AsRaw(i) \in Values(kind)
  BY KindFacts DEF Numbered, Values
<1>3. CASE kind.signed
  <2>1. i \in -Half..Half - 1
    BY <1>1, <1>3, KindFacts, WordFacts
  <2>2. AsSigned(AsRaw(i)) = i
    BY <2>1, Canonical
  <2> QED BY <1>1, <1>2, <1>3, <2>1, <2>2 DEF Reads
<1>4. CASE ~kind.signed
  <2>1. i \in 0..Word - 1
    BY <1>1, <1>4, KindFacts, WordFacts
  <2>2. AsRaw(i) = i
    BY <2>1, Canonical
  <2> QED BY <1>1, <1>2, <1>4, <2>1, <2>2 DEF Reads
<1> QED BY <1>3, <1>4, KindFacts

LEMMA ValueFacts ==
  ASSUME NEW kind \in IntegerKinds, NEW x \in Values(kind)
  PROVE  /\ Reads(kind, x) \in Numbered(kind) /\ AsRaw(Reads(kind, x)) = x
         /\ kind.signed => Reads(kind, x) = AsSigned(x)
         /\ ~kind.signed => Reads(kind, x) = x
<1>1. PICK i \in Numbered(kind) : x = AsRaw(i)
  BY KindFacts DEF Values, Numbered
<1>2. Reads(kind, x) = i
  BY <1>1, NumberedFacts
<1> QED BY <1>1, <1>2 DEF Reads

LEMMA TruncationKeeps ==
  ASSUME NEW kind \in IntegerKinds, NEW v \in Numbered(kind)
  PROVE  TruncateRawInteger(kind, AsRaw(v)) = AsRaw(v)
<1> DEFINE p == Power[kind.bits]
<1>1. p \in Nat \ {0} /\ p <= Word /\ v \in Int /\ Word \in Nat /\ Half \in Nat
      /\ NumberKindMin(kind) <= v /\ v <= NumberKindMax(kind)
  BY KindFacts, NumberedFacts, WordFacts DEF Numbered
<1>2. CASE v >= 0
  <2>1. v \in 0..p - 1 /\ v \in 0..Word - 1
    BY <1>1, <1>2, KindFacts
  <2>2. AsRaw(v) = v
    BY <2>1, Canonical
  <2>3. (p * 0 + v) % p = v
    BY <1>1, <2>1, RemainderIsUnique
  <2>4. v % p = v
    BY <1>1, <2>1, <2>3
  <2>5. kind.signed => v < Power[kind.bits - 1]
    BY <1>1, KindFacts
  <2>6. kind.signed => ~(v >= Power[kind.bits - 1])
    BY <1>1, <2>5, KindFacts
  <2> QED BY <2>2, <2>4, <2>6 DEF TruncateRawInteger
<1>3. CASE v < 0
  <2>1. kind.signed /\ v + p \in Power[kind.bits - 1]..p - 1 /\ v + p \in Nat
    BY <1>1, <1>3, KindFacts
  <2>2. AsRaw(v) = v + Word
    BY <1>1, <1>3, <2>1, NumberedFacts, Canonical
  <2>3. PICK k \in Nat \ {0} : Word = k * p
    BY PowersDivide, KindFacts
  <2>4. p * (k - 1) + (v + p) = v + Word
    BY <1>1, <2>3
  <2>5. (p * (k - 1) + (v + p)) % p = v + p
    <3> DEFINE q == k - 1
               j == v + p
    <3>1. j \in 0..p - 1 /\ q \in Int /\ p \in Nat /\ p > 0
      BY <1>1, <2>1, <2>3, KindFacts
    <3> HIDE DEF p, q, j
    <3>2. (p * q + j) % p = j
      BY <3>1, RemainderIsUnique
    <3> QED BY <3>2 DEF q, j
  <2>6. (v + Word) % p = v + p /\ v + p >= Power[kind.bits - 1] /\ (v + p) - p = v
    BY <1>1, <2>1, <2>4, <2>5, KindFacts
  <2> HIDE DEF p
  <2> QED BY <2>1, <2>2, <2>6 DEF TruncateRawInteger, p
<1> QED BY <1>1, <1>2, <1>3

----------------------------------------------------------------------------
(* Division as C does it.                                                  *)

(* The quotient of a limit is the largest factor that stays below it.      *)
LEMMA FactorFits ==
  ASSUME NEW m \in Nat, NEW d \in Nat \ {0}, NEW x \in Nat
  PROVE  m \div d \in 0..m /\ (x > m \div d <=> x * d > m)
<1> DEFINE q == m \div d
           r == m % d
<1>1. m = d * q + r /\ q \in Nat /\ r \in 0..d - 1
  OBVIOUS
<1> HIDE DEF q, r
<1>2. q <= m
  <2>1. d * q >= q
    BY <1>1
  <2> QED BY <1>1, <2>1
<1>3. CASE x > q
  <2>1. d * x >= d * (q + 1)
    BY <1>1, <1>3
  <2>2. d * (q + 1) = d * q + d /\ x * d = d * x
    BY <1>1
  <2> QED BY <1>1, <1>2, <1>3, <2>1, <2>2 DEF q
<1>4. CASE x <= q
  <2>1. d * x <= d * q /\ x * d = d * x
    BY <1>1, <1>4
  <2> QED BY <1>1, <1>2, <1>4, <2>1 DEF q
<1> QED BY <1>1, <1>3, <1>4

LEMMA MagnitudeFacts ==
  ASSUME NEW i \in Int
  PROVE  /\ Magnitude(i) \in Nat /\ (i # 0 => Magnitude(i) > 0)
         /\ i >= 0 => Magnitude(i) = i
         /\ i <= 0 => Magnitude(i) = -i
BY DEF Magnitude

LEMMA QuotientFacts ==
  ASSUME NEW a \in Int, NEW b \in Int, b # 0
  PROVE  /\ CDiv(a, b) \in Int /\ Magnitude(CDiv(a, b)) <= Magnitude(a)
         /\ IsQuotient(a, b, CDiv(a, b), a - CDiv(a, b) * b)
<1> DEFINE m == Magnitude(a)
           d == Magnitude(b)
           q == m \div d
           r == m % d
<1>1. m \in Nat /\ d \in Nat \ {0}
  BY MagnitudeFacts
<1>2. /\ a >= 0 => a = m
      /\ a < 0 => a = -m
      /\ b >= 0 => b = d
      /\ b < 0 => b = -d
  BY MagnitudeFacts
<1> HIDE DEF m, d
<1>3. m = d * q + r /\ q \in Nat /\ r \in 0..d - 1
  BY <1>1
<1>4. q <= m
  BY <1>1, FactorFits
<1>5. CDiv(a, b) = IF (a < 0) # (b < 0) THEN -q ELSE q
  BY DEF CDiv, m, d
<1> HIDE DEF q, r
<1>6. CDiv(a, b) \in Int /\ Magnitude(CDiv(a, b)) = q
  BY <1>3, <1>5 DEF Magnitude
<1>7. CDiv(a, b) * b = IF a < 0 THEN -(d * q) ELSE d * q
  <2>1. (-q) * d = -(d * q) /\ q * (-d) = -(d * q) /\ (-q) * (-d) = d * q /\ q * d = d * q
    BY <1>1, <1>3
  <2> QED BY <1>1, <1>2, <1>3, <1>5, <2>1
<1>8. a - CDiv(a, b) * b = IF a < 0 THEN -r ELSE r
  <2>1. d * q \in Nat
    BY <1>1, <1>3
  <2> QED BY <1>1, <1>2, <1>3, <1>7, <2>1
<1>9. CDiv(a, b) * b \in Int
  BY <1>6
<1> DEFINE s == a - CDiv(a, b) * b
<1>10. s \in Int /\ a = CDiv(a, b) * b + s /\ Magnitude(s) = r
       /\ (s # 0 => (s < 0) = (a < 0))
  BY <1>3, <1>8, <1>9 DEF Magnitude
<1>11. Magnitude(s) < d
  BY <1>1, <1>3, <1>10
<1> HIDE DEF s
<1>12. IsQuotient(a, b, CDiv(a, b), s)
  BY <1>10, <1>11 DEF IsQuotient, d
<1> QED BY <1>4, <1>6, <1>12 DEF s, m

----------------------------------------------------------------------------
(* signedArithmetic: its tests refuse what does not fit and nothing else,  *)
(* and what they let through is computed exactly.                          *)

Lo(kind) == NumberKindMin(kind)
Hi(kind) == NumberKindMax(kind)

(* The limits of a signed kind, inside those of int64_t.                   *)
LEMMA SignedLimits ==
  ASSUME NEW kind \in IntegerKinds, kind.signed
  PROVE  /\ Hi(kind) \in Nat /\ Lo(kind) \in Int /\ Lo(kind) = -Hi(kind) - 1
         /\ Numbered(kind) = Lo(kind)..Hi(kind)
         /\ \A i \in Lo(kind)..Hi(kind) : C(i) = i
<1>1. Hi(kind) \in Nat /\ Lo(kind) \in Int /\ Lo(kind) = -Hi(kind) - 1
  BY KindFacts DEF Hi, Lo
<1>2. Numbered(kind) = Lo(kind)..Hi(kind)
  BY DEF Numbered, Hi, Lo
<1>3. ASSUME NEW i \in Lo(kind)..Hi(kind) PROVE C(i) = i
  BY <1>2, NumberedFacts, Canonical
<1> QED BY <1>1, <1>2, <1>3

LEMMA SignedSum ==
  ASSUME NEW kind \in IntegerKinds, kind.signed, NEW a \in Numbered(kind), NEW b \in Numbered(kind)
  PROVE  /\ SignedDoesNotFit("+", a, b, Lo(kind), Hi(kind)) <=> ~Fits(kind, "+", a, b)
         /\ Fits(kind, "+", a, b) => SignedValue("+", a, b) = a + b /\ a + b \in Numbered(kind)
<1>1. /\ Hi(kind) \in Nat /\ Lo(kind) \in Int /\ Lo(kind) = -Hi(kind) - 1
      /\ Numbered(kind) = Lo(kind)..Hi(kind) /\ \A i \in Lo(kind)..Hi(kind) : C(i) = i
  BY SignedLimits
<1>2. a \in Int /\ b \in Int /\ Lo(kind) <= a /\ a <= Hi(kind) /\ Lo(kind) <= b /\ b <= Hi(kind)
  BY <1>1
<1>3. /\ b > 0 => C(Hi(kind) - b) = Hi(kind) - b
      /\ b < 0 => C(Lo(kind) - b) = Lo(kind) - b
  BY <1>1, <1>2
<1>4. Fits(kind, "+", a, b) <=> a + b \in Numbered(kind)
  BY <1>1, <1>2 DEF Fits, Holds, Hi, Lo
<1>5. SignedDoesNotFit("+", a, b, Lo(kind), Hi(kind)) <=>
        (b > 0 /\ a > Hi(kind) - b) \/ (b < 0 /\ a < Lo(kind) - b)
  BY <1>3 DEF SignedDoesNotFit
<1>6. a + b \in Numbered(kind) => SignedValue("+", a, b) = a + b
  BY <1>1 DEF SignedValue
<1> QED BY <1>1, <1>2, <1>4, <1>5, <1>6

LEMMA SignedDifference ==
  ASSUME NEW kind \in IntegerKinds, kind.signed, NEW a \in Numbered(kind), NEW b \in Numbered(kind)
  PROVE  /\ SignedDoesNotFit("-", a, b, Lo(kind), Hi(kind)) <=> ~Fits(kind, "-", a, b)
         /\ Fits(kind, "-", a, b) => SignedValue("-", a, b) = a - b /\ a - b \in Numbered(kind)
<1>1. /\ Hi(kind) \in Nat /\ Lo(kind) \in Int /\ Lo(kind) = -Hi(kind) - 1
      /\ Numbered(kind) = Lo(kind)..Hi(kind) /\ \A i \in Lo(kind)..Hi(kind) : C(i) = i
  BY SignedLimits
<1>2. a \in Int /\ b \in Int /\ Lo(kind) <= a /\ a <= Hi(kind) /\ Lo(kind) <= b /\ b <= Hi(kind)
  BY <1>1
<1>3. /\ b < 0 => C(Hi(kind) + b) = Hi(kind) + b
      /\ b > 0 => C(Lo(kind) + b) = Lo(kind) + b
  BY <1>1, <1>2
<1>4. Fits(kind, "-", a, b) <=> a - b \in Numbered(kind)
  BY <1>1, <1>2 DEF Fits, Holds, Hi, Lo
<1>5. SignedDoesNotFit("-", a, b, Lo(kind), Hi(kind)) <=>
        (b < 0 /\ a > Hi(kind) + b) \/ (b > 0 /\ a < Lo(kind) + b)
  BY <1>3 DEF SignedDoesNotFit
<1>6. a - b \in Numbered(kind) => SignedValue("-", a, b) = a - b
  BY <1>1 DEF SignedValue
<1> QED BY <1>1, <1>2, <1>4, <1>5, <1>6

LEMMA SignedProductFits ==
  ASSUME NEW kind \in IntegerKinds, kind.signed, NEW a \in Numbered(kind), NEW b \in Numbered(kind)
  PROVE  SignedDoesNotFit("*", a, b, Lo(kind), Hi(kind)) <=> a * b \notin Numbered(kind)
<1> DEFINE h == Hi(kind)
           l == Lo(kind)
<1>1. /\ h \in Nat /\ l \in Int /\ l = -h - 1
      /\ Numbered(kind) = l..h /\ \A i \in l..h : C(i) = i
  BY SignedLimits
<1> HIDE DEF h, l
<1>2. a \in Int /\ b \in Int
  BY <1>1
<1>4. CASE a > 0 /\ b > 0
  <2>1. CDiv(h, b) = h \div b
    BY <1>1, <1>2, <1>4, MagnitudeFacts DEF CDiv
  <2>2. h \div b \in 0..h /\ (a > h \div b <=> a * b > h)
    BY <1>1, <1>2, <1>4, FactorFits
  <2>3. C(CDiv(h, b)) = h \div b
    BY <1>1, <2>1, <2>2
  <2>4. SignedDoesNotFit("*", a, b, l, h) <=> a > C(CDiv(h, b))
    BY <1>2, <1>4 DEF SignedDoesNotFit
  <2>5. a * b \in Int /\ a * b > 0
    BY <1>2, <1>4
  <2> QED BY <1>1, <2>2, <2>3, <2>4, <2>5 DEF h, l
<1>5. CASE a > 0 /\ b <= 0
  <2>1. Magnitude(l) = h + 1 /\ Magnitude(a) = a
    BY <1>1, <1>2, <1>5, MagnitudeFacts
  <2>2. CDiv(l, a) = -((h + 1) \div a)
    BY <1>1, <1>2, <1>5, <2>1 DEF CDiv
  <2>3. (h + 1) \div a \in 0..h + 1 /\ (-b > (h + 1) \div a <=> (-b) * a > h + 1)
    <3>1. h + 1 \in Nat /\ a \in Nat \ {0} /\ -b \in Nat
      BY <1>1, <1>2, <1>5
    <3> QED BY <3>1, FactorFits
  <2>4. C(CDiv(l, a)) = -((h + 1) \div a)
    BY <1>1, <2>2, <2>3
  <2>5. SignedDoesNotFit("*", a, b, l, h) <=> b < C(CDiv(l, a))
    BY <1>2, <1>5 DEF SignedDoesNotFit
  <2>6. a * b \in Int /\ a * b <= 0 /\ (-b) * a = -(a * b)
    BY <1>2, <1>5
  <2>7. b < -((h + 1) \div a) <=> -b > (h + 1) \div a
    BY <1>2, <2>3
  <2> QED BY <1>1, <2>3, <2>4, <2>5, <2>6, <2>7 DEF h, l
<1>6. CASE a <= 0 /\ b > 0
  <2>1. Magnitude(l) = h + 1 /\ Magnitude(b) = b
    BY <1>1, <1>2, <1>6, MagnitudeFacts
  <2>2. CDiv(l, b) = -((h + 1) \div b)
    BY <1>1, <1>2, <1>6, <2>1 DEF CDiv
  <2>3. (h + 1) \div b \in 0..h + 1 /\ (-a > (h + 1) \div b <=> (-a) * b > h + 1)
    <3>1. h + 1 \in Nat /\ b \in Nat \ {0} /\ -a \in Nat
      BY <1>1, <1>2, <1>6
    <3> QED BY <3>1, FactorFits
  <2>4. C(CDiv(l, b)) = -((h + 1) \div b)
    BY <1>1, <2>2, <2>3
  <2>5. SignedDoesNotFit("*", a, b, l, h) <=> a < C(CDiv(l, b))
    BY <1>2, <1>6 DEF SignedDoesNotFit
  <2>6. a * b \in Int /\ a * b <= 0 /\ (-a) * b = -(a * b)
    BY <1>2, <1>6
  <2>7. a < -((h + 1) \div b) <=> -a > (h + 1) \div b
    BY <1>2, <2>3
  <2> QED BY <1>1, <2>3, <2>4, <2>5, <2>6, <2>7 DEF h, l
<1>7. CASE a < 0 /\ b <= 0
  <2>1. Magnitude(h) = h /\ Magnitude(a) = -a
    BY <1>1, <1>2, <1>7, MagnitudeFacts
  <2>2. CDiv(h, a) = -(h \div (-a))
    BY <1>1, <1>2, <1>7, <2>1 DEF CDiv
  <2>3. h \div (-a) \in 0..h /\ (-b > h \div (-a) <=> (-b) * (-a) > h)
    <3>1. h \in Nat /\ -a \in Nat \ {0} /\ -b \in Nat
      BY <1>1, <1>2, <1>7
    <3> QED BY <3>1, FactorFits
  <2>4. C(CDiv(h, a)) = -(h \div (-a))
    BY <1>1, <2>2, <2>3
  <2>5. SignedDoesNotFit("*", a, b, l, h) <=> b < C(CDiv(h, a))
    BY <1>2, <1>7 DEF SignedDoesNotFit
  <2>6. a * b \in Int /\ a * b >= 0 /\ (-b) * (-a) = a * b
    BY <1>2, <1>7
  <2>7. b < -(h \div (-a)) <=> -b > h \div (-a)
    BY <1>2, <2>3
  <2> QED BY <1>1, <2>3, <2>4, <2>5, <2>6, <2>7 DEF h, l
<1>8. CASE a = 0 /\ b <= 0
  <2>1. a * b = 0
    BY <1>2, <1>8
  <2>2. ~SignedDoesNotFit("*", a, b, l, h)
    BY <1>2, <1>8 DEF SignedDoesNotFit
  <2> QED BY <1>1, <2>1, <2>2 DEF h, l
<1> QED BY <1>2, <1>4, <1>5, <1>6, <1>7, <1>8

LEMMA SignedProduct ==
  ASSUME NEW kind \in IntegerKinds, kind.signed, NEW a \in Numbered(kind), NEW b \in Numbered(kind)
  PROVE  /\ SignedDoesNotFit("*", a, b, Lo(kind), Hi(kind)) <=> ~Fits(kind, "*", a, b)
         /\ Fits(kind, "*", a, b) => SignedValue("*", a, b) = a * b /\ a * b \in Numbered(kind)
<1>1. /\ Hi(kind) \in Int /\ Lo(kind) \in Int
      /\ Numbered(kind) = Lo(kind)..Hi(kind) /\ \A i \in Lo(kind)..Hi(kind) : C(i) = i
  BY SignedLimits
<1>2. a \in Int /\ b \in Int /\ a * b \in Int
  BY <1>1
<1>3. Fits(kind, "*", a, b) <=> a * b \in Numbered(kind)
  BY <1>1, <1>2 DEF Fits, Holds, Hi, Lo
<1>4. a * b \in Numbered(kind) => SignedValue("*", a, b) = a * b
  BY <1>1 DEF SignedValue
<1> QED BY <1>3, <1>4, SignedProductFits

(* The quotient of the lowest number and -1 is the only one that does not  *)
(* fit; the remainder always does.                                         *)
LEMMA SignedQuotient ==
  ASSUME NEW kind \in IntegerKinds, kind.signed, NEW a \in Numbered(kind), NEW b \in Numbered(kind),
         b # 0
  PROVE  /\ SignedDoesNotFit("/", a, b, Lo(kind), Hi(kind)) <=> ~Fits(kind, "/", a, b)
         /\ Fits(kind, "/", a, b) =>
              SignedValue("/", a, b) = CDiv(a, b) /\ CDiv(a, b) \in Numbered(kind)
<1> DEFINE q == CDiv(a, b)
<1>1. /\ Hi(kind) \in Nat /\ Lo(kind) \in Int /\ Lo(kind) = -Hi(kind) - 1
      /\ Numbered(kind) = Lo(kind)..Hi(kind) /\ \A i \in Lo(kind)..Hi(kind) : C(i) = i
  BY SignedLimits
<1>2. a \in Int /\ b \in Int /\ Lo(kind) <= a /\ a <= Hi(kind)
  BY <1>1
<1>3. SignedDoesNotFit("/", a, b, Lo(kind), Hi(kind)) <=> a = Lo(kind) /\ b = -1
  BY DEF SignedDoesNotFit
<1>4. Fits(kind, "/", a, b) <=> ~(a = Lo(kind) /\ b = -1)
  BY DEF Fits, Lo
<1>5. q \in Int /\ Magnitude(q) <= Magnitude(a) /\ IsQuotient(a, b, q, a - q * b)
  BY <1>2, QuotientFacts
<1>6. ASSUME ~(a = Lo(kind) /\ b = -1) PROVE q \in Lo(kind)..Hi(kind)
  <2>1. Magnitude(a) <= Hi(kind) + 1 /\ (Magnitude(a) = Hi(kind) + 1 => a = Lo(kind))
    BY <1>1, <1>2 DEF Magnitude
  <2>2. -(Hi(kind) + 1) <= q /\ q <= Hi(kind) + 1
    BY <1>1, <1>5, <2>1, MagnitudeFacts DEF Magnitude
  <2>3. q # Hi(kind) + 1
    <3> SUFFICES ASSUME q = Hi(kind) + 1 PROVE FALSE
      OBVIOUS
    <3>1. a = Lo(kind) /\ b # -1
      BY <1>1, <1>2, <1>5, <1>6, <2>1 DEF Magnitude
    <3>2. q = -a /\ a < 0
      BY <1>1, <3>1
    <3> HIDE DEF q
    <3>3. /\ Magnitude(a - q * b) < Magnitude(b)
          /\ (a - q * b # 0 => (a - q * b < 0) = (a < 0))
      BY <1>5 DEF IsQuotient
    <3>4. a - q * b = a * (b + 1)
      BY <1>2, <3>2
    <3>5. CASE b > 0
      <4>1. a * (b + 1) <= -(b + 1)
        BY <1>2, <3>2, <3>5
      <4> QED BY <1>2, <3>3, <3>4, <3>5, <4>1 DEF Magnitude
    <3>6. CASE b < -1
      <4>1. a * (b + 1) > 0
        BY <1>2, <3>2, <3>6
      <4> QED BY <1>2, <3>2, <3>3, <3>4, <4>1
    <3> QED BY <1>2, <3>1, <3>5, <3>6
  <2> QED BY <1>1, <1>5, <2>2, <2>3
<1>7. q \in Lo(kind)..Hi(kind) => SignedValue("/", a, b) = q
  BY <1>1 DEF SignedValue
<1> QED BY <1>1, <1>3, <1>4, <1>6, <1>7

LEMMA SignedRemainder ==
  ASSUME NEW kind \in IntegerKinds, kind.signed, NEW a \in Numbered(kind), NEW b \in Numbered(kind),
         b # 0
  PROVE  LET v == SignedValue("%", a, b)
         IN  /\ ~SignedDoesNotFit("%", a, b, Lo(kind), Hi(kind)) /\ Fits(kind, "%", a, b)
             /\ v \in Numbered(kind) /\ IsResult("%", a, b, v)
<1> DEFINE v == SignedValue("%", a, b)
           q == IF b = -1 THEN -a ELSE CDiv(a, b)
<1>1. /\ Hi(kind) \in Nat /\ Lo(kind) \in Int /\ Lo(kind) = -Hi(kind) - 1
      /\ Numbered(kind) = Lo(kind)..Hi(kind)
  BY SignedLimits
<1>2. a \in Int /\ b \in Int /\ Magnitude(a) <= Hi(kind) + 1 /\ Magnitude(b) <= Hi(kind) + 1
      /\ Magnitude(a) <= Word
  <2>1. a \in -Half..Half - 1
    BY NumberedFacts
  <2> QED BY <1>1, <2>1, WordFacts DEF Magnitude
<1>3. ~SignedDoesNotFit("%", a, b, Lo(kind), Hi(kind)) /\ Fits(kind, "%", a, b)
  BY DEF SignedDoesNotFit, Fits
<1>4. v = IF b = -1 THEN 0 ELSE a - b * CDiv(a, b)
  BY DEF SignedValue
<1>5. q \in Int /\ Magnitude(q) <= Magnitude(a) /\ IsQuotient(a, b, q, v)
  <2>1. CASE b = -1
    <3>1. v = 0 /\ q = -a /\ a = q * b + 0
      BY <1>2, <1>4, <2>1
    <3> HIDE DEF v, q
    <3> QED BY <1>2, <2>1, <3>1 DEF IsQuotient, Magnitude
  <2>2. CASE b # -1
    <3>1. CDiv(a, b) \in Int /\ b * CDiv(a, b) = CDiv(a, b) * b
      BY <1>2, QuotientFacts
    <3>2. v = a - CDiv(a, b) * b /\ q = CDiv(a, b)
      BY <1>4, <2>2, <3>1
    <3> QED BY <1>2, <3>2, QuotientFacts
  <2> QED BY <2>1, <2>2
<1> HIDE DEF v, q
<1>6. v \in Int
  <2>1. CASE b = -1
    BY <1>4, <2>1
  <2>2. CASE b # -1
    BY <1>2, <1>4, <2>2, QuotientFacts
  <2> QED BY <2>1, <2>2
<1>7. v \in Numbered(kind)
  BY <1>1, <1>2, <1>5, <1>6 DEF IsQuotient, Magnitude
<1>8. q \in -Word..Word
  BY <1>2, <1>5, WordFacts DEF Magnitude
<1>9. IsResult("%", a, b, v)
  BY <1>5, <1>8 DEF IsResult
<1> QED BY <1>3, <1>7, <1>9 DEF v

(* What passes the tests comes back unchanged from truncateRawInteger.     *)
LEMMA SignedIsExact ==
  ASSUME NEW kind \in IntegerKinds, kind.signed, NEW a \in Numbered(kind), NEW b \in Numbered(kind),
         NEW op \in Operators, op \in {"/", "%"} => b # 0
  PROVE  LET v == SignedValue(op, a, b)
         IN  /\ SignedDoesNotFit(op, a, b, Lo(kind), Hi(kind)) <=> ~Fits(kind, op, a, b)
             /\ Fits(kind, op, a, b) => v \in Numbered(kind) /\ IsResult(op, a, b, v)
<1>1. CASE op = "+"
  BY <1>1, SignedSum DEF IsResult
<1>2. CASE op = "-"
  BY <1>2, SignedDifference DEF IsResult
<1>3. CASE op = "*"
  BY <1>3, SignedProduct DEF IsResult
<1>4. CASE op = "/"
  <2>1. a \in Int /\ b \in Int
    BY NumberedFacts
  <2>2. IsQuotient(a, b, CDiv(a, b), a - CDiv(a, b) * b)
    BY <1>4, <2>1, QuotientFacts
  <2> QED BY <1>4, <2>2, SignedQuotient DEF IsResult
<1>5. CASE op = "%"
  BY <1>5, SignedRemainder
<1> QED BY <1>1, <1>2, <1>3, <1>4, <1>5 DEF Operators

----------------------------------------------------------------------------
(* unsignedArithmetic.                                                     *)

LEMMA UnsignedIsExact ==
  ASSUME NEW kind \in IntegerKinds, ~kind.signed, NEW a \in Numbered(kind), NEW b \in Numbered(kind),
         NEW op \in Operators, op \in {"/", "%"} => b # 0
  PROVE  LET v == UnsignedValue(op, a, b)
         IN  /\ UnsignedDoesNotFit(op, a, b, Hi(kind)) <=> ~Fits(kind, op, a, b)
             /\ Fits(kind, op, a, b) => v \in Numbered(kind) /\ IsResult(op, a, b, v)
<1> DEFINE h == Hi(kind)
<1>1. h \in Nat /\ Lo(kind) = 0 /\ Numbered(kind) = 0..h
  BY KindFacts DEF Hi, Lo, Numbered
<1>2. \A i \in Numbered(kind) : AsRaw(i) = i
  BY NumberedFacts, Canonical
<1>3. a \in Nat /\ b \in Nat /\ a <= h /\ b <= h
  BY <1>1
<1>4. \A i \in Int : Holds(kind, i) <=> i \in Numbered(kind)
  BY <1>1 DEF Holds, Hi, Lo
<1>5. h <= Word
  BY KindFacts, WordFacts DEF Hi
<1> HIDE DEF h
<1>6. CASE op = "+"
  BY <1>1, <1>2, <1>3, <1>4, <1>6 DEF UnsignedDoesNotFit, Fits, UnsignedValue, IsResult, h
<1>7. CASE op = "-"
  BY <1>1, <1>2, <1>3, <1>4, <1>7 DEF UnsignedDoesNotFit, Fits, UnsignedValue, IsResult, h
<1>8. CASE op = "*"
  <2>1. a * b \in Int /\ a * b >= 0 /\ b * a = a * b
    BY <1>3
  <2>2. a # 0 => (b > h \div a <=> b * a > h)
    BY <1>1, <1>3, FactorFits
  <2>3. a = 0 => a * b = 0
    BY <1>3
  <2>4. UnsignedDoesNotFit("*", a, b, h) <=> a # 0 /\ b > h \div a
    BY DEF UnsignedDoesNotFit
  <2>5. Fits(kind, "*", a, b) <=> a * b \in Numbered(kind)
    BY <1>4, <2>1 DEF Fits
  <2>6. UnsignedValue("*", a, b) = AsRaw(a * b)
    BY DEF UnsignedValue
  <2>7. UnsignedDoesNotFit("*", a, b, h) <=> a * b \notin Numbered(kind)
    BY <1>1, <1>3, <2>1, <2>2, <2>3, <2>4
  <2> QED BY <1>2, <1>8, <2>5, <2>6, <2>7 DEF IsResult, h
<1>9. CASE op \in {"/", "%"}
  <2> DEFINE q == a \div b
             r == a % b
  <2>1. b \in Nat \ {0}
    BY <1>3, <1>9
  <2>2. a = b * q + r /\ q \in Nat /\ r \in 0..b - 1
    BY <1>3, <2>1
  <2>3. q <= a
    BY <1>3, <2>1, FactorFits
  <2>4. ~UnsignedDoesNotFit(op, a, b, h)
    BY <1>9 DEF UnsignedDoesNotFit
  <2>5. Fits(kind, op, a, b)
    BY <1>9, <2>1, KindFacts DEF Fits
  <2>6. UnsignedValue("/", a, b) = q /\ UnsignedValue("%", a, b) = r
    BY DEF UnsignedValue
  <2> HIDE DEF q, r
  <2>7. q * b = b * q /\ q * b \in Nat /\ a - q * b = r
    BY <1>3, <2>1, <2>2
  <2>8. IsQuotient(a, b, q, r)
    BY <1>3, <2>1, <2>2, <2>7 DEF IsQuotient, Magnitude
  <2>9. q \in Numbered(kind) /\ r \in Numbered(kind) /\ q \in -Word..Word
    BY <1>1, <1>3, <1>5, <2>1, <2>2, <2>3, WordFacts
  <2>10. IsResult("/", a, b, q) /\ IsResult("%", a, b, r)
    BY <2>7, <2>8, <2>9 DEF IsResult
  <2> QED BY <1>9, <2>4, <2>5, <2>6, <2>9, <2>10 DEF h
<1> QED BY <1>6, <1>7, <1>8, <1>9 DEF Operators

----------------------------------------------------------------------------
(* Every request for arithmetic.                                           *)

LEMMA ArithmeticIsExact ==
  ASSUME NEW kind \in IntegerKinds, NEW x \in Values(kind), NEW y \in Values(kind),
         NEW op \in Operators, op \in {"/", "%"} => Reads(kind, y) # 0
  PROVE  LET a == Reads(kind, x)
             b == Reads(kind, y)
             r == NumberArithmetic(kind, op, x, y)
         IN  /\ r.status = "ok" <=> Fits(kind, op, a, b)
             /\ r.status = "ok" => /\ r.payload \in Values(kind)
                                   /\ IsResult(op, a, b, Reads(kind, r.payload))
<1> DEFINE a == Reads(kind, x)
           b == Reads(kind, y)
           r == NumberArithmetic(kind, op, x, y)
           v == IF kind.signed THEN SignedValue(op, a, b) ELSE UnsignedValue(op, a, b)
           refused == IF kind.signed THEN SignedDoesNotFit(op, a, b, Lo(kind), Hi(kind))
                      ELSE UnsignedDoesNotFit(op, a, b, Hi(kind))
<1>1. a \in Numbered(kind) /\ b \in Numbered(kind) /\ kind.signed \in BOOLEAN
  BY ValueFacts, KindFacts
<1>2. /\ refused <=> ~Fits(kind, op, a, b)
      /\ Fits(kind, op, a, b) => v \in Numbered(kind) /\ IsResult(op, a, b, v)
  BY <1>1, SignedIsExact, UnsignedIsExact
<1>3. r = IF refused THEN Refused("overflow")
          ELSE Ok(TruncateRawInteger(kind, IF kind.signed THEN AsRaw(v) ELSE v))
  BY <1>1, ValueFacts DEF NumberArithmetic, SignedArithmetic, UnsignedArithmetic, Hi, Lo
<1> HIDE DEF a, b, r, v, refused
<1>4. CASE refused
  <2>1. r.status # "ok"
    BY <1>3, <1>4 DEF Refused
  <2> QED BY <1>2, <1>4, <2>1 DEF r, a, b
<1>5. CASE ~refused
  <2>1. v \in Numbered(kind) /\ IsResult(op, a, b, v)
    BY <1>2, <1>5
  <2>2. ~kind.signed => AsRaw(v) = v
    BY <2>1, NumberedFacts, Canonical
  <2>3. r = Ok(AsRaw(v))
    BY <1>3, <1>5, <2>1, <2>2, TruncationKeeps
  <2>4. r.status = "ok" /\ r.payload = AsRaw(v)
    BY <2>3 DEF Ok
  <2>5. AsRaw(v) \in Values(kind) /\ Reads(kind, AsRaw(v)) = v
    BY <2>1, NumberedFacts
  <2> QED BY <1>2, <1>5, <2>1, <2>4, <2>5 DEF r, a, b
<1> QED BY <1>4, <1>5

LEMMA BinaryIsExact == Binary => ArithmeticIsExactOrRefused'
<1> SUFFICES ASSUME Binary PROVE ArithmeticIsExactOrRefused'
  OBVIOUS
<1>0. PICK kind \in IntegerKinds, op \in Operators : \E x, y \in Values(kind) :
        /\ request' = [name |-> "binary", kind |-> kind, op |-> op, a |-> x, b |-> y]
        /\ reply' = IF op \in {"/", "%"} /\ y = 0 THEN Refused("zero divisor")
                    ELSE NumberArithmetic(kind, op, x, y)
  BY DEF Binary
<1>1. PICK x \in Values(kind), y \in Values(kind) :
        /\ request' = [name |-> "binary", kind |-> kind, op |-> op, a |-> x, b |-> y]
        /\ reply' = IF op \in {"/", "%"} /\ y = 0 THEN Refused("zero divisor")
                    ELSE NumberArithmetic(kind, op, x, y)
  BY <1>0
<1> DEFINE a == Reads(kind, x)
           b == Reads(kind, y)
<1>2. b = 0 <=> y = 0
  <2>1. 0 \in Numbered(kind) /\ 0 \in -Half..Half - 1
    BY KindFacts, WordFacts DEF Numbered
  <2>2. AsRaw(0) = 0 /\ Reads(kind, AsRaw(0)) = 0
    BY <2>1, NumberedFacts, Canonical
  <2>3. AsRaw(b) = y
    BY ValueFacts
  <2> QED BY <2>2, <2>3
<1>3. /\ reply'.status = "ok" <=> Fits(kind, op, a, b)
      /\ reply'.status = "ok" => /\ reply'.payload \in Values(kind)
                                 /\ IsResult(op, a, b, Reads(kind, reply'.payload))
  <2>1. CASE op \in {"/", "%"} /\ y = 0
    <3>1. reply'.status # "ok"
      BY <1>1, <2>1 DEF Refused
    <3>2. b = 0
      BY <1>2, <2>1
    <3> HIDE DEF a, b
    <3>3. ~Fits(kind, op, a, b)
      BY <2>1, <3>2 DEF Fits
    <3> QED BY <3>1, <3>3
  <2>2. CASE ~(op \in {"/", "%"} /\ y = 0)
    <3>1. reply' = NumberArithmetic(kind, op, x, y) /\ (op \in {"/", "%"} => b # 0)
      BY <1>1, <1>2, <2>2
    <3> QED BY <3>1, ArithmeticIsExact
  <2> QED BY <2>1, <2>2
<1>4. /\ request'.name = "binary" /\ request'.kind = kind /\ request'.op = op
      /\ request'.a = x /\ request'.b = y
  BY <1>1
<1>5. Asked("binary")' /\ ~Asked("negate")'
  BY <1>4 DEF Asked
<1> QED BY <1>3, <1>4, <1>5 DEF ArithmeticIsExactOrRefused, Succeeded

LEMMA NegateIsExact == Negate => ArithmeticIsExactOrRefused'
<1> SUFFICES ASSUME Negate PROVE ArithmeticIsExactOrRefused'
  OBVIOUS
<1>0. PICK kind \in IntegerKinds : \E x \in Values(kind) :
        /\ request' = [name |-> "negate", kind |-> kind, a |-> x]
        /\ reply' = NumberNegate(kind, x)
  BY DEF Negate
<1>1. PICK x \in Values(kind) :
        /\ request' = [name |-> "negate", kind |-> kind, a |-> x]
        /\ reply' = NumberNegate(kind, x)
  BY <1>0
<1> DEFINE a == Reads(kind, x)
<1>2. 0 \in Values(kind) /\ Reads(kind, 0) = 0
  <2>1. 0 \in Numbered(kind) /\ 0 \in -Half..Half - 1
    BY KindFacts, WordFacts DEF Numbered
  <2>2. AsRaw(0) = 0
    BY <2>1, Canonical
  <2> QED BY <2>1, <2>2, NumberedFacts
<1>3. a \in Int
  BY ValueFacts, NumberedFacts
<1>4. /\ reply'.status = "ok" <=> Fits(kind, "-", 0, a)
      /\ reply'.status = "ok" => IsResult("-", 0, a, Reads(kind, reply'.payload))
  <2>1. reply' = NumberArithmetic(kind, "-", 0, x) /\ "-" \in Operators
    BY <1>1 DEF NumberNegate, Operators
  <2> QED BY <1>2, <2>1, ArithmeticIsExact
<1>5. /\ Fits(kind, "-", 0, a) <=> Holds(kind, -a)
      /\ \A v : IsResult("-", 0, a, v) => v = -a
  BY <1>3 DEF Fits, IsResult
<1>6. request'.name = "negate" /\ request'.kind = kind /\ request'.a = x
  BY <1>1
<1>7. Asked("negate")' /\ ~Asked("binary")'
  BY <1>6 DEF Asked
<1> QED BY <1>4, <1>5, <1>6, <1>7 DEF ArithmeticIsExactOrRefused, Succeeded

(* signedArithmetic, unsignedArithmetic and numberNegateValue store the    *)
(* exact result, canonical for its kind, or refuse because there is none,  *)
(* whatever the widths of the payload and of the kinds.                    *)
THEOREM ExactOrRefused == NumbersSpec => []ArithmeticIsExactOrRefused
<1>1. NumbersInit => ArithmeticIsExactOrRefused
  BY DEF NumbersInit, Idle, ArithmeticIsExactOrRefused, Asked
<1>2. ArithmeticIsExactOrRefused /\ [NumbersNext]_computing => ArithmeticIsExactOrRefused'
  <2> SUFFICES ASSUME ArithmeticIsExactOrRefused, [NumbersNext]_computing
               PROVE  ArithmeticIsExactOrRefused'
    OBVIOUS
  <2>1. CASE Binary
    BY <2>1, BinaryIsExact
  <2>2. CASE Negate
    BY <2>2, NegateIsExact
  <2>3. CASE Compare \/ Cast \/ Index
    <3>1. request'.name \in {"compare", "cast", "index"}
      BY <2>3 DEF Compare, Cast, Index
    <3> QED BY <3>1 DEF ArithmeticIsExactOrRefused, Asked
  <2>4. CASE UNCHANGED computing
    <3>1. request' = request /\ reply' = reply
      BY <2>4 DEF computing
    <3> QED BY <3>1 DEF ArithmeticIsExactOrRefused, Asked, Succeeded
  <2> QED BY <2>1, <2>2, <2>3, <2>4 DEF NumbersNext
<1> QED BY <1>1, <1>2, PTL DEF NumbersSpec

----------------------------------------------------------------------------
(* Floats.  What is nearest is decided on magnitudes: a representable one  *)
(* is a significand of that many bits times a power of two.                *)

Steps(w, u) ==
  LET over == 2 * (w % u)
  IN  IF over > u \/ (over = u /\ (w \div u) % 2 = 1) THEN (w \div u) + 1 ELSE w \div u

LEMMA NearestMultiple ==
  ASSUME NEW w \in Nat, NEW u \in Nat \ {0}
  PROVE  /\ Steps(w, u) \in {w \div u, (w \div u) + 1} /\ Steps(w, u) \in Nat
         /\ \A j \in Int : Magnitude(w - Steps(w, u) * u) <= Magnitude(w - j * u)
         /\ \A j \in Int : w = j * u => Steps(w, u) * u = w
<1> DEFINE q == w \div u
           r == w % u
           k == Steps(w, u)
<1>1. w = u * q + r /\ q \in Nat /\ r \in 0..u - 1
  OBVIOUS
<1>2. k = IF 2 * r > u \/ (2 * r = u /\ q % 2 = 1) THEN q + 1 ELSE q
  BY DEF Steps
<1> HIDE DEF q, r, k
<1>3. k \in Nat /\ ((k = q /\ 2 * r <= u) \/ (k = q + 1 /\ 2 * r >= u))
  BY <1>1, <1>2
<1>4. Magnitude(w - k * u) <= r /\ Magnitude(w - k * u) <= u - r
  <2>1. CASE k = q /\ 2 * r <= u
    <3>1. w - k * u = r
      BY <1>1, <2>1
    <3> QED BY <1>1, <2>1, <3>1 DEF Magnitude
  <2>2. CASE k = q + 1 /\ 2 * r >= u
    <3>1. (q + 1) * u = u * q + u
      BY <1>1
    <3>2. w - k * u = r - u
      BY <1>1, <2>2, <3>1
    <3> QED BY <1>1, <2>2, <3>2 DEF Magnitude
  <2> QED BY <1>3, <2>1, <2>2
<1>5. ASSUME NEW j \in Int PROVE Magnitude(w - k * u) <= Magnitude(w - j * u)
  <2>1. j * u \in Int /\ Magnitude(w - k * u) \in Int
    BY <1>1, <1>3, MagnitudeFacts
  <2>2. CASE j <= q
    <3>1. j * u <= u * q
      BY <1>1, <2>2
    <3>2. w - j * u >= r
      BY <1>1, <2>1, <3>1
    <3> QED BY <1>1, <1>4, <2>1, <3>2 DEF Magnitude
  <2>3. CASE j >= q + 1
    <3>1. j * u >= u * q + u
      <4>1. j * u >= (q + 1) * u
        BY <1>1, <2>3
      <4>2. (q + 1) * u = u * q + u
        BY <1>1
      <4> QED BY <4>1, <4>2
    <3>2. j * u - w >= u - r
      BY <1>1, <2>1, <3>1
    <3> QED BY <1>1, <1>4, <2>1, <3>2 DEF Magnitude
  <2> QED BY <1>1, <2>2, <2>3
<1>6. ASSUME NEW j \in Int, w = j * u PROVE k * u = w
  <2>1. Magnitude(w - k * u) <= 0
    BY <1>5, <1>6 DEF Magnitude
  <2>2. k * u \in Int
    BY <1>3
  <2> QED BY <2>1, <2>2 DEF Magnitude
<1> QED BY <1>3, <1>5, <1>6 DEF k, q

Representable(w, precision) ==
  \E s \in 0..MaxExponent, m \in Nat : m < Power[precision] /\ w = m * Power[s]

(* The number a rounding needs is below this bound.                        *)
Bound(precision) == Power[precision + MaxExponent]

LEMMA Precisions ==
  ASSUME NEW p \in 1..WordBits
  PROVE  /\ p \in Nat /\ p - 1 \in Nat /\ MaxExponent \in Nat /\ Bound(p) \in Nat
         /\ Power[p] \in Nat /\ Power[p - 1] \in Nat \ {0} /\ Power[p] = 2 * Power[p - 1]
         /\ \A s \in 0..MaxExponent :
              /\ s \in Nat /\ Power[s] \in Nat \ {0}
              /\ Power[p + s] = Power[p] * Power[s]
              /\ Power[p - 1 + s] = Power[p - 1] * Power[s]
         /\ \A s, t \in 0..MaxExponent : s <= t =>
              /\ Power[p + s] <= Power[p + t]
              /\ t - s \in Nat /\ Power[t] = Power[t - s] * Power[s] /\ Power[t - s] \in Nat
<1>1. WordBits \in Nat /\ MaxExponent \in Nat /\ MaxPower = WordBits + MaxExponent
  BY NumbersAssumption DEF MaxPower
<1>2. p \in Nat /\ p - 1 \in Nat /\ p \in 1..MaxPower
  BY <1>1
<1>3. ASSUME NEW s \in 0..MaxExponent
      PROVE  /\ s \in Nat /\ Power[s] \in Nat \ {0}
             /\ Power[p + s] = Power[p] * Power[s]
             /\ Power[p - 1 + s] = Power[p - 1] * Power[s]
  <2>1. s \in Nat /\ p + s <= MaxPower /\ p - 1 + s <= MaxPower
    BY <1>1, <1>2
  <2> QED BY <1>2, <2>1, PowersMultiply
<1>4. ASSUME NEW s \in 0..MaxExponent, NEW t \in 0..MaxExponent, s <= t
      PROVE  /\ Power[p + s] <= Power[p + t]
             /\ t - s \in Nat /\ Power[t] = Power[t - s] * Power[s] /\ Power[t - s] \in Nat
  <2> DEFINE d == t - s
             a == p + s
  <2>1. d \in Nat /\ s \in Nat /\ d + s = t /\ d + s <= MaxPower
        /\ a \in Nat /\ a + d = p + t /\ a + d <= MaxPower
    BY <1>1, <1>2, <1>4
  <2> HIDE DEF d, a
  <2>2. Power[d + s] = Power[d] * Power[s] /\ Power[d] \in Nat /\ Power[a] <= Power[a + d]
    BY <2>1, PowersMultiply
  <2> QED BY <2>1, <2>2 DEF d, a
<1>5. Power[p] = 2 * Power[p - 1] /\ Power[p] \in Nat /\ Power[p - 1] \in Nat \ {0}
  BY <1>1, <1>2, PowerFacts
<1>6. Bound(p) \in Nat
  <2>1. p + MaxExponent \in 0..MaxPower
    BY <1>1, <1>2
  <2> QED BY <2>1, PowerRange DEF Bound
<1> QED BY <1>1, <1>2, <1>3, <1>4, <1>5, <1>6

(* The power that an exponent one too large would compare with is a        *)
(* natural number.                                                         *)
LEMMA SmallerPower ==
  ASSUME NEW p \in 1..WordBits, NEW s \in 0..MaxExponent
  PROVE  Power[p - 1 + s] \in Nat
<1>1. p \in Nat /\ p <= WordBits /\ p >= 1 /\ WordBits \in Nat /\ MaxExponent \in Nat
  BY NumbersAssumption
<1>2. p - 1 + s \in 0..MaxPower
  BY <1>1 DEF MaxPower
<1> QED BY <1>2, PowerRange

(* Every magnitude below the bound has an exponent, and the definition of  *)
(* Ulp picks it.                                                           *)
LEMMA ExponentExists ==
  ASSUME NEW p \in 1..WordBits, NEW w \in Nat, w < Bound(p)
  PROVE  \E s \in 0..MaxExponent : IsExponent(s, w, p) /\ Ulp(w, p) = Power[s]
<1> DEFINE T == {s \in 0..MaxExponent : w < Power[p + s]}
<1>1. MaxExponent \in Nat /\ T \in SUBSET Nat /\ MaxExponent \in T /\ Magnitude(w) = w
  BY Precisions, MagnitudeFacts DEF Bound
<1>2. PICK s \in T : \A t \in T : s <= t
  BY <1>1, LeastNatural
<1>3. s \in 0..MaxExponent /\ w < Power[p + s]
  OBVIOUS
<1>4. ASSUME s > 0 PROVE w >= Power[p + s - 1]
  <2>1. s - 1 \in 0..MaxExponent /\ s - 1 \notin T
    BY <1>1, <1>2, <1>4
  <2>2. p + (s - 1) = p + s - 1 /\ p + (s - 1) = p - 1 + s
    BY <1>1, <1>3
  <2>3. Power[p - 1 + s] \in Nat
    BY <1>3, SmallerPower
  <2> QED BY <2>1, <2>2, <2>3
<1>5. IsExponent(s, w, p)
  BY <1>1, <1>3, <1>4 DEF IsExponent
<1> HIDE DEF T
<1> DEFINE c == CHOOSE t \in 0..MaxExponent : IsExponent(t, w, p)
<1>6. c \in 0..MaxExponent /\ IsExponent(c, w, p)
  BY <1>3, <1>5
<1>7. Ulp(w, p) = Power[c]
  BY DEF Ulp
<1> HIDE DEF c
<1> QED BY <1>6, <1>7

(* The magnitude that w is rounded to, and its last place.                 *)
LEMMA NearestMagnitude ==
  ASSUME NEW p \in 1..WordBits, NEW w \in Nat, w < Bound(p)
  PROVE  \E s \in 0..MaxExponent :
           /\ NearestEven(w, p) = Steps(w, Power[s]) * Power[s]
           /\ NearestEven(w, p) \in Nat
           /\ Steps(w, Power[s]) \in 0..Power[p]
           /\ w < Power[p] * Power[s]
           /\ s > 0 => Power[p - 1] * Power[s] <= w
<1>1. PICK s \in 0..MaxExponent : IsExponent(s, w, p) /\ Ulp(w, p) = Power[s]
  BY ExponentExists
<1> DEFINE u == Power[s]
           k == Steps(w, u)
<1>2. u \in Nat \ {0} /\ Power[p] \in Nat /\ Power[p] > 0
      /\ Power[p + s] = Power[p] * u /\ Power[p - 1 + s] = Power[p - 1] * u
  BY Precisions
<1>3. Magnitude(w) = w /\ ~(w < 0)
  BY MagnitudeFacts
<1>4. NearestEven(w, p) = k * u
  BY <1>1, <1>3 DEF NearestEven, Steps
<1>5. w < Power[p] * u /\ (s > 0 => Power[p - 1] * u <= w)
  <2>1. p + s - 1 = p - 1 + s
    BY <1>1
  <2>2. Power[p - 1 + s] \in Nat
    BY SmallerPower
  <2> QED BY <1>1, <1>2, <1>3, <2>1, <2>2 DEF IsExponent
<1> HIDE DEF u
<1>6. k \in Nat /\ k \in {w \div u, (w \div u) + 1}
  BY <1>2, NearestMultiple
<1>7. w \div u < Power[p]
  <2>1. \A m \in Nat, d \in Nat \ {0}, x \in Nat : x > m \div d <=> x * d > m
    BY FactorFits
  <2> QED BY <1>2, <1>5, <2>1
<1>8. k * u \in Nat
  BY <1>2, <1>6
<1>9. k \in 0..Power[p]
  <2>1. w \div u \in Nat
    BY <1>2
  <2> HIDE DEF k
  <2> QED BY <1>2, <1>6, <1>7, <2>1
<1> QED BY <1>4, <1>5, <1>8, <1>9 DEF u, k

(* Rounding returns a representable number, leaves those alone, and none   *)
(* of them is nearer.                                                      *)
LEMMA RepresentableIsKept ==
  ASSUME NEW p \in 1..WordBits, NEW w \in Nat, Representable(w, p)
  PROVE  w < Bound(p) /\ NearestEven(w, p) = w
<1>1. PICK t \in 0..MaxExponent, m \in Nat : m < Power[p] /\ w = m * Power[t]
  BY DEF Representable
<1>2. /\ Power[t] \in Nat \ {0} /\ Power[p] \in Nat /\ Power[p + t] = Power[p] * Power[t]
      /\ Bound(p) \in Nat /\ Power[p + t] <= Bound(p)
  BY Precisions DEF Bound
<1>3. w < Power[p] * Power[t]
  BY <1>1, <1>2
<1>4. w < Bound(p)
  BY <1>2, <1>3
<1>5. PICK s \in 0..MaxExponent :
        /\ NearestEven(w, p) = Steps(w, Power[s]) * Power[s]
        /\ s > 0 => Power[p - 1] * Power[s] <= w
  BY <1>4, NearestMagnitude
<1>6. s \in Nat /\ t \in Nat /\ Power[s] \in Nat \ {0}
  BY Precisions
<1>7. s <= t
  <2> SUFFICES ASSUME s > t PROVE FALSE
    BY <1>6
  <2>1. s - 1 \in 0..MaxExponent /\ t <= s - 1 /\ s \in 1..MaxPower /\ p + (s - 1) = p - 1 + s
    BY <1>6, NumbersAssumption DEF MaxPower
  <2>2. /\ Power[p + t] <= Power[p + (s - 1)] /\ Power[p - 1 + s] = Power[p - 1] * Power[s]
    BY <2>1, Precisions
  <2>3. Power[p - 1] * Power[s] <= w
    BY <1>5, <1>6
  <2>4. Power[p - 1] * Power[s] >= Power[p] * Power[t]
    BY <1>2, <2>1, <2>2
  <2>5. Power[p - 1] * Power[s] \in Nat /\ Power[p] * Power[t] \in Nat
    BY <1>2, <1>6, Precisions
  <2> QED BY <1>3, <2>3, <2>4, <2>5
<1>8. Power[t] = Power[t - s] * Power[s] /\ Power[t - s] \in Nat
  BY <1>7, Precisions
<1>9. w = (m * Power[t - s]) * Power[s] /\ m * Power[t - s] \in Int
  BY <1>1, <1>6, <1>8
<1>10. Steps(w, Power[s]) * Power[s] = w
  BY <1>6, <1>9, NearestMultiple
<1> QED BY <1>4, <1>5, <1>10

LEMMA KeptIsRepresentable ==
  ASSUME NEW p \in 1..WordBits, NEW w \in Nat, w < Bound(p), NearestEven(w, p) < Bound(p)
  PROVE  Representable(NearestEven(w, p), p)
<1>1. PICK s \in 0..MaxExponent :
        /\ NearestEven(w, p) = Steps(w, Power[s]) * Power[s]
        /\ Steps(w, Power[s]) \in 0..Power[p]
  BY NearestMagnitude
<1> DEFINE k == Steps(w, Power[s])
<1>2. k \in Nat /\ Power[p] \in Nat /\ k <= Power[p] /\ NearestEven(w, p) = k * Power[s]
  BY <1>1, Precisions
<1> HIDE DEF k
<1>3. CASE k < Power[p]
  BY <1>2, <1>3 DEF Representable
<1>4. CASE k = Power[p]
  <2>1. /\ Power[p + s] = Power[p] * Power[s] /\ Power[p] = 2 * Power[p - 1]
        /\ Power[p - 1] \in Nat \ {0} /\ Power[s] \in Nat \ {0} /\ Bound(p) \in Nat
        /\ MaxExponent \in Nat
    BY Precisions
  <2>2. s # MaxExponent
    BY <1>2, <1>4, <2>1 DEF Bound
  <2>3. s + 1 \in 0..MaxExponent /\ s + 1 \in 1..MaxPower /\ (s + 1) - 1 = s
    BY <2>1, <2>2, NumbersAssumption DEF MaxPower
  <2>4. Power[s + 1] = 2 * Power[s]
    BY <2>3, PowerRange
  <2>5. Power[p - 1] < Power[p] /\ NearestEven(w, p) = Power[p - 1] * Power[s + 1]
    BY <1>2, <1>4, <2>1, <2>4
  <2> QED BY <2>1, <2>3, <2>5 DEF Representable
<1> QED BY <1>2, <1>3, <1>4

LEMMA NoneIsNearer ==
  ASSUME NEW p \in 1..WordBits, NEW w \in Nat, w < Bound(p), NEW x \in Nat, Representable(x, p)
  PROVE  /\ NearestEven(w, p) \in Nat
         /\ Magnitude(w - NearestEven(w, p)) <= Magnitude(w - x)
<1>1. PICK s \in 0..MaxExponent :
        /\ NearestEven(w, p) = Steps(w, Power[s]) * Power[s]
        /\ NearestEven(w, p) \in Nat
        /\ s > 0 => Power[p - 1] * Power[s] <= w
  BY NearestMagnitude
<1>2. PICK t \in 0..MaxExponent, m \in Nat : m < Power[p] /\ x = m * Power[t]
  BY DEF Representable
<1>3. s \in Nat /\ t \in Nat /\ Power[s] \in Nat \ {0} /\ Power[t] \in Nat \ {0}
      /\ Power[p] \in Nat /\ Power[p - 1] \in Nat /\ p \in Nat /\ MaxExponent \in Nat
  BY Precisions
<1>4. \A j \in Int : Magnitude(w - NearestEven(w, p)) <= Magnitude(w - j * Power[s])
  BY <1>1, <1>3, NearestMultiple
<1>5. CASE s <= t
  <2>1. Power[t] = Power[t - s] * Power[s] /\ Power[t - s] \in Nat
    BY <1>5, Precisions
  <2>2. x = (m * Power[t - s]) * Power[s] /\ m * Power[t - s] \in Int
    BY <1>2, <1>3, <2>1
  <2> QED BY <1>1, <1>4, <2>2
<1>6. CASE s > t
  <2> DEFINE low == Power[p - 1] * Power[s]
  <2>1. s - 1 \in 0..MaxExponent /\ t <= s - 1 /\ p + (s - 1) = p - 1 + s
    BY <1>3, <1>6
  <2>2. /\ Power[p + t] <= Power[p + (s - 1)] /\ Power[p - 1 + s] = low
        /\ Power[p + t] = Power[p] * Power[t]
    BY <2>1, Precisions
  <2>3. low <= w /\ low \in Nat
    BY <1>1, <1>3, <1>6
  <2>4. Power[p] * Power[t] <= low /\ x < Power[p] * Power[t] /\ Power[p] * Power[t] \in Nat
    BY <1>2, <1>3, <2>1, <2>2
  <2>5. Magnitude(w - NearestEven(w, p)) <= Magnitude(w - low)
    BY <1>3, <1>4
  <2>6. Magnitude(w - NearestEven(w, p)) \in Int
    BY <1>1, MagnitudeFacts
  <2> HIDE DEF low
  <2>7. w - x > w - low
    BY <2>3, <2>4
  <2> QED BY <1>1, <2>3, <2>5, <2>6, <2>7 DEF Magnitude
<1> QED BY <1>3, <1>5, <1>6

----------------------------------------------------------------------------
(* Floats of a kind, with their sign.                                      *)

LEMMA FloatKinds ==
  ASSUME NEW kind \in FloatingKinds
  PROVE  /\ kind.precision \in 1..WordBits /\ kind.largest \in Nat /\ kind \notin IntegerKinds
         /\ IsFloat(kind)
         /\ 2 * Word <= kind.largest
         /\ \A other \in FloatingKinds : kind.largest < Bound(other.precision)
         /\ Representable(kind.largest, kind.precision) /\ Representable(0, kind.precision)
<1>1. kind.precision \in 1..WordBits /\ kind.largest \in Nat /\ kind \notin IntegerKinds
      /\ IsFloat(kind)
  BY NumbersAssumption DEF FloatingKinds, IsFloat
<1>2. /\ NearestEven(kind.largest, kind.precision) = kind.largest
      /\ 2 * Word <= kind.largest
      /\ \A other \in FloatingKinds : kind.largest < Bound(other.precision)
  BY <1>1, FloatsAssumption, WordFacts DEF Bound
<1>3. Representable(kind.largest, kind.precision)
  BY <1>1, <1>2, KeptIsRepresentable
<1>4. Representable(0, kind.precision)
  <2>1. 0 \in 0..MaxExponent /\ Power[0] = 1 /\ Power[kind.precision] \in Nat \ {0}
    BY <1>1, Precisions, PowerRange, PowerFacts
  <2>2. 0 = 0 * Power[0] /\ 0 < Power[kind.precision]
    BY <2>1
  <2> QED BY <2>1, <2>2 DEF Representable
<1> QED BY <1>1, <1>2, <1>3, <1>4

LEMMA SignIsKept ==
  ASSUME NEW p, NEW v \in Int
  PROVE  LET r == NearestEven(Magnitude(v), p)
         IN  NearestEven(v, p) = IF v < 0 THEN -r ELSE r
<1>1. Magnitude(Magnitude(v)) = Magnitude(v) /\ ~(Magnitude(v) < 0)
  BY DEF Magnitude
<1>2. Ulp(Magnitude(v), p) = Ulp(v, p)
  BY <1>1 DEF Ulp, IsExponent
<1> QED BY <1>1, <1>2 DEF NearestEven

(* A finite float is one of its kind when its magnitude is representable.  *)
LEMMA FloatsOfAKind ==
  ASSUME NEW kind \in FloatingKinds, NEW x
  PROVE  x \in Values(kind) <=>
           \/ x \in {NaN, Infinite(TRUE), Infinite(FALSE)}
           \/ \E v \in Int : /\ x = Finite(v) /\ Magnitude(v) <= kind.largest
                             /\ Representable(Magnitude(v), kind.precision)
<1> DEFINE p == kind.precision
           L == kind.largest
<1>1. p \in 1..WordBits /\ L \in Nat /\ L < Bound(p) /\ IsFloat(kind)
  BY FloatKinds
<1>2. Bound(p) \in Nat
  BY <1>1, Precisions
<1> HIDE DEF p, L
<1>3. ASSUME NEW v \in Int, Magnitude(v) <= L
      PROVE  NearestEven(v, p) = v <=> Representable(Magnitude(v), p)
  <2> DEFINE w == Magnitude(v)
             r == NearestEven(w, p)
  <2>1. w \in Nat /\ w < Bound(p) /\ (v < 0 => w = -v) /\ (~(v < 0) => w = v)
    BY <1>1, <1>2, <1>3 DEF Magnitude
  <2>2. NearestEven(v, p) = IF v < 0 THEN -r ELSE r
    BY SignIsKept
  <2> HIDE DEF w
  <2>3. r \in Nat
    BY <1>1, <2>1, NearestMagnitude
  <2>4. NearestEven(v, p) = v <=> r = w
    BY <2>1, <2>2, <2>3
  <2>5. r = w => Representable(w, p)
    BY <1>1, <2>1, KeptIsRepresentable
  <2>6. Representable(w, p) => r = w
    BY <1>1, <2>1, RepresentableIsKept
  <2> QED BY <2>4, <2>5, <2>6 DEF w
<1>4. \A v : v \in -L..L <=> v \in Int /\ Magnitude(v) <= L
  BY <1>1 DEF Magnitude
<1>5. Values(kind) = {Finite(v) : v \in {w \in -L..L : NearestEven(w, p) = w}}
                     \cup {NaN, Infinite(TRUE), Infinite(FALSE)}
  BY <1>1 DEF Values, FloatValues, p, L
<1>6. (\E v \in {w \in -L..L : NearestEven(w, p) = w} : x = Finite(v))
      <=> \E v \in Int : x = Finite(v) /\ Magnitude(v) <= L /\ Representable(Magnitude(v), p)
  BY <1>3, <1>4
<1> QED BY <1>5, <1>6 DEF p, L

LEMMA NoneIsNearerSigned ==
  ASSUME NEW p \in 1..WordBits, NEW v \in Int, Magnitude(v) < Bound(p),
         NEW x \in Int, Representable(Magnitude(x), p), Representable(0, p)
  PROVE  Magnitude(v - NearestEven(v, p)) <= Magnitude(v - x)
<1> DEFINE w == Magnitude(v)
           r == NearestEven(w, p)
           y == Magnitude(x)
<1>1. w \in Nat /\ y \in Nat
      /\ (v < 0 => w = -v) /\ (~(v < 0) => w = v) /\ (x < 0 => y = -x) /\ (~(x < 0) => y = x)
  BY DEF Magnitude
<1>2. NearestEven(v, p) = IF v < 0 THEN -r ELSE r
  BY SignIsKept
<1>3. w < Bound(p) /\ Representable(y, p)
  OBVIOUS
<1> HIDE DEF w, y
<1>4. r \in Nat /\ Magnitude(w - r) <= Magnitude(w - y) /\ Magnitude(w - r) <= Magnitude(w - 0)
  BY <1>1, <1>3, NoneIsNearer
<1> HIDE DEF r
<1> QED BY <1>1, <1>2, <1>4 DEF Magnitude

(* What a rounding returns is in range exactly when it is finite, and then *)
(* nothing is nearer.                                                      *)
LEMMA RoundingIsNearest ==
  ASSUME NEW kind \in FloatingKinds, NEW v \in Int, Magnitude(v) < Bound(kind.precision)
  PROVE  LET rounded == RoundFloat(kind, Finite(v))
         IN  \/ /\ rounded.class = "infinite" /\ Magnitude(v) > kind.largest
             \/ /\ rounded.class = "finite" /\ rounded = Finite(rounded.halves)
                /\ rounded.halves \in Int /\ IsNearest(kind, v, rounded)
                /\ \A x \in Nat : Representable(x, kind.precision) /\ Magnitude(v) <= x
                                   => Magnitude(rounded.halves) <= x
<1> DEFINE p == kind.precision
           L == kind.largest
           w == Magnitude(v)
           n == NearestEven(w, p)
           r == NearestEven(v, p)
           rounded == RoundFloat(kind, Finite(v))
<1>1. p \in 1..WordBits /\ L \in Nat /\ w \in Nat /\ L < Bound(p) /\ Bound(p) \in Nat
      /\ w < Bound(p) /\ IsFloat(kind) /\ Representable(L, p) /\ Representable(0, p)
  BY FloatKinds, Precisions, MagnitudeFacts
<1>2. r = IF v < 0 THEN -n ELSE n
  BY SignIsKept
<1>3. rounded = IF Magnitude(r) > L THEN Infinite(r > 0) ELSE Finite(r)
  BY DEF RoundFloat, Finite
<1>4. n \in Nat /\ \A x \in Nat : Representable(x, p) => Magnitude(w - n) <= Magnitude(w - x)
  <2> HIDE DEF p, L, w
  <2> QED BY <1>1, NoneIsNearer
<1>5. Magnitude(r) = n /\ r \in Int
  <2> HIDE DEF n, r
  <2> QED BY <1>2, <1>4 DEF Magnitude
<1> HIDE DEF p, L, n, r, rounded
<1>6. \A x \in Nat : Representable(x, p) /\ w <= x => n <= x
  <2> HIDE DEF w
  <2> QED BY <1>1, <1>4 DEF Magnitude
<1>7. CASE n > L
  <2>1. w > L
    <3> HIDE DEF w
    <3> QED BY <1>1, <1>4, <1>6, <1>7
  <2>2. rounded.class = "infinite"
    BY <1>3, <1>5, <1>7 DEF Infinite
  <2> QED BY <2>1, <2>2 DEF rounded, L
<1>8. CASE n <= L
  <2>1. rounded = Finite(r) /\ rounded.class = "finite" /\ rounded.halves = r
    BY <1>1, <1>3, <1>4, <1>5, <1>8 DEF Finite
  <2>2. Representable(n, p)
    <3> HIDE DEF w
    <3> QED BY <1>1, <1>4, <1>8, KeptIsRepresentable DEF n
  <2>3. Finite(r) \in Values(kind)
    BY <1>5, <1>8, <2>2, FloatsOfAKind DEF p, L
  <2>4. ASSUME NEW x \in Values(kind), x.class = "finite"
        PROVE  Magnitude(v - r) <= Magnitude(v - x.halves)
    <3>1. x \notin {NaN, Infinite(TRUE), Infinite(FALSE)}
      BY <2>4 DEF NaN, Infinite
    <3>2. PICK y \in Int : x = Finite(y) /\ Representable(Magnitude(y), p)
      BY <3>1, FloatsOfAKind DEF p
    <3>3. x.halves = y
      BY <3>2 DEF Finite
    <3> QED BY <1>1, <3>2, <3>3, NoneIsNearerSigned DEF r
  <2>5. IsNearest(kind, v, rounded)
    BY <2>1, <2>3, <2>4 DEF IsNearest
  <2> QED BY <1>5, <1>6, <2>1, <2>5 DEF rounded, p
<1> QED BY <1>1, <1>4, <1>7, <1>8

----------------------------------------------------------------------------
(* Casts.  The value of a payload, in halves.                              *)

Value(kind, x) == IF IsFloat(kind) THEN x ELSE Finite(2 * Reads(kind, x))

LEMMA KindIsEither ==
  ASSUME NEW kind \in Kinds
  PROVE  /\ IsFloat(kind) => kind \in FloatingKinds
         /\ ~IsFloat(kind) => kind \in IntegerKinds
BY DEF Kinds, IsFloat

(* A value is finite, infinite or no number at all.                        *)
LEMMA ValueClasses ==
  ASSUME NEW kind \in Kinds, NEW x \in Values(kind)
  PROVE  \/ /\ Value(kind, x).class = "finite" /\ Value(kind, x).halves \in Int
            /\ Value(kind, x) = Finite(Value(kind, x).halves)
            /\ IsFloat(kind) => /\ Magnitude(x.halves) <= kind.largest
                                /\ Representable(Magnitude(x.halves), kind.precision)
         \/ IsFloat(kind) /\ x.class = "infinite"
         \/ IsFloat(kind) /\ x.class = "nan"
<1>1. CASE IsFloat(kind)
  <2>1. Value(kind, x) = x
    BY <1>1 DEF Value
  <2>2. CASE x \in {NaN, Infinite(TRUE), Infinite(FALSE)}
    BY <1>1, <2>2 DEF NaN, Infinite
  <2>3. CASE \E v \in Int : /\ x = Finite(v) /\ Magnitude(v) <= kind.largest
                            /\ Representable(Magnitude(v), kind.precision)
    <3>1. PICK v \in Int : /\ x = Finite(v) /\ Magnitude(v) <= kind.largest
                           /\ Representable(Magnitude(v), kind.precision)
      BY <2>3
    <3>2. x.class = "finite" /\ x.halves = v
      BY <3>1 DEF Finite
    <3> QED BY <2>1, <3>1, <3>2
  <2> QED BY <1>1, <2>2, <2>3, KindIsEither, FloatsOfAKind
<1>2. CASE ~IsFloat(kind)
  <2>1. Reads(kind, x) \in Int
    BY <1>2, KindIsEither, ValueFacts, NumberedFacts
  <2>2. Value(kind, x) = Finite(2 * Reads(kind, x))
    BY <1>2 DEF Value
  <2> QED BY <1>2, <2>1, <2>2 DEF Finite
<1> QED BY <1>1, <1>2

(* numberCast to an integer kind.                                          *)
KeepsInteger(value, to, r) ==
  /\ r.status = "ok" <=> /\ value.class = "finite" /\ value.halves % 2 = 0
                         /\ Holds(to, value.halves \div 2)
  /\ r.status = "ok" => /\ r.payload \in Values(to)
                        /\ 2 * Reads(to, r.payload) = value.halves

LEMMA Halving ==
  ASSUME NEW v \in Int, v % 2 = 0
  PROVE  v \div 2 \in Int /\ 2 * (v \div 2) = v
OBVIOUS

LEMMA HeldIsNumbered ==
  ASSUME NEW kind \in IntegerKinds, NEW i \in Int
  PROVE  Holds(kind, i) <=> i \in Numbered(kind)
BY KindFacts DEF Holds, Numbered

LEMMA IntegerIsKept ==
  ASSUME NEW from \in IntegerKinds, NEW to \in IntegerKinds, NEW x \in Values(from)
  PROVE  KeepsInteger(Value(from, x), to, CastIntegerToInteger(from, x, to))
<1> DEFINE i == Reads(from, x)
           r == CastIntegerToInteger(from, x, to)
<1>1. i \in Numbered(from) /\ AsRaw(i) = x /\ i \in Int
      /\ (from.signed => i = AsSigned(x)) /\ (~from.signed => i = x)
  BY ValueFacts, NumberedFacts
<1>2. /\ NumberKindMin(to) \in Int /\ NumberKindMax(to) \in Nat /\ NumberKindMin(to) <= 0
      /\ ~to.signed => NumberKindMin(to) = 0
      /\ to.signed \in BOOLEAN /\ from.signed \in BOOLEAN
  BY KindFacts
<1>3. i >= 0 => x = i
  BY <1>1, NumberedFacts, Canonical
<1>4. ~from.signed => i >= 0
  BY <1>1, NumberedFacts, WordFacts
<1>5. Value(from, x).class = "finite" /\ Value(from, x).halves = 2 * i
  BY KindFacts DEF Value, Finite
<1>6. (2 * i) % 2 = 0 /\ (2 * i) \div 2 = i
  BY <1>1
<1> DEFINE negative == from.signed /\ AsSigned(x) < 0
           refused == \/ negative /\ (~to.signed \/ AsSigned(x) < NumberKindMin(to))
                      \/ ~negative /\ x > NumberKindMax(to)
<1>7. r = IF refused THEN Refused("out of range") ELSE Ok(x)
  BY DEF CastIntegerToInteger
<1> HIDE DEF i, r
<1>8. refused <=> ~Holds(to, i)
  <2>1. CASE i < 0
    <3>1. negative /\ AsSigned(x) = i
      BY <1>1, <1>2, <1>4, <2>1
    <3> QED BY <1>1, <1>2, <2>1, <3>1 DEF Holds
  <2>2. CASE i >= 0
    <3>1. ~negative /\ x = i
      BY <1>1, <1>2, <1>3, <2>2
    <3> QED BY <1>1, <1>2, <2>2, <3>1 DEF Holds
  <2>3. i < 0 \/ i >= 0
    BY <1>1
  <2> HIDE DEF refused
  <2> QED BY <2>1, <2>2, <2>3
<1> HIDE DEF negative, refused
<1>9. CASE Holds(to, i)
  <2>1. r.status = "ok" /\ r.payload = x
    BY <1>7, <1>8, <1>9 DEF Ok
  <2>2. x \in Values(to) /\ Reads(to, x) = i
    BY <1>1, <1>9, HeldIsNumbered, NumberedFacts
  <2> QED BY <1>5, <1>6, <1>9, <2>1, <2>2 DEF KeepsInteger, r
<1>10. CASE ~Holds(to, i)
  <2>1. r.status # "ok"
    BY <1>7, <1>8, <1>10 DEF Refused
  <2> QED BY <1>5, <1>6, <1>10, <2>1 DEF KeepsInteger, r
<1> QED BY <1>9, <1>10

LEMMA WholeFloatIsKept ==
  ASSUME NEW from \in FloatingKinds, NEW to \in IntegerKinds, NEW x \in Values(from)
  PROVE  KeepsInteger(x, to, CastFloatToInteger(x, to))
<1> DEFINE r == CastFloatToInteger(x, to)
<1>1. Value(from, x) = x /\ from \in Kinds
  BY FloatKinds DEF Value, Kinds
<1>2. CASE x.class \in {"infinite", "nan"}
  <2>1. x.class # "finite"
    BY <1>2
  <2>2. r.status # "ok"
    BY <1>2, <2>1 DEF CastFloatToInteger, FloatInside, Refused
  <2> QED BY <2>1, <2>2 DEF KeepsInteger
<1>3. CASE x.class = "finite" /\ x.halves \in Int /\ x.halves % 2 # 0
  <2>1. r.status # "ok"
    BY <1>3 DEF CastFloatToInteger, Refused
  <2> QED BY <1>3, <2>1 DEF KeepsInteger
<1>4. CASE x.class = "finite" /\ x.halves \in Int /\ x.halves % 2 = 0
  <2> DEFINE j == x.halves \div 2
  <2>1. j \in Int /\ 2 * j = x.halves
    BY <1>4, Halving
  <2>2. r = IF FloatInside(x, to) THEN Ok(AsRaw(j)) ELSE Refused("out of range")
    BY <1>4 DEF CastFloatToInteger
  <2> HIDE DEF j, r
  <2>3. FloatInside(x, to) <=> Holds(to, j)
    BY <1>4, <2>1, KindFacts DEF FloatInside, Holds
  <2>4. CASE Holds(to, j)
    <3>1. r.status = "ok" /\ r.payload = AsRaw(j)
      BY <2>2, <2>3, <2>4 DEF Ok
    <3>2. AsRaw(j) \in Values(to) /\ Reads(to, AsRaw(j)) = j
      BY <2>1, <2>4, HeldIsNumbered, NumberedFacts
    <3> QED BY <1>4, <2>1, <2>4, <3>1, <3>2 DEF KeepsInteger, r, j
  <2>5. CASE ~Holds(to, j)
    <3>1. r.status # "ok"
      BY <2>2, <2>3, <2>5 DEF Refused
    <3> QED BY <2>5, <3>1 DEF KeepsInteger, r, j
  <2> QED BY <2>4, <2>5
<1> QED BY <1>1, <1>2, <1>3, <1>4, ValueClasses

(* numberCast to a float kind.                                             *)
KeepsFloat(from, x, to, r) ==
  LET value == Value(from, x)
  IN  /\ value.class # "finite" => r.status = "ok" /\ r.payload = value
      /\ value.class = "finite" /\ (IsFloat(from) \/ to = F64) =>
           IF r.status = "ok" THEN IsNearest(to, value.halves, r.payload)
                              ELSE Magnitude(value.halves) > to.largest
      /\ value.class = "finite" /\ ~IsFloat(from) /\ to # F64 => r.status = "ok"

LEMMA FloatIsRounded ==
  ASSUME NEW from \in FloatingKinds, NEW to \in FloatingKinds, NEW x \in Values(from)
  PROVE  KeepsFloat(from, x, to, CastToFloat(from, x, to))
<1> DEFINE rounded == RoundFloat(to, x)
           r == CastToFloat(from, x, to)
<1>1. Value(from, x) = x /\ from \in Kinds /\ IsFloat(from)
  BY FloatKinds DEF Value, Kinds
<1>2. r = IF rounded.class = "infinite" /\ x.class # "infinite" THEN Refused("out of range")
          ELSE Ok(rounded)
  BY <1>1 DEF CastToFloat, NumberToDouble
<1>3. CASE x.class \in {"infinite", "nan"}
  <2>1. rounded = x /\ x.class # "finite"
    BY <1>3 DEF RoundFloat
  <2> HIDE DEF r, rounded
  <2>2. r = Ok(rounded)
    BY <1>2, <2>1
  <2>3. r.status = "ok" /\ r.payload = x
    BY <2>1, <2>2 DEF Ok
  <2> QED BY <1>1, <2>1, <2>3 DEF KeepsFloat, r
<1>4. CASE /\ x.class = "finite" /\ x.halves \in Int /\ x = Finite(x.halves)
           /\ Magnitude(x.halves) <= from.largest
  <2> DEFINE v == x.halves
  <2>1. Magnitude(v) < Bound(to.precision)
    <3>1. from.largest \in Nat /\ from.largest < Bound(to.precision) /\ Magnitude(v) \in Nat
          /\ Bound(to.precision) \in Nat
      BY <1>4, FloatKinds, Precisions, MagnitudeFacts
    <3> QED BY <1>4, <3>1
  <2> HIDE DEF r, rounded
  <2>2. CASE rounded.class = "infinite" /\ Magnitude(v) > to.largest
    <3>1. r.status # "ok"
      BY <1>2, <1>4, <2>2 DEF Refused
    <3> QED BY <1>1, <1>4, <2>2, <3>1 DEF KeepsFloat, r
  <2>3. CASE rounded.class = "finite" /\ IsNearest(to, v, rounded)
    <3>1. r.status = "ok" /\ r.payload = rounded
      BY <1>2, <2>3 DEF Ok
    <3> QED BY <1>1, <1>4, <2>3, <3>1 DEF KeepsFloat, r
  <2>4. RoundFloat(to, Finite(v)) = rounded
    BY <1>4 DEF rounded
  <2> QED BY <1>4, <2>1, <2>2, <2>3, <2>4, RoundingIsNearest
<1> QED BY <1>1, <1>3, <1>4, ValueClasses

(* An integer in halves is at most twice a word, which every float kind    *)
(* can represent, so neither conversion leaves the range.                  *)
LEMMA IntegerIsRounded ==
  ASSUME NEW from \in IntegerKinds, NEW to \in FloatingKinds, NEW x \in Values(from)
  PROVE  KeepsFloat(from, x, to, CastToFloat(from, x, to))
<1> DEFINE v == 2 * Reads(from, x)
           converted == RoundFloat(F64, Finite(v))
           rounded == RoundFloat(to, converted)
           r == CastToFloat(from, x, to)
           top == 2 * Word
<1>1. ~IsFloat(from) /\ F64 \in FloatingKinds /\ Value(from, x) = Finite(v)
      /\ Finite(v).class = "finite" /\ Finite(v).halves = v
  BY KindFacts DEF FloatingKinds, Value, Finite
<1>2. r = IF rounded.class = "infinite" /\ converted.class # "infinite"
            THEN Refused("out of range") ELSE Ok(rounded)
  BY <1>1 DEF CastToFloat, NumberToDouble
<1>3. v \in Int /\ Magnitude(v) <= top /\ top \in Nat
  <2> DEFINE i == Reads(from, x)
  <2>1. i \in Numbered(from)
    BY ValueFacts
  <2>2. i \in Int /\ Magnitude(i) <= Word /\ Word \in Nat
    <3>1. i \in -Half..Half - 1 \/ i \in 0..Word - 1
      BY <2>1, NumberedFacts, KindFacts
    <3> HIDE DEF i
    <3> QED BY <3>1, WordFacts DEF Magnitude
  <2> HIDE DEF i
  <2>3. 2 * i \in Int /\ Magnitude(2 * i) <= 2 * Word
    BY <2>2 DEF Magnitude
  <2> QED BY <2>2, <2>3 DEF i
<1> HIDE DEF v, converted, rounded, r
<1>4. ASSUME NEW kind \in FloatingKinds
      PROVE  /\ kind.precision \in 1..WordBits /\ Bound(kind.precision) \in Nat
             /\ kind.largest \in Nat /\ top <= kind.largest /\ kind.largest < Bound(kind.precision)
             /\ Representable(top, kind.precision)
  <2>1. /\ kind.precision \in 1..WordBits /\ Bound(kind.precision) \in Nat
        /\ kind.largest \in Nat /\ top <= kind.largest /\ kind.largest < Bound(kind.precision)
    BY FloatKinds, Precisions
  <2>2. WordBits \in Nat /\ WordBits + 1 \in 0..MaxExponent /\ WordBits + 1 \in 1..MaxPower
        /\ (WordBits + 1) - 1 = WordBits
    BY NumbersAssumption DEF MaxPower
  <2>3. Power[WordBits + 1] = top
    BY <2>2, PowerRange DEF Word
  <2>4. 1 < Power[kind.precision]
    BY <2>1, Precisions
  <2>5. top = 1 * Power[WordBits + 1]
    BY <1>3, <2>3
  <2>6. Representable(top, kind.precision)
    BY <2>2, <2>4, <2>5 DEF Representable
  <2> QED BY <2>1, <2>6
<1> HIDE DEF top
<1>5. Magnitude(v) \in Nat /\ Magnitude(v) <= F64.largest /\ Magnitude(v) < Bound(F64.precision)
      /\ ~(Magnitude(v) > F64.largest)
  BY <1>1, <1>3, <1>4, MagnitudeFacts
<1>6. /\ converted.class = "finite" /\ converted = Finite(converted.halves)
      /\ converted.halves \in Int /\ IsNearest(F64, v, converted)
      /\ \A y \in Nat : Representable(y, F64.precision) /\ Magnitude(v) <= y
                         => Magnitude(converted.halves) <= y
  BY <1>1, <1>3, <1>5, RoundingIsNearest DEF converted
<1>7. Magnitude(converted.halves) <= top
  BY <1>1, <1>3, <1>4, <1>6
<1>8. Magnitude(converted.halves) \in Nat /\ Magnitude(converted.halves) < Bound(to.precision)
      /\ ~(Magnitude(converted.halves) > to.largest)
  BY <1>3, <1>4, <1>6, <1>7, MagnitudeFacts
<1>9. rounded.class = "finite"
  BY <1>6, <1>8, RoundingIsNearest DEF rounded
<1>10. r.status = "ok" /\ r.payload = rounded
  BY <1>2, <1>9 DEF Ok
<1>11. to = F64 => rounded = converted
  <2> SUFFICES ASSUME to = F64 PROVE rounded = converted
    OBVIOUS
  <2> DEFINE c == converted.halves
             p == F64.precision
  <2>1. converted \in Values(F64) /\ converted \notin {NaN, Infinite(TRUE), Infinite(FALSE)}
    BY <1>6 DEF IsNearest, NaN, Infinite
  <2>2. PICK y \in Int : converted = Finite(y) /\ Representable(Magnitude(y), p)
    BY <1>1, <2>1, FloatsOfAKind
  <2>3. y = c
    BY <2>2 DEF Finite
  <2>4. NearestEven(Magnitude(c), p) = Magnitude(c)
    BY <1>1, <1>4, <1>8, <2>2, <2>3, RepresentableIsKept
  <2>5. NearestEven(c, p) = c
    <3> HIDE DEF c
    <3>1. c \in Int
      BY <2>3
    <3> QED BY <2>4, <3>1, SignIsKept DEF Magnitude
  <2>6. rounded = Finite(c)
    BY <1>6, <1>8, <2>5 DEF rounded, RoundFloat
  <2> QED BY <1>6, <2>6
<1>12. r = CastToFloat(from, x, to)
  BY DEF r
<1> QED BY <1>1, <1>6, <1>10, <1>11, <1>12 DEF KeepsFloat

(* arrayPosition: the item with that number, in an array that has it.      *)
LEMMA PositionIsTheNumber ==
  ASSUME NEW kind \in Kinds, NEW x \in Values(kind), NEW size \in Nat
  PROVE  LET r == ArrayPosition(kind, x, size)
         IN  /\ r.status = "ok" <=> \E i \in 0..size - 1 : Value(kind, x) = Finite(2 * i)
             /\ r.status = "ok" => Value(kind, x) = Finite(2 * r.payload)
<1> DEFINE r == ArrayPosition(kind, x, size)
           value == Value(kind, x)
<1>1. Ok(x).status = "ok" /\ Ok(x).payload = x
      /\ Refused("not whole").status # "ok" /\ Refused("out of bounds").status # "ok"
  BY DEF Ok, Refused
<1>2. CASE IsFloat(kind) /\ x.class \in {"infinite", "nan"}
  <2>1. r.status # "ok"
    BY <1>1, <1>2 DEF ArrayPosition
  <2>2. \A i : value # Finite(2 * i)
    <3>1. value.class # "finite"
      BY <1>2 DEF Value
    <3> QED BY <3>1 DEF Finite
  <2> QED BY <2>1, <2>2
<1>3. CASE IsFloat(kind) /\ x.class = "finite" /\ x.halves \in Int /\ value = Finite(x.halves)
  <2> DEFINE v == x.halves
             i == v \div 2
  <2>1. \A j : value = Finite(2 * j) <=> v = 2 * j
    BY <1>3 DEF Finite
  <2>2. CASE v % 2 # 0
    <3>1. r.status # "ok"
      BY <1>1, <1>3, <2>2 DEF ArrayPosition
    <3>2. \A j \in 0..size - 1 : v # 2 * j
      BY <1>3, <2>2
    <3>3. \A j \in 0..size - 1 : value # Finite(2 * j)
      BY <2>1, <3>2
    <3> QED BY <3>1, <3>3
  <2>3. CASE v % 2 = 0
    <3>1. i \in Int /\ 2 * i = v
      BY <1>3, <2>3, Halving
    <3>2. r = IF v < 0 \/ v >= 2 * size THEN Refused("out of bounds") ELSE Ok(i)
      BY <1>3, <2>3 DEF ArrayPosition
    <3> HIDE DEF i, v, r, value
    <3>3. CASE i \in 0..size - 1
      <4>1. ~(v < 0 \/ v >= 2 * size)
        BY <3>1, <3>3
      <4>2. r.status = "ok" /\ r.payload = i
        BY <3>2, <4>1 DEF Ok
      <4> QED BY <2>1, <3>1, <3>3, <4>2 DEF r, value
    <3>4. CASE i \notin 0..size - 1
      <4>1. v < 0 \/ v >= 2 * size
        BY <3>1, <3>4
      <4>2. r.status # "ok"
        BY <1>1, <3>2, <4>1
      <4>3. \A j \in 0..size - 1 : v # 2 * j
        BY <3>1, <3>4
      <4> QED BY <2>1, <4>2, <4>3 DEF r, value
    <3> QED BY <3>3, <3>4
  <2> QED BY <2>2, <2>3
<1>4. CASE ~IsFloat(kind)
  <2> DEFINE i == Reads(kind, x)
  <2>1. kind \in IntegerKinds /\ kind.signed \in BOOLEAN
    BY <1>4, KindIsEither, KindFacts
  <2>2. i \in Numbered(kind) /\ AsRaw(i) = x /\ i \in Int
        /\ (kind.signed => i = AsSigned(x)) /\ (~kind.signed => i = x)
    BY <2>1, ValueFacts, NumberedFacts
  <2>3. \A j : value = Finite(2 * j) <=> 2 * i = 2 * j
    BY <1>4 DEF Value, Finite
  <2> DEFINE outside == \/ kind.signed /\ (AsSigned(x) < 0 \/ AsSigned(x) >= size)
                        \/ ~kind.signed /\ x >= size
  <2>4. r = IF outside THEN Refused("out of bounds") ELSE Ok(x)
    BY <1>4 DEF ArrayPosition
  <2> HIDE DEF i, r, value
  <2>5. i >= 0 => x = i
    BY <2>1, <2>2, NumberedFacts, Canonical
  <2>6. ~kind.signed => i >= 0
    BY <2>1, <2>2, NumberedFacts, WordFacts
  <2>7. outside <=> i \notin 0..size - 1
    BY <2>1, <2>2, <2>6
  <2> HIDE DEF outside
  <2>8. CASE i \in 0..size - 1
    <3>1. ~outside /\ i >= 0
      BY <2>2, <2>7, <2>8
    <3>2. x = i /\ r = Ok(x)
      BY <2>4, <2>5, <3>1
    <3>3. r.status = "ok" /\ r.payload = i
      BY <1>1, <3>2
    <3> QED BY <2>3, <2>8, <3>3 DEF r, value
  <2>9. CASE i \notin 0..size - 1
    <3>1. r.status # "ok"
      BY <1>1, <2>4, <2>7, <2>9
    <3>2. \A j \in 0..size - 1 : 2 * i # 2 * j
      BY <2>2, <2>9
    <3> QED BY <2>3, <3>1, <3>2 DEF r, value
  <2> QED BY <2>8, <2>9
<1> QED BY <1>2, <1>3, <1>4, ValueClasses DEF Value

----------------------------------------------------------------------------
(* The theorem on casts.                                                   *)

LEMMA CastIsKept == Cast => CastsKeepTheNumber'
<1> SUFFICES ASSUME Cast PROVE CastsKeepTheNumber'
  OBVIOUS
<1>1. PICK from \in Kinds, to \in Kinds : \E x \in Values(from) :
        /\ request' = [name |-> "cast", kind |-> from, a |-> x, to |-> to]
        /\ reply' = NumberCast(from, x, to)
  BY DEF Cast
<1>2. PICK x \in Values(from) :
        /\ request' = [name |-> "cast", kind |-> from, a |-> x, to |-> to]
        /\ reply' = NumberCast(from, x, to)
  BY <1>1
<1>3. /\ request'.name = "cast" /\ request'.kind = from /\ request'.a = x /\ request'.to = to
      /\ Asked("cast")' /\ ~Asked("index")'
  BY <1>2 DEF Asked
<1>4. IF IsFloat(to) THEN KeepsFloat(from, x, to, reply') ELSE KeepsInteger(Value(from, x), to, reply')
  <2>1. ~IsFloat(to) /\ IsFloat(from) => KeepsInteger(Value(from, x), to, reply')
    BY <1>2, KindIsEither, WholeFloatIsKept DEF NumberCast, Value
  <2>2. ~IsFloat(to) /\ ~IsFloat(from) => KeepsInteger(Value(from, x), to, reply')
    BY <1>2, KindIsEither, IntegerIsKept DEF NumberCast
  <2>3. IsFloat(to) => KeepsFloat(from, x, to, reply')
    BY <1>2, KindIsEither, FloatIsRounded, IntegerIsRounded DEF NumberCast
  <2> QED BY <2>1, <2>2, <2>3
<1>5. CASE ~IsFloat(to)
  BY <1>3, <1>4, <1>5 DEF CastsKeepTheNumber, KeepsInteger, Value, Succeeded
<1>6. CASE IsFloat(to)
  <2> DEFINE value == Value(from, x)
  <2>1. KeepsFloat(from, x, to, reply')
    BY <1>4, <1>6
  <2>2. value = IF IsFloat(from) THEN x ELSE Finite(2 * Reads(from, x))
    BY DEF Value
  <2>3. CASE value.class # "finite"
    BY <1>3, <1>6, <2>1, <2>2, <2>3 DEF CastsKeepTheNumber, KeepsFloat, Succeeded
  <2>4. CASE value.class = "finite" /\ (IsFloat(from) \/ to = F64)
    BY <1>3, <1>6, <2>1, <2>2, <2>4 DEF CastsKeepTheNumber, KeepsFloat, Succeeded
  <2>5. CASE value.class = "finite" /\ ~(IsFloat(from) \/ to = F64)
    BY <1>3, <1>6, <2>1, <2>2, <2>5 DEF CastsKeepTheNumber, KeepsFloat, Succeeded
  <2> QED BY <2>3, <2>4, <2>5
<1> QED BY <1>5, <1>6

LEMMA IndexIsKept == Index => CastsKeepTheNumber'
<1> SUFFICES ASSUME Index PROVE CastsKeepTheNumber'
  OBVIOUS
<1>1. PICK kind \in Kinds, size \in 0..MaxCount : \E x \in Values(kind) :
        /\ request' = [name |-> "index", kind |-> kind, a |-> x, count |-> size]
        /\ reply' = ArrayPosition(kind, x, size)
  BY DEF Index
<1>2. PICK x \in Values(kind) :
        /\ request' = [name |-> "index", kind |-> kind, a |-> x, count |-> size]
        /\ reply' = ArrayPosition(kind, x, size)
  BY <1>1
<1>3. size \in Nat
  BY NumbersAssumption
<1>4. /\ request'.name = "index" /\ request'.kind = kind /\ request'.a = x
      /\ request'.count = size /\ Asked("index")' /\ ~Asked("cast")'
  BY <1>2 DEF Asked
<1>5. /\ reply'.status = "ok" <=> \E i \in 0..size - 1 : Value(kind, x) = Finite(2 * i)
      /\ reply'.status = "ok" => Value(kind, x) = Finite(2 * reply'.payload)
  BY <1>2, <1>3, PositionIsTheNumber
<1> QED BY <1>4, <1>5 DEF CastsKeepTheNumber, Value, Succeeded

(* numberCast and arrayPosition give the same number again exactly when    *)
(* the target has it, and a float is the nearest of its kind, whatever the *)
(* widths of payload and kinds and the precisions of the floats.           *)
THEOREM CastsKeep == NumbersSpec => []CastsKeepTheNumber
<1>1. NumbersInit => CastsKeepTheNumber
  BY DEF NumbersInit, Idle, CastsKeepTheNumber, Asked
<1>2. CastsKeepTheNumber /\ [NumbersNext]_computing => CastsKeepTheNumber'
  <2> SUFFICES ASSUME CastsKeepTheNumber, [NumbersNext]_computing
               PROVE  CastsKeepTheNumber'
    OBVIOUS
  <2>1. CASE Cast
    BY <2>1, CastIsKept
  <2>2. CASE Index
    BY <2>2, IndexIsKept
  <2>3. CASE Binary \/ Negate \/ Compare
    <3>1. Binary => request'.name = "binary"
      <4>1. ASSUME NEW kind, NEW op, NEW x, NEW y,
                   request' = [name |-> "binary", kind |-> kind, op |-> op, a |-> x, b |-> y]
            PROVE  request'.name = "binary"
        BY <4>1
      <4> QED BY <4>1 DEF Binary
    <3>2. Negate => request'.name = "negate"
      BY DEF Negate
    <3>3. Compare => request'.name = "compare"
      BY DEF Compare
    <3> QED BY <2>3, <3>1, <3>2, <3>3 DEF CastsKeepTheNumber, Asked
  <2>4. CASE UNCHANGED computing
    <3>1. request' = request /\ reply' = reply
      BY <2>4 DEF computing
    <3> QED BY <3>1 DEF CastsKeepTheNumber, Asked, Succeeded
  <2> QED BY <2>1, <2>2, <2>3, <2>4 DEF NumbersNext
<1> QED BY <1>1, <1>2, PTL DEF NumbersSpec
=============================================================================
