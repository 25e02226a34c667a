------------------------------ MODULE HashTable ------------------------------
(***************************************************************************)
(* The open-addressing table of src/src/hashtable.c: linear probing from   *)
(* hash % capacity, tombstones left by tableDelete and reused by tableSet, *)
(* a count that includes them, and growth by rehashing at 3/4 full.        *)
(*                                                                         *)
(* adjustCapacity first allocates the new array, and that allocation may   *)
(* run a collection, which calls tableRemoveWhite on this very table when  *)
(* it is gc->strings.  So a tableSet that grows is two steps here, and the *)
(* keys the collection found unmarked are deleted in between; every other  *)
(* call is one step.                                                       *)
(***************************************************************************)
EXTENDS Integers, FiniteSets

CONSTANTS
  Key,         \* interned strings
  Value,       \* what they are mapped to
  Hash,        \* key->hash
  MinCapacity, \* GROW_CAPACITY of an empty table, 8 in the code
  MaxCapacity, \* bound: capacity of the largest table
  Missing      \* the answer that there is no such key

ASSUME HashTableAssumption ==
  /\ Hash \in [Key -> Nat]
  /\ MinCapacity \in Nat /\ MinCapacity >= 2
  /\ MaxCapacity \in Nat
  /\ Missing \notin Key /\ Missing \notin [key : Key, value : Value]

VARIABLES
  entries,  \* table->entries; DOMAIN entries = 0..table->capacity - 1
  count,    \* table->count
  setting,  \* the tableSet that waits for its new array
  answer    \* what the last call returned

vars == <<entries, count, setting, answer>>

(* The two kinds of entries without a key: never used (the value is nil)   *)
(* and deleted (the value is true).                                        *)
Empty == [used |-> FALSE, key |-> Missing]
Tombstone == [used |-> TRUE, key |-> Missing]
Entry(k, v) == [used |-> TRUE, key |-> k, value |-> v]

Fresh(n) == [i \in 0..n - 1 |-> Empty]
Capacity(t) == Cardinality(DOMAIN t)
Present(t) == {t[i].key : i \in DOMAIN t} \ {Missing}

Idle == setting = Missing

Init ==
  /\ entries = Fresh(0)
  /\ count = 0
  /\ setting = Missing
  /\ answer = Missing

(* The i-th index that findEntry tries for k.                              *)
Try(t, k, i) == (Hash[k] + i) % Capacity(t)

(* Where the loop of findEntry can return: k itself, or an empty entry.    *)
Stops(t, k) == {i \in 0..Capacity(t) - 1 : t[Try(t, k, i)] = Empty \/ t[Try(t, k, i)].key = k}
Stop(t, k) == CHOOSE i \in Stops(t, k) : \A j \in Stops(t, k) : i <= j

(* Mutant: takes the first tombstone although the key is further on.       *)
FindEntryEager(t, k) ==
  LET last == Stop(t, k)
      graves == {i \in 0..last : t[Try(t, k, i)] = Tombstone}
  IN  IF graves # {}
        THEN Try(t, k, CHOOSE i \in graves : \A j \in graves : i <= j)
        ELSE Try(t, k, last)

(* findEntry: the entry of k; without one the first tombstone on the way,  *)
(* or the empty entry at its end.                                          *)
FindEntry(t, k) ==
  LET last == Stop(t, k)
      graves == {i \in 0..last : t[Try(t, k, i)] = Tombstone}
  IN  IF t[Try(t, k, last)] = Empty /\ graves # {}
        THEN Try(t, k, CHOOSE i \in graves : \A j \in graves : i <= j)
        ELSE Try(t, k, last)

(* tableGet, and tableDelete's and tableSet's test for the key.            *)
Found(t, k) == count > 0 /\ t[FindEntry(t, k)].key = k

GrowCapacity(n) == IF n < MinCapacity THEN MinCapacity ELSE n * 2

(* Mutant: grows only when nothing is empty any more.                      *)
FullLate == count + 1 > Capacity(entries)

(* count + 1 > capacity * TABLE_MAX_LOAD                                   *)
Full == 4 * (count + 1) > 3 * Capacity(entries)

(* Mutant: the entries keep their indices.                                 *)
RehashInPlace(t, n) == [j \in 0..n - 1 |->
  IF j \in DOMAIN t /\ t[j].key # Missing THEN t[j] ELSE Empty]

(* adjustCapacity: the live entries, in the order of the old array.        *)
Rehash(t, n) ==
  LET r[i \in 0..Capacity(t)] ==
        IF i = 0 THEN Fresh(n)
        ELSE IF t[i - 1].key = Missing THEN r[i - 1]
        ELSE [r[i - 1] EXCEPT ![FindEntry(r[i - 1], t[i - 1].key)] = t[i - 1]]
  IN  r[Capacity(t)]

----------------------------------------------------------------------------
Get(k) ==
  /\ Idle
  /\ answer' = IF Found(entries, k) THEN entries[FindEntry(entries, k)].value ELSE Missing
  /\ UNCHANGED <<entries, count, setting>>

(* Mutant: a new key counts even when it takes over a tombstone.           *)
StoreCountsGraves(t, n, k, v) ==
  LET i == FindEntry(t, k)
  IN  /\ entries' = [t EXCEPT ![i] = Entry(k, v)]
      /\ count' = IF t[i].key = Missing THEN n + 1 ELSE n
      /\ answer' = (t[i].key = Missing)

(* The end of tableSet over the array t with n counted entries.            *)
Store(t, n, k, v) ==
  LET i == FindEntry(t, k)
  IN  /\ entries' = [t EXCEPT ![i] = Entry(k, v)]
      /\ count' = IF t[i] = Empty THEN n + 1 ELSE n
      /\ answer' = (t[i].key = Missing)

Set(k, v) ==
  /\ Idle /\ ~Full
  /\ Store(entries, count, k, v)
  /\ setting' = setting

(* tableSet that has to grow: the allocation of the new array.             *)
BeginGrow(k, v) ==
  /\ Idle /\ Full
  /\ GrowCapacity(Capacity(entries)) <= MaxCapacity
  /\ setting' = [key |-> k, value |-> v]
  /\ UNCHANGED <<entries, count, answer>>

(* The rest of adjustCapacity and of tableSet.                             *)
FinishGrow ==
  /\ ~Idle
  /\ LET t == Rehash(entries, GrowCapacity(Capacity(entries)))
     IN  Store(t, Cardinality(Present(entries)), setting.key, setting.value)
  /\ setting' = Missing

Buried(t, S) == [i \in DOMAIN t |-> IF t[i].key \in S THEN Tombstone ELSE t[i]]

(* Mutant: deleting empties the entry.                                     *)
DeleteEmpties(k) ==
  /\ Idle
  /\ answer' = Found(entries, k)
  /\ entries' = IF Found(entries, k)
                  THEN [entries EXCEPT ![FindEntry(entries, k)] = Empty] ELSE entries
  /\ UNCHANGED <<count, setting>>

(* tableDelete: a tombstone, which stays counted.                          *)
Delete(k) ==
  /\ Idle
  /\ answer' = Found(entries, k)
  /\ entries' = IF Found(entries, k)
                  THEN [entries EXCEPT ![FindEntry(entries, k)] = Tombstone] ELSE entries
  /\ UNCHANGED <<count, setting>>

(* tableRemoveWhite deletes what the collector did not mark, also while a  *)
(* tableSet waits; the key that is being set is on the value stack then.   *)
RemoveWhite(white) ==
  /\ white # {} /\ white \subseteq Present(entries)
  /\ ~Idle => setting.key \notin white
  /\ entries' = Buried(entries, white)
  /\ UNCHANGED <<count, setting, answer>>

Next ==
  \/ \E k \in Key : Get(k) \/ Delete(k) \/ \E v \in Value : Set(k, v) \/ BeginGrow(k, v)
  \/ FinishGrow
  \/ \E white \in SUBSET Key : RemoveWhite(white)

Spec == Init /\ [][Next]_vars

----------------------------------------------------------------------------
(* Properties.                                                             *)

(* The load counts tombstones and stays at 3/4 of the capacity.            *)
TypeOK ==
  /\ DOMAIN entries = 0..Capacity(entries) - 1
  /\ \A i \in DOMAIN entries :
       entries[i] \in {Empty, Tombstone} \cup {Entry(k, v) : k \in Key, v \in Value}
  /\ count = Cardinality({i \in DOMAIN entries : entries[i].used})
  /\ 4 * count <= 3 * Capacity(entries)

(* findEntry and tableFindString have no other way out of their loops than *)
(* an empty entry: whatever was set and deleted before, one is left.       *)
ProbingEnds == Capacity(entries) > 0 => \A k \in Key : Stops(entries, k) # {}

(* A key is in the table once, where findEntry finds it, so a later set    *)
(* or delete cannot leave an older value behind.                           *)
OneEntryPerKey ==
  \A i \in DOMAIN entries : entries[i].key # Missing => FindEntry(entries, entries[i].key) = i

(* The map that a table stands for.                                        *)
MapOf(t) == [k \in Present(t) |-> t[CHOOSE i \in DOMAIN t : t[i].key = k].value]
Abstract == INSTANCE PartialMap WITH map <- MapOf(entries)

(* Whatever the hashes, the growth and the tombstones, the table answers   *)
(* as the map it stands for.                                               *)
ImplementsPartialMap == Abstract!Spec
=============================================================================
