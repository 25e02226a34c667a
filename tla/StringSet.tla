------------------------------ MODULE StringSet ------------------------------
(***************************************************************************)
(* The string set of src/src/stringset.c: the compiler's pool of names and *)
(* literals and the type checker's and parser's sets of names.  Its bytes  *)
(* lie in one arena that moves when it grows, so an entry knows its string *)
(* by offset and length, and offsets are what the compiler writes into a   *)
(* unit's constants.                                                       *)
(***************************************************************************)
EXTENDS Integers, Sequences, FiniteSets

CONSTANTS
  StringKey,    \* what is interned
  Bytes,        \* the bytes of a string
  Hash,         \* hashBytes of a string
  MinCapacity,  \* STRINGSET_INITIAL_CAPACITY, 8 in the code
  MaxCapacity,  \* bound: slots of the largest set
  NoOffset      \* no offset

Byte == UNION {{Bytes[s][i] : i \in DOMAIN Bytes[s]} : s \in StringKey}

(* What is interned differs in its bytes.                                  *)
ASSUME StringSetAssumption ==
  /\ \A s \in StringKey : Bytes[s] \in Seq(Byte)
  /\ \A s, u \in StringKey : Bytes[s] = Bytes[u] => s = u
  /\ Hash \in [StringKey -> Nat]
  /\ MinCapacity \in Nat /\ MinCapacity >= 2
  /\ MaxCapacity \in Nat
  /\ NoOffset \notin Nat

VARIABLES
  entries,  \* set->entries, from 0
  count,    \* set->count
  arena,    \* set->arena
  given     \* the offset that stringSetIntern returned for a string, or NoOffset

vars == <<entries, count, arena, given>>

Free == [offset |-> 0, length |-> -1, hash |-> 0]
Fresh(n) == [i \in 0..n - 1 |-> Free]
Capacity(t) == Cardinality(DOMAIN t)

Init ==
  /\ entries = Fresh(0)
  /\ count = 0
  /\ arena = << >>
  /\ given = [s \in StringKey |-> NoOffset]

(* An offset and a length name these bytes of the arena.                   *)
BytesAt(offset, length) == SubSeq(arena, offset + 1, offset + length)

Try(t, h, i) == (h + i) % Capacity(t)

(* Mutant: equal hashes are taken for equal strings.                       *)
MatchesByHash(e, b, h) ==
  e.length = -1 \/ e.hash = h

Matches(e, b, h) ==
  \/ e.length = -1
  \/ e.length = Len(b) /\ e.hash = h /\ BytesAt(e.offset, e.length) = b

(* findSlot: the entry with these bytes or the first free one.             *)
FindSlot(t, b, h) ==
  LET stops == {i \in 0..Capacity(t) - 1 : Matches(t[Try(t, h, i)], b, h)}
  IN  Try(t, h, CHOOSE i \in stops : \A j \in stops : i <= j)

(* Mutant: the entries keep their indices.                                 *)
AdjustInPlace(t, n) == [j \in 0..n - 1 |-> IF j \in DOMAIN t THEN t[j] ELSE Free]

(* adjustCapacity: what is in the set moves to a larger array.             *)
AdjustCapacity(t, n) ==
  LET r[i \in 0..Capacity(t)] ==
        IF i = 0 THEN Fresh(n)
        ELSE LET e == t[i - 1]
             IN  IF e.length = -1 THEN r[i - 1]
                 ELSE [r[i - 1] EXCEPT ![FindSlot(r[i - 1], BytesAt(e.offset, e.length), e.hash)] = e]
  IN  r[Capacity(t)]

(* Mutant: grows only when the slots run out.                              *)
FullLate == count + 1 > Capacity(entries)

(* count + 1 > (int)(capacity * STRINGSET_MAX_LOAD)                        *)
Full == count + 1 > (3 * Capacity(entries)) \div 4

Grown ==
  IF ~Full THEN entries
  ELSE AdjustCapacity(entries, IF Capacity(entries) < MinCapacity
                                 THEN MinCapacity ELSE 2 * Capacity(entries))

Contains(s) ==
  count > 0 /\ entries[FindSlot(entries, Bytes[s], Hash[s])].length # -1

(* stringSetIntern, which grows before it looks.                           *)
Intern(s) ==
  LET t == Grown
      i == FindSlot(t, Bytes[s], Hash[s])
  IN  /\ Capacity(t) <= MaxCapacity
      /\ IF t[i].length # -1
           THEN entries' = t /\ given' = [given EXCEPT ![s] = t[i].offset]
                /\ UNCHANGED <<count, arena>>
           ELSE /\ arena' = arena \o Bytes[s]
                /\ entries' = [t EXCEPT ![i] = [offset |-> Len(arena), length |-> Len(Bytes[s]),
                                                hash |-> Hash[s]]]
                /\ count' = count + 1
                /\ given' = [given EXCEPT ![s] = Len(arena)]

Next == \E s \in StringKey : Intern(s)

Spec == Init /\ [][Next]_vars

----------------------------------------------------------------------------
(* Properties.                                                             *)

TypeOK ==
  /\ \A i \in DOMAIN entries :
       entries[i] = Free \/ entries[i].offset + entries[i].length <= Len(arena)
  /\ count = Cardinality({i \in DOMAIN entries : entries[i].length # -1})
  /\ Capacity(entries) > 0 => count < Capacity(entries)
  /\ given \in [StringKey -> Nat \cup {NoOffset}]

(* A constant that a unit wrote down long ago still reads as its string:   *)
(* neither growth of the arena nor of the slots disturbs an offset; and    *)
(* stringSetContains knows what was added and nothing else.                *)
OffsetsKeepTheirString ==
  \A s \in StringKey :
    IF given[s] = NoOffset THEN ~Contains(s)
    ELSE /\ Contains(s)
         /\ given[s] + Len(Bytes[s]) <= Len(arena)
         /\ BytesAt(given[s], Len(Bytes[s])) = Bytes[s]

(* The same string always gets the same offset.                            *)
OffsetsAreStable == [][\A s \in StringKey : given[s] # NoOffset => given'[s] = given[s]]_vars
=============================================================================
