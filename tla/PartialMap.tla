----------------------------- MODULE PartialMap -----------------------------
(***************************************************************************)
(* What hashtable.h promises its callers: a finite map from interned       *)
(* strings to values, whose answers depend on nothing but the calls made.  *)
(***************************************************************************)
CONSTANTS Key, Value, Missing

VARIABLES map, answer

Init == map = [k \in {} |-> Missing] /\ answer = Missing

(* tableGet: the value last set, or that there is none. *)
Get(k) ==
  /\ answer' = IF k \in DOMAIN map THEN map[k] ELSE Missing
  /\ map' = map

(* tableSet answers whether the key is new. *)
Set(k, v) ==
  /\ map' = [x \in DOMAIN map \cup {k} |-> IF x = k THEN v ELSE map[x]]
  /\ answer' = (k \notin DOMAIN map)

(* tableDelete answers whether there was anything to delete. *)
Delete(k) ==
  /\ map' = [x \in DOMAIN map \ {k} |-> map[x]]
  /\ answer' = (k \in DOMAIN map)

(* tableRemoveWhite: the keys that are not marked go, all at once. *)
Retain(S) ==
  /\ map' = [x \in DOMAIN map \cap S |-> map[x]]
  /\ answer' = answer

Next ==
  \/ \E k \in Key : Get(k) \/ Delete(k) \/ \E v \in Value : Set(k, v)
  \/ \E S \in SUBSET Key : Retain(S)

Spec == Init /\ [][Next]_<<map, answer>>
=============================================================================
