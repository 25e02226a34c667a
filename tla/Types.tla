------------------------------- MODULE Types -------------------------------
(***************************************************************************)
(* The types of the checker (src/src/types.c): when two are equal, when a  *)
(* value of one may stand for another, and how generic parameters are      *)
(* bound and replaced.  NULL, a type or a part of one that is not known,   *)
(* is Unknown.  Opaque parameters are compared by address in the code: the *)
(* owner of a parameter tells two of them apart here.                      *)
(***************************************************************************)
EXTENDS Integers, Sequences, FiniteSets, FiniteSetsExt

CONSTANTS
  FloatKinds,    \* the number kinds that are floats
  Declarations   \* struct name -> [params, fields, methods, statics, traits, reliable]

Unknown == [k |-> "unknown"]
Unit == [k |-> "unit"]
Bool == [k |-> "bool"]
Str == [k |-> "string"]
SelfType == [k |-> "self"]
Number(kind) == [k |-> "number", kind |-> kind]
AnyNumber == Number("number")
AnyInteger == Number("integer")
List(e) == [k |-> "list", element |-> e]
Array(e, n) == [k |-> "array", element |-> e, length |-> n]
Fn(ps, r) == [k |-> "fn", params |-> ps, ret |-> r]
Struct(name, args) == [k |-> "struct", name |-> name, args |-> args]
Trait(name) == [k |-> "trait", name |-> name]
(* A parameter of a native's signature has no name; one that a program     *)
(* declared is opaque inside its own declaration.                          *)
Param(i) == [k |-> "param", index |-> i, named |-> FALSE, opaque |-> FALSE, owner |-> "native"]
Declared(i, owner) == [Param(i) EXCEPT !.named = TRUE, !.owner = owner]
Opaque(i, owner) == [Declared(i, owner) EXCEPT !.opaque = TRUE]

IsNumber(t) == t.k = "number"
IsFloat(t) == t.kind \in FloatKinds

(* ARRAY_LENGTH_IS_PLACEHOLDER and ARRAY_LENGTH_SLOT.                      *)
IsPlaceholder(n) == n < 0
Slot(n) == 4 - 1 - n

(* The parts of a type, in the order the code walks them.                  *)
Parts(t) ==
  CASE t.k \in {"list", "array"} -> <<t.element>>
    [] t.k = "struct" -> t.args
    [] t.k = "fn" -> Append(t.params, t.ret)
    [] OTHER -> << >>

WithParts(t, ps) ==
  CASE t.k \in {"list", "array"} -> [t EXCEPT !.element = ps[1]]
    [] t.k = "struct" -> [t EXCEPT !.args = ps]
    [] t.k = "fn" -> [t EXCEPT !.params = SubSeq(ps, 1, Len(ps) - 1), !.ret = ps[Len(ps)]]
    [] OTHER -> t

(* typesEqual.  Both kinds of "any number" share one number kind.          *)
KindOf(t) == IF t \in {AnyNumber, AnyInteger} THEN "count" ELSE t.kind

RECURSIVE Equal(_, _)
Equal(a, b) ==
  \/ a = b
  \/ /\ a.k = b.k
     /\ a.k # "unknown"
     /\ CASE a.k = "number" -> KindOf(a) = KindOf(b)
          [] a.k \in {"struct", "trait"} -> a.name = b.name
          [] a.k = "array" -> a.length = b.length
          [] a.k = "param" -> ~a.opaque /\ ~b.opaque /\ a.index = b.index
          [] OTHER -> TRUE
     /\ LET as == Parts(a)
            bs == Parts(b)
        IN  Len(as) = Len(bs) /\ \A i \in 1..Len(as) : Equal(as[i], bs[i])

(* typeAccepts: whether a value of type actual can be given where expected *)
(* is wanted.  Unknown accepts and is accepted by anything.                *)
AcceptsNumber(expected, actual) ==
  /\ IsNumber(actual)
  /\ expected = AnyInteger => KindOf(actual) # "count" /\ ~IsFloat(actual)

RECURSIVE Accepts(_, _)
AcceptsParts(expected, actual) ==
  LET es == Parts(expected)
      as == Parts(actual)
  IN  Len(es) = Len(as) /\ \A i \in 1..Len(es) : Accepts(es[i], as[i])

Accepts(expected, actual) ==
  CASE Unknown \in {expected, actual} -> TRUE
    [] expected \in {AnyNumber, AnyInteger} -> AcceptsNumber(expected, actual)
    [] expected.k = actual.k /\ expected.k \in {"list", "fn"} -> AcceptsParts(expected, actual)
    [] expected.k = actual.k /\ expected.k = "array" ->
         /\ IsPlaceholder(expected.length) \/ expected.length = actual.length
         /\ AcceptsParts(expected, actual)
    [] expected.k = actual.k /\ expected.k = "struct" /\ expected.args # << >> ->
         expected.name = actual.name /\ AcceptsParts(expected, actual)
    [] OTHER -> Equal(expected, actual)

(* typeIsFullyKnown                                                        *)
RECURSIVE IsFullyKnown(_)
IsFullyKnown(t) ==
  /\ t # Unknown
  /\ LET ps == Parts(t) IN \A i \in 1..Len(ps) : IsFullyKnown(ps[i])

(* typeGenericParamCount: how many slots the type needs.                   *)
RECURSIVE ParamCount(_)
ParamCount(t) ==
  LET ps == Parts(t)
      own == CASE t.k = "param" -> IF t.opaque THEN 0 ELSE t.index + 1
               [] t.k = "array" -> IF IsPlaceholder(t.length) THEN Slot(t.length) + 1 ELSE 0
               [] OTHER -> 0
  IN  Max({own} \cup {ParamCount(ps[i]) : i \in 1..Len(ps)})

(* typeFindGenericParam: the first parameter with this index, or Unknown.  *)
RECURSIVE FindParam(_, _)
FindParam(t, i) ==
  IF t.k = "param" THEN IF t.index = i THEN t ELSE Unknown
  ELSE LET ps == Parts(t)
           found == {j \in 1..Len(ps) : FindParam(ps[j], i) # Unknown}
       IN  IF found = {} THEN Unknown ELSE FindParam(ps[Min(found)], i)

(* Slots 0..n-1 that generic parameters are bound in; Unknown is empty.    *)
NoBindings(n) == [i \in 0..n - 1 |-> Unknown]

(* Mutant: the last value that fills a parameter wins.                     *)
BindSlotAgain(bindings, i, t) ==
  IF i \in DOMAIN bindings THEN [bindings EXCEPT ![i] = t] ELSE bindings

(* A slot that is filled stays as it is.                                   *)
BindSlot(bindings, i, t) ==
  IF i \in DOMAIN bindings /\ bindings[i] = Unknown THEN [bindings EXCEPT ![i] = t] ELSE bindings

(* typeBindGenericParams: lines pattern up with actual and fills slots.    *)
Alike(pattern, actual) ==
  /\ pattern.k = actual.k
  /\ pattern.k = "struct" => pattern.name = actual.name
  /\ Len(Parts(pattern)) = Len(Parts(actual))

RECURSIVE Bind(_, _, _), BindParts(_, _, _, _)
Bind(pattern, actual, bindings) ==
  CASE Unknown \in {pattern, actual} -> bindings
    [] pattern.k = "param" ->
         IF pattern.opaque THEN bindings ELSE BindSlot(bindings, pattern.index, actual)
    [] ~Alike(pattern, actual) -> bindings
    [] pattern.k = "array" ->
         LET inside == BindParts(Parts(pattern), Parts(actual), 1, bindings)
         IN  IF IsPlaceholder(pattern.length) /\ ~IsPlaceholder(actual.length)
               THEN BindSlot(inside, Slot(pattern.length), Array(Unknown, actual.length))
               ELSE inside
    [] OTHER -> BindParts(Parts(pattern), Parts(actual), 1, bindings)

BindParts(ps, as, i, bindings) ==
  IF i > Len(ps) THEN bindings ELSE BindParts(ps, as, i + 1, Bind(ps[i], as[i], bindings))

(* substituteGenericParams                                                 *)
RECURSIVE Replace(_, _, _)
Replace(t, bindings, erase) ==
  LET bound(i) == IF i \in DOMAIN bindings THEN bindings[i] ELSE Unknown
      ps == Parts(t)
      inside == WithParts(t, [i \in 1..Len(ps) |-> Replace(ps[i], bindings, erase)])
  IN  CASE t.k = "param" -> IF t.opaque THEN t
                            ELSE IF bound(t.index) # Unknown THEN bound(t.index)
                            ELSE IF erase THEN Unknown ELSE t
        [] t.k = "array" -> IF IsPlaceholder(t.length) /\ bound(Slot(t.length)) # Unknown
                              THEN [inside EXCEPT !.length = bound(Slot(t.length)).length]
                              ELSE inside
        [] OTHER -> inside

Substitute(t, bindings) == Replace(t, bindings, FALSE)
Erase(t) == Replace(t, NoBindings(0), TRUE)

(* typeSubstituteSelf: struct types are taken as they are.                 *)
RECURSIVE SubstituteSelf(_, _)
SubstituteSelf(t, concrete) ==
  IF t = SelfType THEN concrete
  ELSE IF t.k \in {"fn", "list", "array"}
    THEN LET ps == Parts(t)
         IN  WithParts(t, [i \in 1..Len(ps) |-> SubstituteSelf(ps[i], concrete)])
  ELSE t

(* Members belong to the declaration; an instance sees them with its type  *)
(* arguments in place of the declaration's parameters (instantiateMember). *)
Arguments(t) == [i \in 0..Len(t.args) - 1 |-> t.args[i + 1]]
Member(t, members, name) ==
  IF t.k # "struct" \/ name \notin DOMAIN members THEN Unknown
  ELSE Substitute(members[name].type, Arguments(t))

FieldLookup(t, name) == Member(t, Declarations[t.name].fields, name)
MethodLookup(t, name) == Member(t, Declarations[t.name].methods, name)
StaticLookup(t, name) == Member(t, Declarations[t.name].statics, name)
IsGeneric(name) == Declarations[name].params > 0
ImplementsTrait(t, trait) == t.k = "struct" /\ trait \in Declarations[t.name].traits
=============================================================================
