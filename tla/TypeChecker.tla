---------------------------- MODULE TypeChecker ----------------------------
(***************************************************************************)
(* The checking of expressions and declarations (src/src/typecheck.c), and *)
(* what the accepted ones do when they run.  A program is entered one      *)
(* declaration at a time; the first error refuses it.  An accepted one     *)
(* runs as the checker left it: checking gives literals their number kind, *)
(* makes an array literal a list, and picks string conversions.            *)
(*                                                                         *)
(* Numbers are known by their kind, and by their value while they are      *)
(* literals.  Annotations are types already; functions have an expression  *)
(* for a body.                                                             *)
(***************************************************************************)
EXTENDS Types, SequencesExt

CONSTANTS
  KindMax, KindMin,  \* number kind -> the largest and smallest whole number it holds exactly
  LargestLiteral,    \* the largest value of any number kind
  NativeSignatures,  \* name -> type of a native function
  Enterable          \* Seq of sets: what may be entered first, second, ...  (bound: its length)

VARIABLES
  tenv,     \* the checker's names: Seq of scopes, each a Seq of [name, type]
  venv,     \* name -> value
  entered,  \* how many were entered, and the last one: [count, last]
  verdict,  \* "accepted", "refused" (an error was reported), "crashed" (the checker died) or
            \* "wrong" (the program ran and went wrong)
  guessed   \* whether something was accepted without being compared

vars == <<tenv, venv, entered, verdict, guessed>>

None == [k |-> "none"]
Plain(v) == [k |-> "plain", value |-> v]
Num(kind, v) == [k |-> "num", kind |-> kind, value |-> v]
Lit(t) == [k |-> "lit", type |-> t]
Group(e) == [k |-> "group", e |-> e]
Neg(e) == [k |-> "neg", e |-> e]
Not(e) == [k |-> "not", e |-> e]
Bin(op, l, r) == [k |-> "bin", op |-> op, l |-> l, r |-> r]
Logical(op, l, r) == [k |-> op, l |-> l, r |-> r]  \* "and", "nullish"
Cast(e, kind) == [k |-> "cast", e |-> e, kind |-> kind]
Interp(e) == [k |-> "interp", e |-> e, conversion |-> "none"]
Var(x) == [k |-> "var", name |-> x]
Assign(x, e) == [k |-> "assign", name |-> x, e |-> e]
Call(f, args) == [k |-> "call", callee |-> f, args |-> args]
Lambda(xs, ts, r, e) == [k |-> "lambda", names |-> xs, types |-> ts, ret |-> r, body |-> e]
Items(es) == [k |-> "array", items |-> es, fixed |-> FALSE]
IndexGet(o, i) == [k |-> "index", o |-> o, i |-> i]
IndexSet(o, i, e) == [k |-> "indexset", o |-> o, i |-> i, e |-> e]
StructInit(name, fs) == [k |-> "init", name |-> name, fields |-> fs]
Get(o, f) == [k |-> "get", o |-> o, name |-> f]
Set(o, f, e) == [k |-> "set", o |-> o, name |-> f, e |-> e]
If(c, t, e) == [k |-> "if", c |-> c, then |-> t, else |-> e]
Block(x, i, e) == [k |-> "block", name |-> x, init |-> i, value |-> e]

----------------------------------------------------------------------------
(* Literal arithmetic.  A leaf is a number literal or a negated plain one. *)

Arithmetic == {"+", "-", "*"}
IsSigned(kind) == KindMin[kind] < 0
IsLeaf(n) == n.k \in {"plain", "num"} \/ (n.k = "neg" /\ n.e.k = "plain")

RECURSIVE IsLiteralArithmetic(_, _), Leaves(_)
IsLiteralArithmetic(n, kind) ==
  CASE IsLeaf(n) -> TRUE
    [] n.k = "group" -> IsLiteralArithmetic(n.e, kind)
    [] n.k = "neg" -> IsSigned(kind) /\ IsLiteralArithmetic(n.e, kind)
    [] n.k = "bin" -> /\ n.op \in Arithmetic
                      /\ IsLiteralArithmetic(n.l, kind) /\ IsLiteralArithmetic(n.r, kind)
    [] OTHER -> FALSE

Leaves(n) ==
  IF IsLeaf(n) THEN {n}
  ELSE CASE n.k \in {"group", "neg"} -> Leaves(n.e)
         [] n.k = "bin" -> Leaves(n.l) \cup Leaves(n.r)

PlainFits(v, kind) == v <= LargestLiteral /\ v <= KindMax[kind]
NegatedFits(v, kind) == IsSigned(kind) /\ v <= LargestLiteral /\ v <= -KindMin[kind]

LeafFits(n, kind) ==
  CASE n.k = "plain" -> PlainFits(n.value, kind)
    [] n.k = "num" -> n.kind = kind
    [] n.k = "neg" -> NegatedFits(n.e.value, kind)

LiteralArithmeticFits(n, kind) ==
  IsLiteralArithmetic(n, kind) /\ \A leaf \in Leaves(n) : LeafFits(leaf, kind)

IsPlainArithmetic(n) ==
  IsLiteralArithmetic(n, "i64") /\ \A leaf \in Leaves(n) : leaf.k # "num"

(* typchkSetPlainIntegerKind and typchkFoldNegatedPlainInteger on each leaf. *)
RECURSIVE SetLiteralKind(_, _)
SetLiteralKind(n, kind) ==
  CASE n.k = "plain" -> Num(kind, n.value)
    [] n.k = "neg" /\ n.e.k = "plain" -> Num(kind, -n.e.value)
    [] n.k \in {"group", "neg"} -> [n EXCEPT !.e = SetLiteralKind(@, kind)]
    [] n.k = "bin" -> [n EXCEPT !.l = SetLiteralKind(@, kind), !.r = SetLiteralKind(@, kind)]
    [] OTHER -> n

(* typchkVisitValueSources: the value itself, or what it comes from.       *)
RECURSIVE SetSources(_, _), HasPlainSource(_)
SetSources(n, kind) ==
  CASE LiteralArithmeticFits(n, kind) -> SetLiteralKind(n, kind)
    [] n.k = "group" -> [n EXCEPT !.e = SetSources(@, kind)]
    [] n.k = "if" -> [n EXCEPT !.then = SetSources(@, kind), !.else = SetSources(@, kind)]
    [] n.k = "block" -> [n EXCEPT !.value = SetSources(@, kind)]
    [] OTHER -> n

HasPlainSource(n) ==
  CASE IsPlainArithmetic(n) -> TRUE
    [] n.k = "group" -> HasPlainSource(n.e)
    [] n.k = "if" -> HasPlainSource(n.then) \/ HasPlainSource(n.else)
    [] n.k = "block" -> HasPlainSource(n.value)
    [] OTHER -> FALSE

IsConcreteNumber(t) == IsNumber(t) /\ KindOf(t) # "count"
Expecting(n, t) == IF IsConcreteNumber(t) THEN SetSources(n, t.kind) ELSE n
Misfits(n, t) == IsConcreteNumber(t) /\ HasPlainSource(n)

----------------------------------------------------------------------------
(* Checking.  A result: whether no error was reported, the type found or   *)
(* Unknown, whether the check passed (the code's return value), the node   *)
(* as the checker leaves it, whether it guessed, and whether the checker   *)
(* died on a type that is not there.                                       *)

Passed(t, n, guess) ==
  [ok |-> TRUE, t |-> t, passed |-> TRUE, n |-> n, guess |-> guess, crash |-> FALSE]
Found(t, n, guess) == [Passed(t, n, guess \/ ~IsFullyKnown(t)) EXCEPT !.passed = t # Unknown]
Fail == [Passed(Unknown, None, TRUE) EXCEPT !.ok = FALSE, !.passed = FALSE]
Failed(rs) == [Fail EXCEPT !.crash = \E i \in DOMAIN rs : rs[i].crash]

(* bindingArrayLookup and typchkTypeEnvLookup: the last binding of a scope *)
(* counts, but one that holds no type lets the outer scopes answer.        *)
InScope(scope, x) ==
  LET at == {i \in DOMAIN scope : scope[i].name = x}
  IN  IF at = {} THEN Unknown ELSE scope[Max(at)].type

Lookup(env, x) ==
  LET at == {i \in DOMAIN env : InScope(env[i], x) # Unknown}
  IN  IF at # {} THEN InScope(env[Max(at)], x)
      ELSE IF x \in DOMAIN NativeSignatures THEN NativeSignatures[x] ELSE Unknown

Declare(env, x, t) ==
  [env EXCEPT ![Len(env)] = Append(@, [name |-> x, type |-> t])]

RECURSIVE DeclareAll(_, _, _)
DeclareAll(env, xs, ts) ==
  IF xs = << >> THEN env ELSE DeclareAll(Declare(env, Head(xs), Head(ts)), Tail(xs), Tail(ts))

(* typchkHasDeclaredGenericParams                                          *)
HasDeclaredParams(t) ==
  \E i \in 0..ParamCount(t) - 1 : FindParam(t, i) # Unknown /\ FindParam(t, i).named

(* typchkFillGenericFunctionValue, typchkCheckGenericFunctionValue         *)
FillFunction(generic, expected) ==
  LET empty == NoBindings(ParamCount(generic))
  IN  Substitute(generic, IF Len(generic.params) = Len(expected.params)
                            THEN BindParts(Parts(generic), Parts(expected), 1, empty) ELSE empty)

FunctionValueAs(n, t, expected, guess) ==
  IF Accepts(expected, t) THEN Passed(Unknown, n, guess \/ ~IsFullyKnown(t)) ELSE Fail
CheckFunctionValue(n, generic, expected, guess) ==
  FunctionValueAs(n, Erase(FillFunction(generic, expected)), expected, guess)

(* chooseStringConversion                                                  *)
Conversion(t) ==
  CASE t = Str -> "string"
    [] IsNumber(t) -> "number"
    [] t = Bool -> "bool"
    [] ImplementsTrait(t, "Display") -> "display"
    [] OTHER -> "none"

(* What an expression is checked against when its type is to be found.     *)
ToBeFound == [k |-> "anything"]

(* A type of Unknown, a check that passes whatever the type is.            *)
RECURSIVE Judge(_, _, _), CheckAll(_, _, _, _), InferAll(_, _, _)
Infer(env, n) == Judge(env, n, ToBeFound)
Check(env, n, t) == Judge(env, n, t)

CheckAll(env, ns, ts, i) ==
  IF i > Len(ns) THEN << >> ELSE <<Check(env, ns[i], ts[i])>> \o CheckAll(env, ns, ts, i + 1)
InferAll(env, ns, i) ==
  IF i > Len(ns) THEN << >> ELSE <<Infer(env, ns[i])>> \o InferAll(env, ns, i + 1)

AllOk(rs) == \A i \in DOMAIN rs : rs[i].ok
AllPassed(rs) == \A i \in DOMAIN rs : rs[i].passed
AnyGuess(rs) == \E i \in DOMAIN rs : rs[i].guess
Nodes(rs) == [i \in DOMAIN rs |-> rs[i].n]

----------------------------------------------------------------------------
(* The rules.  A rule XOf is what typchkInferX goes on to do with the      *)
(* results of checking the parts.                                          *)

(* typchkPairNumberType: a plain integer next to another number.           *)
PairAs(env, n, other) == IF Misfits(n, other) THEN Fail ELSE Infer(env, n)
Pair(env, r, other) ==
  IF ~IsNumber(other) \/ ~IsNumber(r.t) \/ Equal(r.t, other) \/ ~HasPlainSource(r.n) THEN r
  ELSE PairAs(env, Expecting(r.n, other), other)

(* Both sides of an operator, and both branches of an if.                  *)
PairedWith(env, l, r) == IF ~l.ok THEN <<l, r>> ELSE <<l, Pair(env, r, l.t)>>
Paired(env, l, r) == PairedWith(env, Pair(env, l, r.t), r)

BinaryType(op, lt, rt) ==
  CASE op \in {"==", "!="} ->
         IF Equal(lt, rt) /\ (lt.k = "struct" => ImplementsTrait(lt, "Eq")) THEN Bool ELSE None
    [] op = "<" -> IF IsNumber(lt) /\ Equal(lt, rt) THEN Bool ELSE None
    [] op = "+" /\ lt = Str /\ rt = Str -> Str
    [] OTHER -> IF IsNumber(lt) /\ Equal(lt, rt) THEN lt ELSE None

OperatorOf(n, ps, t) ==
  IF ~AllOk(ps) \/ t = None THEN Failed(ps)
  ELSE Found(t, [n EXCEPT !.l = ps[1].n, !.r = ps[2].n], AnyGuess(ps))
PairedOf(n, ps) == OperatorOf(n, ps, BinaryType(n.op, ps[1].t, ps[2].t))
BinaryOf(env, n, l, r) ==
  CASE ~AllOk(<<l, r>>) -> Failed(<<l, r>>)
    [] Unknown \in {l.t, r.t} -> Found(Unknown, [n EXCEPT !.l = l.n, !.r = r.n], TRUE)
    [] OTHER -> PairedOf(n, Paired(env, l, r))
InferBinary(env, n) == BinaryOf(env, n, Infer(env, n.l), Infer(env, n.r))

(* `-literal` stays plain, but the smallest i64 is folded at once.         *)
NegationOf(r) ==
  CASE ~r.ok \/ r.t = Unknown -> r
    [] ~IsNumber(r.t) \/ ~IsSigned(r.t.kind) -> Fail
    [] OTHER -> [r EXCEPT !.n = Neg(r.n)]
InferNegation(env, n) ==
  CASE n.e.k # "plain" -> NegationOf(Infer(env, n.e))
    [] ~NegatedFits(n.e.value, "i64") -> Fail
    [] OTHER -> Found(Number("i64"),
                      IF n.e.value > KindMax["i64"] THEN Num("i64", -n.e.value) ELSE n, FALSE)

BranchesOf(n, c, ps) ==
  IF ~AllOk(ps) \/ ~Equal(ps[1].t, ps[2].t) THEN Failed(ps)
  ELSE Found(ps[1].t, [n EXCEPT !.c = c.n, !.then = ps[1].n, !.else = ps[2].n], c.guess \/ AnyGuess(ps))
IfOf(env, n, c, t, e) ==
  CASE ~AllOk(<<c, t, e>>) -> Failed(<<c, t, e>>)
    [] Unknown \in {t.t, e.t} -> Found(Unknown, [n EXCEPT !.c = c.n, !.then = t.n, !.else = e.n], TRUE)
    [] OTHER -> BranchesOf(n, c, Paired(env, t, e))
InferIf(env, n) ==
  IfOf(env, n, Check(env, n.c, Bool), Infer(env, n.then),
       IF n.else = None THEN Found(Unit, None, FALSE) ELSE Infer(env, n.else))

BlockOf(n, i, v) ==
  IF ~AllOk(<<i, v>>) THEN Failed(<<i, v>>)
  ELSE [v EXCEPT !.n = [n EXCEPT !.init = i.n, !.value = v.n], !.guess = @ \/ i.guess]
BlockIn(env, n, i) == BlockOf(n, i, Infer(Append(env, <<[name |-> n.name, type |-> i.t]>>), n.value))
InferBlock(env, n) == BlockIn(env, n, Infer(env, n.init))

(* The first item that is not plain integer arithmetic gives the type.     *)
FirstTyped(n) ==
  LET typed == {i \in DOMAIN n.items : ~IsPlainArithmetic(n.items[i])}
  IN  IF typed = {} THEN 1 ELSE Min(typed)

ArrayOf(n, first, rs) ==
  IF ~AllOk(rs) THEN Failed(rs)
  ELSE Found(IF AllPassed([rs EXCEPT ![first].passed = TRUE]) THEN Array(rs[first].t, Len(rs)) ELSE Unknown,
             [n EXCEPT !.items = Nodes(rs), !.fixed = TRUE], AnyGuess(rs))
ItemsLike(env, n, first, e) ==
  [i \in DOMAIN n.items |-> IF i = first THEN e ELSE Check(env, n.items[i], e.t)]
InferItems(env, n, first) == ArrayOf(n, first, ItemsLike(env, n, first, Infer(env, n.items[first])))
InferArray(env, n) == IF n.items = << >> THEN Fail ELSE InferItems(env, n, FirstTyped(n))

(* typchkCheckIndex and typchkCheckLiteralIndexInRange.                    *)
IsIndexable(t) == t.k \in {"list", "array"}
IndexOk(r, t) ==
  /\ IsNumber(r.t) /\ ~IsFloat(r.t)
  /\ (t.k = "array" /\ r.n.k = "plain") => r.n.value < t.length

IndexNode(n, o, i, e) ==
  IF n.k = "index" THEN [n EXCEPT !.o = o.n, !.i = i.n] ELSE [n EXCEPT !.o = o.n, !.i = i.n, !.e = e.n]
IndexOf(n, o, i, e) ==
  CASE ~AllOk(<<o, i, e>>) -> Failed(<<o, i, e>>)
    [] o.t = Unknown -> Found(Unknown, IndexNode(n, o, i, e), TRUE)
    [] ~IsIndexable(o.t) -> Fail
    [] i.t = Unknown -> Found(Unknown, IndexNode(n, o, i, e), TRUE)
    [] ~IndexOk(i, o.t) -> Fail
    [] OTHER -> Found(IF e.passed THEN o.t.element ELSE Unknown, IndexNode(n, o, i, e), AnyGuess(<<o, i, e>>))
IndexIn(env, n, o) ==
  IndexOf(n, o, Infer(env, n.i),
          IF n.k = "index" THEN Passed(Unknown, None, FALSE)
          ELSE Check(env, n.e, IF IsIndexable(o.t) THEN o.t.element ELSE Unknown))
InferIndex(env, n) == IndexIn(env, n, Infer(env, n.o))

(* A lambda without expected types needs its own; one with both keeps its  *)
(* own, which nothing compares with what is expected.                      *)
LambdaOf(n, expected, ts, target, b) ==
  LET differs == expected.k = "fn" /\ (\/ n.ret # Unknown /\ ~Accepts(expected.ret, n.ret)
                                       \/ \E i \in DOMAIN ts : ~Accepts(expected.params[i], ts[i]))
  IN  IF ~b.ok THEN Failed(<<b>>)
      ELSE Found(IF b.passed THEN Fn(ts, IF target # Unknown THEN target ELSE b.t) ELSE Unknown,
                 [n EXCEPT !.body = b.n],
                 b.guess \/ differs \/ \E i \in DOMAIN ts : ~IsFullyKnown(ts[i]))
LambdaBody(env, n, target) == IF target # Unknown THEN Check(env, n.body, target) ELSE Infer(env, n.body)
LambdaWith(env, n, expected, ts, target) ==
  LambdaOf(n, expected, ts, target,
           LambdaBody(DeclareAll(Append(env, << >>), n.names, ts), n, target))
CheckLambda(env, n, expected) ==
  CASE expected = Unknown ->
         IF Unknown \in {n.types[i] : i \in DOMAIN n.types} THEN Fail
         ELSE LambdaWith(env, n, expected, n.types, n.ret)
    [] expected.k # "fn" -> Fail
    [] Len(expected.params) # Len(n.names) -> Fail
    [] OTHER ->
         LambdaWith(env, n, expected,
           [i \in DOMAIN n.names |-> IF n.types[i] # Unknown THEN n.types[i] ELSE expected.params[i]],
           IF n.ret # Unknown THEN n.ret ELSE expected.ret)

----------------------------------------------------------------------------
(* Generic calls and literals of generic structs.                          *)

(* What an argument is when a type with open parameters is expected.  The  *)
(* code looks into the type that is known without asking whether there is  *)
(* one: a function for a parameter that is still open ends the checker.    *)
Filled(t, known) ==
  IF t.k = "fn" /\ known.k = "fn" /\ Len(t.params) = Len(known.params) /\ HasDeclaredParams(t)
    THEN Erase(FillFunction(t, known)) ELSE t
ArgumentAs(arg, known, r, t) ==
  IF r.ok /\ arg.k # "lambda" /\ t.k = "fn" /\ known = Unknown THEN [Fail EXCEPT !.crash = TRUE]
  ELSE [r EXCEPT !.t = Filled(t, known)]
ArgumentOf(env, arg, known, r) ==
  ArgumentAs(arg, known, r, IF arg.k = "var" /\ r.t = Unknown THEN Lookup(env, arg.name) ELSE r.t)
ArgumentType(env, arg, known) ==
  IF arg = Items(<< >>) /\ known.k = "list" THEN Passed(List(Unknown), arg, FALSE)
  ELSE ArgumentOf(env, arg, known, IF arg.k = "lambda" THEN Check(env, arg, known) ELSE Infer(env, arg))

(* typchkUnifyValue, without parameters left and with some.                *)
UnifyClosed(acc, r) ==
  [acc EXCEPT !.ok = @ /\ r.ok, !.crash = @ \/ r.crash, !.passed = @ /\ r.passed,
              !.nodes = Append(@, r.n), !.guess = @ \/ r.guess]
UnifyOpen(arg, acc, param, known, r) ==
  CASE ~r.ok \/ ~Accepts(known, r.t) ->
         [acc EXCEPT !.ok = FALSE, !.crash = @ \/ r.crash, !.nodes = Append(@, arg)]
    [] r.t = Unknown -> [acc EXCEPT !.saw = TRUE, !.guess = TRUE, !.nodes = Append(@, r.n)]
    [] OTHER -> [acc EXCEPT !.bindings = Bind(param, r.t, @), !.nodes = Append(@, r.n),
                            !.guess = @ \/ (r.guess /\ arg.k # "var") \/ ~IsFullyKnown(r.t)]

(* An array literal for a list is one.                                     *)
AsList(arg, param, r) ==
  IF arg.k = "array" /\ param.k = "list" /\ r.t.k = "array"
    THEN [r EXCEPT !.t = List(r.t.element), !.n.fixed = FALSE] ELSE r

UnifyKnown(env, arg, acc, param, known) ==
  UnifyOpen(arg, acc, param, known, AsList(arg, param, ArgumentType(env, arg, known)))
UnifyWith(env, arg, acc, param) ==
  IF ParamCount(param) = 0 THEN UnifyClosed(acc, Check(env, arg, param))
  ELSE UnifyKnown(env, arg, acc, param, Erase(param))
Unify(env, arg, pattern, acc) == UnifyWith(env, arg, acc, Substitute(pattern, acc.bindings))

RECURSIVE UnifyAll(_, _, _, _, _)
UnifyAll(env, args, patterns, i, acc) ==
  IF i > Len(args) \/ acc.crash THEN acc
  ELSE UnifyAll(env, args, patterns, i + 1, Unify(env, args[i], patterns[i], acc))

Unified(env, args, patterns, count) ==
  UnifyAll(env, args, patterns, 1,
           [ok |-> TRUE, crash |-> FALSE, passed |-> TRUE, nodes |-> << >>, guess |-> FALSE, saw |-> FALSE,
            bindings |-> NoBindings(count)])

Empty(bindings) == {i \in DOMAIN bindings : bindings[i] = Unknown}

(* typchkCheckGenericCall.  A named parameter that stays empty is reported. *)
GenericCallWith(n, fn, u, bindings) ==
  LET open == {i \in Empty(bindings) : FindParam(fn, i) # Unknown /\ FindParam(fn, i).named}
  IN  IF ~u.ok \/ (u.passed /\ ~u.saw /\ open # {}) THEN Failed(<<u>>)
      ELSE Found(IF u.passed THEN Erase(Substitute(fn.ret, bindings)) ELSE Unknown,
                 [n EXCEPT !.args = u.nodes], u.guess)
GenericCallOf(n, fn, expected, u) == GenericCallWith(n, fn, u, Bind(fn.ret, expected, u.bindings))
CheckGenericCall(env, n, fn, expected) ==
  GenericCallOf(n, fn, expected, Unified(env, n.args, fn.params, ParamCount(fn)))

(* typchkCheckCallAgainstFunctionType                                      *)
ArgumentsOf(n, fn, rs) ==
  IF ~AllOk(rs) THEN Failed(rs)
  ELSE Found(IF AllPassed(rs) THEN fn.ret ELSE Unknown, [n EXCEPT !.args = Nodes(rs)], AnyGuess(rs))
CheckCall(env, n, fn, expected) ==
  CASE fn.k # "fn" -> Fail
    [] Len(n.args) # Len(fn.params) -> Fail
    [] ParamCount(fn) > 0 -> CheckGenericCall(env, n, fn, expected)
    [] OTHER -> ArgumentsOf(n, fn, CheckAll(env, n.args, fn.params, 1))

CallOf(f, r) == IF ~r.ok THEN Failed(<<r>>) ELSE [r EXCEPT !.n.callee = f.n, !.guess = @ \/ f.guess]
UnknownCallOf(n, f, rs) ==
  IF AllOk(rs) THEN Found(Unknown, [n EXCEPT !.callee = f.n, !.args = Nodes(rs)], TRUE) ELSE Failed(rs)
CalleeOf(env, n, expected, f) ==
  CASE ~f.ok -> Failed(<<f>>)
    [] f.t = Unknown -> UnknownCallOf(n, f, InferAll(env, n.args, 1))
    [] OTHER -> CallOf(f, CheckCall(env, n, f.t, expected))
InferCall(env, n, expected) ==
  CalleeOf(env, n, expected,
           IF n.callee.k = "var" THEN Passed(Lookup(env, n.callee.name), n.callee, FALSE)
           ELSE Infer(env, n.callee))

FieldNames(n) == {n.fields[i].name : i \in DOMAIN n.fields}
FieldValues(n) == [i \in DOMAIN n.fields |-> n.fields[i].value]
WithValues(n, vs) == [n EXCEPT !.fields = [i \in DOMAIN @ |-> [@[i] EXCEPT !.value = vs[i]]]]

(* typchkInferGenericStructInit                                            *)
GenericInitOf(n, u) ==
  IF ~u.ok \/ (u.passed /\ ~u.saw /\ Empty(u.bindings) # {}) THEN Failed(<<u>>)
  ELSE Found(IF u.passed THEN Struct(n.name, [i \in 1..Cardinality(DOMAIN u.bindings) |-> u.bindings[i - 1]])
             ELSE Unknown,
             WithValues(n, u.nodes), u.guess)
InferGenericInit(env, n) ==
  LET d == Declarations[n.name]
  IN  IF ~(FieldNames(n) \subseteq DOMAIN d.fields) THEN Fail
      ELSE GenericInitOf(n, Unified(env, FieldValues(n),
                                    [i \in DOMAIN n.fields |-> d.fields[n.fields[i].name].type], d.params))

(* Each field against the field's type in t: typchkInferStructInit for a   *)
(* plain struct, typchkCheckGenericStructInit for an instance.             *)
FieldsOf(n, t, rs) ==
  IF ~(FieldNames(n) \subseteq DOMAIN Declarations[n.name].fields) \/ ~AllOk(rs) THEN Failed(rs)
  ELSE [Found(IF AllPassed(rs) THEN t ELSE Unknown, WithValues(n, Nodes(rs)), AnyGuess(rs))
          EXCEPT !.passed = AllPassed(rs)]
CheckFields(env, n, t) ==
  FieldsOf(n, t, CheckAll(env, FieldValues(n),
                          [i \in DOMAIN n.fields |-> FieldLookup(t, n.fields[i].name)], 1))

InferInit(env, n) ==
  CASE n.name \notin DOMAIN Declarations -> Fail
    [] IsGeneric(n.name) -> InferGenericInit(env, n)
    [] OTHER -> CheckFields(env, n, Struct(n.name, << >>))

(* typchkInferGet: a static method of a struct, or a field or method of a  *)
(* value; a private method only inside its own impl.                       *)
StaticGet(n, statics) ==
  IF n.name \in DOMAIN statics /\ statics[n.name].public THEN Found(statics[n.name].type, n, FALSE) ELSE Fail
MemberOf(n, o, field, method) ==
  CASE field # Unknown -> Found(field, [n EXCEPT !.o = o.n], o.guess)
    [] method # Unknown /\ Declarations[o.t.name].methods[n.name].public ->
         Found(method, [n EXCEPT !.o = o.n], o.guess)
    [] OTHER -> Fail
GetOf(n, o) ==
  CASE ~o.ok -> Failed(<<o>>)
    [] o.t = Unknown -> Found(Unknown, [n EXCEPT !.o = o.n], TRUE)
    [] o.t.k # "struct" -> Fail
    [] OTHER -> MemberOf(n, o, FieldLookup(o.t, n.name), MethodLookup(o.t, n.name))
InferGet(env, n) ==
  IF n.o.k = "var" /\ n.o.name \in DOMAIN Declarations /\ Lookup(env, n.o.name) = Unknown
    THEN StaticGet(n, Declarations[n.o.name].statics) ELSE GetOf(n, Infer(env, n.o))

SetOf(n, o, field, v) ==
  LET node == [n EXCEPT !.o = o.n, !.e = v.n]
  IN  CASE ~AllOk(<<o, v>>) -> Failed(<<o, v>>)
        [] o.t = Unknown -> Found(Unknown, node, TRUE)
        [] field = Unknown -> Fail
        [] OTHER -> Found(IF v.passed THEN field ELSE Unknown, node, o.guess \/ v.guess)
SetIn(env, n, o, field) ==
  SetOf(n, o, field, IF o.t.k = "struct" THEN Check(env, n.e, field) ELSE Infer(env, n.e))
FieldOf(t, name) == IF t.k = "struct" THEN FieldLookup(t, name) ELSE Unknown
SetField(env, n, o) == SetIn(env, n, o, FieldOf(o.t, n.name))
InferSet(env, n) == SetField(env, n, Infer(env, n.o))

(* A generic function as a value has no single type.                       *)
VariableOf(n, t) == Found(IF ParamCount(t) > 0 THEN Unknown ELSE t, n, FALSE)
InferVariable(env, n) == VariableOf(n, Lookup(env, n.name))

AssignOf(n, t, v) ==
  IF ~v.ok THEN Failed(<<v>>) ELSE Found(IF v.passed THEN t ELSE Unknown, [n EXCEPT !.e = v.n], v.guess)
AssignTo(env, n, t) == AssignOf(n, t, Check(env, n.e, t))
InferAssign(env, n) == AssignTo(env, n, Lookup(env, n.name))

(* The type of a ?? b is that of b, whatever a is: a guess.                *)
LogicalOf(n, l, r) ==
  LET node == [n EXCEPT !.l = l.n, !.r = r.n]
  IN  CASE ~AllOk(<<l, r>>) -> Failed(<<l, r>>)
        [] n.k = "nullish" -> Found(r.t, node, TRUE)
        [] OTHER -> Found(IF l.passed /\ r.passed THEN Bool ELSE Unknown, node, l.guess \/ r.guess)
InferLogical(env, n) ==
  IF n.k = "and" THEN LogicalOf(n, Check(env, n.l, Bool), Check(env, n.r, Bool))
  ELSE LogicalOf(n, Infer(env, n.l), Infer(env, n.r))

CastOf(n, r) ==
  CASE ~r.ok \/ r.t = Unknown -> r
    [] ~IsNumber(r.t) -> Fail
    [] OTHER -> Found(Number(n.kind), [n EXCEPT !.e = r.n], r.guess)

InterpOf(n, r) ==
  IF ~r.ok \/ Conversion(r.t) = "none" THEN Failed(<<r>>)
  ELSE Found(Str, [n EXCEPT !.e = r.n, !.conversion = Conversion(r.t)], r.guess)

GroupOf(r) == [r EXCEPT !.n = Group(r.n)]
NotOf(r) == IF r.t = Unknown THEN r ELSE Found(Bool, Not(r.n), r.guess)

(* typchkInfer                                                             *)
InferNode(env, n) ==
  CASE n.k = "plain" -> IF PlainFits(n.value, "i64") THEN Found(Number("i64"), n, FALSE) ELSE Fail
    [] n.k = "num" -> Found(Number(n.kind), n, FALSE)
    [] n.k = "lit" -> Found(n.type, n, FALSE)
    [] n.k = "group" -> GroupOf(Infer(env, n.e))
    [] n.k = "neg" -> InferNegation(env, n)
    [] n.k = "not" -> NotOf(Infer(env, n.e))
    [] n.k = "bin" -> InferBinary(env, n)
    [] n.k = "cast" -> CastOf(n, Infer(env, n.e))
    [] n.k = "interp" -> InterpOf(n, Infer(env, n.e))
    [] n.k = "var" -> InferVariable(env, n)
    [] n.k = "assign" -> InferAssign(env, n)
    [] n.k \in {"and", "nullish"} -> InferLogical(env, n)
    [] n.k = "call" -> InferCall(env, n, Unknown)
    [] n.k = "lambda" -> Check(env, n, Unknown)
    [] n.k = "array" -> InferArray(env, n)
    [] n.k \in {"index", "indexset"} -> InferIndex(env, n)
    [] n.k = "init" -> InferInit(env, n)
    [] n.k = "get" -> InferGet(env, n)
    [] n.k = "set" -> InferSet(env, n)
    [] n.k = "if" -> InferIf(env, n)
    [] n.k = "block" -> InferBlock(env, n)

(* An array literal against the list or array that is expected.            *)
ItemsOf(n, expected, rs) ==
  CASE ~AllOk(rs) -> Failed(rs)
    [] expected.k = "array" /\ Len(n.items) # expected.length -> Fail
    [] OTHER -> [Passed(Unknown, [n EXCEPT !.items = Nodes(rs), !.fixed = expected.k = "array"], AnyGuess(rs))
                   EXCEPT !.passed = AllPassed(rs)]
CheckItems(env, n, expected) ==
  IF ~IsIndexable(expected) THEN Fail
  ELSE ItemsOf(n, expected, CheckAll(env, n.items, [i \in DOMAIN n.items |-> expected.element], 1))

(* What has a type of its own, and is compared with the expected one.      *)
InferredOf(expected, r) ==
  CASE ~r.ok -> Failed(<<r>>)
    [] Unknown \in {r.t, expected} -> [r EXCEPT !.passed = TRUE]
    [] expected.k = "fn" /\ r.t.k = "fn" /\ HasDeclaredParams(r.t) ->
         CheckFunctionValue(r.n, r.t, expected, r.guess)
    [] OTHER -> IF Accepts(expected, r.t) THEN [r EXCEPT !.passed = TRUE] ELSE Fail
CheckInferred(env, n, expected) ==
  InferredOf(expected, IF n.k = "call" THEN InferCall(env, n, expected) ELSE Infer(env, n))

(* typchkCheckInto                                                         *)
CheckNode(env, n, expected, named) ==
  CASE Misfits(n, expected) -> Fail
    [] n.k = "lambda" -> CheckLambda(env, n, expected)
    [] n.k = "array" /\ expected # Unknown -> CheckItems(env, n, expected)
    [] named.k = "fn" /\ HasDeclaredParams(named) -> CheckFunctionValue(n, named, expected, FALSE)
    [] /\ n.k = "init" /\ expected.k = "struct" /\ expected.args # << >>
       /\ IsFullyKnown(expected) /\ n.name = expected.name -> CheckFields(env, n, expected)
    [] OTHER -> CheckInferred(env, n, expected)

Judge(env, n, t) ==
  IF t = ToBeFound THEN InferNode(env, n)
  ELSE CheckNode(env, Expecting(n, t), t,
                 IF n.k = "var" /\ t.k = "fn" THEN Lookup(env, n.name) ELSE Unknown)

----------------------------------------------------------------------------
(* Running what was accepted.  A node has the set of values it can yield;  *)
(* Wrong is among them when the machine meets an operand of a type it      *)
(* cannot work with.  An index or a cast that is out of range ends the     *)
(* program in an orderly way and yields nothing.  A call of a function     *)
(* inside itself adds nothing to what its other paths yield.               *)

Wrong == [v |-> "wrong"]
Number_(kind, val) == [v |-> "number", kind |-> kind, val |-> val]
Text == [v |-> "string"]
Truth == [v |-> "bool"]
Nil == [v |-> "unit"]
Computed == 1000  \* in place of the value of a number that is not a literal
IsNum(a) == a.v = "number"

(* All sequences of one value of each set.                                 *)
RECURSIVE OneOfEach(_)
OneOfEach(ss) ==
  IF ss = << >> THEN {<< >>} ELSE {<<a>> \o as : a \in Head(ss), as \in OneOfEach(Tail(ss))}

Operate(op, a, b) ==
  CASE op \in {"==", "!="} -> Truth
    [] IsNum(a) /\ IsNum(b) /\ a.kind = b.kind -> IF op = "<" THEN Truth ELSE Number_(a.kind, Computed)
    [] op = "+" /\ a = Text /\ b = Text -> Text
    [] OTHER -> Wrong

Negated(a) ==
  CASE ~IsNum(a) -> {Wrong}
    [] ~IsSigned(a.kind) -> {Wrong}
    [] a.val = Computed -> {a}
    [] OTHER -> {Number_(a.kind, -a.val)} \ {Number_(a.kind, KindMax[a.kind] + 1)}

(* The parser keeps 0 for a plain literal that no i64 holds.               *)
PlainValue(v) == IF v <= KindMax["i64"] THEN v ELSE 0

Elements(o) == CASE o.v = "list" -> o.items [] o.v = "array" -> {o.items[i] : i \in DOMAIN o.items}
Stored(o, a) ==
  CASE o.v = "list" -> [o EXCEPT !.items = @ \cup {a}]
    [] o.v = "array" -> [o EXCEPT !.items = [i \in DOMAIN @ |-> a]]

RECURSIVE Eval(_, _), Apply(_, _), EvalAll(_, _)
EvalAll(ns, env) == OneOfEach([i \in DOMAIN ns |-> Eval(ns[i], env)])

ApplyNative(name, as) ==
  CASE as[1].v \notin {"list", "array"} -> {Wrong}
    [] name = "@listPop" -> IF as[1].v = "list" THEN as[1].items ELSE {Wrong}
    [] name = "@listPush" -> IF as[1].v = "list" THEN {Nil} ELSE {Wrong}
    [] name = "@arrCopy" -> IF as[1].v = "array" THEN {as[1]} ELSE {Wrong}
    [] name = "@arrEqual" -> IF as[1].v = "array" /\ as[2].v = "array" THEN {Truth} ELSE {Wrong}

Apply(f, as) ==
  CASE Wrong \in {f} \cup ToSet(as) -> {Wrong}
    [] f.v = "native" -> ApplyNative(f.name, as)
    [] f.v = "constant" -> {f.result}
    [] f.v = "itself" -> {}
    [] f.v = "closure" ->
         IF Len(as) # Len(f.names) THEN {Wrong}
         ELSE Eval(f.body, [x \in ToSet(f.names) \cup DOMAIN f.env |->
                              IF x \in ToSet(f.names)
                                THEN as[Max({i \in DOMAIN as : f.names[i] = x})] ELSE f.env[x]])
    [] OTHER -> {Wrong}

Method(o, name) ==
  LET d == Declarations[o.name].methods[name]
  IN  [v |-> "closure", names |-> d.names, body |-> d.body, env |-> [x \in {"self"} |-> o]]

EvalGet(o, name) ==
  CASE o.v = "struct" /\ name \in DOMAIN o.fields -> o.fields[name]
    [] o.v = "struct" /\ name \in DOMAIN Declarations[o.name].methods -> Method(o, name)
    [] OTHER -> Wrong

IsStatic(n, env) == n.o.k = "var" /\ n.o.name \notin DOMAIN env /\ n.o.name \in DOMAIN Declarations
Static(n) ==
  LET d == Declarations[n.o.name].statics[n.name]
  IN  [v |-> "closure", names |-> d.names, body |-> d.body, env |-> << >>]

Convert(conversion, a) ==
  CASE conversion = "number" -> IsNum(a)
    [] conversion = "string" -> a = Text
    [] conversion = "bool" -> a = Truth
    [] conversion = "display" -> a.v = "struct"

Eval(n, env) ==
  CASE n.k = "plain" -> {Number_("i64", PlainValue(n.value))}
    [] n.k = "num" -> {Number_(n.kind, n.value)}
    [] n.k = "lit" -> {CASE n.type = Str -> Text [] n.type = Bool -> Truth [] OTHER -> Nil}
    [] n.k = "group" -> Eval(n.e, env)
    [] n.k = "neg" -> UNION {Negated(a) : a \in Eval(n.e, env)}
    [] n.k = "not" -> {IF a = Wrong THEN Wrong ELSE Truth : a \in Eval(n.e, env)}
    [] n.k = "bin" -> {IF Wrong \in {as[1], as[2]} THEN Wrong ELSE Operate(n.op, as[1], as[2])
                         : as \in EvalAll(<<n.l, n.r>>, env)}
    [] n.k = "cast" -> {IF IsNum(a) THEN Number_(n.kind, Computed) ELSE Wrong : a \in Eval(n.e, env)}
    [] n.k = "interp" -> {IF Convert(n.conversion, a) THEN Text ELSE Wrong : a \in Eval(n.e, env)}
    [] n.k = "var" -> {IF n.name \in DOMAIN env THEN env[n.name]
                       ELSE IF n.name \in DOMAIN NativeSignatures THEN [v |-> "native", name |-> n.name]
                       ELSE Wrong}
    [] n.k = "assign" -> IF n.name \in DOMAIN env THEN Eval(n.e, env) ELSE {Wrong}
    [] n.k = "and" -> {IF a = Truth THEN Truth ELSE Wrong : a \in Eval(n.l, env) \cup Eval(n.r, env)}
    [] n.k = "nullish" -> Eval(n.r, env) \cup (Eval(n.l, env) \ {Nil})
    [] n.k = "call" -> UNION {Apply(Head(as), Tail(as)) : as \in EvalAll(<<n.callee>> \o n.args, env)}
    [] n.k = "lambda" -> {[v |-> "closure", names |-> n.names, body |-> n.body, env |-> env]}
    [] n.k = "array" -> {IF Wrong \in ToSet(as) THEN Wrong
                         ELSE IF n.fixed THEN [v |-> "array", items |-> as]
                         ELSE [v |-> "list", items |-> ToSet(as)] : as \in EvalAll(n.items, env)}
    [] n.k \in {"index", "indexset"} ->
         UNION {IF as[1].v \notin {"list", "array"} \/ ~IsNum(as[2]) THEN {Wrong}
                ELSE IF n.k = "index" THEN Elements(as[1]) ELSE Eval(n.e, env)
                  : as \in EvalAll(<<n.o, n.i>>, env)}
    [] n.k = "init" -> {IF Wrong \in ToSet(as) THEN Wrong
                        ELSE [v |-> "struct", name |-> n.name,
                              fields |-> [f \in {n.fields[i].name : i \in DOMAIN n.fields} |->
                                            as[CHOOSE i \in DOMAIN as : n.fields[i].name = f]]]
                          : as \in EvalAll([i \in DOMAIN n.fields |-> n.fields[i].value], env)}
    [] n.k = "get" -> IF IsStatic(n, env) THEN {Static(n)} ELSE {EvalGet(o, n.name) : o \in Eval(n.o, env)}
    [] n.k = "set" -> {IF as[1].v = "struct" /\ as[2] # Wrong THEN as[2] ELSE Wrong
                         : as \in EvalAll(<<n.o, n.e>>, env)}
    [] n.k = "if" -> IF Wrong \in Eval(n.c, env) THEN {Wrong}
                     ELSE Eval(n.then, env) \cup (IF n.else = None THEN {Nil} ELSE Eval(n.else, env))
    [] n.k = "block" -> UNION {IF a = Wrong THEN {Wrong} ELSE Eval(n.value, (n.name :> a) @@ env)
                                 : a \in Eval(n.init, env)}

(* What a statement stores in a variable: x = e, x[i] = e, x.f = e and     *)
(* @listPush(x, e).                                                        *)
Stores(n, env) ==
  CASE n.k = "assign" -> {(n.name :> a) @@ env : a \in Eval(n.e, env)}
    [] n.k = "indexset" /\ n.o.k = "var" ->
         {(n.o.name :> Stored(env[n.o.name], a)) @@ env : a \in Eval(n.e, env)}
    [] n.k = "set" /\ n.o.k = "var" ->
         {(n.o.name :> [env[n.o.name] EXCEPT !.fields = (n.name :> a) @@ @]) @@ env : a \in Eval(n.e, env)}
    [] n.k = "call" /\ n.callee = Var("@listPush") /\ n.args[1].k = "var" ->
         {(n.args[1].name :> Stored(env[n.args[1].name], a)) @@ env : a \in Eval(n.args[2], env)}
    [] OTHER -> {env}

----------------------------------------------------------------------------
(* Declarations.                                                           *)

Let(x, t, e) == [k |-> "let", name |-> x, type |-> t, e |-> e]
Function(x, generics, xs, ts, r, e) ==
  [k |-> "function", name |-> x, generics |-> generics, names |-> xs, types |-> ts, ret |-> r, body |-> e]
Expression(e) == [k |-> "expression", e |-> e]

Judged(r, env) == [ok |-> r.ok, n |-> r.n, guess |-> r.guess, crash |-> r.crash, env |-> env]

(* typchkCheckVarDecl: what is declared is the declared type if there is   *)
(* one, whatever its value turned out to be.                               *)
LetOf(env, s, r) == Judged(r, Declare(env, s.name, IF s.type # Unknown THEN s.type ELSE r.t))
CheckLet(env, s) == LetOf(env, s, Judge(env, s.e, IF s.type # Unknown THEN s.type ELSE ToBeFound))

(* typchkCheckGenericFunctionBody: inside, each parameter is a fixed type  *)
(* that equals only itself.                                                *)
BodyType(s, t) == Substitute(t, [i \in 0..s.generics - 1 |-> Opaque(i, s.name)])

(* typchkCheckFunctionDecl and typchkCheckFunctionBody.                    *)
FunctionIn(outer, s) ==
  Judged(Check(DeclareAll(Append(outer, << >>), s.names, [i \in DOMAIN s.types |-> BodyType(s, s.types[i])]),
               s.body, BodyType(s, s.ret)),
         outer)
CheckFunction(env, s) == FunctionIn(Declare(env, s.name, Fn(s.types, s.ret)), s)

CheckStatement(env, s) ==
  CASE s.k = "let" -> CheckLet(env, s)
    [] s.k = "function" -> CheckFunction(env, s)
    [] s.k = "expression" -> Judged(Infer(env, s.e), env)

(* The values of the variables after a statement that went well.           *)
Results(s, n, env) ==
  CASE s.k = "let" -> {(s.name :> a) @@ env : a \in Eval(n, env)}
    [] s.k = "function" ->
         {(s.name :> [v |-> "closure", names |-> s.names, body |-> n,
                         env |-> (s.name :> [v |-> "itself"]) @@ env]) @@ env}
    [] s.k = "expression" -> Stores(n, env)

GoesWrong(s, n, env) == s.k # "function" /\ Wrong \in Eval(n, env)

----------------------------------------------------------------------------
Init ==
  /\ tenv = << << >> >>
  /\ venv = << >>
  /\ entered = [count |-> 0, last |-> None]
  /\ verdict = "accepted"
  /\ guessed = FALSE

(* What a checked statement leaves, and what it does when it runs.         *)
Leave(s, c) ==
  /\ tenv' = c.env
  /\ guessed' = (guessed \/ (c.ok /\ c.guess))
  /\ IF c.crash THEN verdict' = "crashed" /\ UNCHANGED venv
     ELSE IF ~c.ok THEN verdict' = "refused" /\ UNCHANGED venv
     ELSE IF GoesWrong(s, c.n, venv) THEN verdict' = "wrong" /\ UNCHANGED venv
     ELSE verdict' = "accepted" /\ venv' \in Results(s, c.n, venv)

Enter(s) ==
  /\ verdict = "accepted"
  /\ entered' = [count |-> entered.count + 1, last |-> s]
  /\ Leave(s, CheckStatement(tenv, s))

Next == entered.count < Len(Enterable) /\ \E s \in Enterable[entered.count + 1] : Enter(s)

Spec == Init /\ [][Next]_vars

----------------------------------------------------------------------------
(* Properties.                                                             *)

(* Values of a type, few but of every shape.                               *)
RECURSIVE Sample(_)
Sample(t) ==
  CASE t.k = "number" -> {Number_(t.kind, Computed)}
    [] t.k = "string" -> {Text}
    [] t.k = "bool" -> {Truth}
    [] t.k = "list" -> {[v |-> "list", items |-> Sample(t.element)]}
    [] t.k = "array" -> {[v |-> "array", items |-> [i \in 1..t.length |-> a]] : a \in Sample(t.element)}
    [] t.k = "struct" -> LET fs == Declarations[t.name].fields
                         IN  {[v |-> "struct", name |-> t.name,
                               fields |-> [f \in DOMAIN fs |-> CHOOSE a \in Sample(FieldLookup(t, f)) : TRUE]]}
    [] t.k = "fn" -> {[v |-> "constant", result |-> a, arity |-> Len(t.params)] : a \in Sample(t.ret)}
    [] OTHER -> {Nil}

InRange(a) == a.val = Computed \/ (a.val <= KindMax[a.kind] /\ a.val >= KindMin[a.kind])

(* A function has its type if it takes all values of its parameters' types *)
(* to values of its result's, a generic one for all types.                 *)
RECURSIVE HasType(_, _), TakesTo(_, _)
TakesTo(f, t) ==
  \A as \in OneOfEach([i \in DOMAIN t.params |-> Sample(t.params[i])]) :
    \A r \in Apply(f, as) : HasType(r, t.ret)

HasType(a, t) ==
  CASE t.k = "number" -> IsNum(a) /\ a.kind = t.kind /\ InRange(a)
    [] t.k = "string" -> a = Text
    [] t.k = "bool" -> a = Truth
    [] t.k = "unit" -> a = Nil
    [] t.k = "list" -> a.v = "list" /\ \A i \in a.items : HasType(i, t.element)
    [] t.k = "array" -> /\ a.v = "array" /\ Len(a.items) = t.length
                        /\ \A i \in DOMAIN a.items : HasType(a.items[i], t.element)
    [] t.k = "struct" -> /\ a.v = "struct" /\ a.name = t.name
                         /\ \A f \in DOMAIN a.fields : HasType(a.fields[f], FieldLookup(t, f))
    [] t.k = "fn" -> /\ a.v \in {"closure", "constant", "native"}
                     /\ \A T, U \in {Number("i64"), Str} :
                          TakesTo(a, Substitute(t, [i \in 0..1 |-> IF i = 0 THEN T ELSE U]))
    [] OTHER -> TRUE

(* The literals of a value, as they were written.                          *)
RECURSIVE Meaning(_)
Meaning(n) ==
  CASE n.k \in {"plain", "num"} -> {n.value}
    [] n.k = "neg" -> {-m : m \in Meaning(n.e)}
    [] n.k = "group" -> Meaning(n.e)
    [] n.k = "if" /\ n.else # None /\ {} \notin {Meaning(n.then), Meaning(n.else)} ->
         Meaning(n.then) \cup Meaning(n.else)
    [] n.k = "block" -> Meaning(n.value)
    [] OTHER -> {}

KeepsLiterals(s) ==
  (s.k = "let" /\ IsNum(venv[s.name]) /\ venv[s.name].val # Computed)
    => Meaning(s.e) = {} \/ venv[s.name].val \in Meaning(s.e)

(* "Whether a value of type actual can be given where expected is wanted": *)
(* a program that is accepted without a guess does not meet an operand it  *)
(* cannot work with, every variable keeps to the type that was found or    *)
(* declared for it, and a literal is the number that was written.          *)
Typed ==
  /\ verdict # "wrong"
  /\ verdict = "accepted" =>
       /\ \A x \in DOMAIN venv : HasType(venv[x], Lookup(tenv, x))
       /\ entered.count > 0 => KeepsLiterals(entered.last)

ValuesHaveTheirTypes == ~guessed => Typed

(* "Check that a value can be used where a type is wanted, reporting an    *)
(* error if it can't": every program is accepted or refused.               *)
ProgramsAreJudged == verdict # "crashed"
=============================================================================
