----------------------------- MODULE NumberOps -----------------------------
(***************************************************************************)
(* Arithmetic, comparison and casts of src/src/number_ops.c, and what is   *)
(* promised of them.  A number of any kind lies in a payload of WordBits   *)
(* bits, 64 in the code: integers as two's complement with the sign        *)
(* copied, floats as the widest float.                                     *)
(*                                                                         *)
(* Simplifications: a finite float is its value in halves, so that a value *)
(* that is not whole exists; a float has a precision and a largest value   *)
(* and no smallest one, and zero has one sign.  The sums and products of   *)
(* floats are the processor's and are left out.                            *)
(***************************************************************************)
EXTENDS Integers, FiniteSets

CONSTANTS
  WordBits,       \* bits of a payload
  IntegerKinds,   \* records [bits, signed], those of number_kind.c with their width
  F64, F32,       \* records [precision, largest]: bits of the significand, halves
  MaxExponent,    \* bound: powers of two that a significand is multiplied with
  MaxCount        \* bound: items of an array that is indexed

ASSUME NumbersAssumption ==
  /\ WordBits \in Nat \ {0}
  /\ IntegerKinds \subseteq [bits : 1..WordBits, signed : BOOLEAN]
  /\ F64 \notin IntegerKinds /\ F32 \notin IntegerKinds
  /\ {F64, F32} \subseteq [precision : 1..WordBits, largest : Nat]
  /\ MaxExponent \in Nat /\ MaxExponent > WordBits
  /\ MaxCount \in Nat

VARIABLES
  request,  \* what the interpreter asked last
  reply     \* and what it was answered

computing == <<request, reply>>

----------------------------------------------------------------------------
(* Kinds and payloads.                                                     *)

FloatingKinds == {F64, F32}
Kinds == IntegerKinds \cup FloatingKinds
IsFloat(kind) == kind \in FloatingKinds

(* 2^n                                                                     *)
Power[n \in 0..WordBits + MaxExponent] == IF n = 0 THEN 1 ELSE 2 * Power[n - 1]
Word == Power[WordBits]

NumberKindMin(kind) == IF kind.signed THEN -Power[kind.bits - 1] ELSE 0
NumberKindMax(kind) == Power[IF kind.signed THEN kind.bits - 1 ELSE kind.bits] - 1
Holds(kind, i) == NumberKindMin(kind) <= i /\ i <= NumberKindMax(kind)

(* The payload read as int64_t and an integer written into it.             *)
AsSigned(raw) == IF raw < Power[WordBits - 1] THEN raw ELSE raw - Word
AsRaw(i) == i % Word

(* What the payload of an integer kind stands for.                         *)
Reads(kind, raw) == IF kind.signed THEN AsSigned(raw) ELSE raw

(* truncateRawInteger                                                      *)
TruncateRawInteger(kind, raw) ==
  LET low == raw % Power[kind.bits]
  IN  IF kind.signed /\ low >= Power[kind.bits - 1] THEN AsRaw(low - Power[kind.bits]) ELSE low

Ok(payload) == [status |-> "ok", payload |-> payload]
Refused(status) == [status |-> status]

----------------------------------------------------------------------------
(* Integer arithmetic.  C(i) is what int64_t holds of i: where i does not  *)
(* fit, the build wraps.                                                   *)

C(i) == AsSigned(AsRaw(i))
Magnitude(i) == IF i < 0 THEN -i ELSE i
CDiv(a, b) == LET q == Magnitude(a) \div Magnitude(b) IN IF (a < 0) # (b < 0) THEN -q ELSE q

SignedDoesNotFit(op, a, b, min, max) ==
  \/ op = "+" /\ b > 0 /\ a > C(max - b)
  \/ op = "+" /\ b < 0 /\ a < C(min - b)
  \/ op = "-" /\ b < 0 /\ a > C(max + b)
  \/ op = "-" /\ b > 0 /\ a < C(min + b)
  \/ op = "*" /\ a > 0 /\ b > 0 /\ a > C(CDiv(max, b))
  \/ op = "*" /\ a > 0 /\ b <= 0 /\ b < C(CDiv(min, a))
  \/ op = "*" /\ a <= 0 /\ b > 0 /\ a < C(CDiv(min, b))
  \/ op = "*" /\ a < 0 /\ b <= 0 /\ b < C(CDiv(max, a))
  \/ op = "/" /\ a = min /\ b = -1

SignedValue(op, a, b) ==
  CASE op = "+" -> C(a + b)
    [] op = "-" -> C(a - b)
    [] op = "*" -> C(a * b)
    [] op = "/" -> C(CDiv(a, b))
    [] op = "%" -> IF b = -1 THEN 0 ELSE a - b * CDiv(a, b)

SignedArithmetic(kind, op, a, b) ==
  IF SignedDoesNotFit(op, a, b, NumberKindMin(kind), NumberKindMax(kind))
    THEN Refused("overflow")
    ELSE Ok(TruncateRawInteger(kind, AsRaw(SignedValue(op, a, b))))

(* Mutant: a product is compared with the limit after it has wrapped.      *)
UnsignedDoesNotFitLate(op, a, b, max) ==
  \/ op = "+" /\ b > max - a
  \/ op = "-" /\ b > a
  \/ op = "*" /\ AsRaw(a * b) > max

UnsignedDoesNotFit(op, a, b, max) ==
  \/ op = "+" /\ b > max - a
  \/ op = "-" /\ b > a
  \/ op = "*" /\ a # 0 /\ b > max \div a

UnsignedValue(op, a, b) ==
  CASE op = "+" -> AsRaw(a + b)
    [] op = "-" -> AsRaw(a - b)
    [] op = "*" -> AsRaw(a * b)
    [] op = "/" -> a \div b
    [] op = "%" -> a % b

UnsignedArithmetic(kind, op, a, b) ==
  IF UnsignedDoesNotFit(op, a, b, NumberKindMax(kind))
    THEN Refused("overflow")
    ELSE Ok(TruncateRawInteger(kind, UnsignedValue(op, a, b)))

(* numberArithmetic for integers, and numberNegateValue, which subtracts   *)
(* from zero.                                                              *)
NumberArithmetic(kind, op, a, b) ==
  IF kind.signed THEN SignedArithmetic(kind, op, AsSigned(a), AsSigned(b))
                 ELSE UnsignedArithmetic(kind, op, a, b)

NumberNegate(kind, a) == NumberArithmetic(kind, "-", 0, a)

----------------------------------------------------------------------------
(* Floats: "nan", an infinity or a finite number of halves.                *)

Finite(v) == [class |-> "finite", halves |-> v]
Infinite(positive) == [class |-> "infinite", positive |-> positive]
NaN == [class |-> "nan"]

(* The numbers with this precision are the multiples of Ulp(v, precision)  *)
(* near v; the nearest one, and of two equally near the even one.          *)
IsExponent(s, v, precision) ==
  /\ Magnitude(v) < Power[precision + s]
  /\ s > 0 => Magnitude(v) >= Power[precision + s - 1]

Ulp(v, precision) == Power[CHOOSE s \in 0..MaxExponent : IsExponent(s, v, precision)]

NearestEven(v, precision) ==
  LET u == Ulp(v, precision)
      low == Magnitude(v) \div u
      over == 2 * (Magnitude(v) % u)
      steps == IF over > u \/ (over = u /\ low % 2 = 1) THEN low + 1 ELSE low
  IN  IF v < 0 THEN -(steps * u) ELSE steps * u

(* The largest float is one; it exceeds every integer, 2^128 being more    *)
(* than 2^64, and every exponent is below the bound.                       *)
ASSUME FloatsAssumption ==
  \A kind \in FloatingKinds :
    /\ NearestEven(kind.largest, kind.precision) = kind.largest
    /\ kind.largest >= 2 * Word
    /\ \A other \in FloatingKinds : kind.largest < Power[other.precision + MaxExponent]

RoundFloat(kind, value) ==
  IF value.class # "finite" THEN value
  ELSE LET v == NearestEven(value.halves, kind.precision)
       IN  IF Magnitude(v) > kind.largest THEN Infinite(v > 0) ELSE Finite(v)

(* numberToDouble                                                          *)
NumberToDouble(kind, payload) ==
  IF IsFloat(kind) THEN payload ELSE RoundFloat(F64, Finite(2 * Reads(kind, payload)))

(* a < b for floats, which no comparison with NaN is.                      *)
FloatLess(a, b) ==
  LET place(x) == IF x.class = "finite" THEN x.halves
                  ELSE IF x.positive THEN 2 * F64.largest ELSE -(2 * F64.largest)
  IN  a.class # "nan" /\ b.class # "nan" /\ place(a) < place(b)

NumberOpLessThan(kind, a, b) ==
  IF IsFloat(kind) THEN FloatLess(a, b) ELSE Reads(kind, a) < Reads(kind, b)

----------------------------------------------------------------------------
(* Casts.                                                                  *)

(* Mutant: the limit of the kind itself is compared with, as a float.      *)
FloatInsideClosed(value, to) ==
  value.class = "finite"
  /\ value.halves >= 2 * NumberKindMin(to)
  /\ value.halves <= NearestEven(2 * NumberKindMax(to), F64.precision)

(* lower <= value < upper, upper being a power of two and so a float.      *)
FloatInside(value, to) ==
  value.class = "finite"
  /\ value.halves >= 2 * NumberKindMin(to)
  /\ value.halves < 2 * (NumberKindMax(to) + 1)

CastFloatToInteger(value, to) ==
  IF value.class = "nan" \/ (value.class = "finite" /\ value.halves % 2 # 0)
    THEN Refused("not whole")
  ELSE IF ~FloatInside(value, to) THEN Refused("out of range")
  ELSE Ok(AsRaw(value.halves \div 2))

CastIntegerToInteger(from, raw, to) ==
  LET negative == from.signed /\ AsSigned(raw) < 0
  IN  IF \/ negative /\ (~to.signed \/ AsSigned(raw) < NumberKindMin(to))
         \/ ~negative /\ raw > NumberKindMax(to)
        THEN Refused("out of range")
        ELSE Ok(raw)

CastToFloat(from, payload, to) ==
  LET converted == NumberToDouble(from, payload)
      rounded == RoundFloat(to, converted)
  IN  IF rounded.class = "infinite" /\ converted.class # "infinite"
        THEN Refused("out of range")
        ELSE Ok(rounded)

NumberCast(from, payload, to) ==
  IF IsFloat(to) THEN CastToFloat(from, payload, to)
  ELSE IF IsFloat(from) THEN CastFloatToInteger(payload, to)
  ELSE CastIntegerToInteger(from, payload, to)

----------------------------------------------------------------------------
(* Every number of a kind.                                                 *)

FloatValues(kind) ==
  {Finite(v) : v \in {w \in -kind.largest..kind.largest : NearestEven(w, kind.precision) = w}}
  \cup {NaN, Infinite(TRUE), Infinite(FALSE)}

Values(kind) ==
  IF IsFloat(kind) THEN FloatValues(kind)
  ELSE {AsRaw(i) : i \in NumberKindMin(kind)..NumberKindMax(kind)}

----------------------------------------------------------------------------
(* Properties.                                                             *)

Asked(name) == request.name = name
Succeeded == reply.status = "ok"

(* q is a / b rounded towards zero and r what remains, as C defines them.  *)
IsQuotient(a, b, q, r) ==
  a = q * b + r /\ Magnitude(r) < Magnitude(b) /\ (r # 0 => (r < 0) = (a < 0))

Fits(kind, op, a, b) ==
  CASE op = "+" -> Holds(kind, a + b)
    [] op = "-" -> Holds(kind, a - b)
    [] op = "*" -> Holds(kind, a * b)
    [] op = "/" -> b # 0 /\ ~(a = NumberKindMin(kind) /\ kind.signed /\ b = -1)
    [] op = "%" -> b # 0

IsResult(op, a, b, v) ==
  CASE op = "+" -> v = a + b
    [] op = "-" -> v = a - b
    [] op = "*" -> v = a * b
    [] op = "/" -> IsQuotient(a, b, v, a - v * b)
    [] op = "%" -> \E q \in -Word..Word : IsQuotient(a, b, q, v)

(* number_ops.c: an integer operation stores its exact result, in a        *)
(* payload that is canonical for its kind, or is refused because the       *)
(* result does not fit; the checks made beforehand neither overflow nor    *)
(* refuse a result that fits.                                              *)
ArithmeticIsExactOrRefused ==
  /\ Asked("binary") =>
       LET kind == request.kind
           a == Reads(kind, request.a)
           b == Reads(kind, request.b)
       IN  /\ Succeeded <=> Fits(kind, request.op, a, b)
           /\ Succeeded => /\ reply.payload \in Values(kind)
                           /\ IsResult(request.op, a, b, Reads(kind, reply.payload))
  /\ Asked("negate") =>
       LET a == Reads(request.kind, request.a)
       IN  /\ Succeeded <=> Holds(request.kind, -a)
           /\ Succeeded => Reads(request.kind, reply.payload) = -a

(* No float of this precision and range is nearer to v halves than r.      *)
IsNearest(kind, v, r) ==
  /\ r \in Values(kind)
  /\ r.class = "finite"
  /\ \A x \in Values(kind) :
       x.class = "finite" => Magnitude(v - r.halves) <= Magnitude(v - x.halves)

(* A cast or an index gives the same number again, whatever kinds are      *)
(* involved, exactly when the target has it; the only thing that may       *)
(* change is the rounding to a float.  Integers become f32 by way of f64,  *)
(* see IntegersBecomeTheNearestFloat.                                      *)
CastsKeepTheNumber ==
  /\ Asked("cast") =>
       LET from == request.kind
           to == request.to
           value == IF IsFloat(from) THEN request.a ELSE Finite(2 * Reads(from, request.a))
       IN  CASE ~IsFloat(to) ->
                  /\ Succeeded <=> /\ value.class = "finite" /\ value.halves % 2 = 0
                                   /\ Holds(to, value.halves \div 2)
                  /\ Succeeded => /\ reply.payload \in Values(to)
                                  /\ 2 * Reads(to, reply.payload) = value.halves
             [] IsFloat(to) /\ value.class # "finite" -> Succeeded /\ reply.payload = value
             [] IsFloat(to) /\ value.class = "finite" /\ (IsFloat(from) \/ to = F64) ->
                  IF Succeeded THEN IsNearest(to, value.halves, reply.payload)
                               ELSE Magnitude(value.halves) > to.largest
             [] OTHER -> Succeeded
  /\ Asked("index") =>
       LET kind == request.kind
           value == IF IsFloat(kind) THEN request.a ELSE Finite(2 * Reads(kind, request.a))
       IN  /\ Succeeded <=> \E i \in 0..request.count - 1 : value = Finite(2 * i)
           /\ Succeeded => value = Finite(2 * reply.payload)

(* book/src/basics.md says of a cast from an integer to a float that it is *)
(* rounded to the nearest float.                                           *)
IntegersBecomeTheNearestFloat ==
  (Asked("cast") /\ ~IsFloat(request.kind) /\ IsFloat(request.to) /\ Succeeded) =>
    IsNearest(request.to, 2 * Reads(request.kind, request.a), reply.payload)
=============================================================================
