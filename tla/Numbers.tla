------------------------------- MODULE Numbers -------------------------------
(***************************************************************************)
(* The requests that the interpreter makes of number_ops.c: numberBinary,  *)
(* OP_NEGATE, numberCompare, castNumber and arrayPosition in vm.c.  One    *)
(* step asks and is answered.                                              *)
(***************************************************************************)
EXTENDS NumberOps

Operators == {"+", "-", "*", "/", "%"}

(* arrayPosition: a whole number of any kind inside the array.             *)
ArrayPosition(kind, index, count) ==
  IF IsFloat(kind)
    THEN IF index.class = "nan" \/ (index.class = "finite" /\ index.halves % 2 # 0)
           THEN Refused("not whole")
         ELSE IF index.class = "infinite" \/ index.halves < 0 \/ index.halves >= 2 * count
           THEN Refused("out of bounds")
         ELSE Ok(index.halves \div 2)
    ELSE IF \/ kind.signed /\ (AsSigned(index) < 0 \/ AsSigned(index) >= count)
            \/ ~kind.signed /\ index >= count
           THEN Refused("out of bounds")
         ELSE Ok(index)

Idle == [name |-> "none"]
NumbersInit == request = Idle /\ reply = Refused("none")

(* numberBinary: a zero divisor is refused before the arithmetic.          *)
Binary ==
  \E kind \in IntegerKinds, op \in Operators : \E a, b \in Values(kind) :
    /\ request' = [name |-> "binary", kind |-> kind, op |-> op, a |-> a, b |-> b]
    /\ reply' = IF op \in {"/", "%"} /\ b = 0 THEN Refused("zero divisor")
                ELSE NumberArithmetic(kind, op, a, b)

(* OP_NEGATE                                                               *)
Negate ==
  \E kind \in IntegerKinds : \E a \in Values(kind) :
    /\ request' = [name |-> "negate", kind |-> kind, a |-> a]
    /\ reply' = NumberNegate(kind, a)

(* numberCompare: a > b asks b < a.                                        *)
Compare ==
  \E kind \in Kinds, greater \in BOOLEAN : \E a, b \in Values(kind) :
    /\ request' = [name |-> "compare", kind |-> kind, greater |-> greater, a |-> a, b |-> b]
    /\ reply' = Ok(IF greater THEN NumberOpLessThan(kind, b, a) ELSE NumberOpLessThan(kind, a, b))

(* castNumber                                                              *)
Cast ==
  \E from, to \in Kinds : \E a \in Values(from) :
    /\ request' = [name |-> "cast", kind |-> from, a |-> a, to |-> to]
    /\ reply' = NumberCast(from, a, to)

Index ==
  \E kind \in Kinds, count \in 0..MaxCount : \E a \in Values(kind) :
    /\ request' = [name |-> "index", kind |-> kind, a |-> a, count |-> count]
    /\ reply' = ArrayPosition(kind, a, count)

NumbersNext == request = Idle /\ (Binary \/ Negate \/ Compare \/ Cast \/ Index)

NumbersSpec == NumbersInit /\ [][NumbersNext]_computing
=============================================================================
