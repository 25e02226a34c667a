------------------------------ MODULE MCNumbers ------------------------------
(* Numbers with payloads of 6 bits, kinds of 6 and of 3 bits, and floats   *)
(* of 4 and of 2 significant bits, whose ranges contain every integer.     *)
EXTENDS Numbers

MCIntegerKinds == {[bits |-> b, signed |-> s] : b \in {3, WordBits}, s \in BOOLEAN}
MCF64 == [precision |-> 4, largest |-> 2^(WordBits + 3)]
MCF32 == [precision |-> 2, largest |-> 3 * 2^WordBits]
=============================================================================
