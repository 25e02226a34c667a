----------------------------- MODULE MCUpvalues -----------------------------
(* Instances of Upvalues for TLC.                                          *)
EXTENDS Upvalues, TLC

(* Closures and upvalues are interchangeable identities.                   *)
Symmetry == Permutations(Closure) \cup Permutations(Upvalue)
=============================================================================
