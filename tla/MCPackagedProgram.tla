--------------------------- MODULE MCPackagedProgram ---------------------------
(* Two packagers that share a pid, as in two containers, and a runner.       *)
EXTENDS PackagedProgram, TLC

CONSTANTS p1, p2, g, h, stdlib, main, other

MCPid == [p \in Packager |-> 7]
MCUnits == g :> <<stdlib, main>> @@ h :> <<stdlib, other>>

Interchangeable == Permutations(Packager)
=============================================================================
