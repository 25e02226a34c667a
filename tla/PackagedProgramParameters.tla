---------------------- MODULE PackagedProgramParameters ----------------------
(* The constants of PackagedProgram.                                       *)
EXTENDS Integers, Sequences

CONSTANTS
  Packager,     \* processes that run packagedWrite
  Pid,          \* the pid of a packager; processes in two containers may share one
  Runner,       \* processes that start the output
  Program,      \* what a packager can be asked to build
  Unit,         \* compiled units
  Units,        \* the units of a program, in the order they run
  Attempts,     \* names tried for the temporary file, 100 in the code
  MaxInodes,    \* bound: files created; the runtime and the output may be there at first
  None

ASSUME PackagedProgramAssumption ==
  /\ Units \in [Program -> Seq(Unit) \ {<< >>}]
  /\ Attempts \in Nat \ {0} /\ MaxInodes \in Nat /\ MaxInodes >= 2
  /\ None \notin Program
=============================================================================
