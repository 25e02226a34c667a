-------------------------------- MODULE MCTools --------------------------------
(* The two tools that users start: the packager with the programs it builds, *)
(* and the session.  They share no state: a behaviour is one or the other,   *)
(* and the session is entered from the initial state of an empty directory.  *)
EXTENDS MCPackagedProgram, SessionState

VARIABLE tool

Shell == INSTANCE Session

MCValue == {[type |-> "i64", n |-> 1], [type |-> "i64", n |-> 2], [type |-> "string", n |-> 1]}

ToolsInit ==
  /\ tool \in {"package", "session"}
  /\ Init /\ Shell!SessionInit
  /\ tool = "session" => directory[Output] = 0

Leave == tool = "session" /\ phase = "read" /\ read = MaxLines

ToolsNext ==
  /\ UNCHANGED tool
  /\ \/ tool = "package" /\ Next /\ UNCHANGED session
     \/ tool = "session" /\ Shell!SessionNext /\ UNCHANGED vars
     \/ Leave /\ UNCHANGED <<vars, session>>

ToolsSpec == ToolsInit /\ [][ToolsNext]_<<tool, vars, session>>
=============================================================================
