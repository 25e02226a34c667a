-------------------------- MODULE LexicalVariables --------------------------
(***************************************************************************)
(* What a Kirby program may rely on about its local variables, said        *)
(* without a stack, frames or upvalue objects: a variable is declared with *)
(* a value, changes only by an assignment to it, may be captured by a      *)
(* closure, and when its scope is left it is forgotten unless a closure    *)
(* captured it -- then it keeps its value and can still be assigned, and   *)
(* everyone who captured it sees the one variable.                         *)
(***************************************************************************)

CONSTANTS
  Variable,  \* identities of variables, one per execution of a declaration
  Value,     \* what a variable can hold
  Gone       \* the content of a variable that does not exist

VARIABLES
  live,      \* the variables whose scope is being executed
  captured,  \* the variables some closure captured
  content    \* the value of each variable

lexicalVars == <<live, captured, content>>

Init ==
  /\ live = {}
  /\ captured = {}
  /\ content = [v \in Variable |-> Gone]

(* New variables come to life, each with some value: a local declaration   *)
(* makes one, a call one per argument.                                     *)
Declare(S) ==
  /\ S \cap (live \cup captured) = {}
  /\ live' = live \cup S
  /\ captured' = captured
  /\ \A v \in S : content'[v] \in Value
  /\ \A v \in Variable \ S : content'[v] = content[v]

Assign(v) ==
  /\ live' = live
  /\ captured' = captured
  /\ content'[v] \in Value
  /\ \A w \in Variable \ {v} : content'[w] = content[w]

Capture(v) ==
  /\ live' = live
  /\ captured' = captured \cup {v}
  /\ content' = content

Leave(S) ==
  /\ live' = live \ S
  /\ captured' = captured
  /\ content' = [v \in Variable |-> IF v \in S \ captured THEN Gone ELSE content[v]]

Next ==
  \/ \E S \in SUBSET (Variable \ live) : Declare(S)
  \/ \E v \in live \cup captured : Assign(v)
  \/ \E v \in live : Capture(v)
  \/ \E S \in SUBSET live : Leave(S)

Spec == Init /\ [][Next]_lexicalVars
=============================================================================
