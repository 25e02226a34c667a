---------------------------- MODULE SessionState ----------------------------
(***************************************************************************)
(* What module Session keeps, and what it promises.                        *)
(***************************************************************************)
EXTENDS Integers, Sequences

CONSTANTS
  Var, Fun,   \* names of top-level variables and of top-level functions
  Value,      \* what variables hold: records with a field type
  Unknown,    \* the checker's NULL type
  Undefined,  \* no global of that name
  MaxLine,    \* bound: statements in a line
  MaxLines    \* bound: lines in a session

VARIABLES
  types,      \* the last type declared for a name
  immutable,  \* names of let and fun
  globals,    \* value or closure of a name
  line,       \* the line in work, in the order of the current phase
  phase,      \* "read", "check", "compile" or "run"
  pc,         \* the statement in work
  bad,        \* typchkHadError, the compiler's hadError
  read,       \* lines read so far
  doubt,      \* history: some name had two types or was used before its declaration
  fixed       \* history: names whose let or fun has been executed

Name == Var \cup Fun
Type == {v.type : v \in Value}
UnitValue == [type |-> "unit"]

(* What a function does with a variable; it returns unit when it assigns.  *)
Body == {[op |-> "get", name |-> x, type |-> t] : x \in Var, t \in Type}
        \cup {[op |-> "set", name |-> x, type |-> "unit", value |-> v] : x \in Var, v \in Value}

(* A closure: the body, and the names it was allowed to assign when it was *)
(* compiled.                                                               *)
Closure == {[type |-> b.type, body |-> b, free |-> names] : b \in Body, names \in SUBSET Name}

ASSUME SessionAssumption ==
  /\ Var \cap Fun = {}
  /\ Unknown \notin Type \cup {"unit"}
  /\ Undefined \notin Value \cup {UnitValue} \cup Closure
  /\ MaxLine \in Nat /\ MaxLines \in Nat

session == <<types, immutable, globals, line, phase, pc, bad, read, doubt, fixed>>
Current == line[pc]

----------------------------------------------------------------------------
(* Between lines every global has the type the checker takes it for.  The  *)
(* code does not promise this: a line that fails keeps its declarations.   *)
GlobalsHaveTheirType ==
  phase = "read" => \A n \in Name : globals[n] # Undefined => globals[n].type = types[n]

(* As long as nobody gives a name a second type or uses one before its     *)
(* declaration, lines may fail at any stage and the checker, which forgets *)
(* none of them, still knows the type of every global.                     *)
PlainSessionsAreTyped ==
  ~doubt => \A n \in Name : globals[n] # Undefined => globals[n].type = types[n]

(* A let or a function keeps its value.  The code does not promise this:   *)
(* functions are compiled before the let whose name they assign.           *)
FixedNamesKeepTheirValue == [][\A n \in fixed : globals'[n] = globals[n]]_session

(* What does hold: nothing redefines the name, and only a call of a        *)
(* function that was compiled before the name was fixed assigns it.        *)
FixedNamesChangeInOlderFunctions ==
  [][\A n \in fixed : globals'[n] # globals[n] =>
       /\ Current.expr.from = "call"
       /\ n \in globals[Current.expr.name].free]_session
=============================================================================
