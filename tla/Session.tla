------------------------------- MODULE Session -------------------------------
(***************************************************************************)
(* What a session remembers from one line of the REPL to the next, or from *)
(* one statement of a script to the next, in three places that nobody      *)
(* keeps in step:                                                          *)
(*                                                                         *)
(*   types      sessionEnv of typecheck.c, what the checker believes       *)
(*   immutable  immutableBindings of compiler.c, what may not be assigned  *)
(*   globals    vm.globals, what there is                                  *)
(*                                                                         *)
(* A line goes through typchkCheckProgram, compile and interpret.  Each of *)
(* the first two goes on to the end of the line after an error, none takes *)
(* anything back, and compile moves the functions of the line before       *)
(* everything else.                                                        *)
(*                                                                         *)
(* Simplifications: a variable's type is always annotated; a function has  *)
(* no parameters and its body reads or assigns one variable; structs,      *)
(* traits and impls are left out; "fail" stands for whatever stops with a  *)
(* runtime error.                                                          *)
(***************************************************************************)
EXTENDS SessionState

memory == <<types, immutable, globals>>

----------------------------------------------------------------------------
(* The language.                                                           *)

Literal(v) == [from |-> "literal", value |-> v]
Global(x) == [from |-> "global", name |-> x]
Call(f) == [from |-> "call", name |-> f]
Expr == {Literal(v) : v \in Value} \cup {Global(x) : x \in Var} \cup {Call(f) : f \in Fun}

Statement ==
  {[op |-> o, name |-> x, type |-> t, expr |-> e] :
     o \in {"let", "var"}, x \in Var, t \in Type, e \in Expr}
  \cup {[op |-> "assign", name |-> x, expr |-> e] : x \in Var, e \in Expr}
  \cup {[op |-> "fun", name |-> f, type |-> b.type, body |-> b] : f \in Fun, b \in Body}
  \cup {[op |-> "call", name |-> f, expr |-> Call(f)] : f \in Fun}
  \cup {[op |-> "fail"]}

IsFun(s) == s.op = "fun"

(* The statements of l with one of these operations, in their order.       *)
OfKind(l, ops) ==
  LET r[i \in 0..Len(l)] ==
        IF i = 0 THEN << >>
        ELSE IF l[i].op \in ops THEN Append(r[i - 1], l[i]) ELSE r[i - 1]
  IN  r[Len(l)]

(* The order in which compile emits the statements, and run executes them. *)
Hoisted(l) ==
  OfKind(l, {"fun"}) \o OfKind(l, {"let", "var", "assign", "call", "fail"})

SessionInit ==
  /\ types = [n \in Name |-> Unknown]
  /\ immutable = {}
  /\ globals = [n \in Name |-> Undefined]
  /\ line = << >> /\ phase = "read" /\ pc = 1 /\ bad = FALSE
  /\ read = 0 /\ doubt = FALSE /\ fixed = {}

InPhase(p) == phase = p /\ pc <= Len(line)

----------------------------------------------------------------------------
(* The checker.                                                            *)

(* What typchkInfer makes of an expression, Unknown without an error for a *)
(* name that nothing declared.                                             *)
Inferred(e) == IF e.from = "literal" THEN e.value.type ELSE types[e.name]

(* typchkCheck: what is not known is accepted.                             *)
Accepts(t, e) == t = Unknown \/ Inferred(e) \in {Unknown, t}

(* typchkRegisterTopLevelFunctionSignature for the functions of the line.  *)
Signatures(l) ==
  [n \in Name |->
     LET declaring == {i \in DOMAIN l : IsFun(l[i]) /\ l[i].name = n}
     IN  IF declaring = {} THEN types[n]
         ELSE l[CHOOSE i \in declaring : \A j \in declaring : j <= i].type]

(* repl reads a line, which parses.                                        *)
Read ==
  /\ phase = "read" /\ read < MaxLines
  /\ \E n \in 1..MaxLine : line' \in [1..n -> Statement]
  /\ phase' = "check" /\ pc' = 1 /\ bad' = FALSE
  /\ types' = Signatures(line')
  /\ doubt' = (doubt \/ \E i \in DOMAIN line' :
                 LET s == line'[i]
                 IN  IsFun(s) /\ {types[s.name], types'[s.name]} \ {Unknown} # {s.type})
  /\ read' = read + 1
  /\ UNCHANGED <<immutable, globals, fixed>>

Checked(ok, known) ==
  /\ bad' = (bad \/ ~ok)
  /\ doubt' = (doubt \/ ~known)
  /\ pc' = pc + 1
  /\ UNCHANGED <<immutable, globals, line, phase, read, fixed>>

(* typchkCheckVarDecl, which declares the name even when the value is bad. *)
CheckDeclaration ==
  /\ InPhase("check") /\ Current.op \in {"let", "var"}
  /\ types' = [types EXCEPT ![Current.name] = Current.type]
  /\ Checked(Accepts(Current.type, Current.expr),
             /\ Inferred(Current.expr) # Unknown
             /\ types[Current.name] \in {Unknown, Current.type})

(* Mutant: the value of an assignment is not compared with the variable.   *)
CheckAssignmentNot ==
  /\ InPhase("check") /\ Current.op = "assign"
  /\ Checked(TRUE, Unknown \notin {types[Current.name], Inferred(Current.expr)})
  /\ types' = types

(* typchkInferAssign.                                                      *)
CheckAssignment ==
  /\ InPhase("check") /\ Current.op = "assign"
  /\ Checked(Accepts(types[Current.name], Current.expr),
             Unknown \notin {types[Current.name], Inferred(Current.expr)})
  /\ types' = types

(* typchkCheckTopLevelFunctionBody, with the types known by now.           *)
CheckFunction ==
  /\ InPhase("check") /\ Current.op = "fun"
  /\ LET b == Current.body
     IN  Checked(IF b.op = "get" THEN Accepts(types[Current.name], Global(b.name))
                 ELSE Accepts(types[b.name], Literal(b.value)),
                 types[b.name] # Unknown)
  /\ types' = types

(* typchkInferCall of an expression statement, and everything else.        *)
CheckOther ==
  /\ InPhase("check") /\ Current.op \in {"call", "fail"}
  /\ Checked(TRUE, Current.op = "call" => types[Current.name] # Unknown)
  /\ types' = types

(* The line is done with: its AST is freed, what it declared stays.        *)
Dismiss == line' = << >> /\ phase' = "read" /\ pc' = 1 /\ bad' = FALSE

(* compileSource, after the checker.                                       *)
EndCheck ==
  /\ phase = "check" /\ pc > Len(line)
  /\ IF bad THEN Dismiss
     ELSE line' = Hoisted(line) /\ phase' = "compile" /\ pc' = 1 /\ bad' = FALSE
  /\ UNCHANGED <<memory, read, doubt, fixed>>

----------------------------------------------------------------------------
(* The compiler.                                                           *)

Compiled(ok, names) ==
  /\ bad' = (bad \/ ~ok)
  /\ immutable' = immutable \cup names
  /\ pc' = pc + 1
  /\ UNCHANGED <<types, globals, phase, read, doubt, fixed>>

(* Mutant: only functions are remembered.                                  *)
CompileDeclarationMutable ==
  /\ InPhase("compile") /\ Current.op \in {"let", "var"}
  /\ Compiled(Current.name \notin immutable, {})
  /\ line' = line

(* compileVarDecl at top level.                                            *)
CompileDeclaration ==
  /\ InPhase("compile") /\ Current.op \in {"let", "var"}
  /\ Compiled(Current.name \notin immutable,
              IF Current.op = "let" THEN {Current.name} ELSE {})
  /\ line' = line

(* NODE_ASSIGN.                                                            *)
CompileAssignment ==
  /\ InPhase("compile") /\ Current.op = "assign"
  /\ Compiled(Current.name \notin immutable, {})
  /\ line' = line

(* compileFunctionDeclStmt: the name first, then the body.  The closure    *)
(* notes which names it was allowed to assign.                             *)
CompileFunction ==
  /\ InPhase("compile") /\ Current.op = "fun"
  /\ LET known == immutable \cup {Current.name}
     IN  /\ Compiled(/\ Current.name \notin immutable
                     /\ Current.body.op = "set" => Current.body.name \notin known,
                     {Current.name})
         /\ line' = [line EXCEPT ![pc] =
              [op |-> "fun", name |-> @.name, type |-> @.type, body |-> @.body,
               free |-> Name \ known]]

CompileOther ==
  /\ InPhase("compile") /\ Current.op \in {"call", "fail"}
  /\ Compiled(TRUE, {})
  /\ line' = line

(* compile returns NULL after an error.                                    *)
EndCompile ==
  /\ phase = "compile" /\ pc > Len(line)
  /\ IF bad THEN Dismiss
     ELSE phase' = "run" /\ pc' = 1 /\ UNCHANGED <<line, bad>>
  /\ UNCHANGED <<memory, read, doubt, fixed>>

----------------------------------------------------------------------------
(* The machine.                                                            *)

(* OP_GET_GLOBAL and OP_SET_GLOBAL stop at an undefined variable, also in  *)
(* the function that is called.                                            *)
Stops(e) ==
  IF e.from = "literal" THEN FALSE
  ELSE IF globals[e.name] = Undefined THEN TRUE
  ELSE e.from = "call" /\ globals[globals[e.name].body.name] = Undefined

BodyOf(e) == globals[e.name].body
Result(e) ==
  CASE e.from = "literal" -> e.value
    [] e.from = "global" -> globals[e.name]
    [] e.from = "call" ->
         IF BodyOf(e).op = "get" THEN globals[BodyOf(e).name] ELSE UnitValue
After(e) ==
  IF e.from = "call" /\ BodyOf(e).op = "set"
    THEN [globals EXCEPT ![BodyOf(e).name] = BodyOf(e).value] ELSE globals

Step == pc' = pc + 1 /\ UNCHANGED <<line, phase, bad>>
Running == UNCHANGED <<types, immutable, read, doubt>>

(* OP_DEFINE_GLOBAL of a let or var.                                       *)
RunDeclaration ==
  /\ InPhase("run") /\ Current.op \in {"let", "var"} /\ ~Stops(Current.expr)
  /\ globals' = [After(Current.expr) EXCEPT ![Current.name] = Result(Current.expr)]
  /\ fixed' = IF Current.op = "let" THEN fixed \cup {Current.name} ELSE fixed
  /\ Step /\ Running

(* OP_SET_GLOBAL.                                                          *)
RunAssignment ==
  /\ InPhase("run") /\ Current.op = "assign" /\ ~Stops(Current.expr)
  /\ IF After(Current.expr)[Current.name] = Undefined
       THEN globals' = After(Current.expr) /\ Dismiss
       ELSE /\ globals' = [After(Current.expr) EXCEPT ![Current.name] =
                             Result(Current.expr)]
            /\ Step
  /\ UNCHANGED fixed /\ Running

(* OP_CLOSURE, OP_DEFINE_GLOBAL.                                           *)
RunFunction ==
  /\ InPhase("run") /\ Current.op = "fun"
  /\ globals' = [globals EXCEPT ![Current.name] =
       [type |-> Current.type, body |-> Current.body, free |-> Current.free]]
  /\ fixed' = fixed \cup {Current.name}
  /\ Step /\ Running

RunCall ==
  /\ InPhase("run") /\ Current.op = "call" /\ ~Stops(Current.expr)
  /\ globals' = After(Current.expr)
  /\ UNCHANGED fixed
  /\ Step /\ Running

(* INTERPRET_RUNTIME_ERROR: the rest of the line is not executed.          *)
RuntimeError ==
  /\ InPhase("run")
  /\ \/ Current.op = "fail"
     \/ Current.op \in {"let", "var", "assign", "call"} /\ Stops(Current.expr)
  /\ Dismiss
  /\ UNCHANGED <<memory, read, doubt, fixed>>

EndRun ==
  /\ phase = "run" /\ pc > Len(line)
  /\ Dismiss
  /\ UNCHANGED <<memory, read, doubt, fixed>>

SessionNext ==
  \/ Read
  \/ CheckDeclaration \/ CheckAssignment \/ CheckFunction \/ CheckOther \/ EndCheck
  \/ CompileDeclaration \/ CompileAssignment \/ CompileFunction \/ CompileOther \/ EndCompile
  \/ RunDeclaration \/ RunAssignment \/ RunFunction \/ RunCall \/ RuntimeError \/ EndRun

SessionSpec == SessionInit /\ [][SessionNext]_session

----------------------------------------------------------------------------
(* Properties.                                                             *)

SessionTypeOK ==
  /\ types \in [Name -> Type \cup {"unit", Unknown}]
  /\ immutable \subseteq Name /\ Fun \cap fixed \subseteq immutable
  /\ phase \in {"read", "check", "compile", "run"}
  /\ pc \in 1..Len(line) + 1
  /\ bad \in BOOLEAN /\ doubt \in BOOLEAN
  /\ \A x \in Var : globals[x] \in Value \cup {UnitValue, Undefined}
  /\ \A n \in fixed : globals[n] # Undefined
=============================================================================
