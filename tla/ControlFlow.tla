----------------------------- MODULE ControlFlow -----------------------------
(***************************************************************************)
(* What the checker says about the paths through a function: the definite  *)
(* assignment analysis of src/src/definite_assignment.c, and the functions *)
(* of typecheck.c that decide whether a path jumps, yields a value or      *)
(* returns.  Both walk the tree once; here they are held against all the   *)
(* ways the function can run.                                              *)
(*                                                                         *)
(* One name x is declared without a value and may be declared again in an  *)
(* inner block.  Conditions are opaque.  Nodes that hold expressions the   *)
(* analysis merely visits in order (calls, fields, indices, literals of    *)
(* arrays and structs, interpolation) are "pair"; those it does not look   *)
(* into (casts, lambdas) are "opaque".                                     *)
(***************************************************************************)
EXTENDS Integers, Sequences, FiniteSets, SequencesExt

CONSTANTS Functions  \* the bodies to check: blocks, see Blk

VARIABLES body, checked

vars == <<body, checked>>

None == [k |-> "none"]
Exp(kind, l, r) == [k |-> kind, l |-> l, r |-> r]  \* "other", "read", "assign", "pair", "and", "opaque"
Leaf(kind) == [k |-> kind]                         \* "break", "continue"
Ret(v) == [k |-> "return", value |-> v]
Decl(init) == [k |-> "decl", init |-> init]
If(c, t, e) == [k |-> "if", cond |-> c, then |-> t, else |-> e]
While(c, b) == [k |-> "while", cond |-> c, body |-> b]
For(s, c, b, i) == [k |-> "for", init |-> s, cond |-> c, body |-> b, increment |-> i]
Blk(s, v) == [k |-> "block", stmts |-> s, value |-> v]

----------------------------------------------------------------------------
(* The analysis.  pending counts the entries of the DaaSet that are called *)
(* x; a result is the set afterwards, whether the statement escapes, and   *)
(* whether an error has been reported.                                     *)

Result(pending, escapes, error) == [pending |-> pending, escapes |-> escapes, error |-> error]
Then(a, b) == Result(b.pending, b.escapes, a.error \/ b.error)
Stays(a) == [a EXCEPT !.escapes = FALSE]

(* daaSetRemove takes one entry, daaSetUnionInto never adds a second one.  *)
RemoveOne(pending) == IF pending > 0 THEN pending - 1 ELSE 0
Union(a, b) == IF a + b > 0 THEN 1 ELSE 0

RECURSIVE CheckExpr(_, _), CheckStmt(_, _), CheckStmts(_, _, _)

CheckExpr(n, pending) ==
  CASE n.k = "read" -> Result(pending, FALSE, pending > 0)
    [] n.k = "assign" -> LET v == CheckExpr(n.r, pending)
                         IN  Result(RemoveOne(v.pending), FALSE, v.error)
    [] n.k \in {"pair", "and"} -> LET l == CheckExpr(n.l, pending)
                                  IN  Then(l, CheckExpr(n.r, l.pending))
    [] n.k \in {"if", "block"} -> Stays(CheckStmt(n, pending))
    [] OTHER -> Result(pending, FALSE, FALSE)

(* daaCheckAssignmentBlock: what follows an escape is not looked at.       *)
CheckStmts(block, i, pending) ==
  IF i > Len(block.stmts)
    THEN IF block.value = None THEN Result(pending, FALSE, FALSE)
         ELSE CheckExpr(block.value, pending)
  ELSE LET s == CheckStmt(block.stmts[i], pending)
       IN  IF s.escapes THEN s ELSE Then(s, CheckStmts(block, i + 1, s.pending))

(* Mutant: what one branch assigns is assigned.                            *)
JoinEither(t, e) ==
  IF t.escapes /\ ~e.escapes THEN e.pending
  ELSE IF e.escapes /\ ~t.escapes THEN t.pending
  ELSE IF t.pending + e.pending > 1 THEN 1 ELSE 0

(* What is pending after an if: a branch that escapes does not count.      *)
Join(t, e) ==
  IF t.escapes /\ ~e.escapes THEN e.pending
  ELSE IF e.escapes /\ ~t.escapes THEN t.pending
  ELSE Union(t.pending, e.pending)

CheckIf(n, pending) ==
  LET c == CheckExpr(n.cond, pending)
      t == CheckStmt(n.then, c.pending)
      e == IF n.else = None THEN Result(c.pending, FALSE, FALSE) ELSE CheckStmt(n.else, c.pending)
      both == t.escapes /\ e.escapes
  IN  Result(IF both THEN c.pending ELSE Join(t, e), both, c.error \/ t.error \/ e.error)

(* The body of a loop, and the increment, work on a copy of the set; the   *)
(* initializer does not, and its name stays in the set after the loop.     *)
CheckLoop(n, pending) ==
  LET s == IF n.k = "for" THEN CheckStmt(n.init, pending) ELSE Result(pending, FALSE, FALSE)
      c == CheckExpr(n.cond, s.pending)
      b == CheckStmt(n.body, c.pending)
      i == IF n.k = "for" THEN CheckExpr(n.increment, b.pending) ELSE b
  IN  Result(c.pending, FALSE, s.error \/ c.error \/ b.error \/ i.error)

CheckReturn(n, pending) ==
  LET v == CheckExpr(n.value, pending) IN Result(v.pending, TRUE, v.error)

CheckStmt(n, pending) ==
  CASE n.k = "decl" -> IF n.init = None THEN Result(pending + 1, FALSE, FALSE)
                       ELSE CheckExpr(n.init, pending)
    [] n.k = "return" -> CheckReturn(n, pending)
    [] n.k \in {"break", "continue"} -> Result(pending, TRUE, FALSE)
    [] n.k = "if" -> CheckIf(n, pending)
    [] n.k \in {"while", "for"} -> CheckLoop(n, pending)
    [] n.k = "block" -> CheckStmts(n, 1, pending)
    [] OTHER -> CheckExpr(n, pending)

(* daaCheckFn                                                              *)
CheckFn(b) == ~CheckStmts(b, 1, 0).error

----------------------------------------------------------------------------
(* typchkAlwaysJumps, typchkAlwaysYields, typchkCheckIfAlwaysReturns and   *)
(* typchkCheckIfBlockAlwaysReturns.                                        *)

RECURSIVE AlwaysJumps(_), AlwaysYields(_), AlwaysReturns(_)

AlwaysJumps(n) ==
  CASE n.k \in {"return", "break", "continue"} -> TRUE
    [] n.k = "block" -> (\E i \in DOMAIN n.stmts : AlwaysJumps(n.stmts[i])) \/ AlwaysJumps(n.value)
    [] n.k = "if" -> AlwaysJumps(n.then) /\ AlwaysJumps(n.else)
    [] OTHER -> FALSE

BlockAlwaysReturns(b) ==
  IF b.value # None THEN AlwaysYields(b.value)
  ELSE \E i \in DOMAIN b.stmts : AlwaysReturns(b.stmts[i])

AlwaysYields(n) ==
  CASE n.k = "block" -> BlockAlwaysReturns(n)
    [] n.k = "if" -> n.else # None /\ AlwaysYields(n.then) /\ AlwaysYields(n.else)
    [] n.k \in {"while", "for", "break", "continue"} -> FALSE
    [] OTHER -> TRUE

(* Mutant: an if without else returns when its branch does.                *)
IfReturnsInOneBranch(n) ==
  AlwaysReturns(n.then) /\ (n.else = None \/ AlwaysReturns(n.else))

IfAlwaysReturns(n) ==
  n.else # None /\ AlwaysReturns(n.then) /\ AlwaysReturns(n.else)

AlwaysReturns(n) ==
  CASE n.k = "return" -> TRUE
    [] n.k = "block" -> BlockAlwaysReturns(n)
    [] n.k = "if" -> IfAlwaysReturns(n)
    [] OTHER -> FALSE

----------------------------------------------------------------------------
(* Running.  A world is a way to have come here: for every x in scope      *)
(* whether it has a value, whether the path passed a place where the       *)
(* assignment analysis is known to guess, and whether it passed a block    *)
(* whose final value nobody used.  Run gives the worlds in which the node  *)
(* ends, breaks, continues or returns, and those that read x without a     *)
(* value.  A loop's body is walked once: a later round starts with no      *)
(* fewer values than the first one.                                        *)

Ends(ends) == [ends |-> ends, breaks |-> {}, continues |-> {}, returns |-> {}, bad |-> {}]
With(a, b) ==
  [ends |-> b.ends, breaks |-> a.breaks \cup b.breaks, continues |-> a.continues \cup b.continues,
   returns |-> a.returns \cup b.returns, bad |-> a.bad \cup b.bad]

HasValue(w) == w.scopes # << >> /\ Last(w.scopes)
Depth(ws) == IF ws = {} THEN 0 ELSE Len((CHOOSE w \in ws : TRUE).scopes)
Outside(ws, depth) == {[w EXCEPT !.scopes = SubSeq(@, 1, depth)] : w \in ws}
Guessing(ws) == {[w EXCEPT !.guess = TRUE] : w \in ws}

(* A value given to an inner x may be taken for a value of the outer one.  *)
Assigned(w) ==
  [w EXCEPT !.scopes = Append(Front(@), TRUE),
            !.guess = @ \/ \E i \in 1..Len(w.scopes) - 1 : ~w.scopes[i]]

RECURSIVE Run(_, _), RunStmts(_, _, _)

RunStmts(b, i, ws) ==
  IF i > Len(b.stmts) THEN IF b.value = None THEN Ends(ws) ELSE Run(b.value, ws)
  ELSE LET s == Run(b.stmts[i], ws) IN With(s, RunStmts(b, i + 1, s.ends))

(* A jump in the initializer or the condition is one of the loop around.   *)
RunLoop(n, ws) ==
  LET s == IF n.k = "for" THEN Run(n.init, ws) ELSE Ends(ws)
      c == With(s, Run(n.cond, s.ends))
      b == Run(n.body, c.ends)
      again == b.ends \cup Guessing(b.continues)
      i == IF n.k = "for" THEN Run(n.increment, again) ELSE Ends(b.ends \cup b.continues)
      d == Depth(ws)
  IN  [ends |-> Outside(c.ends \cup i.ends \cup b.breaks, d),
       breaks |-> Outside(c.breaks, d), continues |-> Outside(c.continues, d),
       returns |-> c.returns \cup b.returns \cup i.returns,
       bad |-> c.bad \cup b.bad \cup i.bad]

RunBlock(n, ws) ==
  LET r == RunStmts(n, 1, ws)
      d == Depth(ws)
      left == IF n.value = None THEN r.ends ELSE {[w EXCEPT !.discarded = TRUE] : w \in r.ends}
  IN  [r EXCEPT !.ends = Outside(left, d), !.breaks = Outside(@, d), !.continues = Outside(@, d)]

(* The right operand of a logical operator may be skipped, with what it    *)
(* would have assigned.                                                    *)
RunAnd(n, ws) ==
  LET l == Run(n.l, ws)
      r == Run(n.r, l.ends)
  IN  [With(l, r) EXCEPT !.ends = @ \cup (IF r.ends = l.ends THEN l.ends ELSE Guessing(l.ends))]

Run(n, ws) ==
  CASE n.k = "read" -> [Ends(ws) EXCEPT !.bad = {w \in ws : ~HasValue(w)}]
    [] n.k = "assign" -> LET v == Run(n.r, ws) IN [v EXCEPT !.ends = {Assigned(w) : w \in @}]
    [] n.k = "pair" -> LET l == Run(n.l, ws) IN With(l, Run(n.r, l.ends))
    [] n.k = "and" -> RunAnd(n, ws)
    [] n.k = "decl" ->
         LET i == IF n.init = None THEN Ends(ws) ELSE Run(n.init, ws)
         IN  [i EXCEPT !.ends = {[w EXCEPT !.scopes = Append(@, n.init # None)] : w \in @}]
    [] n.k = "return" -> LET v == Run(n.value, ws)
                         IN  [v EXCEPT !.ends = {}, !.returns = @ \cup v.ends]
    [] n.k = "break" -> [Ends({}) EXCEPT !.breaks = ws]
    [] n.k = "continue" -> [Ends({}) EXCEPT !.continues = ws]
    [] n.k = "if" ->
         LET c == Run(n.cond, ws)
             t == Run(n.then, c.ends)
             e == IF n.else = None THEN Ends(c.ends) ELSE Run(n.else, c.ends)
         IN  [With(c, With(t, e)) EXCEPT !.ends = t.ends \cup e.ends]
    [] n.k \in {"while", "for"} -> RunLoop(n, ws)
    [] n.k = "block" -> RunBlock(n, ws)
    [] n.k = "opaque" -> LET l == Run(n.l, ws) IN [l EXCEPT !.bad = Guessing(@)]
    [] OTHER -> Ends(ws)

Start == {[scopes |-> << >>, guess |-> FALSE, discarded |-> FALSE]}

----------------------------------------------------------------------------
Init == body \in Functions /\ checked = "no"

(* The checker meets the function.                                         *)
Check ==
  /\ checked = "no"
  /\ checked' = IF CheckFn(body) THEN "accepted" ELSE "reported"
  /\ UNCHANGED body

Next == Check

Spec == Init /\ [][Next]_vars

----------------------------------------------------------------------------
(* Properties.                                                             *)

(* "'x' might not be assigned yet": in an accepted function no path reads  *)
(* x before it has a value, except where the analysis guesses: a logical   *)
(* operator skips an operand that assigns, a continue goes to the increment *)
(* of a for loop, an inner x is assigned while an outer one is pending, or *)
(* the read is inside a cast or a lambda.                                  *)
UnassignedReadsAreReported ==
  checked = "accepted" => \A w \in RunStmts(body, 1, Start).bad : w.guess

(* The worlds that come to the end of a body without a value for it.       *)
RECURSIVE WithoutValue(_, _)
WithoutValue(n, ws) ==
  CASE n.k = "block" -> LET r == RunStmts([n EXCEPT !.value = None], 1, ws)
                        IN  IF n.value = None THEN r.ends ELSE WithoutValue(n.value, r.ends)
    [] n.k = "if" -> LET c == Run(n.cond, ws).ends
                     IN  WithoutValue(n.then, c)
                         \cup (IF n.else = None THEN c ELSE WithoutValue(n.else, c))
    [] n.k \in {"while", "for", "return", "break", "continue", "decl"} -> Run(n, ws).ends
    [] OTHER -> {}

(* A function that passes the checker's path test reaches its end without  *)
(* a value at most past a block whose value is discarded, and no path      *)
(* leaves a node normally that is taken for one that always jumps (whose   *)
(* type the checker then ignores).                                         *)
PathsEndAsTheCheckerThinks ==
  /\ BlockAlwaysReturns(body) => \A w \in WithoutValue(body, Start) : w.discarded
  /\ AlwaysJumps(body) => RunStmts(body, 1, Start).ends = {}

(* "must return ... on every path", and the comment before                 *)
(* typchkCheckIfAlwaysReturns: "Check if the statement exits its enclosing *)
(* function".                                                              *)
EveryPathReturns == BlockAlwaysReturns(body) => WithoutValue(body, Start) = {}
=============================================================================
