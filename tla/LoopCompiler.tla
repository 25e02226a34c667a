---------------------------- MODULE LoopCompiler ----------------------------
(***************************************************************************)
(* How src/src/compiler.c turns the statements and expressions of a        *)
(* function into bytecode.                                                 *)
(*                                                                         *)
(* The compiler walks the AST once and never looks back: it knows where a  *)
(* local lives only because it counts the stack height of everything it    *)
(* emits (opcode.c), it patches jumps when it learns where they go, and a  *)
(* `break' or `continue' emits the pops of the locals it leaves from what  *)
(* is known of them at that moment.                                        *)
(*                                                                         *)
(* The first phase compiles an arbitrary function body; "todo" is the C    *)
(* stack of the recursive descent, what the compile... functions still     *)
(* have to do, and each step of it chooses the next AST node.  The second  *)
(* phase runs the code, taking either way at every conditional jump.       *)
(* The instructions and the machine are in Bytecode.                       *)
(***************************************************************************)
EXTENDS Bytecode, SequencesExt

CONSTANTS
  Grammar,       \* the constructs the program may use
  MaxNodes,      \* bound: AST nodes, not counting literals
  Plain,         \* whether the program jumps from statement position only
  CapturesFirst  \* whether it captures no loop variable behind a break of the loop

VARIABLES
  todo,    \* what the compile functions have left to do
  nodes,   \* AST nodes so far
  locals,  \* current->locals but the callee's
  depth,   \* current->scopeDepth
  loops    \* currentLoop and those around it, the innermost last

compiler == <<todo, nodes, locals, depth, loops>>
vars == <<phase, out, compiler, machine>>

UNINITIALIZED == -1

Init ==
  /\ phase = "compile"
  /\ todo = <<[do |-> "stmts"]>>
  /\ nodes = 0
  /\ out = [code |-> << >>, height |-> 1, reachable |-> TRUE, ok |-> TRUE]
  /\ locals = << >>
  /\ depth = 1
  /\ loops = << >>
  /\ pc = 1 /\ stack = <<NONE>> /\ open = {}

----------------------------------------------------------------------------
(* Leaving scopes.                                                         *)

(* The locals on top that are declared deeper than target: a local whose   *)
(* initializer is not finished ends the walk.                              *)
Leaving(target) ==
  {i \in DOMAIN locals : \A j \in i..Len(locals) : locals[j].depth > target}

(* Mutant: pops captured locals like any other.                            *)
PopsToDepthUncaptured(target) == [k \in 1..Cardinality(Leaving(target)) |-> "pop"]

(* One instruction per local, from the top, by what is known of it now.    *)
PopsToDepth(target) ==
  [k \in 1..Cardinality(Leaving(target)) |->
     IF locals[Len(locals) - k + 1].captured THEN "close upvalue" ELSE "pop"]

Keep(target) == SubSeq(locals, 1, Len(locals) - Cardinality(Leaving(target)))

(* Mutant: a local's slot is its index among the locals.                   *)
AddLocalByIndex(o) ==
  Append(locals, [slot |-> Len(locals) + 1, depth |-> UNINITIALIZED, captured |-> FALSE,
                  decl |-> nodes])

(* addLocal: the slot is where the next value will be pushed.              *)
AddLocal(o) ==
  Append(locals, [slot |-> o.height, depth |-> UNINITIALIZED, captured |-> FALSE,
                  decl |-> nodes])

----------------------------------------------------------------------------
(* The compile functions.                                                  *)

Doing(d) == phase = "compile" /\ out.ok /\ todo # << >> /\ Head(todo).do = d
Do(items) == todo' = items \o Tail(todo)
Stating == Doing("stmt") \/ Doing("declaration")
Expr == [do |-> "expr"]
Stmt == [do |-> "stmt"]
Op(op) == [do |-> "emit", op |-> op]

Node(construct) == construct \in Grammar /\ nodes < MaxNodes /\ nodes' = nodes + 1
Same == UNCHANGED <<phase, machine>>

(* compileStmt checks at its end that only locals were left on the stack.  *)
Checked(items) == items \o <<[do |-> "check", height |-> out.height, locals |-> Len(locals)]>>

CheckStatement ==
  /\ Doing("check") /\ Same
  /\ out' = [out EXCEPT !.ok =
       ~out.reachable \/ out.height - Head(todo).height = Len(locals) - Head(todo).locals]
  /\ Do(<< >>)
  /\ UNCHANGED <<nodes, locals, depth, loops>>

EmitOperator ==
  /\ Doing("emit") /\ Same
  /\ out' = Emit(out, Head(todo).op, 0)
  /\ Do(<< >>)
  /\ UNCHANGED <<nodes, locals, depth, loops>>

Statements ==
  /\ Doing("stmts") /\ Same
  /\ \/ nodes < MaxNodes /\ Do(<<[do |-> "declaration"], [do |-> "stmts"]>>)
     \/ Do(<< >>)
  /\ UNCHANGED <<nodes, out, locals, depth, loops>>

ExprStmt ==
  /\ Stating /\ Node("expression") /\ Same
  /\ Do(Checked(<<Expr, Op("pop")>>))
  /\ UNCHANGED <<out, locals, depth, loops>>

VarDecl ==
  /\ Doing("declaration") /\ Node("var") /\ Same
  /\ locals' = AddLocal(out)
  /\ Do(Checked(<<Expr, [do |-> "define"]>>))
  /\ UNCHANGED <<out, depth, loops>>

(* The value of a block in statement position is discarded.                *)
BlockValue ==
  /\ Doing("block value") /\ Same
  /\ \/ Node("expression") /\ Do(<<Expr, Op("pop")>>)
     \/ nodes' = nodes /\ Do(<< >>)
  /\ UNCHANGED <<out, locals, depth, loops>>

(* markInitialized, once the initializer is compiled.                      *)
DefineVariable ==
  /\ Doing("define") /\ Same
  /\ locals' = [locals EXCEPT ![Len(locals)].depth = depth]
  /\ out' = Emit(out, "name", Last(locals))
  /\ Do(<< >>)
  /\ UNCHANGED <<nodes, depth, loops>>

Block ==
  /\ Stating /\ Node("block") /\ Same
  /\ depth' = depth + 1
  /\ Do(Checked(<<[do |-> "stmts"], [do |-> "block value"], [do |-> "end scope"]>>))
  /\ UNCHANGED <<out, locals, loops>>

EndScope ==
  /\ Doing("end scope") /\ Same
  /\ depth' = depth - 1
  /\ out' = EmitPops(out, PopsToDepth(depth - 1))
  /\ locals' = Keep(depth - 1)
  /\ Do(<< >>)
  /\ UNCHANGED <<nodes, loops>>

(* compileIf and the NODE_IF of compileExpr; a branch of the latter may be *)
(* a break or a continue, whose value is nil.                              *)
If ==
  /\ Stating /\ Node("if") /\ Same
  /\ \E other \in {<< >>, <<Stmt>>} :
       Do(Checked(<<Expr, [do |-> "then", branch |-> <<Stmt>>, other |-> other]>>))
  /\ UNCHANGED <<out, locals, depth, loops>>

IfExpr ==
  /\ Doing("expr") /\ Node("if expression") /\ Same
  /\ \E branch \in {<<Expr>>, <<[do |-> "jump"], Op("constant")>>} :
       Do(<<Expr, [do |-> "then", branch |-> branch, other |-> <<Expr>>]>>)
  /\ UNCHANGED <<out, locals, depth, loops>>

Then ==
  /\ Doing("then") /\ Same
  /\ out' = EmitTest(out)
  /\ Do(Head(todo).branch \o <<[do |-> "else", p |-> Here(out), other |-> Head(todo).other]>>)
  /\ UNCHANGED <<nodes, locals, depth, loops>>

Else ==
  /\ Doing("else") /\ Same
  /\ out' = Emit(PatchJump(Emit(out, "jump", 0), Head(todo).p), "pop", 0)
  /\ Do(Head(todo).other \o <<[do |-> "patch", p |-> Here(out)]>>)
  /\ UNCHANGED <<nodes, locals, depth, loops>>

Patch ==
  /\ Doing("patch") /\ Same
  /\ out' = PatchJump(out, Head(todo).p)
  /\ Do(<< >>)
  /\ UNCHANGED <<nodes, locals, depth, loops>>

BeginLoop(scopeDepth, target) ==
  loops' = Append(loops, [scopeDepth |-> scopeDepth, continueDepth |-> depth,
                          continueTarget |-> target, breaks |-> {},
                          height |-> out.height - 1, locals |-> Len(locals)])

While ==
  /\ Stating /\ Node("while") /\ Same
  /\ Do(Checked(<<Expr, [do |-> "while", start |-> Here(out)]>>))
  /\ UNCHANGED <<out, locals, depth, loops>>

WhileBody ==
  /\ Doing("while") /\ Same
  /\ out' = EmitTest(out)
  /\ BeginLoop(depth, Head(todo).start)
  /\ Do(<<Stmt, [do |-> "end loop", start |-> Head(todo).start, p |-> Here(out), scope |-> FALSE]>>)
  /\ UNCHANGED <<nodes, locals, depth>>

(* The initializer declares a variable, is an expression, or is missing:   *)
(* there is no scope then.                                                 *)
For ==
  /\ Stating /\ Node("for") /\ Same
  /\ \/ /\ depth' = depth + 1
        /\ locals' = AddLocal(out)
        /\ Do(Checked(Checked(<<Expr, [do |-> "define"]>>) \o <<[do |-> "for", scope |-> TRUE]>>))
     \/ /\ depth' = depth + 1
        /\ locals' = locals
        /\ Do(Checked(Checked(<<Expr, Op("pop")>>) \o <<[do |-> "for", scope |-> TRUE]>>))
     \/ /\ UNCHANGED <<depth, locals>>
        /\ Do(Checked(<<[do |-> "for", scope |-> FALSE]>>))
  /\ UNCHANGED <<out, loops>>

ForCondition ==
  /\ Doing("for") /\ Same
  /\ Do(<<Expr, [do |-> "for exit", start |-> Here(out), scope |-> Head(todo).scope]>>)
  /\ UNCHANGED <<nodes, out, locals, depth, loops>>

OuterDepth(scope) == IF scope THEN depth - 1 ELSE depth

(* With an increment, or without one.                                      *)
ForExit ==
  /\ Doing("for exit") /\ Same
  /\ LET h == Head(todo)
         tested == EmitTest(out)
     IN  \/ /\ out' = Emit(tested, "jump", 0)
            /\ Do(<<Expr, [do |-> "for increment", start |-> h.start, p |-> Here(out),
                              body |-> Here(tested), scope |-> h.scope]>>)
            /\ UNCHANGED loops
         \/ /\ out' = tested
            /\ BeginLoop(OuterDepth(h.scope), h.start)
            /\ Do(<<Stmt, [do |-> "end loop", start |-> h.start, p |-> Here(out),
                              scope |-> h.scope]>>)
  /\ UNCHANGED <<nodes, locals, depth>>

ForIncrement ==
  /\ Doing("for increment") /\ Same
  /\ LET h == Head(todo)
     IN  /\ out' = PatchJump(Emit(Emit(out, "pop", 0), "loop", h.start), h.body)
         /\ BeginLoop(OuterDepth(h.scope), h.body + 1)
         /\ Do(<<Stmt, [do |-> "end loop", start |-> h.body + 1, p |-> h.p, scope |-> h.scope]>>)
  /\ UNCHANGED <<nodes, locals, depth>>

(* The end of compileWhile and compileFor, which closes the scope of its   *)
(* initializer before the breaks are patched to land.                      *)
EndLoop ==
  /\ Doing("end loop") /\ Same
  /\ LET h == Head(todo)
         exited == Emit(PatchJump(Emit(out, "loop", h.start), h.p), "pop", 0)
         closed == IF h.scope THEN EmitPops(exited, PopsToDepth(depth - 1)) ELSE exited
     IN  /\ out' = PatchAll(closed, Last(loops).breaks)
         /\ locals' = IF h.scope THEN Keep(depth - 1) ELSE locals
         /\ depth' = OuterDepth(h.scope)
  /\ loops' = Front(loops)
  /\ Do(<< >>)
  /\ UNCHANGED nodes

(* Nothing but initialized locals of the loop is on the stack.             *)
StatementPosition ==
  /\ out.height - Last(loops).height = Len(locals) - Last(loops).locals
  /\ \A i \in Last(loops).locals + 1..Len(locals) : locals[i].depth # UNINITIALIZED

(* Mutant: pops only what `continue' would.                                *)
BreakToContinueDepth ==
  /\ Same /\ loops # << >> /\ (Plain => StatementPosition)
  /\ LET popped == EmitPops(out, PopsToDepth(Last(loops).continueDepth))
     IN  /\ out' = [Emit(popped, "jump", 0) EXCEPT !.height = out.height]
         /\ loops' = [loops EXCEPT ![Len(loops)].breaks = @ \cup {Here(popped)}]
  /\ UNCHANGED <<locals, depth>>

(* compileStmt restores the height that compileBreak has popped.           *)
Break ==
  /\ Same /\ loops # << >> /\ (Plain => StatementPosition)
  /\ LET popped == EmitPops(out, PopsToDepth(Last(loops).scopeDepth))
     IN  /\ out' = [Emit(popped, "jump", 0) EXCEPT !.height = out.height]
         /\ loops' = [loops EXCEPT ![Len(loops)].breaks = @ \cup {Here(popped)}]
  /\ UNCHANGED <<locals, depth>>

(* Mutant: pops nothing.                                                   *)
ContinueAtOnce ==
  /\ Same /\ loops # << >> /\ (Plain => StatementPosition)
  /\ out' = [Emit(out, "loop", Last(loops).continueTarget) EXCEPT !.height = out.height]
  /\ UNCHANGED <<locals, depth, loops>>

(* emitLoop compares no heights.                                           *)
Continue ==
  /\ Same /\ loops # << >> /\ (Plain => StatementPosition)
  /\ LET popped == EmitPops(out, PopsToDepth(Last(loops).continueDepth))
     IN  out' = [Emit(popped, "loop", Last(loops).continueTarget) EXCEPT !.height = out.height]
  /\ UNCHANGED <<locals, depth, loops>>

Jump ==
  /\ Stating \/ Doing("jump")
  /\ \/ Node("break") /\ Break
     \/ Node("continue") /\ Continue
  /\ Do(<< >>)

Return ==
  /\ Stating /\ Node("return") /\ Same
  /\ Do(<<Expr, [do |-> "return", height |-> out.height]>>)
  /\ UNCHANGED <<out, locals, depth, loops>>

FinishReturn ==
  /\ Doing("return") /\ Same
  /\ out' = [Emit(out, "return", 0) EXCEPT !.height = Head(todo).height]
  /\ Do(<< >>)
  /\ UNCHANGED <<nodes, locals, depth, loops>>

----------------------------------------------------------------------------
Initialized == {i \in DOMAIN locals : locals[i].depth # UNINITIALIZED}

Literal ==
  /\ Doing("expr") /\ Same
  /\ out' = Emit(out, "constant", 0)
  /\ Do(<< >>)
  /\ UNCHANGED <<nodes, locals, depth, loops>>

Variable(i) ==
  /\ Doing("expr") /\ Node("variable") /\ Same
  /\ out' = Emit(out, "get local", locals[i])
  /\ Do(<< >>)
  /\ UNCHANGED <<locals, depth, loops>>

(* The variable of a for loop is popped by the breaks of the loop as what  *)
(* was known of it then, and lives on in the next round.                   *)
PoppedByABreak(i) ==
  \E k \in DOMAIN loops :
    /\ loops[k].breaks # {}
    /\ locals[i].depth \in loops[k].scopeDepth + 1..loops[k].continueDepth

(* resolveUpvalue: a lambda that captures a local of this function.        *)
Lambda(i) ==
  /\ Doing("expr") /\ Node("lambda") /\ Same
  /\ CapturesFirst => ~ PoppedByABreak(i)
  /\ locals' = [locals EXCEPT ![i].captured = TRUE]
  /\ out' = Emit(out, "closure", locals[i])
  /\ Do(<< >>)
  /\ UNCHANGED <<depth, loops>>

(* A local function is initialized before its closure is pushed, so it may *)
(* capture itself.                                                         *)
FunctionDecl(self) ==
  /\ Doing("declaration") /\ Node("fun") /\ Same
  /\ LET added == [Last(AddLocal(out)) EXCEPT !.depth = depth, !.captured = self]
     IN  /\ locals' = Append(locals, added)
         /\ out' = Emit(Emit(out, IF self THEN "closure" ELSE "constant", added), "name", added)
  /\ Do(Checked(<< >>))
  /\ UNCHANGED <<depth, loops>>

Binary ==
  /\ Doing("expr") /\ Node("binary") /\ Same
  /\ Do(<<Expr, Expr, Op("add")>>)
  /\ UNCHANGED <<out, locals, depth, loops>>

And ==
  /\ Doing("expr") /\ Node("and") /\ Same
  /\ Do(<<Expr, [do |-> "and"]>>)
  /\ UNCHANGED <<out, locals, depth, loops>>

AndRight ==
  /\ Doing("and") /\ Same
  /\ out' = EmitTest(out)
  /\ Do(<<Expr, [do |-> "patch", p |-> Here(out)]>>)
  /\ UNCHANGED <<nodes, locals, depth, loops>>

BlockExpr ==
  /\ Doing("expr") /\ Node("block expression") /\ Same
  /\ depth' = depth + 1
  /\ Do(<<[do |-> "stmts"], Expr, [do |-> "close block"]>>)
  /\ UNCHANGED <<out, locals, loops>>

(* Mutant: also counts the block's value.                                  *)
CloseBlockExprOneMore ==
  /\ Doing("close block") /\ Same
  /\ depth' = depth - 1
  /\ out' = Emit(out, "close block", Cardinality(Leaving(depth - 1)) + 1)
  /\ locals' = Keep(depth - 1)
  /\ Do(<< >>)
  /\ UNCHANGED <<nodes, loops>>

CloseBlockExpr ==
  /\ Doing("close block") /\ Same
  /\ depth' = depth - 1
  /\ out' = Emit(out, "close block", Cardinality(Leaving(depth - 1)))
  /\ locals' = Keep(depth - 1)
  /\ Do(<< >>)
  /\ UNCHANGED <<nodes, loops>>

(* endCompiler: the function returns nil at its end.                       *)
EndCompiler ==
  /\ phase = "compile" /\ out.ok /\ todo = << >>
  /\ out' = Emit(Emit(out, "constant", 0), "return", 0)
  /\ phase' = "run"
  /\ UNCHANGED <<compiler, machine>>

Compile ==
  \/ CheckStatement \/ EmitOperator \/ Statements \/ ExprStmt \/ VarDecl \/ DefineVariable
  \/ Block \/ BlockValue \/ EndScope \/ If \/ IfExpr \/ Then \/ Else \/ Patch
  \/ While \/ WhileBody \/ For \/ ForCondition \/ ForExit \/ ForIncrement \/ EndLoop
  \/ Jump \/ Return \/ FinishReturn
  \/ Literal \/ Binary \/ And \/ AndRight \/ BlockExpr \/ CloseBlockExpr \/ EndCompiler
  \/ \E i \in Initialized : Variable(i) \/ Lambda(i)
  \/ \E self \in BOOLEAN : FunctionDecl(self)

Next ==
  \/ Compile
  \/ Execute /\ UNCHANGED compiler

Spec == Init /\ [][Next]_vars
=============================================================================
