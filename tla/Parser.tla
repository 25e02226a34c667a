------------------------------- MODULE Parser -------------------------------
(***************************************************************************)
(* The parser (src/src/parser.c): recursive descent for declarations,      *)
(* statements and types, precedence climbing for expressions, and recovery *)
(* from errors in panic mode.  A file is a sequence of tokens; one step    *)
(* parses one declaration.  What a rule consumes in a row is a sequence of *)
(* parts that Run goes through: as in the code, a token that is not there  *)
(* is reported and the rule goes on.  Token texts are left out, so that a  *)
(* name is one of Identifiers, a number "num" and a string "str"; lists    *)
(* are shorter than the code's limit of 255.                               *)
(***************************************************************************)
EXTENDS Integers, SequencesExt

CONSTANTS
  Files,        \* the files that may be parsed: a set of sequences of tokens that end in "EOF"
  Identifiers,  \* names
  Reserved      \* the identifiers that start with '@'

VARIABLES
  tokens,  \* the file
  parser,  \* [at, previous, hadError, panicMode, blockDepth, stuck]
  ast      \* the declarations so far

vars == <<tokens, parser, ast>>

(* A node of the tree: what it is, and its children; Word is a name.       *)
Node(k, c) == [k |-> k, c |-> c]
Word(t) == Node("leaf", <<t>>)
None == Node("none", << >>)
NodeIf(c, k) == IF c THEN Node(k, << >>) ELSE None

----------------------------------------------------------------------------
(* Tokens and errors.  Errors count once until the parser is out of panic. *)

Current(p) == tokens[p.at]
Peek(p) == tokens[Min({p.at + 1, Len(tokens)})]
AtEnd(p) == Current(p) = "EOF"
At(p, t) == IF t = "id" THEN Current(p) \in Identifiers ELSE Current(p) = t
AtAny(p, ts) == \E t \in ts : At(p, t)

Error(p) == IF p.panicMode THEN p ELSE [p EXCEPT !.panicMode = TRUE, !.hadError = TRUE]
ErrorIf(p, c) == IF c THEN Error(p) ELSE p

(* Tokens the scanner could not make are reported and skipped.             *)
MoveTo(p, next) == ErrorIf([p EXCEPT !.previous = Current(p), !.at = next], next > p.at + 1)
Advance(p) ==
  MoveTo(p, IF AtEnd(p) THEN p.at ELSE Min({i \in p.at + 1..Len(tokens) : tokens[i] # "error"}))

AdvanceIf(p, t) == IF At(p, t) THEN Advance(p) ELSE p
Consume(p, t) == IF At(p, t) THEN Advance(p) ELSE Error(p)

(* consumeDeclarationIdentifier                                            *)
CheckName(p) == ErrorIf(p, p.previous \in Reserved)
ConsumeName(p) == CheckName(Consume(p, "id"))

Boundaries == {"struct", "impl", "trait", "fun", "var", "let", "pub", "for", "if", "while", "return", "}"}

RECURSIVE SkipToBoundary(_)
SkipToBoundary(p) ==
  IF AtEnd(p) \/ p.previous = ";" \/ Current(p) \in Boundaries THEN p
  ELSE SkipToBoundary(Advance(p))

Synchronize(p) == SkipToBoundary([p EXCEPT !.panicMode = FALSE])
SynchronizeInPanic(p) == IF p.panicMode THEN Synchronize(p) ELSE p

(* Mutant: the token that cannot start anything in a body is kept.         *)
RecoverWithoutAdvance(p) == SynchronizeInPanic(p)

RecoverInBraceBody(p) ==
  LET q == Synchronize(p)
  IN  IF ~p.panicMode THEN p
      ELSE IF ~AtEnd(q) /\ ~At(q, "}") /\ q.at = p.at THEN Synchronize(Advance(q)) ELSE q

----------------------------------------------------------------------------
(* The precedence table.                                                   *)

Assignment == 1
Or == 2
And == 3
Equality == 4
Comparison == 5
Term == 6
Factor == 7
Unary == 8
CallLevel == 9

BinaryLevel ==
  [op \in {"==", "<", "+", "-", "*"} |->
     CASE op = "==" -> Equality [] op = "<" -> Comparison [] op \in {"+", "-"} -> Term [] op = "*" -> Factor]

InfixLevel(t) ==
  CASE t \in DOMAIN BinaryLevel -> BinaryLevel[t]
    [] t \in {"or", "??"} -> Or
    [] t = "and" -> And
    [] t = "as" -> Term
    [] t \in {"(", "{", "[", "."} -> CallLevel
    [] OTHER -> 0

Leaves == {"num", "str", "badstr", "istr", "true", "nil", "self"}
StartsExpression(t) == t \in Leaves \cup Identifiers \cup {"(", "{", "[", "-", "!", "fun", "if", "istart"}

(* Mutant: the right operand takes operators of the same level.            *)
RightOperandAgain(op) == BinaryLevel[op]

RightOperand(op) == BinaryLevel[op] + 1

----------------------------------------------------------------------------
(* Rules as sequences of parts.                                            *)

Tok(t) == [part |-> "token", token |-> t]                \* consume
Id == [part |-> "id"]                                    \* consume an identifier, keep it
Name == [part |-> "name"]                                \* the same for what is declared
Rule(r) == [part |-> "rule", rule |-> r]
Maybe(t, ps) == [part |-> "maybe", token |-> t, parts |-> ps]        \* if (match(t)) ...
Unless(t, r) == [part |-> "unless", token |-> t, rule |-> r]         \* if (!check(t)) ...
Some(r) == [part |-> "some", rule |-> r]                 \* do ... while (match(TOKEN_COMMA))
List(close, r) == [part |-> "list", token |-> close, rule |-> r]     \* the same, unless check(close)

Expression == Rule("expression")
Type == Rule("type")
Typed == Maybe(":", <<Type>>)
Generics == Maybe("[", <<Some("name"), Tok("]")>>)

RECURSIVE Run(_, _), Items(_, _)

(* A result has the parser after it, and one node or the nodes of a row.   *)
One(r) == [p |-> r.p, c |-> <<r.n>>]
Only(r) == [p |-> r.p, n |-> r.c[1]]
In(k, r) == [p |-> r.p, n |-> Node(k, r.c)]
After(c, r) == [p |-> r.p, c |-> c \o r.c]
Taken(p) == [p |-> p, c |-> <<Word(p.previous)>>]

Parse(p, r) == Only(Run(p, <<Rule(r)>>))
Operand(p, level) == Only(Run(p, <<[part |-> "operand", level |-> level]>>))
Build(p, k, parts) == In(k, Run(p, parts))

ItemsAfter(a, r) == IF At(a.p, ",") THEN After(a.c, Items(Advance(a.p), r)) ELSE a
Items(p, r) == ItemsAfter(Run(p, <<Rule(r)>>), r)

----------------------------------------------------------------------------
(* Expressions.                                                            *)

(* A node that ends in what was parsed.                                    *)
Wrap(k, c, r) == [p |-> r.p, n |-> Node(k, Append(c, r.n))]

(* An interpolated string: what follows each `{` up to the last `}`.       *)
RECURSIVE Placeholders(_, _)
AfterPlaceholder(r) ==
  IF At(r.p, "imiddle") THEN Placeholders(Advance(r.p), r.c) ELSE [p |-> Consume(r.p, "iend"), c |-> r.c]

Placeholders(p, parts) ==
  AfterPlaceholder(IF AtAny(p, {"imiddle", "iend"}) THEN [p |-> Error(p), c |-> parts]
                   ELSE After(parts, Run(p, <<Expression>>)))

(* The first token is p.previous.                                          *)
Prefix(p, canAssign) ==
  LET t == p.previous
  IN  CASE t \in Identifiers /\ canAssign /\ At(p, "=") ->
             Wrap("assign", <<Word(t)>>, Parse(Advance(p), "expression"))
        [] t \in Leaves \cup Identifiers -> [p |-> ErrorIf(p, t = "badstr"), n |-> Word(t)]
        [] t = "(" /\ At(p, ")") -> [p |-> Advance(p), n |-> Node("unit", << >>)]
        [] t = "(" -> Build(p, "group", <<Expression, Tok(")")>>)
        [] t \in {"-", "!"} -> Wrap("unary", <<Word(t)>>, Operand(p, Unary))
        [] t = "[" -> Build(p, "array", <<List("]", "expression"), Tok("]")>>)
        [] t = "{" -> Parse(p, "block")
        [] t = "fun" -> Parse(p, "lambda")
        [] t = "if" -> Parse(p, "if")
        [] t = "istart" -> In("interp", Placeholders(p, << >>))
        [] OTHER -> [p |-> p, n |-> None]

(* The fields of a struct initialiser, with a comma after the last or not. *)
RECURSIVE Fields(_, _)
MoreFields(r) == IF At(r.p, ",") THEN Fields(Advance(r.p), r.c) ELSE r

Field(p, fields) ==
  LET again == \E i \in DOMAIN fields : fields[i].c[1] = Word(p.previous)
  IN  After(<<Word(p.previous)>>, Run(ErrorIf(p, again), <<Tok(":"), Expression>>))

Fields(p, fields) ==
  IF At(p, "}") THEN [p |-> p, c |-> fields]
  ELSE MoreFields(After(fields, One(In("field", Field(Consume(p, "id"), fields)))))

IsNamed(n) == n.k = "leaf" /\ n.c[1] \in Identifiers
Initialiser(left, r) ==
  [p |-> Consume(r.p, "}"), n |-> IF IsNamed(left) THEN Node("init", <<left, Node("list", r.c)>>) ELSE left]

Assigned(r, canAssign, get, set) ==
  IF canAssign /\ At(r.p, "=") THEN Wrap(set, r.c, Parse(Advance(r.p), "expression")) ELSE In(get, r)

(* The operator is p.previous.                                             *)
Infix(p, left, canAssign) ==
  LET t == p.previous
  IN  CASE t \in DOMAIN BinaryLevel -> Wrap("binary", <<left, Word(t)>>, Operand(p, RightOperand(t)))
        [] t = "and" -> Wrap("binary", <<left, Word(t)>>, Operand(p, And))
        [] t \in {"or", "??"} -> Wrap("binary", <<left, Word(t)>>, Operand(p, Or))
        [] t = "as" -> Wrap("cast", <<left>>, Parse(p, "type"))
        [] t = "(" -> In("call", After(<<left>>, Run(p, <<List(")", "expression"), Tok(")")>>)))
        [] t = "." -> Assigned(After(<<left>>, Run(p, <<Id>>)), canAssign, "get", "set")
        [] t = "[" -> Assigned(After(<<left>>, Run(p, <<Expression, Tok("]")>>)), canAssign, "index", "indexset")
        [] t = "{" -> Initialiser(left, Fields(ErrorIf(p, ~IsNamed(left)), << >>))

RECURSIVE Climb(_, _, _)
Climb(left, level, canAssign) ==
  IF level <= InfixLevel(Current(left.p))
    THEN Climb(Infix(Advance(left.p), left.n, canAssign), level, canAssign)
    ELSE left

(* What is left of an assignment to something that cannot be assigned.     *)
InvalidTarget(r, canAssign) ==
  IF canAssign /\ At(r.p, "=") THEN [p |-> Error(Advance(r.p)), n |-> r.n] ELSE r

PrecedenceFrom(p, level, canAssign) ==
  IF StartsExpression(p.previous) THEN InvalidTarget(Climb(Prefix(p, canAssign), level, canAssign), canAssign)
  ELSE [p |-> Error(p), n |-> None]

Precedence(p, level) == PrecedenceFrom(Advance(p), level, level <= Assignment)

----------------------------------------------------------------------------
(* Statements.                                                             *)

StatementKeywords == {"while", "for", "return", "break", "continue"}

AfterKeyword(p) ==
  CASE p.previous = "while" -> Build(p, "while", <<Tok("("), Expression, Tok(")"), Rule("statement")>>)
    [] p.previous = "for" -> Build(p, "for", <<Tok("("), Rule("forInit"), Unless(";", "expression"), Tok(";"),
                                               Unless(")", "expression"), Tok(")"), Rule("statement")>>)
    [] p.previous = "return" -> Build(p, "return", <<Unless(";", "expression"), Tok(";")>>)
    [] p.previous = "break" -> Build(p, "break", <<Tok(";")>>)
    [] p.previous = "continue" -> Build(p, "continue", <<Tok(";")>>)
KeywordStatement(p) == AfterKeyword(Advance(p))

(* A branch is an expression or a statement that leaves the branch.        *)
EndBranch(e) == IF At(e.p, ";") /\ Peek(e.p) = "else" THEN [e EXCEPT !.p = Advance(@)] ELSE e
Branch(p) ==
  IF AtAny(p, StatementKeywords) THEN KeywordStatement(p) ELSE EndBranch(Parse(p, "expression"))

(* An `if` or a block at the start of a statement ends it.                 *)
StatementExpression(p) ==
  CASE At(p, "if") -> Parse(Advance(p), "if")
    [] At(p, "{") -> Parse(Advance(p), "block")
    [] OTHER -> Parse(p, "expression")

FinishExpressionStatement(e) ==
  [p |-> IF e.p.previous \in {"}", ";"} THEN AdvanceIf(e.p, ";")
         ELSE IF At(e.p, ";") THEN Advance(e.p) ELSE Error(e.p),
   n |-> IF e.n.k \in {"if", "block"} THEN e.n ELSE Node("expression", <<e.n>>)]

ExpressionStatement(p) == FinishExpressionStatement(StatementExpression(p))

IsExpressionStart(p) == IF At(p, "fun") THEN Peek(p) = "(" ELSE StartsExpression(Current(p))

Synchronized(r) == [r EXCEPT !.p = SynchronizeInPanic(@)]

(* The items of a block.  A round that ends where it began, and in the     *)
(* same mode, would go on forever: stuck.                                  *)
RECURSIVE BlockItems(_, _)
AfterItem(p, items, r) ==
  IF r.p.at = p.at \/ r.p.stuck THEN [p |-> [r.p EXCEPT !.stuck = TRUE], c |-> items, value |-> None]
  ELSE BlockItems(r.p, Append(items, r.n))

AfterExpression(p, items, e) ==
  IF At(e.p, "}") THEN [p |-> e.p, c |-> items, value |-> e.n]
  ELSE AfterItem(p, items, Synchronized(FinishExpressionStatement(e)))

BlockItems(p, items) ==
  CASE At(p, "}") \/ AtEnd(p) -> [p |-> p, c |-> items, value |-> None]
    [] IsExpressionStart(p) -> AfterExpression(p, items, StatementExpression(p))
    [] OTHER -> AfterItem(p, items, Synchronized(Parse(p, "declaration")))

EndBlock(r) ==
  [p |-> [Consume(r.p, "}") EXCEPT !.blockDepth = @ - 1],
   n |-> Node("block", <<Node("list", r.c), r.value>>)]
Block(p) == EndBlock(BlockItems([p EXCEPT !.blockDepth = @ + 1], << >>))

----------------------------------------------------------------------------
(* Declarations.                                                           *)

EndVar(r, isMutable) ==
  [p |-> Consume(ErrorIf(r.p, ~isMutable /\ r.c[3] = None), ";"),
   n |-> Node(IF isMutable THEN "var" ELSE "let", r.c)]
VarDeclaration(p, isMutable) == EndVar(Run(p, <<Name, Typed, Maybe("=", <<Expression>>)>>), isMutable)

(* functionTail: the receiver, the parameters, the return type, the body.  *)
Receiver(p, isMethod) ==
  IF At(p, "self") THEN [p |-> Advance(ErrorIf(p, ~isMethod)), c |-> <<Node("self", << >>)>>]
  ELSE [p |-> p, c |-> <<None>>]

Listed(r) == [p |-> r.p, c |-> <<Node("list", r.c)>>]
ThenParameters(r) ==
  LET hasSelf == r.c # <<None>>
  IN  After(r.c, Listed(IF At(r.p, ")") \/ (hasSelf /\ ~At(r.p, ",")) THEN [p |-> r.p, c |-> << >>]
                        ELSE Items(IF hasSelf THEN Advance(r.p) ELSE r.p, "parameter")))

Then(r, parts) == After(r.c, Run(r.p, parts))
ThenFunctionBody(r, isLambda, signatureOnly) ==
  IF signatureOnly THEN Then(r, <<Tok(";"), Rule("none")>>)
  ELSE IF ~isLambda /\ At(r.p, "=") THEN Then([r EXCEPT !.p = Advance(@)], <<Rule("value")>>)
  ELSE Then(r, <<Tok("{"), Rule("block")>>)

FunctionTail(p, isMethod, isLambda, signatureOnly) ==
  In("tail", ThenFunctionBody(Then(ThenParameters(Receiver(Consume(p, "("), isMethod)), <<Tok(")"), Typed>>),
                              isLambda, signatureOnly))

Parameter(p) == Build(ErrorIf(p, At(p, "self")), "parameter", <<Name, Typed>>)

(* functionDeclaration, after the name.                                    *)
ThenTail(r, isMethod) == After(r.c, One(FunctionTail(r.p, isMethod, FALSE, FALSE)))
FunctionDeclaration(p, isMethod) ==
  In("function", ThenTail(After(<<Word(p.previous)>>, Run(p, <<Generics>>)), isMethod))

(* The members of a struct, impl or trait.                                 *)
RECURSIVE BodyItems(_, _, _)
AfterMember(p, items, a, r) ==
  IF a.p.at = p.at \/ a.p.stuck THEN [p |-> [a.p EXCEPT !.stuck = TRUE], c |-> items]
  ELSE BodyItems(a.p, IF a.n = None THEN items ELSE Append(items, a.n), r)

Recovered(r) == [r EXCEPT !.p = RecoverInBraceBody(@)]
BodyItems(p, items, r) ==
  IF At(p, "}") \/ AtEnd(p) THEN [p |-> p, c |-> items]
  ELSE AfterMember(p, items, Recovered(Parse(p, r)), r)

EndBody(r) == [p |-> Consume(r.p, "}"), c |-> <<Node("list", r.c)>>]
Body(p, r) == EndBody(BodyItems(Consume(p, "{"), << >>, r))

Skipped(p) == [p |-> [p EXCEPT !.panicMode = FALSE], n |-> None]

(* A method in a struct is reported and skipped, with what follows its     *)
(* name parsed so that the rest of the struct still is.                    *)
EndField(kind, isPublic, r) ==
  [p |-> Consume(IF At(r.p, "=") THEN Error(Advance(r.p)) ELSE r.p, ";"),
   n |-> Node("member", <<NodeIf(isPublic, "pub"), Node(kind, Append(r.c, None))>>)]
SkipMethod(p) == Skipped(IF At(p, "id") THEN FunctionDeclaration(Advance(p), TRUE).p ELSE p)

StructMember(p) ==
  LET q == AdvanceIf(p, "pub")
  IN  CASE AtAny(q, {"var", "let"}) -> EndField(Current(q), At(p, "pub"), Run(Advance(q), <<Name, Typed>>))
        [] At(q, "fun") -> SkipMethod(Advance(Error(q)))
        [] OTHER -> [p |-> Error(q), n |-> None]

(* A field in an impl is skipped in the same way.                          *)
SkipInitialiser(p) == AdvanceIf(IF At(p, "=") THEN Parse(Advance(p), "expression").p ELSE p, ";")
SkipField(p) == Skipped(IF At(p, "id") THEN SkipInitialiser(Advance(p)) ELSE p)

ImplMember(p, ofTrait) ==
  LET q == AdvanceIf(p, "pub")
  IN  IF At(q, "var") THEN SkipField(Advance(Error(q)))
      ELSE Wrap("method", <<NodeIf(~ofTrait /\ At(p, "pub"), "pub")>>,
                FunctionDeclaration(ConsumeName(Consume(q, "fun")), TRUE))

Signature(p) == Wrap("signature", <<Word(p.previous)>>, FunctionTail(p, TRUE, FALSE, TRUE))
TraitMember(p) == Signature(ConsumeName(Consume(p, "fun")))

(* A head and a body of members.                                           *)
ThenBody(r, members) == After(r.c, Body(r.p, members))
WithBody(p, k, head, members) == In(k, ThenBody(Run(p, head), members))

ThenImplBody(r) == ThenBody(r, IF r.c[3] = None THEN "implMember" ELSE "traitImplMember")
Impl(p) == In("impl", ThenImplBody(Run(p, <<Id, Generics, Maybe("for", <<Id>>)>>)))

TopLevelOnly == {"struct", "impl", "trait", "type"}

UnlessNested(p) == ErrorIf(p, p.blockDepth > 0 /\ AtAny(p, TopLevelOnly))

DeclarationFrom(p) ==
  LET a == Advance(p)
  IN  CASE At(p, "struct") -> WithBody(a, "struct", <<Name, Generics>>, "structMember")
        [] At(p, "impl") -> Impl(a)
        [] At(p, "trait") -> WithBody(a, "trait", <<Name, Maybe(":", <<Id>>)>>, "traitMember")
        [] At(p, "type") -> Build(a, "alias", <<Name, Generics, Tok("="), Type, Tok(";")>>)
        [] At(p, "fun") /\ Peek(p) # "(" -> FunctionDeclaration(ConsumeName(a), FALSE)
        [] AtAny(p, {"var", "let"}) -> VarDeclaration(a, At(p, "var"))
        [] OTHER -> Parse(p, "statement")

Declaration(p) ==
  Synchronized(DeclarationFrom(UnlessNested(IF At(p, "pub") THEN Advance(Error(p)) ELSE p)))

TypeName == <<Id, Maybe("[", <<Some("type"), Tok("]")>>)>>
ParseType(p) ==
  CASE At(p, "fun") -> Build(Advance(p), "fnType", <<Tok("("), List(")", "type"), Tok(")"), Tok("=>"), Type>>)
    [] At(p, "[") -> Build(Advance(p), "listType", <<Type, Maybe(";", <<Tok("num")>>), Tok("]")>>)
    [] OTHER -> Build(p, "namedType", TypeName)

----------------------------------------------------------------------------
(* The rules by name, and the parts they are made of.                      *)

Production(p, r) ==
  CASE r = "expression" -> Operand(p, Assignment)
    [] r = "type" -> ParseType(p)
    [] r = "name" -> Build(p, "name", <<Name>>)
    [] r = "if" -> Build(p, "if", <<Tok("("), Expression, Tok(")"), Rule("branch"), Maybe("else", <<Rule("branch")>>)>>)
    [] r = "branch" -> Branch(p)
    [] r = "block" -> Block(p)
    [] r = "lambda" -> Wrap("lambda", << >>, FunctionTail(p, FALSE, TRUE, FALSE))
    [] r = "value" -> Build(p, "value", <<Expression, Tok(";")>>)
    [] r = "none" -> [p |-> p, n |-> None]
    [] r = "parameter" -> Parameter(p)
    [] r = "statement" -> IF AtAny(p, StatementKeywords) THEN KeywordStatement(p) ELSE ExpressionStatement(p)
    [] r = "forInit" -> CASE At(p, ";") -> [p |-> Advance(p), n |-> None]
                          [] AtAny(p, {"var", "let"}) -> VarDeclaration(Advance(p), At(p, "var"))
                          [] OTHER -> ExpressionStatement(p)
    [] r = "structMember" -> StructMember(p)
    [] r = "implMember" -> ImplMember(p, FALSE)
    [] r = "traitImplMember" -> ImplMember(p, TRUE)
    [] r = "traitMember" -> TraitMember(p)
    [] r = "declaration" -> Declaration(p)

Part(p, s) ==
  CASE s.part = "token" -> [p |-> Consume(p, s.token), c |-> << >>]
    [] s.part = "id" -> Taken(Consume(p, "id"))
    [] s.part = "name" -> Taken(ConsumeName(p))
    [] s.part = "operand" -> One(Precedence(p, s.level))
    [] s.part = "rule" \/ (s.part = "unless" /\ ~At(p, s.token)) -> One(Production(p, s.rule))
    [] s.part = "maybe" /\ At(p, s.token) -> One(Build(Advance(p), "given", s.parts))
    [] s.part = "some" \/ (s.part = "list" /\ ~At(p, s.token)) -> Listed(Items(p, s.rule))
    [] OTHER -> [p |-> p, c |-> <<None>>]

Run(p, parts) ==
  IF parts = << >> THEN [p |-> p, c |-> << >>] ELSE Then(Part(p, Head(parts)), Tail(parts))

----------------------------------------------------------------------------
(* parse: initParser, then declarations up to the end.                     *)

Started(ts) == Min({i \in 1..Len(ts) : ts[i] # "error"})

Init ==
  /\ tokens \in Files
  /\ parser = [at |-> Started(tokens), previous |-> "start", hadError |-> Started(tokens) > 1,
               panicMode |-> Started(tokens) > 1, blockDepth |-> 0, stuck |-> FALSE]
  /\ ast = << >>

Take(r) ==
  /\ parser' = [r.p EXCEPT !.stuck = @ \/ r.p.at = parser.at]
  /\ ast' = Append(ast, r.n)

ParseDeclaration ==
  /\ ~AtEnd(parser) /\ ~parser.stuck
  /\ Take(Parse(parser, "declaration"))
  /\ UNCHANGED tokens

Next == ParseDeclaration

Spec == Init /\ [][Next]_vars

----------------------------------------------------------------------------
(* Properties.                                                             *)

(* Every round of every loop gets further in the file or leaves the loop,  *)
(* whatever the file is, and the count of open blocks is right again after *)
(* each declaration.                                                       *)
ParsingEnds == ~parser.stuck /\ parser.blockDepth = 0

(* What a tree was parsed from, without ";" and ",".                       *)
RECURSIVE Spell(_)
Spell(n) ==
  LET c == [i \in DOMAIN n.c |-> IF n.k = "leaf" THEN n.c[i] ELSE Spell(n.c[i])]
      after(ts, i) == IF n.c[i] = None THEN << >> ELSE ts \o c[i]
      in(open, i, close) == <<open>> \o c[i] \o <<close>>
      generics(i) == IF n.c[i] = None THEN << >> ELSE in("[", i, "]")
  IN  CASE n.k = "leaf" -> n.c
        [] n.k = "none" -> << >>
        [] n.k \in {"self", "pub", "break", "continue"} -> <<n.k>>
        [] n.k = "unit" -> <<"(", ")">>
        [] n.k = "group" -> in("(", 1, ")")
        [] n.k = "array" -> in("[", 1, "]")
        [] n.k \in {"assign", "cast", "get", "field"} ->
             c[1] \o <<CASE n.k = "assign" -> "=" [] n.k = "cast" -> "as" [] n.k = "get" -> "." [] OTHER -> ":">> \o c[2]
        [] n.k = "call" -> c[1] \o in("(", 2, ")")
        [] n.k = "set" -> c[1] \o <<".">> \o c[2] \o <<"=">> \o c[3]
        [] n.k = "index" -> c[1] \o in("[", 2, "]")
        [] n.k = "indexset" -> c[1] \o in("[", 2, "]") \o <<"=">> \o c[3]
        [] n.k = "init" -> c[1] \o in("{", 2, "}")
        [] n.k = "interp" ->
             FlattenSeq([i \in DOMAIN c |-> <<IF i = 1 THEN "istart" ELSE "imiddle">> \o c[i]]) \o <<"iend">>
        [] n.k = "block" -> <<"{">> \o c[1] \o c[2] \o <<"}">>
        [] n.k = "if" -> <<"if">> \o in("(", 1, ")") \o c[2] \o after(<<"else">>, 3)
        [] n.k = "while" -> <<"while">> \o in("(", 1, ")") \o c[2]
        [] n.k = "for" -> <<"for", "(">> \o c[1] \o c[2] \o c[3] \o <<")">> \o c[4]
        [] n.k = "return" -> <<"return">> \o c[1]
        [] n.k \in {"var", "let"} -> <<n.k>> \o c[1] \o after(<<":">>, 2) \o after(<<"=">>, 3)
        [] n.k = "parameter" -> c[1] \o after(<<":">>, 2)
        [] n.k = "tail" -> <<"(">> \o c[1] \o c[2] \o <<")">> \o after(<<":">>, 3) \o c[4]
        [] n.k = "value" -> <<"=">> \o c[1]
        [] n.k = "lambda" -> <<"fun">> \o c[1]
        [] n.k = "function" -> <<"fun">> \o c[1] \o generics(2) \o c[3]
        [] n.k = "signature" -> <<"fun">> \o c[1] \o c[2]
        [] n.k = "struct" -> <<"struct">> \o c[1] \o generics(2) \o in("{", 3, "}")
        [] n.k = "impl" -> <<"impl">> \o c[1] \o generics(2) \o after(<<"for">>, 3) \o in("{", 4, "}")
        [] n.k = "trait" -> <<"trait">> \o c[1] \o after(<<":">>, 2) \o in("{", 3, "}")
        [] n.k = "alias" -> <<"type">> \o c[1] \o generics(2) \o <<"=">> \o c[3]
        [] n.k = "fnType" -> <<"fun">> \o in("(", 1, ")") \o <<"=>">> \o c[2]
        [] n.k = "listType" -> <<"[">> \o c[1] \o after(<<"num">>, 2) \o <<"]">>
        [] n.k = "namedType" -> c[1] \o generics(2)
        [] OTHER -> FlattenSeq(c)

(* Operands: a call, a sum ... may only stand where its level allows it,   *)
(* and a left operand does not end in the branch of an if, which would     *)
(* have taken the operator for itself.                                     *)
Level(n) ==
  CASE n.k = "binary" -> InfixLevel(n.c[2].c[1])
    [] n.k = "cast" -> Term
    [] n.k = "unary" -> Unary
    [] n.k \in {"assign", "set", "indexset"} -> Assignment
    [] OTHER -> CallLevel

RECURSIVE EndsOpen(_), WellShaped(_)
EndsOpen(n) ==
  CASE n.k = "if" -> IF n.c[3] # None THEN n.c[3].c[1].k \notin StatementKeywords ELSE n.c[2].k \notin StatementKeywords
    [] n.k \in {"unary", "binary"} -> EndsOpen(n.c[Len(n.c)])
    [] OTHER -> FALSE

LeftOperand(n, level) == Level(n) >= level /\ ~EndsOpen(n)

WellShaped(n) ==
  /\ n.k # "leaf" => \A i \in DOMAIN n.c : WellShaped(n.c[i])
  /\ n.k = "binary" =>
       IF Level(n) \in {Or, And}
         THEN LeftOperand(n.c[1], Level(n) + 1) /\ Level(n.c[3]) >= Level(n)
         ELSE LeftOperand(n.c[1], Level(n)) /\ Level(n.c[3]) > Level(n)
  /\ n.k = "cast" => LeftOperand(n.c[1], Term)
  /\ n.k = "unary" => Level(n.c[2]) >= Unary
  /\ n.k \in {"call", "get", "set", "index", "indexset"} => LeftOperand(n.c[1], CallLevel)

(* A file that is parsed without an error is the tree that was made of it: *)
(* no token was skipped or taken twice, and the operators bind as the      *)
(* precedence table says.                                                  *)
TreesMatchTheirTokens ==
  AtEnd(parser) /\ ~parser.hadError =>
    /\ FlattenSeq([i \in DOMAIN ast |-> Spell(ast[i])])
         = SelectSeq(tokens, LAMBDA t : t \notin {";", ",", "EOF"})
    /\ \A i \in DOMAIN ast : WellShaped(ast[i])

(* "An `if` or block ends the statement, so a following '{' or '(' starts  *)
(* a new one": a branch in braces of an if at the start of a statement is  *)
(* the whole branch.                                                       *)
RECURSIVE StartsWithBlock(_)
StartsWithBlock(n) ==
  \/ n.k = "block"
  \/ n.k \in {"call", "index", "indexset", "get", "set", "cast", "binary"} /\ StartsWithBlock(n.c[1])

IfEndsTheStatement ==
  \A i \in DOMAIN ast : ast[i].k = "if" /\ StartsWithBlock(ast[i].c[2]) => ast[i].c[2].k = "block"
=============================================================================
