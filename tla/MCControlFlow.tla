---------------------------- MODULE MCControlFlow ----------------------------
(* ControlFlow over functions that declare x, do two things of which each  *)
(* may be a branch or a loop around something simple, and read x.          *)
EXTENDS ControlFlow

Other == Exp("other", None, None)
ReadX == Exp("read", None, None)
AssignX == Exp("assign", None, Other)

Simple ==
  {Other, ReadX, AssignX, Exp("assign", None, ReadX), Exp("and", Other, AssignX),
   Exp("pair", AssignX, ReadX), Exp("opaque", ReadX, None),
   Ret(None), Ret(ReadX), Leaf("break"), Leaf("continue")}

Few == {Other, AssignX, Ret(None), Leaf("break"), Leaf("continue")}

Blocks ==
  {Blk(<<a>>, None) : a \in Simple}
  \cup {Blk(<<a>>, b) :
          a \in Few, b \in {Other, ReadX, If(Other, Ret(ReadX), AssignX), If(Other, Ret(None), None)}}
  \cup {Blk(<<Decl(i), AssignX>>, None) : i \in {None, Other}}

Branches == {If(c, Blk(<<a>>, None), b) : c \in {Other, AssignX}, a \in Few,
               b \in {None} \cup {Blk(<<s>>, None) : s \in Few}}

Inner == Few \cup Branches \cup Blocks

Loops ==
  {While(c, Blk(<<a, b>>, None)) : c \in {Other, AssignX}, a \in Inner, b \in Few}
  \cup {For(None, Other, Blk(<<a, b>>, None), i) : a \in Inner, b \in Few, i \in {ReadX, AssignX}}
  \cup {For(s, c, Blk(<<a, b>>, None), i) :
          s \in {AssignX, Decl(None), Decl(Other), Decl(ReadX)}, c \in {Other, ReadX},
          a, b \in Few, i \in {None, ReadX, AssignX}}

(* Jumps out of a loop occur inside one only.                              *)
RECURSIVE Jumps(_)
Jumps(n) ==
  CASE n.k \in {"break", "continue"} -> TRUE
    [] n.k = "if" -> Jumps(n.then) \/ Jumps(n.else)
    [] n.k = "block" -> (\E i \in DOMAIN n.stmts : Jumps(n.stmts[i])) \/ Jumps(n.value)
    [] OTHER -> FALSE

Statements ==
  {n \in Simple \cup Inner : ~Jumps(n)} \cup Loops
  \cup {n \in {If(Other, a, b) : a, b \in Branches} : ~Jumps(n)}

MCFunctions ==
  {Blk(<<Decl(None), s, t, ReadX>>, None) : s \in Statements, t \in {n \in Simple : ~Jumps(n)}}
  \cup {Blk(<<Decl(None), s, t>>, ReadX) : s, t \in {n \in Branches : ~Jumps(n)}}
  \cup {Blk(<<Decl(None), s>>, v) :
          s \in Few \cap Statements, v \in {n \in Statements : n.k \notin {"while", "for", "return"}}}
=============================================================================
