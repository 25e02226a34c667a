-------------------------- MODULE LoopCompilerProofs --------------------------
(***************************************************************************)
(* A plain program of any size compiles without an internal error, and at  *)
(* every instruction on every path the stack has the height the compiler   *)
(* counted.                                                                *)
(*                                                                         *)
(* The heart of the invariant is a plan: a place (operands, locals, depth, *)
(* loops) for every item that is left to compile, such that each item      *)
(* leads from its place to the next one's, and what it remembers of the    *)
(* code fits its place.  Each step of the compiler takes the first item    *)
(* off the plan and puts others in front.                                  *)
(***************************************************************************)
EXTENDS LoopCompiler, FiniteSetTheorems, SequenceTheorems, TLAPS

----------------------------------------------------------------------------
(* The code.                                                               *)

Ops == {"constant", "get local", "closure", "add", "pop", "close upvalue", "return",
        "close block", "name", "jump if false", "jump", "loop"}
Flowing == Ops \ {"jump", "loop", "return"}
Awaiting == {"jump", "jump if false"}
Slots == [slot : Int, depth : Int, captured : BOOLEAN, decl : Int]
Instructions == [op : Ops, arg : Int \cup Slots, height : Nat]
Outs == [code : Seq(Instructions), height : Nat, reachable : BOOLEAN, ok : BOOLEAN]

(* The height at a position, the end of the code so far included.          *)
HeightAt(o, t) == IF t <= Len(o.code) THEN o.code[t].height ELSE o.height

(* Heights agree along the text and along a jump that goes somewhere.      *)
Sound(o, q) ==
  /\ o.code[q].op \in Flowing =>
       HeightAt(o, q + 1) = o.code[q].height + Effect(o.code[q].op, o.code[q].arg)
  /\ o.code[q].op = "close block" =>
       /\ o.code[q].arg \in Nat
       /\ o.code[q].height > o.code[q].arg
  /\ o.code[q].op \in Awaiting \cup {"loop"} =>
       \/ o.code[q].arg = 0 /\ o.code[q].op # "loop"
       \/ /\ o.code[q].arg \in 1..Len(o.code) + 1
          /\ HeightAt(o, o.code[q].arg) = o.code[q].height

CodeOK(o) ==
  /\ o \in Outs /\ o.ok /\ HeightAt(o, 1) = 1
  /\ \A q \in 1..Len(o.code) : Sound(o, q)

(* The jumps that do not go anywhere yet.                                  *)
Unresolved(o) == {q \in 1..Len(o.code) : o.code[q].op \in Awaiting /\ o.code[q].arg = 0}

(* Nothing that was known of the code changes but where jumps go.          *)
Grows(o, o2) ==
  /\ Len(o.code) <= Len(o2.code)
  /\ \A t \in 1..Len(o.code) + 1 : HeightAt(o2, t) = HeightAt(o, t)
  /\ \A q \in 1..Len(o.code) : o2.code[q].op = o.code[q].op

(* What is asked of an instruction that is emitted.                        *)
MayEmit(o, op, arg) ==
  /\ op \in Ops /\ arg \in Int \cup Slots
  /\ o.height + Effect(op, arg) \in Nat
  /\ op = "close block" => arg \in Nat /\ o.height > arg
  /\ op \in Awaiting => arg = 0
  /\ op = "loop" => arg \in 1..Len(o.code) + 1 /\ HeightAt(o, arg) = o.height

LEMMA OutFacts ==
  ASSUME NEW o, CodeOK(o)
  PROVE  /\ o \in Outs /\ o.ok /\ Len(o.code) \in Nat /\ o.code \in Seq(Instructions)
         /\ o.height \in Nat /\ o.reachable \in BOOLEAN
         /\ \A t \in 1..Len(o.code) + 1 : HeightAt(o, t) \in Nat
         /\ \A q \in 1..Len(o.code) :
              /\ o.code[q] \in Instructions /\ o.code[q].op \in Ops
              /\ o.code[q].arg \in Int \cup Slots
              /\ o.code[q].height \in Nat /\ o.code[q].height = HeightAt(o, q)
<1>1. o \in Outs /\ o.ok
  BY DEF CodeOK
<1>2. o.code \in Seq(Instructions) /\ o.height \in Nat /\ o.reachable \in BOOLEAN
  BY <1>1 DEF Outs
<1>3. Len(o.code) \in Nat /\ \A q \in 1..Len(o.code) : o.code[q] \in Instructions
  BY <1>2
<1>4. \A i \in Instructions : i.op \in Ops /\ i.arg \in Int \cup Slots /\ i.height \in Nat
  BY DEF Instructions
<1>5. \A q \in 1..Len(o.code) : o.code[q].height = HeightAt(o, q)
  BY <1>3 DEF HeightAt
<1>6. \A t \in 1..Len(o.code) + 1 : HeightAt(o, t) \in Nat
  BY <1>2, <1>3, <1>4 DEF HeightAt
<1> QED BY <1>1, <1>2, <1>3, <1>4, <1>5, <1>6

LEMMA EmitKeeps ==
  ASSUME NEW o, CodeOK(o), NEW op, NEW arg, MayEmit(o, op, arg)
  PROVE  LET e == Emit(o, op, arg)
         IN  /\ CodeOK(e) /\ Grows(o, e)
             /\ e.height = o.height + Effect(op, arg) /\ Len(e.code) = Len(o.code) + 1
             /\ e.code[Len(o.code) + 1].op = op /\ e.code[Len(o.code) + 1].height = o.height
             /\ e.reachable <=> (o.reachable /\ op \notin {"jump", "loop", "return"})
             /\ Unresolved(e) = Unresolved(o) \cup (IF op \in Awaiting THEN {Len(o.code) + 1} ELSE {})
<1> DEFINE e == Emit(o, op, arg)
           n == Len(o.code)
           i == [op |-> op, arg |-> arg, height |-> o.height]
           still == o.reachable /\ op \notin {"jump", "loop", "return"}
           after == o.height + Effect(op, arg)
<1>1. o \in Outs /\ o.ok /\ n \in Nat /\ o.code \in Seq(Instructions)
      /\ o.height \in Nat /\ o.reachable \in BOOLEAN
  BY OutFacts
<1>2. /\ op \in Ops /\ arg \in Int \cup Slots /\ after \in Nat
      /\ (op = "close block" => arg \in Nat /\ o.height > arg)
      /\ (op \in Awaiting => arg = 0)
      /\ (op = "loop" => arg \in 1..n + 1 /\ HeightAt(o, arg) = o.height)
  BY DEF MayEmit
<1>3. i \in Instructions
  BY <1>1, <1>2 DEF Instructions
<1>4. e = [o EXCEPT !.code = Append(@, i), !.height = @ + Effect(op, arg), !.reachable = still]
  BY DEF Emit
<1>5. e.code = Append(o.code, i) /\ e.height = after /\ (e.reachable <=> still) /\ e.ok = o.ok
  BY <1>1, <1>4 DEF Outs
<1>6. Append(o.code, i) \in Seq(Instructions) /\ still \in BOOLEAN
  BY <1>1, <1>3
<1>7. /\ Len(e.code) = n + 1 /\ e.code[n + 1] = i
      /\ \A q \in 1..n : e.code[q] = o.code[q]
  BY <1>1, <1>3, <1>5
<1> HIDE DEF i, still
<1>8. e \in Outs
  <2>1. [o EXCEPT !.code = Append(@, i), !.height = @ + Effect(op, arg), !.reachable = still] \in Outs
    BY <1>1, <1>2, <1>6 DEF Outs
  <2> QED BY <1>4, <2>1
<1> HIDE DEF e, after
<1>9. \A t \in 1..n + 1 : HeightAt(e, t) = HeightAt(o, t)
  BY <1>1, <1>7 DEF HeightAt, i
<1>10. Grows(o, e)
  BY <1>1, <1>7, <1>9 DEF Grows
<1>11. HeightAt(e, n + 2) = e.height
  BY <1>1, <1>7 DEF HeightAt
<1>12. ASSUME NEW q \in 1..n + 1 PROVE Sound(e, q)
  <2>1. CASE q \in 1..n
    <3>1. e.code[q] = o.code[q] /\ HeightAt(e, q + 1) = HeightAt(o, q + 1)
      BY <1>1, <1>7, <1>9, <2>1
    <3>2. Sound(o, q)
      BY <2>1 DEF CodeOK
    <3>3. \A t \in 1..n + 1 : t \in 1..Len(e.code) + 1
      BY <1>1, <1>7
    <3> QED BY <1>9, <3>1, <3>2, <3>3 DEF Sound
  <2>2. CASE q = n + 1
    <3>1. e.code[q].op = op /\ e.code[q].arg = arg /\ e.code[q].height = o.height
          /\ HeightAt(e, q + 1) = o.height + Effect(op, arg)
      BY <1>1, <1>5, <1>7, <1>11, <2>2 DEF i, after
    <3>2. op = "loop" => /\ arg \in 1..Len(e.code) + 1 /\ HeightAt(e, arg) = o.height
      BY <1>1, <1>2, <1>7, <1>9
    <3> QED BY <1>2, <3>1, <3>2 DEF Sound, Awaiting
  <2> QED BY <1>1, <2>1, <2>2
<1>13. CodeOK(e)
  <2>1. HeightAt(e, 1) = 1
    BY <1>1, <1>9 DEF CodeOK
  <2> QED BY <1>1, <1>5, <1>7, <1>8, <1>12, <2>1 DEF CodeOK
<1>14. Unresolved(e) = Unresolved(o) \cup (IF op \in Awaiting THEN {n + 1} ELSE {})
  <2>1. \A q : q \in 1..Len(e.code) <=> q \in 1..n \/ q = n + 1
    BY <1>1, <1>7
  <2>2. e.code[n + 1].op = op /\ e.code[n + 1].arg = arg
    BY <1>7 DEF i
  <2>3. n + 1 \notin 1..n
    BY <1>1
  <2>4. ASSUME NEW q
        PROVE  q \in Unresolved(e) <=> (q \in Unresolved(o) \/ (op \in Awaiting /\ q = n + 1))
    BY <1>2, <1>7, <2>1, <2>2, <2>3 DEF Unresolved
  <2> QED BY <2>4
<1>15. e.code[n + 1].op = op /\ e.code[n + 1].height = o.height
  BY <1>7 DEF i
<1> QED BY <1>5, <1>7, <1>10, <1>13, <1>14, <1>15 DEF e, still, after

(* What compiling a jump leaves behind: the height that counts from there   *)
(* on is another one, for nothing comes to the end of the code yet.         *)
LEMMA Abandon ==
  ASSUME NEW o, CodeOK(o), NEW op \in {"jump", "loop", "return"}, NEW arg, MayEmit(o, op, arg),
         NEW h \in Nat
  PROVE  LET e == [Emit(o, op, arg) EXCEPT !.height = h]
         IN  /\ CodeOK(e) /\ Grows(o, e)
             /\ e.height = h /\ Len(e.code) = Len(o.code) + 1 /\ e.code = Emit(o, op, arg).code
             /\ e.code[Len(o.code) + 1].op = op /\ e.code[Len(o.code) + 1].height = o.height
             /\ ~ e.reachable
             /\ Unresolved(e) = Unresolved(o) \cup (IF op \in Awaiting THEN {Len(o.code) + 1} ELSE {})
<1> DEFINE m == Emit(o, op, arg)
           e == [m EXCEPT !.height = h]
           n == Len(o.code)
<1>1. /\ CodeOK(m) /\ Grows(o, m) /\ Len(m.code) = n + 1
      /\ m.code[n + 1].op = op /\ m.code[n + 1].height = o.height
      /\ ~ m.reachable
      /\ Unresolved(m) = Unresolved(o) \cup (IF op \in Awaiting THEN {n + 1} ELSE {})
  BY EmitKeeps
<1>2. m \in Outs /\ n \in Nat /\ m.ok /\ o.code \in Seq(Instructions)
  BY <1>1, OutFacts
<1>3. m.code = Append(o.code, [op |-> op, arg |-> arg, height |-> o.height])
  BY OutFacts DEF Emit, Outs
<1>4. m.code[n + 1].arg = arg /\ \A q \in 1..n : m.code[q] = o.code[q]
  BY <1>2, <1>3
<1> HIDE DEF m
<1>5. e \in Outs /\ e.code = m.code /\ e.height = h /\ e.ok /\ ~ e.reachable
  BY <1>1, <1>2 DEF Outs
<1> HIDE DEF e
<1>6. \A t \in 1..n + 1 : HeightAt(e, t) = HeightAt(m, t) /\ HeightAt(m, t) = HeightAt(o, t)
  BY <1>1, <1>2, <1>5 DEF HeightAt, Grows
<1>7. Grows(o, e)
  BY <1>1, <1>2, <1>5, <1>6 DEF Grows
<1>8. \A t \in 1..n + 1 : t \in 1..Len(e.code) + 1
  BY <1>1, <1>2, <1>5
<1>9. ASSUME NEW q \in 1..n + 1 PROVE Sound(e, q)
  <2>1. CASE q \in 1..n
    <3>1. e.code[q] = o.code[q] /\ HeightAt(e, q + 1) = HeightAt(o, q + 1)
      BY <1>2, <1>4, <1>5, <1>6, <2>1
    <3>2. Sound(o, q)
      BY <2>1 DEF CodeOK
    <3> QED BY <1>6, <1>8, <3>1, <3>2 DEF Sound
  <2>2. CASE q = n + 1
    <3>1. e.code[q].op = op /\ e.code[q].arg = arg /\ e.code[q].height = o.height
      BY <1>1, <1>4, <1>5, <2>2
    <3>2. op = "loop" => arg \in 1..n + 1 /\ HeightAt(o, arg) = o.height
      BY DEF MayEmit
    <3>3. op = "jump" => arg = 0
      BY DEF MayEmit, Awaiting
    <3> QED BY <1>6, <1>8, <3>1, <3>2, <3>3 DEF Sound, Flowing, Awaiting
  <2> QED BY <1>2, <2>1, <2>2
<1>10. CodeOK(e)
  <2>1. HeightAt(e, 1) = 1
    BY <1>2, <1>6 DEF CodeOK
  <2> QED BY <1>1, <1>5, <1>9, <2>1 DEF CodeOK
<1>11. Unresolved(e) = Unresolved(m)
  BY <1>5 DEF Unresolved
<1> QED BY <1>1, <1>5, <1>7, <1>10, <1>11 DEF e, m

(* Jumps that come to the end of the code, at the height counted there.     *)
Lands(o, e, ps) ==
  \A q \in 1..Len(o.code) :
    /\ e.code[q].op = o.code[q].op /\ e.code[q].height = o.code[q].height
    /\ q \notin ps => e.code[q].arg = o.code[q].arg
    /\ q \in ps => /\ o.code[q].op \in Awaiting /\ o.code[q].height = o.height
                   /\ e.code[q].arg = Len(o.code) + 1

LEMMA Land ==
  ASSUME NEW o, CodeOK(o), NEW ps, NEW e \in Outs, e.ok,
         Len(e.code) = Len(o.code), e.height = o.height,
         Lands(o, e, ps)
  PROVE  CodeOK(e) /\ Grows(o, e) /\ Unresolved(e) = Unresolved(o) \ ps
<1> DEFINE n == Len(o.code)
<1>0. \A q \in 1..n :
        /\ e.code[q].op = o.code[q].op /\ e.code[q].height = o.code[q].height
        /\ q \notin ps => e.code[q].arg = o.code[q].arg
        /\ q \in ps => /\ o.code[q].op \in Awaiting /\ o.code[q].height = o.height
                       /\ e.code[q].arg = n + 1
  BY DEF Lands
<1>1. n \in Nat /\ HeightAt(o, n + 1) = o.height
  BY OutFacts DEF HeightAt
<1>2. \A t \in 1..n + 1 : HeightAt(e, t) = HeightAt(o, t)
  BY <1>0, <1>1 DEF HeightAt
<1>3. Grows(o, e)
  BY <1>0, <1>1, <1>2 DEF Grows
<1>4. ASSUME NEW q \in 1..n PROVE Sound(e, q)
  <2>1. Sound(o, q) /\ HeightAt(e, q + 1) = HeightAt(o, q + 1)
    BY <1>1, <1>2 DEF CodeOK
  <2>2. CASE q \notin ps
    <3>1. e.code[q].op = o.code[q].op /\ e.code[q].height = o.code[q].height
          /\ e.code[q].arg = o.code[q].arg
      BY <1>0, <2>2
    <3> QED BY <1>2, <2>1, <3>1 DEF Sound
  <2>3. CASE q \in ps
    <3>1. /\ e.code[q].op \in Awaiting /\ e.code[q].op = o.code[q].op
          /\ e.code[q].height = o.height /\ o.code[q].height = o.height
          /\ e.code[q].arg = n + 1 /\ HeightAt(e, n + 1) = o.height /\ n + 1 \in 1..n + 1
      BY <1>0, <1>1, <1>2, <2>3
    <3>2. e.code[q].op \in Flowing =>
            HeightAt(e, q + 1) = e.code[q].height + Effect(e.code[q].op, e.code[q].arg)
      <4>1. CASE e.code[q].op = "jump"
        BY <4>1 DEF Flowing
      <4>2. CASE e.code[q].op = "jump if false"
        <5>1. Effect("jump if false", e.code[q].arg) = 0 /\ Effect("jump if false", o.code[q].arg) = 0
          BY DEF Effect
        <5>2. "jump if false" \in Flowing
          BY DEF Flowing, Ops
        <5> QED BY <2>1, <3>1, <4>2, <5>1, <5>2 DEF Sound
      <4> QED BY <3>1, <4>1, <4>2 DEF Awaiting
    <3>3. e.code[q].op # "close block"
      BY <3>1 DEF Awaiting
    <3> QED BY <3>1, <3>2, <3>3 DEF Sound
  <2> QED BY <2>2, <2>3
<1>5. CodeOK(e)
  <2>1. HeightAt(e, 1) = 1
    BY <1>1, <1>2 DEF CodeOK
  <2> QED BY <1>4, <2>1 DEF CodeOK
<1>6. ASSUME NEW q PROVE q \in Unresolved(e) <=> q \in Unresolved(o) /\ q \notin ps
  <2>1. CASE q \in 1..n /\ q \in ps
    BY <1>0, <1>1, <2>1 DEF Unresolved
  <2>2. CASE q \in 1..n /\ q \notin ps
    BY <1>0, <2>2 DEF Unresolved
  <2> QED BY <2>1, <2>2 DEF Unresolved
<1> QED BY <1>3, <1>5, <1>6

Patchable(o, p, h) ==
  p \in 1..Len(o.code) /\ o.code[p].op \in Awaiting /\ o.code[p].height = h

LEMMA PatchFields ==
  ASSUME NEW o \in Outs, o.ok, NEW p \in 1..Len(o.code), NEW h \in Nat, o.code[p].height = h,
         o.reachable => o.height = h
  PROVE  LET e == PatchJump(o, p)
         IN  /\ e \in Outs /\ e.ok /\ e.height = h /\ e.reachable
             /\ Len(e.code) = Len(o.code)
             /\ \A q \in 1..Len(o.code) :
                  /\ e.code[q].op = o.code[q].op /\ e.code[q].height = o.code[q].height
                  /\ e.code[q].arg = IF q = p THEN Len(o.code) + 1 ELSE o.code[q].arg
<1> DEFINE agreed == IF o.reachable
                       THEN [o EXCEPT !.ok = @ /\ o.height = o.code[p].height]
                       ELSE [o EXCEPT !.height = o.code[p].height, !.reachable = TRUE]
           e == [agreed EXCEPT !.code[p].arg = Len(o.code) + 1]
<1>1. PatchJump(o, p) = e
  <2>1. Here(o) = Len(o.code) + 1
    BY DEF Here
  <2> QED BY <2>1 DEF PatchJump
<1>2. agreed \in Outs /\ agreed.code = o.code /\ agreed.ok /\ agreed.height = h /\ agreed.reachable
  <2>1. CASE o.reachable
    <3>1. agreed = [o EXCEPT !.ok = @ /\ o.height = o.code[p].height]
      BY <2>1
    <3> QED BY <2>1, <3>1 DEF Outs
  <2>2. CASE ~ o.reachable
    <3>1. agreed = [o EXCEPT !.height = o.code[p].height, !.reachable = TRUE]
      BY <2>2
    <3> QED BY <2>2, <3>1 DEF Outs
  <2> QED BY <2>1, <2>2
<1> HIDE DEF agreed
<1>3. o.code \in Seq(Instructions) /\ Len(o.code) \in Nat /\ o.code[p] \in Instructions
  BY DEF Outs
<1> DEFINE i == [o.code[p] EXCEPT !.arg = Len(o.code) + 1]
<1>4. i \in Instructions /\ i.op = o.code[p].op /\ i.height = o.code[p].height
      /\ i.arg = Len(o.code) + 1
  BY SMTT(30), <1>3 DEF Instructions
<1>5. e = [agreed EXCEPT !.code = [o.code EXCEPT ![p] = i]]
  BY <1>2
<1> HIDE DEF i
<1>6. [o.code EXCEPT ![p] = i] \in Seq(Instructions)
  BY <1>3, <1>4
<1> HIDE DEF e
<1>7. e \in Outs /\ e.code = [o.code EXCEPT ![p] = i]
      /\ e.ok /\ e.height = h /\ e.reachable
  BY <1>2, <1>5, <1>6 DEF Outs
<1>8. Len(e.code) = Len(o.code) /\ \A q \in 1..Len(o.code) :
        e.code[q] = IF q = p THEN i ELSE o.code[q]
  BY <1>3, <1>6, <1>7
<1> QED BY <1>1, <1>4, <1>7, <1>8

(* patchJump where the two ways in agree.                                   *)
LEMMA PatchKeeps ==
  ASSUME NEW o, CodeOK(o), NEW p, Patchable(o, p, o.height)
  PROVE  LET e == PatchJump(o, p)
         IN  /\ CodeOK(e) /\ Grows(o, e)
             /\ e.height = o.height /\ Len(e.code) = Len(o.code) /\ e.reachable
             /\ Unresolved(e) = Unresolved(o) \ {p}
<1> DEFINE e == PatchJump(o, p)
<1>1. o \in Outs /\ o.ok /\ o.height \in Nat
  BY OutFacts
<1>2. p \in 1..Len(o.code) /\ o.code[p].op \in Awaiting /\ o.code[p].height = o.height
  BY DEF Patchable
<1>3. /\ e \in Outs /\ e.ok /\ e.height = o.height /\ e.reachable
      /\ Len(e.code) = Len(o.code)
      /\ \A q \in 1..Len(o.code) :
           /\ e.code[q].op = o.code[q].op /\ e.code[q].height = o.code[q].height
           /\ e.code[q].arg = IF q = p THEN Len(o.code) + 1 ELSE o.code[q].arg
  BY <1>1, <1>2, PatchFields
<1> HIDE DEF e
<1>4. CodeOK(e) /\ Grows(o, e) /\ Unresolved(e) = Unresolved(o) \ {p}
  <2> DEFINE ps == {p}
  <2>1. Lands(o, e, ps)
    BY <1>2, <1>3 DEF Lands
  <2> HIDE DEF ps
  <2>2. CodeOK(e) /\ Grows(o, e) /\ Unresolved(e) = Unresolved(o) \ ps
    BY <1>3, <2>1, Land
  <2> QED BY <2>2 DEF ps
<1> QED BY <1>3, <1>4 DEF e

(* A jump or loop, and right behind it the landing of another jump: the     *)
(* height is the one the other jump was compiled at.                        *)
LEMMA JumpOver ==
  ASSUME NEW o, CodeOK(o), NEW op \in {"jump", "loop"}, NEW arg, MayEmit(o, op, arg),
         NEW p, NEW h, Patchable(o, p, h)
  PROVE  LET e == PatchJump(Emit(o, op, arg), p)
         IN  /\ CodeOK(e) /\ Grows(o, e) /\ e.height = h /\ e.reachable
             /\ Len(e.code) = Len(o.code) + 1
             /\ e.code[Len(o.code) + 1].op = op /\ e.code[Len(o.code) + 1].height = o.height
             /\ Unresolved(e) = (Unresolved(o)
                                  \cup (IF op \in Awaiting THEN {Len(o.code) + 1} ELSE {})) \ {p}
<1> DEFINE n == Len(o.code)
           m == Emit(o, op, arg)
           f == [m EXCEPT !.height = h]
           e == PatchJump(m, p)
           U == Unresolved(o) \cup (IF op \in Awaiting THEN {n + 1} ELSE {})
<1>1. p \in 1..n /\ o.code[p].op \in Awaiting /\ o.code[p].height = h /\ h \in Nat /\ n \in Nat
  BY OutFacts DEF Patchable
<1>2. /\ CodeOK(f) /\ Grows(o, f) /\ f.height = h /\ Len(f.code) = n + 1 /\ f.code = m.code
      /\ f.code[n + 1].op = op /\ f.code[n + 1].height = o.height /\ ~ f.reachable
      /\ Unresolved(f) = U
  BY <1>1, Abandon
<1>3. CodeOK(m) /\ Grows(o, m) /\ ~ m.reachable
  BY EmitKeeps
<1>4. m \in Outs /\ m.ok
  BY <1>3, OutFacts
<1> HIDE DEF m, U
<1>5. HeightAt(o, p) = h /\ HeightAt(f, p) = HeightAt(o, p) /\ f.code[p].op = o.code[p].op
      /\ p \in 1..n + 1
  BY <1>1, <1>2 DEF HeightAt, Grows
<1>6. m.code[p].height = h /\ m.code[p].op \in Awaiting
  BY <1>1, <1>2, <1>5 DEF HeightAt
<1>7. /\ e \in Outs /\ e.ok /\ e.height = h /\ e.reachable
      /\ Len(e.code) = n + 1
      /\ \A q \in 1..n + 1 :
           /\ e.code[q].op = m.code[q].op /\ e.code[q].height = m.code[q].height
           /\ e.code[q].arg = IF q = p THEN n + 2 ELSE m.code[q].arg
  <2>1. Len(m.code) = n + 1 /\ Len(m.code) + 1 = n + 2
    BY <1>1, <1>2
  <2>2. p \in 1..Len(m.code)
    BY <1>5, <2>1
  <2>3. /\ e \in Outs /\ e.ok /\ e.height = h /\ e.reachable
        /\ Len(e.code) = Len(m.code)
        /\ \A q \in 1..Len(m.code) :
             /\ e.code[q].op = m.code[q].op /\ e.code[q].height = m.code[q].height
             /\ e.code[q].arg = IF q = p THEN Len(m.code) + 1 ELSE m.code[q].arg
    BY <1>1, <1>3, <1>4, <1>6, <2>2, PatchFields
  <2> QED BY <2>1, <2>3
<1> HIDE DEF e, f
<1>8. CodeOK(e) /\ Grows(f, e) /\ Unresolved(e) = Unresolved(f) \ {p}
  <2> DEFINE ps == {p}
  <2>0. Len(f.code) = n + 1 /\ Len(f.code) + 1 = n + 2
    BY <1>1, <1>2
  <2>1. Lands(f, e, ps)
    BY <1>1, <1>2, <1>6, <1>7, <2>0 DEF Lands
  <2> HIDE DEF ps
  <2>2. CodeOK(e) /\ Grows(f, e) /\ Unresolved(e) = Unresolved(f) \ ps
    BY <1>2, <1>7, <2>0, <2>1, Land
  <2> QED BY <2>2 DEF ps
<1>9. Grows(o, e)
  BY <1>1, <1>2, <1>7, <1>8 DEF Grows
<1>10. e.code[n + 1].op = op /\ e.code[n + 1].height = o.height
  BY SMTT(30), <1>1, <1>2, <1>7
<1>11. Unresolved(e) = U \ {p}
  BY <1>2, <1>8
<1> QED BY <1>7, <1>8, <1>9, <1>10, <1>11 DEF e, m, U

(* The end of a loop, where its breaks agree with the way out of it.        *)
LEMMA PatchAllKeeps ==
  ASSUME NEW o, CodeOK(o), NEW ps, o.reachable, \A p \in ps : Patchable(o, p, o.height)
  PROVE  LET e == PatchAll(o, ps)
         IN  /\ CodeOK(e) /\ Grows(o, e) /\ e.height = o.height /\ e.reachable
             /\ Len(e.code) = Len(o.code)
             /\ Unresolved(e) = Unresolved(o) \ ps
<1> DEFINE n == Len(o.code)
           code == [i \in DOMAIN o.code |->
                      IF i \in ps THEN [o.code[i] EXCEPT !.arg = n + 1] ELSE o.code[i]]
           e == [o EXCEPT !.code = code, !.height = o.height, !.reachable = TRUE, !.ok = TRUE]
<1>1. o \in Outs /\ o.ok /\ n \in Nat /\ o.code \in Seq(Instructions) /\ o.height \in Nat
      /\ DOMAIN o.code = 1..n
  BY OutFacts
<1>2. \A p \in ps : p \in 1..n /\ o.code[p].op \in Awaiting /\ o.code[p].height = o.height
  BY DEF Patchable
<1>3. PatchAll(o, ps) = e
  <2>1. o.reachable \/ ps = {}
    OBVIOUS
  <2>2. (\A p \in ps : o.code[p].height = o.height) = TRUE
    BY <1>2
  <2>3. Here(o) = n + 1
    BY DEF Here
  <2>4. (o.ok /\ \A p \in ps : o.code[p].height = o.height) = TRUE
    BY <1>1, <2>2
  <2>5. (o.reachable \/ ps # {}) = TRUE
    OBVIOUS
  <2> QED BY <2>1, <2>3, <2>4, <2>5 DEF PatchAll
<1>4. ASSUME NEW i \in 1..n
      PROVE  /\ code[i] \in Instructions
             /\ code[i].op = o.code[i].op /\ code[i].height = o.code[i].height
             /\ code[i].arg = IF i \in ps THEN n + 1 ELSE o.code[i].arg
  <2>1. o.code[i] \in Instructions /\ n + 1 \in Int
    BY <1>1
  <2>2. [o.code[i] EXCEPT !.arg = n + 1] \in Instructions
    BY <2>1 DEF Instructions
  <2> QED BY <1>1, <2>1, <2>2 DEF Instructions
<1>5. code \in Seq(Instructions) /\ Len(code) = n
  <2>1. code \in [1..n -> Instructions]
    BY <1>1, <1>4
  <2> QED BY <1>1, <2>1
<1> HIDE DEF code
<1>6. /\ e \in Outs /\ e.ok /\ e.height = o.height /\ e.reachable /\ e.code = code
  BY <1>1, <1>5 DEF Outs
<1> HIDE DEF e
<1>7. Lands(o, e, ps)
  BY <1>1, <1>2, <1>4, <1>6 DEF Lands
<1>8. CodeOK(e) /\ Grows(o, e) /\ Unresolved(e) = Unresolved(o) \ ps
  BY <1>5, <1>6, <1>7, Land
<1> QED BY <1>3, <1>5, <1>6, <1>8

PopOps == {"pop", "close upvalue"}

(* The pops of a scope.                                                     *)
LEMMA PopsKeep ==
  ASSUME NEW o, CodeOK(o), NEW pops \in Seq(PopOps), o.height - Len(pops) \in Nat
  PROVE  LET e == EmitPops(o, pops)
         IN  /\ CodeOK(e) /\ Grows(o, e)
             /\ e.height = o.height - Len(pops) /\ e.reachable = o.reachable
             /\ Len(e.code) = Len(o.code) + Len(pops)
             /\ Unresolved(e) = Unresolved(o)
<1> DEFINE n == Len(o.code)
           m == Len(pops)
           tail == [k \in DOMAIN pops |-> [op |-> pops[k], arg |-> 0, height |-> o.height - (k - 1)]]
           e == EmitPops(o, pops)
<1>1. o \in Outs /\ o.ok /\ n \in Nat /\ o.code \in Seq(Instructions) /\ o.height \in Nat
      /\ m \in Nat /\ DOMAIN pops = 1..m
  BY OutFacts
<1>2. ASSUME NEW k \in 1..m
      PROVE  /\ tail[k] \in Instructions
             /\ tail[k].op \in PopOps /\ tail[k].arg = 0
             /\ tail[k].height = o.height - (k - 1)
  <2>1. pops[k] \in PopOps /\ o.height - (k - 1) \in Nat
    BY <1>1
  <2>2. pops[k] \in Ops
    BY <2>1 DEF Ops, PopOps
  <2>3. tail[k] = [op |-> pops[k], arg |-> 0, height |-> o.height - (k - 1)]
    BY <1>1
  <2> QED BY <2>1, <2>2, <2>3 DEF Instructions
<1>3. tail \in Seq(Instructions) /\ Len(tail) = m
  <2>1. tail \in [1..m -> Instructions]
    BY <1>1, <1>2
  <2> QED BY <1>1, <2>1
<1> HIDE DEF tail
<1>4. e = [o EXCEPT !.code = o.code \o tail, !.height = o.height - m]
  BY DEF EmitPops, tail
<1>5. /\ o.code \o tail \in Seq(Instructions) /\ Len(o.code \o tail) = n + m
      /\ \A q \in 1..n : (o.code \o tail)[q] = o.code[q]
      /\ \A q \in n + 1..n + m : (o.code \o tail)[q] = tail[q - n]
  <2> DEFINE c == o.code
             r == c \o tail
  <2>1. c \in Seq(Instructions) /\ Len(c) = n /\ n \in Nat /\ m \in Nat
    BY <1>1
  <2>2. /\ r \in Seq(Instructions) /\ Len(r) = Len(c) + Len(tail)
        /\ \A i \in 1..Len(c) + Len(tail) : r[i] = IF i <= Len(c) THEN c[i] ELSE tail[i - Len(c)]
    BY <1>3, <2>1, ConcatProperties
  <2> HIDE DEF c, r
  <2>3. \A q \in 1..n : q \in 1..Len(c) + Len(tail) /\ q <= Len(c)
    BY <1>3, <2>1
  <2>4. \A q \in n + 1..n + m : q \in 1..Len(c) + Len(tail) /\ ~ (q <= Len(c))
    BY <1>3, <2>1
  <2> QED BY <1>3, <2>1, <2>2, <2>3, <2>4 DEF c, r
<1>6. /\ e \in Outs /\ e.ok /\ e.height = o.height - m /\ e.reachable = o.reachable
      /\ e.code = o.code \o tail
  BY <1>1, <1>4, <1>5 DEF Outs
<1> HIDE DEF e
<1>7. /\ Len(e.code) = n + m
      /\ \A q \in 1..n : e.code[q] = o.code[q]
      /\ \A k \in 1..m : e.code[n + k] = tail[k]
  BY <1>1, <1>5, <1>6
<1>0. Len(o.code) = n /\ Len(pops) = m /\ o.height - m \in Nat
  OBVIOUS
<1> HIDE DEF n, m
<1>8. \A k \in 1..m + 1 : HeightAt(e, n + k) = o.height - (k - 1)
  <2>1. ASSUME NEW k \in 1..m PROVE HeightAt(e, n + k) = o.height - (k - 1)
    <3>1. n + k <= Len(e.code)
      BY <1>1, <1>7
    <3> QED BY <1>2, <1>7, <3>1 DEF HeightAt
  <2>2. HeightAt(e, n + (m + 1)) = o.height - m
    <3>1. ~ (n + (m + 1) <= Len(e.code))
      BY <1>1, <1>7
    <3> QED BY <1>6, <3>1 DEF HeightAt
  <2>3. o.height - ((m + 1) - 1) = o.height - m
    BY <1>1
  <2>4. \A k \in 1..m + 1 : k \in 1..m \/ k = m + 1
    BY <1>1
  <2> QED BY <2>1, <2>2, <2>3, <2>4
<1>9. \A t \in 1..n + 1 : HeightAt(e, t) = HeightAt(o, t)
  <2>1. HeightAt(e, n + 1) = o.height
    BY <1>1, <1>8
  <2> QED BY <1>1, <1>7, <1>0, <2>1 DEF HeightAt
<1>10. Grows(o, e)
  BY <1>1, <1>7, <1>9, <1>0 DEF Grows
<1>11. \A t \in 1..n + 1 : t \in 1..Len(e.code) + 1
  BY <1>1, <1>7
<1>12. ASSUME NEW q \in 1..n PROVE Sound(e, q)
  <2>0. q + 1 \in 1..n + 1
    BY <1>1
  <2>1. e.code[q] = o.code[q] /\ HeightAt(e, q + 1) = HeightAt(o, q + 1)
    BY <1>7, <1>9, <2>0
  <2>2. Sound(o, q)
    BY <1>0 DEF CodeOK
  <2> QED BY <1>9, <1>11, <1>0, <2>1, <2>2 DEF Sound
<1>13. ASSUME NEW k \in 1..m PROVE Sound(e, n + k)
  <2>1. /\ e.code[n + k].op \in PopOps
        /\ e.code[n + k].height = o.height - (k - 1)
    BY <1>2, <1>7
  <2>2. HeightAt(e, n + k + 1) = o.height - (k - 1) - 1
    <3>1. k + 1 \in 1..m + 1 /\ n + k + 1 = n + (k + 1)
      BY <1>1
    <3>2. HeightAt(e, n + (k + 1)) = o.height - ((k + 1) - 1)
      BY <1>8, <3>1
    <3> QED BY <1>1, <3>1, <3>2
  <2>3. Effect(e.code[n + k].op, e.code[n + k].arg) = -1
    BY <2>1 DEF Effect, PopOps
  <2> QED BY <1>1, <2>1, <2>2, <2>3 DEF Sound, Awaiting, PopOps
<1>14. \A q \in 1..n + m : q \in 1..n \/ (q - n \in 1..m /\ q = n + (q - n))
  BY <1>1
<1>15. CodeOK(e)
  <2>1. HeightAt(e, 1) = 1
    BY <1>1, <1>9 DEF CodeOK
  <2> QED BY <1>6, <1>7, <1>12, <1>13, <1>14, <2>1 DEF CodeOK
<1>16. ASSUME NEW q PROVE q \in Unresolved(e) <=> q \in Unresolved(o)
  <2>1. CASE q \in 1..n
    BY <1>1, <1>7, <1>0, <2>1 DEF Unresolved
  <2>2. CASE q \notin 1..n
    <3>1. q \in Unresolved(e) => q \in 1..n + m /\ e.code[q].op \in Awaiting
      BY <1>7 DEF Unresolved
    <3>2. q \in 1..n + m => e.code[q].op \in PopOps
      BY <1>2, <1>7, <1>14, <2>2
    <3> QED BY <1>0, <2>2, <3>1, <3>2 DEF Unresolved, Awaiting, PopOps
  <2> QED BY <2>1, <2>2
<1> QED BY <1>6, <1>7, <1>10, <1>15, <1>16, <1>0 DEF e

----------------------------------------------------------------------------
(* What is left to compile.                                                *)

(* Where an item of todo begins: the operands on the stack (its height less *)
(* the locals), the locals, the scope depth, the loops around.  Declarations *)
(* make the number of locals unknown until their scope is closed: n is then *)
(* the least it may be, and x is 0.                                        *)
Places == [e : Int, n : Nat, d : Nat, l : Nat, x : {0, 1}]
Place(h, n, d, l) == [e |-> h - n, n |-> n, d |-> d, l |-> l, x |-> 1]
H(P) == P.e + P.n

(* An item leaves delta more operands, and locals only if it may declare.  *)
Keeps(P, Q, delta) ==
  /\ Q.e = P.e + delta /\ Q.d = P.d /\ Q.l = P.l /\ Q.n <= P.n
  /\ Q.x = 1 => P.x = 1 /\ Q.n = P.n

(* The end of a scope brings back the locals from before it.               *)
Closes(P, Q, delta) ==
  /\ Q.e = P.e + delta /\ P.d = Q.d + 1 /\ Q.l = P.l /\ Q.n <= P.n /\ Q.x = 1

(* The end of a for loop closes the scope of its initializer, which may    *)
(* have declared a variable, or closes none.                               *)
ClosesFor(scope, P, Q) ==
  \/ scope = TRUE /\ P.d = Q.d + 1 /\ (P.n = Q.n + 1 \/ P.n = Q.n)
  \/ scope = FALSE /\ P.d = Q.d /\ P.n = Q.n
EndsFor(scope, P, Q, delta) ==
  Q.e = P.e + delta /\ Q.l = P.l /\ P.x = 1 /\ Q.x = 1 /\ ClosesFor(scope, P, Q)

(* A position of the code and the height there.                            *)
Landing(o, t, h) == t \in 1..Len(o.code) + 1 /\ HeightAt(o, t) = h

(* What a loop remembers, in terms of where its body ends and it ends.     *)
LoopOf(o, loop, P, Q) ==
  /\ loop.locals = P.n /\ loop.height = H(P)
  /\ loop.continueDepth = P.d /\ loop.scopeDepth = Q.d
  /\ Landing(o, loop.continueTarget, H(P))
  /\ \A b \in loop.breaks : Patchable(o, b, H(Q))

LinkExpr(o, it, P, Q) ==
  /\ it.do \in {"stmts", "declaration"} => Keeps(P, Q, 0) /\ Q.x = 0
  /\ it.do \in {"stmt", "jump", "block value"} => Keeps(P, Q, 0)
  /\ it.do = "expr" => Keeps(P, Q, 1)
  /\ it.do = "emit" =>
       \/ it.op \in {"pop", "add"} /\ Keeps(P, Q, -1)
       \/ it.op = "constant" /\ Keeps(P, Q, 1)
  /\ it.do = "check" =>
       Keeps(P, Q, 0) /\ it.height \in Int /\ it.locals \in Int /\ P.e = it.height - it.locals
  /\ it.do = "define" => P.x = 1 /\ P.n >= 1 /\ Q = P
  /\ it.do = "return" => Keeps(P, Q, -1) /\ P.x = 1 /\ it.height = H(P) - 1
  /\ it.do = "and" => Keeps(P, Q, 0) /\ P.x = 1 /\ H(P) >= 2
  /\ it.do \in {"end scope", "close block"} => Closes(P, Q, 0)

LinkIf(o, it, P, Q) ==
  /\ it.do = "then" =>
       /\ P.x = 1 /\ H(P) >= 2
       /\ \/ it.branch = <<Stmt>> /\ it.other \in {<< >>, <<Stmt>>} /\ Keeps(P, Q, -1)
          \/ /\ it.branch \in {<<Expr>>, <<[do |-> "jump"], Op("constant")>>}
             /\ it.other = <<Expr>> /\ Keeps(P, Q, 0)
  /\ it.do = "else" =>
       /\ P.x = 1 /\ Keeps(P, Q, 0)
       /\ \/ it.other \in {<< >>, <<Stmt>>} /\ Patchable(o, it.p, H(P) + 1)
          \/ it.other = <<Expr>> /\ Patchable(o, it.p, H(P)) /\ H(P) >= 2
  /\ it.do = "patch" => P.x = 1 /\ Keeps(P, Q, 0) /\ Patchable(o, it.p, H(P))

(* The variables of a scope are in slots below the height there, as far as *)
(* it is known: the local n has e operands and n locals up to it.          *)
InScope(locs, i, d) == locs[i].depth # UNINITIALIZED /\ locs[i].depth <= d
HasSlots(locs, e, n, d) ==
  \A i \in 1..Len(locs) : InScope(locs, i, d) =>
    \/ locs[i].slot < e + n
    \/ \E j \in 1..Len(locs) : InScope(locs, j, d) /\ locs[i].slot < e + j


(* The variable being defined: its value has been pushed.                  *)
Defines(locs, P) ==
  /\ locs[P.n].slot = H(P) - 1
  /\ locs[P.n].depth = UNINITIALIZED \/ locs[P.n].depth = P.d

(* A test has a value on top of the variables, and so has the branch of an  *)
(* expression.                                                             *)
Tests(it) ==
  \/ it.do \in {"and", "then", "for exit", "for increment"}
  \/ it.do = "else" /\ it.other = <<Expr>>
Under(locs, P) == HasSlots(locs, P.e - 1, P.n, P.d)

LinkLoop(o, ls, locs, it, P, Q) ==
  /\ it.do = "while" =>
       P.x = 1 /\ Q.x = 1 /\ Keeps(P, Q, -1) /\ H(P) >= 2 /\ Landing(o, it.start, H(P) - 1)
  /\ it.do = "for" => EndsFor(it.scope, P, Q, 0)
  /\ it.do = "for exit" => EndsFor(it.scope, P, Q, -1) /\ Landing(o, it.start, H(P) - 1)
  /\ it.do = "for increment" =>
       /\ EndsFor(it.scope, P, Q, -1) /\ Landing(o, it.start, H(P) - 1)
       /\ Patchable(o, it.p, H(P)) /\ Patchable(o, it.body, H(P) - 1)
       /\ Landing(o, it.body + 1, H(P) - 1)
  /\ it.do = "end loop" =>
       /\ P.x = 1 /\ Q.x = 1 /\ P.l >= 1 /\ Q.l = P.l - 1 /\ Q.e = P.e
       /\ Landing(o, it.start, H(P)) /\ Patchable(o, it.p, H(P) + 1)
       /\ LoopOf(o, ls[P.l], P, Q) /\ ClosesFor(it.scope, P, Q)
       /\ P.n = Q.n + 1 => locs[P.n].depth >= 0
  /\ it.do = "define" => Defines(locs, P)
  /\ it.do = "close block" => HasSlots(locs, Q.e - 1, Q.n, Q.d)
  /\ Tests(it) => Under(locs, P)

Doings == {"stmts", "declaration", "stmt", "jump", "block value", "expr", "emit", "check",
           "define", "return", "and", "end scope", "close block", "then", "else", "patch",
           "while", "for", "for exit", "for increment", "end loop"}
Link(o, ls, locs, it, P, Q) ==
  /\ it.do \in Doings
  /\ LinkExpr(o, it, P, Q) /\ LinkIf(o, it, P, Q) /\ LinkLoop(o, ls, locs, it, P, Q)

(* Scopes are closed in the order they were opened: where the locals are   *)
(* known again after they were not, a scope has been closed.  Until then no *)
(* operand is taken off.                                                   *)
Before(P, Q) ==
  /\ Q.n <= P.n /\ Q.d <= P.d /\ Q.l <= P.l
  /\ P.x = 0 /\ Q.x = 1 => Q.d < P.d
  /\ P.x = 0 /\ Q.d = P.d => Q.e >= P.e

(* What follows the definition of a variable is in its scope, and has it,   *)
(* or comes after.                                                         *)
Outside(P, Q) == Q.n < P.n /\ (Q.d < P.d \/ (Q.x = 0 /\ Q.d = P.d /\ Q.e >= P.e))
Below(P, Q) == Q = P \/ Outside(P, Q)

(* The locals of a place are those with its depth or less; a variable whose *)
(* initializer is not finished has no depth.                               *)
Fits(locs, P) ==
  /\ P.e + P.n >= 1
  /\ P.x = 1 => \A i \in 1..Len(locs) :
       /\ i <= P.n => locs[i].depth <= P.d
       /\ i > P.n => locs[i].depth = UNINITIALIZED \/ locs[i].depth > P.d
  /\ HasSlots(locs, P.e, P.n, P.d)

(* Every variable is in a slot below h.                                    *)
Low(locs, h) == \A i \in 1..Len(locs) : locs[i].depth # UNINITIALIZED => locs[i].slot < h

IsSeq(t) == \E X : t \in Seq(X)

Plan(o, ls, locs, t, S) ==
  /\ IsSeq(t) /\ S \in Seq(Places) /\ Len(S) = Len(t) + 1
  /\ \A k \in 1..Len(t) : Link(o, ls, locs, t[k], S[k], S[k + 1])
  /\ \A k \in 1..Len(S) : Fits(locs, S[k])
  /\ \A j, k \in 1..Len(S) : j < k => Before(S[j], S[k])
  /\ \A j, k \in 1..Len(S) : j < k /\ t[j].do = "define" => Below(S[j], S[k])
  /\ \A j, k \in 1..Len(t) : j < k /\ t[j].do = "define" /\ Tests(t[k]) => S[k] # S[j]

(* The jumps that an item is going to patch.                               *)
Awaits(it) ==
  IF it.do \in {"else", "patch", "end loop"} THEN {it.p}
  ELSE IF it.do = "for increment" THEN {it.p, it.body}
  ELSE {}

(* Every variable of U is going to be defined, every loop of E ended, every *)
(* jump of W patched.                                                      *)
Settles(t, S, U, E, W) ==
  /\ \A i \in U : \E k \in 1..Len(t) : t[k].do = "define" /\ S[k].n = i
  /\ \A m \in E : \E k \in 1..Len(t) : t[k].do = "end loop" /\ S[k].l = m
  /\ \A q \in W : \E k \in 1..Len(t) : q \in Awaits(t[k])

PlanFrom(o, ls, locs, t, P, U, E, W) ==
  \E S : Plan(o, ls, locs, t, S) /\ Settles(t, S, U, E, W) /\ S[1] = P

Loops == [scopeDepth : Int, continueDepth : Int, continueTarget : Int, breaks : SUBSET Int,
          height : Int, locals : Int]
Undefined(locs) == {i \in 1..Len(locs) : locs[i].depth = UNINITIALIZED}
Broken(ls) == UNION {ls[m].breaks : m \in 1..Len(ls)}
AllFrom(o, ls, locs, t, P) ==
  PlanFrom(o, ls, locs, t, P, Undefined(locs), 1..Len(ls), Unresolved(o) \ Broken(ls))

(* The invariant while compiling.                                          *)
Working(o, ls, locs, d, t) ==
  /\ CodeOK(o) /\ d \in Nat /\ locs \in Seq(Slots) /\ ls \in Seq(Loops)
  /\ AllFrom(o, ls, locs, t, Place(o.height, Len(locs), d, Len(ls)))

----------------------
(* Taking the first item off a plan and putting items in front of it.      *)

LEMMA SeqTail ==
  ASSUME NEW t, IsSeq(t), t # << >>
  PROVE  /\ IsSeq(Tail(t)) /\ Len(t) \in Nat \ {0} /\ Len(Tail(t)) = Len(t) - 1 /\ Head(t) = t[1]
         /\ \A k \in 1..Len(t) - 1 : Tail(t)[k] = t[k + 1]
<1>1. PICK X : t \in Seq(X)
  BY DEF IsSeq
<1>2. Tail(t) \in Seq(X)
  BY <1>1
<1> QED BY <1>1, <1>2 DEF IsSeq

LEMMA SeqCons ==
  ASSUME NEW t, IsSeq(t), NEW it
  PROVE  LET u == <<it>> \o t
         IN  /\ IsSeq(u) /\ Len(t) \in Nat /\ Len(u) = Len(t) + 1 /\ u[1] = it
             /\ \A k \in 1..Len(t) : u[k + 1] = t[k]
<1>1. PICK X : t \in Seq(X)
  BY DEF IsSeq
<1> DEFINE Y == X \cup {it}
<1>2. t \in Seq(Y) /\ <<it>> \in Seq(Y) /\ Len(t) \in Nat
  <2>1. Len(t) \in Nat /\ t \in [1..Len(t) -> X]
    BY <1>1
  <2>2. t \in [1..Len(t) -> Y]
    BY <2>1
  <2>3. it \in Y
    OBVIOUS
  <2> QED BY <2>1, <2>2, <2>3
<1> HIDE DEF Y
<1>3. <<it>> \o t \in Seq(Y)
  BY <1>2
<1> QED BY <1>2, <1>3 DEF IsSeq

LEMMA PlacesCons ==
  ASSUME NEW S, S \in Seq(Places), NEW P \in Places
  PROVE  LET T == <<P>> \o S
         IN  /\ T \in Seq(Places) /\ Len(S) \in Nat /\ Len(T) = Len(S) + 1 /\ T[1] = P
             /\ \A k \in 1..Len(S) : T[k + 1] = S[k]
OBVIOUS

(* The order of places is transitive.                                      *)
LEMMA BeforeTransitive ==
  ASSUME NEW P \in Places, NEW Q \in Places, NEW R \in Places, Before(P, Q), Before(Q, R)
  PROVE  Before(P, R) /\ (Outside(P, Q) => Outside(P, R))
BY DEF Before, Outside, Places

LEMMA PlanCons ==
  ASSUME NEW o, NEW ls, NEW locs, NEW t, NEW S, Plan(o, ls, locs, t, S),
         NEW it, NEW P \in Places, Link(o, ls, locs, it, P, S[1]), Before(P, S[1]), Fits(locs, P),
         it.do = "define" => \A k \in 1..Len(S) : Below(P, S[k]),
         it.do = "define" => \A k \in 1..Len(t) : Tests(t[k]) => S[k] # P
  PROVE  Plan(o, ls, locs, <<it>> \o t, <<P>> \o S) /\ (<<P>> \o S)[1] = P
<1> DEFINE u == <<it>> \o t
           T == <<P>> \o S
           n == Len(t)
<1>1. /\ IsSeq(t) /\ S \in Seq(Places) /\ Len(S) = n + 1 /\ n \in Nat
      /\ \A k \in 1..n : Link(o, ls, locs, t[k], S[k], S[k + 1])
      /\ \A k \in 1..n + 1 : Fits(locs, S[k])
      /\ \A j, k \in 1..n + 1 : j < k => Before(S[j], S[k])
      /\ \A j, k \in 1..n + 1 : j < k /\ t[j].do = "define" => Below(S[j], S[k])
      /\ \A j, k \in 1..n : j < k /\ t[j].do = "define" /\ Tests(t[k]) => S[k] # S[j]
      /\ it.do = "define" => \A k \in 1..n : Tests(t[k]) => S[k] # P
  BY SeqCons DEF Plan
<1>2. IsSeq(u) /\ Len(u) = n + 1 /\ u[1] = it /\ \A k \in 1..n : u[k + 1] = t[k]
  BY <1>1, SeqCons
<1>3. T \in Seq(Places) /\ Len(T) = n + 2 /\ T[1] = P /\ \A k \in 1..n + 1 : T[k + 1] = S[k]
  BY <1>1
<1> HIDE DEF u, T, n
<1>4. \A k \in 1..n + 2 : k = 1 \/ (k - 1 \in 1..n + 1 /\ k = (k - 1) + 1)
  BY <1>1
<1>5. S[1] \in Places /\ \A k \in 1..n + 1 : S[k] \in Places
  BY <1>1
<1>6. \A k \in 1..n + 1 : Before(P, S[k])
  <2>1. \A k \in 1..n + 1 : k = 1 \/ (1 < k /\ 1 \in 1..n + 1)
    BY <1>1
  <2> QED BY <1>1, <1>5, <2>1, BeforeTransitive
<1>7. ASSUME NEW k \in 1..n + 1 PROVE Link(o, ls, locs, u[k], T[k], T[k + 1])
  <2>1. CASE k = 1
    <3>1. u[k] = it /\ T[k] = P /\ T[k + 1] = S[1]
      BY <1>1, <1>2, <1>3, <2>1
    <3> QED BY <3>1
  <2>2. CASE k # 1
    <3>1. k - 1 \in 1..n /\ k = (k - 1) + 1
      BY <1>1, <2>2
    <3>2. u[k] = t[k - 1] /\ T[k] = S[k - 1] /\ T[k + 1] = S[(k - 1) + 1]
      BY <1>1, <1>2, <1>3, <3>1
    <3> QED BY <1>1, <3>1, <3>2
  <2> QED BY <2>1, <2>2
<1>8. ASSUME NEW j \in 1..n + 2, NEW k \in 1..n + 2, j < k
      PROVE  Before(T[j], T[k]) /\ (u[j].do = "define" => Below(T[j], T[k]))
  <2>1. k - 1 \in 1..n + 1 /\ T[k] = S[k - 1]
    <3>1. k - 1 \in 1..n + 1 /\ k = (k - 1) + 1
      BY <1>1, <1>8
    <3> QED BY <1>3, <3>1
  <2>2. CASE j = 1
    BY <1>1, <1>2, <1>3, <1>6, <2>1, <2>2
  <2>3. CASE j # 1
    <3>1. j - 1 \in 1..n /\ j - 1 \in 1..n + 1 /\ j = (j - 1) + 1 /\ j - 1 < k - 1
      BY <1>1, <1>8, <2>3
    <3>2. T[j] = S[j - 1] /\ u[j] = t[j - 1]
      BY <1>2, <1>3, <3>1
    <3> QED BY <1>1, <2>1, <3>1, <3>2
  <2> QED BY <2>2, <2>3
<1>9. \A k \in 1..n + 2 : Fits(locs, T[k])
  BY <1>1, <1>3, <1>4
<1>10. Len(T) = Len(u) + 1
  BY <1>1, <1>2, <1>3
<1>11. ASSUME NEW j \in 1..n + 1, NEW k \in 1..n + 1, j < k, u[j].do = "define", Tests(u[k])
       PROVE  T[k] # T[j]
  <2>1. k - 1 \in 1..n /\ T[k] = S[k - 1] /\ u[k] = t[k - 1]
    <3>1. k - 1 \in 1..n /\ k - 1 \in 1..n + 1 /\ k = (k - 1) + 1
      BY <1>1, <1>11
    <3> QED BY <1>2, <1>3, <3>1
  <2>2. CASE j = 1
    BY <1>1, <1>2, <1>3, <1>11, <2>1, <2>2
  <2>3. CASE j # 1
    <3>1. j - 1 \in 1..n /\ j - 1 \in 1..n + 1 /\ j = (j - 1) + 1 /\ j - 1 < k - 1
      BY <1>1, <1>11, <2>3
    <3>2. T[j] = S[j - 1] /\ u[j] = t[j - 1]
      BY <1>2, <1>3, <3>1
    <3> QED BY <1>1, <1>11, <2>1, <3>1, <3>2
  <2> QED BY <2>2, <2>3
<1>12. \A j, k \in 1..Len(u) : j < k /\ u[j].do = "define" /\ Tests(u[k]) => T[k] # T[j]
  BY <1>2, <1>11
<1> QED BY <1>2, <1>3, <1>7, <1>8, <1>9, <1>10, <1>12 DEF Plan, u, T

(* What an item at P settles in front of what settles U, E and W.           *)
Added(it, P, U, E, W, U2, E2, W2) ==
  /\ \A i \in U2 : i \in U \/ (it.do = "define" /\ i = P.n)
  /\ \A m \in E2 : m \in E \/ (it.do = "end loop" /\ m = P.l)
  /\ \A q \in W2 : q \in W \/ q \in Awaits(it)

LEMMA SettlesCons ==
  ASSUME NEW t, IsSeq(t), NEW S, S \in Seq(Places), Len(S) = Len(t) + 1,
         NEW U, NEW E, NEW W, Settles(t, S, U, E, W),
         NEW it, NEW P \in Places, NEW U2, NEW E2, NEW W2, Added(it, P, U, E, W, U2, E2, W2)
  PROVE  Settles(<<it>> \o t, <<P>> \o S, U2, E2, W2)
<1> DEFINE u == <<it>> \o t
           T == <<P>> \o S
           n == Len(t)
<1>1. n \in Nat /\ Len(u) = n + 1 /\ u[1] = it /\ \A k \in 1..n : u[k + 1] = t[k]
  BY SeqCons
<1>2. T[1] = P /\ \A k \in 1..n : T[k + 1] = S[k]
  BY <1>1, PlacesCons
<1> HIDE DEF u, T
<1>3. 1 \in 1..n + 1 /\ \A k \in 1..n : k + 1 \in 1..n + 1
  BY <1>1
<1>4. ASSUME NEW i \in U2 PROVE \E k \in 1..n + 1 : u[k].do = "define" /\ T[k].n = i
  <2>1. CASE it.do = "define" /\ i = P.n
    BY <1>1, <1>2, <1>3, <2>1
  <2>2. CASE i \in U
    <3>1. PICK k \in 1..n : t[k].do = "define" /\ S[k].n = i
      BY <2>2 DEF Settles, n
    <3> QED BY <1>1, <1>2, <1>3, <3>1
  <2> QED BY <2>1, <2>2 DEF Added
<1>5. ASSUME NEW m \in E2 PROVE \E k \in 1..n + 1 : u[k].do = "end loop" /\ T[k].l = m
  <2>1. CASE it.do = "end loop" /\ m = P.l
    BY <1>1, <1>2, <1>3, <2>1
  <2>2. CASE m \in E
    <3>1. PICK k \in 1..n : t[k].do = "end loop" /\ S[k].l = m
      BY <2>2 DEF Settles, n
    <3> QED BY <1>1, <1>2, <1>3, <3>1
  <2> QED BY <2>1, <2>2 DEF Added
<1>6. ASSUME NEW q \in W2 PROVE \E k \in 1..n + 1 : q \in Awaits(u[k])
  <2>1. CASE q \in Awaits(it)
    BY <1>1, <1>3, <2>1
  <2>2. CASE q \in W
    <3>1. PICK k \in 1..n : q \in Awaits(t[k])
      BY <2>2 DEF Settles, n
    <3> QED BY <1>1, <1>3, <3>1
  <2> QED BY <2>1, <2>2 DEF Added
<1>7. \A i \in U2 : \E k \in 1..Len(u) : u[k].do = "define" /\ T[k].n = i
  BY <1>1, <1>4
<1>8. \A m \in E2 : \E k \in 1..Len(u) : u[k].do = "end loop" /\ T[k].l = m
  BY <1>1, <1>5
<1>9. \A q \in W2 : \E k \in 1..Len(u) : q \in Awaits(u[k])
  BY <1>1, <1>6
<1>10. Settles(u, T, U2, E2, W2)
  BY <1>7, <1>8, <1>9 DEF Settles
<1> QED BY <1>10 DEF u, T

(* An item put in front of a plan.                                         *)
LEMMA FromCons ==
  ASSUME NEW o, NEW ls, NEW locs, NEW t, NEW Q, NEW U, NEW E, NEW W,
         PlanFrom(o, ls, locs, t, Q, U, E, W),
         NEW it, NEW P \in Places, Link(o, ls, locs, it, P, Q), Before(P, Q), Fits(locs, P),
         it.do # "define", NEW E2, NEW W2, Added(it, P, U, E, W, U, E2, W2)
  PROVE  PlanFrom(o, ls, locs, <<it>> \o t, P, U, E2, W2)
<1>1. PICK S : Plan(o, ls, locs, t, S) /\ Settles(t, S, U, E, W) /\ S[1] = Q
  BY DEF PlanFrom
<1>2. Plan(o, ls, locs, <<it>> \o t, <<P>> \o S)
  BY <1>1, PlanCons
<1>3. IsSeq(t) /\ S \in Seq(Places) /\ Len(S) = Len(t) + 1
  BY <1>1 DEF Plan
<1>4. Settles(<<it>> \o t, <<P>> \o S, U, E2, W2)
  BY <1>1, <1>3, SettlesCons
<1>5. (<<P>> \o S)[1] = P
  BY <1>3, PlacesCons
<1> QED BY <1>2, <1>4, <1>5 DEF PlanFrom

(* A plan whose places are in the scope of a variable and have it, or come  *)
(* after.                                                                  *)
FromBelow(o, ls, locs, t, Q, U, E, W, P) ==
  \E S : /\ Plan(o, ls, locs, t, S) /\ Settles(t, S, U, E, W) /\ S[1] = Q
         /\ \A k \in 1..Len(S) : Below(P, S[k])
         /\ \A k \in 1..Len(t) : Tests(t[k]) => S[k] # P

LEMMA BelowOutside ==
  ASSUME NEW o, NEW ls, NEW locs, NEW t, NEW Q, NEW U, NEW E, NEW W,
         PlanFrom(o, ls, locs, t, Q, U, E, W), NEW P \in Places, Before(P, Q), Outside(P, Q)
  PROVE  FromBelow(o, ls, locs, t, Q, U, E, W, P)
<1>1. PICK S : Plan(o, ls, locs, t, S) /\ Settles(t, S, U, E, W) /\ S[1] = Q
  BY DEF PlanFrom
<1>2. S \in Seq(Places) /\ Len(S) \in Nat
  BY <1>1 DEF Plan
<1>3. ASSUME NEW k \in 1..Len(S) PROVE Below(P, S[k]) /\ S[k] # P
  <2>1. S[k] \in Places /\ Q \in Places
    BY <1>1, <1>2
  <2>2. k = 1 \/ Before(Q, S[k])
    <3>1. k = 1 \/ (1 \in 1..Len(S) /\ 1 < k)
      BY <1>2
    <3> QED BY <1>1, <3>1 DEF Plan
  <2>3. Outside(P, S[k])
    BY <1>1, <2>1, <2>2, BeforeTransitive
  <2>4. S[k] # P
    BY <2>1, <2>3 DEF Outside, Places
  <2> QED BY <2>3, <2>4 DEF Below
<1>4. \A k \in 1..Len(t) : k \in 1..Len(S)
  BY <1>1, SeqCons DEF Plan
<1> QED BY <1>1, <1>3, <1>4 DEF FromBelow

LEMMA BelowCons ==
  ASSUME NEW o, NEW ls, NEW locs, NEW t, NEW Q, NEW U, NEW E, NEW W, NEW P \in Places,
         FromBelow(o, ls, locs, t, Q, U, E, W, P),
         NEW it, it.do # "define", ~ Tests(it), Link(o, ls, locs, it, P, Q), Before(P, Q), Fits(locs, P)
  PROVE  FromBelow(o, ls, locs, Cons(it, t), P, U, E, W, P)
<1>1. PICK S : /\ Plan(o, ls, locs, t, S) /\ Settles(t, S, U, E, W) /\ S[1] = Q
               /\ \A k \in 1..Len(S) : Below(P, S[k])
               /\ \A k \in 1..Len(t) : Tests(t[k]) => S[k] # P
  BY DEF FromBelow
<1> DEFINE u == <<it>> \o t
           T == <<P>> \o S
<1>2. Plan(o, ls, locs, u, T)
  BY <1>1, PlanCons
<1>3. IsSeq(t) /\ S \in Seq(Places) /\ Len(S) = Len(t) + 1 /\ Len(S) \in Nat
  BY <1>1 DEF Plan
<1>4. Settles(u, T, U, E, W)
  <2>1. Added(it, P, U, E, W, U, E, W)
    BY DEF Added
  <2> QED BY <1>1, <1>3, <2>1, SettlesCons
<1>5. T[1] = P /\ Len(T) = Len(S) + 1 /\ \A k \in 1..Len(S) : T[k + 1] = S[k]
  BY <1>3
<1> HIDE DEF T
<1>6. \A k \in 1..Len(T) : Below(P, T[k])
  <2>1. \A k \in 1..Len(T) : k = 1 \/ (k - 1 \in 1..Len(S) /\ k = (k - 1) + 1)
    BY <1>3, <1>5
  <2>2. Below(P, T[1])
    BY <1>5 DEF Below
  <2> QED BY <1>1, <1>5, <2>1, <2>2
<1>8. \A k \in 1..Len(u) : Tests(u[k]) => T[k] # P
  <2>1. Len(u) = Len(t) + 1 /\ u[1] = it /\ Len(t) \in Nat /\ \A k \in 1..Len(t) : u[k + 1] = t[k]
    BY <1>3, SeqCons
  <2> HIDE DEF u
  <2>2. \A k \in 1..Len(u) : k = 1 \/ (k - 1 \in 1..Len(t) /\ k - 1 \in 1..Len(S) /\ k = (k - 1) + 1)
    BY <1>3, <2>1
  <2>3. ASSUME NEW k \in 1..Len(u), Tests(u[k]) PROVE T[k] # P
    <3>1. k - 1 \in 1..Len(t) /\ k - 1 \in 1..Len(S) /\ u[k] = t[k - 1] /\ T[k] = S[k - 1]
      BY <1>5, <2>1, <2>2, <2>3
    <3> QED BY <1>1, <2>3, <3>1
  <2> QED BY <2>3
<1>7. FromBelow(o, ls, locs, u, P, U, E, W, P)
  BY <1>2, <1>4, <1>5, <1>6, <1>8 DEF FromBelow
<1> QED BY <1>7 DEF Cons

(* The definition of the variable, put in front.                           *)
LEMMA FromConsDefine ==
  ASSUME NEW o, NEW ls, NEW locs, NEW t, NEW U, NEW E, NEW W, NEW P \in Places,
         FromBelow(o, ls, locs, t, P, U, E, W, P), Fits(locs, P), P.x = 1, P.n >= 1,
         Defines(locs, P), NEW def, def.do = "define", NEW U2, Added(def, P, U, E, W, U2, E, W)
  PROVE  PlanFrom(o, ls, locs, Cons(def, t), P, U2, E, W)
<1>1. PICK S : /\ Plan(o, ls, locs, t, S) /\ Settles(t, S, U, E, W) /\ S[1] = P
               /\ \A k \in 1..Len(S) : Below(P, S[k])
               /\ \A k \in 1..Len(t) : Tests(t[k]) => S[k] # P
  BY DEF FromBelow
<1>2. Link(o, ls, locs, def, P, P)
  BY DEF Link, LinkExpr, LinkIf, LinkLoop, Doings, Tests
<1>3. Before(P, P)
  BY DEF Before, Places
<1>4. Plan(o, ls, locs, <<def>> \o t, <<P>> \o S) /\ (<<P>> \o S)[1] = P
  BY <1>1, <1>2, <1>3, PlanCons
<1>5. IsSeq(t) /\ S \in Seq(Places) /\ Len(S) = Len(t) + 1
  BY <1>1 DEF Plan
<1>6. Settles(<<def>> \o t, <<P>> \o S, U2, E, W)
  BY <1>1, <1>5, SettlesCons
<1>7. PlanFrom(o, ls, locs, <<def>> \o t, P, U2, E, W)
  BY <1>4, <1>6 DEF PlanFrom
<1> QED BY <1>7 DEF Cons

(* What is settled behind the first item.                                  *)
StillUndefined(it, P, U) == IF it.do = "define" THEN U \ {P.n} ELSE U
StillOpen(it, P, E) == IF it.do = "end loop" THEN E \ {P.l} ELSE E

(* A plan behind its first item.                                           *)
LEMMA FromTail ==
  ASSUME NEW o, NEW ls, NEW locs, NEW t, NEW P, NEW U, NEW E, NEW W,
         PlanFrom(o, ls, locs, t, P, U, E, W), t # << >>
  PROVE  /\ P \in Places /\ Fits(locs, P) /\ Head(t) = t[1]
         /\ \E Q \in Places :
              /\ PlanFrom(o, ls, locs, Tail(t), Q, StillUndefined(t[1], P, U),
                          StillOpen(t[1], P, E), W \ Awaits(t[1]))
              /\ Link(o, ls, locs, t[1], P, Q) /\ Before(P, Q) /\ Fits(locs, Q)
              /\ \A i \in StillUndefined(t[1], P, U) : i <= Q.n
              /\ \A m \in StillOpen(t[1], P, E) : m <= Q.l
<1>1. PICK S : Plan(o, ls, locs, t, S) /\ Settles(t, S, U, E, W) /\ S[1] = P
  BY DEF PlanFrom
<1> DEFINE n == Len(t) - 1
           u == Tail(t)
           T == Tail(S)
           Q == S[2]
           U2 == StillUndefined(t[1], P, U)
           E2 == StillOpen(t[1], P, E)
           W2 == W \ Awaits(t[1])
<1>2. /\ IsSeq(t) /\ S \in Seq(Places) /\ Len(S) = Len(t) + 1
      /\ \A k \in 1..Len(t) : Link(o, ls, locs, t[k], S[k], S[k + 1])
      /\ \A k \in 1..Len(S) : Fits(locs, S[k])
      /\ \A j, k \in 1..Len(S) : j < k => Before(S[j], S[k])
      /\ \A j, k \in 1..Len(S) : j < k /\ t[j].do = "define" => Below(S[j], S[k])
      /\ \A j, k \in 1..Len(t) : j < k /\ t[j].do = "define" /\ Tests(t[k]) => S[k] # S[j]
  BY <1>1 DEF Plan
<1>3. /\ n \in Nat /\ Len(t) = n + 1 /\ IsSeq(u) /\ Len(u) = n /\ Head(t) = t[1]
      /\ \A k \in 1..n : u[k] = t[k + 1]
  BY <1>2, SeqTail
<1>4. /\ T \in Seq(Places) /\ Len(T) = n + 1 /\ \A k \in 1..n + 1 : T[k] = S[k + 1]
  BY <1>2, <1>3
<1>5. Q \in Places /\ P \in Places
  BY <1>1, <1>2, <1>3
<1> HIDE DEF n, u, T
<1>6. /\ 1 \in 1..n + 1 /\ 2 \in 1..n + 2 /\ 1 \in 1..n + 2
      /\ \A k \in 1..n : k + 1 \in 1..n + 1
      /\ \A k \in 1..n + 1 : k + 1 \in 1..n + 2 /\ k \in Int
      /\ \A k \in 1..n + 2 : k = 1 \/ k = 2 \/ k > 2
  BY <1>3
<1>7. Plan(o, ls, locs, u, T)
  <2>1. ASSUME NEW k \in 1..n PROVE Link(o, ls, locs, u[k], T[k], T[k + 1])
    <3>1. u[k] = t[k + 1] /\ T[k] = S[k + 1] /\ T[k + 1] = S[(k + 1) + 1] /\ k + 1 \in 1..Len(t)
      BY <1>3, <1>4, <1>6
    <3> QED BY <1>2, <3>1
  <2>2. ASSUME NEW j \in 1..n + 1, NEW k \in 1..n + 1, j < k
        PROVE  Before(T[j], T[k]) /\ (u[j].do = "define" => Below(T[j], T[k]))
    <3>1. j + 1 < k + 1 /\ j + 1 \in 1..Len(S) /\ k + 1 \in 1..Len(S) /\ j \in 1..n
      BY <1>2, <1>3, <1>6, <2>2
    <3>2. u[j] = t[j + 1] /\ T[j] = S[j + 1] /\ T[k] = S[k + 1]
      BY <1>3, <1>4, <3>1
    <3> QED BY <1>2, <3>1, <3>2
  <2>3. ASSUME NEW k \in 1..n + 1 PROVE Fits(locs, T[k])
    <3>1. k + 1 \in 1..Len(S) /\ T[k] = S[k + 1]
      BY <1>2, <1>3, <1>4, <1>6
    <3> QED BY <1>2, <3>1
  <2>4. ASSUME NEW j \in 1..n, NEW k \in 1..n, j < k, u[j].do = "define", Tests(u[k])
        PROVE  T[k] # T[j]
    <3>1. /\ j + 1 < k + 1 /\ j + 1 \in 1..Len(t) /\ k + 1 \in 1..Len(t)
          /\ j \in 1..n + 1 /\ k \in 1..n + 1
      BY <1>3, <1>6, <2>4
    <3>2. u[j] = t[j + 1] /\ u[k] = t[k + 1] /\ T[j] = S[j + 1] /\ T[k] = S[k + 1]
      BY <1>3, <1>4, <3>1
    <3> QED BY <1>2, <2>4, <3>1, <3>2
  <2> QED BY <1>3, <1>4, <2>1, <2>2, <2>3, <2>4 DEF Plan
<1>8. T[1] = Q
  BY <1>4, <1>6
<1>9. \A k \in 1..n + 2 : Before(P, S[k]) \/ k = 1
  BY <1>1, <1>2, <1>3, <1>6
<1>10. \A k \in 1..n + 2 : k > 2 => Before(Q, S[k])
  BY <1>2, <1>3, <1>6
<1>11. \A k \in 1..n : Before(Q, T[k]) \/ k = 1
  BY <1>3, <1>4, <1>6, <1>10
<1>12. ASSUME NEW k \in 1..n + 1 PROVE k = 1 \/ (k - 1 \in 1..n /\ k = (k - 1) + 1)
  BY <1>3
<1>13. ASSUME NEW i \in U2
       PROVE  \E k \in 1..n : u[k].do = "define" /\ T[k].n = i
  <2>1. i \in U /\ (t[1].do = "define" => i # P.n)
    BY DEF StillUndefined
  <2>2. PICK k \in 1..n + 1 : t[k].do = "define" /\ S[k].n = i
    BY <1>1, <1>3, <2>1 DEF Settles
  <2>3. k - 1 \in 1..n /\ k = (k - 1) + 1
    BY <1>1, <1>12, <2>1, <2>2
  <2>4. u[k - 1] = t[k] /\ T[k - 1] = S[k]
    BY <1>3, <1>4, <2>3
  <2> QED BY <2>2, <2>3, <2>4
<1>14. ASSUME NEW m \in E2
       PROVE  \E k \in 1..n : u[k].do = "end loop" /\ T[k].l = m
  <2>1. m \in E /\ (t[1].do = "end loop" => m # P.l)
    BY DEF StillOpen
  <2>2. PICK k \in 1..n + 1 : t[k].do = "end loop" /\ S[k].l = m
    BY <1>1, <1>3, <2>1 DEF Settles
  <2>3. k - 1 \in 1..n /\ k = (k - 1) + 1
    BY <1>1, <1>12, <2>1, <2>2
  <2>4. u[k - 1] = t[k] /\ T[k - 1] = S[k]
    BY <1>3, <1>4, <2>3
  <2> QED BY <2>2, <2>3, <2>4
<1>15. ASSUME NEW q \in W2
       PROVE  \E k \in 1..n : q \in Awaits(u[k])
  <2>1. PICK k \in 1..n + 1 : q \in Awaits(t[k])
    BY <1>1, <1>3 DEF Settles
  <2>2. k - 1 \in 1..n /\ k = (k - 1) + 1
    BY <1>12, <2>1
  <2>3. u[k - 1] = t[k]
    BY <1>3, <2>2
  <2> QED BY <2>1, <2>2, <2>3
<1>16. \A k \in 1..n : T[k] \in Places
  BY <1>3, <1>4
<1>17. \A k \in 1..n : T[k].n <= Q.n /\ T[k].l <= Q.l
  BY SMTT(30), <1>5, <1>8, <1>11, <1>16 DEF Before, Places
<1>18. Settles(u, T, U2, E2, W2)
  BY <1>3, <1>13, <1>14, <1>15 DEF Settles
<1>19. Link(o, ls, locs, t[1], P, Q) /\ Before(P, Q) /\ Fits(locs, Q) /\ Fits(locs, P)
  BY <1>1, <1>2, <1>3, <1>6
<1>20. (\A i \in U2 : i <= Q.n) /\ (\A m \in E2 : m <= Q.l)
  <2>1. ASSUME NEW i \in U2 PROVE i <= Q.n
    <3>1. PICK k \in 1..n : u[k].do = "define" /\ T[k].n = i
      BY <1>13
    <3> QED BY <1>17, <3>1
  <2>2. ASSUME NEW m \in E2 PROVE m <= Q.l
    <3>1. PICK k \in 1..n : u[k].do = "end loop" /\ T[k].l = m
      BY <1>14
    <3> QED BY <1>17, <3>1
  <2> QED BY <2>1, <2>2
<1>21. PlanFrom(o, ls, locs, u, Q, U2, E2, W2)
  BY <1>7, <1>8, <1>18 DEF PlanFrom
<1> HIDE DEF Q, U2, E2, W2
<1> QED BY <1>3, <1>5, <1>19, <1>20, <1>21 DEF u, U2, E2, W2

----------------------------------------------------------------------------
(* What may change under a plan.                                           *)

LEMMA GrowsKeeps ==
  ASSUME NEW o, CodeOK(o), NEW o2, CodeOK(o2), Grows(o, o2)
  PROVE  /\ \A p, h : Patchable(o, p, h) => Patchable(o2, p, h)
         /\ \A t, h : Landing(o, t, h) => Landing(o2, t, h)
<1>1. /\ Len(o.code) \in Nat /\ Len(o2.code) \in Nat /\ Len(o.code) <= Len(o2.code)
      /\ \A t \in 1..Len(o.code) + 1 : HeightAt(o2, t) = HeightAt(o, t)
      /\ \A q \in 1..Len(o.code) : o2.code[q].op = o.code[q].op
  BY OutFacts DEF Grows
<1>2. \A q \in 1..Len(o.code) : o.code[q].height = HeightAt(o, q)
  BY OutFacts
<1>3. \A q \in 1..Len(o2.code) : o2.code[q].height = HeightAt(o2, q)
  BY OutFacts
<1>4. \A q \in 1..Len(o.code) : q \in 1..Len(o2.code) /\ q \in 1..Len(o.code) + 1
  BY <1>1
<1>5. \A t \in 1..Len(o.code) + 1 : t \in 1..Len(o2.code) + 1
  BY <1>1
<1>6. \A p, h : Patchable(o, p, h) => Patchable(o2, p, h)
  BY <1>1, <1>2, <1>3, <1>4 DEF Patchable
<1>7. \A t, h : Landing(o, t, h) => Landing(o2, t, h)
  BY <1>1, <1>5 DEF Landing
<1> QED BY <1>6, <1>7

(* More code.                                                              *)
LEMMA FromGrow ==
  ASSUME NEW o, CodeOK(o), NEW o2, CodeOK(o2), Grows(o, o2), NEW ls, NEW locs, NEW t, NEW P,
         NEW U, NEW E, NEW W, PlanFrom(o, ls, locs, t, P, U, E, W)
  PROVE  PlanFrom(o2, ls, locs, t, P, U, E, W)
<1>1. /\ \A p, h : Patchable(o, p, h) => Patchable(o2, p, h)
      /\ \A p, h : Landing(o, p, h) => Landing(o2, p, h)
  BY GrowsKeeps
<1>2. \A it, A, B : Link(o, ls, locs, it, A, B) => Link(o2, ls, locs, it, A, B)
  <2> SUFFICES ASSUME NEW it, NEW A, NEW B, Link(o, ls, locs, it, A, B)
               PROVE  Link(o2, ls, locs, it, A, B)
    OBVIOUS
  <2>1. LinkExpr(o2, it, A, B) /\ LinkIf(o2, it, A, B)
    BY <1>1 DEF Link, LinkExpr, LinkIf
  <2>2. \A loop : LoopOf(o, loop, A, B) => LoopOf(o2, loop, A, B)
    BY <1>1 DEF LoopOf
  <2>3. LinkLoop(o2, ls, locs, it, A, B)
    BY <1>1, <2>2 DEF Link, LinkLoop
  <2> QED BY <2>1, <2>3 DEF Link
<1>3. PICK S : Plan(o, ls, locs, t, S) /\ Settles(t, S, U, E, W) /\ S[1] = P
  BY DEF PlanFrom
<1>4. Plan(o2, ls, locs, t, S)
  BY <1>2, <1>3 DEF Plan
<1> QED BY <1>3, <1>4 DEF PlanFrom

(* The locals are known.                                                   *)
Refines(P, Q) ==
  /\ P.e = Q.e /\ P.d = Q.d /\ P.l = Q.l /\ Q.n <= P.n /\ P.x = 1
  /\ Q.x = 1 => P.n = Q.n

LEMMA FromExact ==
  ASSUME NEW o, NEW ls, NEW locs, NEW t, NEW Q \in Places, NEW U, NEW E, NEW W,
         PlanFrom(o, ls, locs, t, Q, U, E, W),
         NEW P \in Places, Refines(P, Q), Fits(locs, P)
  PROVE  PlanFrom(o, ls, locs, t, P, U, E, W)
<1>1. CASE Q.x = 1
  <2>1. P = Q
    BY <1>1 DEF Refines, Places
  <2> QED BY <2>1
<1>2. CASE Q.x = 0
  <2>1. PICK S : Plan(o, ls, locs, t, S) /\ Settles(t, S, U, E, W) /\ S[1] = Q
    BY DEF PlanFrom
  <2> DEFINE T == [S EXCEPT ![1] = P]
             n == Len(t)
  <2>2. /\ IsSeq(t) /\ S \in Seq(Places) /\ Len(S) = n + 1 /\ n \in Nat
        /\ \A k \in 1..n : Link(o, ls, locs, t[k], S[k], S[k + 1])
        /\ \A k \in 1..n + 1 : Fits(locs, S[k])
        /\ \A j, k \in 1..n + 1 : j < k => Before(S[j], S[k])
        /\ \A j, k \in 1..n + 1 : j < k /\ t[j].do = "define" => Below(S[j], S[k])
        /\ \A j, k \in 1..n : j < k /\ t[j].do = "define" /\ Tests(t[k]) => S[k] # S[j]
    BY <2>1, SeqCons DEF Plan
  <2>3. T \in Seq(Places) /\ Len(T) = n + 1 /\ T[1] = P
        /\ \A k \in 1..n + 1 : k # 1 => T[k] = S[k]
    BY <2>2
  <2> HIDE DEF T, n
  <2>4. ASSUME NEW it, NEW B \in Places, Link(o, ls, locs, it, Q, B)
        PROVE  it.do # "define" /\ it.do # "end loop" /\ Link(o, ls, locs, it, P, B)
    <3>1. /\ P.e = Q.e /\ P.d = Q.d /\ P.l = Q.l /\ Q.n <= P.n /\ P.x = 1 /\ Q.x # 1
          /\ P.n \in Nat /\ Q.n \in Nat /\ B.n \in Nat
      BY <1>2 DEF Refines, Places
    <3>2. \A delta : (Keeps(Q, B, delta) => Keeps(P, B, delta))
                     /\ (Closes(Q, B, delta) => Closes(P, B, delta))
                     /\ ~ EndsFor(it.scope, Q, B, delta)
      BY <3>1 DEF Keeps, Closes, EndsFor
    <3>3. it.do \notin {"define", "return", "and", "then", "else", "patch", "while", "for",
                        "for exit", "for increment", "end loop"}
      BY <2>4, <3>1, <3>2 DEF Link, LinkExpr, LinkIf, LinkLoop
    <3>4. LinkExpr(o, it, P, B)
      BY <2>4, <3>1, <3>2, <3>3 DEF Link, LinkExpr
    <3>5. LinkIf(o, it, P, B) /\ LinkLoop(o, ls, locs, it, P, B)
      BY <2>4, <3>3 DEF Link, LinkIf, LinkLoop, Tests
    <3> QED BY <2>4, <3>3, <3>4, <3>5 DEF Link
  <2>5. ASSUME NEW k \in 1..n PROVE Link(o, ls, locs, t[k], T[k], T[k + 1])
    <3>1. T[k + 1] = S[k + 1] /\ S[k + 1] \in Places
      BY <2>2, <2>3
    <3>2. CASE k = 1
      BY <2>1, <2>2, <2>3, <2>4, <3>1, <3>2
    <3>3. CASE k # 1
      BY <2>2, <2>3, <3>1, <3>3
    <3> QED BY <3>2, <3>3
  <2>6. \A B \in Places : Before(Q, B) => Before(P, B)
    <3>1. P.d = Q.d /\ P.l = Q.l /\ Q.n <= P.n /\ P.x = 1 /\ P.n \in Nat /\ Q.n \in Nat
      BY DEF Refines, Places
    <3> QED BY <3>1 DEF Before, Places
  <2>13. ASSUME 1 \in 1..n PROVE t[1].do # "define" /\ t[1].do # "end loop"
    <3>1. Link(o, ls, locs, t[1], S[1], S[1 + 1]) /\ 1 + 1 \in 1..n + 1
      BY <2>2, <2>13
    <3>2. S[1 + 1] \in Places /\ S[1] = Q
      BY <2>1, <2>2, <3>1
    <3> QED BY <2>4, <3>1, <3>2
  <2>7. ASSUME NEW j \in 1..n + 1, NEW k \in 1..n + 1, j < k
        PROVE  Before(T[j], T[k]) /\ (t[j].do = "define" => Below(T[j], T[k]))
    <3>1. T[k] = S[k] /\ S[k] \in Places /\ Before(S[j], S[k])
          /\ (t[j].do = "define" => Below(S[j], S[k]))
      BY <2>2, <2>3, <2>7
    <3>2. CASE j = 1
      <4>1. 1 \in 1..n
        BY <2>2, <2>7, <3>2
      <4>2. t[1].do # "define"
        BY <2>13, <4>1
      <4> QED BY <2>1, <2>3, <2>6, <3>1, <3>2, <4>2
    <3>3. CASE j # 1
      BY <2>3, <3>1, <3>3
    <3> QED BY <3>2, <3>3
  <2>8. \A k \in 1..n + 1 : Fits(locs, T[k])
    BY <2>2, <2>3
  <2>14. ASSUME NEW j \in 1..n, NEW k \in 1..n, j < k, t[j].do = "define", Tests(t[k])
         PROVE  T[k] # T[j]
    <3>1. j # 1
      BY <2>13, <2>14
    <3>2. k # 1 /\ j \in 1..n + 1 /\ k \in 1..n + 1
      BY <2>2, <2>14
    <3>3. T[j] = S[j] /\ T[k] = S[k]
      BY <2>3, <3>1, <3>2
    <3> QED BY <2>2, <2>14, <3>3
  <2>9. Plan(o, ls, locs, t, T)
    BY <2>2, <2>3, <2>5, <2>7, <2>8, <2>14 DEF Plan, n
  <2>10. \A k \in 1..n : k = 1 => t[k].do # "define" /\ t[k].do # "end loop"
    BY <2>13
  <2>11. ASSUME NEW k \in 1..n
         PROVE  (t[k].do = "define" => T[k] = S[k]) /\ (t[k].do = "end loop" => T[k] = S[k])
    <3>1. k \in 1..n + 1
      BY <2>2
    <3>2. CASE k = 1
      BY <2>10, <3>2
    <3>3. CASE k # 1
      BY <2>3, <3>1, <3>3
    <3> QED BY <3>2, <3>3
  <2>12. Settles(t, T, U, E, W)
    <3>1. /\ \A i \in U : \E k \in 1..n : t[k].do = "define" /\ S[k].n = i
          /\ \A m \in E : \E k \in 1..n : t[k].do = "end loop" /\ S[k].l = m
          /\ \A q \in W : \E k \in 1..n : q \in Awaits(t[k])
      BY <2>1 DEF Settles, n
    <3>2. ASSUME NEW i \in U PROVE \E k \in 1..n : t[k].do = "define" /\ T[k].n = i
      <4>1. PICK k \in 1..n : t[k].do = "define" /\ S[k].n = i
        BY <3>1
      <4>2. T[k].n = i
        BY <2>11, <4>1
      <4> QED BY <4>1, <4>2
    <3>3. ASSUME NEW m \in E PROVE \E k \in 1..n : t[k].do = "end loop" /\ T[k].l = m
      <4>1. PICK k \in 1..n : t[k].do = "end loop" /\ S[k].l = m
        BY <3>1
      <4>2. T[k].l = m
        BY <2>11, <4>1
      <4> QED BY <4>1, <4>2
    <3> QED BY <3>1, <3>2, <3>3 DEF Settles, n
  <2> QED BY <2>3, <2>9, <2>12 DEF PlanFrom
<1> QED BY <1>1, <1>2 DEF Places

LEMMA FromLess ==
  ASSUME NEW o, NEW ls, NEW locs, NEW t, NEW P, NEW U, NEW E, NEW W,
         PlanFrom(o, ls, locs, t, P, U, E, W),
         NEW U2, U2 \subseteq U, NEW E2, E2 \subseteq E, NEW W2, W2 \subseteq W
  PROVE  PlanFrom(o, ls, locs, t, P, U2, E2, W2)
<1>1. PICK S : Plan(o, ls, locs, t, S) /\ Settles(t, S, U, E, W) /\ S[1] = P
  BY DEF PlanFrom
<1>2. Settles(t, S, U2, E2, W2)
  BY <1>1 DEF Settles
<1> QED BY <1>1, <1>2 DEF PlanFrom

(* Other locals.                                                           *)
LEMMA PlanLocals ==
  ASSUME NEW o, NEW ls, NEW locs, NEW t, NEW S, Plan(o, ls, locs, t, S), NEW locs2,
         \A k \in 1..Len(S) : Fits(locs2, S[k]),
         \A i \in 1..S[1].n : locs[i].depth >= 0 => locs2[i].depth >= 0,
         \A k \in 1..Len(t) :
           t[k].do = "define" /\ Defines(locs, S[k]) /\ S[k].n \in 1..S[1].n => Defines(locs2, S[k]),
         \A k \in 1..Len(t) : Tests(t[k]) /\ S[k].x = 1 /\ Under(locs, S[k]) => Under(locs2, S[k]),
         \A e, n : \A d \in Nat : d < S[1].d /\ HasSlots(locs, e, n, d) => HasSlots(locs2, e, n, d)
  PROVE  Plan(o, ls, locs2, t, S)
<1> DEFINE n == Len(t)
<1>1. /\ S \in Seq(Places) /\ Len(S) = n + 1 /\ n \in Nat
      /\ \A k \in 1..n : Link(o, ls, locs, t[k], S[k], S[k + 1])
      /\ \A j, k \in 1..n + 1 : j < k => Before(S[j], S[k])
  BY SeqCons DEF Plan
<1>3. \A k \in 1..n :
        /\ t[k].do = "define" /\ Defines(locs, S[k]) /\ S[k].n \in 1..S[1].n => Defines(locs2, S[k])
        /\ Tests(t[k]) /\ S[k].x = 1 /\ Under(locs, S[k]) => Under(locs2, S[k])
  OBVIOUS
<1> HIDE DEF n
<1>2. ASSUME NEW k \in 1..n PROVE Link(o, ls, locs2, t[k], S[k], S[k + 1])
  <2>1. k \in 1..n + 1 /\ 1 \in 1..n + 1 /\ k + 1 \in 1..n + 1 /\ (k = 1 \/ 1 < k)
    BY <1>1
  <2>2. S[k] \in Places /\ S[1] \in Places /\ S[k + 1] \in Places
    BY <1>1, <2>1
  <2>9. /\ S[k].n \in Nat /\ S[1].n \in Nat /\ S[k + 1].n \in Nat
        /\ S[k].d \in Nat /\ S[1].d \in Nat /\ S[k + 1].d \in Nat
    BY <2>2 DEF Places
  <2>3. S[k].n <= S[1].n /\ S[k].n \in Nat /\ S[k].d <= S[1].d
    <3>1. k = 1 \/ Before(S[1], S[k])
      BY <1>1, <2>1
    <3> QED BY <2>9, <3>1 DEF Before
  <2>4. Link(o, ls, locs, t[k], S[k], S[k + 1])
    BY <1>1
  <2>5. S[k].n = S[k + 1].n + 1 /\ locs[S[k].n].depth >= 0 => locs2[S[k].n].depth >= 0
    BY <2>3, <2>9
  <2>7. t[k].do = "define" => Defines(locs2, S[k])
    <3>1. SUFFICES ASSUME t[k].do = "define" PROVE Defines(locs2, S[k])
      OBVIOUS
    <3>2. Defines(locs, S[k]) /\ S[k].n >= 1
      BY <2>4, <3>1 DEF Link, LinkLoop, LinkExpr
    <3>3. S[k].n \in 1..S[1].n
      BY <2>3, <2>9, <3>2
    <3> QED BY <1>3, <3>1, <3>2, <3>3
  <2>8. t[k].do = "close block" => HasSlots(locs2, S[k + 1].e - 1, S[k + 1].n, S[k + 1].d)
    <3>1. SUFFICES ASSUME t[k].do = "close block"
                   PROVE  HasSlots(locs2, S[k + 1].e - 1, S[k + 1].n, S[k + 1].d)
      OBVIOUS
    <3>2. HasSlots(locs, S[k + 1].e - 1, S[k + 1].n, S[k + 1].d) /\ S[k].d = S[k + 1].d + 1
      BY <2>4, <3>1 DEF Link, LinkLoop, LinkExpr, Closes
    <3>3. S[k + 1].d < S[1].d
      BY <2>3, <2>9, <3>2
    <3> QED BY <2>9, <3>2, <3>3
  <2>10. Tests(t[k]) => Under(locs2, S[k])
    <3>1. SUFFICES ASSUME Tests(t[k]) PROVE Under(locs2, S[k])
      OBVIOUS
    <3>2. Under(locs, S[k])
      BY <2>4, <3>1 DEF Link, LinkLoop
    <3>3. S[k].x = 1
      BY <2>4, <3>1 DEF Link, LinkExpr, LinkIf, LinkLoop, Tests, EndsFor
    <3> QED BY <1>3, <3>1, <3>2, <3>3
  <2>6. LinkLoop(o, ls, locs2, t[k], S[k], S[k + 1])
    BY <2>4, <2>5, <2>7, <2>8, <2>10 DEF Link, LinkLoop
  <2> QED BY <2>4, <2>6 DEF Link
<1> QED BY <1>2 DEF Plan, n

(* The depths and slots of the locals are all that counts.                 *)
LEMMA FromDepths ==
  ASSUME NEW o, NEW ls, NEW locs, NEW t, NEW P, NEW U, NEW E, NEW W,
         PlanFrom(o, ls, locs, t, P, U, E, W), P.n <= Len(locs), P.n \in Nat, Len(locs) \in Nat,
         NEW locs2, Len(locs2) = Len(locs),
         \A i \in 1..Len(locs) : locs2[i].depth = locs[i].depth /\ locs2[i].slot = locs[i].slot
  PROVE  PlanFrom(o, ls, locs2, t, P, U, E, W)
<1>1. PICK S : Plan(o, ls, locs, t, S) /\ Settles(t, S, U, E, W) /\ S[1] = P
  BY DEF PlanFrom
<1>5. \A e, n, d : HasSlots(locs, e, n, d) => HasSlots(locs2, e, n, d)
  BY DEF HasSlots, InScope
<1>2. \A k \in 1..Len(S) : Fits(locs2, S[k])
  BY <1>1, <1>5 DEF Plan, Fits
<1>6. \A i \in 1..S[1].n : i \in 1..Len(locs)
  BY <1>1
<1>3. \A i \in 1..S[1].n : locs[i].depth >= 0 => locs2[i].depth >= 0
  BY <1>6
<1>7. \A k \in 1..Len(t) :
        t[k].do = "define" /\ Defines(locs, S[k]) /\ S[k].n \in 1..S[1].n => Defines(locs2, S[k])
  BY <1>6 DEF Defines
<1>8. \A k \in 1..Len(t) : Tests(t[k]) /\ S[k].x = 1 /\ Under(locs, S[k]) => Under(locs2, S[k])
  BY <1>5 DEF Under
<1>4. Plan(o, ls, locs2, t, S)
  BY <1>1, <1>2, <1>3, <1>5, <1>7, <1>8, PlanLocals
<1> QED BY <1>1, <1>4 DEF PlanFrom

(* The locals that remain when a scope is closed.                          *)
LEMMA FromPrefix ==
  ASSUME NEW o, NEW ls, NEW locs, NEW t, NEW P, NEW U, NEW E, NEW W,
         PlanFrom(o, ls, locs, t, P, U, E, W), P \in Places, P.x = 1, Len(locs) \in Nat,
         \A i \in 1..Len(locs) : locs[i].depth \in Int,
         NEW locs2, Len(locs2) = P.n, P.n <= Len(locs),
         \A i \in 1..P.n : locs2[i] = locs[i]
  PROVE  PlanFrom(o, ls, locs2, t, P, U, E, W)
<1>1. PICK S : Plan(o, ls, locs, t, S) /\ Settles(t, S, U, E, W) /\ S[1] = P
  BY DEF PlanFrom
<1>2. P.n \in Nat /\ P.d \in Nat /\ \A i \in 1..P.n : i \in 1..Len(locs)
  BY DEF Places
<1>5. S \in Seq(Places) /\ Len(S) \in Nat \ {0} /\ \A k \in 1..Len(S) : k = 1 \/ 1 < k
  BY <1>1, SeqCons DEF Plan
<1>6. ASSUME NEW i \in 1..Len(locs), i > P.n
      PROVE  locs[i].depth = UNINITIALIZED \/ locs[i].depth > P.d
  BY <1>1, <1>5, <1>6 DEF Plan, Fits
<1>7. ASSUME NEW e, NEW n, NEW d, d <= P.d, d \in Nat, HasSlots(locs, e, n, d)
      PROVE  HasSlots(locs2, e, n, d)
  <2>1. ASSUME NEW i \in 1..Len(locs), InScope(locs, i, d)
        PROVE  i \in 1..P.n
    <3>1. i <= P.n
      BY <1>2, <1>6, <1>7, <2>1 DEF InScope, UNINITIALIZED
    <3> QED BY <1>2, <3>1
  <2>2. \A i \in 1..P.n : InScope(locs2, i, d) <=> InScope(locs, i, d)
    BY DEF InScope
  <2> QED BY <1>2, <1>7, <2>1, <2>2 DEF HasSlots
<1>3. ASSUME NEW k \in 1..Len(S)
      PROVE  Fits(locs2, S[k]) /\ (Under(locs, S[k]) => Under(locs2, S[k]))
  <2>1. Fits(locs, S[k]) /\ S[k] \in Places
    BY <1>1, <1>5 DEF Plan
  <2>2. S[k].d <= P.d /\ S[k].d \in Nat
    <3>1. k = 1 \/ Before(P, S[k])
      BY <1>1, <1>5 DEF Plan
    <3> QED BY <1>1, <1>2, <2>1, <3>1 DEF Before, Places
  <2>3. HasSlots(locs2, S[k].e, S[k].n, S[k].d)
    BY <1>7, <2>1, <2>2 DEF Fits
  <2>4. Under(locs, S[k]) => Under(locs2, S[k])
    BY <1>7, <2>2 DEF Under
  <2> QED BY <1>2, <2>1, <2>3, <2>4 DEF Fits
<1>8. ASSUME NEW e, NEW n, NEW d \in Nat, d < S[1].d, HasSlots(locs, e, n, d)
      PROVE  HasSlots(locs2, e, n, d)
  <2>1. d <= P.d
    BY <1>1, <1>2, <1>8
  <2> QED BY <1>7, <1>8, <2>1
<1>9. \A k \in 1..Len(t) :
        t[k].do = "define" /\ Defines(locs, S[k]) /\ S[k].n \in 1..S[1].n => Defines(locs2, S[k])
  BY <1>1 DEF Defines
<1>10. \A k \in 1..Len(t) : Tests(t[k]) /\ S[k].x = 1 /\ Under(locs, S[k]) => Under(locs2, S[k])
  <2>1. \A k \in 1..Len(t) : k \in 1..Len(S)
    BY <1>1, SeqCons DEF Plan
  <2> QED BY <1>3, <2>1
<1>4. Plan(o, ls, locs2, t, S)
  BY <1>1, <1>2, <1>3, <1>8, <1>9, <1>10, PlanLocals
<1> QED BY <1>1, <1>4 DEF PlanFrom

(* One more local: its initializer is not finished, or its scope is still   *)
(* open to declarations.                                                   *)
LEMMA FromAppend ==
  ASSUME NEW o, NEW ls, NEW locs, NEW t, NEW P, NEW U, NEW E, NEW W,
         PlanFrom(o, ls, locs, t, P, U, E, W), P \in Places,
         locs \in Seq(Slots), NEW new \in Slots, P.n <= Len(locs),
         \/ new.depth = UNINITIALIZED
         \/ P.x = 0 /\ new.depth = P.d /\ new.slot < P.e + (Len(locs) + 1)
  PROVE  PlanFrom(o, ls, Append(locs, new), t, P, U, E, W)
<1> DEFINE locs2 == Append(locs, new)
           n == Len(locs)
<1>1. PICK S : Plan(o, ls, locs, t, S) /\ Settles(t, S, U, E, W) /\ S[1] = P
  BY DEF PlanFrom
<1>2. n \in Nat /\ P.n \in Nat /\ P.d \in Nat /\ P.e \in Int /\ new.depth \in Int /\ new.slot \in Int
  BY DEF Places, Slots
<1>3. Len(locs2) = n + 1 /\ locs2[n + 1] = new /\ \A i \in 1..n : locs2[i] = locs[i]
  BY <1>2
<1>10. \/ new.depth = UNINITIALIZED
       \/ P.x = 0 /\ new.depth = P.d /\ new.slot < P.e + (n + 1)
  OBVIOUS
<1> HIDE DEF locs2, n
<1>7. \A i \in 1..n + 1 : i \in 1..n \/ i = n + 1
  BY <1>2
<1>8. \A i \in 1..n : i \in 1..n + 1
  BY <1>2
<1>9. ASSUME NEW e, NEW m, NEW d, HasSlots(locs, e, m, d),
             InScope(locs2, n + 1, d) => new.slot < e + (n + 1)
      PROVE  HasSlots(locs2, e, m, d)
  <2>1. \A i \in 1..n : InScope(locs2, i, d) <=> InScope(locs, i, d)
    BY <1>3 DEF InScope
  <2>2. ASSUME NEW i \in 1..n + 1, InScope(locs2, i, d)
        PROVE  \/ locs2[i].slot < e + m
               \/ \E j \in 1..n + 1 : InScope(locs2, j, d) /\ locs2[i].slot < e + j
    <3>1. CASE i = n + 1
      <4>1. n + 1 \in 1..n + 1 /\ locs2[i].slot < e + (n + 1) /\ InScope(locs2, n + 1, d)
        BY <1>2, <1>3, <1>9, <2>2, <3>1
      <4> QED BY <4>1
    <3>2. CASE i \in 1..n
      <4>1. InScope(locs, i, d) /\ locs2[i] = locs[i]
        BY <1>3, <2>1, <2>2, <3>2
      <4>2. \/ locs[i].slot < e + m
            \/ \E j \in 1..n : InScope(locs, j, d) /\ locs[i].slot < e + j
        BY <1>9, <3>2, <4>1 DEF HasSlots, n
      <4>3. CASE locs[i].slot < e + m
        BY <4>1, <4>3
      <4>4. CASE \E j \in 1..n : InScope(locs, j, d) /\ locs[i].slot < e + j
        <5>1. PICK j \in 1..n : InScope(locs, j, d) /\ locs[i].slot < e + j
          BY <4>4
        <5>2. j \in 1..n + 1 /\ InScope(locs2, j, d)
          BY <1>8, <2>1, <5>1
        <5> QED BY <4>1, <5>1, <5>2
      <4> QED BY <4>2, <4>3, <4>4
    <3> QED BY <1>7, <3>1, <3>2
  <2> QED BY <1>3, <2>2 DEF HasSlots
<1>4. ASSUME NEW k \in 1..Len(S)
      PROVE  Fits(locs2, S[k]) /\ (S[k].x = 1 /\ Under(locs, S[k]) => Under(locs2, S[k]))
  <2>1. Fits(locs, S[k]) /\ S[k] \in Places /\ S \in Seq(Places) /\ Len(S) \in Nat
    BY <1>1 DEF Plan
  <2>2. S[k].n \in Nat /\ S[k].d \in Nat /\ S[k].e \in Int
    BY <2>1 DEF Places
  <2>3. k = 1 \/ Before(P, S[k])
    <3>1. k = 1 \/ 1 < k
      BY <2>1
    <3> QED BY <1>1, <2>1, <3>1 DEF Plan
  <2>4. /\ S[k].n <= P.n /\ S[k].d <= P.d
        /\ S[k].x = 1 /\ P.x = 0 => S[k].d < P.d
        /\ P.x = 0 /\ S[k].d = P.d => S[k].e >= P.e
    BY <1>1, <1>2, <2>3 DEF Before
  <2>5. P.n <= n
    BY DEF n
  <2>6. n + 1 > S[k].n
    BY <1>2, <2>2, <2>4, <2>5
  <2>7. S[k].x = 1 => new.depth = UNINITIALIZED \/ new.depth > S[k].d
    BY <1>2, <1>10, <2>2, <2>4
  <2>8. ASSUME S[k].x = 1, NEW i \in 1..n + 1
        PROVE  /\ i <= S[k].n => locs2[i].depth <= S[k].d
               /\ i > S[k].n => locs2[i].depth = UNINITIALIZED \/ locs2[i].depth > S[k].d
    <3>1. CASE i = n + 1
      BY <1>2, <1>3, <2>2, <2>6, <2>7, <2>8, <3>1
    <3>2. CASE i \in 1..n
      BY <1>3, <2>1, <2>8, <3>2 DEF Fits, n
    <3> QED BY <1>7, <3>1, <3>2
  <2>9. InScope(locs2, n + 1, S[k].d) => new.slot < S[k].e + (n + 1)
    <3>1. SUFFICES ASSUME new.depth # UNINITIALIZED, new.depth <= S[k].d
                   PROVE  new.slot < S[k].e + (n + 1)
      BY <1>3 DEF InScope
    <3>2. S[k].d = P.d /\ P.x = 0 /\ new.slot < P.e + (n + 1)
      BY <1>2, <1>10, <2>2, <2>4, <3>1
    <3> QED BY <1>2, <2>2, <2>4, <3>2
  <2>10. HasSlots(locs2, S[k].e, S[k].n, S[k].d)
    BY <1>9, <2>1, <2>9 DEF Fits
  <2>11. ASSUME S[k].x = 1, Under(locs, S[k]) PROVE Under(locs2, S[k])
    <3>1. new.depth = UNINITIALIZED \/ new.depth > S[k].d
      BY <2>7, <2>11
    <3>2. ~ InScope(locs2, n + 1, S[k].d)
      BY <1>2, <1>3, <2>2, <3>1 DEF InScope
    <3> QED BY <1>9, <2>11, <3>2 DEF Under
  <2> QED BY <1>3, <2>1, <2>8, <2>10, <2>11 DEF Fits
<1>5. \A i \in 1..S[1].n : i \in 1..n /\ locs2[i] = locs[i]
  <2>1. \A i \in 1..P.n : i \in 1..n
    BY <1>2 DEF n
  <2> QED BY <1>1, <1>3, <2>1
<1>11. \A k \in 1..Len(t) :
         t[k].do = "define" /\ Defines(locs, S[k]) /\ S[k].n \in 1..S[1].n => Defines(locs2, S[k])
  BY <1>5 DEF Defines
<1>12. ASSUME NEW e, NEW m, NEW d \in Nat, d < S[1].d, HasSlots(locs, e, m, d)
       PROVE  HasSlots(locs2, e, m, d)
  <2>1. ~ InScope(locs2, n + 1, d)
    BY <1>1, <1>2, <1>3, <1>10, <1>12 DEF InScope
  <2> QED BY <1>9, <1>12, <2>1
<1>6. Plan(o, ls, locs2, t, S)
  <2>1. \A i \in 1..S[1].n : locs[i].depth >= 0 => locs2[i].depth >= 0
    BY <1>5
  <2>2. \A k \in 1..Len(t) : Tests(t[k]) /\ S[k].x = 1 /\ Under(locs, S[k]) => Under(locs2, S[k])
    <3>1. \A k \in 1..Len(t) : k \in 1..Len(S)
      BY <1>1, SeqCons DEF Plan
    <3> QED BY <1>4, <3>1
  <2> QED BY <1>1, <1>4, <1>11, <1>12, <2>1, <2>2, PlanLocals
<1> QED BY <1>1, <1>6 DEF PlanFrom, locs2

(* The variable is defined.                                                *)
LEMMA FromDefine ==
  ASSUME NEW o, NEW ls, NEW locs, NEW t, NEW P, NEW U, NEW E, NEW W,
         PlanFrom(o, ls, locs, t, P, U, E, W), t # << >>, t[1].do = "define",
         Len(locs) \in Nat, P.n = Len(locs),
         NEW locs2, Len(locs2) = Len(locs),
         locs2[P.n].depth = P.d, locs2[P.n].slot = locs[P.n].slot, locs[P.n].slot \in Int,
         \A i \in 1..Len(locs) : i # P.n => locs2[i] = locs[i]
  PROVE  PlanFrom(o, ls, locs2, Tail(t), P, U \ {P.n}, E, W)
<1>1. PICK S : Plan(o, ls, locs, t, S) /\ Settles(t, S, U, E, W) /\ S[1] = P
  BY DEF PlanFrom
<1> DEFINE n == Len(t)
<1>2. /\ IsSeq(t) /\ S \in Seq(Places) /\ Len(S) = n + 1
      /\ \A k \in 1..n : Link(o, ls, locs, t[k], S[k], S[k + 1])
      /\ \A k \in 1..n + 1 : Fits(locs, S[k])
      /\ \A j, k \in 1..n + 1 : j < k => Before(S[j], S[k])
      /\ \A j, k \in 1..n + 1 : j < k /\ t[j].do = "define" => Below(S[j], S[k])
      /\ \A j, k \in 1..n : j < k /\ t[j].do = "define" /\ Tests(t[k]) => S[k] # S[j]
  BY <1>1 DEF Plan
<1>3. n \in Nat \ {0}
  BY <1>2, SeqTail
<1> HIDE DEF n
<1>4. 1 \in 1..n /\ 1 \in 1..n + 1 /\ S[1 + 1] = S[2] /\ \A k \in 1..n + 1 : k = 1 \/ 1 < k
  BY <1>3
<1>5. P \in Places
  BY <1>1, <1>2, <1>4
<1>6. P.x = 1 /\ P.n >= 1 /\ S[2] = P /\ Defines(locs, P)
  <2>1. Link(o, ls, locs, t[1], P, S[2])
    BY <1>1, <1>2, <1>4
  <2> QED BY <2>1 DEF Link, LinkExpr, LinkLoop
<1>13. /\ P.n \in Nat /\ P.d \in Nat /\ P.e \in Int /\ P.n \in 1..Len(locs)
       /\ locs2[P.n].slot = P.e + P.n - 1
       /\ locs[P.n].depth = UNINITIALIZED \/ locs[P.n].depth = P.d
  BY <1>5, <1>6 DEF Places, Defines, H
<1>14. ASSUME NEW e, NEW m, NEW d \in Nat, d <= P.d, HasSlots(locs, e, m, d),
              d = P.d => locs2[P.n].slot < e + m \/ locs2[P.n].slot < e + P.n
       PROVE  HasSlots(locs2, e, m, d)
  <2>1. \A i \in 1..Len(locs) : InScope(locs, i, d) => InScope(locs2, i, d)
    <3>1. InScope(locs, P.n, d) => InScope(locs2, P.n, d)
      BY <1>13, <1>14 DEF InScope, UNINITIALIZED
    <3> QED BY <3>1 DEF InScope
  <2>2. ASSUME NEW i \in 1..Len(locs), InScope(locs2, i, d)
        PROVE  \/ locs2[i].slot < e + m
               \/ \E j \in 1..Len(locs) : InScope(locs2, j, d) /\ locs2[i].slot < e + j
    <3>1. CASE i = P.n
      <4>1. d = P.d
        BY <1>13, <1>14, <2>2, <3>1 DEF InScope
      <4> QED BY <1>13, <1>14, <2>2, <3>1, <4>1
    <3>2. CASE i # P.n
      <4>1. locs2[i] = locs[i] /\ InScope(locs, i, d)
        BY <2>2, <3>2 DEF InScope
      <4>2. \/ locs[i].slot < e + m
            \/ \E j \in 1..Len(locs) : InScope(locs, j, d) /\ locs[i].slot < e + j
        BY <1>14, <4>1 DEF HasSlots
      <4> QED BY <2>1, <4>1, <4>2
    <3> QED BY <3>1, <3>2
  <2> QED BY <2>2 DEF HasSlots
<1>7. ASSUME NEW k \in 1..n + 1 PROVE Fits(locs2, S[k])
  <2>1. S[k] = P \/ Outside(P, S[k])
    BY <1>1, <1>2, <1>4 DEF Below
  <2>2. Fits(locs, S[k]) /\ S[k] \in Places
    BY <1>2
  <2>3. /\ P.n \in Nat /\ P.d \in Nat /\ S[k].n \in Nat /\ S[k].d \in Nat /\ S[k].n <= P.n
        /\ S[k].x = 1 => (S[k].n < P.n => S[k].d < P.d) /\ (S[k].n = P.n => S[k].d = P.d)
    BY <1>5, <2>1, <2>2 DEF Outside, Places
  <2>4. ASSUME S[k].x = 1, NEW i \in 1..Len(locs)
        PROVE  /\ i <= S[k].n => locs2[i].depth <= S[k].d
               /\ i > S[k].n => locs2[i].depth = UNINITIALIZED \/ locs2[i].depth > S[k].d
    <3>1. CASE i = P.n
      BY <2>3, <2>4, <3>1
    <3>2. CASE i # P.n
      BY <2>2, <2>4, <3>2 DEF Fits
    <3> QED BY <3>1, <3>2
  <2>5. S[k].d <= P.d /\ (S[k].d = P.d => locs2[P.n].slot < S[k].e + P.n)
    <3>1. CASE S[k] = P
      BY <1>13, <3>1
    <3>2. CASE Outside(P, S[k])
      <4>1. S[k].e \in Int
        BY <2>2 DEF Places
      <4> QED BY <1>13, <2>3, <3>2, <4>1 DEF Outside
    <3> QED BY <2>1, <3>1, <3>2
  <2>6. HasSlots(locs2, S[k].e, S[k].n, S[k].d)
    BY <1>14, <2>2, <2>3, <2>5 DEF Fits
  <2> QED BY <2>2, <2>4, <2>6 DEF Fits
<1>8. \A i \in 1..S[1].n : locs[i].depth >= 0 => locs2[i].depth >= 0
  BY <1>1, <1>5 DEF Places
<1>15. ASSUME NEW k \in 1..n, t[k].do = "define", Defines(locs, S[k]), S[k].n \in 1..S[1].n
       PROVE  Defines(locs2, S[k])
  <2>1. S[k] = P \/ Outside(P, S[k])
    BY <1>1, <1>2, <1>3, <1>4 DEF Below
  <2>2. CASE S[k].n = P.n
    <3>1. S[k] = P
      BY <1>13, <2>1, <2>2 DEF Outside
    <3> QED BY <1>15, <3>1 DEF Defines
  <2>3. CASE S[k].n # P.n
    <3>1. locs2[S[k].n] = locs[S[k].n]
      BY <1>1, <1>15, <2>3
    <3> QED BY <1>15, <3>1 DEF Defines
  <2> QED BY <2>2, <2>3
<1>16. ASSUME NEW e, NEW m, NEW d \in Nat, d < S[1].d, HasSlots(locs, e, m, d)
       PROVE  HasSlots(locs2, e, m, d)
  <2>1. d <= P.d /\ d # P.d
    BY <1>1, <1>13, <1>16
  <2> QED BY <1>14, <1>16, <2>1
<1>17. ASSUME NEW k \in 1..n, Tests(t[k]), S[k].x = 1, Under(locs, S[k])
       PROVE  Under(locs2, S[k])
  <2>1. k \in 1..n + 1 /\ 1 < k
    <3>1. k # 1
      BY <1>17 DEF Tests
    <3> QED BY <1>3, <1>4, <3>1
  <2>2. S[k] # P /\ S[k] \in Places
    BY <1>1, <1>2, <1>4, <1>17, <2>1
  <2>3. Outside(P, S[k])
    BY <1>1, <1>2, <1>4, <2>1, <2>2 DEF Below
  <2>4. S[k].d \in Nat /\ S[k].d < P.d
    BY <1>17, <2>2, <2>3 DEF Outside, Places
  <2>5. S[k].d <= P.d /\ S[k].d # P.d
    BY <1>13, <2>4
  <2> QED BY <1>14, <1>17, <2>4, <2>5 DEF Under
<1>9. Plan(o, ls, locs2, t, S)
  BY <1>1, <1>2, <1>7, <1>8, <1>15, <1>16, <1>17, PlanLocals DEF n
<1>10. PlanFrom(o, ls, locs2, t, P, U, E, W)
  BY <1>1, <1>9 DEF PlanFrom
<1>11. PICK Q \in Places :
         /\ PlanFrom(o, ls, locs2, Tail(t), Q, U \ {P.n}, E, W \ Awaits(t[1]))
         /\ Link(o, ls, locs2, t[1], P, Q)
  <2>1. StillUndefined(t[1], P, U) = U \ {P.n} /\ StillOpen(t[1], P, E) = E
    BY DEF StillUndefined, StillOpen
  <2>2. \E Q \in Places :
          /\ PlanFrom(o, ls, locs2, Tail(t), Q, StillUndefined(t[1], P, U),
                      StillOpen(t[1], P, E), W \ Awaits(t[1]))
          /\ Link(o, ls, locs2, t[1], P, Q)
    BY <1>10, FromTail
  <2> QED BY <2>1, <2>2
<1>12. Q = P /\ W \ Awaits(t[1]) = W
  BY <1>11 DEF Link, LinkExpr, Awaits
<1> QED BY <1>11, <1>12

(* Where the body of a loop ends, and where the loop ends.                 *)
EndsLoop(o, loop, locs, P, Q) ==
  /\ P \in Places /\ Q \in Places /\ P.x = 1 /\ Q.x = 1 /\ Q.e = P.e
  /\ ClosesFor(TRUE, P, Q) \/ ClosesFor(FALSE, P, Q)
  /\ Fits(locs, P) /\ Fits(locs, Q) /\ LoopOf(o, loop, P, Q)
  /\ P.n = Q.n + 1 => locs[P.n].depth >= 0

(* Other loops, or the loops with another break.                           *)
LoopsKept(o, ls, ls2, locs, top) ==
  \A m \in 1..top : \A P, Q : EndsLoop(o, ls[m], locs, P, Q) => LoopOf(o, ls2[m], P, Q)

LEMMA PlanLoops ==
  ASSUME NEW o, NEW ls, NEW locs, NEW t, NEW S, Plan(o, ls, locs, t, S), NEW ls2,
         LoopsKept(o, ls, ls2, locs, S[1].l)
  PROVE  Plan(o, ls2, locs, t, S)
<1> DEFINE n == Len(t)
<1>1. /\ S \in Seq(Places) /\ Len(S) = n + 1 /\ n \in Nat
      /\ \A k \in 1..n : Link(o, ls, locs, t[k], S[k], S[k + 1])
      /\ \A k \in 1..n + 1 : Fits(locs, S[k])
      /\ \A j, k \in 1..n + 1 : j < k => Before(S[j], S[k])
  BY SeqCons DEF Plan
<1> HIDE DEF n
<1>2. ASSUME NEW k \in 1..n PROVE Link(o, ls2, locs, t[k], S[k], S[k + 1])
  <2>1. k \in 1..n + 1 /\ 1 \in 1..n + 1 /\ k + 1 \in 1..n + 1 /\ (k = 1 \/ 1 < k)
    BY <1>1
  <2>2. S[k] \in Places /\ S[1] \in Places /\ S[k + 1] \in Places
    BY <1>1, <2>1
  <2>3. S[k].l <= S[1].l /\ S[k].l \in Nat /\ S[1].l \in Nat
    BY <1>1, <2>1, <2>2 DEF Before, Places
  <2>4. Link(o, ls, locs, t[k], S[k], S[k + 1])
    BY <1>1
  <2>5. t[k].do = "end loop" => LoopOf(o, ls2[S[k].l], S[k], S[k + 1])
    <3>1. SUFFICES ASSUME t[k].do = "end loop" PROVE LoopOf(o, ls2[S[k].l], S[k], S[k + 1])
      OBVIOUS
    <3>2. S[k].l >= 1 /\ EndsLoop(o, ls[S[k].l], locs, S[k], S[k + 1])
      BY <1>1, <2>1, <2>2, <2>4, <3>1 DEF Link, LinkLoop, EndsLoop, ClosesFor
    <3>3. S[k].l \in 1..S[1].l
      BY <2>3, <3>2
    <3> QED BY <2>2, <3>2, <3>3 DEF LoopsKept
  <2>6. LinkLoop(o, ls2, locs, t[k], S[k], S[k + 1])
    BY <2>4, <2>5 DEF Link, LinkLoop
  <2> QED BY <2>4, <2>6 DEF Link
<1> QED BY <1>2 DEF Plan, n

LEMMA FromLoops ==
  ASSUME NEW o, NEW ls, NEW locs, NEW t, NEW P, NEW U, NEW E, NEW W,
         PlanFrom(o, ls, locs, t, P, U, E, W), NEW ls2, \A m \in 1..P.l : ls2[m] = ls[m]
  PROVE  PlanFrom(o, ls2, locs, t, P, U, E, W)
<1>1. PICK S : Plan(o, ls, locs, t, S) /\ Settles(t, S, U, E, W) /\ S[1] = P
  BY DEF PlanFrom
<1>2. LoopsKept(o, ls, ls2, locs, S[1].l)
  BY <1>1 DEF LoopsKept, EndsLoop
<1>3. Plan(o, ls2, locs, t, S)
  BY <1>1, <1>2, PlanLoops
<1> QED BY <1>1, <1>3 DEF PlanFrom

(* The height where a loop has ended: without the variable of its           *)
(* initializer.                                                            *)
HasVariable(locs, loop) ==
  loop.locals >= 1 /\ locs[loop.locals].depth > loop.scopeDepth
EndHeight(locs, loop) == IF HasVariable(locs, loop) THEN loop.height - 1 ELSE loop.height

LEMMA EndsAtHeight ==
  ASSUME NEW o, NEW loop, NEW locs \in Seq(Slots), NEW P, NEW Q, EndsLoop(o, loop, locs, P, Q),
         P.n <= Len(locs)
  PROVE  EndHeight(locs, loop) = H(Q)
<1>1. /\ P.e \in Int /\ P.n \in Nat /\ Q.n \in Nat /\ P.d \in Nat /\ Q.d \in Nat /\ Q.e = P.e
      /\ loop.height = P.e + P.n /\ loop.locals = P.n /\ loop.scopeDepth = Q.d
  BY DEF EndsLoop, LoopOf, Places, H
<1>2. P.n = Q.n \/ P.n = Q.n + 1
  BY DEF EndsLoop, ClosesFor
<1>3. H(Q) = P.e + Q.n
  BY <1>1 DEF H
<1>4. Fits(locs, Q) /\ Q.x = 1
  BY DEF EndsLoop
<1>5. CASE P.n = Q.n
  <2>1. ~ HasVariable(locs, loop)
    <3>1. SUFFICES ASSUME P.n >= 1 PROVE ~ (locs[P.n].depth > Q.d)
      BY <1>1 DEF HasVariable
    <3>2. P.n \in 1..Len(locs) /\ P.n <= Q.n
      BY <1>1, <1>5, <3>1
    <3>3. locs[P.n].depth \in Int
      <4>1. locs[P.n] \in Slots
        BY <3>2
      <4> QED BY <4>1 DEF Slots
    <3>4. locs[P.n].depth <= Q.d
      BY <1>4, <3>2 DEF Fits
    <3> QED BY <1>1, <3>3, <3>4
  <2> QED BY <1>1, <1>3, <1>5, <2>1 DEF EndHeight
<1>6. CASE P.n = Q.n + 1
  <2>1. HasVariable(locs, loop)
    <3>1. P.n \in 1..Len(locs) /\ P.n > Q.n /\ P.n >= 1
      BY <1>1, <1>6
    <3>2. locs[P.n].depth >= 0
      BY <1>6 DEF EndsLoop
    <3>3. locs[P.n].depth = UNINITIALIZED \/ locs[P.n].depth > Q.d
      BY <1>4, <3>1 DEF Fits
    <3>4. locs[P.n].depth > Q.d
      BY <3>2, <3>3 DEF UNINITIALIZED
    <3> QED BY <1>1, <3>1, <3>4 DEF HasVariable
  <2>2. loop.height - 1 = P.e + Q.n
    BY <1>1, <1>6
  <2> QED BY <1>3, <2>1, <2>2 DEF EndHeight
<1> QED BY <1>2, <1>5, <1>6

LEMMA FromBreak ==
  ASSUME NEW o, NEW ls, ls \in Seq(Loops), NEW locs \in Seq(Slots), NEW t, NEW P, NEW U, NEW E,
         NEW W, PlanFrom(o, ls, locs, t, P, U, E, W), P \in Places, P.l <= Len(ls),
         NEW m \in 1..Len(ls), ls[m].locals <= Len(locs),
         NEW b, Patchable(o, b, EndHeight(locs, ls[m]))
  PROVE  PlanFrom(o, [ls EXCEPT ![m].breaks = @ \cup {b}], locs, t, P, U, E, W)
<1> DEFINE ls2 == [ls EXCEPT ![m].breaks = @ \cup {b}]
<1>1. PICK S : Plan(o, ls, locs, t, S) /\ Settles(t, S, U, E, W) /\ S[1] = P
  BY DEF PlanFrom
<1>2. P.l \in Nat /\ Len(ls) \in Nat /\ \A k \in 1..P.l : k \in 1..Len(ls)
  BY DEF Places
<1>3. ASSUME NEW k \in 1..P.l, NEW A, NEW B, EndsLoop(o, ls[k], locs, A, B)
      PROVE  LoopOf(o, ls2[k], A, B)
  <2>0. LoopOf(o, ls[k], A, B)
    BY <1>3 DEF EndsLoop
  <2>1. CASE k # m
    <3>1. ls2[k] = ls[k]
      BY <1>2, <2>1
    <3> QED BY <2>0, <3>1
  <2>2. CASE k = m
    <3> DEFINE loop == ls[m]
               loop2 == ls2[m]
    <3>1. loop \in Loops /\ loop2 = [loop EXCEPT !.breaks = @ \cup {b}]
      <4>1. ls \in [1..Len(ls) -> Loops]
        OBVIOUS
      <4> QED BY <4>1
    <3> HIDE DEF loop2, ls2
    <3>2. /\ loop2.locals = loop.locals /\ loop2.height = loop.height
          /\ loop2.continueDepth = loop.continueDepth /\ loop2.scopeDepth = loop.scopeDepth
          /\ loop2.continueTarget = loop.continueTarget /\ loop2.breaks = loop.breaks \cup {b}
      BY <3>1 DEF Loops
    <3>3. EndHeight(locs, loop) = H(B)
      <4>1. EndsLoop(o, loop, locs, A, B)
        BY <1>3, <2>2
      <4>2. A.n <= Len(locs)
        BY <2>0, <2>2 DEF LoopOf
      <4> HIDE DEF loop
      <4> QED BY <4>1, <4>2, EndsAtHeight
    <3>4. LoopOf(o, loop2, A, B)
      BY <2>0, <2>2, <3>2, <3>3 DEF LoopOf
    <3> QED BY <2>2, <3>4 DEF loop2
  <2> QED BY <2>1, <2>2
<1> HIDE DEF ls2
<1>4. LoopsKept(o, ls, ls2, locs, S[1].l)
  BY <1>1, <1>3 DEF LoopsKept
<1>5. Plan(o, ls2, locs, t, S)
  BY <1>1, <1>4, PlanLoops
<1> QED BY <1>1, <1>5 DEF PlanFrom, ls2

LEMMA FromLoop ==
  ASSUME NEW o, NEW ls, NEW locs, NEW t, NEW P, NEW U, NEW E, NEW W,
         PlanFrom(o, ls, locs, t, P, U, E, W), NEW m \in E
  PROVE  \E A, B : EndsLoop(o, ls[m], locs, A, B) /\ A.n <= P.n
<1>1. PICK S : Plan(o, ls, locs, t, S) /\ Settles(t, S, U, E, W) /\ S[1] = P
  BY DEF PlanFrom
<1>2. PICK k \in 1..Len(t) : t[k].do = "end loop" /\ S[k].l = m
  BY <1>1 DEF Settles
<1>3. S \in Seq(Places) /\ Len(S) = Len(t) + 1 /\ Len(t) \in Nat
  BY <1>1, SeqCons DEF Plan
<1>4. k \in 1..Len(S) /\ k + 1 \in 1..Len(S) /\ 1 \in 1..Len(S) /\ (k = 1 \/ 1 < k)
  BY <1>3
<1>5. S[k] \in Places /\ S[k + 1] \in Places /\ Fits(locs, S[k]) /\ Fits(locs, S[k + 1])
  BY <1>1, <1>3, <1>4 DEF Plan
<1>6. S[k].n <= P.n
  <2>1. S[k] = P \/ Before(P, S[k])
    BY <1>1, <1>4 DEF Plan
  <2> QED BY <1>5, <2>1 DEF Before, Places
<1>7. Link(o, ls, locs, t[k], S[k], S[k + 1])
  BY <1>1 DEF Plan
<1>8. EndsLoop(o, ls[m], locs, S[k], S[k + 1])
  BY <1>2, <1>5, <1>7 DEF Link, LinkLoop, EndsLoop, ClosesFor
<1> QED BY <1>6, <1>8

----------------------------------------------------------------------------
(* The steps of the compiler.                                              *)

LEMMA Peel ==
  ASSUME NEW Y, NEW t, t \in Seq(Y), NEW p, p \in Seq(Y), NEW q, q \in Seq(Y), NEW a \in Y,
         Len(p) = Len(q) + 1, p[1] = a, \A k \in 1..Len(q) : p[k + 1] = q[k]
  PROVE  p \o t = <<a>> \o (q \o t)
<1> DEFINE r == p \o t
           u == q \o t
           s == <<a>> \o u
           n == Len(q) + Len(t)
<1>1. /\ Len(t) \in Nat /\ Len(q) \in Nat /\ r \in Seq(Y) /\ Len(r) = n + 1
      /\ \A k \in 1..Len(q) + 1 : r[k] = p[k]
      /\ \A k \in 1..Len(t) : r[k + (Len(q) + 1)] = t[k]
  <2>1. Len(t) \in Nat /\ Len(q) \in Nat
    OBVIOUS
  <2>2. r \in Seq(Y) /\ Len(r) = Len(p) + Len(t)
        /\ \A i \in 1..Len(p) + Len(t) : r[i] = IF i <= Len(p) THEN p[i] ELSE t[i - Len(p)]
    BY ConcatProperties
  <2> HIDE DEF r
  <2>3. ASSUME NEW k \in 1..Len(q) + 1 PROVE r[k] = p[k]
    <3>1. k \in 1..Len(p) + Len(t) /\ k <= Len(p)
      BY <2>1
    <3> QED BY <2>2, <3>1
  <2>4. ASSUME NEW k \in 1..Len(t) PROVE r[k + (Len(q) + 1)] = t[k]
    <3>1. /\ k + (Len(q) + 1) \in 1..Len(p) + Len(t) /\ ~ (k + (Len(q) + 1) <= Len(p))
          /\ k + (Len(q) + 1) - Len(p) = k
      BY <2>1
    <3> QED BY <2>2, <3>1
  <2>5. Len(p) + Len(t) = n + 1
    BY <2>1
  <2> QED BY <2>1, <2>2, <2>3, <2>4, <2>5
<1>2. /\ u \in Seq(Y) /\ Len(u) = n
      /\ \A k \in 1..Len(q) : u[k] = q[k]
      /\ \A k \in 1..Len(t) : u[k + Len(q)] = t[k]
  OBVIOUS
<1> HIDE DEF u
<1>3. s \in Seq(Y) /\ Len(s) = n + 1 /\ s[1] = a /\ \A k \in 1..n : s[k + 1] = u[k]
  <2>1. \A x : x \in Seq(Y) => /\ <<a>> \o x \in Seq(Y) /\ Len(<<a>> \o x) = Len(x) + 1
                              /\ (<<a>> \o x)[1] = a
                              /\ \A k \in 1..Len(x) : (<<a>> \o x)[k + 1] = x[k]
    OBVIOUS
  <2> HIDE DEF n
  <2> QED BY <1>2, <2>1
<1> HIDE DEF r, s, n
<1>4. ASSUME NEW i \in 1..n + 1 PROVE r[i] = s[i]
  <2>1. \/ i = 1
        \/ i - 1 \in 1..Len(q) /\ i = (i - 1) + 1
        \/ i - 1 - Len(q) \in 1..Len(t) /\ i = (i - 1 - Len(q)) + (Len(q) + 1)
    BY <1>1 DEF n
  <2>2. r[1] = a
    BY <1>1
  <2>3. ASSUME NEW k \in 1..Len(q) PROVE r[k + 1] = s[k + 1]
    <3>1. k + 1 \in 1..Len(q) + 1 /\ k \in 1..n
      BY <1>1 DEF n
    <3> QED BY <1>1, <1>2, <1>3, <3>1
  <2>4. ASSUME NEW k \in 1..Len(t) PROVE r[k + (Len(q) + 1)] = s[k + (Len(q) + 1)]
    <3>1. k + (Len(q) + 1) = (k + Len(q)) + 1 /\ k + Len(q) \in 1..n
      BY <1>1 DEF n
    <3> QED BY <1>1, <1>2, <1>3, <3>1
  <2> QED BY <1>3, <2>1, <2>2, <2>3, <2>4
<1>5. r = s
  <2>1. n + 1 = Len(r) /\ Len(r) = Len(s)
    BY <1>1, <1>3
  <2> QED BY <1>1, <1>3, <1>4, <2>1, SeqEqual
<1> QED BY <1>5 DEF r, s, u

LEMMA Tuple2 ==
  ASSUME NEW Y, NEW a \in Y, NEW b \in Y
  PROVE  <<a>> \o <<b>> = <<a, b>>
<1> DEFINE r == <<a>> \o <<b>>
           s == <<a, b>>
<1>1. r \in Seq(Y) /\ Len(r) = 2 /\ r[1] = a /\ r[2] = b
  OBVIOUS
<1>2. s \in Seq(Y) /\ Len(s) = 2 /\ s[1] = a /\ s[2] = b
  OBVIOUS
<1> HIDE DEF r, s
<1>3. \A i \in 1..2 : r[i] = s[i]
  BY <1>1, <1>2
<1>4. r = s
  BY <1>1, <1>2, <1>3, SeqEqual
<1> QED BY <1>4 DEF r, s

LEMMA Tuple3 ==
  ASSUME NEW Y, NEW a \in Y, NEW b \in Y, NEW c \in Y
  PROVE  <<a, b>> \o <<c>> = <<a, b, c>>
<1> DEFINE r == <<a, b>> \o <<c>>
           s == <<a, b, c>>
<1>1. r \in Seq(Y) /\ Len(r) = 3 /\ r[1] = a /\ r[2] = b /\ r[3] = c
  OBVIOUS
<1>2. s \in Seq(Y) /\ Len(s) = 3 /\ s[1] = a /\ s[2] = b /\ s[3] = c
  OBVIOUS
<1> HIDE DEF r, s
<1>3. \A i \in 1..3 : r[i] = s[i]
  BY <1>1, <1>2
<1>4. r = s
  BY <1>1, <1>2, <1>3, SeqEqual
<1> QED BY <1>4 DEF r, s

LEMMA Tuple4 ==
  ASSUME NEW Y, NEW a \in Y, NEW b \in Y, NEW c \in Y, NEW d \in Y
  PROVE  <<a, b, c>> \o <<d>> = <<a, b, c, d>>
<1> DEFINE r == <<a, b, c>> \o <<d>>
           s == <<a, b, c, d>>
<1>1. r \in Seq(Y) /\ Len(r) = 4 /\ r[1] = a /\ r[2] = b /\ r[3] = c /\ r[4] = d
  OBVIOUS
<1>2. s \in Seq(Y) /\ Len(s) = 4 /\ s[1] = a /\ s[2] = b /\ s[3] = c /\ s[4] = d
  OBVIOUS
<1> HIDE DEF r, s
<1>3. \A i \in 1..4 : r[i] = s[i]
  BY <1>1, <1>2
<1>4. r = s
  BY <1>1, <1>2, <1>3, SeqEqual
<1> QED BY <1>4 DEF r, s

LEMMA Tuple5 ==
  ASSUME NEW Y, NEW a \in Y, NEW b \in Y, NEW c \in Y, NEW d \in Y, NEW e \in Y
  PROVE  <<a, b, c, d>> \o <<e>> = <<a, b, c, d, e>>
<1> DEFINE r == <<a, b, c, d>> \o <<e>>
           s == <<a, b, c, d, e>>
<1>1. r \in Seq(Y) /\ Len(r) = 5 /\ r[1] = a /\ r[2] = b /\ r[3] = c /\ r[4] = d /\ r[5] = e
  OBVIOUS
<1>2. s \in Seq(Y) /\ Len(s) = 5 /\ s[1] = a /\ s[2] = b /\ s[3] = c /\ s[4] = d /\ s[5] = e
  OBVIOUS
<1> HIDE DEF r, s
<1>3. \A i \in 1..5 : r[i] = s[i]
  BY <1>1, <1>2
<1>4. r = s
  BY <1>1, <1>2, <1>3, SeqEqual
<1> QED BY <1>4 DEF r, s

(* Items in front of others, one at a time.                                *)
LEMMA Peel1 ==
  ASSUME NEW Y, NEW t, t \in Seq(Y), NEW a \in Y
  PROVE  <<a>> \o t = Cons(a, t)
BY DEF Cons

LEMMA Peel2 ==
  ASSUME NEW Y, NEW t, t \in Seq(Y), NEW a \in Y, NEW b \in Y
  PROVE  <<a, b>> \o t = Cons(a, Cons(b, t))
<1> DEFINE p == <<a, b>>
           q == <<b>>
<1>1. /\ p \in Seq(Y) /\ q \in Seq(Y) /\ Len(p) = Len(q) + 1 /\ p[1] = a
      /\ \A k \in 1..Len(q) : p[k + 1] = q[k]
  OBVIOUS
<1>2. q \o t = Cons(b, t)
  BY Peel1
<1> HIDE DEF p, q
<1>3. p \o t = Cons(a, q \o t)
  <2>1. p \o t = <<a>> \o (q \o t)
    BY <1>1, Peel
  <2> QED BY <2>1 DEF Cons
<1> QED BY <1>2, <1>3 DEF p

LEMMA Peel3 ==
  ASSUME NEW Y, NEW t, t \in Seq(Y), NEW a \in Y, NEW b \in Y, NEW c \in Y
  PROVE  <<a, b, c>> \o t = Cons(a, Cons(b, Cons(c, t)))
<1> DEFINE p == <<a, b, c>>
           q == <<b, c>>
<1>1. /\ p \in Seq(Y) /\ q \in Seq(Y) /\ Len(p) = Len(q) + 1 /\ p[1] = a
      /\ \A k \in 1..Len(q) : p[k + 1] = q[k]
  OBVIOUS
<1>2. q \o t = Cons(b, Cons(c, t))
  BY Peel2
<1> HIDE DEF p, q
<1>3. p \o t = Cons(a, q \o t)
  <2>1. p \o t = <<a>> \o (q \o t)
    BY <1>1, Peel
  <2> QED BY <2>1 DEF Cons
<1> QED BY <1>2, <1>3 DEF p

LEMMA Peel4 ==
  ASSUME NEW t, IsSeq(t), NEW a, NEW b, NEW c, NEW d
  PROVE  <<a, b, c, d>> \o t = Cons(a, Cons(b, Cons(c, Cons(d, t))))
<1>1. PICK X : t \in Seq(X)
  BY DEF IsSeq
<1> DEFINE Y == X \cup {a, b, c, d}
<1>2. t \in Seq(Y)
  BY <1>1, SeqMonotonic
<1>3. a \in Y /\ b \in Y /\ c \in Y /\ d \in Y
  OBVIOUS
<1> HIDE DEF Y
<1> DEFINE p == <<a, b, c, d>>
           q == <<b, c, d>>
<1>4. /\ p \in Seq(Y) /\ q \in Seq(Y) /\ Len(p) = Len(q) + 1 /\ p[1] = a
      /\ \A k \in 1..Len(q) : p[k + 1] = q[k]
  BY <1>3
<1>5. q \o t = Cons(b, Cons(c, Cons(d, t)))
  BY <1>2, <1>3, Peel3
<1> HIDE DEF p, q
<1>6. p \o t = <<a>> \o (q \o t)
  BY <1>2, <1>3, <1>4, Peel
<1>7. p \o t = Cons(a, q \o t)
  BY <1>6 DEF Cons
<1> QED BY <1>5, <1>7 DEF p

LEMMA Peel5 ==
  ASSUME NEW t, IsSeq(t), NEW a, NEW b, NEW c, NEW d, NEW e
  PROVE  <<a, b, c, d, e>> \o t = Cons(a, Cons(b, Cons(c, Cons(d, Cons(e, t)))))
<1>1. PICK X : t \in Seq(X)
  BY DEF IsSeq
<1> DEFINE Y == X \cup {a, b, c, d, e}
<1>2. t \in Seq(Y)
  BY <1>1, SeqMonotonic
<1>3. a \in Y /\ b \in Y /\ c \in Y /\ d \in Y /\ e \in Y
  OBVIOUS
<1> HIDE DEF Y
<1> DEFINE p == <<a, b, c, d, e>>
           q == <<b, c, d, e>>
<1>4. /\ p \in Seq(Y) /\ q \in Seq(Y) /\ Len(p) = Len(q) + 1 /\ p[1] = a
      /\ \A k \in 1..Len(q) : p[k + 1] = q[k]
  BY <1>3
<1>5. q \o t = Cons(b, Cons(c, Cons(d, Cons(e, t))))
  BY Peel4
<1> HIDE DEF p, q
<1>6. p \o t = <<a>> \o (q \o t)
  BY <1>2, <1>3, <1>4, Peel
<1>7. p \o t = Cons(a, q \o t)
  BY <1>6 DEF Cons
<1> QED BY <1>5, <1>7 DEF p

LEMMA Items0 ==
  ASSUME NEW t, IsSeq(t)
  PROVE  << >> \o t = t
<1>1. PICK X : t \in Seq(X)
  BY DEF IsSeq
<1> QED BY <1>1, ConcatEmptySeq

LEMMA Items1 ==
  ASSUME NEW t, NEW a
  PROVE  <<a>> \o t = Cons(a, t)
BY DEF Cons

LEMMA Items01 ==
  ASSUME NEW t, NEW a
  PROVE  (<< >> \o <<a>>) \o t = Cons(a, t)
<1> DEFINE s == <<a>>
<1>1. s \in Seq({a})
  OBVIOUS
<1> HIDE DEF s
<1>2. << >> \o s = s
  BY <1>1, ConcatEmptySeq
<1>3. s \o t = Cons(a, t)
  BY DEF Cons, s
<1>4. (<< >> \o s) \o t = Cons(a, t)
  BY <1>2, <1>3
<1> QED BY <1>4 DEF s

LEMMA Items2 ==
  ASSUME NEW t, IsSeq(t), NEW a, NEW b
  PROVE  <<a, b>> \o t = Cons(a, Cons(b, t))
<1>1. PICK X : t \in Seq(X)
  BY DEF IsSeq
<1> DEFINE Y == X \cup {a, b}
<1>2. t \in Seq(Y)
  BY <1>1, SeqMonotonic
<1>3. a \in Y /\ b \in Y
  OBVIOUS
<1> HIDE DEF Y
<1>4. <<a, b>> \o t = Cons(a, Cons(b, t))
  BY <1>2, <1>3, Peel2
<1> QED BY <1>4

LEMMA Items3 ==
  ASSUME NEW t, IsSeq(t), NEW a, NEW b, NEW c
  PROVE  <<a, b, c>> \o t = Cons(a, Cons(b, Cons(c, t)))
<1>1. PICK X : t \in Seq(X)
  BY DEF IsSeq
<1> DEFINE Y == X \cup {a, b, c}
<1>2. t \in Seq(Y)
  BY <1>1, SeqMonotonic
<1>3. a \in Y /\ b \in Y /\ c \in Y
  OBVIOUS
<1> HIDE DEF Y
<1>4. <<a, b, c>> \o t = Cons(a, Cons(b, Cons(c, t)))
  BY <1>2, <1>3, Peel3
<1> QED BY <1>4

LEMMA Items11 ==
  ASSUME NEW t, IsSeq(t), NEW a, NEW b
  PROVE  (<<a>> \o <<b>>) \o t = Cons(a, Cons(b, t))
<1>1. PICK X : t \in Seq(X)
  BY DEF IsSeq
<1> DEFINE Y == X \cup {a, b}
<1>2. t \in Seq(Y)
  BY <1>1, SeqMonotonic
<1>3. a \in Y /\ b \in Y
  OBVIOUS
<1> HIDE DEF Y
<1>4. <<a, b>> \o t = Cons(a, Cons(b, t))
  BY <1>2, <1>3, Peel2
<1>5. <<a>> \o <<b>> = <<a, b>>
  BY <1>3, Tuple2
<1> QED BY <1>4, <1>5

LEMMA Items21 ==
  ASSUME NEW t, IsSeq(t), NEW a, NEW b, NEW c
  PROVE  (<<a, b>> \o <<c>>) \o t = Cons(a, Cons(b, Cons(c, t)))
<1>1. PICK X : t \in Seq(X)
  BY DEF IsSeq
<1> DEFINE Y == X \cup {a, b, c}
<1>2. t \in Seq(Y)
  BY <1>1, SeqMonotonic
<1>3. a \in Y /\ b \in Y /\ c \in Y
  OBVIOUS
<1> HIDE DEF Y
<1>4. <<a, b, c>> \o t = Cons(a, Cons(b, Cons(c, t)))
  BY <1>2, <1>3, Peel3
<1>5. <<a, b>> \o <<c>> = <<a, b, c>>
  BY <1>3, Tuple3
<1> QED BY <1>4, <1>5

LEMMA Items31 ==
  ASSUME NEW t, IsSeq(t), NEW a, NEW b, NEW c, NEW d
  PROVE  (<<a, b, c>> \o <<d>>) \o t = Cons(a, Cons(b, Cons(c, Cons(d, t))))
<1> DEFINE Y == {a, b, c, d}
<1>3. a \in Y /\ b \in Y /\ c \in Y /\ d \in Y
  OBVIOUS
<1> HIDE DEF Y
<1>4. <<a, b, c, d>> \o t = Cons(a, Cons(b, Cons(c, Cons(d, t))))
  BY Peel4
<1>5. <<a, b, c>> \o <<d>> = <<a, b, c, d>>
  BY <1>3, Tuple4
<1> QED BY <1>4, <1>5

LEMMA Items2111 ==
  ASSUME NEW t, IsSeq(t), NEW a, NEW b, NEW c, NEW d, NEW e
  PROVE  (((<<a, b>> \o <<c>>) \o <<d>>) \o <<e>>) \o t = Cons(a, Cons(b, Cons(c, Cons(d, Cons(e, t)))))
<1> DEFINE Y == {a, b, c, d, e}
<1>3. a \in Y /\ b \in Y /\ c \in Y /\ d \in Y /\ e \in Y
  OBVIOUS
<1> HIDE DEF Y
<1>4. <<a, b, c, d, e>> \o t = Cons(a, Cons(b, Cons(c, Cons(d, Cons(e, t)))))
  BY Peel5
<1>5. <<a, b>> \o <<c>> = <<a, b, c>>
  BY <1>3, Tuple3
<1>6. <<a, b, c>> \o <<d>> = <<a, b, c, d>>
  BY <1>3, Tuple4
<1>7. <<a, b, c, d>> \o <<e>> = <<a, b, c, d, e>>
  BY <1>3, Tuple5
<1> QED BY <1>4, <1>5, <1>6, <1>7

(* The locals above the b-th are the ones that are left.                   *)
LEMMA LeavingLocals ==
  ASSUME locals \in Seq(Slots), NEW b \in Nat, b <= Len(locals), NEW target \in Int,
         b > 0 => locals[b].depth <= target,
         \A i \in b + 1..Len(locals) : locals[i].depth > target
  PROVE  /\ Cardinality(Leaving(target)) = Len(locals) - b
         /\ PopsToDepth(target) \in Seq(PopOps) /\ Len(PopsToDepth(target)) = Len(locals) - b
         /\ Keep(target) \in Seq(Slots) /\ Len(Keep(target)) = b
         /\ \A i \in 1..b : Keep(target)[i] = locals[i]
<1> DEFINE n == Len(locals)
<1>1. n \in Nat /\ DOMAIN locals = 1..n /\ \A i \in 1..n : locals[i].depth \in Int
  <2>1. \A i \in 1..n : locals[i] \in Slots
    OBVIOUS
  <2> QED BY <2>1 DEF Slots
<1>2. ASSUME NEW i PROVE i \in Leaving(target) <=> i \in b + 1..n
  <2>1. i \in b + 1..n => i \in 1..n /\ \A j \in i..n : j \in b + 1..n
    BY <1>1
  <2>2. i \in 1..n /\ i <= b => b \in i..n /\ b > 0
    BY <1>1
  <2>3. b > 0 => ~ (locals[b].depth > target)
    <3>1. b > 0 => b \in 1..n
      BY <1>1
    <3> QED BY <1>1, <3>1
  <2>4. i \in 1..n => i <= b \/ i \in b + 1..n
    BY <1>1
  <2>5. i \in Leaving(target) <=> i \in 1..n /\ \A j \in i..n : locals[j].depth > target
    BY <1>1 DEF Leaving
  <2> QED BY <2>1, <2>2, <2>3, <2>4, <2>5
<1>3. Leaving(target) = b + 1..n
  BY <1>2
<1>4. Cardinality(b + 1..n) = n - b
  <2>1. b + 1 \in Int /\ n \in Int
    BY <1>1
  <2> HIDE DEF n
  <2>2. Cardinality(b + 1..n) = IF b + 1 > n THEN 0 ELSE n - (b + 1) + 1
    BY <2>1, FS_Interval
  <2> QED BY <1>1, <2>2 DEF n
<1> DEFINE c == Cardinality(Leaving(target))
<1>5. c = n - b /\ c \in Nat /\ n - c = b
  BY <1>1, <1>3, <1>4
<1>6. PopsToDepth(target) \in [1..c -> PopOps]
  BY DEF PopsToDepth, PopOps
<1>7. PopsToDepth(target) \in Seq(PopOps) /\ Len(PopsToDepth(target)) = c
  BY <1>5, <1>6
<1> HIDE DEF c
<1>8. Keep(target) = SubSeq(locals, 1, b)
  BY <1>5 DEF Keep, c
<1>9. SubSeq(locals, 1, b) \in Seq(Slots) /\ Len(SubSeq(locals, 1, b)) = b
      /\ \A i \in 1..b : SubSeq(locals, 1, b)[i] = locals[i]
  BY <1>1
<1> QED BY <1>5, <1>7, <1>8, <1>9 DEF c

(* The slots at a place that knows the locals, and back.                   *)
LEMMA LowFits ==
  ASSUME NEW locs, locs \in Seq(Slots), NEW d \in Nat, \A i \in 1..Len(locs) : locs[i].depth <= d,
         NEW e \in Int, NEW n \in Nat, n <= Len(locs), HasSlots(locs, e, n, d)
  PROVE  Low(locs, e + Len(locs))
<1> DEFINE m == Len(locs)
<1>1. m \in Nat /\ n <= m /\ \A i \in 1..m : locs[i].depth <= d /\ locs[i].slot \in Int
  <2>1. \A i \in 1..m : locs[i] \in Slots
    OBVIOUS
  <2> QED BY <2>1 DEF Slots
<1> HIDE DEF m
<1>2. ASSUME NEW i \in 1..m, locs[i].depth # UNINITIALIZED
      PROVE  locs[i].slot < e + m
  <2>1. InScope(locs, i, d)
    BY <1>1, <1>2 DEF InScope
  <2>2. \/ locs[i].slot < e + n
        \/ \E j \in 1..m : locs[i].slot < e + j
    BY <1>2, <2>1 DEF HasSlots, m
  <2> QED BY <1>1, <2>2
<1> QED BY <1>2 DEF Low, m

LEMMA PlaceNumbers == ASSUME NEW P \in Places PROVE P.e \in Int /\ P.n \in Nat /\ P.d \in Nat
BY DEF Places

LEMMA LowMore ==
  ASSUME NEW locs, locs \in Seq(Slots), NEW h \in Int, Low(locs, h), NEW h2 \in Int, h <= h2
  PROVE  Low(locs, h2)
<1>1. \A i \in 1..Len(locs) : locs[i].slot \in Int
  <2>1. \A i \in 1..Len(locs) : locs[i] \in Slots
    OBVIOUS
  <2> QED BY <2>1 DEF Slots
<1> QED BY <1>1 DEF Low

LEMMA LowHas ==
  ASSUME NEW locs, NEW e, NEW n, NEW d, Low(locs, e + n) PROVE HasSlots(locs, e, n, d)
BY DEF Low, HasSlots, InScope

LEMMA PlanFits ==
  ASSUME NEW o, NEW ls, NEW locs, NEW t, NEW P, NEW U, NEW E, NEW W,
         PlanFrom(o, ls, locs, t, P, U, E, W)
  PROVE  P \in Places /\ Fits(locs, P)
<1>1. PICK S : Plan(o, ls, locs, t, S) /\ S[1] = P
  BY DEF PlanFrom
<1>2. S \in Seq(Places) /\ 1 \in 1..Len(S)
  BY <1>1, SeqCons DEF Plan
<1> QED BY <1>1, <1>2 DEF Plan

(* The place of an item in front of which nothing is left of the current    *)
(* state but operands.                                                     *)
LEMMA Push ==
  ASSUME NEW o, NEW ls, NEW locs, NEW t, NEW Q, NEW U, NEW E, NEW W,
         PlanFrom(o, ls, locs, t, Q, U, E, W),
         locs \in Seq(Slots), NEW d \in Nat, NEW l \in Nat,
         \A i \in 1..Len(locs) : locs[i].depth <= d,
         NEW h \in Int, h >= 1, Low(locs, h), NEW P, P = Place(h, Len(locs), d, l),
         Q.n <= Len(locs), Q.d <= d, Q.l <= l,
         NEW it, it.do # "define", Link(o, ls, locs, it, P, Q),
         NEW E2, NEW W2, Added(it, P, U, E, W, U, E2, W2)
  PROVE  PlanFrom(o, ls, locs, Cons(it, t), P, U, E2, W2)
<1>1. Len(locs) \in Nat
  OBVIOUS
<1>2. P \in Places /\ P.e + P.n = h /\ P.n = Len(locs) /\ P.d = d /\ P.l = l /\ P.x = 1
  BY <1>1 DEF Place, Places
<1>3. Before(P, Q)
  BY <1>2 DEF Before
<1>4. Fits(locs, P)
  <2>1. Low(locs, P.e + P.n)
    BY <1>2
  <2>2. HasSlots(locs, P.e, P.n, P.d)
    BY <2>1, LowHas
  <2> QED BY <1>1, <1>2, <2>2 DEF Fits
<1> QED BY <1>2, <1>3, <1>4, FromCons DEF Cons

(* The same from items that are consed, and in a scope still open to        *)
(* declarations.                                                           *)
LEMMA PushOpen ==
  ASSUME NEW o, NEW ls, NEW locs, NEW t, NEW Q, NEW U, NEW E, NEW W,
         PlanFrom(o, ls, locs, t, Q, U, E, W),
         NEW P \in Places, P.x = 0, P.e + P.n >= 1, HasSlots(locs, P.e, P.n, P.d),
         Q.n <= P.n, Q.d <= P.d, Q.l <= P.l, Q.x = 1 => Q.d < P.d, Q.d = P.d => Q.e >= P.e,
         NEW it, it.do # "define", Link(o, ls, locs, it, P, Q),
         NEW E2, NEW W2, Added(it, P, U, E, W, U, E2, W2)
  PROVE  PlanFrom(o, ls, locs, Cons(it, t), P, U, E2, W2)
<1>1. Before(P, Q)
  BY DEF Before
<1>2. Fits(locs, P)
  BY DEF Fits
<1> QED BY <1>1, <1>2, FromCons DEF Cons

(* What is known of the compiler at any time.                              *)
Known(o, ls, locs, d) ==
  /\ CodeOK(o) /\ d \in Nat /\ locs \in Seq(Slots) /\ ls \in Seq(Loops)
  /\ o.height \in Nat /\ o.height >= 1 /\ Len(locs) \in Nat /\ Len(ls) \in Nat
  /\ \A i \in 1..Len(locs) : locs[i].depth <= d /\ locs[i].depth \in Int
  /\ Low(locs, o.height)

(* The first item, and the plan of what comes behind it.                   *)
Behind(o, ls, locs, d, it, t, Q) ==
  LET P == Place(o.height, Len(locs), d, Len(ls))
      U == StillUndefined(it, P, Undefined(locs))
      E == StillOpen(it, P, 1..Len(ls))
  IN  /\ IsSeq(t) /\ Q \in Places
      /\ PlanFrom(o, ls, locs, t, Q, U, E, (Unresolved(o) \ Broken(ls)) \ Awaits(it))
      /\ Link(o, ls, locs, it, P, Q) /\ Before(P, Q) /\ Fits(locs, Q)
      /\ \A i \in U : i <= Q.n
      /\ \A m \in E : m <= Q.l

LEMMA PlaceFields ==
  ASSUME NEW h \in Nat, NEW n \in Nat, NEW d \in Nat, NEW l \in Nat
  PROVE  LET P == Place(h, n, d, l)
         IN  /\ P \in Places /\ P.e = h - n /\ P.n = n /\ P.d = d /\ P.l = l /\ P.x = 1
             /\ H(P) = h
BY DEF Place, Places, H

LEMMA Begin ==
  ASSUME NEW o, NEW ls, NEW locs, NEW d, NEW t, Working(o, ls, locs, d, t)
  PROVE  /\ Known(o, ls, locs, d)
         /\ t # << >> => /\ Head(t) = t[1]
                         /\ \E Q \in Places : Behind(o, ls, locs, d, t[1], Tail(t), Q)
<1> DEFINE P == Place(o.height, Len(locs), d, Len(ls))
           U == Undefined(locs)
           E == 1..Len(ls)
           W == Unresolved(o) \ Broken(ls)
<1>1. CodeOK(o) /\ d \in Nat /\ locs \in Seq(Slots) /\ ls \in Seq(Loops)
      /\ PlanFrom(o, ls, locs, t, P, U, E, W)
  BY DEF Working, AllFrom
<1>2. o.height \in Nat /\ Len(locs) \in Nat /\ Len(ls) \in Nat
  BY <1>1, OutFacts
<1>3. P \in Places /\ P.e = o.height - Len(locs) /\ P.n = Len(locs) /\ P.d = d /\ P.l = Len(ls)
      /\ P.x = 1
  BY <1>1, <1>2, PlaceFields DEF Place
<1> HIDE DEF P, U, E, W
<1>4. PICK S : Plan(o, ls, locs, t, S) /\ S[1] = P
  BY <1>1 DEF PlanFrom
<1>5. Fits(locs, P)
  <2>1. IsSeq(t) /\ S \in Seq(Places) /\ Len(S) = Len(t) + 1
    BY <1>4 DEF Plan
  <2>2. Len(t) \in Nat
    BY <2>1 DEF IsSeq
  <2>3. 1 \in 1..Len(S)
    BY <2>1, <2>2
  <2> QED BY <1>4, <2>3 DEF Plan
<1>6. \A i \in 1..Len(locs) : locs[i].depth \in Int
  <2>1. \A i \in 1..Len(locs) : locs[i] \in Slots
    BY <1>1
  <2> QED BY <2>1 DEF Slots
<1>7. Known(o, ls, locs, d)
  <2>1. o.height >= 1 /\ \A i \in 1..Len(locs) : locs[i].depth <= d
    BY <1>2, <1>3, <1>5 DEF Fits
  <2>2. Low(locs, o.height)
    <3>1. HasSlots(locs, P.e, P.n, d)
      <4>1. HasSlots(locs, P.e, P.n, P.d)
        BY <1>5 DEF Fits
      <4> QED BY <1>3, <4>1
    <3>2. P.e \in Int /\ P.n \in Nat /\ P.n <= Len(locs) /\ P.e + Len(locs) = o.height
      BY <1>2, <1>3
    <3>3. Low(locs, P.e + Len(locs))
      BY <1>1, <2>1, <3>1, <3>2, LowFits
    <3> QED BY <3>2, <3>3
  <2> QED BY <1>1, <1>2, <1>6, <2>1, <2>2 DEF Known
<1>8. ASSUME t # << >>
      PROVE  Head(t) = t[1] /\ \E Q \in Places : Behind(o, ls, locs, d, t[1], Tail(t), Q)
  <2>1. IsSeq(t)
    BY <1>4 DEF Plan
  <2>2. Head(t) = t[1] /\ IsSeq(Tail(t))
    BY <1>8, <2>1, SeqTail
  <2>3. PICK Q \in Places :
          /\ PlanFrom(o, ls, locs, Tail(t), Q, StillUndefined(t[1], P, U),
                      StillOpen(t[1], P, E), W \ Awaits(t[1]))
          /\ Link(o, ls, locs, t[1], P, Q) /\ Before(P, Q) /\ Fits(locs, Q)
          /\ \A i \in StillUndefined(t[1], P, U) : i <= Q.n
          /\ \A m \in StillOpen(t[1], P, E) : m <= Q.l
    BY <1>1, <1>8, FromTail
  <2> QED BY <2>2, <2>3 DEF Behind, P, U, E, W
<1> QED BY <1>7, <1>8

(* Nothing is put in front of the rest.                                    *)
LEMMA Done ==
  ASSUME NEW o, NEW ls, NEW locs, NEW d, Known(o, ls, locs, d), NEW t, NEW Q \in Places,
         NEW W, PlanFrom(o, ls, locs, t, Q, Undefined(locs), 1..Len(ls), W),
         Unresolved(o) \ Broken(ls) \subseteq W,
         Q.e = o.height - Len(locs), Q.d = d, Q.l = Len(ls), Q.n <= Len(locs),
         Q.x = 1 => Q.n = Len(locs)
  PROVE  Working(o, ls, locs, d, t)
<1> DEFINE P == Place(o.height, Len(locs), d, Len(ls))
<1>1. CodeOK(o) /\ d \in Nat /\ locs \in Seq(Slots) /\ ls \in Seq(Loops)
      /\ o.height \in Nat /\ o.height >= 1 /\ Len(locs) \in Nat /\ Len(ls) \in Nat
      /\ \A i \in 1..Len(locs) : locs[i].depth <= d
  BY DEF Known
<1>2. P \in Places /\ P.e = o.height - Len(locs) /\ P.n = Len(locs) /\ P.d = d /\ P.l = Len(ls)
      /\ P.x = 1
  BY <1>1, PlaceFields DEF Place
<1> HIDE DEF P
<1>3. Refines(P, Q)
  BY <1>2 DEF Refines
<1>4. Fits(locs, P)
  <2>1. P.e + P.n = o.height
    BY <1>1, <1>2
  <2>2. Low(locs, P.e + P.n)
    BY <2>1 DEF Known
  <2>3. HasSlots(locs, P.e, P.n, P.d)
    BY <2>2, LowHas
  <2> QED BY <1>1, <1>2, <2>3 DEF Fits
<1>5. PlanFrom(o, ls, locs, t, P, Undefined(locs), 1..Len(ls), W)
  BY <1>2, <1>3, <1>4, FromExact
<1>6. PlanFrom(o, ls, locs, t, P, Undefined(locs), 1..Len(ls), Unresolved(o) \ Broken(ls))
  BY <1>5, FromLess
<1> QED BY <1>1, <1>6 DEF Working, AllFrom, P

(* The first of the items that are put in front of the rest stands at the   *)
(* current place.                                                          *)
LEMMA Placed ==
  ASSUME NEW o, NEW ls, NEW locs, NEW d, Known(o, ls, locs, d), NEW t,
         NEW P, P = Place(o.height, Len(locs), d, Len(ls)),
         NEW W, PlanFrom(o, ls, locs, t, P, Undefined(locs), 1..Len(ls), W),
         Unresolved(o) \ Broken(ls) \subseteq W
  PROVE  Working(o, ls, locs, d, t)
<1>1. CodeOK(o) /\ d \in Nat /\ locs \in Seq(Slots) /\ ls \in Seq(Loops)
  BY DEF Known
<1>2. PlanFrom(o, ls, locs, t, P, Undefined(locs), 1..Len(ls), Unresolved(o) \ Broken(ls))
  BY FromLess
<1> QED BY <1>1, <1>2 DEF Working, AllFrom

(* What each item asks of the places around it.                            *)
LEMMA Links ==
  ASSUME NEW o, NEW ls, NEW locs, NEW P, NEW Q
  PROVE  /\ Keeps(P, Q, 1) => Link(o, ls, locs, Expr, P, Q) /\ Link(o, ls, locs, Op("constant"), P, Q)
         /\ Keeps(P, Q, 0) => /\ Link(o, ls, locs, Stmt, P, Q)
                             /\ Link(o, ls, locs, [do |-> "jump"], P, Q)
                             /\ Link(o, ls, locs, [do |-> "block value"], P, Q)
         /\ Keeps(P, Q, 0) /\ Q.x = 0 => /\ Link(o, ls, locs, [do |-> "stmts"], P, Q)
                                         /\ Link(o, ls, locs, [do |-> "declaration"], P, Q)
         /\ Keeps(P, Q, -1) => /\ Link(o, ls, locs, Op("pop"), P, Q)
                              /\ Link(o, ls, locs, Op("add"), P, Q)
         /\ Closes(P, Q, 0) => Link(o, ls, locs, [do |-> "end scope"], P, Q)
         /\ Closes(P, Q, 0) /\ HasSlots(locs, Q.e - 1, Q.n, Q.d) =>
              Link(o, ls, locs, [do |-> "close block"], P, Q)
         /\ \A scope : EndsFor(scope, P, Q, 0) =>
              Link(o, ls, locs, [do |-> "for", scope |-> scope], P, Q)
         /\ Keeps(P, Q, 0) /\ P.x = 1 /\ H(P) >= 2 /\ Under(locs, P) =>
              Link(o, ls, locs, [do |-> "and"], P, Q)
<1>1. Keeps(P, Q, 1) => Link(o, ls, locs, Expr, P, Q)
  BY DEF Link, LinkExpr, LinkIf, LinkLoop, Tests, Doings, Expr
<1>2. Keeps(P, Q, 1) => Link(o, ls, locs, Op("constant"), P, Q)
  BY DEF Link, LinkExpr, LinkIf, LinkLoop, Tests, Doings, Op
<1>3. Keeps(P, Q, 0) => Link(o, ls, locs, Stmt, P, Q)
  BY DEF Link, LinkExpr, LinkIf, LinkLoop, Tests, Doings, Stmt
<1>4. Keeps(P, Q, 0) => Link(o, ls, locs, [do |-> "jump"], P, Q)
  BY DEF Link, LinkExpr, LinkIf, LinkLoop, Tests, Doings
<1>5. Keeps(P, Q, 0) => Link(o, ls, locs, [do |-> "block value"], P, Q)
  BY DEF Link, LinkExpr, LinkIf, LinkLoop, Tests, Doings
<1>6. Keeps(P, Q, 0) /\ Q.x = 0 => Link(o, ls, locs, [do |-> "stmts"], P, Q)
  BY DEF Link, LinkExpr, LinkIf, LinkLoop, Tests, Doings
<1>7. Keeps(P, Q, 0) /\ Q.x = 0 => Link(o, ls, locs, [do |-> "declaration"], P, Q)
  BY DEF Link, LinkExpr, LinkIf, LinkLoop, Tests, Doings
<1>8. Keeps(P, Q, -1) => Link(o, ls, locs, Op("pop"), P, Q)
  BY DEF Link, LinkExpr, LinkIf, LinkLoop, Tests, Doings, Op
<1>9. Keeps(P, Q, -1) => Link(o, ls, locs, Op("add"), P, Q)
  BY DEF Link, LinkExpr, LinkIf, LinkLoop, Tests, Doings, Op
<1>10. Closes(P, Q, 0) => Link(o, ls, locs, [do |-> "end scope"], P, Q)
  BY DEF Link, LinkExpr, LinkIf, LinkLoop, Tests, Doings
<1>11. Closes(P, Q, 0) /\ HasSlots(locs, Q.e - 1, Q.n, Q.d) =>
         Link(o, ls, locs, [do |-> "close block"], P, Q)
  BY DEF Link, LinkExpr, LinkIf, LinkLoop, Tests, Doings
<1>12. ASSUME NEW scope, EndsFor(scope, P, Q, 0)
       PROVE  Link(o, ls, locs, [do |-> "for", scope |-> scope], P, Q)
  BY <1>12 DEF Link, LinkExpr, LinkIf, LinkLoop, Tests, Doings
<1>13. Keeps(P, Q, 0) /\ P.x = 1 /\ H(P) >= 2 /\ Under(locs, P) =>
         Link(o, ls, locs, [do |-> "and"], P, Q)
  BY DEF Link, LinkExpr, LinkIf, LinkLoop, Tests, Doings
<1> QED BY <1>1, <1>2, <1>3, <1>4, <1>5, <1>6, <1>7, <1>8, <1>9, <1>10, <1>11, <1>12, <1>13

LEMMA LinkCheck ==
  ASSUME NEW o, NEW ls, NEW locs, NEW P, NEW Q, NEW h \in Int, NEW n \in Int,
         Keeps(P, Q, 0), P.e = h - n
  PROVE  Link(o, ls, locs, [do |-> "check", height |-> h, locals |-> n], P, Q)
BY DEF Link, LinkExpr, LinkIf, LinkLoop, Tests, Doings

LEMMA LinkReturn ==
  ASSUME NEW o, NEW ls, NEW locs, NEW P, NEW Q, NEW h,
         Keeps(P, Q, -1), P.x = 1, h = H(P) - 1
  PROVE  Link(o, ls, locs, [do |-> "return", height |-> h], P, Q)
BY DEF Link, LinkExpr, LinkIf, LinkLoop, Tests, Doings

LEMMA LinkThen ==
  ASSUME NEW o, NEW ls, NEW locs, NEW P, NEW Q, NEW other \in {<< >>, <<Stmt>>},
         Under(locs, P), P.x = 1, H(P) >= 2, Keeps(P, Q, -1)
  PROVE  Link(o, ls, locs, [do |-> "then", branch |-> <<Stmt>>, other |-> other], P, Q)
BY DEF Link, LinkExpr, LinkIf, LinkLoop, Tests, Doings, Stmt

LEMMA LinkThenExpr ==
  ASSUME NEW o, NEW ls, NEW locs, NEW P, NEW Q, NEW branch, branch \in {<<Expr>>, <<[do |-> "jump"], Op("constant")>>},
         Under(locs, P), P.x = 1, H(P) >= 2, Keeps(P, Q, 0)
  PROVE  Link(o, ls, locs, [do |-> "then", branch |-> branch, other |-> <<Expr>>], P, Q)
BY DEF Link, LinkExpr, LinkIf, LinkLoop, Tests, Doings

LEMMA LinkElse ==
  ASSUME NEW o, NEW ls, NEW locs, NEW P, NEW Q, NEW p, NEW other \in {<< >>, <<Stmt>>},
         P.x = 1, Keeps(P, Q, 0), Patchable(o, p, H(P) + 1)
  PROVE  Link(o, ls, locs, [do |-> "else", p |-> p, other |-> other], P, Q)
<1>1. Stmt.do # Expr.do
  BY DEF Stmt, Expr
<1>2. other # <<Expr>>
  <2>1. Len(<<Expr>>) = 1 /\ <<Expr>>[1] = Expr
    OBVIOUS
  <2>2. CASE other = << >>
    BY <2>1, <2>2
  <2>3. CASE other = <<Stmt>>
    <3>1. other[1] = Stmt
      BY <2>3
    <3> QED BY <1>1, <2>1, <3>1
  <2> QED BY <2>2, <2>3
<1> QED BY <1>2 DEF Link, LinkExpr, LinkIf, LinkLoop, Tests, Doings

LEMMA LinkElseExpr ==
  ASSUME NEW o, NEW ls, NEW locs, NEW P, NEW Q, NEW p,
         P.x = 1, Keeps(P, Q, 0), Patchable(o, p, H(P)), H(P) >= 2, Under(locs, P)
  PROVE  Link(o, ls, locs, [do |-> "else", p |-> p, other |-> <<Expr>>], P, Q)
BY DEF Link, LinkExpr, LinkIf, LinkLoop, Tests, Doings

LEMMA LinkPatch ==
  ASSUME NEW o, NEW ls, NEW locs, NEW P, NEW Q, NEW p,
         P.x = 1, Keeps(P, Q, 0), Patchable(o, p, H(P))
  PROVE  Link(o, ls, locs, [do |-> "patch", p |-> p], P, Q)
BY DEF Link, LinkExpr, LinkIf, LinkLoop, Tests, Doings

LEMMA LinkWhile ==
  ASSUME NEW o, NEW ls, NEW locs, NEW P, NEW Q, NEW start,
         P.x = 1, Q.x = 1, Keeps(P, Q, -1), H(P) >= 2, Landing(o, start, H(P) - 1)
  PROVE  Link(o, ls, locs, [do |-> "while", start |-> start], P, Q)
BY DEF Link, LinkExpr, LinkIf, LinkLoop, Tests, Doings

LEMMA LinkForExit ==
  ASSUME NEW o, NEW ls, NEW locs, NEW P, NEW Q, NEW start, NEW scope,
         Under(locs, P), EndsFor(scope, P, Q, -1), Landing(o, start, H(P) - 1)
  PROVE  Link(o, ls, locs, [do |-> "for exit", start |-> start, scope |-> scope], P, Q)
BY DEF Link, LinkExpr, LinkIf, LinkLoop, Tests, Doings

LEMMA LinkForIncrement ==
  ASSUME NEW o, NEW ls, NEW locs, NEW P, NEW Q, NEW start, NEW p, NEW body, NEW scope,
         Under(locs, P), EndsFor(scope, P, Q, -1), Landing(o, start, H(P) - 1), Patchable(o, p, H(P)),
         Patchable(o, body, H(P) - 1), Landing(o, body + 1, H(P) - 1)
  PROVE  Link(o, ls, locs, [do |-> "for increment", start |-> start, p |-> p, body |-> body,
                            scope |-> scope], P, Q)
BY DEF Link, LinkExpr, LinkIf, LinkLoop, Tests, Doings

LEMMA LinkEndLoop ==
  ASSUME NEW o, NEW ls, NEW locs, NEW P, NEW Q, NEW start, NEW p, NEW scope \in BOOLEAN,
         P.x = 1, Q.x = 1, P.l >= 1, Q.l = P.l - 1, Q.e = P.e,
         Landing(o, start, H(P)), Patchable(o, p, H(P) + 1), LoopOf(o, ls[P.l], P, Q),
         ClosesFor(scope, P, Q), P.n = Q.n + 1 => locs[P.n].depth >= 0
  PROVE  Link(o, ls, locs, [do |-> "end loop", start |-> start, p |-> p, scope |-> scope], P, Q)
BY DEF Link, LinkExpr, LinkIf, LinkLoop, Tests, Doings

(* The current place, but for k operands.                                  *)
Now(o, ls, locs, d, k) == Place(o.height + k, Len(locs), d, Len(ls))

LEMMA NowFields ==
  ASSUME NEW o, NEW ls, NEW locs, NEW d, Known(o, ls, locs, d), NEW k \in Int, o.height + k \in Nat
  PROVE  LET P == Now(o, ls, locs, d, k)
         IN  /\ P \in Places /\ P.e = (o.height + k) - Len(locs) /\ P.n = Len(locs) /\ P.d = d
             /\ P.l = Len(ls) /\ P.x = 1 /\ H(P) = o.height + k
             /\ o.height + k >= 1 /\ Low(locs, o.height + k) => Fits(locs, P)
<1> DEFINE h == o.height + k
           n == Len(locs)
           P == Place(h, n, d, Len(ls))
<1>1. /\ d \in Nat /\ n \in Nat /\ Len(ls) \in Nat /\ locs \in Seq(Slots)
      /\ \A i \in 1..Len(locs) : locs[i].depth <= d
  BY DEF Known
<1>0. h \in Nat
  OBVIOUS
<1> HIDE DEF h, n
<1>2. /\ P \in Places /\ P.e = h - n /\ P.n = n /\ P.d = d /\ P.l = Len(ls) /\ P.x = 1 /\ H(P) = h
  BY <1>0, <1>1 DEF Place, Places, H
<1> HIDE DEF P
<1>3. h >= 1 /\ Low(locs, h) => Fits(locs, P)
  <2> SUFFICES ASSUME h >= 1, Low(locs, h) PROVE Fits(locs, P)
    OBVIOUS
  <2>1. P.e + P.n >= 1
    BY <1>1, <1>2 DEF h
  <2>2. \A i \in 1..Len(locs) : (i <= P.n => locs[i].depth <= P.d) /\ ~ (i > P.n)
    BY <1>1, <1>2 DEF n
  <2>3. HasSlots(locs, P.e, P.n, P.d)
    <3>1. P.e + P.n = h
      BY <1>0, <1>1, <1>2
    <3>2. Low(locs, P.e + P.n)
      BY <3>1
    <3> QED BY <3>2, LowHas
  <2> QED BY <2>1, <2>2, <2>3 DEF Fits
<1> QED BY <1>2, <1>3 DEF Now, P, h, n

(* A plan whose first place is the current one but for k operands.         *)
LEMMA PlanLow ==
  ASSUME NEW o, NEW ls, NEW locs, NEW d, Known(o, ls, locs, d), NEW k \in Int,
         NEW t, NEW U, NEW E, NEW W, PlanFrom(o, ls, locs, t, Now(o, ls, locs, d, k), U, E, W)
  PROVE  Low(locs, o.height + k)
<1> DEFINE P == Now(o, ls, locs, d, k)
<1>1. P \in Places /\ Fits(locs, P)
  BY PlanFits
<1>2. /\ d \in Nat /\ Len(locs) \in Nat /\ locs \in Seq(Slots) /\ o.height \in Nat
      /\ \A i \in 1..Len(locs) : locs[i].depth <= d
  BY DEF Known
<1>3. P.d = d /\ P.n = Len(locs) /\ P.e = (o.height + k) - Len(locs)
  BY DEF Now, Place
<1> HIDE DEF P
<1>4. Low(locs, P.e + Len(locs))
  <2>1. HasSlots(locs, P.e, P.n, P.d)
    BY <1>1 DEF Fits
  <2>2. HasSlots(locs, P.e, P.n, d)
    BY <1>3, <2>1
  <2>3. P.e \in Int /\ P.n \in Nat /\ P.n <= Len(locs)
    BY <1>2, <1>3
  <2> QED BY <1>2, <2>2, <2>3, LowFits
<1>5. P.e + Len(locs) = o.height + k
  BY <1>2, <1>3
<1> QED BY <1>4, <1>5

(* An item that neither defines a variable nor ends a loop.                *)
Passes(it) == it.do # "define" /\ it.do # "end loop"

(* An item that closes no scope leaves delta more operands.                *)
Leaves(o, ls, locs, it, P, delta) ==
  \A Q \in Places : Link(o, ls, locs, it, P, Q) => Keeps(P, Q, delta)

(* What comes behind an item that closes no scope, at the place where the   *)
(* item will have left the current one.                                    *)
LEMMA After ==
  ASSUME NEW o, NEW ls, NEW locs, NEW d, NEW t, Working(o, ls, locs, d, t), t # << >>,
         Passes(t[1]),
         NEW delta \in Int, Leaves(o, ls, locs, t[1], Now(o, ls, locs, d, 0), delta)
  PROVE  /\ Known(o, ls, locs, d) /\ IsSeq(Tail(t)) /\ Head(t) = t[1]
         /\ o.height + delta \in Nat /\ o.height + delta >= 1
         /\ PlanFrom(o, ls, locs, Tail(t), Now(o, ls, locs, d, delta),
                     Undefined(locs), 1..Len(ls), (Unresolved(o) \ Broken(ls)) \ Awaits(t[1]))
         /\ \E Q \in Places : Link(o, ls, locs, t[1], Now(o, ls, locs, d, 0), Q)
<1> DEFINE W == (Unresolved(o) \ Broken(ls)) \ Awaits(t[1])
           P == Now(o, ls, locs, d, 0)
           R == Now(o, ls, locs, d, delta)
           h == o.height
           n == Len(locs)
<1>1. Known(o, ls, locs, d) /\ Head(t) = t[1]
  BY Begin
<1>2. PICK Q \in Places : Behind(o, ls, locs, d, t[1], Tail(t), Q)
  BY Begin
<1>3. d \in Nat /\ h \in Nat /\ h >= 1 /\ n \in Nat /\ Len(ls) \in Nat
  BY <1>1 DEF Known
<1>4. Place(o.height, Len(locs), d, Len(ls)) = P
  BY <1>3 DEF Now
<1>5. /\ IsSeq(Tail(t))
      /\ PlanFrom(o, ls, locs, Tail(t), Q, Undefined(locs), 1..Len(ls), W)
      /\ Link(o, ls, locs, t[1], P, Q) /\ Fits(locs, Q)
  BY <1>2, <1>4 DEF Behind, StillUndefined, StillOpen, Passes
<1>6. P.e = h - n /\ P.n = n /\ P.d = d /\ P.l = Len(ls) /\ P.x = 1
  <2>1. h + 0 = h
    BY <1>3
  <2> QED BY <1>1, <1>3, <2>1, NowFields
<1>7. Keeps(P, Q, delta)
  BY <1>5 DEF Leaves
<1> HIDE DEF P, R, W, h, n
<1>8. /\ Q.e = P.e + delta /\ Q.d = P.d /\ Q.l = P.l /\ Q.n <= P.n /\ Q.n \in Nat /\ Q.e + Q.n >= 1
      /\ Q.x = 1 => Q.n = P.n
  BY <1>5, <1>7 DEF Keeps, Fits, Places
<1>9. h + delta \in Nat /\ h + delta >= 1
  BY <1>3, <1>6, <1>8
<1>13. Low(locs, h + delta)
  <2>1. HasSlots(locs, Q.e, Q.n, d) /\ Q.n <= Len(locs) /\ Q.d = d
    BY <1>5, <1>6, <1>8 DEF Fits, n
  <2>2. Q.e \in Int /\ Q.n \in Nat
    BY <1>5, PlaceNumbers
  <2>4. locs \in Seq(Slots) /\ d \in Nat /\ \A i \in 1..Len(locs) : locs[i].depth <= d
    BY <1>1 DEF Known
  <2>5. Low(locs, Q.e + Len(locs))
    BY <2>1, <2>2, <2>4, LowFits
  <2>3. Q.e + Len(locs) = h + delta
    BY <1>3, <1>6, <1>8 DEF n
  <2> QED BY <2>3, <2>5
<1>10. /\ R \in Places /\ R.e = (h + delta) - n /\ R.n = n /\ R.d = d /\ R.l = Len(ls) /\ R.x = 1
       /\ Fits(locs, R)
  BY <1>1, <1>9, <1>13, NowFields DEF R, h, n
<1>11. Refines(R, Q)
  BY <1>3, <1>6, <1>8, <1>10 DEF Refines
<1>12. PlanFrom(o, ls, locs, Tail(t), R, Undefined(locs), 1..Len(ls), W)
  BY <1>5, <1>10, <1>11, FromExact
<1> QED BY <1>1, <1>5, <1>9, <1>12 DEF P, R, W, h

(* Another item, k operands before the next one.                           *)
LEMMA PushItem ==
  ASSUME NEW o, NEW ls, NEW locs, NEW d, Known(o, ls, locs, d), NEW t, NEW U, NEW E, NEW W,
         NEW j \in Int, o.height + j \in Nat, o.height + j >= 1, Low(locs, o.height + j), NEW k,
         PlanFrom(o, ls, locs, t, Now(o, ls, locs, d, k), U, E, W),
         NEW it, it.do # "define",
         Link(o, ls, locs, it, Now(o, ls, locs, d, j), Now(o, ls, locs, d, k)),
         NEW W2, \A q \in W2 : q \in W \/ q \in Awaits(it)
  PROVE  PlanFrom(o, ls, locs, Cons(it, t), Now(o, ls, locs, d, j), U, E, W2)
<1> DEFINE P == Now(o, ls, locs, d, j)
           Q == Now(o, ls, locs, d, k)
<1>1. /\ d \in Nat /\ Len(locs) \in Nat /\ Len(ls) \in Nat /\ locs \in Seq(Slots)
      /\ \A i \in 1..Len(locs) : locs[i].depth <= d
  BY DEF Known
<1>2. Q.n = Len(locs) /\ Q.d = d /\ Q.l = Len(ls)
  BY DEF Place, Now
<1>3. P \in Places /\ P.n = Len(locs) /\ P.d = d /\ P.l = Len(ls) /\ P.x = 1 /\ Fits(locs, P)
  BY NowFields
<1> HIDE DEF P, Q
<1>4. Before(P, Q)
  BY <1>1, <1>2, <1>3 DEF Before
<1>5. Added(it, P, U, E, W, U, E, W2)
  BY DEF Added
<1>6. PlanFrom(o, ls, locs, <<it>> \o t, P, U, E, W2)
  BY <1>3, <1>4, <1>5, FromCons DEF P, Q
<1> QED BY <1>6 DEF Cons, P

(* Current places differ in their operands only.                           *)
LEMMA NowKeeps ==
  ASSUME NEW o, NEW ls, NEW locs, NEW d, Known(o, ls, locs, d), NEW j \in Int, NEW k \in Int
  PROVE  Keeps(Now(o, ls, locs, d, j), Now(o, ls, locs, d, k), k - j)
<1>1. o.height \in Nat /\ Len(locs) \in Nat
  BY DEF Known
<1> DEFINE h == o.height
           n == Len(locs)
<1>2. (h + k) - n = ((h + j) - n) + (k - j)
  BY <1>1
<1> HIDE DEF h, n
<1> QED BY <1>1, <1>2 DEF Keeps, Place, Now, h, n

LEMMA KnownGrows ==
  ASSUME NEW o, NEW ls, NEW locs, NEW d, Known(o, ls, locs, d), NEW o2, CodeOK(o2), o2.height >= 1,
         Low(locs, o2.height)
  PROVE  Known(o2, ls, locs, d)
BY OutFacts DEF Known

LEMMA KnownLow ==
  ASSUME NEW o, NEW ls, NEW locs, NEW d, Known(o, ls, locs, d), NEW j \in Int, j >= 0
  PROVE  Low(locs, o.height + j)
<1>1. o.height \in Nat /\ locs \in Seq(Slots) /\ Low(locs, o.height)
  BY DEF Known
<1> QED BY <1>1, LowMore

(* The next item stands at the current place.                              *)
LEMMA Ready ==
  ASSUME NEW o, NEW ls, NEW locs, NEW d, Known(o, ls, locs, d), NEW t, NEW W,
         PlanFrom(o, ls, locs, t, Now(o, ls, locs, d, 0), Undefined(locs), 1..Len(ls), W),
         Unresolved(o) \ Broken(ls) \subseteq W
  PROVE  Working(o, ls, locs, d, t)
<1>1. o.height \in Nat
  BY DEF Known
<1>2. Place(o.height, Len(locs), d, Len(ls)) = Now(o, ls, locs, d, 0)
  BY <1>1 DEF Now
<1> QED BY <1>2, Placed

(* The rest of a plan from the current place, but for k operands.          *)
From(o, t, k, W) ==
  PlanFrom(o, loops, locals, t, Now(o, loops, locals, depth, k), Undefined(locals), 1..Len(loops), W)
Jumps == Unresolved(out) \ Broken(loops)
KnownOf(o) == Known(o, loops, locals, depth)
NowWorking == Working(out, loops, locals, depth, todo)

LEMMA FromLow ==
  ASSUME NEW o, KnownOf(o), NEW t, NEW W, NEW k \in Int, From(o, t, k, W)
  PROVE  Low(locals, o.height + k)
BY PlanLow DEF From, KnownOf

LEMMA PutItem ==
  ASSUME NEW o, KnownOf(o), NEW t, NEW W, NEW j \in Int, NEW k \in Int,
         o.height + j >= 1, j >= 0 \/ j >= k, From(o, t, k, W),
         NEW it, it.do # "define",
         Link(o, loops, locals, it, Now(o, loops, locals, depth, j), Now(o, loops, locals, depth, k)),
         NEW W2, \A q \in W2 : q \in W \/ q \in Awaits(it)
  PROVE  From(o, Cons(it, t), j, W2)
<1>1. o.height \in Nat /\ locals \in Seq(Slots) /\ Low(locals, o.height)
  BY DEF Known, KnownOf
<1>2. o.height + j \in Nat
  BY <1>1
<1>3. Low(locals, o.height + j)
  <2>1. CASE j >= 0
    BY <1>1, <2>1, LowMore
  <2>2. CASE j >= k
    <3>1. Low(locals, o.height + k) /\ o.height + k <= o.height + j
      BY <1>1, <2>2, FromLow
    <3> QED BY <1>1, <3>1, LowMore
  <2> QED BY <2>1, <2>2
<1> QED BY <1>2, <1>3, PushItem DEF From, KnownOf

LEMMA LowAt ==
  ASSUME NEW o, KnownOf(o), NEW j \in Int, j >= 0
  PROVE  Low(locals, o.height + j)
BY KnownLow DEF KnownOf

(* A value on top of the variables.                                        *)
LEMMA UnderNow ==
  ASSUME NEW o, KnownOf(o), NEW j \in Int, j >= 1
  PROVE  Under(locals, Now(o, loops, locals, depth, j))
<1> DEFINE P == Now(o, loops, locals, depth, j)
<1>1. /\ o.height \in Nat /\ Len(locals) \in Nat /\ depth \in Nat /\ locals \in Seq(Slots)
      /\ Low(locals, o.height)
  BY DEF Known, KnownOf
<1>2. P.e = (o.height + j) - Len(locals) /\ P.n = Len(locals) /\ P.d = depth
  BY DEF Now, Place
<1> HIDE DEF P
<1>3. (P.e - 1) + P.n \in Int /\ o.height <= (P.e - 1) + P.n
  BY <1>1, <1>2
<1>4. Low(locals, (P.e - 1) + P.n)
  BY <1>1, <1>3, LowMore
<1>5. HasSlots(locals, P.e - 1, P.n, P.d)
  BY <1>2, <1>4 DEF Low, HasSlots, InScope
<1> QED BY <1>5 DEF Under, P

LEMMA TestLow ==
  ASSUME NowWorking, todo # << >>, Tests(todo[1]) PROVE Low(locals, out.height - 1)
<1> DEFINE P == Place(out.height, Len(locals), depth, Len(loops))
<1>1. PICK Q \in Places : Behind(out, loops, locals, depth, todo[1], Tail(todo), Q)
  BY Begin DEF NowWorking
<1>2. Under(locals, P)
  BY <1>1 DEF Behind, Link, LinkLoop
<1>3. /\ out.height \in Nat /\ Len(locals) \in Nat /\ depth \in Nat /\ locals \in Seq(Slots)
      /\ \A i \in 1..Len(locals) : locals[i].depth <= depth /\ locals[i].depth \in Int
      /\ \A i \in 1..Len(locals) : locals[i].slot \in Int
  <2>1. KnownOf(out)
    BY Begin DEF NowWorking, KnownOf
  <2>2. locals \in Seq(Slots)
    BY <2>1 DEF Known, KnownOf
  <2>3. \A i \in 1..Len(locals) : locals[i].slot \in Int
    <3>1. \A i \in 1..Len(locals) : locals[i] \in Slots
      BY <2>2
    <3> QED BY <3>1 DEF Slots
  <2> QED BY <2>1, <2>2, <2>3 DEF Known, KnownOf
<1>4. P.e = out.height - Len(locals) /\ P.n = Len(locals) /\ P.d = depth
  BY DEF Place
<1> HIDE DEF P
<1>5. ASSUME NEW i \in 1..Len(locals), locals[i].depth # UNINITIALIZED
      PROVE  locals[i].slot < out.height - 1
  <2>1. InScope(locals, i, P.d)
    BY <1>3, <1>4, <1>5 DEF InScope
  <2>2. \/ locals[i].slot < (P.e - 1) + P.n
        \/ \E j \in 1..Len(locals) : locals[i].slot < (P.e - 1) + j
    BY <1>2, <2>1 DEF Under, HasSlots
  <2> QED BY <1>3, <1>4, <2>2
<1> QED BY <1>5 DEF Low

(* The items that are put in front of others as they are.                  *)
LEMMA Puts ==
  ASSUME NEW o, KnownOf(o), NEW t, NEW W, NEW j \in Int, NEW k \in Int,
         o.height + j >= 1, j >= 0 \/ j >= k, From(o, t, k, W)
  PROVE  /\ k = j + 1 => From(o, Cons(Expr, t), j, W) /\ From(o, Cons(Op("constant"), t), j, W)
         /\ k = j => From(o, Cons(Stmt, t), j, W) /\ From(o, Cons([do |-> "jump"], t), j, W)
         /\ k = j - 1 => From(o, Cons(Op("pop"), t), j, W) /\ From(o, Cons(Op("add"), t), j, W)
<1> DEFINE P == Now(o, loops, locals, depth, j)
           Q == Now(o, loops, locals, depth, k)
<1>1. Keeps(P, Q, k - j)
  BY NowKeeps DEF KnownOf
<1> HIDE DEF P, Q
<1>2. /\ Expr.do # "define" /\ Stmt.do # "define" /\ Op("constant").do # "define"
      /\ Op("pop").do # "define" /\ Op("add").do # "define" /\ [do |-> "jump"].do # "define"
  BY DEF Expr, Stmt, Op
<1>3. ASSUME NEW it, it.do # "define", Link(o, loops, locals, it, P, Q)
      PROVE  From(o, Cons(it, t), j, W)
  BY <1>3, PutItem DEF P, Q
<1>4. ASSUME k = j + 1
      PROVE  From(o, Cons(Expr, t), j, W) /\ From(o, Cons(Op("constant"), t), j, W)
  <2>1. Keeps(P, Q, 1)
    <3>1. k - j = 1
      BY <1>4
    <3> QED BY <1>1, <3>1
  <2>2. Link(o, loops, locals, Expr, P, Q) /\ Link(o, loops, locals, Op("constant"), P, Q)
    BY <2>1, Links
  <2> QED BY <1>2, <1>3, <2>2
<1>5. ASSUME k = j
      PROVE  From(o, Cons(Stmt, t), j, W) /\ From(o, Cons([do |-> "jump"], t), j, W)
  <2>1. Keeps(P, Q, 0)
    <3>1. k - j = 0
      BY <1>5
    <3> QED BY <1>1, <3>1
  <2>2. Link(o, loops, locals, Stmt, P, Q) /\ Link(o, loops, locals, [do |-> "jump"], P, Q)
    BY <2>1, Links
  <2> QED BY <1>2, <1>3, <2>2
<1>6. ASSUME k = j - 1
      PROVE  From(o, Cons(Op("pop"), t), j, W) /\ From(o, Cons(Op("add"), t), j, W)
  <2>1. Keeps(P, Q, -1)
    <3>1. k - j = -1
      BY <1>6
    <3> QED BY <1>1, <3>1
  <2>2. Link(o, loops, locals, Op("pop"), P, Q) /\ Link(o, loops, locals, Op("add"), P, Q)
    BY <2>1, Links
  <2> QED BY <1>2, <1>3, <2>2
<1> QED BY <1>4, <1>5, <1>6

(* More code under the rest of the plan.                                   *)
LEMMA Carried ==
  ASSUME NEW o, KnownOf(o), NEW e, CodeOK(e), Grows(o, e),
         NEW t, NEW W, NEW k \in Int, NEW j \in Int, e.height + j = o.height + k, From(o, t, k, W)
  PROVE  From(e, t, j, W)
<1>1. CodeOK(o)
  BY DEF Known, KnownOf
<1>2. Now(e, loops, locals, depth, j) = Now(o, loops, locals, depth, k)
  BY DEF Now
<1>3. PlanFrom(e, loops, locals, t, Now(o, loops, locals, depth, k), Undefined(locals),
               1..Len(loops), W)
  BY <1>1, FromGrow DEF From
<1> QED BY <1>2, <1>3 DEF From

LEMMA Emitted ==
  ASSUME NEW o, KnownOf(o), NEW e, CodeOK(e), Grows(o, e), e.height >= 1,
         NEW t, NEW W, NEW k \in Int, NEW j \in Int, e.height + j = o.height + k, From(o, t, k, W),
         j <= 0 \/ o.height <= e.height
  PROVE  KnownOf(e) /\ From(e, t, j, W)
<1>1. From(e, t, j, W)
  BY Carried
<1>2. KnownOf(e)
  <2>1. e.height \in Nat /\ o.height \in Nat /\ locals \in Seq(Slots)
    BY OutFacts DEF Known, KnownOf
  <2>2. Low(locals, e.height)
    <3>1. CASE j <= 0
      <4>1. Low(locals, o.height + k) /\ o.height + k <= e.height
        BY <2>1, <3>1, FromLow
      <4> QED BY <2>1, <4>1, LowMore
    <3>2. CASE o.height <= e.height
      BY <2>1, <3>2, LowMore DEF Known, KnownOf
    <3> QED BY <3>1, <3>2
  <2> QED BY <2>2, KnownGrows DEF KnownOf
<1> QED BY <1>1, <1>2

(* The next item, when it is one that leaves delta operands.               *)
LEMMA Next1 ==
  ASSUME NowWorking, todo # << >>, Passes(todo[1]),
         NEW delta \in Int, Leaves(out, loops, locals, todo[1], Now(out, loops, locals, depth, 0), delta)
  PROVE  /\ KnownOf(out) /\ IsSeq(Tail(todo)) /\ Head(todo) = todo[1]
         /\ out.height + delta \in Nat /\ out.height + delta >= 1
         /\ From(out, Tail(todo), delta, Jumps \ Awaits(todo[1]))
         /\ \E Q \in Places : Link(out, loops, locals, todo[1], Now(out, loops, locals, depth, 0), Q)
BY After DEF NowWorking, KnownOf, From, Jumps

(* compileStmt puts its check in front of the rest.                        *)
TheCheck == [do |-> "check", height |-> out.height, locals |-> Len(locals)]

LEMMA StatementCheck ==
  ASSUME NowWorking, Stating
  PROVE  /\ KnownOf(out) /\ IsSeq(Tail(todo)) /\ out.height \in Nat /\ out.height >= 1
         /\ From(out, Tail(todo), 0, Jumps) /\ From(out, Cons(TheCheck, Tail(todo)), 0, Jumps)
<1> DEFINE it == todo[1]
           P == Now(out, loops, locals, depth, 0)
<1>1. todo # << >> /\ Head(todo) = it
  BY Begin DEF Stating, Doing, NowWorking
<1>2. it.do = "stmt" \/ it.do = "declaration"
  BY <1>1 DEF Stating, Doing
<1>3. Passes(it)
  BY <1>2 DEF Passes
<1>4. Leaves(out, loops, locals, it, P, 0)
  BY <1>2 DEF Leaves, Link, LinkExpr
<1>5. /\ KnownOf(out) /\ IsSeq(Tail(todo)) /\ From(out, Tail(todo), 0, Jumps \ Awaits(it))
  <2> DEFINE delta == 0
  <2>1. delta \in Int /\ Leaves(out, loops, locals, it, P, delta)
    BY <1>4
  <2> HIDE DEF delta
  <2>2. /\ KnownOf(out) /\ IsSeq(Tail(todo)) /\ From(out, Tail(todo), delta, Jumps \ Awaits(it))
    BY <1>1, <1>3, <2>1, Next1
  <2> QED BY <2>2 DEF delta
<1>6. Awaits(it) = {}
  BY <1>2 DEF Awaits
<1>7. out.height \in Nat /\ out.height >= 1 /\ Len(locals) \in Nat
  BY <1>5 DEF Known, KnownOf
<1>8. Link(out, loops, locals, TheCheck, P, P)
  <2>1. Keeps(P, P, 0)
    BY <1>5, NowKeeps DEF KnownOf
  <2>2. P.e = out.height - Len(locals)
    BY <1>7 DEF Now, Place
  <2>3. out.height \in Int /\ Len(locals) \in Int
    BY <1>7
  <2> QED BY <2>1, <2>2, <2>3, LinkCheck DEF TheCheck
<1>9. TheCheck.do # "define"
  BY DEF TheCheck
<1>10. From(out, Tail(todo), 0, Jumps)
  BY <1>5, <1>6
<1> HIDE DEF P
<1> QED BY <1>5, <1>7, <1>8, <1>9, <1>10, PutItem DEF P

LEMMA NextKeeps ==
  ASSUME NowWorking, todo # << >>, Passes(todo[1]),
         Leaves(out, loops, locals, todo[1], Now(out, loops, locals, depth, 0), 0)
  PROVE  /\ KnownOf(out) /\ IsSeq(Tail(todo)) /\ Head(todo) = todo[1] /\ out.height \in Nat
         /\ out.height >= 1 /\ From(out, Tail(todo), 0, Jumps \ Awaits(todo[1]))
         /\ \E Q \in Places : Link(out, loops, locals, todo[1], Now(out, loops, locals, depth, 0), Q)
<1> DEFINE delta == 0
<1>1. delta \in Int /\ Leaves(out, loops, locals, todo[1], Now(out, loops, locals, depth, 0), delta)
  OBVIOUS
<1> HIDE DEF delta
<1>2. /\ KnownOf(out) /\ IsSeq(Tail(todo)) /\ Head(todo) = todo[1]
      /\ From(out, Tail(todo), delta, Jumps \ Awaits(todo[1]))
      /\ \E Q \in Places : Link(out, loops, locals, todo[1], Now(out, loops, locals, depth, 0), Q)
  BY <1>1, Next1
<1>3. out.height \in Nat /\ out.height >= 1
  BY <1>2 DEF Known, KnownOf
<1> QED BY <1>2, <1>3 DEF delta

LEMMA NextAdds ==
  ASSUME NowWorking, todo # << >>, Passes(todo[1]),
         Leaves(out, loops, locals, todo[1], Now(out, loops, locals, depth, 0), 1)
  PROVE  /\ KnownOf(out) /\ IsSeq(Tail(todo)) /\ Head(todo) = todo[1] /\ out.height \in Nat
         /\ out.height >= 1 /\ From(out, Tail(todo), 1, Jumps \ Awaits(todo[1]))
<1> DEFINE delta == 1
<1>1. delta \in Int /\ Leaves(out, loops, locals, todo[1], Now(out, loops, locals, depth, 0), delta)
  OBVIOUS
<1> HIDE DEF delta
<1>2. /\ KnownOf(out) /\ IsSeq(Tail(todo)) /\ Head(todo) = todo[1]
      /\ From(out, Tail(todo), delta, Jumps \ Awaits(todo[1]))
  BY <1>1, Next1
<1>3. out.height \in Nat /\ out.height >= 1
  BY <1>2 DEF Known, KnownOf
<1> QED BY <1>2, <1>3 DEF delta

LEMMA NextDrops ==
  ASSUME NowWorking, todo # << >>, Passes(todo[1]),
         Leaves(out, loops, locals, todo[1], Now(out, loops, locals, depth, 0), -1)
  PROVE  /\ KnownOf(out) /\ IsSeq(Tail(todo)) /\ Head(todo) = todo[1] /\ out.height \in Nat
         /\ out.height >= 2 /\ From(out, Tail(todo), -1, Jumps \ Awaits(todo[1]))
         /\ \E Q \in Places : Link(out, loops, locals, todo[1], Now(out, loops, locals, depth, 0), Q)
<1> DEFINE delta == -1
<1>1. delta \in Int /\ Leaves(out, loops, locals, todo[1], Now(out, loops, locals, depth, 0), delta)
  OBVIOUS
<1>3. ASSUME out.height + delta \in Nat, out.height + delta >= 1, out.height \in Nat
      PROVE  out.height >= 2
  BY <1>3
<1> HIDE DEF delta
<1>2. /\ KnownOf(out) /\ IsSeq(Tail(todo)) /\ Head(todo) = todo[1]
      /\ out.height + delta \in Nat /\ out.height + delta >= 1
      /\ From(out, Tail(todo), delta, Jumps \ Awaits(todo[1]))
      /\ \E Q \in Places : Link(out, loops, locals, todo[1], Now(out, loops, locals, depth, 0), Q)
  BY <1>1, Next1
<1>4. out.height \in Nat
  BY <1>2 DEF Known, KnownOf
<1>5. out.height >= 2
  BY <1>2, <1>3, <1>4
<1> QED BY <1>2, <1>4, <1>5 DEF delta

(* A step leaves the plan it put together, over the code it emitted.        *)
LEMMA Onward ==
  ASSUME NEW e, KnownOf(e), NEW t, NEW W, From(e, t, 0, W), Unresolved(e) \ Broken(loops) \subseteq W,
         out' = e, todo' = t, UNCHANGED <<locals, depth, loops>>
  PROVE  NowWorking'
<1>1. Working(e, loops, locals, depth, t)
  BY Ready DEF KnownOf, From
<1> QED BY <1>1 DEF NowWorking

LEMMA OnwardItems ==
  ASSUME KnownOf(out), NEW t, From(out, t, 0, Jumps), todo' = t, UNCHANGED <<out, locals, depth, loops>>
  PROVE  NowWorking'
BY Onward DEF Jumps

LEMMA StepExprStmt == ASSUME NowWorking, ExprStmt PROVE NowWorking'
<1> DEFINE t == Tail(todo)
           pop == Op("pop")
           t1 == Cons(TheCheck, t)
           t2 == Cons(pop, t1)
           t3 == Cons(Expr, t2)
<1>1. /\ KnownOf(out) /\ IsSeq(t) /\ out.height \in Nat /\ out.height >= 1 /\ From(out, t1, 0, Jumps)
  BY StatementCheck DEF ExprStmt
<1>2. todo' = (<<Expr, pop>> \o <<TheCheck>>) \o t
  BY DEF ExprStmt, Do, Checked, TheCheck
<1>3. From(out, t2, 1, Jumps)
  BY <1>1, Puts
<1> HIDE DEF t, pop
<1>4. todo' = t3
  BY <1>1, <1>2, Items21
<1> HIDE DEF t1, t2, t3
<1>5. From(out, t3, 0, Jumps)
  BY <1>1, <1>3, Puts DEF t3
<1> QED BY <1>1, <1>4, <1>5, OnwardItems DEF ExprStmt

LEMMA NextExpr ==
  ASSUME NowWorking, Doing("expr")
  PROVE  /\ KnownOf(out) /\ IsSeq(Tail(todo)) /\ out.height \in Nat /\ out.height >= 1
         /\ From(out, Tail(todo), 1, Jumps)
<1>1. todo # << >> /\ Head(todo) = todo[1]
  BY Begin DEF Doing, NowWorking
<1>2. todo[1].do = "expr"
  BY <1>1 DEF Doing
<1>3. Passes(todo[1]) /\ Awaits(todo[1]) = {}
  BY <1>2 DEF Passes, Awaits
<1>4. Leaves(out, loops, locals, todo[1], Now(out, loops, locals, depth, 0), 1)
  BY <1>2 DEF Leaves, Link, LinkExpr
<1>5. /\ KnownOf(out) /\ IsSeq(Tail(todo)) /\ out.height \in Nat /\ out.height >= 1
      /\ From(out, Tail(todo), 1, Jumps \ Awaits(todo[1]))
  BY <1>1, <1>3, <1>4, NextAdds
<1>6. Jumps \ Awaits(todo[1]) = Jumps
  BY <1>3
<1> QED BY <1>5, <1>6

LEMMA NowAt ==
  ASSUME NEW o, KnownOf(o), NEW k \in Int, o.height + k >= 1
  PROVE  LET P == Now(o, loops, locals, depth, k)
         IN  P \in Places /\ P.x = 1 /\ H(P) = o.height + k
<1>1. o.height + k \in Nat
  <2>1. o.height \in Nat
    BY DEF Known, KnownOf
  <2> QED BY <2>1
<1> QED BY <1>1, NowFields DEF KnownOf

LEMMA StepIf == ASSUME NowWorking, If PROVE NowWorking'
<1>0. PICK other \in {<< >>, <<Stmt>>} :
         Do(Checked(<<Expr, [do |-> "then", branch |-> <<Stmt>>, other |-> other]>>))
  BY DEF If
<1> DEFINE t == Tail(todo)
           then == [do |-> "then", branch |-> <<Stmt>>, other |-> other]
           P == Now(out, loops, locals, depth, 1)
           Q == Now(out, loops, locals, depth, 0)
           t1 == Cons(TheCheck, t)
           t2 == Cons(then, t1)
           t3 == Cons(Expr, t2)
<1>1. /\ KnownOf(out) /\ IsSeq(t) /\ out.height \in Nat /\ out.height >= 1 /\ From(out, t1, 0, Jumps)
  BY StatementCheck DEF If
<1>2. todo' = (<<Expr, then>> \o <<TheCheck>>) \o t
  BY <1>0 DEF Do, Checked, TheCheck
<1>3. Link(out, loops, locals, then, P, Q) /\ then.do # "define"
  <2>1. Keeps(P, Q, -1)
    BY <1>1, NowKeeps DEF KnownOf
  <2>2. P.x = 1 /\ H(P) >= 2 /\ Under(locals, P)
    BY <1>1, NowAt, UnderNow
  <2> HIDE DEF P, Q
  <2> QED BY <2>1, <2>2, LinkThen
<1> HIDE DEF t, then
<1>4. todo' = t3
  BY <1>1, <1>2, Items21
<1>5. From(out, t2, 1, Jumps)
  BY <1>1, <1>3, PutItem
<1> HIDE DEF t1, t2, t3
<1>6. From(out, t3, 0, Jumps)
  BY <1>1, <1>5, Puts DEF t3
<1> QED BY <1>1, <1>4, <1>6, OnwardItems DEF If

LEMMA StepIfExpr == ASSUME NowWorking, IfExpr PROVE NowWorking'
<1> DEFINE t == Tail(todo)
           P == Now(out, loops, locals, depth, 1)
<1>1. /\ KnownOf(out) /\ IsSeq(t) /\ out.height \in Nat /\ out.height >= 1 /\ From(out, t, 1, Jumps)
  BY NextExpr DEF IfExpr
<1>2. PICK branch \in {<<Expr>>, <<[do |-> "jump"], Op("constant")>>} :
        todo' = <<Expr, [do |-> "then", branch |-> branch, other |-> <<Expr>>]>> \o t
  BY DEF IfExpr, Do
<1> DEFINE then == [do |-> "then", branch |-> branch, other |-> <<Expr>>]
           t1 == Cons(then, t)
           t2 == Cons(Expr, t1)
<1>3. Link(out, loops, locals, then, P, P) /\ then.do # "define"
  <2>1. Keeps(P, P, 0)
    BY <1>1, NowKeeps DEF KnownOf
  <2>2. P.x = 1 /\ H(P) >= 2 /\ Under(locals, P)
    BY <1>1, NowAt, UnderNow
  <2> HIDE DEF P
  <2> QED BY <2>1, <2>2, LinkThenExpr
<1>4. todo' = <<Expr, then>> \o t
  BY <1>2
<1> HIDE DEF t, then
<1>5. todo' = t2
  BY <1>1, <1>4, Items2
<1>6. From(out, t1, 1, Jumps)
  BY <1>1, <1>3, PutItem
<1> HIDE DEF t1
<1>7. From(out, t2, 0, Jumps)
  BY <1>1, <1>6, Puts
<1> HIDE DEF t2
<1> QED BY <1>1, <1>5, <1>7, OnwardItems DEF IfExpr

LEMMA StepWhile == ASSUME NowWorking, While PROVE NowWorking'
<1> DEFINE t == Tail(todo)
           while == [do |-> "while", start |-> Here(out)]
           P == Now(out, loops, locals, depth, 1)
           Q == Now(out, loops, locals, depth, 0)
           t1 == Cons(TheCheck, t)
           t2 == Cons(while, t1)
           t3 == Cons(Expr, t2)
<1>1. /\ KnownOf(out) /\ IsSeq(t) /\ out.height \in Nat /\ out.height >= 1 /\ From(out, t1, 0, Jumps)
  BY StatementCheck DEF While
<1>2. todo' = (<<Expr, while>> \o <<TheCheck>>) \o t
  BY DEF While, Do, Checked, TheCheck
<1>3. Link(out, loops, locals, while, P, Q) /\ while.do # "define"
  <2>1. Keeps(P, Q, -1)
    BY <1>1, NowKeeps DEF KnownOf
  <2>2. P.x = 1 /\ H(P) = out.height + 1 /\ Q.x = 1
    BY <1>1, NowAt
  <2>3. Landing(out, Here(out), out.height)
    BY <1>1, OutFacts DEF Known, KnownOf, Landing, Here, HeightAt
  <2>4. H(P) >= 2 /\ H(P) - 1 = out.height
    BY <1>1, <2>2
  <2> HIDE DEF P, Q
  <2> QED BY <2>1, <2>2, <2>3, <2>4, LinkWhile
<1> HIDE DEF t, while
<1>4. todo' = t3
  BY <1>1, <1>2, Items21
<1>5. From(out, t2, 1, Jumps)
  BY <1>1, <1>3, PutItem
<1> HIDE DEF t1, t2, t3
<1>6. From(out, t3, 0, Jumps)
  BY <1>1, <1>5, Puts DEF t3
<1> QED BY <1>1, <1>4, <1>6, OnwardItems DEF While

LEMMA StepReturn == ASSUME NowWorking, Return PROVE NowWorking'
<1> DEFINE t == Tail(todo)
           return == [do |-> "return", height |-> out.height]
           P == Now(out, loops, locals, depth, 1)
           Q == Now(out, loops, locals, depth, 0)
           t1 == Cons(return, t)
           t2 == Cons(Expr, t1)
<1>1. /\ KnownOf(out) /\ IsSeq(t) /\ out.height \in Nat /\ out.height >= 1 /\ From(out, t, 0, Jumps)
  BY StatementCheck DEF Return
<1>2. todo' = <<Expr, return>> \o t
  BY DEF Return, Do
<1>3. Link(out, loops, locals, return, P, Q) /\ return.do # "define"
  <2>1. Keeps(P, Q, -1)
    BY <1>1, NowKeeps DEF KnownOf
  <2>2. P.x = 1 /\ H(P) = out.height + 1
    BY <1>1, NowAt
  <2>3. out.height = H(P) - 1
    BY <1>1, <2>2
  <2> HIDE DEF P, Q
  <2> QED BY <2>1, <2>2, <2>3, LinkReturn
<1> HIDE DEF t, return
<1>4. todo' = t2
  BY <1>1, <1>2, Items2
<1>5. From(out, t1, 1, Jumps)
  BY <1>1, <1>3, PutItem
<1> HIDE DEF t1
<1>6. From(out, t2, 0, Jumps)
  BY <1>1, <1>5, Puts
<1> HIDE DEF t2
<1> QED BY <1>1, <1>4, <1>6, OnwardItems DEF Return

LEMMA StepBinary == ASSUME NowWorking, Binary PROVE NowWorking'
<1> DEFINE t == Tail(todo)
           add == Op("add")
           t1 == Cons(add, t)
           t2 == Cons(Expr, t1)
           t3 == Cons(Expr, t2)
<1>1. /\ KnownOf(out) /\ IsSeq(t) /\ out.height \in Nat /\ out.height >= 1 /\ From(out, t, 1, Jumps)
  BY NextExpr DEF Binary
<1>2. todo' = <<Expr, Expr, add>> \o t
  BY DEF Binary, Do
<1>3. From(out, t1, 2, Jumps)
  <2> DEFINE j == 2
             k == 1
  <2>1. j \in Int /\ k \in Int /\ k = j - 1 /\ out.height + j >= 1 /\ (j >= 0 \/ j >= k)
    BY <1>1
  <2> HIDE DEF j
  <2>2. From(out, t1, j, Jumps)
    BY <1>1, <2>1, Puts
  <2> QED BY <2>2 DEF j
<1> HIDE DEF t, add
<1>4. todo' = t3
  BY <1>1, <1>2, Items3
<1> HIDE DEF t1
<1>5. From(out, t2, 1, Jumps)
  BY <1>1, <1>3, Puts
<1> HIDE DEF t2
<1>6. From(out, t3, 0, Jumps)
  BY <1>1, <1>5, Puts
<1> HIDE DEF t3
<1> QED BY <1>1, <1>4, <1>6, OnwardItems DEF Binary

LEMMA StepAnd == ASSUME NowWorking, And PROVE NowWorking'
<1> DEFINE t == Tail(todo)
           and == [do |-> "and"]
           P == Now(out, loops, locals, depth, 1)
           t1 == Cons(and, t)
           t2 == Cons(Expr, t1)
<1>1. /\ KnownOf(out) /\ IsSeq(t) /\ out.height \in Nat /\ out.height >= 1 /\ From(out, t, 1, Jumps)
  BY NextExpr DEF And
<1>2. todo' = <<Expr, and>> \o t
  BY DEF And, Do
<1>3. Link(out, loops, locals, and, P, P) /\ and.do # "define"
  <2>1. Keeps(P, P, 0)
    BY <1>1, NowKeeps DEF KnownOf
  <2>2. P.x = 1 /\ H(P) >= 2 /\ Under(locals, P)
    BY <1>1, NowAt, UnderNow
  <2> HIDE DEF P
  <2> QED BY <2>1, <2>2, Links
<1> HIDE DEF t, and
<1>4. todo' = t2
  BY <1>1, <1>2, Items2
<1>5. From(out, t1, 1, Jumps)
  BY <1>1, <1>3, PutItem
<1> HIDE DEF t1
<1>6. From(out, t2, 0, Jumps)
  BY <1>1, <1>5, Puts
<1> HIDE DEF t2
<1> QED BY <1>1, <1>4, <1>6, OnwardItems DEF And

(* Pushing one item whose next place is not the current one.               *)
LEMMA PutAt ==
  ASSUME NEW o, KnownOf(o), NEW t, NEW Q, NEW U, NEW E, NEW W,
         PlanFrom(o, loops, locals, t, Q, U, E, W), NEW j \in Int, o.height + j >= 1, j >= 0,
         Q.n <= Len(locals), Q.d <= depth, Q.l <= Len(loops),
         NEW it, it.do # "define", Link(o, loops, locals, it, Now(o, loops, locals, depth, j), Q),
         NEW E2, NEW W2, Added(it, Now(o, loops, locals, depth, j), U, E, W, U, E2, W2)
  PROVE  PlanFrom(o, loops, locals, Cons(it, t), Now(o, loops, locals, depth, j), U, E2, W2)
<1> DEFINE P == Now(o, loops, locals, depth, j)
<1>1. o.height + j \in Nat
  <2>1. o.height \in Nat
    BY DEF Known, KnownOf
  <2> QED BY <2>1
<1>2. P \in Places /\ P.n = Len(locals) /\ P.d = depth /\ P.l = Len(loops) /\ P.x = 1 /\ Fits(locals, P)
  <2>1. Low(locals, o.height + j)
    BY LowAt
  <2> QED BY <1>1, <2>1, NowFields DEF KnownOf
<1> HIDE DEF P
<1>3. Before(P, Q)
  BY <1>2 DEF Before
<1> QED BY <1>2, <1>3, FromCons DEF P, Cons

LEMMA StepStatements == ASSUME NowWorking, Statements PROVE NowWorking'
<1> DEFINE t == Tail(todo)
           it == todo[1]
           P == Now(out, loops, locals, depth, 0)
           U == Undefined(locals)
           E == 1..Len(loops)
           again == [do |-> "stmts"]
           decl == [do |-> "declaration"]
<1>1. todo # << >> /\ Head(todo) = it /\ it.do = "stmts"
  BY Begin DEF Statements, Doing, NowWorking
<1>2. Passes(it) /\ Awaits(it) = {}
  BY <1>1 DEF Passes, Awaits
<1>3. Leaves(out, loops, locals, it, P, 0)
  BY <1>1 DEF Leaves, Link, LinkExpr
<1>4. /\ KnownOf(out) /\ IsSeq(t) /\ out.height \in Nat /\ out.height >= 1
      /\ From(out, t, 0, Jumps \ Awaits(it))
  BY <1>1, <1>2, <1>3, NextKeeps
<1>5. From(out, t, 0, Jumps)
  <2>1. Jumps \ Awaits(it) = Jumps
    BY <1>2
  <2> QED BY <1>4, <2>1
<1>6. CASE todo' = << >> \o t
  <2>1. todo' = t
    BY <1>4, <1>6, Items0
  <2> QED BY <1>4, <1>5, <2>1, OnwardItems DEF Statements
<1>7. CASE todo' = <<decl, again>> \o t
  <2> DEFINE R == [P EXCEPT !.x = 0]
             t1 == Cons(again, t)
             t2 == Cons(decl, t1)
  <2>1. PICK Q \in Places : Behind(out, loops, locals, depth, it, t, Q)
    BY <1>1, Begin DEF NowWorking
  <2>2. Place(out.height, Len(locals), depth, Len(loops)) = P
    BY <1>4 DEF Now
  <2>3. PlanFrom(out, loops, locals, t, Q, U, E, Jumps) /\ Keeps(P, Q, 0) /\ Q.x = 0
    <3>1. PlanFrom(out, loops, locals, t, Q, U, E, Jumps \ Awaits(it)) /\ Link(out, loops, locals, it, P, Q)
      BY <1>2, <2>1, <2>2 DEF Behind, StillUndefined, StillOpen, Passes, Jumps
    <3>2. Jumps \ Awaits(it) = Jumps
      BY <1>2
    <3> QED BY <1>1, <3>1, <3>2 DEF Link, LinkExpr
  <2>4. P \in Places /\ P.e + P.n >= 1 /\ P.n = Len(locals) /\ P.d = depth /\ P.l = Len(loops)
    BY <1>4, NowFields DEF KnownOf, H
  <2>15. P.e + P.n = out.height
    <3> DEFINE k == 0
    <3>1. out.height + k \in Nat /\ k \in Int /\ out.height + k = out.height
      BY <1>4
    <3> HIDE DEF k
    <3>2. H(Now(out, loops, locals, depth, k)) = out.height + k
      BY <1>4, <3>1, NowFields DEF KnownOf
    <3> QED BY <3>1, <3>2 DEF H, k
  <2> HIDE DEF P
  <2>5. R \in Places /\ R.e = P.e /\ R.n = P.n /\ R.d = P.d /\ R.l = P.l /\ R.x = 0
    BY <2>4 DEF Places
  <2> HIDE DEF R
  <2>6. Keeps(R, Q, 0) /\ Q.n <= R.n /\ Q.d <= R.d /\ Q.l <= R.l
    BY <2>3, <2>5 DEF Keeps, Places
  <2>7. Link(out, loops, locals, again, R, Q)
    BY <2>3, <2>6, Links
  <2>8. PlanFrom(out, loops, locals, t1, R, U, E, Jumps)
    <3>1. Added(again, R, U, E, Jumps, U, E, Jumps) /\ again.do # "define"
      BY DEF Added
    <3>2. R.e + R.n >= 1 /\ ~ (Q.x = 1)
      BY <2>3, <2>4, <2>5
    <3>3. HasSlots(locals, R.e, R.n, R.d)
      <4>1. R.e + R.n = out.height /\ Low(locals, out.height)
        BY <1>4, <2>5, <2>15 DEF Known, KnownOf
      <4> QED BY <4>1, LowHas
    <3>4. Q.d = R.d => Q.e >= R.e
      BY <2>3, <2>5, <2>6 DEF Keeps, Places
    <3> HIDE DEF again, t, U, E
    <3> QED BY <2>3, <2>5, <2>6, <2>7, <3>1, <3>2, <3>3, <3>4, PushOpen
  <2>9. Link(out, loops, locals, decl, P, R)
    <3>1. Keeps(P, R, 0)
      BY <2>4, <2>5 DEF Keeps, Places
    <3> QED BY <2>5, <3>1, Links
  <2>10. Added(decl, P, U, E, Jumps, U, E, Jumps) /\ decl.do # "define"
    BY DEF Added
  <2>11. R.n <= Len(locals) /\ R.d <= depth /\ R.l <= Len(loops)
    BY <1>4, <2>4, <2>5 DEF Known, KnownOf
  <2> HIDE DEF t, t1, decl, again, U, E
  <2>12. PlanFrom(out, loops, locals, t2, P, U, E, Jumps)
    BY <1>4, <2>8, <2>9, <2>10, <2>11, PutAt DEF P
  <2>13. From(out, t2, 0, Jumps)
    BY <2>12 DEF From, P, U, E
  <2>14. todo' = t2
    BY <1>4, <1>7, Items2 DEF t1
  <2> QED BY <1>4, <2>13, <2>14, OnwardItems DEF Statements
<1> QED BY <1>6, <1>7 DEF Statements, Do

LEMMA StepBlockValue == ASSUME NowWorking, BlockValue PROVE NowWorking'
<1> DEFINE t == Tail(todo)
           it == todo[1]
           pop == Op("pop")
           t1 == Cons(pop, t)
           t2 == Cons(Expr, t1)
<1>1. todo # << >> /\ Head(todo) = it /\ Passes(it) /\ Awaits(it) = {}
  BY Begin DEF BlockValue, Doing, NowWorking, Passes, Awaits
<1>2. Leaves(out, loops, locals, it, Now(out, loops, locals, depth, 0), 0)
  BY <1>1 DEF Leaves, Link, LinkExpr, BlockValue, Doing
<1>3. /\ KnownOf(out) /\ IsSeq(t) /\ out.height \in Nat /\ out.height >= 1
      /\ From(out, t, 0, Jumps \ Awaits(it))
  BY <1>1, <1>2, NextKeeps
<1>4. From(out, t, 0, Jumps)
  <2>1. Jumps \ Awaits(it) = Jumps
    BY <1>1
  <2> QED BY <1>3, <2>1
<1>5. CASE todo' = << >> \o t
  <2>1. todo' = t
    BY <1>3, <1>5, Items0
  <2> QED BY <1>3, <1>4, <2>1, OnwardItems DEF BlockValue
<1>6. CASE todo' = <<Expr, pop>> \o t
  <2>1. From(out, t1, 1, Jumps)
    BY <1>3, <1>4, Puts
  <2> HIDE DEF t, pop, it
  <2>2. todo' = t2
    BY <1>3, <1>6, Items2
  <2> HIDE DEF t1
  <2>3. From(out, t2, 0, Jumps)
    BY <1>3, <2>1, Puts
  <2> HIDE DEF t2
  <2> QED BY <1>3, <2>2, <2>3, OnwardItems DEF BlockValue
<1> QED BY <1>5, <1>6 DEF BlockValue, Do

LEMMA StepCheckStatement == ASSUME NowWorking, CheckStatement PROVE NowWorking'
<1> DEFINE t == Tail(todo)
           it == todo[1]
           P == Now(out, loops, locals, depth, 0)
           agree == ~out.reachable \/ out.height - it.height = Len(locals) - it.locals
<1>1. todo # << >> /\ Head(todo) = it /\ it.do = "check"
  BY Begin DEF CheckStatement, Doing, NowWorking
<1>2. Passes(it) /\ Awaits(it) = {}
  BY <1>1 DEF Passes, Awaits
<1>3. Leaves(out, loops, locals, it, P, 0)
  BY <1>1 DEF Leaves, Link, LinkExpr
<1>4. /\ KnownOf(out) /\ IsSeq(t) /\ out.height \in Nat /\ out.height >= 1
      /\ From(out, t, 0, Jumps \ Awaits(it))
      /\ \E Q \in Places : Link(out, loops, locals, it, P, Q)
  BY <1>1, <1>2, <1>3, NextKeeps
<1>5. P.e = it.height - it.locals /\ it.height \in Int /\ it.locals \in Int
  BY <1>1, <1>4 DEF Link, LinkExpr
<1>6. P.e = out.height - Len(locals)
  <2>1. P.e = (out.height + 0) - Len(locals)
    BY DEF Now, Place
  <2> HIDE DEF P
  <2> QED BY <1>4, <2>1
<1>7. agree
  <2>1. Len(locals) \in Nat
    BY <1>4 DEF Known, KnownOf
  <2> HIDE DEF P, it
  <2>2. out.height - it.height = Len(locals) - it.locals
    BY <1>4, <1>5, <1>6, <2>1
  <2> QED BY <2>2
<1>8. out' = [out EXCEPT !.ok = agree]
  BY <1>1 DEF CheckStatement
<1> HIDE DEF agree
<1>9. out' = out
  <2>1. out \in Outs /\ out.ok
    BY <1>4, OutFacts DEF Known, KnownOf
  <2>2. [out EXCEPT !.ok = agree] = out
    BY <1>7, <2>1 DEF Outs
  <2> QED BY <1>8, <2>2
<1>10. todo' = t
  <2>1. todo' = << >> \o t
    BY DEF CheckStatement, Do
  <2> HIDE DEF t
  <2> QED BY <1>4, <2>1, Items0
<1>11. From(out, t, 0, Jumps)
  <2>1. Jumps \ Awaits(it) = Jumps
    BY <1>2
  <2> QED BY <1>4, <2>1
<1> QED BY <1>4, <1>9, <1>10, <1>11, OnwardItems DEF CheckStatement

(* One instruction that is not a jump and asks for nothing.                *)
Simple(op) == op \in Ops \ (Awaiting \cup {"loop", "close block"})

LEMMA SimpleOps ==
  /\ Simple("constant") /\ Simple("get local") /\ Simple("closure") /\ Simple("name")
  /\ Simple("add") /\ Simple("pop") /\ Simple("return")
BY DEF Simple, Ops, Awaiting

LEMMA SimpleEmit ==
  ASSUME NEW o, NEW op, Simple(op), NEW arg \in Int \cup Slots, o.height + Effect(op, arg) \in Nat
  PROVE  MayEmit(o, op, arg) /\ op \notin Awaiting
BY DEF Simple, MayEmit

LEMMA EmitItem ==
  ASSUME NEW o, KnownOf(o), NEW op, NEW arg \in Int \cup Slots, Simple(op),
         NEW t, NEW W, NEW k \in Int, NEW j \in Int, From(o, t, k, W), j = k - Effect(op, arg), j <= 0,
         Effect(op, arg) \in Int, o.height + Effect(op, arg) >= 1
  PROVE  LET e == Emit(o, op, arg)
         IN  KnownOf(e) /\ From(e, t, j, W) /\ Unresolved(e) = Unresolved(o) /\ Grows(o, e)
             /\ e.height = o.height + Effect(op, arg)
<1> DEFINE e == Emit(o, op, arg)
<1>1. CodeOK(o) /\ o.height \in Nat
  BY DEF Known, KnownOf
<1>0. MayEmit(o, op, arg) /\ op \notin Awaiting
  <2>1. o.height + Effect(op, arg) \in Nat
    BY <1>1
  <2> QED BY <2>1, SimpleEmit
<1>2. /\ CodeOK(e) /\ Grows(o, e) /\ e.height = o.height + Effect(op, arg)
      /\ Unresolved(e) = Unresolved(o)
  <2>1. /\ CodeOK(e) /\ Grows(o, e) /\ e.height = o.height + Effect(op, arg)
        /\ Unresolved(e) = Unresolved(o) \cup (IF op \in Awaiting THEN {Len(o.code) + 1} ELSE {})
    BY <1>0, <1>1, EmitKeeps
  <2>2. (IF op \in Awaiting THEN {Len(o.code) + 1} ELSE {}) = {}
    BY <1>0
  <2> QED BY <2>1, <2>2
<1> HIDE DEF e
<1>3. e.height + j = o.height + k /\ e.height >= 1
  BY <1>1, <1>2
<1>4. KnownOf(e) /\ From(e, t, j, W)
  BY <1>2, <1>3, Emitted
<1> QED BY <1>2, <1>4 DEF e

(* One that pushes a value, where the item does.                           *)
LEMMA EmitAdds ==
  ASSUME NEW o, KnownOf(o), NEW op, NEW arg \in Int \cup Slots, Simple(op), Effect(op, arg) = 1,
         NEW t, NEW W, From(o, t, 1, W)
  PROVE  LET e == Emit(o, op, arg)
         IN  /\ KnownOf(e) /\ From(e, t, 0, W) /\ Unresolved(e) = Unresolved(o) /\ Grows(o, e)
             /\ e.height = o.height + 1
<1> DEFINE j == 0
           k == 1
           f == Effect(op, arg)
           e == Emit(o, op, arg)
<1>1. o.height \in Nat /\ o.height >= 1
  BY DEF Known, KnownOf
<1>2. /\ j \in Int /\ k \in Int /\ f \in Int /\ j = k - f /\ j <= 0 /\ o.height + f >= 1 /\ From(o, t, k, W)
      /\ o.height + f = o.height + 1
  BY <1>1
<1> HIDE DEF j, k
<1>3. /\ KnownOf(e) /\ From(e, t, j, W) /\ Unresolved(e) = Unresolved(o) /\ Grows(o, e)
      /\ e.height = o.height + f
  BY <1>2, EmitItem
<1> QED BY <1>2, <1>3 DEF j

LEMMA StepLiteral == ASSUME NowWorking, Literal PROVE NowWorking'
<1> DEFINE t == Tail(todo)
           e == Emit(out, "constant", 0)
<1>1. /\ KnownOf(out) /\ IsSeq(t) /\ out.height \in Nat /\ out.height >= 1 /\ From(out, t, 1, Jumps)
  BY NextExpr DEF Literal
<1>2. todo' = t
  <2>1. todo' = << >> \o t
    BY DEF Literal, Do
  <2> HIDE DEF t
  <2> QED BY <1>1, <2>1, Items0
<1>3. Effect("constant", 0) = 1
  BY DEF Effect
<1>4. KnownOf(e) /\ From(e, t, 0, Jumps) /\ Unresolved(e) = Unresolved(out)
  <2> DEFINE op == "constant"
             arg == 0
  <2>1. Simple(op) /\ Effect(op, arg) = 1
    BY <1>3, SimpleOps
  <2>3. arg \in Int \cup Slots
    OBVIOUS
  <2> HIDE DEF op, arg
  <2>2. LET e1 == Emit(out, op, arg)
        IN  KnownOf(e1) /\ From(e1, t, 0, Jumps) /\ Unresolved(e1) = Unresolved(out)
    BY <1>1, <2>1, <2>3, EmitAdds
  <2> QED BY <2>2 DEF op, arg
<1>5. Unresolved(e) \ Broken(loops) \subseteq Jumps
  BY <1>4 DEF Jumps
<1>6. out' = e
  BY DEF Literal
<1> HIDE DEF e, t
<1> QED BY <1>2, <1>4, <1>5, <1>6, Onward DEF Literal

LEMMA StepVariable == ASSUME NowWorking, NEW i \in Initialized, Variable(i) PROVE NowWorking'
<1> DEFINE t == Tail(todo)
           e == Emit(out, "get local", locals[i])
<1>1. /\ KnownOf(out) /\ IsSeq(t) /\ out.height \in Nat /\ out.height >= 1 /\ From(out, t, 1, Jumps)
  BY NextExpr DEF Variable
<1>2. todo' = t
  <2>1. todo' = << >> \o t
    BY DEF Variable, Do
  <2> HIDE DEF t
  <2> QED BY <1>1, <2>1, Items0
<1>3. locals[i] \in Slots
  BY <1>1 DEF Known, KnownOf, Initialized
<1>4. Effect("get local", locals[i]) = 1
  BY DEF Effect
<1>6. KnownOf(e) /\ From(e, t, 0, Jumps) /\ Unresolved(e) = Unresolved(out)
  <2> DEFINE op == "get local"
  <2>1. Simple(op) /\ Effect(op, locals[i]) = 1
    BY <1>4, SimpleOps
  <2> HIDE DEF op
  <2>2. LET e1 == Emit(out, op, locals[i])
        IN  KnownOf(e1) /\ From(e1, t, 0, Jumps) /\ Unresolved(e1) = Unresolved(out)
    BY <1>1, <1>3, <2>1, EmitAdds
  <2> QED BY <2>2 DEF op
<1>7. Unresolved(e) \ Broken(loops) \subseteq Jumps
  BY <1>6 DEF Jumps
<1>8. out' = e
  BY DEF Variable
<1> HIDE DEF e, t
<1> QED BY <1>2, <1>6, <1>7, <1>8, Onward DEF Variable

(* One that drops a value, where the item does.                            *)
LEMMA EmitDrops ==
  ASSUME NEW o, KnownOf(o), o.height >= 2, NEW op, Simple(op), Effect(op, 0) = -1,
         NEW t, NEW W, From(o, t, -1, W)
  PROVE  LET e == Emit(o, op, 0)
         IN  /\ KnownOf(e) /\ From(e, t, 0, W) /\ Unresolved(e) = Unresolved(o) /\ Grows(o, e)
             /\ e.height = o.height - 1
<1> DEFINE j == 0
           k == -1
           arg == 0
           f == Effect(op, arg)
           e == Emit(o, op, arg)
<1>1. o.height \in Nat
  BY DEF Known, KnownOf
<1>2. /\ j \in Int /\ k \in Int /\ f \in Int /\ j = k - f /\ j <= 0 /\ o.height + f >= 1 /\ From(o, t, k, W)
      /\ o.height + f = o.height - 1
  BY <1>1
<1>3. arg \in Int \cup Slots
  OBVIOUS
<1> HIDE DEF j, k, arg
<1>4. /\ KnownOf(e) /\ From(e, t, j, W) /\ Unresolved(e) = Unresolved(o) /\ Grows(o, e)
      /\ e.height = o.height + f
  BY <1>2, <1>3, EmitItem
<1> QED BY <1>2, <1>4 DEF j, arg

LEMMA StepEmitOperator == ASSUME NowWorking, EmitOperator PROVE NowWorking'
<1> DEFINE t == Tail(todo)
           it == todo[1]
           P == Now(out, loops, locals, depth, 0)
           op == it.op
           arg == 0
           e == Emit(out, op, arg)
<1>1. todo # << >> /\ Head(todo) = it /\ it.do = "emit"
  BY Begin DEF EmitOperator, Doing, NowWorking
<1>2. Passes(it) /\ Awaits(it) = {}
  BY <1>1 DEF Passes, Awaits
<1>3. PICK Q \in Places : Behind(out, loops, locals, depth, it, t, Q)
  BY <1>1, Begin DEF NowWorking
<1>4. op \in {"pop", "add"} \/ op = "constant"
  <2>1. Link(out, loops, locals, it, Place(out.height, Len(locals), depth, Len(loops)), Q)
    BY <1>3 DEF Behind
  <2> QED BY <1>1, <2>1 DEF Link, LinkExpr
<1>5. Jumps \ Awaits(it) = Jumps
  BY <1>2
<1>6. IsSeq(t)
  BY <1>3 DEF Behind
<1>7. todo' = t
  <2>1. todo' = << >> \o t
    BY DEF EmitOperator, Do
  <2> HIDE DEF t
  <2> QED BY <1>6, <2>1, Items0
<1>8. out' = e
  BY <1>1 DEF EmitOperator
<1>9. KnownOf(e) /\ From(e, t, 0, Jumps) /\ Unresolved(e) = Unresolved(out)
  <2>1. CASE op = "constant"
    <3>1. Leaves(out, loops, locals, it, P, 1)
      BY <1>1, <2>1 DEF Leaves, Link, LinkExpr
    <3>2. KnownOf(out) /\ From(out, t, 1, Jumps \ Awaits(it))
      BY <1>1, <1>2, <3>1, NextAdds
    <3>3. Effect(op, arg) = 1 /\ Simple(op)
      BY <2>1, SimpleOps DEF Effect
    <3>4. arg \in Int \cup Slots
      OBVIOUS
    <3> HIDE DEF op, arg, t
    <3> QED BY <1>5, <3>2, <3>3, <3>4, EmitAdds
  <2>2. CASE op \in {"pop", "add"}
    <3>1. Leaves(out, loops, locals, it, P, -1)
      BY <1>1, <2>2 DEF Leaves, Link, LinkExpr
    <3>2. KnownOf(out) /\ From(out, t, -1, Jumps \ Awaits(it)) /\ out.height >= 2
      BY <1>1, <1>2, <3>1, NextDrops
    <3>3. Effect(op, 0) = -1 /\ Simple(op)
      BY <2>2, SimpleOps DEF Effect
    <3> HIDE DEF op, t
    <3> QED BY <1>5, <3>2, <3>3, EmitDrops
  <2> QED BY <1>4, <2>1, <2>2
<1>10. Unresolved(e) \ Broken(loops) \subseteq Jumps
  BY <1>9 DEF Jumps
<1> HIDE DEF e, t
<1> QED BY <1>7, <1>8, <1>9, <1>10, Onward DEF EmitOperator

LEMMA StepFinishReturn == ASSUME NowWorking, FinishReturn PROVE NowWorking'
<1> DEFINE t == Tail(todo)
           it == todo[1]
           P == Now(out, loops, locals, depth, 0)
           e == [Emit(out, "return", 0) EXCEPT !.height = it.height]
<1>1. todo # << >> /\ Head(todo) = it /\ it.do = "return"
  BY Begin DEF FinishReturn, Doing, NowWorking
<1>2. Passes(it) /\ Awaits(it) = {}
  BY <1>1 DEF Passes, Awaits
<1>3. Leaves(out, loops, locals, it, P, -1)
  BY <1>1 DEF Leaves, Link, LinkExpr
<1>4. /\ KnownOf(out) /\ IsSeq(t) /\ out.height \in Nat /\ out.height >= 2
      /\ From(out, t, -1, Jumps \ Awaits(it))
      /\ \E Q \in Places : Link(out, loops, locals, it, P, Q)
  BY <1>1, <1>2, <1>3, NextDrops
<1>5. it.height = out.height - 1
  <2>1. it.height = H(P) - 1
    BY <1>1, <1>4 DEF Link, LinkExpr
  <2>2. H(P) = out.height
    BY <1>4, NowAt
  <2> QED BY <2>1, <2>2
<1>6. CodeOK(e) /\ Grows(out, e) /\ e.height = it.height /\ Unresolved(e) = Unresolved(out)
  <2> DEFINE op == "return"
             arg == 0
             h == it.height
             e1 == [Emit(out, op, arg) EXCEPT !.height = h]
  <2>1. Simple(op) /\ Effect(op, arg) = -1 /\ op \notin Awaiting
    BY SimpleOps DEF Effect, Awaiting
  <2>2. arg \in Int \cup Slots
    OBVIOUS
  <2>3. op \in {"jump", "loop", "return"}
    OBVIOUS
  <2>4. h \in Nat
    BY <1>4, <1>5
  <2> HIDE DEF op, arg, h
  <2>5. out.height + Effect(op, arg) \in Nat
    BY <1>4, <2>1
  <2>6. MayEmit(out, op, arg)
    BY <2>1, <2>2, <2>5, SimpleEmit
  <2>7. CodeOK(out)
    BY <1>4 DEF Known, KnownOf
  <2>8. /\ CodeOK(e1) /\ Grows(out, e1) /\ e1.height = h
        /\ Unresolved(e1) = Unresolved(out) \cup (IF op \in Awaiting THEN {Len(out.code) + 1} ELSE {})
    BY <2>3, <2>4, <2>6, <2>7, Abandon
  <2>9. (IF op \in Awaiting THEN {Len(out.code) + 1} ELSE {}) = {}
    BY <2>1
  <2>10. Unresolved(e1) = Unresolved(out)
    BY <2>8, <2>9
  <2> QED BY <2>8, <2>10 DEF op, arg, h
<1>7. out' = e
  BY <1>1 DEF FinishReturn
<1>8. todo' = t
  <2>1. todo' = << >> \o t
    BY DEF FinishReturn, Do
  <2> HIDE DEF t
  <2> QED BY <1>4, <2>1, Items0
<1>9. Jumps \ Awaits(it) = Jumps
  BY <1>2
<1>10. Unresolved(e) \ Broken(loops) \subseteq Jumps
  BY <1>6 DEF Jumps
<1> HIDE DEF e, t, P, it
<1>11. KnownOf(e) /\ From(e, t, 0, Jumps)
  <2> DEFINE j == 0
             k == -1
  <2>1. e.height >= 1 /\ e.height + j = out.height + k /\ j \in Int /\ k \in Int /\ j <= 0
    BY <1>4, <1>5, <1>6
  <2>2. From(out, t, k, Jumps)
    BY <1>4, <1>9
  <2> HIDE DEF j, k
  <2>3. KnownOf(e) /\ From(e, t, j, Jumps)
    BY <1>4, <1>6, <2>1, <2>2, Emitted
  <2> QED BY <2>3 DEF j
<1> QED BY <1>7, <1>8, <1>10, <1>11, Onward DEF FinishReturn

JumpOp == "jump if false"
LEMMA JumpOps == /\ JumpOp \in Ops /\ JumpOp \in Awaiting /\ Effect(JumpOp, 0) = 0
                 /\ JumpOp \notin {"jump", "loop", "return"}
                 /\ "jump" \in Ops /\ "jump" \in Awaiting /\ Effect("jump", 0) = 0
BY DEF JumpOp, Ops, Awaiting, Effect

LEMMA MayJump ==
  ASSUME NEW o, o.height \in Nat, NEW op \in Awaiting, op \in Ops, Effect(op, 0) = 0
  PROVE  MayEmit(o, op, 0)
<1>1. o.height + Effect(op, 0) \in Nat
  OBVIOUS
<1>2. op # "loop" /\ op # "close block"
  BY DEF Awaiting
<1>3. 0 \in Int \cup Slots
  OBVIOUS
<1> QED BY <1>1, <1>2, <1>3 DEF MayEmit

(* emitJump on the condition and the pop of it.                            *)
LEMMA TestKeeps ==
  ASSUME NEW o, KnownOf(o), o.height >= 2, Low(locals, o.height - 1)
  PROVE  LET e == EmitTest(o)
         IN  /\ KnownOf(e) /\ CodeOK(e) /\ Grows(o, e) /\ e.height = o.height - 1
             /\ Patchable(e, Here(o), o.height) /\ Unresolved(e) = Unresolved(o) \cup {Here(o)}
<1> DEFINE n == Len(o.code)
           m == Emit(o, JumpOp, 0)
           pop == "pop"
           arg == 0
           e == Emit(m, pop, arg)
<1>1. CodeOK(o) /\ o.height \in Nat /\ n \in Nat
  BY OutFacts DEF Known, KnownOf
<1>2. MayEmit(o, JumpOp, 0)
  BY <1>1, JumpOps, MayJump
<1>3. /\ CodeOK(m) /\ Grows(o, m) /\ m.height = o.height /\ Len(m.code) = n + 1
      /\ m.code[n + 1].op = JumpOp /\ m.code[n + 1].height = o.height
      /\ Unresolved(m) = Unresolved(o) \cup {n + 1}
  <2>1. /\ CodeOK(m) /\ Grows(o, m) /\ m.height = o.height + Effect(JumpOp, 0) /\ Len(m.code) = n + 1
        /\ m.code[n + 1].op = JumpOp /\ m.code[n + 1].height = o.height
        /\ Unresolved(m) = Unresolved(o) \cup (IF JumpOp \in Awaiting THEN {n + 1} ELSE {})
    BY <1>1, <1>2, EmitKeeps
  <2>2. (IF JumpOp \in Awaiting THEN {n + 1} ELSE {}) = {n + 1}
    BY JumpOps
  <2>3. o.height + Effect(JumpOp, 0) = o.height
    BY <1>1, JumpOps
  <2> QED BY <2>1, <2>2, <2>3
<1> HIDE DEF m
<1>4. Effect(pop, arg) = -1 /\ Simple(pop) /\ pop \notin Awaiting
  BY SimpleOps DEF Effect, Awaiting
<1>5. MayEmit(m, pop, arg)
  <2>1. arg \in Int \cup Slots
    OBVIOUS
  <2> HIDE DEF pop, arg
  <2>2. m.height + Effect(pop, arg) \in Nat
    BY <1>1, <1>3, <1>4
  <2> QED BY <1>4, <2>1, <2>2, SimpleEmit
<1> HIDE DEF pop, arg
<1>6. /\ CodeOK(e) /\ Grows(m, e) /\ e.height = m.height + Effect(pop, arg) /\ Len(e.code) = n + 2
      /\ Unresolved(e) = Unresolved(m)
  <2>1. /\ CodeOK(e) /\ Grows(m, e) /\ e.height = m.height + Effect(pop, arg)
        /\ Len(e.code) = Len(m.code) + 1
        /\ Unresolved(e) = Unresolved(m) \cup (IF pop \in Awaiting THEN {Len(m.code) + 1} ELSE {})
    BY <1>3, <1>5, EmitKeeps
  <2>2. (IF pop \in Awaiting THEN {Len(m.code) + 1} ELSE {}) = {}
    BY <1>4
  <2>3. Unresolved(e) = Unresolved(m)
    BY <2>1, <2>2
  <2> QED BY <1>1, <1>3, <2>1, <2>3
<1> HIDE DEF e
<1>7. e.height = o.height - 1 /\ e.height >= 1
  BY <1>1, <1>3, <1>4, <1>6
<1>8. Patchable(m, n + 1, o.height)
  BY <1>1, <1>3, JumpOps DEF Patchable
<1>9. Patchable(e, n + 1, o.height)
  BY <1>3, <1>6, <1>8, GrowsKeeps
<1>10. Grows(o, e)
  BY <1>1, <1>3, <1>6 DEF Grows
<1>11. KnownOf(e)
  BY <1>6, <1>7, KnownGrows DEF KnownOf
<1>12. e = EmitTest(o)
  BY DEF e, m, EmitTest, JumpOp, pop, arg
<1> QED BY <1>3, <1>6, <1>7, <1>9, <1>10, <1>11, <1>12 DEF Here

LEMMA Plus1 ==
  ASSUME NEW o, KnownOf(o), NEW e, CodeOK(e), Grows(o, e), e.height = o.height - 1,
         NEW t, NEW W, From(o, t, 0, W)
  PROVE  From(e, t, 1, W)
<1> DEFINE k == 0
           j == 1
<1>1. o.height \in Nat
  BY DEF Known, KnownOf
<1>2. e.height + j = o.height + k /\ j \in Int /\ k \in Int /\ From(o, t, k, W)
  BY <1>1
<1> HIDE DEF j, k
<1>3. From(e, t, j, W)
  BY <1>2, Carried
<1> QED BY <1>3 DEF j

LEMMA Plus0 ==
  ASSUME NEW o, KnownOf(o), NEW e, CodeOK(e), Grows(o, e),
         NEW t, NEW W
  PROVE  /\ e.height = o.height - 1 /\ From(o, t, -1, W) => From(e, t, 0, W)
         /\ e.height = o.height /\ From(o, t, 0, W) => From(e, t, 0, W)
<1>1. o.height \in Nat
  BY DEF Known, KnownOf
<1>2. ASSUME e.height = o.height - 1, From(o, t, -1, W) PROVE From(e, t, 0, W)
  <2> DEFINE k == -1
             j == 0
  <2>2. e.height + j = o.height + k /\ j \in Int /\ k \in Int /\ From(o, t, k, W)
    BY <1>1, <1>2
  <2> HIDE DEF j, k
  <2>3. From(e, t, j, W)
    BY <2>2, Carried
  <2> QED BY <2>3 DEF j
<1>3. ASSUME e.height = o.height, From(o, t, 0, W) PROVE From(e, t, 0, W)
  <2> DEFINE j == 0
  <2>2. e.height + j = o.height + j /\ j \in Int /\ From(o, t, j, W)
    BY <1>1, <1>3
  <2> HIDE DEF j
  <2>3. From(e, t, j, W)
    BY <2>2, Carried
  <2> QED BY <2>3 DEF j
<1> QED BY <1>2, <1>3

(* The items of a jump that is to be patched.                              *)
LEMMA PutPatch ==
  ASSUME NEW o, KnownOf(o), NEW t, NEW W, NEW j \in Int, o.height + j >= 1, From(o, t, j, W), NEW p
  PROVE  /\ Patchable(o, p, o.height + j)
              => From(o, Cons([do |-> "patch", p |-> p], t), j, W \cup {p})
         /\ Patchable(o, p, (o.height + j) + 1)
              => \A other \in {<< >>, <<Stmt>>} :
                   From(o, Cons([do |-> "else", p |-> p, other |-> other], t), j, W \cup {p})
         /\ Patchable(o, p, o.height + j) /\ o.height + j >= 2 /\ j >= 1
              => From(o, Cons([do |-> "else", p |-> p, other |-> <<Expr>>], t), j, W \cup {p})
<1> DEFINE P == Now(o, loops, locals, depth, j)
           h == o.height + j
           patch == [do |-> "patch", p |-> p]
           elseExpr == [do |-> "else", p |-> p, other |-> <<Expr>>]
           W2 == W \cup {p}
<1>1. P.x = 1 /\ H(P) = h
  BY NowAt
<1>2. Keeps(P, P, 0)
  <2>1. Keeps(P, P, j - j)
    BY NowKeeps DEF KnownOf
  <2> HIDE DEF P
  <2>2. j - j = 0
    OBVIOUS
  <2> QED BY <2>1, <2>2
<1>3. ASSUME NEW it, it.do # "define", Awaits(it) = {p}, Link(o, loops, locals, it, P, P)
      PROVE  From(o, Cons(it, t), j, W2)
  <2>1. \A q \in W2 : q \in W \/ q \in Awaits(it)
    BY <1>3
  <2> HIDE DEF W2
  <2> QED BY <1>3, <2>1, PutItem
<1>7. j >= 1 => Under(locals, P)
  BY UnderNow
<1> HIDE DEF W2, P
<1>4. ASSUME Patchable(o, p, h) PROVE From(o, Cons(patch, t), j, W2)
  <2>1. Link(o, loops, locals, patch, P, P)
    BY <1>1, <1>2, <1>4, LinkPatch
  <2>2. patch.do # "define" /\ Awaits(patch) = {p}
    BY DEF Awaits
  <2> HIDE DEF patch
  <2> QED BY <1>3, <2>1, <2>2
<1>5. ASSUME Patchable(o, p, h + 1), NEW other \in {<< >>, <<Stmt>>}
      PROVE  From(o, Cons([do |-> "else", p |-> p, other |-> other], t), j, W2)
  <2> DEFINE else == [do |-> "else", p |-> p, other |-> other]
  <2>1. Link(o, loops, locals, else, P, P)
    BY <1>1, <1>2, <1>5, LinkElse
  <2>2. else.do # "define" /\ Awaits(else) = {p}
    BY DEF Awaits
  <2> HIDE DEF else
  <2>3. From(o, Cons(else, t), j, W2)
    BY <1>3, <2>1, <2>2
  <2> QED BY <2>3 DEF else
<1>6. ASSUME Patchable(o, p, h), h >= 2, Under(locals, P) PROVE From(o, Cons(elseExpr, t), j, W2)
  <2>1. Link(o, loops, locals, elseExpr, P, P)
    BY <1>1, <1>2, <1>6, LinkElseExpr
  <2>2. elseExpr.do # "define" /\ Awaits(elseExpr) = {p}
    BY DEF Awaits
  <2> HIDE DEF elseExpr
  <2> QED BY <1>3, <2>1, <2>2
<1> QED BY <1>4, <1>5, <1>6, <1>7 DEF W2

LEMMA StepThen == ASSUME NowWorking, Then PROVE NowWorking'
<1> DEFINE t == Tail(todo)
           it == todo[1]
           P == Now(out, loops, locals, depth, 0)
           e == EmitTest(out)
           p == Here(out)
           W2 == Jumps \cup {p}
<1>1. todo # << >> /\ Head(todo) = it /\ it.do = "then"
  BY Begin DEF Then, Doing, NowWorking
<1>2. Passes(it) /\ Awaits(it) = {}
  BY <1>1 DEF Passes, Awaits
<1>3. PICK Q \in Places : Behind(out, loops, locals, depth, it, t, Q)
  BY <1>1, Begin DEF NowWorking
<1>4. KnownOf(out) /\ out.height \in Nat /\ out.height >= 1
  BY Begin DEF NowWorking, KnownOf, Known
<1>5. Link(out, loops, locals, it, P, Q)
  <2>1. Place(out.height, Len(locals), depth, Len(loops)) = P
    BY <1>4 DEF Now
  <2> QED BY <1>3, <2>1 DEF Behind
<1>6. out.height >= 2
  <2>1. H(P) >= 2
    BY <1>1, <1>5 DEF Link, LinkIf
  <2>2. H(P) = out.height
    BY <1>4, NowAt
  <2> QED BY <2>1, <2>2
<1>7. /\ KnownOf(e) /\ CodeOK(e) /\ Grows(out, e) /\ e.height = out.height - 1
      /\ Patchable(e, p, out.height) /\ Unresolved(e) = Unresolved(out) \cup {p}
  <2>1. Low(locals, out.height - 1)
    BY <1>1, TestLow DEF Tests
  <2> QED BY <1>4, <1>6, <2>1, TestKeeps
<1>8. Unresolved(e) \ Broken(loops) \subseteq W2
  BY <1>7 DEF Jumps
<1>9. Jumps \ Awaits(it) = Jumps /\ IsSeq(t)
  BY <1>2, <1>3 DEF Behind
<1>10. out' = e
  BY DEF Then
<1>11. e.height \in Nat /\ e.height >= 1 /\ e.height + 0 = e.height /\ (e.height + 0) + 1 = out.height
       /\ e.height + 1 = out.height /\ e.height + 1 >= 1
  BY <1>4, <1>6, <1>7
<1>12. CASE it.branch = <<Stmt>> /\ it.other \in {<< >>, <<Stmt>>}
  <2> DEFINE other == it.other
             else == [do |-> "else", p |-> p, other |-> other]
             t1 == Cons(else, t)
             t2 == Cons(Stmt, t1)
  <2>1. Leaves(out, loops, locals, it, P, -1)
    <3>1. it.branch # <<Expr>> /\ it.branch # <<[do |-> "jump"], Op("constant")>>
      BY <1>12 DEF Stmt, Expr
    <3>2. ASSUME NEW R \in Places, Link(out, loops, locals, it, P, R) PROVE Keeps(P, R, -1)
      BY <1>1, <3>1, <3>2 DEF Link, LinkIf
    <3> QED BY <3>2 DEF Leaves
  <2>2. From(out, t, -1, Jumps)
    BY <1>1, <1>2, <1>9, <2>1, NextDrops
  <2>3. From(e, t, 0, Jumps)
    BY <1>4, <1>7, <1>11, <2>2, Plus0
  <2>4. From(e, t1, 0, W2)
    <3> DEFINE j == 0
    <3>1. j \in Int /\ From(e, t, j, Jumps) /\ e.height + j >= 1 /\ (e.height + j) + 1 = out.height
      BY <1>11, <2>3
    <3>3. other \in {<< >>, <<Stmt>>}
      BY <1>12
    <3> HIDE DEF j, e, p, t, other
    <3>2. From(e, t1, j, W2)
      BY <1>7, <3>1, <3>3, PutPatch
    <3> QED BY <3>2 DEF j
  <2>5. todo' = (<<Stmt>> \o <<else>>) \o t
    BY <1>1, <1>12 DEF Then, Do
  <2> HIDE DEF else, t, e, W2, other
  <2>6. todo' = t2
    BY <1>9, <2>5, Items11
  <2> HIDE DEF t1
  <2>7. From(e, t2, 0, W2)
    <3> DEFINE j == 0
    <3>1. j \in Int /\ From(e, t1, j, W2) /\ e.height + j >= 1 /\ (j >= 0 \/ j >= j)
      BY <1>11, <2>4
    <3> HIDE DEF j, p, P, it
    <3>2. From(e, t2, j, W2)
      BY <1>7, <3>1, Puts
    <3> QED BY <3>2 DEF j
  <2> HIDE DEF t2
  <2> QED BY <1>7, <1>8, <1>10, <2>6, <2>7, Onward DEF Then
<1>13. CASE /\ it.branch \in {<<Expr>>, <<[do |-> "jump"], Op("constant")>>}
            /\ it.other = <<Expr>>
  <2> DEFINE else == [do |-> "else", p |-> p, other |-> <<Expr>>]
             jump == [do |-> "jump"]
             constant == Op("constant")
             t1 == Cons(else, t)
  <2>1. Leaves(out, loops, locals, it, P, 0)
    <3>1. it.branch # <<Stmt>>
      BY <1>13 DEF Stmt, Expr
    <3>2. ASSUME NEW R \in Places, Link(out, loops, locals, it, P, R) PROVE Keeps(P, R, 0)
      BY <1>1, <3>1, <3>2 DEF Link, LinkIf
    <3> QED BY <3>2 DEF Leaves
  <2>2. From(out, t, 0, Jumps)
    BY <1>1, <1>2, <1>9, <2>1, NextKeeps
  <2>3. From(e, t, 1, Jumps)
    BY <1>4, <1>7, <1>11, <2>2, Plus1
  <2>4. From(e, t1, 1, W2)
    <3> DEFINE j == 1
    <3>1. j \in Int /\ From(e, t, j, Jumps) /\ e.height + j >= 1 /\ e.height + j = out.height /\ j >= 1
      BY <1>11, <2>3
    <3> HIDE DEF j, e, p, t
    <3>2. From(e, t1, j, W2)
      BY <1>6, <1>7, <3>1, PutPatch
    <3> QED BY <3>2 DEF j
  <2>5. todo' = (it.branch \o <<else>>) \o t
    BY <1>1, <1>13 DEF Then, Do
  <2>6. CASE it.branch = <<Expr>>
    <3> DEFINE t2 == Cons(Expr, t1)
    <3>1. todo' = (<<Expr>> \o <<else>>) \o t
      BY <2>5, <2>6
    <3> HIDE DEF else, t, e, W2
    <3>2. todo' = t2
      BY <1>9, <3>1, Items11
    <3> HIDE DEF t1
    <3>3. From(e, t2, 0, W2)
      BY <1>7, <1>11, <2>4, Puts
    <3> HIDE DEF t2
    <3> QED BY <1>7, <1>8, <1>10, <3>2, <3>3, Onward DEF Then
  <2>7. CASE it.branch = <<jump, constant>>
    <3> DEFINE t2 == Cons(constant, t1)
               t3 == Cons(jump, t2)
    <3>1. todo' = (<<jump, constant>> \o <<else>>) \o t
      BY <2>5, <2>7
    <3>2. From(e, t2, 0, W2)
      <4> HIDE DEF e, t1, W2
      <4> QED BY <1>7, <1>11, <2>4, Puts
    <3>3. From(e, t3, 0, W2)
      <4> DEFINE j == 0
      <4>1. j \in Int /\ From(e, t2, j, W2) /\ e.height + j >= 1 /\ (j >= 0 \/ j >= j)
        BY <1>11, <3>2
      <4> HIDE DEF e, t2, W2, j
      <4>2. From(e, t3, j, W2)
        BY <1>7, <4>1, Puts
      <4> QED BY <4>2 DEF j
    <3> HIDE DEF else, t, e, W2, jump, constant
    <3>4. todo' = t3
      BY <1>9, <3>1, Items21
    <3> HIDE DEF t3
    <3> QED BY <1>7, <1>8, <1>10, <3>3, <3>4, Onward DEF Then
  <2> QED BY <1>13, <2>6, <2>7
<1> QED
  <2>1. \/ it.branch = <<Stmt>> /\ it.other \in {<< >>, <<Stmt>>}
        \/ /\ it.branch \in {<<Expr>>, <<[do |-> "jump"], Op("constant")>>}
           /\ it.other = <<Expr>>
    BY <1>1, <1>5 DEF Link, LinkIf
  <2> QED BY <1>12, <1>13, <2>1

LEMMA GrowsTransitive ==
  ASSUME NEW o, CodeOK(o), NEW m, CodeOK(m), NEW e, CodeOK(e), Grows(o, m), Grows(m, e)
  PROVE  Grows(o, e)
<1>1. Len(o.code) \in Nat /\ Len(m.code) \in Nat /\ Len(e.code) \in Nat
  BY OutFacts
<1> QED BY <1>1 DEF Grows

LEMMA StepAndRight == ASSUME NowWorking, AndRight PROVE NowWorking'
<1> DEFINE t == Tail(todo)
           it == todo[1]
           P == Now(out, loops, locals, depth, 0)
           e == EmitTest(out)
           p == Here(out)
           W2 == Jumps \cup {p}
           patch == [do |-> "patch", p |-> p]
           t1 == Cons(patch, t)
           t2 == Cons(Expr, t1)
<1>1. todo # << >> /\ Head(todo) = it /\ it.do = "and"
  BY Begin DEF AndRight, Doing, NowWorking
<1>2. Passes(it) /\ Awaits(it) = {}
  BY <1>1 DEF Passes, Awaits
<1>3. Leaves(out, loops, locals, it, P, 0)
  BY <1>1 DEF Leaves, Link, LinkExpr
<1>4. /\ KnownOf(out) /\ IsSeq(t) /\ out.height \in Nat /\ out.height >= 1
      /\ From(out, t, 0, Jumps \ Awaits(it))
      /\ \E Q \in Places : Link(out, loops, locals, it, P, Q)
  BY <1>1, <1>2, <1>3, NextKeeps
<1>5. out.height >= 2
  <2>1. H(P) >= 2
    BY <1>1, <1>4 DEF Link, LinkExpr
  <2>2. H(P) = out.height
    BY <1>4, NowAt
  <2> QED BY <2>1, <2>2
<1>6. /\ KnownOf(e) /\ CodeOK(e) /\ Grows(out, e) /\ e.height = out.height - 1
      /\ Patchable(e, p, out.height) /\ Unresolved(e) = Unresolved(out) \cup {p}
  <2>1. Low(locals, out.height - 1)
    BY <1>1, TestLow DEF Tests
  <2> QED BY <1>4, <1>5, <2>1, TestKeeps
<1>7. Unresolved(e) \ Broken(loops) \subseteq W2
  BY <1>6 DEF Jumps
<1>8. Jumps \ Awaits(it) = Jumps
  BY <1>2
<1>9. out' = e
  BY DEF AndRight
<1>10. todo' = <<Expr, patch>> \o t
  BY <1>1 DEF AndRight, Do
<1>11. e.height \in Nat /\ e.height >= 1 /\ e.height + 1 = out.height /\ e.height + 1 >= 1
       /\ e.height + 0 >= 1
  BY <1>4, <1>5, <1>6
<1>12. From(e, t, 1, Jumps)
  BY <1>4, <1>6, <1>8, <1>11, Plus1
<1>13. From(e, t1, 1, W2)
  <2> DEFINE j == 1
  <2>1. j \in Int /\ From(e, t, j, Jumps) /\ e.height + j >= 1 /\ e.height + j = out.height
    BY <1>11, <1>12
  <2> HIDE DEF j, e, p, t
  <2>2. From(e, t1, j, W2)
    BY <1>6, <2>1, PutPatch
  <2> QED BY <2>2 DEF j
<1> HIDE DEF e, t, p, W2, patch, P, it
<1>14. todo' = t2
  BY <1>4, <1>10, Items2
<1> HIDE DEF t1
<1>15. From(e, t2, 0, W2)
  BY <1>6, <1>11, <1>13, Puts
<1> HIDE DEF t2
<1> QED BY <1>6, <1>7, <1>9, <1>14, <1>15, Onward DEF AndRight

LEMMA StepPatch == ASSUME NowWorking, Patch PROVE NowWorking'
<1> DEFINE t == Tail(todo)
           it == todo[1]
           P == Now(out, loops, locals, depth, 0)
           e == PatchJump(out, it.p)
           W2 == Jumps \ {it.p}
<1>1. todo # << >> /\ Head(todo) = it /\ it.do = "patch"
  BY Begin DEF Patch, Doing, NowWorking
<1>2. Passes(it) /\ Awaits(it) = {it.p}
  BY <1>1 DEF Passes, Awaits
<1>3. Leaves(out, loops, locals, it, P, 0)
  BY <1>1 DEF Leaves, Link, LinkIf
<1>4. /\ KnownOf(out) /\ IsSeq(t) /\ out.height \in Nat /\ out.height >= 1
      /\ From(out, t, 0, Jumps \ Awaits(it))
      /\ \E Q \in Places : Link(out, loops, locals, it, P, Q)
  BY <1>1, <1>2, <1>3, NextKeeps
<1>5. Patchable(out, it.p, out.height)
  <2>1. Patchable(out, it.p, H(P))
    BY <1>1, <1>4 DEF Link, LinkIf
  <2>2. H(P) = out.height
    BY <1>4, NowAt
  <2> QED BY <2>1, <2>2
<1>6. CodeOK(e) /\ Grows(out, e) /\ e.height = out.height /\ Unresolved(e) = Unresolved(out) \ {it.p}
  BY <1>4, <1>5, PatchKeeps DEF Known, KnownOf
<1>7. Unresolved(e) \ Broken(loops) \subseteq W2
  BY <1>6 DEF Jumps
<1>8. out' = e
  BY <1>1 DEF Patch
<1>9. todo' = t
  <2>1. todo' = << >> \o t
    BY DEF Patch, Do
  <2> HIDE DEF t
  <2> QED BY <1>4, <2>1, Items0
<1>10. From(out, t, 0, W2)
  BY <1>2, <1>4
<1> HIDE DEF e, t, W2, P, it
<1>11. e.height >= 1
  BY <1>4, <1>6
<1>12. KnownOf(e) /\ From(e, t, 0, W2)
  <2>1. Low(locals, e.height)
    BY <1>4, <1>6 DEF Known, KnownOf
  <2> QED BY <1>4, <1>6, <1>10, <1>11, <2>1, Plus0, KnownGrows DEF KnownOf
<1> QED BY <1>7, <1>8, <1>9, <1>12, Onward DEF Patch

(* The code of compileIf between its branches.                             *)
LEMMA ElseKeeps ==
  ASSUME NEW o, KnownOf(o), NEW p, NEW h, Patchable(o, p, h), h >= 2, Low(locals, h - 1)
  PROVE  LET e == Emit(PatchJump(Emit(o, "jump", 0), p), "pop", 0)
         IN  /\ KnownOf(e) /\ CodeOK(e) /\ Grows(o, e) /\ e.height = h - 1
             /\ Patchable(e, Here(o), o.height)
             /\ Unresolved(e) = (Unresolved(o) \cup {Here(o)}) \ {p}
<1> DEFINE n == Len(o.code)
           jump == "jump"
           pop == "pop"
           arg == 0
           m == PatchJump(Emit(o, jump, arg), p)
           e == Emit(m, pop, arg)
           U == (Unresolved(o) \cup {n + 1}) \ {p}
<1>1. CodeOK(o) /\ o.height \in Nat /\ n \in Nat
  BY OutFacts DEF Known, KnownOf
<1>0. h \in Nat
  BY <1>1, OutFacts DEF Patchable
<1>2. jump \in Awaiting /\ jump \in Ops /\ jump \in {"jump", "loop"} /\ MayEmit(o, jump, arg)
  <2>1. jump \in Awaiting /\ jump \in Ops /\ Effect(jump, arg) = 0 /\ jump \in {"jump", "loop"}
    BY JumpOps
  <2> HIDE DEF jump
  <2> QED BY <1>1, <2>1, MayJump
<1> HIDE DEF jump, arg
<1>3. /\ CodeOK(m) /\ Grows(o, m) /\ m.height = h /\ Len(m.code) = n + 1
      /\ m.code[n + 1].op = jump /\ m.code[n + 1].height = o.height
      /\ Unresolved(m) = U
  <2>1. /\ CodeOK(m) /\ Grows(o, m) /\ m.height = h /\ Len(m.code) = n + 1
        /\ m.code[n + 1].op = jump /\ m.code[n + 1].height = o.height
        /\ Unresolved(m) = (Unresolved(o) \cup (IF jump \in Awaiting THEN {n + 1} ELSE {})) \ {p}
    BY <1>1, <1>2, JumpOver
  <2>2. (IF jump \in Awaiting THEN {n + 1} ELSE {}) = {n + 1}
    BY <1>2
  <2> QED BY <2>1, <2>2
<1> HIDE DEF m, U
<1>4. Effect(pop, arg) = -1 /\ Simple(pop) /\ pop \notin Awaiting
  BY SimpleOps DEF Effect, Awaiting
<1>5. MayEmit(m, pop, arg)
  <2>1. arg \in Int \cup Slots
    BY DEF arg
  <2> HIDE DEF pop
  <2>2. m.height + Effect(pop, arg) \in Nat
    BY <1>0, <1>3, <1>4
  <2> QED BY <1>4, <2>1, <2>2, SimpleEmit
<1> HIDE DEF pop
<1>6. /\ CodeOK(e) /\ Grows(m, e) /\ e.height = m.height + Effect(pop, arg) /\ Len(e.code) = n + 2
      /\ Unresolved(e) = Unresolved(m)
  <2>1. /\ CodeOK(e) /\ Grows(m, e) /\ e.height = m.height + Effect(pop, arg)
        /\ Len(e.code) = Len(m.code) + 1
        /\ Unresolved(e) = Unresolved(m) \cup (IF pop \in Awaiting THEN {Len(m.code) + 1} ELSE {})
    BY <1>3, <1>5, EmitKeeps
  <2>2. (IF pop \in Awaiting THEN {Len(m.code) + 1} ELSE {}) = {}
    BY <1>4
  <2>3. Unresolved(e) = Unresolved(m)
    BY <2>1, <2>2
  <2> QED BY <1>1, <1>3, <2>1, <2>3
<1> HIDE DEF e
<1>7. e.height = h - 1 /\ e.height >= 1
  BY <1>0, <1>3, <1>4, <1>6
<1>8. Patchable(m, n + 1, o.height)
  BY <1>1, <1>2, <1>3 DEF Patchable
<1>9. Patchable(e, n + 1, o.height)
  BY <1>3, <1>6, <1>8, GrowsKeeps
<1>10. Grows(o, e)
  BY <1>1, <1>3, <1>6, GrowsTransitive
<1>11. KnownOf(e)
  BY <1>6, <1>7, KnownGrows DEF KnownOf
<1>12. Unresolved(e) = (Unresolved(o) \cup {Here(o)}) \ {p}
  BY <1>3, <1>6 DEF U, Here
<1>13. e = Emit(PatchJump(Emit(o, "jump", 0), p), "pop", 0)
  BY DEF e, m, pop, jump, arg
<1>14. Patchable(e, Here(o), o.height)
  BY <1>9 DEF Here
<1> QED BY <1>6, <1>7, <1>10, <1>11, <1>12, <1>13, <1>14

LEMMA StepElse == ASSUME NowWorking, Else PROVE NowWorking'
<1> DEFINE t == Tail(todo)
           it == todo[1]
           P == Now(out, loops, locals, depth, 0)
           e == Emit(PatchJump(Emit(out, "jump", 0), it.p), "pop", 0)
           p == Here(out)
           W1 == Jumps \ {it.p}
           W2 == W1 \cup {p}
           patch == [do |-> "patch", p |-> p]
           t1 == Cons(patch, t)
           t2 == Cons(Expr, t1)
<1>1. todo # << >> /\ Head(todo) = it /\ it.do = "else"
  BY Begin DEF Else, Doing, NowWorking
<1>2. Passes(it) /\ Awaits(it) = {it.p}
  BY <1>1 DEF Passes, Awaits
<1>3. Leaves(out, loops, locals, it, P, 0)
  BY <1>1 DEF Leaves, Link, LinkIf
<1>4. /\ KnownOf(out) /\ IsSeq(t) /\ out.height \in Nat /\ out.height >= 1
      /\ From(out, t, 0, Jumps \ Awaits(it))
      /\ \E Q \in Places : Link(out, loops, locals, it, P, Q)
  BY <1>1, <1>2, <1>3, NextKeeps
<1>5. \/ it.other \in {<< >>, <<Stmt>>} /\ Patchable(out, it.p, out.height + 1)
      \/ it.other = <<Expr>> /\ Patchable(out, it.p, out.height) /\ out.height >= 2
  <2>1. \/ it.other \in {<< >>, <<Stmt>>} /\ Patchable(out, it.p, H(P) + 1)
        \/ it.other = <<Expr>> /\ Patchable(out, it.p, H(P)) /\ H(P) >= 2
    BY <1>1, <1>4 DEF Link, LinkIf
  <2>2. H(P) = out.height
    BY <1>4, NowAt
  <2> QED BY <2>1, <2>2
<1>6. From(out, t, 0, W1)
  BY <1>2, <1>4
<1>7. out' = e
  BY <1>1 DEF Else
<1>8. todo' = (it.other \o <<patch>>) \o t
  BY <1>1 DEF Else, Do
<1>9. UNCHANGED <<locals, depth, loops>>
  BY DEF Else
<1>10. CASE it.other \in {<< >>, <<Stmt>>} /\ Patchable(out, it.p, out.height + 1)
  <2>1. /\ KnownOf(e) /\ CodeOK(e) /\ Grows(out, e) /\ e.height = out.height
        /\ Patchable(e, p, out.height) /\ Unresolved(e) = (Unresolved(out) \cup {p}) \ {it.p}
    <3>1. out.height + 1 >= 2 /\ (out.height + 1) - 1 = out.height /\ Low(locals, out.height)
      BY <1>4 DEF Known, KnownOf
    <3> QED BY <1>4, <1>10, <3>1, ElseKeeps
  <2>2. Unresolved(e) \ Broken(loops) \subseteq W2
    BY <2>1 DEF Jumps
  <2> HIDE DEF e, t, p, W1, W2, patch, P, it
  <2>3. From(e, t, 0, W1)
    BY <1>4, <1>6, <2>1, Plus0
  <2>4. From(e, t1, 0, W2)
    <3> DEFINE j == 0
    <3>1. j \in Int /\ From(e, t, j, W1) /\ e.height + j >= 1 /\ e.height + j = out.height
      BY <1>4, <2>1, <2>3
    <3> HIDE DEF j
    <3>2. From(e, Cons([do |-> "patch", p |-> p], t), j, W1 \cup {p})
      BY <2>1, <3>1, PutPatch
    <3> QED BY <3>2 DEF j, W2, patch
  <2>5. CASE it.other = << >>
    <3>1. todo' = t1
      BY <1>4, <1>8, <2>5, Items01
    <3> HIDE DEF t1
    <3> QED BY <1>7, <1>9, <2>1, <2>2, <2>4, <3>1, Onward
  <2>6. CASE it.other = <<Stmt>>
    <3> DEFINE t3 == Cons(Stmt, t1)
    <3>1. todo' = t3
      BY <1>4, <1>8, <2>6, Items11
    <3> HIDE DEF t1
    <3>2. From(e, t3, 0, W2)
      <4> DEFINE j == 0
      <4>1. j \in Int /\ From(e, t1, j, W2) /\ e.height + j >= 1 /\ (j >= 0 \/ j >= j)
        BY <1>4, <2>1, <2>4
      <4> HIDE DEF j
      <4>2. From(e, t3, j, W2)
        BY <2>1, <4>1, Puts
      <4> QED BY <4>2 DEF j
    <3> HIDE DEF t3
    <3> QED BY <1>7, <1>9, <2>1, <2>2, <3>1, <3>2, Onward
  <2> QED BY <1>10, <2>5, <2>6
<1>11. CASE it.other = <<Expr>> /\ Patchable(out, it.p, out.height) /\ out.height >= 2
  <2>1. /\ KnownOf(e) /\ CodeOK(e) /\ Grows(out, e) /\ e.height = out.height - 1
        /\ Patchable(e, p, out.height) /\ Unresolved(e) = (Unresolved(out) \cup {p}) \ {it.p}
    <3>1. Low(locals, out.height - 1)
      BY <1>1, <1>11, TestLow DEF Tests
    <3> QED BY <1>4, <1>11, <3>1, ElseKeeps
  <2>2. Unresolved(e) \ Broken(loops) \subseteq W2
    BY <2>1 DEF Jumps
  <2>3. e.height >= 1 /\ e.height + 1 >= 1 /\ e.height + 1 = out.height /\ e.height + 0 >= 1
    BY <1>4, <1>11, <2>1
  <2> HIDE DEF e, t, p, W1, W2, patch, P, it
  <2>4. From(e, t, 1, W1)
    BY <1>4, <1>6, <2>1, <2>3, Plus1
  <2>5. From(e, t1, 1, W2)
    <3> DEFINE j == 1
    <3>1. j \in Int /\ From(e, t, j, W1) /\ e.height + j >= 1 /\ e.height + j = out.height
      BY <2>3, <2>4
    <3> HIDE DEF j
    <3>2. From(e, Cons([do |-> "patch", p |-> p], t), j, W1 \cup {p})
      BY <2>1, <3>1, PutPatch
    <3> QED BY <3>2 DEF j, W2, patch
  <2>6. todo' = t2
    BY <1>4, <1>8, <1>11, Items11
  <2> HIDE DEF t1
  <2>7. From(e, t2, 0, W2)
    BY <2>1, <2>3, <2>5, Puts
  <2> HIDE DEF t2
  <2> QED BY <1>7, <1>9, <2>1, <2>2, <2>6, <2>7, Onward
<1> QED BY <1>5, <1>10, <1>11

(* A scope one deeper, open to declarations.                               *)
Opened(o, k) == [Now(o, loops, locals, depth, k) EXCEPT !.d = depth + 1, !.x = 0]
FromOpened(o, t, k) ==
  PlanFrom(o, loops, locals, t, Opened(o, k), Undefined(locals), 1..Len(loops), Jumps)

LEMMA OpenedFields ==
  ASSUME NEW o, KnownOf(o), NEW k \in Int, o.height + k >= 1
  PROVE  LET R == Opened(o, k)
             P == Now(o, loops, locals, depth, k)
         IN  /\ R \in Places /\ R.e = (o.height + k) - Len(locals) /\ R.n = Len(locals)
             /\ R.d = depth + 1 /\ R.l = Len(loops) /\ R.x = 0 /\ R.e + R.n >= 1
             /\ P \in Places /\ P.e = R.e /\ P.n = R.n /\ P.d = depth /\ P.l = R.l /\ P.x = 1
<1> DEFINE P == Now(o, loops, locals, depth, k)
           R == Opened(o, k)
<1>1. o.height \in Nat /\ Len(locals) \in Nat /\ Len(loops) \in Nat /\ depth \in Nat
  BY DEF Known, KnownOf
<1>2. o.height + k \in Nat
  BY <1>1
<1>3. /\ P \in Places /\ P.e = (o.height + k) - Len(locals) /\ P.n = Len(locals) /\ P.d = depth
      /\ P.l = Len(loops) /\ P.x = 1
  BY <1>2, NowFields DEF KnownOf
<1> HIDE DEF P
<1>4. R = [P EXCEPT !.d = depth + 1, !.x = 0]
  BY DEF Opened, P
<1> HIDE DEF R
<1>5. /\ R \in Places /\ R.e = P.e /\ R.n = P.n /\ R.d = depth + 1 /\ R.l = P.l /\ R.x = 0
  <2> DEFINE d == depth + 1
  <2>1. d \in Nat /\ R = [P EXCEPT !.d = d, !.x = 0]
    BY <1>1, <1>4
  <2> HIDE DEF d
  <2>2. /\ R \in Places /\ R.e = P.e /\ R.n = P.n /\ R.d = d /\ R.l = P.l /\ R.x = 0
    BY <1>3, <2>1 DEF Places
  <2> QED BY <2>2 DEF d
<1>6. R.e + R.n >= 1
  BY <1>1, <1>2, <1>3, <1>5
<1> QED BY <1>3, <1>5, <1>6 DEF P, R

LEMMA OpenedSlots ==
  ASSUME NEW o, KnownOf(o), NEW k \in Int, o.height + k >= 1, k >= 0
  PROVE  HasSlots(locals, Opened(o, k).e, Opened(o, k).n, Opened(o, k).d)
<1> DEFINE R == Opened(o, k)
<1>1. R.e = (o.height + k) - Len(locals) /\ R.n = Len(locals)
  BY OpenedFields
<1>2. o.height \in Nat /\ Len(locals) \in Nat
  BY DEF Known, KnownOf
<1> HIDE DEF R
<1>3. R.e + R.n = o.height + k
  BY <1>1, <1>2
<1>4. Low(locals, R.e + R.n)
  BY <1>3, LowAt
<1> QED BY <1>4, LowHas DEF R

(* The item that closes the scope.                                         *)
LEMMA PutClose ==
  ASSUME NEW o, KnownOf(o), NEW t, NEW k \in Int, o.height + k >= 1, k >= 0, From(o, t, k, Jumps)
  PROVE  /\ FromOpened(o, Cons([do |-> "end scope"], t), k)
         /\ k >= 1 => FromOpened(o, Cons([do |-> "close block"], t), k)
<1> DEFINE P == Now(o, loops, locals, depth, k)
           R == Opened(o, k)
           U == Undefined(locals)
           E == 1..Len(loops)
<1>1. /\ R \in Places /\ R.n = Len(locals) /\ R.d = depth + 1 /\ R.l = Len(loops) /\ R.x = 0
      /\ R.e + R.n >= 1
      /\ P \in Places /\ P.e = R.e /\ P.n = R.n /\ P.d = depth /\ P.l = R.l /\ P.x = 1
  BY OpenedFields
<1>9. HasSlots(locals, R.e, R.n, R.d) /\ (k >= 1 => HasSlots(locals, P.e - 1, P.n, P.d))
  <2>1. k >= 1 => Under(locals, P)
    BY UnderNow
  <2>2. HasSlots(locals, R.e, R.n, R.d)
    BY OpenedSlots
  <2> QED BY <2>1, <2>2 DEF Under
<1> HIDE DEF P, R
<1>2. Closes(R, P, 0)
  BY <1>1 DEF Closes, Places
<1>3. P.n <= R.n /\ P.d <= R.d /\ P.l <= R.l /\ P.d < R.d
  BY <1>1 DEF Places
<1>4. PlanFrom(o, loops, locals, t, P, U, E, Jumps)
  BY DEF From, P
<1> HIDE DEF U, E
<1>5. ASSUME NEW it, it.do # "define", Link(o, loops, locals, it, R, P)
      PROVE  PlanFrom(o, loops, locals, Cons(it, t), R, U, E, Jumps)
  <2>1. Added(it, R, U, E, Jumps, U, E, Jumps)
    BY DEF Added
  <2>2. P.d # R.d
    BY <1>1, <1>3 DEF Places
  <2> QED BY <1>1, <1>3, <1>4, <1>5, <1>9, <2>1, <2>2, PushOpen
<1> DEFINE a == [do |-> "end scope"]
           b == [do |-> "close block"]
<1>6. /\ a.do # "define" /\ b.do # "define" /\ Link(o, loops, locals, a, R, P)
      /\ k >= 1 => Link(o, loops, locals, b, R, P)
  BY <1>2, <1>9, Links
<1> HIDE DEF a, b
<1>7. PlanFrom(o, loops, locals, Cons(a, t), R, U, E, Jumps)
  BY <1>5, <1>6
<1>8. k >= 1 => PlanFrom(o, loops, locals, Cons(b, t), R, U, E, Jumps)
  BY <1>5, <1>6
<1> QED BY <1>7, <1>8 DEF FromOpened, a, b, R, U, E

(* The value in the scope.                                                 *)
LEMMA PutInside ==
  ASSUME NEW o, KnownOf(o), NEW t, NEW k \in Int, o.height + k >= 1, k >= 0, FromOpened(o, t, k)
  PROVE  /\ FromOpened(o, Cons([do |-> "block value"], t), k)
         /\ o.height + (k - 1) >= 1 /\ k >= 1 => FromOpened(o, Cons(Expr, t), k - 1)
<1> DEFINE j == k - 1
           R == Opened(o, k)
           S == Opened(o, j)
           U == Undefined(locals)
           E == 1..Len(loops)
           value == [do |-> "block value"]
<1>1. /\ R \in Places /\ R.n = Len(locals) /\ R.d = depth + 1 /\ R.l = Len(loops) /\ R.x = 0
      /\ R.e + R.n >= 1 /\ R.e = (o.height + k) - Len(locals)
  BY OpenedFields
<1>2. /\ o.height + j >= 1
      => /\ S \in Places /\ S.n = Len(locals) /\ S.d = depth + 1 /\ S.l = Len(loops) /\ S.x = 0
         /\ S.e + S.n >= 1 /\ S.e = (o.height + j) - Len(locals)
  <2>1. j \in Int
    OBVIOUS
  <2> HIDE DEF j
  <2> QED BY <2>1, OpenedFields
<1>3. PlanFrom(o, loops, locals, t, R, U, E, Jumps)
  BY DEF FromOpened
<1>4. o.height \in Nat /\ Len(locals) \in Nat
  BY DEF Known, KnownOf
<1>7. HasSlots(locals, R.e, R.n, R.d)
  BY OpenedSlots
<1>8. o.height + j >= 1 /\ j >= 0 => HasSlots(locals, S.e, S.n, S.d)
  <2>1. j \in Int
    OBVIOUS
  <2> HIDE DEF j
  <2> QED BY <2>1, OpenedSlots
<1> HIDE DEF U, E, R, S
<1>5. PlanFrom(o, loops, locals, Cons(value, t), R, U, E, Jumps)
  <2>1. Keeps(R, R, 0)
    BY <1>1 DEF Keeps, Places
  <2>2. Link(o, loops, locals, value, R, R) /\ value.do # "define"
    BY <2>1, Links
  <2> HIDE DEF value
  <2>3. Added(value, R, U, E, Jumps, U, E, Jumps)
    BY DEF Added
  <2>4. R.n <= R.n /\ R.d <= R.d /\ R.l <= R.l /\ ~ (R.x = 1)
    BY <1>1 DEF Places
  <2>5. R.e >= R.e
    BY <1>1 DEF Places
  <2> QED BY <1>1, <1>3, <1>7, <2>2, <2>3, <2>4, <2>5, PushOpen
<1>6. ASSUME o.height + j >= 1, j >= 0 PROVE PlanFrom(o, loops, locals, Cons(Expr, t), S, U, E, Jumps)
  <2>1. R.e = S.e + 1
    <3>1. R.e = (o.height + k) - Len(locals)
      BY <1>1
    <3>2. S.e = (o.height + j) - Len(locals)
      BY <1>2, <1>6
    <3> QED BY <1>4, <3>1, <3>2
  <2>2. Keeps(S, R, 1)
    BY <1>1, <1>2, <1>6, <2>1 DEF Keeps, Places
  <2>3. Link(o, loops, locals, Expr, S, R)
    BY <2>2, Links
  <2>4. Expr.do # "define"
    BY DEF Expr
  <2>5. Added(Expr, S, U, E, Jumps, U, E, Jumps)
    BY DEF Added
  <2>6. R.n <= S.n /\ R.d <= S.d /\ R.l <= S.l /\ ~ (R.x = 1)
    BY <1>1, <1>2, <1>6 DEF Places
  <2>7. R.e >= S.e
    BY <1>2, <1>6, <2>1 DEF Places
  <2> HIDE DEF j
  <2> QED BY <1>2, <1>3, <1>6, <1>8, <2>3, <2>4, <2>5, <2>6, <2>7, PushOpen
<1>9. k >= 1 => j >= 0
  OBVIOUS
<1> QED BY <1>5, <1>6, <1>9 DEF FromOpened, R, S, U, E

LEMMA EnterScope ==
  ASSUME KnownOf(out), NEW t, FromOpened(out, t, 0), NEW u, u = Cons([do |-> "stmts"], t),
         todo' = u, depth' = depth + 1, UNCHANGED <<out, locals, loops>>
  PROVE  NowWorking'
<1> DEFINE U == Undefined(locals)
           E == 1..Len(loops)
           R == Opened(out, 0)
           d == depth + 1
           P == Place(out.height, Len(locals), d, Len(loops))
           it == [do |-> "stmts"]
<1>1. /\ out.height \in Nat /\ out.height >= 1 /\ Len(locals) \in Nat /\ Len(loops) \in Nat
      /\ depth \in Nat /\ d \in Nat /\ locals \in Seq(Slots)
      /\ \A i \in 1..Len(locals) : locals[i].depth <= depth /\ locals[i].depth \in Int
  BY DEF Known, KnownOf
<1>2. \A i \in 1..Len(locals) : locals[i].depth <= d
  BY <1>1
<1>3. Known(out, loops, locals, d)
  BY <1>1, <1>2 DEF KnownOf, Known
<1>4. /\ R \in Places /\ R.e = (out.height + 0) - Len(locals) /\ R.n = Len(locals)
      /\ R.d = d /\ R.l = Len(loops) /\ R.x = 0
  <2> DEFINE k == 0
  <2>1. k \in Int /\ out.height + k >= 1
    BY <1>1
  <2> HIDE DEF k
  <2>2. /\ Opened(out, k) \in Places /\ Opened(out, k).e = (out.height + k) - Len(locals)
        /\ Opened(out, k).n = Len(locals) /\ Opened(out, k).d = d
        /\ Opened(out, k).l = Len(loops) /\ Opened(out, k).x = 0
    BY <2>1, OpenedFields
  <2> QED BY <2>2 DEF k
<1> HIDE DEF d
<1>5. P \in Places /\ P.e = out.height - Len(locals) /\ P.n = Len(locals) /\ P.d = d /\ P.l = Len(loops) /\ P.x = 1
  <2>1. out.height \in Nat /\ Len(locals) \in Nat /\ Len(loops) \in Nat /\ d \in Nat
    BY <1>1
  <2> QED BY <2>1 DEF Place, Places
<1>6. PlanFrom(out, loops, locals, t, R, U, E, Jumps)
  BY DEF FromOpened
<1>7. P = Place(out.height, Len(locals), d, Len(loops))
  OBVIOUS
<1> HIDE DEF U, E, R, P
<1>8. Keeps(P, R, 0)
  BY <1>1, <1>4, <1>5 DEF Keeps
<1>9. Link(out, loops, locals, it, P, R) /\ it.do # "define"
  BY <1>4, <1>8, Links
<1>10. Added(it, P, U, E, Jumps, U, E, Jumps)
  BY DEF Added
<1>15. Low(locals, out.height)
  BY DEF Known, KnownOf
<1>11. R.n <= Len(locals) /\ R.d <= d /\ R.l <= Len(loops) /\ out.height \in Int
  BY <1>1, <1>4
<1>12. u = Cons(it, t)
  OBVIOUS
<1> HIDE DEF it
<1>13. PlanFrom(out, loops, locals, u, P, U, E, Jumps)
  BY <1>1, <1>2, <1>6, <1>7, <1>9, <1>10, <1>11, <1>12, <1>15, Push
<1>14. Working(out, loops, locals, d, u)
  BY <1>3, <1>7, <1>13, Placed DEF U, E, Jumps
<1> QED BY <1>14 DEF NowWorking, d

LEMMA StepBlock == ASSUME NowWorking, Block PROVE NowWorking'
<1> DEFINE t == Tail(todo)
           t1 == Cons(TheCheck, t)
           close == [do |-> "end scope"]
           t2 == Cons(close, t1)
           value == [do |-> "block value"]
           t3 == Cons(value, t2)
           stmts == [do |-> "stmts"]
           t4 == Cons(stmts, t3)
<1>1. Stating
  BY DEF Block
<1>2. /\ KnownOf(out) /\ IsSeq(t) /\ out.height \in Nat /\ out.height >= 1
      /\ From(out, t1, 0, Jumps)
  BY <1>1, StatementCheck
<1>3. todo' = (<<stmts, value, close>> \o <<TheCheck>>) \o t
  BY DEF Block, Do, Checked, TheCheck
<1>4. todo' = t4
  <2> HIDE DEF t, stmts, value, close
  <2> QED BY <1>2, <1>3, Items31
<1> HIDE DEF t1
<1>5. FromOpened(out, t3, 0)
  <2> DEFINE k == 0
  <2>1. k \in Int /\ out.height + k >= 1 /\ k >= 0 /\ From(out, t1, k, Jumps)
    BY <1>2
  <2> HIDE DEF k
  <2>2. FromOpened(out, t2, k)
    BY <1>2, <2>1, PutClose
  <2> HIDE DEF t2
  <2>3. FromOpened(out, t3, k)
    BY <1>2, <2>1, <2>2, PutInside
  <2> QED BY <2>3 DEF k
<1> HIDE DEF t3
<1> QED BY <1>2, <1>4, <1>5, EnterScope DEF Block

LEMMA StepBlockExpr == ASSUME NowWorking, BlockExpr PROVE NowWorking'
<1> DEFINE t == Tail(todo)
           close == [do |-> "close block"]
           t1 == Cons(close, t)
           t2 == Cons(Expr, t1)
           stmts == [do |-> "stmts"]
           t3 == Cons(stmts, t2)
<1>1. /\ KnownOf(out) /\ IsSeq(t) /\ out.height \in Nat /\ out.height >= 1
      /\ From(out, t, 1, Jumps)
  BY NextExpr DEF BlockExpr
<1>2. todo' = <<stmts, Expr, close>> \o t
  BY DEF BlockExpr, Do
<1>3. todo' = t3
  <2> HIDE DEF t, stmts, close
  <2> QED BY <1>1, <1>2, Items3
<1> HIDE DEF t
<1>4. FromOpened(out, t2, 0)
  <2> DEFINE k == 1
  <2>1. /\ k \in Int /\ out.height + k >= 1 /\ k >= 0 /\ k >= 1 /\ From(out, t, k, Jumps)
        /\ k - 1 = 0 /\ out.height + (k - 1) >= 1
    BY <1>1
  <2> HIDE DEF k
  <2>2. FromOpened(out, t1, k)
    BY <1>1, <2>1, PutClose
  <2> HIDE DEF t1
  <2>3. FromOpened(out, t2, k - 1)
    BY <1>1, <2>1, <2>2, PutInside
  <2> QED BY <2>1, <2>3
<1> HIDE DEF t2
<1> QED BY <1>1, <1>3, <1>4, EnterScope DEF BlockExpr

(* The locals of a scope are those on top that are not its outer scope's.  *)
LEMMA ScopeLocals ==
  ASSUME locals \in Seq(Slots), NEW Q \in Places, Q.x = 1, Q.n <= Len(locals), Fits(locals, Q),
         \A i \in Undefined(locals) : i <= Q.n
  PROVE  /\ Cardinality(Leaving(Q.d)) = Len(locals) - Q.n
         /\ PopsToDepth(Q.d) \in Seq(PopOps) /\ Len(PopsToDepth(Q.d)) = Len(locals) - Q.n
         /\ Keep(Q.d) \in Seq(Slots) /\ Len(Keep(Q.d)) = Q.n
         /\ \A i \in 1..Q.n : Keep(Q.d)[i] = locals[i] /\ locals[i].depth <= Q.d
         /\ Undefined(Keep(Q.d)) = Undefined(locals)
<1> DEFINE b == Q.n
           target == Q.d
<1>1. b \in Nat /\ target \in Int /\ Len(locals) \in Nat /\ b <= Len(locals)
  BY DEF Places
<1>2. \A i \in 1..Len(locals) : /\ i <= b => locals[i].depth <= target
                                /\ i > b => locals[i].depth > target
  <2> SUFFICES ASSUME NEW i \in 1..Len(locals)
               PROVE  /\ i <= b => locals[i].depth <= target
                      /\ i > b => locals[i].depth > target
    OBVIOUS
  <2>1. /\ i <= Q.n => locals[i].depth <= Q.d
        /\ i > Q.n => locals[i].depth = UNINITIALIZED \/ locals[i].depth > Q.d
    BY DEF Fits
  <2>2. i > Q.n => ~ (locals[i].depth = UNINITIALIZED)
    BY <1>1 DEF Undefined
  <2> QED BY <2>1, <2>2
<1>3. b > 0 => locals[b].depth <= target
  BY <1>1, <1>2
<1>4. \A i \in b + 1..Len(locals) : locals[i].depth > target
  BY <1>1, <1>2
<1> HIDE DEF b, target
<1>5. /\ Cardinality(Leaving(target)) = Len(locals) - b
      /\ PopsToDepth(target) \in Seq(PopOps) /\ Len(PopsToDepth(target)) = Len(locals) - b
      /\ Keep(target) \in Seq(Slots) /\ Len(Keep(target)) = b
      /\ \A i \in 1..b : Keep(target)[i] = locals[i]
  BY <1>1, <1>3, <1>4, LeavingLocals
<1>6. Undefined(Keep(target)) = Undefined(locals)
  <2>1. \A i \in Undefined(locals) : i \in 1..b
    BY <1>1 DEF Undefined, b
  <2> DEFINE K == Keep(target)
  <2>2. Len(K) = b /\ \A i \in 1..b : K[i] = locals[i]
    BY <1>5
  <2> HIDE DEF K
  <2>3. Undefined(K) = Undefined(locals)
    BY <1>1, <2>1, <2>2 DEF Undefined
  <2> QED BY <2>3 DEF K
<1>7. \A i \in 1..b : locals[i].depth <= target
  BY <1>1, <1>2
<1> QED BY <1>5, <1>6, <1>7 DEF b, target

(* What remains when the scope is closed.                                  *)
LEMMA CloseScope ==
  ASSUME locals \in Seq(Slots), NEW e, CodeOK(e), NEW ls \in Seq(Loops), NEW Q \in Places, Q.x = 1,
         Q.n <= Len(locals), Q.l = Len(ls), Fits(locals, Q),
         \A i \in Undefined(locals) : i <= Q.n, e.height = Q.e + Q.n,
         NEW t, NEW W, PlanFrom(e, ls, locals, t, Q, Undefined(locals), 1..Len(ls), W),
         Unresolved(e) \ Broken(ls) \subseteq W
  PROVE  Working(e, ls, Keep(Q.d), Q.d, t)
<1> DEFINE K == Keep(Q.d)
           d == Q.d
<1>1. /\ K \in Seq(Slots) /\ Len(K) = Q.n /\ Undefined(K) = Undefined(locals)
      /\ \A i \in 1..Q.n : K[i] = locals[i] /\ locals[i].depth <= d
  BY ScopeLocals
<1> HIDE DEF K
<1>2. Q.n \in Nat /\ Q.e \in Int /\ d \in Nat /\ Len(locals) \in Nat /\ Len(ls) \in Nat /\ Q.e + Q.n >= 1
  BY DEF Places, Fits
<1> HIDE DEF d
<1>3. PlanFrom(e, ls, K, t, Q, Undefined(K), 1..Len(ls), W)
  <2>1. \A i \in 1..Q.n : K[i] = locals[i]
    BY <1>1
  <2>2. \A i \in 1..Len(locals) : locals[i].depth \in Int
    <3>1. \A i \in 1..Len(locals) : locals[i] \in Slots
      OBVIOUS
    <3> QED BY <3>1 DEF Slots
  <2> QED BY <1>1, <1>2, <2>1, <2>2, FromPrefix
<1>4. Known(e, ls, K, d)
  <2>1. \A i \in 1..Len(K) : K[i].depth <= d /\ K[i].depth \in Int
    <3> SUFFICES ASSUME NEW i \in 1..Len(K) PROVE K[i].depth <= d /\ K[i].depth \in Int
      OBVIOUS
    <3>1. K[i] = locals[i] /\ locals[i].depth <= d
      BY <1>1
    <3>2. K[i] \in Slots
      BY <1>1
    <3> QED BY <3>1, <3>2 DEF Slots
  <2>2. e.height \in Nat /\ e.height >= 1
    BY <1>2, OutFacts
  <2>3. Low(K, e.height)
    <3>1. HasSlots(K, Q.e, Q.n, d)
      BY <1>3, PlanFits DEF Fits, d
    <3>2. d \in Nat /\ Q.e \in Int /\ Q.n \in Nat /\ Q.n <= Len(K)
      BY <1>1, <1>2, PlaceNumbers DEF d
    <3>3. Low(K, Q.e + Len(K))
      BY <1>1, <2>1, <3>1, <3>2, LowFits
    <3> QED BY <1>1, <3>3
  <2> QED BY <1>1, <1>2, <2>1, <2>2, <2>3 DEF Known
<1>5. Q.e = e.height - Len(K) /\ Q.d = d /\ Q.n <= Len(K)
  BY <1>1, <1>2 DEF d
<1> QED BY <1>1, <1>3, <1>4, <1>5, Done DEF K, d

(* An item that closes a scope.                                            *)
ClosesScope(it) == it.do \in {"end scope", "close block"}

LEMMA NextCloses ==
  ASSUME NowWorking, todo # << >>, ClosesScope(todo[1])
  PROVE  /\ KnownOf(out) /\ IsSeq(Tail(todo)) /\ Head(todo) = todo[1]
         /\ \E Q \in Places :
              /\ PlanFrom(out, loops, locals, Tail(todo), Q, Undefined(locals), 1..Len(loops), Jumps)
              /\ Q.e = out.height - Len(locals) /\ depth = Q.d + 1 /\ depth - 1 = Q.d
              /\ Q.l = Len(loops) /\ Q.n <= Len(locals) /\ Q.x = 1 /\ Fits(locals, Q)
              /\ \A i \in Undefined(locals) : i <= Q.n
<1> DEFINE it == todo[1]
           t == Tail(todo)
           P == Place(out.height, Len(locals), depth, Len(loops))
<1>1. KnownOf(out) /\ Head(todo) = it /\ \E Q \in Places : Behind(out, loops, locals, depth, it, t, Q)
  BY Begin DEF NowWorking, KnownOf
<1>2. PICK Q \in Places : Behind(out, loops, locals, depth, it, t, Q)
  BY <1>1
<1>3. Awaits(it) = {} /\ it.do # "define" /\ it.do # "end loop"
  BY DEF Awaits, ClosesScope
<1>4. P.e = out.height - Len(locals) /\ P.n = Len(locals) /\ P.d = depth /\ P.l = Len(loops)
  BY DEF Place
<1>5. /\ IsSeq(t) /\ PlanFrom(out, loops, locals, t, Q, Undefined(locals), 1..Len(loops), Jumps \ Awaits(it))
      /\ Link(out, loops, locals, it, P, Q) /\ Fits(locals, Q) /\ \A i \in Undefined(locals) : i <= Q.n
  BY <1>2, <1>3 DEF Behind, StillUndefined, StillOpen, Jumps
<1>6. Closes(P, Q, 0)
  BY <1>5 DEF Link, LinkExpr, ClosesScope
<1> HIDE DEF P
<1>7. /\ Q.e = out.height - Len(locals) /\ depth = Q.d + 1 /\ Q.l = Len(loops) /\ Q.n <= Len(locals) /\ Q.x = 1
  <2>1. out.height \in Nat /\ Len(locals) \in Nat
    BY <1>1 DEF Known, KnownOf
  <2> QED BY <1>4, <1>6, <2>1 DEF Closes
<1>8. depth - 1 = Q.d
  BY <1>7 DEF Places
<1>9. Jumps \ Awaits(it) = Jumps
  BY <1>3
<1> QED BY <1>1, <1>5, <1>7, <1>8, <1>9

LEMMA StepEndScope == ASSUME NowWorking, EndScope PROVE NowWorking'
<1> DEFINE t == Tail(todo)
<1>1. todo # << >> /\ Head(todo) = todo[1] /\ ClosesScope(todo[1])
  BY Begin DEF EndScope, Doing, NowWorking, ClosesScope
<1>2. /\ KnownOf(out) /\ IsSeq(t)
      /\ \E Q \in Places :
              /\ PlanFrom(out, loops, locals, t, Q, Undefined(locals), 1..Len(loops), Jumps)
              /\ Q.e = out.height - Len(locals) /\ depth = Q.d + 1 /\ depth - 1 = Q.d
              /\ Q.l = Len(loops) /\ Q.n <= Len(locals) /\ Q.x = 1 /\ Fits(locals, Q)
              /\ \A i \in Undefined(locals) : i <= Q.n
  BY <1>1, NextCloses
<1>3. PICK Q \in Places :
              /\ PlanFrom(out, loops, locals, t, Q, Undefined(locals), 1..Len(loops), Jumps)
              /\ Q.e = out.height - Len(locals) /\ depth = Q.d + 1 /\ depth - 1 = Q.d
              /\ Q.l = Len(loops) /\ Q.n <= Len(locals) /\ Q.x = 1 /\ Fits(locals, Q)
              /\ \A i \in Undefined(locals) : i <= Q.n
  BY <1>2
<1> DEFINE pops == PopsToDepth(Q.d)
           e == EmitPops(out, pops)
<1>4. todo' = t
  <2>1. todo' = << >> \o t
    BY DEF EndScope, Do
  <2> HIDE DEF t
  <2> QED BY <1>2, <2>1, Items0
<1>5. out' = e /\ locals' = Keep(Q.d) /\ depth' = Q.d /\ loops' = loops
  BY <1>3 DEF EndScope
<1>6. CodeOK(out) /\ locals \in Seq(Slots) /\ loops \in Seq(Loops) /\ out.height \in Nat /\ Len(locals) \in Nat
  BY <1>2 DEF Known, KnownOf
<1>7. pops \in Seq(PopOps) /\ Len(pops) = Len(locals) - Q.n
  BY <1>3, <1>6, ScopeLocals
<1> HIDE DEF pops, t
<1>8. out.height - Len(pops) = Q.e + Q.n /\ Q.e + Q.n \in Nat
  <2>1. Q.e \in Int /\ Q.n \in Nat
    BY DEF Places
  <2>2. Q.e + Q.n >= 1
    BY <1>3 DEF Fits
  <2> QED BY SMTT(30), <1>3, <1>6, <1>7, <2>1, <2>2
<1>9. CodeOK(e) /\ Grows(out, e) /\ e.height = Q.e + Q.n /\ Unresolved(e) = Unresolved(out)
  BY <1>6, <1>7, <1>8, PopsKeep
<1> HIDE DEF e
<1>10. PlanFrom(e, loops, locals, t, Q, Undefined(locals), 1..Len(loops), Jumps)
  BY <1>3, <1>6, <1>9, FromGrow
<1>11. Working(e, loops, Keep(Q.d), Q.d, t)
  BY <1>3, <1>6, <1>9, <1>10, CloseScope DEF Jumps
<1> QED BY <1>4, <1>5, <1>11 DEF NowWorking

CloseOp == "close block"
LEMMA CloseOps ==
  ASSUME NEW o, o.height \in Nat, NEW n \in Nat, o.height > n
  PROVE  MayEmit(o, CloseOp, n) /\ CloseOp \notin Awaiting /\ Effect(CloseOp, n) = -n
<1>1. Effect(CloseOp, n) = -n
  BY DEF CloseOp, Effect
<1>2. CloseOp \notin Awaiting /\ CloseOp # "loop" /\ CloseOp \in Ops
  BY DEF CloseOp, Ops, Awaiting
<1> HIDE DEF CloseOp
<1>3. o.height + Effect(CloseOp, n) \in Nat
  BY <1>1
<1>4. n \in Int \cup Slots
  OBVIOUS
<1>5. n \in Nat /\ o.height > n
  OBVIOUS
<1>6. MayEmit(o, CloseOp, n)
  BY <1>2, <1>3, <1>4, <1>5, Zenon DEF MayEmit
<1> QED BY <1>1, <1>2, <1>6

LEMMA StepCloseBlockExpr == ASSUME NowWorking, CloseBlockExpr PROVE NowWorking'
<1> DEFINE t == Tail(todo)
<1>1. todo # << >> /\ Head(todo) = todo[1] /\ ClosesScope(todo[1])
  BY Begin DEF CloseBlockExpr, Doing, NowWorking, ClosesScope
<1>2. /\ KnownOf(out) /\ IsSeq(t)
      /\ \E Q \in Places :
              /\ PlanFrom(out, loops, locals, t, Q, Undefined(locals), 1..Len(loops), Jumps)
              /\ Q.e = out.height - Len(locals) /\ depth = Q.d + 1 /\ depth - 1 = Q.d
              /\ Q.l = Len(loops) /\ Q.n <= Len(locals) /\ Q.x = 1 /\ Fits(locals, Q)
              /\ \A i \in Undefined(locals) : i <= Q.n
  BY <1>1, NextCloses
<1>3. PICK Q \in Places :
              /\ PlanFrom(out, loops, locals, t, Q, Undefined(locals), 1..Len(loops), Jumps)
              /\ Q.e = out.height - Len(locals) /\ depth = Q.d + 1 /\ depth - 1 = Q.d
              /\ Q.l = Len(loops) /\ Q.n <= Len(locals) /\ Q.x = 1 /\ Fits(locals, Q)
              /\ \A i \in Undefined(locals) : i <= Q.n
  BY <1>2
<1> DEFINE n == Cardinality(Leaving(Q.d))
           e == Emit(out, CloseOp, n)
<1>4. todo' = t
  <2>1. todo' = << >> \o t
    BY DEF CloseBlockExpr, Do
  <2> HIDE DEF t
  <2> QED BY <1>2, <2>1, Items0
<1>5. out' = e /\ locals' = Keep(Q.d) /\ depth' = Q.d /\ loops' = loops
  BY <1>3 DEF CloseBlockExpr, CloseOp
<1>6. CodeOK(out) /\ locals \in Seq(Slots) /\ loops \in Seq(Loops) /\ out.height \in Nat /\ Len(locals) \in Nat
  BY <1>2 DEF Known, KnownOf
<1>7. n = Len(locals) - Q.n
  BY <1>3, <1>6, ScopeLocals
<1> HIDE DEF n, t
<1>8. out.height - n = Q.e + Q.n /\ Q.e + Q.n \in Nat /\ n \in Nat /\ out.height > n
  <2>1. Q.e \in Int /\ Q.n \in Nat
    BY DEF Places
  <2>2. Q.e + Q.n >= 1
    BY <1>3 DEF Fits
  <2>3. n \in Nat
    BY <1>3, <1>6, <1>7, <2>1
  <2>4. out.height - n = Q.e + Q.n
    BY <1>3, <1>6, <1>7, <2>1
  <2> QED BY <1>6, <2>1, <2>2, <2>3, <2>4
<1>9. CodeOK(e) /\ Grows(out, e) /\ e.height = Q.e + Q.n /\ Unresolved(e) = Unresolved(out)
  <2>1. MayEmit(out, CloseOp, n) /\ CloseOp \notin Awaiting /\ Effect(CloseOp, n) = -n
    BY <1>6, <1>8, CloseOps
  <2>2. /\ CodeOK(e) /\ Grows(out, e) /\ e.height = out.height + Effect(CloseOp, n)
        /\ Unresolved(e) = Unresolved(out) \cup (IF CloseOp \in Awaiting THEN {Len(out.code) + 1} ELSE {})
    BY <1>6, <2>1, EmitKeeps
  <2>3. Unresolved(e) = Unresolved(out)
    BY <2>1, <2>2
  <2> QED BY <1>6, <1>8, <2>1, <2>2, <2>3
<1> HIDE DEF e
<1>10. PlanFrom(e, loops, locals, t, Q, Undefined(locals), 1..Len(loops), Jumps)
  BY <1>3, <1>6, <1>9, FromGrow
<1>11. Working(e, loops, Keep(Q.d), Q.d, t)
  BY <1>3, <1>6, <1>9, <1>10, CloseScope DEF Jumps
<1> QED BY <1>4, <1>5, <1>11 DEF NowWorking

(* A variable whose initializer comes next.                                *)
LEMMA AddedLocal ==
  ASSUME KnownOf(out), nodes \in Nat, NEW locs, locs = AddLocal(out), NEW d \in Nat, depth <= d
  PROVE  /\ locs \in Seq(Slots) /\ Len(locs) = Len(locals) + 1
         /\ Undefined(locs) = Undefined(locals) \cup {Len(locals) + 1}
         /\ Known(out, loops, locs, d)
         /\ locs[Len(locs)].slot = out.height /\ locs[Len(locs)].depth = UNINITIALIZED
         /\ \E new \in Slots : locs = Append(locals, new) /\ new.depth = UNINITIALIZED
<1> DEFINE new == [slot |-> out.height, depth |-> UNINITIALIZED, captured |-> FALSE, decl |-> nodes]
           n == Len(locals)
<1>1. /\ CodeOK(out) /\ locals \in Seq(Slots) /\ loops \in Seq(Loops)
      /\ out.height \in Nat /\ out.height >= 1 /\ n \in Nat /\ Len(loops) \in Nat
      /\ depth \in Nat /\ \A i \in 1..n : locals[i].depth <= depth /\ locals[i].depth \in Int
  BY DEF Known, KnownOf
<1>2. new \in Slots /\ new.depth = UNINITIALIZED /\ new.slot = out.height
  BY <1>1 DEF Slots, UNINITIALIZED
<1>3. locs = Append(locals, new)
  BY DEF AddLocal
<1> HIDE DEF new
<1>4. locs \in Seq(Slots) /\ Len(locs) = n + 1 /\ locs[n + 1] = new /\ \A i \in 1..n : locs[i] = locals[i]
  BY <1>1, <1>2, <1>3
<1>5. Undefined(locs) = Undefined(locals) \cup {n + 1}
  BY <1>1, <1>2, <1>4 DEF Undefined
<1>6. \A i \in 1..Len(locs) : locs[i].depth <= d /\ locs[i].depth \in Int
  <2> SUFFICES ASSUME NEW i \in 1..Len(locs) PROVE locs[i].depth <= d /\ locs[i].depth \in Int
    OBVIOUS
  <2>1. CASE i = n + 1
    <3>1. locs[i].depth = UNINITIALIZED
      BY <1>2, <1>4, <2>1
    <3> QED BY <3>1 DEF UNINITIALIZED
  <2>2. CASE i # n + 1
    <3>1. i \in 1..n /\ locs[i] = locals[i]
      BY <1>1, <1>4, <2>2
    <3>2. locals[i].depth <= depth /\ locals[i].depth \in Int
      BY <1>1, <3>1
    <3> HIDE DEF n
    <3> QED BY <1>1, <3>1, <3>2
  <2> QED BY <2>1, <2>2
<1>8. Low(locs, out.height)
  <2>1. Low(locals, out.height)
    BY DEF Known, KnownOf
  <2>2. \A i \in 1..Len(locs) : locs[i].depth # UNINITIALIZED => i \in 1..n /\ locs[i] = locals[i]
    BY <1>1, <1>2, <1>4
  <2> QED BY <2>1, <2>2 DEF Low, n
<1>7. Known(out, loops, locs, d)
  BY <1>1, <1>4, <1>6, <1>8 DEF Known
<1> QED BY <1>2, <1>3, <1>4, <1>5, <1>7

LEMMA Declare ==
  ASSUME KnownOf(out), nodes \in Nat, NEW locs, locs = AddLocal(out), NEW d \in Nat, depth <= d,
         NEW P, P = Now(out, loops, locs, d, 1), NEW u,
         FromBelow(out, loops, locs, u, P, Undefined(locals), 1..Len(loops), Jumps, P),
         NEW v, v = Cons(Expr, Cons([do |-> "define"], u)),
         todo' = v, locals' = locs, depth' = d, UNCHANGED <<out, loops>>
  PROVE  NowWorking'
<1> DEFINE U == Undefined(locals)
           U2 == Undefined(locs)
           E == 1..Len(loops)
           def == [do |-> "define"]
           u1 == Cons(def, u)
           j == 0
           k == 1
<1>1. /\ locs \in Seq(Slots) /\ Len(locs) = Len(locals) + 1 /\ U2 = U \cup {Len(locals) + 1}
      /\ Known(out, loops, locs, d)
      /\ locs[Len(locs)].slot = out.height /\ locs[Len(locs)].depth = UNINITIALIZED
  BY AddedLocal
<1>2. out.height \in Nat /\ out.height >= 1 /\ Len(locals) \in Nat
  BY DEF Known, KnownOf
<1>3. P = Now(out, loops, locs, d, k) /\ k \in Int /\ j \in Int /\ k - j = 1 /\ out.height + k \in Nat
      /\ out.height + k >= 1 /\ out.height + j >= 1 /\ out.height + j \in Nat
      /\ j >= 0 /\ k >= 0 /\ (out.height + k) - 1 = out.height
  BY <1>2
<1> DEFINE S == Now(out, loops, locs, d, j)
<1> HIDE DEF j, k
<1>13. Low(locs, out.height + k) /\ Low(locs, out.height + j)
  BY <1>1, <1>3, KnownLow
<1>4. P \in Places /\ P.n = Len(locs) /\ P.x = 1 /\ Fits(locs, P) /\ H(P) = out.height + k
  <2> DEFINE R == Now(out, loops, locs, d, k)
  <2>3. k \in Int /\ out.height + k \in Nat /\ Known(out, loops, locs, d)
    BY <1>1, <1>3
  <2>1. /\ R \in Places /\ R.n = Len(locs) /\ R.x = 1 /\ H(R) = out.height + k
        /\ out.height + k >= 1 /\ Low(locs, out.height + k) => Fits(locs, R)
    BY ONLY <2>3, NowFields
  <2>2. P = R
    BY <1>3
  <2> HIDE DEF R
  <2> QED BY <1>3, <1>13, <2>1, <2>2
<1>14. Defines(locs, P)
  BY <1>1, <1>3, <1>4 DEF Defines
<1>5. P.n = Len(locals) + 1 /\ P.n >= 1
  BY <1>1, <1>2, <1>4
<1>6. Added(def, P, U, E, Jumps, U2, E, Jumps) /\ def.do = "define"
  BY <1>1, <1>5 DEF Added
<1> HIDE DEF U, E, U2, def
<1>7. PlanFrom(out, loops, locs, u1, P, U2, E, Jumps)
  BY <1>4, <1>5, <1>6, <1>14, FromConsDefine DEF U, E
<1> HIDE DEF u1
<1>8. Keeps(S, P, 1)
  BY <1>1, <1>3, NowKeeps
<1>9. Link(out, loops, locs, Expr, S, P) /\ Expr.do # "define"
  BY <1>8, Links DEF Expr
<1>10. PlanFrom(out, loops, locs, Cons(Expr, u1), S, U2, E, Jumps)
  BY <1>1, <1>3, <1>7, <1>9, <1>13, PushItem
<1>11. v = Cons(Expr, u1) /\ S = Now(out, loops, locs, d, 0)
  BY DEF u1, def, j
<1> HIDE DEF S
<1>12. Working(out, loops, locs, d, v)
  BY <1>1, <1>10, <1>11, Ready DEF U2, E, Jumps
<1> QED BY <1>12 DEF NowWorking

(* What comes behind a declaration is in its scope, and open to it.        *)
LEMMA NextDeclaration ==
  ASSUME NowWorking, Doing("declaration")
  PROVE  /\ KnownOf(out) /\ IsSeq(Tail(todo))
         /\ \E Q \in Places :
              /\ PlanFrom(out, loops, locals, Tail(todo), Q, Undefined(locals), 1..Len(loops), Jumps)
              /\ Q.e = out.height - Len(locals) /\ Q.d = depth /\ Q.l = Len(loops)
              /\ Q.n <= Len(locals) /\ Q.x = 0
<1> DEFINE it == todo[1]
           t == Tail(todo)
           P == Place(out.height, Len(locals), depth, Len(loops))
<1>1. todo # << >> /\ Head(todo) = it /\ it.do = "declaration"
  BY Begin DEF Doing, NowWorking
<1>2. KnownOf(out) /\ \E Q \in Places : Behind(out, loops, locals, depth, it, t, Q)
  BY <1>1, Begin DEF NowWorking, KnownOf
<1>3. PICK Q \in Places : Behind(out, loops, locals, depth, it, t, Q)
  BY <1>2
<1>4. Awaits(it) = {} /\ it.do # "define" /\ it.do # "end loop"
  BY <1>1 DEF Awaits
<1>5. P.e = out.height - Len(locals) /\ P.n = Len(locals) /\ P.d = depth /\ P.l = Len(loops)
  BY DEF Place
<1>6. /\ IsSeq(t) /\ PlanFrom(out, loops, locals, t, Q, Undefined(locals), 1..Len(loops), Jumps \ Awaits(it))
      /\ Link(out, loops, locals, it, P, Q)
  BY <1>3, <1>4 DEF Behind, StillUndefined, StillOpen, Jumps
<1>7. Keeps(P, Q, 0) /\ Q.x = 0
  BY <1>1, <1>6 DEF Link, LinkExpr
<1> HIDE DEF P, it
<1>8. Q.e = out.height - Len(locals) /\ Q.d = depth /\ Q.l = Len(loops) /\ Q.n <= Len(locals)
  <2>1. out.height \in Nat /\ Len(locals) \in Nat
    BY <1>2 DEF Known, KnownOf
  <2> QED BY <1>5, <1>7, <2>1 DEF Keeps
<1>9. Jumps \ Awaits(it) = Jumps
  BY <1>4
<1> QED BY <1>2, <1>6, <1>7, <1>8, <1>9

LEMMA StepVarDecl == ASSUME NowWorking, nodes \in Nat, VarDecl PROVE NowWorking'
<1> DEFINE t == Tail(todo)
           locs == AddLocal(out)
           P == Now(out, loops, locs, depth, 1)
           u == Cons(TheCheck, t)
           def == [do |-> "define"]
           v == Cons(Expr, Cons(def, u))
           U == Undefined(locals)
           E == 1..Len(loops)
<1>1. /\ KnownOf(out) /\ IsSeq(t)
      /\ \E Q \in Places :
              /\ PlanFrom(out, loops, locals, t, Q, U, E, Jumps)
              /\ Q.e = out.height - Len(locals) /\ Q.d = depth /\ Q.l = Len(loops)
              /\ Q.n <= Len(locals) /\ Q.x = 0
  BY NextDeclaration DEF VarDecl
<1>2. PICK Q \in Places :
              /\ PlanFrom(out, loops, locals, t, Q, U, E, Jumps)
              /\ Q.e = out.height - Len(locals) /\ Q.d = depth /\ Q.l = Len(loops)
              /\ Q.n <= Len(locals) /\ Q.x = 0
  BY <1>1
<1>3. out.height \in Nat /\ out.height >= 1 /\ Len(locals) \in Nat /\ depth \in Nat /\ locals \in Seq(Slots)
      /\ depth <= depth
  BY <1>1 DEF Known, KnownOf
<1>4. todo' = (<<Expr, def>> \o <<TheCheck>>) \o t
  BY DEF VarDecl, Do, Checked, TheCheck
<1>5. todo' = v
  <2> HIDE DEF t, def
  <2> QED BY <1>1, <1>4, Items21
<1>6. locals' = locs /\ depth' = depth /\ UNCHANGED <<out, loops>>
  BY DEF VarDecl
<1>7. locs = AddLocal(out)
  OBVIOUS
<1> HIDE DEF t, locs, U, E
<1>8. /\ locs \in Seq(Slots) /\ Len(locs) = Len(locals) + 1 /\ Known(out, loops, locs, depth)
      /\ \E new \in Slots : locs = Append(locals, new) /\ new.depth = UNINITIALIZED
  BY <1>1, <1>3, <1>7, AddedLocal
<1>9. PlanFrom(out, loops, locs, t, Q, U, E, Jumps)
  BY <1>2, <1>3, <1>8, FromAppend
<1>10. /\ P \in Places /\ P.e = out.height - Len(locals) /\ P.n = Len(locals) + 1 /\ P.d = depth
       /\ P.l = Len(loops) /\ P.x = 1 /\ Fits(locs, P)
  <2> DEFINE k == 1
  <2>1. k \in Int /\ out.height + k \in Nat /\ out.height + k >= 1 /\ k >= 0
    BY <1>3
  <2> DEFINE R == Now(out, loops, locs, depth, k)
  <2> HIDE DEF k
  <2>2. R \in Places /\ R.e = (out.height + k) - Len(locs) /\ R.n = Len(locs) /\ R.d = depth
        /\ R.l = Len(loops) /\ R.x = 1 /\ Fits(locs, R)
    <3>1. Known(out, loops, locs, depth)
      BY <1>8
    <3>2. Low(locs, out.height + k)
      BY <2>1, <3>1, KnownLow
    <3> QED BY <2>1, <3>1, <3>2, NowFields
  <2>3. (out.height + k) - Len(locs) = out.height - Len(locals)
    BY <1>3, <1>8 DEF k
  <2> QED BY <1>8, <2>2, <2>3 DEF k
<1> HIDE DEF P
<1>11. Before(P, Q) /\ Outside(P, Q)
  BY <1>2, <1>3, <1>10 DEF Before, Outside, Places
<1>12. FromBelow(out, loops, locs, t, Q, U, E, Jumps, P)
  BY <1>9, <1>10, <1>11, BelowOutside
<1>13. Link(out, loops, locs, TheCheck, P, Q)
  <2>1. Keeps(P, Q, 0)
    BY <1>2, <1>3, <1>10 DEF Keeps, Places
  <2> QED BY <1>3, <1>10, <2>1, LinkCheck DEF TheCheck
<1>14. TheCheck.do # "define" /\ ~ Tests(TheCheck)
  BY DEF TheCheck, Tests
<1>15. FromBelow(out, loops, locs, u, P, U, E, Jumps, P)
  BY <1>10, <1>11, <1>12, <1>13, <1>14, BelowCons
<1> HIDE DEF u
<1>16. P = Now(out, loops, locs, depth, 1)
  BY DEF P
<1> QED BY <1>1, <1>3, <1>5, <1>6, <1>7, <1>15, <1>16, Declare DEF U, E

ForItem(scope) == [do |-> "for", scope |-> scope]

(* The initializer of a for loop is a declaration, an expression, or none. *)
ForVariable ==
  /\ Stating /\ depth' = depth + 1 /\ locals' = AddLocal(out) /\ UNCHANGED <<out, loops>>
  /\ Do(Checked(Checked(<<Expr, [do |-> "define"]>>) \o <<ForItem(TRUE)>>))
ForExpression ==
  /\ Stating /\ depth' = depth + 1 /\ UNCHANGED <<out, loops, locals>>
  /\ Do(Checked(Checked(<<Expr, Op("pop")>>) \o <<ForItem(TRUE)>>))
ForNothing ==
  /\ Stating /\ UNCHANGED <<out, loops, locals, depth>> /\ Do(Checked(<<ForItem(FALSE)>>))

(* The place of the item.                                                  *)
LEMMA Here0 ==
  ASSUME KnownOf(out)
  PROVE  LET P == Now(out, loops, locals, depth, 0)
         IN  /\ P \in Places /\ P.e = out.height - Len(locals) /\ P.n = Len(locals) /\ P.d = depth
             /\ P.l = Len(loops) /\ P.x = 1 /\ H(P) = out.height /\ Fits(locals, P)
<1> DEFINE k == 0
           P == Now(out, loops, locals, depth, k)
<1>1. out.height \in Nat /\ out.height >= 1
  BY DEF Known, KnownOf
<1>2. k \in Int /\ out.height + k \in Nat /\ out.height + k >= 1 /\ out.height + k = out.height
  BY <1>1
<1> HIDE DEF k
<1>3. /\ P \in Places /\ P.e = (out.height + k) - Len(locals) /\ P.n = Len(locals) /\ P.d = depth
      /\ P.l = Len(loops) /\ P.x = 1 /\ H(P) = out.height + k /\ Fits(locals, P)
  <2>1. Known(out, loops, locals, depth)
    BY DEF KnownOf
  <2>2. Low(locals, out.height + k)
    BY <1>2, <2>1 DEF Known
  <2> QED BY <1>2, <2>1, <2>2, NowFields
<1> QED BY <1>2, <1>3 DEF k

LEMMA StepForVariable == ASSUME NowWorking, nodes \in Nat, ForVariable PROVE NowWorking'
<1> DEFINE t == Tail(todo)
           locs == AddLocal(out)
           d == depth + 1
           P == Now(out, loops, locs, d, 1)
           Q == Now(out, loops, locals, depth, 0)
           t1 == Cons(TheCheck, t)
           for == ForItem(TRUE)
           t2 == Cons(for, t1)
           u == Cons(TheCheck, t2)
           def == [do |-> "define"]
           v == Cons(Expr, Cons(def, u))
           U == Undefined(locals)
           E == 1..Len(loops)
<1>1. Stating
  BY DEF ForVariable
<1>2. /\ KnownOf(out) /\ IsSeq(t) /\ out.height \in Nat /\ out.height >= 1
      /\ From(out, t1, 0, Jumps)
  BY <1>1, StatementCheck
<1>3. Len(locals) \in Nat /\ depth \in Nat /\ locals \in Seq(Slots) /\ d \in Nat /\ depth <= d
  BY <1>2 DEF Known, KnownOf
<1>4. todo' = (((<<Expr, def>> \o <<TheCheck>>) \o <<for>>) \o <<TheCheck>>) \o t
  BY DEF ForVariable, Do, Checked, TheCheck
<1>5. todo' = v
  <2> HIDE DEF t, def, for
  <2> QED BY <1>2, <1>4, Items2111
<1>6. locals' = locs /\ depth' = d /\ UNCHANGED <<out, loops>>
  BY DEF ForVariable
<1>7. locs = AddLocal(out)
  OBVIOUS
<1>8. PlanFrom(out, loops, locals, t1, Q, U, E, Jumps)
  BY <1>2 DEF From
<1>9. Q \in Places /\ Q.e = out.height - Len(locals) /\ Q.n = Len(locals) /\ Q.d = depth
      /\ Q.l = Len(loops) /\ Q.x = 1
  BY <1>2, <1>3, NowFields DEF KnownOf
<1>10. d = depth + 1
  OBVIOUS
<1> HIDE DEF t, locs, U, E, Q, t1, d
<1>11. /\ locs \in Seq(Slots) /\ Len(locs) = Len(locals) + 1 /\ Known(out, loops, locs, d)
       /\ \E new \in Slots : locs = Append(locals, new) /\ new.depth = UNINITIALIZED
  BY <1>2, <1>3, <1>7, AddedLocal
<1>12. PlanFrom(out, loops, locs, t1, Q, U, E, Jumps)
  <2>1. Q.n <= Len(locals)
    BY <1>3, <1>9
  <2> QED BY <1>3, <1>8, <1>9, <1>11, <2>1, FromAppend
<1>13. /\ P \in Places /\ P.e = out.height - Len(locals) /\ P.n = Len(locals) + 1 /\ P.d = d
       /\ P.l = Len(loops) /\ P.x = 1 /\ Fits(locs, P)
  <2> DEFINE k == 1
  <2>1. k \in Int /\ out.height + k \in Nat /\ out.height + k >= 1 /\ k >= 0
    BY <1>2
  <2> DEFINE R == Now(out, loops, locs, d, k)
  <2> HIDE DEF k
  <2>2. R \in Places /\ R.e = (out.height + k) - Len(locs) /\ R.n = Len(locs) /\ R.d = d
        /\ R.l = Len(loops) /\ R.x = 1 /\ Fits(locs, R)
    <3>1. Known(out, loops, locs, d)
      BY <1>11
    <3>2. Low(locs, out.height + k)
      BY <2>1, <3>1, KnownLow
    <3> QED BY <2>1, <3>1, <3>2, NowFields
  <2>3. (out.height + k) - Len(locs) = out.height - Len(locals)
    BY <1>2, <1>3, <1>11 DEF k
  <2> QED BY <1>11, <2>2, <2>3 DEF k
<1> HIDE DEF P
<1>14. Before(P, Q) /\ Outside(P, Q)
  BY <1>3, <1>9, <1>10, <1>13 DEF Before, Outside, Places
<1>15. FromBelow(out, loops, locs, t1, Q, U, E, Jumps, P)
  BY <1>12, <1>13, <1>14, BelowOutside
<1>16. Link(out, loops, locs, for, P, Q) /\ for.do # "define" /\ ~ Tests(for)
  <2>1. EndsFor(TRUE, P, Q, 0)
    BY <1>3, <1>9, <1>10, <1>13 DEF EndsFor, ClosesFor, Places
  <2>2. ~ Tests(for) /\ for.do # "define"
    BY DEF Tests, ForItem
  <2> QED BY <2>1, <2>2, Links DEF ForItem
<1> HIDE DEF for
<1>17. FromBelow(out, loops, locs, t2, P, U, E, Jumps, P)
  BY <1>13, <1>14, <1>15, <1>16, BelowCons
<1> HIDE DEF t2
<1>18. Link(out, loops, locs, TheCheck, P, P)
  <2>1. Keeps(P, P, 0)
    BY <1>13 DEF Keeps, Places
  <2> QED BY <1>2, <1>3, <1>13, <2>1, LinkCheck DEF TheCheck
<1>19. TheCheck.do # "define" /\ ~ Tests(TheCheck)
  BY DEF TheCheck, Tests
<1>20. Before(P, P)
  BY <1>13 DEF Before, Places
<1>21. FromBelow(out, loops, locs, u, P, U, E, Jumps, P)
  BY <1>13, <1>17, <1>18, <1>19, <1>20, BelowCons
<1> HIDE DEF u
<1>22. P = Now(out, loops, locs, d, 1)
  BY DEF P
<1> QED BY <1>2, <1>3, <1>5, <1>6, <1>7, <1>21, <1>22, Declare DEF U, E

LEMMA StepForExpression == ASSUME NowWorking, ForExpression PROVE NowWorking'
<1> DEFINE t == Tail(todo)
           d == depth + 1
           Q == Now(out, loops, locals, depth, 0)
           pop == Op("pop")
           for == ForItem(TRUE)
           t1 == Cons(TheCheck, t)
           t2 == Cons(for, t1)
           t3 == Cons(TheCheck, t2)
           t4 == Cons(pop, t3)
           t5 == Cons(Expr, t4)
           U == Undefined(locals)
           E == 1..Len(loops)
<1>1. Stating
  BY DEF ForExpression
<1>2. /\ KnownOf(out) /\ IsSeq(t) /\ out.height \in Nat /\ out.height >= 1
      /\ From(out, t1, 0, Jumps)
  BY <1>1, StatementCheck
<1>3. Len(locals) \in Nat /\ depth \in Nat /\ d \in Nat /\ d = depth + 1 /\ depth <= d
  BY <1>2 DEF Known, KnownOf
<1>4. todo' = (((<<Expr, pop>> \o <<TheCheck>>) \o <<for>>) \o <<TheCheck>>) \o t
  BY DEF ForExpression, Do, Checked, TheCheck
<1>5. todo' = t5
  <2> HIDE DEF t, pop, for
  <2> QED BY <1>2, <1>4, Items2111
<1>6. depth' = d /\ UNCHANGED <<out, loops, locals>>
  BY DEF ForExpression
<1>7. PlanFrom(out, loops, locals, t1, Q, U, E, Jumps)
  BY <1>2 DEF From
<1>8. /\ Q \in Places /\ Q.e = out.height - Len(locals) /\ Q.n = Len(locals) /\ Q.d = depth
      /\ Q.l = Len(loops) /\ Q.x = 1
  BY <1>2, Here0
<1> HIDE DEF t, d, Q, t1, U, E
<1>9. Known(out, loops, locals, d)
  <2>1. \A i \in 1..Len(locals) : locals[i].depth <= d
    <3>1. \A i \in 1..Len(locals) : locals[i].depth \in Int /\ locals[i].depth <= depth
      BY <1>2 DEF Known, KnownOf
    <3> QED BY <1>3, <3>1
  <2> QED BY <1>2, <1>3, <2>1 DEF Known, KnownOf
<1> DEFINE j == 0
           k == 1
           P == Now(out, loops, locals, d, j)
           R == Now(out, loops, locals, d, k)
<1>10. /\ j \in Int /\ k \in Int /\ out.height + j = out.height /\ out.height + j \in Nat
       /\ out.height + k \in Nat /\ out.height + j >= 1 /\ out.height + k >= 1
       /\ j >= 0 /\ k >= 0 /\ k - j = 1 /\ j - k = -1 /\ j - j = 0
  BY <1>2
<1>11. P = Now(out, loops, locals, d, 0)
  OBVIOUS
<1> HIDE DEF j, k
<1>12. Low(locals, out.height + j) /\ Low(locals, out.height + k)
  BY <1>9, <1>10, KnownLow
<1>13. /\ P \in Places /\ P.e = (out.height + j) - Len(locals) /\ P.n = Len(locals) /\ P.d = d
       /\ P.l = Len(loops) /\ P.x = 1 /\ Fits(locals, P)
  BY <1>9, <1>10, <1>12, NowFields
<1>14. Keeps(P, P, 0) /\ Keeps(P, R, 1) /\ Keeps(R, P, -1)
  <2>1. Keeps(P, P, j - j) /\ Keeps(P, R, k - j) /\ Keeps(R, P, j - k)
    BY <1>9, <1>10, NowKeeps
  <2> HIDE DEF P, R
  <2> QED BY <1>10, <2>1
<1>15. P = Now(out, loops, locals, d, j) /\ R = Now(out, loops, locals, d, k)
  OBVIOUS
<1> HIDE DEF P, R
<1>16. Link(out, loops, locals, for, P, Q) /\ for.do # "define"
  <2>1. P.e = out.height - Len(locals)
    BY <1>10, <1>13
  <2>2. EndsFor(TRUE, P, Q, 0)
    <3>1. Q.e = P.e + 0
      BY <1>2, <1>3, <1>8, <2>1
    <3> QED BY <1>3, <1>8, <1>13, <3>1 DEF EndsFor, ClosesFor
  <2> QED BY <2>2, Links DEF ForItem
<1>17. Before(P, Q)
  BY <1>3, <1>8, <1>13 DEF Before, Places
<1>18. Added(for, P, U, E, Jumps, U, E, Jumps)
  BY DEF Added
<1> HIDE DEF for
<1>19. PlanFrom(out, loops, locals, t2, P, U, E, Jumps)
  BY <1>7, <1>13, <1>16, <1>17, <1>18, FromCons DEF Cons
<1> HIDE DEF t2
<1>20. Link(out, loops, locals, TheCheck, P, P) /\ TheCheck.do # "define"
  <2>1. P.e = out.height - Len(locals) /\ out.height \in Int /\ Len(locals) \in Int
    BY <1>2, <1>3, <1>10, <1>13
  <2> QED BY <1>14, <2>1, LinkCheck DEF TheCheck
<1>21. PlanFrom(out, loops, locals, t3, P, U, E, Jumps)
  <2>1. \A q \in Jumps : q \in Jumps \/ q \in Awaits(TheCheck)
    OBVIOUS
  <2> QED BY <1>9, <1>10, <1>12, <1>15, <1>19, <1>20, <2>1, PushItem
<1> HIDE DEF t3
<1>22. Link(out, loops, locals, pop, R, P) /\ pop.do # "define"
  BY <1>14, Links DEF Op
<1> HIDE DEF pop
<1>23. PlanFrom(out, loops, locals, t4, R, U, E, Jumps)
  <2>1. \A q \in Jumps : q \in Jumps \/ q \in Awaits(pop)
    OBVIOUS
  <2> QED BY <1>9, <1>10, <1>12, <1>15, <1>21, <1>22, <2>1, PushItem
<1> HIDE DEF t4
<1>24. Link(out, loops, locals, Expr, P, R) /\ Expr.do # "define"
  BY <1>14, Links DEF Expr
<1>25. PlanFrom(out, loops, locals, t5, P, U, E, Jumps)
  <2>1. \A q \in Jumps : q \in Jumps \/ q \in Awaits(Expr)
    OBVIOUS
  <2> QED BY <1>9, <1>10, <1>12, <1>15, <1>23, <1>24, <2>1, PushItem
<1> HIDE DEF t5
<1>26. Working(out, loops, locals, d, t5)
  BY <1>9, <1>11, <1>25, Ready DEF U, E, Jumps
<1> QED BY <1>5, <1>6, <1>26 DEF NowWorking

LEMMA StepForNothing == ASSUME NowWorking, ForNothing PROVE NowWorking'
<1> DEFINE t == Tail(todo)
           for == ForItem(FALSE)
           t1 == Cons(TheCheck, t)
           t2 == Cons(for, t1)
           j == 0
           P == Now(out, loops, locals, depth, j)
<1>1. Stating
  BY DEF ForNothing
<1>2. /\ KnownOf(out) /\ IsSeq(t) /\ out.height \in Nat /\ out.height >= 1
      /\ From(out, t1, 0, Jumps)
  BY <1>1, StatementCheck
<1>3. todo' = (<<for>> \o <<TheCheck>>) \o t
  BY DEF ForNothing, Do, Checked, TheCheck
<1>4. todo' = t2
  <2> HIDE DEF t, for
  <2> QED BY <1>2, <1>3, Items11
<1>5. P \in Places /\ P.e \in Int /\ P.n \in Nat /\ P.d \in Nat /\ P.x = 1
  <2>1. P \in Places /\ P.x = 1
    BY <1>2, Here0
  <2> HIDE DEF P
  <2> QED BY <2>1, PlaceNumbers
<1>6. j \in Int /\ out.height + j >= 1 /\ j >= 0 /\ From(out, t1, j, Jumps)
  BY <1>2
<1>7. P = Now(out, loops, locals, depth, j)
  OBVIOUS
<1>8. Link(out, loops, locals, for, P, P) /\ for.do # "define"
  <2> HIDE DEF P
  <2>1. EndsFor(FALSE, P, P, 0)
    BY <1>5 DEF EndsFor, ClosesFor
  <2> QED BY <2>1, Links DEF ForItem
<1>9. \A q \in Jumps : q \in Jumps \/ q \in Awaits(for)
  OBVIOUS
<1> HIDE DEF t, for, t1, j, P
<1>10. From(out, t2, j, Jumps)
  BY <1>2, <1>6, <1>7, <1>8, <1>9, PutItem
<1>11. From(out, t2, 0, Jumps)
  BY <1>10 DEF j
<1>12. out' = out /\ UNCHANGED <<locals, depth, loops>>
  BY DEF ForNothing
<1> HIDE DEF t2
<1> QED BY <1>2, <1>4, <1>11, <1>12, OnwardItems

LEMMA StepFor == ASSUME NowWorking, nodes \in Nat, For PROVE NowWorking'
<1>1. ForVariable \/ ForExpression \/ ForNothing
  BY DEF For, ForVariable, ForExpression, ForNothing, ForItem
<1> QED BY <1>1, StepForVariable, StepForExpression, StepForNothing

(* The mark where a local starts to exist is no code.                      *)
NameOp == "name"
LEMMA NameKeeps ==
  ASSUME NEW o, CodeOK(o), NEW arg \in Slots
  PROVE  LET e == Emit(o, NameOp, arg)
         IN  CodeOK(e) /\ Grows(o, e) /\ e.height = o.height /\ Unresolved(e) = Unresolved(o)
<1> DEFINE e == Emit(o, NameOp, arg)
<1>1. Simple(NameOp) /\ NameOp \notin Awaiting /\ Effect(NameOp, arg) = 0
  BY SimpleOps DEF NameOp, Awaiting, Effect
<1>2. o.height \in Nat
  BY OutFacts
<1>3. MayEmit(o, NameOp, arg)
  <2>1. o.height + Effect(NameOp, arg) \in Nat
    BY <1>1, <1>2
  <2>2. arg \in Int \cup Slots
    OBVIOUS
  <2> QED BY <1>1, <2>1, <2>2, SimpleEmit
<1>4. /\ CodeOK(e) /\ Grows(o, e) /\ e.height = o.height + Effect(NameOp, arg)
      /\ Unresolved(e) = Unresolved(o) \cup (IF NameOp \in Awaiting THEN {Len(o.code) + 1} ELSE {})
  BY <1>3, EmitKeeps
<1>5. Unresolved(e) = Unresolved(o)
  BY <1>1, <1>4
<1> HIDE DEF e
<1>6. e.height = o.height
  BY <1>1, <1>2, <1>4
<1> QED BY <1>4, <1>5, <1>6 DEF e

LEMMA StepDefineVariable == ASSUME NowWorking, DefineVariable PROVE NowWorking'
<1> DEFINE t == Tail(todo)
           it == todo[1]
           n == Len(locals)
           P == Place(out.height, n, depth, Len(loops))
           U == Undefined(locals)
           E == 1..Len(loops)
           locs == [locals EXCEPT ![n].depth = depth]
           e == Emit(out, NameOp, Last(locals))
<1>1. todo # << >> /\ it.do = "define"
  BY Begin DEF DefineVariable, Doing, NowWorking
<1>2. KnownOf(out) /\ \E Q \in Places : Behind(out, loops, locals, depth, it, t, Q)
  BY <1>1, Begin DEF NowWorking, KnownOf
<1>3. IsSeq(t) /\ n >= 1 /\ locals[n].slot = out.height - 1
  <2>1. PICK Q \in Places : Behind(out, loops, locals, depth, it, t, Q)
    BY <1>2
  <2>2. IsSeq(t) /\ Link(out, loops, locals, it, P, Q)
    BY <2>1 DEF Behind
  <2>3. P.n >= 1
    BY <1>1, <2>2 DEF Link, LinkExpr
  <2>4. P.n = n /\ H(P) = out.height
    <3>1. P.e = out.height - n /\ P.n = n /\ out.height \in Nat /\ n \in Nat
      BY <1>2 DEF Place, Known, KnownOf
    <3> HIDE DEF P, n
    <3> QED BY <3>1 DEF H
  <2>5. Defines(locals, P)
    BY <1>1, <2>2 DEF Link, LinkLoop
  <2>6. locals[n].slot = out.height - 1
    BY <2>4, <2>5 DEF Defines
  <2> QED BY <2>2, <2>3, <2>4, <2>6
<1>4. /\ CodeOK(out) /\ locals \in Seq(Slots) /\ loops \in Seq(Loops) /\ out.height \in Nat
      /\ out.height >= 1 /\ n \in Nat /\ Len(loops) \in Nat /\ depth \in Nat
      /\ \A i \in 1..n : locals[i].depth <= depth /\ locals[i].depth \in Int
      /\ Low(locals, out.height)
  BY <1>2 DEF Known, KnownOf
<1>5. Last(locals) \in Slots
  BY <1>3, <1>4 DEF Last
<1>6. locs \in Seq(Slots) /\ Len(locs) = n /\ locs[n].depth = depth
      /\ locs[n].slot = locals[n].slot /\ locals[n].slot \in Int
      /\ \A i \in 1..n : i # n => locs[i] = locals[i]
  <2>1. n \in 1..n
    BY <1>3, <1>4
  <2>2. /\ [locals[n] EXCEPT !.depth = depth] \in Slots
        /\ [locals[n] EXCEPT !.depth = depth].depth = depth
        /\ [locals[n] EXCEPT !.depth = depth].slot = locals[n].slot /\ locals[n].slot \in Int
    <3>1. locals[n] \in Slots /\ depth \in Int
      BY <1>4, <2>1
    <3> QED BY <3>1 DEF Slots
  <2> DEFINE new == [locals[n] EXCEPT !.depth = depth]
  <2>3. locs = [locals EXCEPT ![n] = new]
    OBVIOUS
  <2> HIDE DEF new, locs
  <2>4. new \in Slots /\ new.depth = depth /\ new.slot = locals[n].slot /\ locals[n].slot \in Int
    BY <2>2 DEF new
  <2> HIDE DEF n
  <2>5. n = Len(locals)
    BY DEF n
  <2> QED BY <1>4, <2>1, <2>3, <2>4, <2>5
<1> HIDE DEF locs
<1>7. Undefined(locs) = U \ {n}
  <2>1. ~ (locs[n].depth = UNINITIALIZED)
    BY <1>4, <1>6 DEF UNINITIALIZED
  <2> HIDE DEF n
  <2>2. n = Len(locals)
    BY DEF n
  <2> QED BY <1>6, <2>1, <2>2 DEF Undefined
<1>8. P.n = n /\ P.d = depth
  BY DEF Place
<1>9. PlanFrom(out, loops, locals, todo, P, U, E, Jumps)
  BY DEF NowWorking, Working, AllFrom, Jumps
<1>10. PlanFrom(out, loops, locs, t, P, U \ {n}, E, Jumps)
  <2> HIDE DEF P, U, E, t
  <2>1. n = Len(locals) /\ P.n = Len(locals) /\ Len(locs) = Len(locals) /\ locs[P.n].depth = P.d
    BY <1>6, <1>8
  <2>4. locs[P.n].slot = locals[P.n].slot /\ locals[P.n].slot \in Int /\ Len(locals) \in Nat
    BY <1>4, <1>6, <1>8
  <2>2. \A i \in 1..Len(locals) : i # P.n => locs[i] = locals[i]
    BY <1>6, <1>8
  <2>3. PlanFrom(out, loops, locs, Tail(todo), P, U \ {P.n}, E, Jumps)
    BY <1>1, <1>9, <2>1, <2>2, <2>4, FromDefine
  <2> QED BY <1>8, <2>3 DEF t
<1>11. CodeOK(e) /\ Grows(out, e) /\ e.height = out.height /\ Unresolved(e) = Unresolved(out)
  BY <1>4, <1>5, NameKeeps
<1>12. out' = e /\ locals' = locs /\ todo' = t /\ UNCHANGED <<depth, loops>>
  <2>1. out' = e /\ locals' = locs /\ todo' = << >> \o t /\ UNCHANGED <<depth, loops>>
    BY DEF DefineVariable, Do, NameOp, locs
  <2> HIDE DEF t, e
  <2>2. todo' = t
    BY <1>3, <2>1, Items0
  <2> QED BY <2>1, <2>2
<1> HIDE DEF e, t
<1>13. PlanFrom(e, loops, locs, t, P, Undefined(locs), E, Jumps)
  <2>1. PlanFrom(out, loops, locs, t, P, Undefined(locs), E, Jumps)
    BY <1>7, <1>10
  <2> QED BY <1>4, <1>11, <2>1, FromGrow
<1>14. Known(e, loops, locs, depth)
  <2>1. \A i \in 1..Len(locs) : locs[i].depth <= depth /\ locs[i].depth \in Int
    <3> SUFFICES ASSUME NEW i \in 1..Len(locs) PROVE locs[i].depth <= depth /\ locs[i].depth \in Int
      OBVIOUS
    <3>1. CASE i = n
      BY <1>4, <1>6, <3>1
    <3>2. CASE i # n
      BY <1>4, <1>6, <3>2
    <3> QED BY <3>1, <3>2
  <2>2. Low(locs, e.height)
    <3> SUFFICES ASSUME NEW i \in 1..Len(locs), locs[i].depth # UNINITIALIZED
                 PROVE  locs[i].slot < out.height
      BY <1>11 DEF Low
    <3>1. CASE i = n
      BY <1>3, <1>4, <1>6, <3>1
    <3>2. CASE i # n
      BY <1>4, <1>6, <3>2 DEF Low
    <3> QED BY <3>1, <3>2
  <2> QED BY <1>4, <1>6, <1>11, <2>1, <2>2 DEF Known
<1>15. P = Place(e.height, Len(locs), depth, Len(loops))
  BY <1>6, <1>11
<1>16. Unresolved(e) \ Broken(loops) \subseteq Jumps
  BY <1>11 DEF Jumps
<1> HIDE DEF P, n
<1>17. Working(e, loops, locs, depth, t)
  BY <1>13, <1>14, <1>15, <1>16, Placed
<1> QED BY <1>12, <1>17 DEF NowWorking

LEMMA StepLambda == ASSUME NowWorking, NEW i \in Initialized, Lambda(i) PROVE NowWorking'
<1> DEFINE t == Tail(todo)
           arg == locals[i]
           e == Emit(out, "closure", arg)
           locs == [locals EXCEPT ![i].captured = TRUE]
           U == Undefined(locals)
           E == 1..Len(loops)
           P == Now(e, loops, locals, depth, 0)
<1>1. /\ KnownOf(out) /\ IsSeq(t) /\ out.height \in Nat /\ out.height >= 1 /\ From(out, t, 1, Jumps)
  BY NextExpr DEF Lambda
<1>2. todo' = t
  <2>1. todo' = << >> \o t
    BY DEF Lambda, Do
  <2> HIDE DEF t
  <2> QED BY <1>1, <2>1, Items0
<1>3. locals \in Seq(Slots) /\ i \in 1..Len(locals) /\ arg \in Slots /\ Len(locals) \in Nat
  BY <1>1 DEF Known, KnownOf, Initialized
<1>4. /\ KnownOf(e) /\ From(e, t, 0, Jumps) /\ Unresolved(e) = Unresolved(out)
  <2> DEFINE op == "closure"
  <2>1. Simple(op) /\ Effect(op, arg) = 1
    BY SimpleOps DEF Effect
  <2> HIDE DEF op, arg, t
  <2>2. LET e1 == Emit(out, op, arg)
        IN  KnownOf(e1) /\ From(e1, t, 0, Jumps) /\ Unresolved(e1) = Unresolved(out)
    BY <1>1, <1>3, <2>1, EmitAdds
  <2> QED BY <2>2 DEF op
<1>5. locs \in Seq(Slots) /\ Len(locs) = Len(locals)
      /\ \A k \in 1..Len(locals) : locs[k].depth = locals[k].depth /\ locs[k].slot = locals[k].slot
  <2>1. [locals[i] EXCEPT !.captured = TRUE] \in Slots
        /\ [locals[i] EXCEPT !.captured = TRUE].depth = locals[i].depth
        /\ [locals[i] EXCEPT !.captured = TRUE].slot = locals[i].slot
    BY <1>3 DEF Slots
  <2> DEFINE new == [locals[i] EXCEPT !.captured = TRUE]
  <2>2. locs = [locals EXCEPT ![i] = new]
    OBVIOUS
  <2> HIDE DEF new, locs
  <2>3. new \in Slots /\ new.depth = locals[i].depth /\ new.slot = locals[i].slot
    BY <2>1 DEF new
  <2> QED BY <1>3, <2>2, <2>3
<1>6. out' = e /\ locals' = locs /\ UNCHANGED <<depth, loops>>
  BY DEF Lambda
<1>7. P.n = Len(locals)
  BY DEF Now, Place
<1>8. PlanFrom(e, loops, locals, t, P, U, E, Jumps)
  BY <1>4 DEF From
<1>9. P = Place(e.height + 0, Len(locals), depth, Len(loops))
  BY DEF Now
<1> HIDE DEF e, t, locs, P
<1>10. Undefined(locs) = U
  BY <1>3, <1>5 DEF Undefined
<1> HIDE DEF U, E
<1>11. PlanFrom(e, loops, locs, t, P, U, E, Jumps)
  <2>1. P.n <= Len(locals) /\ P.n \in Nat
    BY <1>3, <1>7
  <2> QED BY <1>3, <1>5, <1>8, <2>1, FromDepths
<1>12. Known(e, loops, locs, depth)
  <2>1. Low(locs, e.height)
    BY <1>4, <1>5 DEF Low, Known, KnownOf
  <2> QED BY <1>4, <1>5, <2>1 DEF Known, KnownOf
<1>13. P = Now(e, loops, locs, depth, 0)
  BY <1>5, <1>9 DEF Now
<1>14. Unresolved(e) \ Broken(loops) \subseteq Jumps
  BY <1>4 DEF Jumps
<1>15. Working(e, loops, locs, depth, t)
  BY <1>10, <1>11, <1>12, <1>13, <1>14, Ready DEF E
<1> QED BY <1>2, <1>6, <1>15 DEF NowWorking

LEMMA StepFunctionDecl ==
  ASSUME NowWorking, nodes \in Nat, NEW self \in BOOLEAN, FunctionDecl(self)
  PROVE  NowWorking'
<1> DEFINE t == Tail(todo)
           n == Len(locals)
           new == [Last(AddLocal(out)) EXCEPT !.depth = depth, !.captured = self]
           locs == Append(locals, new)
           op == IF self THEN "closure" ELSE "constant"
           m == Emit(out, op, new)
           e == Emit(m, NameOp, new)
           P == Place(e.height, Len(locs), depth, Len(loops))
           u == Cons(TheCheck, t)
           U == Undefined(locals)
           E == 1..Len(loops)
<1>1. /\ KnownOf(out) /\ IsSeq(t)
      /\ \E Q \in Places :
              /\ PlanFrom(out, loops, locals, t, Q, U, E, Jumps)
              /\ Q.e = out.height - n /\ Q.d = depth /\ Q.l = Len(loops)
              /\ Q.n <= n /\ Q.x = 0
  BY NextDeclaration DEF FunctionDecl
<1>2. PICK Q \in Places :
              /\ PlanFrom(out, loops, locals, t, Q, U, E, Jumps)
              /\ Q.e = out.height - n /\ Q.d = depth /\ Q.l = Len(loops)
              /\ Q.n <= n /\ Q.x = 0
  BY <1>1
<1>3. /\ CodeOK(out) /\ locals \in Seq(Slots) /\ loops \in Seq(Loops) /\ out.height \in Nat
      /\ out.height >= 1 /\ n \in Nat /\ Len(loops) \in Nat /\ depth \in Nat
      /\ \A i \in 1..n : locals[i].depth <= depth /\ locals[i].depth \in Int
  BY <1>1 DEF Known, KnownOf
<1>4. todo' = u
  <2>1. todo' = (<< >> \o <<TheCheck>>) \o t
    BY DEF FunctionDecl, Do, Checked, TheCheck
  <2> HIDE DEF t
  <2> QED BY <1>1, <2>1, Items01
<1>5. out' = e /\ locals' = locs /\ UNCHANGED <<depth, loops>>
  BY DEF FunctionDecl, NameOp
<1>6. new \in Slots /\ new.depth = depth /\ new.slot = out.height
  <2> DEFINE a == AddLocal(out)
             b == Last(a)
  <2>1. a \in Seq(Slots) /\ Len(a) = n + 1
    BY <1>1, <1>3, AddedLocal
  <2>5. a[Len(a)].slot = out.height
    BY <1>1, <1>3, AddedLocal
  <2>2. b \in Slots /\ b.slot = out.height
    <3> HIDE DEF a, n
    <3> QED BY <1>3, <2>1, <2>5 DEF Last
  <2> HIDE DEF b
  <2>3. depth \in Int
    BY <1>3
  <2>4. [b EXCEPT !.depth = depth, !.captured = self] \in Slots
        /\ [b EXCEPT !.depth = depth, !.captured = self].depth = depth
        /\ [b EXCEPT !.depth = depth, !.captured = self].slot = out.height
    BY <2>2, <2>3 DEF Slots
  <2> QED BY <2>4 DEF b
<1> HIDE DEF new
<1>7. locs \in Seq(Slots) /\ Len(locs) = n + 1 /\ locs[n + 1] = new /\ \A i \in 1..n : locs[i] = locals[i]
  BY <1>3, <1>6
<1>8. Undefined(locs) = U
  <2>1. ~ (locs[n + 1].depth = UNINITIALIZED)
    BY <1>3, <1>6, <1>7 DEF UNINITIALIZED
  <2> QED BY <1>3, <1>7, <2>1 DEF Undefined
<1>9. PlanFrom(out, loops, locs, t, Q, U, E, Jumps)
  <2> HIDE DEF U, E, t
  <2>1. new.depth = UNINITIALIZED \/ (Q.x = 0 /\ new.depth = Q.d)
    BY <1>2, <1>6
  <2>2. new.slot < Q.e + (Len(locals) + 1)
    BY <1>2, <1>3, <1>6
  <2>3. \/ new.depth = UNINITIALIZED
        \/ Q.x = 0 /\ new.depth = Q.d /\ new.slot < Q.e + (Len(locals) + 1)
    BY <2>1, <2>2
  <2> QED BY <1>2, <1>3, <1>6, <2>3, FromAppend
<1>10. Simple(op) /\ Effect(op, new) = 1 /\ op \notin Awaiting
  BY SimpleOps DEF Effect, Awaiting
<1> HIDE DEF op, locs
<1>11. CodeOK(m) /\ Grows(out, m) /\ m.height = out.height + 1 /\ Unresolved(m) = Unresolved(out)
  <2>1. out.height + Effect(op, new) \in Nat /\ new \in Int \cup Slots
    BY <1>3, <1>6, <1>10
  <2>2. MayEmit(out, op, new)
    BY <1>10, <2>1, SimpleEmit
  <2>3. /\ CodeOK(m) /\ Grows(out, m) /\ m.height = out.height + Effect(op, new)
        /\ Unresolved(m) = Unresolved(out) \cup (IF op \in Awaiting THEN {Len(out.code) + 1} ELSE {})
    BY <1>3, <2>2, EmitKeeps
  <2>4. Unresolved(m) = Unresolved(out)
    BY <1>10, <2>3
  <2> QED BY <1>10, <2>3, <2>4
<1> HIDE DEF m
<1>12. CodeOK(e) /\ Grows(m, e) /\ e.height = out.height + 1 /\ Unresolved(e) = Unresolved(out)
  BY <1>6, <1>11, NameKeeps
<1>13. Grows(out, e)
  BY <1>3, <1>11, <1>12, GrowsTransitive
<1> HIDE DEF e, t, u
<1>14. PlanFrom(e, loops, locs, t, Q, U, E, Jumps)
  BY <1>3, <1>9, <1>12, <1>13, FromGrow
<1>15. \A i \in 1..Len(locs) : locs[i].depth <= depth /\ locs[i].depth \in Int
  <2> SUFFICES ASSUME NEW i \in 1..Len(locs) PROVE locs[i].depth <= depth /\ locs[i].depth \in Int
    OBVIOUS
  <2>1. CASE i = n + 1
    BY <1>3, <1>6, <1>7, <2>1
  <2>2. CASE i # n + 1
    <3> HIDE DEF n
    <3>1. i \in 1..n
      BY <1>3, <1>7, <2>2
    <3> QED BY <1>3, <1>7, <3>1
  <2> QED BY <2>1, <2>2
<1>16. Known(e, loops, locs, depth)
  <2>1. e.height \in Nat /\ e.height >= 1 /\ Len(locs) \in Nat
    BY <1>3, <1>7, <1>12
  <2>2. Low(locs, e.height)
    <3> SUFFICES ASSUME NEW i \in 1..Len(locs), locs[i].depth # UNINITIALIZED
                 PROVE  locs[i].slot < out.height + 1
      BY <1>12 DEF Low
    <3>1. CASE i = n + 1
      BY <1>3, <1>6, <1>7, <3>1
    <3>2. CASE i # n + 1
      <4>2. Low(locals, out.height) /\ \A j \in 1..n : locals[j].slot \in Int
        <5>1. Low(locals, out.height)
          BY <1>1 DEF Known, KnownOf
        <5>2. \A j \in 1..n : locals[j] \in Slots
          BY <1>3
        <5> QED BY <5>1, <5>2 DEF Slots
      <4>3. n = Len(locals)
        OBVIOUS
      <4> HIDE DEF n
      <4>1. i \in 1..n
        BY <1>3, <1>7, <3>2
      <4> QED BY <1>3, <1>7, <4>1, <4>2, <4>3 DEF Low
    <3> QED BY <3>1, <3>2
  <2> QED BY <1>3, <1>7, <1>12, <1>15, <2>1, <2>2 DEF Known
<1>17. P \in Places /\ P.e = out.height - n /\ P.n = n + 1 /\ P.d = depth /\ P.l = Len(loops) /\ P.x = 1
  <2>1. e.height \in Nat /\ Len(locs) \in Nat
    BY <1>3, <1>7, <1>12
  <2>2. P \in Places /\ P.e = e.height - Len(locs) /\ P.n = Len(locs) /\ P.d = depth /\ P.l = Len(loops) /\ P.x = 1
    BY <1>3, <2>1 DEF Place, Places
  <2>3. e.height - Len(locs) = out.height - n
    <3> HIDE DEF n
    <3>1. e.height = out.height + 1 /\ Len(locs) = n + 1
      BY <1>7, <1>12
    <3>2. out.height \in Nat /\ n \in Nat
      BY <1>3
    <3> QED BY <3>1, <3>2
  <2> QED BY <1>7, <2>2, <2>3
<1>18. P = Place(e.height, Len(locs), depth, Len(loops))
  OBVIOUS
<1> HIDE DEF P
<1>19. Link(e, loops, locs, TheCheck, P, Q) /\ TheCheck.do # "define"
  <2>1. Keeps(P, Q, 0)
    BY <1>2, <1>3, <1>17 DEF Keeps, Places
  <2>2. out.height \in Int /\ Len(locals) \in Int /\ P.e = out.height - Len(locals)
    BY <1>3, <1>17
  <2>3. Link(e, loops, locs, TheCheck, P, Q)
    BY <2>1, <2>2, LinkCheck DEF TheCheck
  <2> QED BY <2>3 DEF TheCheck
<1>20. PlanFrom(e, loops, locs, u, P, U, E, Jumps)
  <2> DEFINE h == e.height
  <2>1. h \in Int /\ h >= 1 /\ P = Place(h, Len(locs), depth, Len(loops))
    BY <1>3, <1>12, <1>18
  <2>2. Q.n <= Len(locs) /\ Q.d <= depth /\ Q.l <= Len(loops)
    BY <1>2, <1>3, <1>7 DEF Places
  <2>3. Added(TheCheck, P, U, E, Jumps, U, E, Jumps)
    BY DEF Added
  <2>4. \A i \in 1..Len(locs) : locs[i].depth <= depth
    BY <1>15
  <2>5. Low(locs, h)
    BY <1>16 DEF Known
  <2> HIDE DEF h, U, E, n
  <2> QED BY <1>3, <1>7, <1>14, <1>19, <2>1, <2>2, <2>3, <2>4, <2>5, Push DEF u
<1>21. Unresolved(e) \ Broken(loops) \subseteq Jumps
  BY <1>12 DEF Jumps
<1>22. Working(e, loops, locs, depth, u)
  BY <1>8, <1>16, <1>18, <1>20, <1>21, Placed
<1> QED BY <1>4, <1>5, <1>22 DEF NowWorking

(* The body of a loop and what ends it.                                    *)
EndItem(start, p, scope) == [do |-> "end loop", start |-> start, p |-> p, scope |-> scope]

LEMMA EndItemAdds ==
  ASSUME NEW start, NEW p, NEW scope, NEW P, NEW U, NEW n \in Nat, P.l = n + 1, NEW W
  PROVE  /\ EndItem(start, p, scope).do # "define"
         /\ Added(EndItem(start, p, scope), P, U, 1..n, W, U, 1..n + 1, W \cup {p})
<1> DEFINE it == EndItem(start, p, scope)
<1>1. it.do = "end loop" /\ Awaits(it) = {p}
  BY DEF EndItem, Awaits
<1>2. \A m \in 1..n + 1 : m \in 1..n \/ m = P.l
  OBVIOUS
<1>3. it.do # "define" /\ (it.do = "end loop") = TRUE
  BY <1>1
<1> HIDE DEF it
<1>4. \A m \in 1..n + 1 : m \in 1..n \/ (it.do = "end loop" /\ m = P.l)
  <2> DEFINE b == it.do = "end loop"
  <2>1. b
    BY <1>3
  <2> HIDE DEF b
  <2>2. \A m \in 1..n + 1 : m \in 1..n \/ (b /\ m = P.l)
    BY <1>2, <2>1
  <2> QED BY <2>2 DEF b
<1>5. \A q \in W \cup {p} : q \in W \/ q \in Awaits(it)
  BY <1>1
<1>6. Added(it, P, U, 1..n, W, U, 1..n + 1, W \cup {p})
  BY <1>4, <1>5, Zenon DEF Added
<1> QED BY <1>3, <1>6 DEF it

LEMMA LoopAdded ==
  ASSUME KnownOf(out), NEW scopeDepth \in Int, NEW target \in Int, BeginLoop(scopeDepth, target)
  PROVE  \E new \in Loops :
           /\ loops' = Append(loops, new) /\ loops' \in Seq(Loops) /\ Len(loops') = Len(loops) + 1
           /\ \A m \in 1..Len(loops) : loops'[m] = loops[m]
           /\ loops'[Len(loops) + 1] = new
           /\ new.scopeDepth = scopeDepth /\ new.continueDepth = depth
           /\ new.continueTarget = target /\ new.breaks = {} /\ new.height = out.height - 1
           /\ new.locals = Len(locals)
           /\ Broken(loops') = Broken(loops)
<1> DEFINE new == [scopeDepth |-> scopeDepth, continueDepth |-> depth, continueTarget |-> target,
                   breaks |-> {}, height |-> out.height - 1, locals |-> Len(locals)]
           n == Len(loops)
<1>1. out.height \in Nat /\ Len(locals) \in Nat /\ depth \in Nat /\ loops \in Seq(Loops) /\ n \in Nat
  BY DEF Known, KnownOf
<1>2. /\ new.scopeDepth = scopeDepth /\ new.continueDepth = depth
      /\ new.continueTarget = target /\ new.breaks = {} /\ new.height = out.height - 1
      /\ new.locals = Len(locals)
  OBVIOUS
<1>3. new \in Loops
  <2>1. out.height - 1 \in Int /\ Len(locals) \in Int /\ depth \in Int /\ {} \in SUBSET Int
    BY <1>1
  <2> QED BY <2>1 DEF Loops
<1>4. loops' = Append(loops, new)
  BY DEF BeginLoop
<1> HIDE DEF new
<1>5. /\ loops' \in Seq(Loops) /\ Len(loops') = n + 1 /\ \A m \in 1..n : loops'[m] = loops[m]
      /\ loops'[n + 1] = new
  BY <1>1, <1>3, <1>4
<1>6. Broken(loops') = Broken(loops)
  <2> DEFINE ls == loops'
  <2>1. Len(ls) = n + 1 /\ \A m \in 1..n : ls[m] = loops[m]
    BY <1>5
  <2>2. ls[n + 1].breaks = {}
    BY <1>2, <1>5
  <2> HIDE DEF ls
  <2>3. Broken(ls) = Broken(loops)
    <3>1. \A b : b \in Broken(ls) <=> \E m \in 1..n + 1 : b \in ls[m].breaks
      BY <2>1 DEF Broken
    <3>2. \A b : b \in Broken(loops) <=> \E m \in 1..n : b \in loops[m].breaks
      BY DEF Broken
    <3>3. \A m : m \in 1..n + 1 <=> m \in 1..n \/ m = n + 1
      BY <1>1
    <3> QED BY <2>1, <2>2, <3>1, <3>2, <3>3
  <2> QED BY <2>3 DEF ls
<1> QED BY <1>2, <1>3, <1>4, <1>5, <1>6

(* Where the current place is in the scope that a loop closes, if it does. *)
ScopeAround(scope, Q) ==
  \/ scope = TRUE /\ depth = Q.d + 1 /\ (Len(locals) = Q.n + 1 \/ Len(locals) = Q.n)
  \/ scope = FALSE /\ depth = Q.d /\ Len(locals) = Q.n

(* What a loop's body and its end ask for.                                 *)
Body(e, Q, target, start, p, scope) ==
  /\ Q.e = e.height - Len(locals) /\ Q.l = Len(loops) /\ Q.x = 1
  /\ Landing(e, target, e.height) /\ Landing(e, start, e.height) /\ Patchable(e, p, e.height + 1)
  /\ ScopeAround(scope, Q) /\ (Len(locals) = Q.n + 1 => locals[Len(locals)].depth >= 0)

LEMMA BeginBody ==
  ASSUME KnownOf(out), NEW e, CodeOK(e), Grows(out, e), e.height = out.height - 1, e.height >= 1,
         Low(locals, e.height),
         NEW t, NEW Q \in Places, NEW W,
         PlanFrom(out, loops, locals, t, Q, Undefined(locals), 1..Len(loops), W),
         NEW target, NEW start, NEW p, NEW scope \in BOOLEAN, Body(e, Q, target, start, p, scope),
         BeginLoop(Q.d, target),
         NEW u, u = Cons(Stmt, Cons(EndItem(start, p, scope), t)), todo' = u, out' = e,
         UNCHANGED <<locals, depth>>, Unresolved(e) \ Broken(loops) \subseteq W \cup {p}
  PROVE  NowWorking'
<1> DEFINE n == Len(loops)
           U == Undefined(locals)
           it == EndItem(start, p, scope)
           S == Now(e, loops', locals, depth, 0)
           W2 == W \cup {p}
           t1 == Cons(it, t)
<1>1. /\ CodeOK(out) /\ locals \in Seq(Slots) /\ loops \in Seq(Loops) /\ out.height \in Nat
      /\ Len(locals) \in Nat /\ n \in Nat /\ depth \in Nat
      /\ \A i \in 1..Len(locals) : locals[i].depth <= depth /\ locals[i].depth \in Int
  BY DEF Known, KnownOf
<1>2. Q.d \in Int /\ target \in Int /\ Q.n \in Nat
  BY DEF Places, Body, Landing
<1>3. PICK new \in Loops :
           /\ loops' = Append(loops, new) /\ loops' \in Seq(Loops) /\ Len(loops') = n + 1
           /\ \A m \in 1..n : loops'[m] = loops[m]
           /\ loops'[n + 1] = new
           /\ new.scopeDepth = Q.d /\ new.continueDepth = depth
           /\ new.continueTarget = target /\ new.breaks = {} /\ new.height = out.height - 1
           /\ new.locals = Len(locals)
           /\ Broken(loops') = Broken(loops)
  BY <1>2, LoopAdded
<1>4. Known(e, loops', locals, depth)
  BY <1>1, <1>3, OutFacts DEF Known
<1>5. e.height \in Nat /\ Low(locals, e.height)
  BY <1>4 DEF Known
<1>6. PlanFrom(e, loops', locals, t, Q, U, 1..n, W)
  <2> DEFINE ls == loops'
  <2>1. Q.l = n
    BY DEF Body
  <2>2. \A m \in 1..Q.l : ls[m] = loops[m]
    BY <1>3, <2>1
  <2> HIDE DEF ls, U, n
  <2>3. PlanFrom(e, loops, locals, t, Q, U, 1..n, W)
    BY <1>1, FromGrow DEF U, n
  <2>4. PlanFrom(e, ls, locals, t, Q, U, 1..n, W)
    BY <2>2, <2>3, FromLoops
  <2> QED BY <2>4 DEF ls
<1>7. /\ S \in Places /\ S.e = e.height - Len(locals) /\ S.n = Len(locals) /\ S.d = depth
      /\ S.l = n + 1 /\ S.x = 1 /\ H(S) = e.height /\ Fits(locals, S)
  <2> DEFINE k == 0
             R == Now(e, loops', locals, depth, k)
  <2>1. k \in Int /\ e.height + k \in Nat /\ e.height + k >= 1 /\ e.height + k = e.height
    BY <1>5
  <2> HIDE DEF k
  <2>3. Low(locals, e.height + k)
    BY <1>5, <2>1
  <2>2. /\ R \in Places /\ R.e = (e.height + k) - Len(locals) /\ R.n = Len(locals) /\ R.d = depth
        /\ R.l = Len(loops') /\ R.x = 1 /\ H(R) = e.height + k /\ Fits(locals, R)
    BY <1>4, <2>1, <2>3, NowFields
  <2> QED BY <1>3, <2>1, <2>2 DEF k
<1> HIDE DEF S
<1>8. Link(e, loops', locals, it, S, Q)
  <2> DEFINE ls == loops'
  <2>1. S.l >= 1 /\ Q.l = S.l - 1 /\ Q.e = S.e /\ Q.x = 1
    BY <1>1, <1>7 DEF Body
  <2>2. Landing(e, start, H(S)) /\ Patchable(e, p, H(S) + 1)
    BY <1>7 DEF Body
  <2>3. H(S) = out.height - 1
    BY <1>7
  <2>4. ls[S.l] = new
    BY <1>3, <1>7
  <2>5. Landing(e, new.continueTarget, H(S))
    BY <1>3, <1>7 DEF Body
  <2>6. LoopOf(e, new, S, Q)
    BY <1>3, <1>7, <2>3, <2>5 DEF LoopOf
  <2>7. ClosesFor(scope, S, Q) /\ (S.n = Q.n + 1 => locals[S.n].depth >= 0)
    BY <1>7 DEF Body, ScopeAround, ClosesFor
  <2> HIDE DEF ls, it
  <2>8. LoopOf(e, ls[S.l], S, Q)
    BY <2>4, <2>6
  <2>9. Link(e, ls, locals, it, S, Q)
    BY <1>7, <2>1, <2>2, <2>7, <2>8, LinkEndLoop DEF it, EndItem
  <2> QED BY <2>9 DEF ls
<1>9. it.do # "define" /\ Added(it, S, U, 1..n, W, U, 1..n + 1, W2)
  BY <1>1, <1>7, EndItemAdds
<1> HIDE DEF it, U, W2, n
<1>10. PlanFrom(e, loops', locals, t1, S, U, 1..n + 1, W2)
  <2> DEFINE ls == loops'
  <2>1. PlanFrom(e, ls, locals, t, Q, U, 1..n, W) /\ Link(e, ls, locals, it, S, Q)
    BY <1>6, <1>8
  <2> HIDE DEF ls
  <2>2. Before(S, Q)
    <3>1. Q.n <= S.n /\ Q.d <= S.d
      <4>1. ScopeAround(scope, Q)
        BY DEF Body
      <4>2. Q.d \in Nat
        BY DEF Places
      <4> QED BY <1>1, <1>2, <1>7, <4>1, <4>2 DEF ScopeAround
    <3>2. Q.l <= S.l
      BY <1>1, <1>7 DEF Body, n
    <3> QED BY <1>7, <3>1, <3>2 DEF Before
  <2>3. PlanFrom(e, ls, locals, t1, S, U, 1..n + 1, W2)
    BY <1>7, <1>9, <2>1, <2>2, FromCons DEF Cons
  <2> QED BY <2>3 DEF ls
<1> HIDE DEF t1
<1>11. PlanFrom(e, loops', locals, u, S, U, 1..n + 1, W2)
  <2> DEFINE j == 0
             ls == loops'
             R == Now(e, ls, locals, depth, j)
  <2>1. R = S /\ Known(e, ls, locals, depth) /\ PlanFrom(e, ls, locals, t1, S, U, 1..n + 1, W2)
    BY <1>4, <1>10 DEF S
  <2>2. j \in Int /\ e.height + j \in Nat /\ e.height + j >= 1 /\ j - j = 0
        /\ e.height + j = e.height
    BY <1>5
  <2>3. Link(e, ls, locals, Stmt, R, R) /\ Stmt.do # "define"
    <3>1. Keeps(R, R, 0)
      BY <1>7, <2>1 DEF Keeps, Places
    <3> QED BY <3>1, Links DEF Stmt
  <2>4. R = Now(e, ls, locals, depth, j)
    OBVIOUS
  <2>5. \A q \in W2 : q \in W2 \/ q \in Awaits(Stmt)
    OBVIOUS
  <2>6. u = Cons(Stmt, t1)
    BY DEF t1, it
  <2> HIDE DEF j, ls, R
  <2>8. Low(locals, e.height + j)
    BY <1>5, <2>2
  <2>7. PlanFrom(e, ls, locals, u, R, U, 1..n + 1, W2)
    BY <2>1, <2>2, <2>3, <2>4, <2>5, <2>6, <2>8, PushItem
  <2> QED BY <2>1, <2>7 DEF ls
<1>12. Working(e, loops', locals, depth, u)
  <2> DEFINE ls == loops'
  <2>1. Known(e, ls, locals, depth) /\ S = Now(e, ls, locals, depth, 0) /\ Len(ls) = n + 1
        /\ PlanFrom(e, ls, locals, u, S, U, 1..n + 1, W2)
    BY <1>3, <1>4, <1>11 DEF S, n
  <2>2. Unresolved(e) \ Broken(ls) \subseteq W2
    BY <1>3 DEF W2
  <2> HIDE DEF ls
  <2>3. Working(e, ls, locals, depth, u)
    BY <2>1, <2>2, Ready DEF U
  <2> QED BY <2>3 DEF ls
<1> QED BY <1>12 DEF NowWorking

(* An item at the head of a loop, and what comes behind the loop.          *)
LoopItem(it) == it.do \in {"while", "for", "for exit", "for increment"}
NextOf(it, t, Q) ==
  /\ PlanFrom(out, loops, locals, t, Q, Undefined(locals), 1..Len(loops), Jumps \ Awaits(it))
  /\ Link(out, loops, locals, it, Now(out, loops, locals, depth, 0), Q) /\ Fits(locals, Q)
  /\ \A i \in Undefined(locals) : i <= Q.n

LEMMA NextLoop ==
  ASSUME NowWorking, todo # << >>, LoopItem(todo[1])
  PROVE  /\ KnownOf(out) /\ IsSeq(Tail(todo)) /\ Head(todo) = todo[1]
         /\ out.height \in Nat /\ out.height >= 1 /\ Len(locals) \in Nat /\ depth \in Nat
         /\ \E Q \in Places : NextOf(todo[1], Tail(todo), Q)
<1> DEFINE it == todo[1]
           t == Tail(todo)
           P == Place(out.height, Len(locals), depth, Len(loops))
<1>1. KnownOf(out) /\ Head(todo) = it /\ \E Q \in Places : Behind(out, loops, locals, depth, it, t, Q)
  BY Begin DEF NowWorking, KnownOf
<1>2. PICK Q \in Places : Behind(out, loops, locals, depth, it, t, Q)
  BY <1>1
<1>3. it.do # "define" /\ it.do # "end loop"
  BY DEF LoopItem
<1>4. out.height \in Nat /\ out.height >= 1 /\ Len(locals) \in Nat /\ depth \in Nat
  BY <1>1 DEF Known, KnownOf
<1>5. P = Now(out, loops, locals, depth, 0)
  BY <1>4 DEF Now
<1>6. /\ IsSeq(t) /\ PlanFrom(out, loops, locals, t, Q, Undefined(locals), 1..Len(loops), Jumps \ Awaits(it))
      /\ Link(out, loops, locals, it, P, Q) /\ Fits(locals, Q) /\ \A i \in Undefined(locals) : i <= Q.n
  BY <1>2, <1>3 DEF Behind, StillUndefined, StillOpen, Jumps
<1> HIDE DEF P
<1>7. NextOf(it, t, Q)
  BY <1>5, <1>6 DEF NextOf
<1> QED BY <1>1, <1>4, <1>6, <1>7

LEMMA StepWhileBody == ASSUME NowWorking, WhileBody PROVE NowWorking'
<1> DEFINE t == Tail(todo)
           it == todo[1]
           e == EmitTest(out)
           p == Here(out)
           start == it.start
           scope == FALSE
           end == EndItem(start, p, scope)
           u == Cons(Stmt, Cons(end, t))
           P == Now(out, loops, locals, depth, 0)
<1>1. todo # << >> /\ it.do = "while" /\ LoopItem(it)
  BY Begin DEF WhileBody, Doing, NowWorking, LoopItem
<1>2. /\ KnownOf(out) /\ IsSeq(t) /\ Head(todo) = it
      /\ out.height \in Nat /\ out.height >= 1 /\ Len(locals) \in Nat /\ depth \in Nat
      /\ \E Q \in Places : NextOf(it, t, Q)
  BY <1>1, NextLoop
<1>3. PICK Q \in Places : NextOf(it, t, Q)
  BY <1>2
<1>4. /\ P \in Places /\ P.e = out.height - Len(locals) /\ P.n = Len(locals) /\ P.d = depth
      /\ P.l = Len(loops) /\ P.x = 1 /\ H(P) = out.height
  BY <1>2, Here0
<1>5. Q.x = 1 /\ Keeps(P, Q, -1) /\ H(P) >= 2 /\ Landing(out, start, H(P) - 1)
  <2>1. Link(out, loops, locals, it, P, Q)
    BY <1>3 DEF NextOf
  <2> QED BY <1>1, <2>1 DEF Link, LinkLoop
<1>6. Jumps \ Awaits(it) = Jumps
  BY <1>1 DEF Awaits
<1>7. out' = e /\ BeginLoop(depth, start) /\ UNCHANGED <<locals, depth>>
  BY <1>2 DEF WhileBody
<1>8. todo' = <<Stmt, end>> \o t
  BY <1>2 DEF WhileBody, Do, EndItem
<1>9. todo' = u
  <2> HIDE DEF t, end
  <2> QED BY <1>2, <1>8, Items2
<1> HIDE DEF P, it, e, p, t
<1>19. Low(locals, out.height - 1)
  <2>1. Q.n = Len(locals) /\ Q.d = depth /\ Q.e = P.e - 1
    BY <1>2, <1>4, <1>5 DEF Keeps, Places
  <2>2. HasSlots(locals, Q.e, Q.n, depth)
    BY <1>3, <2>1 DEF NextOf, Fits
  <2>3. locals \in Seq(Slots) /\ \A i \in 1..Len(locals) : locals[i].depth <= depth
    BY <1>2 DEF Known, KnownOf
  <2>6. depth \in Nat /\ Q.e \in Int /\ Q.n \in Nat /\ Q.n <= Len(locals)
    BY <1>2, <1>5, <2>1, PlaceNumbers DEF Known, KnownOf
  <2>4. Low(locals, Q.e + Len(locals))
    BY <2>2, <2>3, <2>6, LowFits
  <2>5. Q.e + Len(locals) = out.height - 1
    BY <1>2, <1>4, <2>1
  <2> QED BY <2>4, <2>5
<1>10. /\ KnownOf(e) /\ CodeOK(e) /\ Grows(out, e) /\ e.height = out.height - 1
       /\ Patchable(e, p, out.height) /\ Unresolved(e) = Unresolved(out) \cup {p}
  BY <1>2, <1>4, <1>5, <1>19, TestKeeps DEF e, p
<1>11. e.height >= 1 /\ e.height + 1 = out.height
  BY <1>2, <1>4, <1>5, <1>10
<1>12. Q.n = Len(locals) /\ Q.d = depth /\ Q.l = Len(loops) /\ Q.e = e.height - Len(locals)
  <2>1. Q.n = P.n /\ Q.d = P.d /\ Q.l = P.l /\ Q.e = P.e - 1
    BY <1>4, <1>5 DEF Keeps, Places
  <2> QED BY <1>2, <1>4, <1>10, <2>1
<1>13. Landing(e, start, e.height)
  <2> DEFINE h == H(P) - 1
  <2>1. Landing(out, start, h) /\ h = e.height
    BY <1>4, <1>5, <1>10
  <2> HIDE DEF h
  <2>2. Landing(e, start, h)
    BY <1>2, <1>10, <2>1, GrowsKeeps DEF Known, KnownOf
  <2> QED BY <2>1, <2>2
<1>14. Body(e, Q, start, start, p, scope) /\ scope \in BOOLEAN
  <2>1. ScopeAround(scope, Q) /\ ~ (Len(locals) = Q.n + 1) /\ scope \in BOOLEAN
    BY <1>2, <1>12 DEF ScopeAround
  <2>2. /\ Q.e = e.height - Len(locals) /\ Q.l = Len(loops) /\ Q.x = 1
        /\ Landing(e, start, e.height) /\ Patchable(e, p, e.height + 1)
    BY <1>5, <1>10, <1>11, <1>12, <1>13
  <2> HIDE DEF scope
  <2> QED BY <2>1, <2>2 DEF Body
<1>15. PlanFrom(out, loops, locals, t, Q, Undefined(locals), 1..Len(loops), Jumps)
  BY <1>3, <1>6 DEF NextOf
<1>16. Unresolved(e) \ Broken(loops) \subseteq Jumps \cup {p}
  BY <1>10 DEF Jumps
<1>17. BeginLoop(Q.d, start)
  BY <1>7, <1>12
<1>20. Low(locals, e.height)
  BY <1>10, <1>19
<1>18. u = Cons(Stmt, Cons(EndItem(start, p, scope), t))
  OBVIOUS
<1> HIDE DEF start, u, scope
<1> QED BY <1>2, <1>7, <1>9, <1>10, <1>11, <1>14, <1>15, <1>16, <1>17, <1>18, <1>20, BeginBody

LEMMA StepForCondition == ASSUME NowWorking, ForCondition PROVE NowWorking'
<1> DEFINE t == Tail(todo)
           it == todo[1]
           start == Here(out)
           scope == it.scope
           exit == [do |-> "for exit", start |-> start, scope |-> scope]
           t1 == Cons(exit, t)
           u == Cons(Expr, t1)
           P == Now(out, loops, locals, depth, 0)
           k == 1
           S == Now(out, loops, locals, depth, k)
           U == Undefined(locals)
           E == 1..Len(loops)
<1>1. todo # << >> /\ it.do = "for" /\ LoopItem(it)
  BY Begin DEF ForCondition, Doing, NowWorking, LoopItem
<1>2. /\ KnownOf(out) /\ IsSeq(t) /\ Head(todo) = it
      /\ out.height \in Nat /\ out.height >= 1 /\ Len(locals) \in Nat /\ depth \in Nat
      /\ \E Q \in Places : NextOf(it, t, Q)
  BY <1>1, NextLoop
<1>3. PICK Q \in Places : NextOf(it, t, Q)
  BY <1>2
<1>4. /\ P \in Places /\ P.e = out.height - Len(locals) /\ P.n = Len(locals) /\ P.d = depth
      /\ P.l = Len(loops) /\ P.x = 1 /\ H(P) = out.height
  BY <1>2, Here0
<1>5. EndsFor(scope, P, Q, 0)
  <2>1. Link(out, loops, locals, it, P, Q)
    BY <1>3 DEF NextOf
  <2> QED BY <1>1, <2>1 DEF Link, LinkLoop
<1>6. Jumps \ Awaits(it) = Jumps
  BY <1>1 DEF Awaits
<1>7. todo' = <<Expr, exit>> \o t
  BY <1>2 DEF ForCondition, Do
<1>8. todo' = u
  <2> HIDE DEF t, exit
  <2> QED BY <1>2, <1>7, Items2
<1>9. k \in Int /\ out.height + k \in Nat /\ out.height + k >= 1 /\ (out.height + k) - 1 = out.height
  BY <1>2
<1>10. PlanFrom(out, loops, locals, t, Q, U, E, Jumps)
  BY <1>3, <1>6 DEF NextOf
<1>11. exit.do # "define"
  OBVIOUS
<1> HIDE DEF P, it, t, scope
<1>12. Q.e = out.height - Len(locals) /\ Q.l = Len(loops) /\ Q.x = 1 /\ ScopeAround(scope, Q)
  BY <1>2, <1>4, <1>5 DEF EndsFor, ClosesFor, ScopeAround, Places
<1>21. Q.n <= Len(locals) /\ Q.d <= depth /\ Q.l <= Len(loops)
  <2>1. Q.n \in Nat /\ Q.d \in Nat /\ Q.l \in Nat
    BY DEF Places
  <2> QED BY <1>2, <1>12, <2>1 DEF ScopeAround
<1>13. /\ S \in Places /\ S.e = (out.height + k) - Len(locals) /\ S.n = Len(locals) /\ S.d = depth
       /\ S.l = Len(loops) /\ S.x = 1 /\ H(S) = out.height + k
  <2> HIDE DEF k
  <2>1. Known(out, loops, locals, depth)
    BY <1>2 DEF KnownOf
  <2> QED BY <1>9, <2>1, NowFields
<1> HIDE DEF S
<1>14. EndsFor(scope, S, Q, -1)
  <2>1. Q.e = S.e + -1
    BY <1>2, <1>9, <1>12, <1>13
  <2>2. ClosesFor(scope, S, Q)
    BY <1>12, <1>13 DEF ClosesFor, ScopeAround
  <2> QED BY <1>12, <1>13, <2>1, <2>2 DEF EndsFor
<1>15. Landing(out, start, H(S) - 1)
  <2>1. H(S) - 1 = out.height
    BY <1>9, <1>13
  <2>2. Len(out.code) \in Nat
    BY <1>2, OutFacts DEF Known, KnownOf
  <2>3. Landing(out, start, out.height)
    BY <2>2 DEF Landing, Here, HeightAt
  <2> QED BY <2>1, <2>3
<1> HIDE DEF start
<1>20. Under(locals, S)
  <2>1. k >= 1
    OBVIOUS
  <2> HIDE DEF k
  <2> QED BY <1>2, <1>9, <2>1, UnderNow DEF S
<1>16. Link(out, loops, locals, exit, S, Q)
  BY <1>14, <1>15, <1>20, LinkForExit
<1> HIDE DEF exit, k
<1>17. PlanFrom(out, loops, locals, t1, S, U, E, Jumps)
  <2>2. Added(exit, S, U, E, Jumps, U, E, Jumps)
    BY DEF Added
  <2> HIDE DEF U, E
  <2> QED BY <1>2, <1>9, <1>10, <1>11, <1>16, <1>21, <2>2, PutAt, SMTT(60) DEF S
<1>18. From(out, t1, 1, Jumps)
  BY <1>17 DEF From, S, k
<1> HIDE DEF t1
<1>19. From(out, u, 0, Jumps)
  BY <1>2, <1>18, Puts
<1> HIDE DEF u
<1> QED BY <1>2, <1>8, <1>19, OnwardItems DEF ForCondition

(* A jump whose target is not known yet.                                   *)
LEMMA JumpKeeps ==
  ASSUME NEW o, CodeOK(o)
  PROVE  LET e == Emit(o, "jump", 0)
         IN  /\ CodeOK(e) /\ Grows(o, e) /\ e.height = o.height
             /\ Unresolved(e) = Unresolved(o) \cup {Here(o)}
             /\ Patchable(e, Here(o), o.height) /\ Landing(e, Here(o) + 1, o.height)
             /\ Here(o) \in Nat /\ Here(o) >= 1
<1> DEFINE jump == "jump"
           arg == 0
           e == Emit(o, jump, arg)
           n == Len(o.code)
<1>1. jump \in Awaiting /\ jump \in Ops /\ Effect(jump, arg) = 0
  BY JumpOps
<1>2. o.height \in Nat /\ n \in Nat
  BY OutFacts
<1>3. MayEmit(o, jump, arg)
  <2> HIDE DEF jump
  <2> QED BY <1>1, <1>2, MayJump
<1> HIDE DEF jump, arg
<1>4. /\ CodeOK(e) /\ Grows(o, e) /\ e.height = o.height + Effect(jump, arg) /\ Len(e.code) = n + 1
      /\ e.code[n + 1].op = jump /\ e.code[n + 1].height = o.height
      /\ Unresolved(e) = Unresolved(o) \cup (IF jump \in Awaiting THEN {n + 1} ELSE {})
  BY <1>3, EmitKeeps
<1>5. Unresolved(e) = Unresolved(o) \cup {n + 1}
  BY <1>1, <1>4
<1> HIDE DEF e
<1>6. e.height = o.height
  BY <1>1, <1>2, <1>4
<1>7. Patchable(e, n + 1, o.height)
  BY <1>1, <1>2, <1>4 DEF Patchable
<1>8. Landing(e, (n + 1) + 1, o.height)
  BY <1>2, <1>4, <1>6 DEF Landing, HeightAt
<1>9. e = Emit(o, "jump", 0) /\ Here(o) = n + 1
  BY DEF e, jump, arg, Here
<1> HIDE DEF n
<1> QED BY <1>2, <1>4, <1>5, <1>6, <1>7, <1>8, <1>9

(* Behind a for statement its variable is gone.                            *)
ForPlace(scope, Q) ==
  /\ Q.e = (out.height - 1) - Len(locals) /\ Q.l = Len(loops) /\ Q.x = 1
  /\ scope \in BOOLEAN /\ OuterDepth(scope) = Q.d /\ ScopeAround(scope, Q)
  /\ Q.n <= Len(locals) /\ Q.d <= depth
  /\ Len(locals) = Q.n + 1 => locals[Len(locals)].depth >= 0

LEMMA VariableOfFor ==
  ASSUME KnownOf(out), NEW Q \in Places, Fits(locals, Q), \A i \in Undefined(locals) : i <= Q.n,
         NEW scope, EndsFor(scope, Now(out, loops, locals, depth, 0), Q, -1)
  PROVE  out.height >= 2 /\ ForPlace(scope, Q)
<1> DEFINE P == Now(out, loops, locals, depth, 0)
           n == Len(locals)
<1>1. /\ P \in Places /\ P.e = out.height - n /\ P.n = n /\ P.d = depth /\ P.l = Len(loops) /\ P.x = 1
  BY Here0
<1>2. EndsFor(scope, P, Q, -1)
  OBVIOUS
<1>3. /\ out.height \in Nat /\ n \in Nat /\ depth \in Nat /\ locals \in Seq(Slots)
      /\ \A i \in 1..n : locals[i].depth \in Int
  BY DEF Known, KnownOf
<1> HIDE DEF P
<1>4. Q.e \in Int /\ Q.n \in Nat /\ Q.d \in Nat
  BY DEF Places
<1>5. Q.e = P.e + -1 /\ Q.l = P.l /\ Q.x = 1 /\ ClosesFor(scope, P, Q)
  BY <1>2 DEF EndsFor
<1>6. Q.e = (out.height - 1) - n /\ Q.l = Len(loops)
  BY SMTT(30), <1>1, <1>3, <1>4, <1>5
<1>10. ScopeAround(scope, Q) /\ scope \in BOOLEAN
  BY <1>1, <1>5 DEF ScopeAround, ClosesFor
<1>11. OuterDepth(scope) = Q.d /\ Q.n <= n /\ Q.d <= depth
  BY <1>3, <1>4, <1>10 DEF ScopeAround, OuterDepth
<1>7. Q.e + Q.n >= 1
  BY DEF Fits
<1>8. out.height >= 2
  BY <1>3, <1>4, <1>6, <1>7, <1>11
<1>9. ASSUME n = Q.n + 1 PROVE locals[n].depth >= 0
  <2>1. n \in 1..n /\ n > Q.n /\ ~ (n <= Q.n)
    BY <1>3, <1>4, <1>9
  <2>2. locals[n].depth = UNINITIALIZED \/ locals[n].depth > Q.d
    BY <1>5, <2>1 DEF Fits
  <2>3. ~ (locals[n].depth = UNINITIALIZED)
    BY <2>1 DEF Undefined
  <2> QED BY <1>3, <1>4, <2>1, <2>2, <2>3
<1> QED BY <1>5, <1>6, <1>8, <1>9, <1>10, <1>11 DEF ForPlace

LEMMA ForBody ==
  ASSUME KnownOf(out), NEW e, CodeOK(e), e.height = out.height - 1, NEW Q \in Places,
         NEW target, Landing(e, target, e.height), NEW start, Landing(e, start, e.height),
         NEW p, Patchable(e, p, e.height + 1), NEW scope, ForPlace(scope, Q)
  PROVE  Body(e, Q, target, start, p, scope)
<1>1. out.height \in Nat /\ Len(locals) \in Nat
  BY DEF Known, KnownOf
<1> QED BY <1>1 DEF Body, ForPlace

LEMMA StepForExit == ASSUME NowWorking, ForExit PROVE NowWorking'
<1> DEFINE t == Tail(todo)
           it == todo[1]
           m == EmitTest(out)
           p == Here(out)
           body == Here(m)
           start == it.start
           scope == it.scope
           P == Now(out, loops, locals, depth, 0)
<1>1. todo # << >> /\ it.do = "for exit" /\ LoopItem(it)
  BY Begin DEF ForExit, Doing, NowWorking, LoopItem
<1>2. /\ KnownOf(out) /\ IsSeq(t) /\ Head(todo) = it
      /\ out.height \in Nat /\ out.height >= 1 /\ Len(locals) \in Nat /\ depth \in Nat
      /\ \E Q \in Places : NextOf(it, t, Q)
  BY <1>1, NextLoop
<1>3. PICK Q \in Places : NextOf(it, t, Q)
  BY <1>2
<1>4. /\ P \in Places /\ P.e = out.height - Len(locals) /\ P.n = Len(locals) /\ P.d = depth
      /\ P.l = Len(loops) /\ P.x = 1 /\ H(P) = out.height
  BY <1>2, Here0
<1>5. EndsFor(scope, P, Q, -1) /\ Landing(out, start, H(P) - 1)
  <2>1. Link(out, loops, locals, it, P, Q)
    BY <1>3 DEF NextOf
  <2> QED BY <1>1, <2>1 DEF Link, LinkLoop
<1>6. Jumps \ Awaits(it) = Jumps
  BY <1>1 DEF Awaits
<1>18. out.height >= 2 /\ ForPlace(scope, Q)
  BY <1>2, <1>3, <1>5, VariableOfFor DEF NextOf
<1>7. /\ out.height >= 2 /\ Q.e = (out.height - 1) - Len(locals) /\ Q.l = Len(loops) /\ Q.x = 1
      /\ scope \in BOOLEAN /\ OuterDepth(scope) = Q.d /\ ScopeAround(scope, Q)
      /\ Q.n <= Len(locals) /\ Q.d <= depth
  BY <1>18 DEF ForPlace
<1>8. PlanFrom(out, loops, locals, t, Q, Undefined(locals), 1..Len(loops), Jumps)
  BY <1>3, <1>6 DEF NextOf
<1>16. Low(locals, out.height - 1)
  <2>1. Tests(it)
    BY <1>1 DEF Tests
  <2> QED BY <1>1, <2>1, TestLow
<1>9. /\ KnownOf(m) /\ CodeOK(m) /\ Grows(out, m) /\ m.height = out.height - 1
      /\ Patchable(m, p, out.height) /\ Unresolved(m) = Unresolved(out) \cup {p}
  BY <1>2, <1>7, <1>16, TestKeeps
<1>10. m.height >= 1 /\ m.height + 1 = out.height /\ m.height \in Nat
  BY <1>2, <1>7, <1>9
<1>17. Low(locals, m.height)
  BY <1>9, <1>16
<1>11. CodeOK(out)
  BY <1>2 DEF Known, KnownOf
<1>12. Landing(m, start, m.height)
  <2> DEFINE h == H(P) - 1
  <2>1. Landing(out, start, h) /\ h = m.height
    BY <1>4, <1>5, <1>9
  <2> HIDE DEF h, m, start
  <2>2. Landing(m, start, h)
    BY <1>9, <1>11, <2>1, GrowsKeeps
  <2> QED BY <2>1, <2>2
<1>13. CASE /\ out' = Emit(m, "jump", 0)
            /\ todo' = <<Expr, [do |-> "for increment", start |-> start, p |-> p, body |-> body,
                                scope |-> scope]>> \o t
            /\ UNCHANGED loops
  <2> DEFINE e == Emit(m, "jump", 0)
             it2 == [do |-> "for increment", start |-> start, p |-> p, body |-> body,
                     scope |-> scope]
             t1 == Cons(it2, t)
             u == Cons(Expr, t1)
             k == 1
             S == Now(e, loops, locals, depth, k)
             W2 == Jumps \cup {p, body}
             U == Undefined(locals)
             E == 1..Len(loops)
  <2>1. /\ CodeOK(e) /\ Grows(m, e) /\ e.height = m.height
        /\ Unresolved(e) = Unresolved(m) \cup {body}
        /\ Patchable(e, body, m.height) /\ Landing(e, body + 1, m.height)
    BY <1>9, JumpKeeps
  <2>2. Grows(out, e)
    BY <1>9, <1>11, <2>1, GrowsTransitive
  <2>3. KnownOf(e)
    <3>1. e.height >= 1 /\ Low(locals, e.height)
      BY <1>10, <1>17, <2>1
    <3> HIDE DEF e
    <3> QED BY <1>2, <2>1, <3>1, KnownGrows DEF KnownOf
  <2>4. todo' = <<Expr, it2>> \o t
    BY <1>13
  <2>5. it2.do # "define" /\ Awaits(it2) = {p, body}
    BY DEF Awaits
  <2>6. todo' = u
    <3> HIDE DEF it2, t
    <3> QED BY <1>2, <2>4, Items2
  <2>7. Patchable(e, p, out.height) /\ Landing(e, start, m.height)
    BY <1>9, <1>12, <2>1, GrowsKeeps
  <2> HIDE DEF e, m, p, body, it, t, P, start, scope
  <2>8. /\ k \in Int /\ e.height + k \in Nat /\ e.height + k >= 1 /\ e.height + k = out.height
        /\ (e.height + k) - 1 = m.height /\ e.height >= 1
    BY <1>10, <2>1
  <2>21. k >= 1 /\ k >= 0
    OBVIOUS
  <2>9. /\ S \in Places /\ S.e = (e.height + k) - Len(locals) /\ S.n = Len(locals) /\ S.d = depth
        /\ S.l = Len(loops) /\ S.x = 1 /\ H(S) = e.height + k
    <3> HIDE DEF k
    <3>1. Known(e, loops, locals, depth)
      BY <2>3 DEF KnownOf
    <3> QED BY <2>8, <3>1, NowFields
  <2> HIDE DEF S, k
  <2>22. Under(locals, S)
    BY <2>3, <2>8, <2>21, UnderNow DEF S
  <2>10. EndsFor(scope, S, Q, -1)
    <3>1. Q.e = S.e + -1
      BY <1>2, <1>7, <2>8, <2>9
    <3>2. ClosesFor(scope, S, Q)
      BY <1>7, <2>9 DEF ClosesFor, ScopeAround
    <3> QED BY <1>7, <2>9, <3>1, <3>2 DEF EndsFor
  <2>11. /\ Landing(e, start, H(S) - 1) /\ Patchable(e, p, H(S)) /\ Patchable(e, body, H(S) - 1)
         /\ Landing(e, body + 1, H(S) - 1)
    <3>1. H(S) = out.height /\ H(S) - 1 = m.height
      BY <2>8, <2>9
    <3> QED BY <2>1, <2>7, <3>1
  <2>12. Link(e, loops, locals, it2, S, Q)
    BY <2>10, <2>11, <2>22, LinkForIncrement DEF it2
  <2>13. PlanFrom(e, loops, locals, t, Q, U, E, Jumps)
    BY <1>8, <1>11, <2>1, <2>2, FromGrow
  <2>14. \A q \in W2 : q \in Jumps \/ q \in Awaits(it2)
    BY <2>5
  <2> HIDE DEF it2, U, E, W2
  <2>15. PlanFrom(e, loops, locals, t1, S, U, E, W2)
    <3>3. Q.l = Len(loops) /\ Q.l \in Nat
      BY <1>7, PlaceNumbers DEF Places
    <3>1. Q.n <= Len(locals) /\ Q.d <= depth /\ Q.l <= Len(loops)
      BY <1>7, <3>3
    <3>2. Added(it2, S, U, E, Jumps, U, E, W2)
      BY <2>14 DEF Added
    <3> QED BY <2>3, <2>5, <2>8, <2>12, <2>21, <2>13, <3>1, <3>2, PutAt DEF S
  <2>16. From(e, t1, 1, W2)
    BY <2>15 DEF From, S, k, U, E
  <2>17. e.height + 0 >= 1
    BY <1>10, <2>1
  <2> HIDE DEF t1
  <2>18. From(e, u, 0, W2)
    BY <2>3, <2>16, <2>17, Puts
  <2>19. Unresolved(e) \ Broken(loops) \subseteq W2
    BY <1>9, <2>1 DEF Jumps, W2
  <2>20. out' = e /\ UNCHANGED <<locals, depth, loops>>
    BY <1>13 DEF ForExit, e
  <2> HIDE DEF u
  <2> QED BY <2>3, <2>6, <2>18, <2>19, <2>20, Onward
<1>14. CASE /\ out' = m /\ BeginLoop(OuterDepth(scope), start)
            /\ todo' = <<Stmt, EndItem(start, p, scope)>> \o t
  <2> DEFINE end == EndItem(start, p, scope)
             u == Cons(Stmt, Cons(end, t))
  <2>1. todo' = u
    <3> HIDE DEF end, t
    <3>1. todo' = <<Stmt, end>> \o t
      BY <1>14 DEF end
    <3> QED BY <1>2, <3>1, Items2
  <2>2. scope \in BOOLEAN /\ u = Cons(Stmt, Cons(EndItem(start, p, scope), t))
    BY <1>7
  <2>3. UNCHANGED <<locals, depth>> /\ out' = m /\ BeginLoop(Q.d, start)
    BY <1>7, <1>14 DEF ForExit
  <2> HIDE DEF scope, u, m, p, it, t, P, start, body
  <2>4. Patchable(m, p, m.height + 1)
    BY <1>9, <1>10
  <2>5. Body(m, Q, start, start, p, scope)
    BY <1>2, <1>9, <1>12, <1>18, <2>4, ForBody
  <2>6. Unresolved(m) \ Broken(loops) \subseteq Jumps \cup {p}
    BY <1>9 DEF Jumps
  <2>7. KnownOf(out) /\ CodeOK(m) /\ Grows(out, m) /\ m.height = out.height - 1 /\ m.height >= 1
    BY <1>2, <1>9, <1>10
  <2> QED BY <1>8, <1>17, <2>1, <2>2, <2>3, <2>5, <2>6, <2>7, BeginBody
<1>15. \/ /\ out' = Emit(m, "jump", 0)
          /\ todo' = <<Expr, [do |-> "for increment", start |-> start, p |-> p, body |-> body,
                              scope |-> scope]>> \o t
          /\ UNCHANGED loops
       \/ /\ out' = m /\ BeginLoop(OuterDepth(scope), start)
          /\ todo' = <<Stmt, EndItem(start, p, scope)>> \o t
  BY <1>2 DEF ForExit, Do, EndItem
<1> QED BY <1>13, <1>14, <1>15

(* The jump back, and behind it the landing of the way out.                *)
LEMMA LoopKeeps ==
  ASSUME NEW o, CodeOK(o), NEW start, Landing(o, start, o.height), NEW p, NEW h, Patchable(o, p, h)
  PROVE  LET e == PatchJump(Emit(o, "loop", start), p)
         IN  /\ CodeOK(e) /\ Grows(o, e) /\ e.height = h /\ e.reachable
             /\ Unresolved(e) = Unresolved(o) \ {p}
             /\ start \in Nat
<1> DEFINE loop == "loop"
           e == PatchJump(Emit(o, loop, start), p)
<1>1. loop \in Ops /\ loop \notin Awaiting /\ loop \in {"jump", "loop"} /\ Effect(loop, start) = 0
  BY DEF Ops, Awaiting, Effect
<1>0. loop # "close block"
  OBVIOUS
<1>2. o.height \in Nat /\ Len(o.code) \in Nat
  BY OutFacts
<1>3. start \in 1..Len(o.code) + 1 /\ HeightAt(o, start) = o.height
  BY DEF Landing
<1> HIDE DEF loop
<1>4. o.height + Effect(loop, start) \in Nat
  BY <1>1, <1>2
<1>5. start \in Int \cup Slots /\ start \in Nat
  BY <1>2, <1>3
<1>6. MayEmit(o, loop, start)
  BY <1>0, <1>1, <1>3, <1>4, <1>5, Zenon DEF MayEmit
<1>7. /\ CodeOK(e) /\ Grows(o, e) /\ e.height = h /\ e.reachable
      /\ Unresolved(e) = (Unresolved(o) \cup (IF loop \in Awaiting THEN {Len(o.code) + 1} ELSE {})) \ {p}
  BY <1>1, <1>6, JumpOver
<1>8. Unresolved(e) = Unresolved(o) \ {p}
  BY <1>1, <1>7
<1>9. e = PatchJump(Emit(o, "loop", start), p)
  BY DEF loop
<1> HIDE DEF e
<1> QED BY <1>5, <1>7, <1>8, <1>9

PopOp == "pop"
LEMMA PopKeeps ==
  ASSUME NEW o, CodeOK(o), o.height >= 1
  PROVE  LET e == Emit(o, PopOp, 0)
         IN  CodeOK(e) /\ Grows(o, e) /\ e.height = o.height - 1 /\ Unresolved(e) = Unresolved(o)
             /\ e.reachable = o.reachable
<1> DEFINE arg == 0
           e == Emit(o, PopOp, arg)
<1>1. Simple(PopOp) /\ PopOp \notin Awaiting /\ Effect(PopOp, arg) = -1
      /\ PopOp \notin {"jump", "loop", "return"}
  BY SimpleOps DEF PopOp, Awaiting, Effect
<1>2. o.height \in Nat /\ o.reachable \in BOOLEAN
  BY OutFacts
<1>3. MayEmit(o, PopOp, arg)
  <2>1. o.height + Effect(PopOp, arg) \in Nat
    BY <1>1, <1>2
  <2>2. arg \in Int \cup Slots
    OBVIOUS
  <2> HIDE DEF arg
  <2> QED BY <1>1, <2>1, <2>2, SimpleEmit
<1> HIDE DEF arg
<1>4. /\ CodeOK(e) /\ Grows(o, e) /\ e.height = o.height + Effect(PopOp, arg)
      /\ e.reachable <=> (o.reachable /\ PopOp \notin {"jump", "loop", "return"})
      /\ Unresolved(e) = Unresolved(o) \cup (IF PopOp \in Awaiting THEN {Len(o.code) + 1} ELSE {})
  BY <1>3, EmitKeeps
<1>5. Unresolved(e) = Unresolved(o)
  BY <1>1, <1>4
<1>6. e = Emit(o, PopOp, 0)
  BY DEF arg
<1>9. e.reachable = o.reachable
  <2>1. e.reachable \in BOOLEAN
    BY <1>4, OutFacts
  <2>2. e.reachable <=> o.reachable
    BY <1>1, <1>4, Zenon
  <2> QED BY <1>2, <2>1, <2>2
<1> HIDE DEF e
<1>7. e.height = o.height - 1
  BY <1>1, <1>2, <1>4
<1> QED BY <1>4, <1>5, <1>6, <1>7, <1>9

LEMMA StepForIncrement == ASSUME NowWorking, ForIncrement PROVE NowWorking'
<1> DEFINE t == Tail(todo)
           it == todo[1]
           m == Emit(out, PopOp, 0)
           p == it.p
           body == it.body
           start == it.start
           target == body + 1
           e == PatchJump(Emit(m, "loop", start), body)
           P == Now(out, loops, locals, depth, 0)
           scope == it.scope
           end == EndItem(target, p, scope)
           u == Cons(Stmt, Cons(end, t))
           W == Jumps \ {p, body}
<1>1. todo # << >> /\ it.do = "for increment" /\ LoopItem(it)
  BY Begin DEF ForIncrement, Doing, NowWorking, LoopItem
<1>2. /\ KnownOf(out) /\ IsSeq(t) /\ Head(todo) = it
      /\ out.height \in Nat /\ out.height >= 1 /\ Len(locals) \in Nat /\ depth \in Nat
      /\ \E Q \in Places : NextOf(it, t, Q)
  BY <1>1, NextLoop
<1>3. PICK Q \in Places : NextOf(it, t, Q)
  BY <1>2
<1>4. /\ P \in Places /\ P.e = out.height - Len(locals) /\ P.n = Len(locals) /\ P.d = depth
      /\ P.l = Len(loops) /\ P.x = 1 /\ H(P) = out.height
  BY <1>2, Here0
<1>5. /\ EndsFor(scope, P, Q, -1) /\ Landing(out, start, H(P) - 1) /\ Patchable(out, p, H(P))
      /\ Patchable(out, body, H(P) - 1) /\ Landing(out, target, H(P) - 1)
  <2>1. Link(out, loops, locals, it, P, Q)
    BY <1>3 DEF NextOf
  <2> QED BY <1>1, <2>1 DEF Link, LinkLoop
<1>6. Jumps \ Awaits(it) = W
  BY <1>1 DEF Awaits
<1>7. out.height >= 2 /\ ForPlace(scope, Q)
  BY <1>2, <1>3, <1>5, VariableOfFor DEF NextOf
<1>25. scope \in BOOLEAN /\ OuterDepth(scope) = Q.d
  BY <1>7 DEF ForPlace
<1>8. PlanFrom(out, loops, locals, t, Q, Undefined(locals), 1..Len(loops), W)
  BY <1>3, <1>6 DEF NextOf
<1>9. CodeOK(out)
  BY <1>2 DEF Known, KnownOf
<1>10. /\ out' = e /\ BeginLoop(Q.d, target) /\ UNCHANGED <<locals, depth>>
       /\ todo' = <<Stmt, end>> \o t
  BY <1>2, <1>25 DEF ForIncrement, Do, EndItem, PopOp
<1>11. todo' = u
  <2> HIDE DEF end, t
  <2> QED BY <1>2, <1>10, Items2
<1>12. scope \in BOOLEAN /\ u = Cons(Stmt, Cons(EndItem(target, p, scope), t))
  BY <1>25
<1> DEFINE h == out.height - 1
<1>13. /\ Landing(out, start, h) /\ Patchable(out, p, out.height) /\ Patchable(out, body, h)
       /\ Landing(out, target, h)
  BY <1>4, <1>5
<1>14. h \in Nat /\ h >= 1 /\ h + 1 = out.height
  BY <1>2, <1>7
<1>15. h = out.height - 1
  OBVIOUS
<1> HIDE DEF e, m, p, body, it, t, P, start, target, scope, u, h
<1>16. CodeOK(m) /\ Grows(out, m) /\ m.height = h /\ Unresolved(m) = Unresolved(out)
  BY <1>2, <1>9, <1>15, PopKeeps DEF m
<1>17. /\ Landing(m, start, m.height) /\ Patchable(m, p, out.height) /\ Patchable(m, body, h)
       /\ Landing(m, target, h)
  BY <1>9, <1>13, <1>16, GrowsKeeps
<1>18. CodeOK(e) /\ Grows(m, e) /\ e.height = h /\ Unresolved(e) = Unresolved(m) \ {body}
  BY <1>16, <1>17, LoopKeeps DEF e
<1>19. Grows(out, e)
  BY <1>9, <1>16, <1>18, GrowsTransitive
<1>20. Patchable(e, p, out.height) /\ Landing(e, target, h)
  BY <1>16, <1>17, <1>18, GrowsKeeps
<1>21. Landing(e, target, e.height) /\ Patchable(e, p, e.height + 1) /\ e.height = out.height - 1
       /\ e.height >= 1
  BY <1>14, <1>15, <1>18, <1>20
<1>24. Low(locals, e.height)
  <2>1. Low(locals, out.height - 1)
    <3>1. Tests(todo[1])
      BY <1>1 DEF Tests, it
    <3>2. todo # << >>
      BY <1>1
    <3> QED BY <3>1, <3>2, TestLow
  <2> QED BY <1>15, <1>18, <2>1
<1>22. Body(e, Q, target, target, p, scope)
  BY <1>2, <1>7, <1>18, <1>21, ForBody
<1>23. Unresolved(e) \ Broken(loops) \subseteq W \cup {p}
  BY <1>16, <1>18 DEF Jumps
<1> HIDE DEF W
<1>26. e.height = out.height - 1 /\ e.height >= 1
  BY <1>21
<1>27. /\ out' = e /\ BeginLoop(Q.d, target) /\ UNCHANGED <<locals, depth>>
  BY <1>10
<1>28. KnownOf(out)
  BY <1>2
<1>29. CodeOK(e)
  BY <1>18
<1> HIDE DEF end
<1> QED BY <1>28, <1>29, <1>8, <1>27, <1>11, <1>12, <1>19, <1>26, <1>22, <1>23, <1>24, BeginBody

(* The loops without the innermost.                                        *)
LEMMA LoopRemoved ==
  ASSUME loops \in Seq(Loops), Len(loops) >= 1
  PROVE  /\ Front(loops) \in Seq(Loops) /\ Len(Front(loops)) = Len(loops) - 1
         /\ \A m \in 1..Len(loops) - 1 : Front(loops)[m] = loops[m]
         /\ Last(loops) = loops[Len(loops)] /\ Last(loops) \in Loops
         /\ Broken(loops) = Broken(Front(loops)) \cup Last(loops).breaks
<1> DEFINE n == Len(loops)
           ls == Front(loops)
<1>1. n \in Nat /\ n >= 1
  OBVIOUS
<1>2. ls \in Seq(Loops) /\ Len(ls) = n - 1 /\ \A m \in 1..n - 1 : ls[m] = loops[m]
  <2> DEFINE k == n - 1
             one == 1
  <2>1. k \in Int /\ one \in Int /\ \A i \in one..k : loops[i] \in Loops
    BY <1>1
  <2>2. /\ SubSeq(loops, one, k) \in Seq(Loops)
        /\ Len(SubSeq(loops, one, k)) = IF one <= k THEN k - one + 1 ELSE 0
        /\ \A i \in 1..k - one + 1 : SubSeq(loops, one, k)[i] = loops[one + i - 1]
    <3> HIDE DEF one, k
    <3> QED BY <2>1, SubSeqProperties
  <2>3. ls = SubSeq(loops, one, k)
    BY DEF Front
  <2> HIDE DEF ls
  <2>4. Len(ls) = n - 1
    <3> DEFINE l == Len(ls)
    <3>1. l = IF one <= k THEN k - one + 1 ELSE 0
      BY <2>2, <2>3
    <3> HIDE DEF l, n
    <3>2. n \in Nat /\ n >= 1
      BY <1>1
    <3>3. l = n - 1
      BY <3>1, <3>2
    <3> QED BY <3>3 DEF l
  <2>5. ASSUME NEW i \in 1..n - 1 PROVE ls[i] = loops[i]
    <3>1. i \in 1..k - one + 1 /\ one + i - 1 = i
      BY <1>1
    <3> HIDE DEF one, k
    <3> QED BY <2>2, <2>3, <3>1
  <2> HIDE DEF one, k, n
  <2> QED BY <2>2, <2>3, <2>4, <2>5
<1>3. Last(loops) = loops[n] /\ Last(loops) \in Loops
  BY <1>1 DEF Last
<1> HIDE DEF ls
<1>4. Broken(loops) = Broken(ls) \cup loops[n].breaks
  <2>1. \A b : b \in Broken(ls) <=> \E m \in 1..n - 1 : b \in ls[m].breaks
    BY <1>2 DEF Broken
  <2>2. \A b : b \in Broken(loops) <=> \E m \in 1..n : b \in loops[m].breaks
    BY DEF Broken
  <2>3. \A m : m \in 1..n <=> m \in 1..n - 1 \/ m = n
    BY <1>1
  <2> QED BY <1>2, <2>1, <2>2, <2>3
<1> QED BY <1>2, <1>3, <1>4 DEF ls

(* The end of a loop, and what comes behind it.                            *)
EndsHere(it, P, Q) ==
  /\ P.x = 1 /\ Q.x = 1 /\ P.l >= 1 /\ Q.l = P.l - 1 /\ Q.e = P.e
  /\ Landing(out, it.start, H(P)) /\ Patchable(out, it.p, H(P) + 1)
  /\ LoopOf(out, loops[P.l], P, Q) /\ ClosesFor(it.scope, P, Q)
EndsLoopItem(it) == it.do = "end loop"

LEMMA NextEnds ==
  ASSUME NowWorking, todo # << >>, EndsLoopItem(todo[1])
  PROVE  /\ KnownOf(out) /\ IsSeq(Tail(todo)) /\ Head(todo) = todo[1] /\ Len(loops) >= 1
         /\ \E Q \in Places :
              /\ PlanFrom(out, loops, locals, Tail(todo), Q, Undefined(locals), 1..Len(loops) - 1,
                          Jumps \ {todo[1].p})
              /\ EndsHere(todo[1], Now(out, loops, locals, depth, 0), Q) /\ Fits(locals, Q)
              /\ \A i \in Undefined(locals) : i <= Q.n
<1> DEFINE it == todo[1]
           t == Tail(todo)
           P == Place(out.height, Len(locals), depth, Len(loops))
           E == 1..Len(loops)
<1>1. KnownOf(out) /\ Head(todo) = it /\ \E Q \in Places : Behind(out, loops, locals, depth, it, t, Q)
  BY Begin DEF NowWorking, KnownOf
<1>2. PICK Q \in Places : Behind(out, loops, locals, depth, it, t, Q)
  BY <1>1
<1>3. it.do # "define" /\ Awaits(it) = {it.p} /\ StillOpen(it, P, E) = E \ {P.l}
  BY DEF EndsLoopItem, Awaits, StillOpen
<1>4. out.height \in Nat /\ Len(loops) \in Nat
  BY <1>1 DEF Known, KnownOf
<1>5. P = Now(out, loops, locals, depth, 0) /\ P.l = Len(loops)
  BY <1>4 DEF Now, Place
<1>6. /\ IsSeq(t) /\ PlanFrom(out, loops, locals, t, Q, Undefined(locals), E \ {P.l}, Jumps \ {it.p})
      /\ Link(out, loops, locals, it, P, Q) /\ Fits(locals, Q) /\ \A i \in Undefined(locals) : i <= Q.n
  BY <1>2, <1>3 DEF Behind, StillUndefined, Jumps
<1>7. EndsHere(it, P, Q)
  BY <1>6 DEF EndsLoopItem, EndsHere, Link, LinkLoop
<1> HIDE DEF P
<1>8. Len(loops) >= 1
  BY <1>5, <1>7 DEF EndsHere
<1>9. E \ {P.l} = 1..Len(loops) - 1
  BY <1>4, <1>5
<1> HIDE DEF E
<1> QED BY <1>1, <1>5, <1>6, <1>7, <1>8, <1>9

(* The code of the end of a loop, but for the pop of its variable.         *)
LEMMA ExitKeeps ==
  ASSUME NEW o, CodeOK(o), NEW start, Landing(o, start, o.height), NEW p, Patchable(o, p, o.height + 1)
  PROVE  LET e == Emit(PatchJump(Emit(o, "loop", start), p), PopOp, 0)
         IN  /\ CodeOK(e) /\ Grows(o, e) /\ e.height = o.height /\ e.reachable
             /\ Unresolved(e) = Unresolved(o) \ {p}
<1> DEFINE h == o.height + 1
           m == PatchJump(Emit(o, "loop", start), p)
           e == Emit(m, PopOp, 0)
<1>1. o.height \in Nat
  BY OutFacts
<1>2. Patchable(o, p, h) /\ h \in Nat /\ h >= 1 /\ h - 1 = o.height
  BY <1>1
<1> HIDE DEF h
<1>3. CodeOK(m) /\ Grows(o, m) /\ m.height = h /\ m.reachable /\ Unresolved(m) = Unresolved(o) \ {p}
  BY <1>2, LoopKeeps
<1> HIDE DEF m
<1>4. m.height >= 1
  BY <1>2, <1>3
<1>5. CodeOK(e) /\ Grows(m, e) /\ e.height = m.height - 1 /\ Unresolved(e) = Unresolved(m)
      /\ e.reachable = m.reachable
  BY <1>3, <1>4, PopKeeps
<1> HIDE DEF e
<1>6. Grows(o, e)
  BY <1>3, <1>5, GrowsTransitive
<1>7. e.height = o.height
  BY <1>2, <1>3, <1>5
<1>8. e.reachable
  BY <1>3, <1>5
<1> QED BY <1>3, <1>5, <1>6, <1>7, <1>8 DEF e, m

(* The end of a loop before its breaks are patched, the scope of its         *)
(* variable closed.                                                        *)
Exited == Emit(PatchJump(Emit(out, "loop", todo[1].start), todo[1].p), PopOp, 0)
Closed == IF todo[1].scope THEN EmitPops(Exited, PopsToDepth(depth - 1)) ELSE Exited

LeavesLoop(Q) ==
  /\ Fits(locals, Q) /\ \A i \in Undefined(locals) : i <= Q.n
  /\ Q.x = 1 /\ Q.l = Len(loops) - 1 /\ Q.e = out.height - Len(locals) /\ Q.n <= Len(locals)
  /\ Closed.height = H(Q)
  /\ \/ todo[1].scope = TRUE /\ Q.d = depth - 1 /\ locals' = Keep(Q.d) /\ depth' = Q.d
     \/ todo[1].scope = FALSE /\ Q.d = depth /\ Q.n = Len(locals) /\ UNCHANGED <<locals, depth>>

LEMMA LoopCloses ==
  ASSUME NowWorking, EndLoop
  PROVE  /\ todo # << >> /\ EndsLoopItem(todo[1]) /\ KnownOf(out) /\ IsSeq(Tail(todo)) /\ Len(loops) >= 1
         /\ todo' = Tail(todo) /\ out' = PatchAll(Closed, Last(loops).breaks) /\ loops' = Front(loops)
         /\ Patchable(out, todo[1].p, out.height + 1)
         /\ CodeOK(Closed) /\ Grows(out, Closed) /\ Closed.reachable
         /\ Unresolved(Closed) = Unresolved(out) \ {todo[1].p}
         /\ \A b \in Last(loops).breaks : Patchable(Closed, b, Closed.height)
         /\ \E Q \in Places :
              /\ PlanFrom(out, loops, locals, Tail(todo), Q, Undefined(locals), 1..Len(loops) - 1,
                          Jumps \ {todo[1].p})
              /\ LeavesLoop(Q)
<1> DEFINE t == Tail(todo)
           it == todo[1]
           n == Len(loops)
           ls == Front(loops)
           breaks == Last(loops).breaks
           P == Now(out, loops, locals, depth, 0)
           U == Undefined(locals)
           E == 1..n - 1
           W == Jumps \ {it.p}
           m == Exited
           closed == Closed
<1>1. todo # << >> /\ EndsLoopItem(it)
  BY Begin DEF EndLoop, Doing, NowWorking, EndsLoopItem
<1>2. /\ KnownOf(out) /\ IsSeq(t) /\ Head(todo) = it /\ n >= 1
      /\ \E Q \in Places :
              /\ PlanFrom(out, loops, locals, t, Q, U, E, W)
              /\ EndsHere(it, P, Q) /\ Fits(locals, Q)
              /\ \A i \in U : i <= Q.n
  BY <1>1, NextEnds
<1>3. PICK Q \in Places :
              /\ PlanFrom(out, loops, locals, t, Q, U, E, W)
              /\ EndsHere(it, P, Q) /\ Fits(locals, Q)
              /\ \A i \in U : i <= Q.n
  BY <1>2
<1>4. /\ P \in Places /\ P.e = out.height - Len(locals) /\ P.n = Len(locals) /\ P.d = depth
      /\ P.l = n /\ P.x = 1 /\ H(P) = out.height
  BY <1>2, Here0
<1>5. /\ CodeOK(out) /\ locals \in Seq(Slots) /\ loops \in Seq(Loops) /\ out.height \in Nat
      /\ Len(locals) \in Nat /\ n \in Nat /\ depth \in Nat
      /\ \A i \in 1..Len(locals) : locals[i].depth <= depth /\ locals[i].depth \in Int
  BY <1>2 DEF Known, KnownOf
<1>6. todo' = t
  <2>1. todo' = << >> \o t
    BY DEF EndLoop, Do
  <2> HIDE DEF t
  <2> QED BY <1>2, <2>1, Items0
<1>7. /\ ls \in Seq(Loops) /\ Len(ls) = n - 1 /\ \A i \in 1..n - 1 : ls[i] = loops[i]
      /\ Last(loops) = loops[n] /\ Broken(loops) = Broken(ls) \cup breaks
  BY <1>2, <1>5, LoopRemoved
<1>8. /\ out' = PatchAll(closed, breaks) /\ locals' = (IF it.scope THEN Keep(depth - 1) ELSE locals)
      /\ depth' = (IF it.scope THEN depth - 1 ELSE depth) /\ loops' = ls
  BY <1>2 DEF EndLoop, PopOp, Exited, Closed, OuterDepth
<1>9. /\ Q.x = 1 /\ Q.l = n - 1 /\ Q.e = P.e
      /\ Landing(out, it.start, out.height) /\ Patchable(out, it.p, out.height + 1)
      /\ \A b \in breaks : Patchable(out, b, H(Q))
      /\ \/ it.scope = TRUE /\ (P.n = Q.n + 1 \/ P.n = Q.n) /\ P.d = Q.d + 1
         \/ it.scope = FALSE /\ P.n = Q.n /\ P.d = Q.d
  <2>1. EndsHere(it, P, Q)
    BY <1>3
  <2>2. Last(loops) = loops[P.l]
    BY <1>4, <1>7
  <2> HIDE DEF P
  <2>3. \A b \in breaks : Patchable(out, b, H(Q))
    BY <2>1, <2>2 DEF EndsHere, LoopOf
  <2> QED BY <1>4, <2>1, <2>3 DEF EndsHere, ClosesFor
<1> HIDE DEF it, t, m, closed, ls, breaks, P, U, E, W
<1>10. CodeOK(m) /\ Grows(out, m) /\ m.height = out.height /\ m.reachable
       /\ Unresolved(m) = Unresolved(out) \ {it.p}
  BY <1>5, <1>9, ExitKeeps DEF m, Exited, it
<1>11. Q.n \in Nat /\ Q.e \in Int /\ Q.d \in Nat /\ Q.e + Q.n >= 1 /\ H(Q) = Q.e + Q.n
  BY <1>3 DEF Places, Fits, H
<1>12. Q.n <= Len(locals) /\ Q.l = Len(ls) /\ Q.e = out.height - Len(locals)
  BY <1>4, <1>5, <1>7, <1>9, <1>11
<1>13. CodeOK(closed) /\ Grows(out, closed) /\ closed.height = H(Q) /\ closed.reachable
       /\ Unresolved(closed) = Unresolved(out) \ {it.p}
  <2>1. CASE it.scope = FALSE
    <3>1. closed = m
      BY <2>1 DEF closed, Closed, m, it
    <3>2. Q.n = Len(locals)
      BY <1>4, <1>9, <2>1
    <3>3. m.height = H(Q)
      BY <1>5, <1>10, <1>11, <1>12, <3>2
    <3> QED BY <1>10, <3>1, <3>3
  <2>2. CASE it.scope = TRUE
    <3> DEFINE pops == PopsToDepth(Q.d)
    <3>1. depth - 1 = Q.d
      BY <1>4, <1>9, <1>11, <2>2
    <3>2. closed = EmitPops(m, pops)
      BY <2>2, <3>1 DEF closed, Closed, m, it
    <3>3. pops \in Seq(PopOps) /\ Len(pops) = Len(locals) - Q.n
      BY <1>3, <1>5, <1>9, <1>12, ScopeLocals DEF U
    <3> HIDE DEF pops
    <3>4. m.height - Len(pops) = H(Q) /\ H(Q) \in Nat
      BY <1>5, <1>10, <1>11, <1>12, <3>3
    <3>5. CodeOK(closed) /\ Grows(m, closed) /\ closed.height = H(Q) /\ closed.reachable = m.reachable
          /\ Unresolved(closed) = Unresolved(m)
      BY <1>10, <3>2, <3>3, <3>4, PopsKeep
    <3>6. Grows(out, closed)
      BY <1>5, <1>10, <3>5, GrowsTransitive
    <3> QED BY <1>10, <3>5, <3>6
  <2> QED BY <1>9, <2>1, <2>2
<1>14. \A b \in breaks : Patchable(closed, b, closed.height)
  BY <1>5, <1>9, <1>13, GrowsKeeps
<1>15. LeavesLoop(Q)
  <2>1. \/ it.scope = TRUE /\ Q.d = depth - 1
        \/ it.scope = FALSE /\ Q.d = depth /\ Q.n = Len(locals)
    BY <1>4, <1>9, <1>11
  <2>2. CASE it.scope = TRUE
    BY <1>3, <1>8, <1>9, <1>12, <1>13, <2>1, <2>2 DEF LeavesLoop, closed, it, U, n
  <2>3. CASE it.scope = FALSE
    BY <1>3, <1>8, <1>9, <1>12, <1>13, <2>1, <2>3 DEF LeavesLoop, closed, it, U, n
  <2> QED BY <2>1, <2>2, <2>3
<1> QED BY <1>1, <1>2, <1>3, <1>6, <1>8, <1>9, <1>13, <1>14, <1>15 DEF t, it, n, ls, breaks, U, E, W, closed

LEMMA StepEndLoop == ASSUME NowWorking, EndLoop PROVE NowWorking'
<1> DEFINE t == Tail(todo)
           it == todo[1]
           n == Len(loops)
           ls == Front(loops)
           breaks == Last(loops).breaks
           U == Undefined(locals)
           E == 1..n - 1
           W == Jumps \ {it.p}
           closed == Closed
           e == PatchAll(closed, breaks)
<1>1. /\ KnownOf(out) /\ IsSeq(t) /\ n >= 1
      /\ todo' = t /\ out' = e /\ loops' = ls
      /\ CodeOK(closed) /\ Grows(out, closed) /\ closed.reachable
      /\ Unresolved(closed) = Unresolved(out) \ {it.p}
      /\ \A b \in breaks : Patchable(closed, b, closed.height)
      /\ \E Q \in Places : PlanFrom(out, loops, locals, t, Q, U, E, W) /\ LeavesLoop(Q)
  BY LoopCloses
<1>2. PICK Q \in Places : PlanFrom(out, loops, locals, t, Q, U, E, W) /\ LeavesLoop(Q)
  BY <1>1
<1>3. /\ CodeOK(out) /\ locals \in Seq(Slots) /\ loops \in Seq(Loops) /\ out.height \in Nat
      /\ Len(locals) \in Nat /\ n \in Nat /\ depth \in Nat
      /\ \A i \in 1..Len(locals) : locals[i].depth <= depth /\ locals[i].depth \in Int
  BY <1>1 DEF Known, KnownOf
<1>4. /\ ls \in Seq(Loops) /\ Len(ls) = n - 1 /\ \A i \in 1..n - 1 : ls[i] = loops[i]
      /\ Broken(loops) = Broken(ls) \cup breaks
  BY <1>1, <1>3, LoopRemoved
<1> HIDE DEF it, t, ls, breaks, closed, U, E, W
<1>5. /\ Fits(locals, Q) /\ (\A i \in U : i <= Q.n)
      /\ Q.x = 1 /\ Q.l = n - 1 /\ Q.e = out.height - Len(locals) /\ Q.n <= Len(locals)
      /\ closed.height = H(Q)
      /\ \/ it.scope = TRUE /\ Q.d = depth - 1 /\ locals' = Keep(Q.d) /\ depth' = Q.d
         \/ it.scope = FALSE /\ Q.d = depth /\ Q.n = Len(locals) /\ UNCHANGED <<locals, depth>>
  BY <1>2 DEF LeavesLoop, U, it, closed
<1>6. Q.n \in Nat /\ Q.e \in Int /\ Q.d \in Nat /\ Q.e + Q.n >= 1 /\ H(Q) = Q.e + Q.n
  BY <1>5 DEF Places, Fits, H
<1>7. CodeOK(e) /\ Grows(closed, e) /\ e.height = H(Q)
      /\ Unresolved(e) = (Unresolved(out) \ {it.p}) \ breaks
  BY <1>1, <1>5, PatchAllKeeps
<1> HIDE DEF e
<1>8. Grows(out, e)
  BY <1>1, <1>3, <1>7, GrowsTransitive
<1>9. PlanFrom(e, ls, locals, t, Q, U, E, W)
  <2>1. PlanFrom(e, loops, locals, t, Q, U, E, W)
    BY <1>2, <1>3, <1>7, <1>8, FromGrow
  <2>2. \A i \in 1..Q.l : ls[i] = loops[i]
    BY <1>4, <1>5
  <2> QED BY <2>1, <2>2, FromLoops
<1>10. Unresolved(e) \ Broken(ls) \subseteq W
  BY <1>4, <1>7 DEF W, Jumps
<1>11. PlanFrom(e, ls, locals, t, Q, Undefined(locals), 1..Len(ls), W)
  BY <1>4, <1>9 DEF U, E
<1>12. Q.l = Len(ls)
  BY <1>4, <1>5
<1>13. CASE it.scope = TRUE
  <2>1. e.height = Q.e + Q.n
    BY <1>6, <1>7
  <2>2. Working(e, ls, Keep(Q.d), Q.d, t)
    BY <1>2, <1>3, <1>4, <1>5, <1>7, <1>10, <1>11, <1>12, <2>1, CloseScope DEF U
  <2> QED BY <1>1, <1>5, <1>13, <2>2 DEF NowWorking
<1>14. CASE it.scope = FALSE
  <2>1. Q.n = Len(locals) /\ Q.d = depth
    BY <1>5, <1>14
  <2>2. e.height = out.height /\ e.height \in Nat /\ e.height >= 1
    BY <1>3, <1>5, <1>6, <1>7, <2>1
  <2>3. Known(e, ls, locals, depth)
    <3>1. Len(ls) \in Nat
      BY <1>3, <1>4, <1>1
    <3>2. Low(locals, e.height)
      BY <1>1, <2>2 DEF Known, KnownOf
    <3> QED BY <1>3, <1>4, <1>7, <2>2, <3>1, <3>2 DEF Known
  <2>4. Q.e = e.height - Len(locals)
    BY <1>5, <2>2
  <2>5. Working(e, ls, locals, depth, t)
    BY <1>5, <1>10, <1>11, <1>12, <2>1, <2>3, <2>4, Done
  <2> QED BY <1>1, <1>5, <1>14, <2>5 DEF NowWorking
<1> QED BY <1>5, <1>13, <1>14

(* Where a break and a continue of the innermost loop go.                  *)
Leads(P, h) ==
  /\ P.x = 1 /\ P.n <= Len(locals) /\ Fits(locals, P) /\ \A i \in Undefined(locals) : i <= P.n
  /\ h \in Nat /\ out.height - (Len(locals) - P.n) = h

LEMMA LoopAround ==
  ASSUME KnownOf(out), StatementPosition, loops # << >>, NEW t, NEW W, From(out, t, 0, W)
  PROVE  LET loop == Last(loops)
         IN  /\ Len(loops) >= 1 /\ loop = loops[Len(loops)]
             /\ \E A \in Places : /\ Leads(A, H(A)) /\ loop.continueDepth = A.d
                                  /\ Landing(out, loop.continueTarget, H(A))
             /\ loop.locals <= Len(locals)
             /\ \E B \in Places : /\ Leads(B, EndHeight(locals, loop)) /\ loop.scopeDepth = B.d
                                  /\ EndHeight(locals, loop) = H(B)
<1> DEFINE n == Len(loops)
           loop == Last(loops)
           P == Now(out, loops, locals, depth, 0)
           U == Undefined(locals)
           E == 1..n
           l == Len(locals)
<1>1. /\ locals \in Seq(Slots) /\ loops \in Seq(Loops) /\ out.height \in Nat /\ l \in Nat /\ n \in Nat
      /\ \A i \in 1..l : locals[i].depth \in Int
  BY DEF Known, KnownOf
<1>2. n >= 1 /\ n \in E
  BY <1>1
<1>3. loop = loops[n]
  BY DEF Last
<1>4. PlanFrom(out, loops, locals, t, P, U, E, W)
  BY DEF From
<1>5. P.n = l
  BY Here0
<1>6. /\ out.height - loop.height = l - loop.locals
      /\ \A i \in loop.locals + 1..l : ~ (locals[i].depth = UNINITIALIZED)
  BY DEF StatementPosition
<1> HIDE DEF P, loop
<1>7. PICK A, B : EndsLoop(out, loop, locals, A, B) /\ A.n <= P.n
  <2> HIDE DEF n, U, E
  <2> QED BY <1>2, <1>3, <1>4, FromLoop
<1>8. /\ A \in Places /\ B \in Places /\ A.x = 1 /\ B.x = 1 /\ B.e = A.e
      /\ (A.n = B.n + 1 \/ A.n = B.n)
      /\ Fits(locals, A) /\ Fits(locals, B) /\ LoopOf(out, loop, A, B)
      /\ A.n = B.n + 1 => locals[A.n].depth >= 0
  BY <1>7 DEF EndsLoop, ClosesFor
<1>9. /\ A.n \in Nat /\ B.n \in Nat /\ A.e \in Int /\ B.e \in Int /\ A.d \in Nat /\ B.d \in Nat
      /\ A.e + A.n >= 1 /\ B.e + B.n >= 1 /\ A.n <= l
  BY <1>5, <1>7, <1>8 DEF Places, Fits
<1>10. /\ loop.locals = A.n /\ loop.height = A.e + A.n /\ loop.continueDepth = A.d /\ loop.scopeDepth = B.d
       /\ Landing(out, loop.continueTarget, H(A))
  BY <1>8 DEF LoopOf, H
<1>11. B.e = A.e /\ (B.n = A.n \/ A.n = B.n + 1)
  BY <1>8
<1> HIDE DEF l
<1>12. B.n <= l
  BY <1>1, <1>9, <1>11
<1>13. \A i \in U : i <= A.n
  <2> SUFFICES ASSUME NEW i \in U PROVE i <= A.n
    OBVIOUS
  <2>1. i \in 1..l /\ locals[i].depth = UNINITIALIZED
    BY DEF Undefined, l
  <2>2. ~ (i \in A.n + 1..l)
    BY <1>6, <1>10, <2>1
  <2> QED BY <1>1, <1>9, <2>1, <2>2
<1>14. \A i \in U : i <= B.n
  <2> SUFFICES ASSUME NEW i \in U PROVE i <= B.n
    OBVIOUS
  <2>1. i \in 1..l /\ locals[i].depth = UNINITIALIZED /\ i <= A.n
    BY <1>13 DEF Undefined, l
  <2>2. CASE B.n = A.n
    BY <2>1, <2>2
  <2>3. CASE A.n = B.n + 1
    <3>2. locals[A.n].depth >= 0
      BY <1>8, <2>3
    <3>3. i # A.n
      BY <2>1, <3>2 DEF UNINITIALIZED
    <3> QED BY <1>1, <1>9, <2>1, <2>3, <3>3
  <2> QED BY <1>11, <2>2, <2>3
<1>15. out.height - (l - A.n) = A.e + A.n /\ A.e + A.n \in Nat
  BY <1>1, <1>6, <1>9, <1>10
<1>16. out.height - (l - B.n) = B.e + B.n /\ B.e + B.n \in Nat
  <2> DEFINE h == out.height
  <2>1. h \in Nat /\ l \in Nat /\ h - (l - A.n) = A.e + A.n
    BY <1>1, <1>15
  <2> HIDE DEF h
  <2>2. h - (l - B.n) = B.e + B.n
    <3>1. h - l = A.e
      BY <1>9, <2>1
    <3>2. h - l = B.e
      BY <1>11, <3>1
    <3>3. h \in Nat /\ l \in Nat /\ B.n \in Nat /\ B.e \in Int
      BY <1>9, <2>1
    <3> QED BY <3>2, <3>3
  <2>3. B.e + B.n \in Nat
    BY <1>9
  <2> QED BY <2>2, <2>3 DEF h
<1>17. EndHeight(locals, loop) = B.e + B.n
  <2>1. EndHeight(locals, loop) = H(B)
    BY <1>1, <1>7, <1>9, EndsAtHeight DEF l
  <2> QED BY <2>1 DEF H
<1>18. Leads(A, H(A))
  BY <1>8, <1>9, <1>13, <1>15 DEF Leads, H, U, l
<1>19. Leads(B, EndHeight(locals, loop))
  BY <1>8, <1>12, <1>14, <1>16, <1>17 DEF Leads, U, l
<1>20. EndHeight(locals, loop) = H(B)
  BY <1>17 DEF H
<1>21. loop.locals <= l
  BY <1>9, <1>10
<1> QED BY <1>2, <1>3, <1>8, <1>10, <1>18, <1>19, <1>20, <1>21 DEF loop, l

LEMMA PopsTo ==
  ASSUME KnownOf(out), NEW A \in Places, NEW h, Leads(A, h)
  PROVE  LET m == EmitPops(out, PopsToDepth(A.d))
         IN  CodeOK(m) /\ Grows(out, m) /\ m.height = h /\ Unresolved(m) = Unresolved(out)
<1> DEFINE pops == PopsToDepth(A.d)
           m == EmitPops(out, pops)
<1>1. CodeOK(out) /\ locals \in Seq(Slots) /\ out.height \in Nat /\ Len(locals) \in Nat
  BY DEF Known, KnownOf
<1>2. /\ A.x = 1 /\ A.n <= Len(locals) /\ Fits(locals, A) /\ \A i \in Undefined(locals) : i <= A.n
      /\ h \in Nat /\ out.height - (Len(locals) - A.n) = h
  BY DEF Leads
<1>3. pops \in Seq(PopOps) /\ Len(pops) = Len(locals) - A.n
  BY <1>1, <1>2, ScopeLocals
<1> HIDE DEF pops
<1>4. out.height - Len(pops) = h /\ out.height - Len(pops) \in Nat
  BY <1>2, <1>3
<1>5. CodeOK(m) /\ Grows(out, m) /\ m.height = out.height - Len(pops) /\ Unresolved(m) = Unresolved(out)
  BY <1>1, <1>3, <1>4, PopsKeep
<1> HIDE DEF m
<1> QED BY <1>4, <1>5 DEF m, pops

(* What comes behind a jump, at the height compileStmt restores.           *)
LEMMA NextJump ==
  ASSUME NowWorking, Stating \/ Doing("jump")
  PROVE  /\ KnownOf(out) /\ IsSeq(Tail(todo)) /\ From(out, Tail(todo), 0, Jumps)
         /\ out.height \in Nat /\ out.height >= 1
<1> DEFINE it == todo[1]
<1>1. todo # << >> /\ Head(todo) = it
  BY Begin DEF Stating, Doing, NowWorking
<1>2. it.do = "stmt" \/ it.do = "declaration" \/ it.do = "jump"
  BY <1>1 DEF Stating, Doing
<1>3. Passes(it) /\ Awaits(it) = {}
  BY <1>2 DEF Passes, Awaits
<1>4. Leaves(out, loops, locals, it, Now(out, loops, locals, depth, 0), 0)
  BY <1>2 DEF Leaves, Link, LinkExpr
<1>5. /\ KnownOf(out) /\ IsSeq(Tail(todo)) /\ out.height \in Nat
      /\ out.height >= 1 /\ From(out, Tail(todo), 0, Jumps \ Awaits(it))
  BY <1>1, <1>3, <1>4, NextKeeps
<1>6. Jumps \ Awaits(it) = Jumps
  BY <1>3
<1> QED BY <1>5, <1>6

LoopOp == "loop"
LEMMA StepContinue ==
  ASSUME NowWorking, Plain, Stating \/ Doing("jump"), Continue, Do(<< >>)
  PROVE  NowWorking'
<1> DEFINE t == Tail(todo)
           loop == Last(loops)
           target == loop.continueTarget
           m == EmitPops(out, PopsToDepth(loop.continueDepth))
           e == [Emit(m, LoopOp, target) EXCEPT !.height = out.height]
<1>1. /\ KnownOf(out) /\ IsSeq(t) /\ From(out, t, 0, Jumps)
      /\ out.height \in Nat /\ out.height >= 1
  BY NextJump
<1>2. loops # << >> /\ StatementPosition
  BY DEF Continue
<1>3. \E A \in Places : /\ Leads(A, H(A)) /\ loop.continueDepth = A.d /\ Landing(out, target, H(A))
  BY <1>1, <1>2, LoopAround
<1>4. PICK A \in Places : /\ Leads(A, H(A)) /\ loop.continueDepth = A.d /\ Landing(out, target, H(A))
  BY <1>3
<1>5. out' = e /\ UNCHANGED <<locals, depth, loops>>
  BY DEF Continue, LoopOp
<1>6. todo' = t
  <2>1. todo' = << >> \o t
    BY DEF Do
  <2> HIDE DEF t
  <2> QED BY <1>1, <2>1, Items0
<1>7. CodeOK(out)
  BY <1>1 DEF Known, KnownOf
<1> HIDE DEF t, target
<1>8. CodeOK(m) /\ Grows(out, m) /\ m.height = H(A) /\ Unresolved(m) = Unresolved(out)
  BY <1>1, <1>4, PopsTo
<1> HIDE DEF m, loop
<1>9. Landing(m, target, m.height)
  BY <1>4, <1>7, <1>8, GrowsKeeps
<1>10. LoopOp \in {"jump", "loop", "return"} /\ LoopOp \notin Awaiting /\ MayEmit(m, LoopOp, target)
  <2> DEFINE op == LoopOp
  <2>1. op \in Ops /\ op \notin Awaiting /\ op \in {"jump", "loop", "return"} /\ Effect(op, target) = 0
    BY DEF LoopOp, Ops, Awaiting, Effect
  <2>2. op # "close block"
    BY DEF LoopOp
  <2> HIDE DEF op
  <2>3. m.height \in Nat /\ Len(m.code) \in Nat
    BY <1>8, OutFacts
  <2>4. m.height + Effect(op, target) \in Nat
    BY <2>1, <2>3
  <2>5. target \in 1..Len(m.code) + 1 /\ HeightAt(m, target) = m.height
    BY <1>9 DEF Landing
  <2>6. target \in Int \cup Slots
    BY <2>3, <2>5
  <2>7. MayEmit(m, op, target)
    BY <2>1, <2>2, <2>4, <2>5, <2>6, Zenon DEF MayEmit
  <2> QED BY <2>1, <2>7 DEF op
<1>11. /\ CodeOK(e) /\ Grows(m, e) /\ e.height = out.height
       /\ Unresolved(e) = Unresolved(m) \cup (IF LoopOp \in Awaiting THEN {Len(m.code) + 1} ELSE {})
  BY <1>1, <1>8, <1>10, Abandon
<1>12. Unresolved(e) = Unresolved(out)
  BY <1>8, <1>10, <1>11
<1> HIDE DEF e
<1>13. Grows(out, e)
  BY <1>7, <1>8, <1>11, GrowsTransitive
<1>14. KnownOf(e)
  <2>1. Low(locals, e.height) /\ e.height >= 1
    BY <1>1, <1>11 DEF Known, KnownOf
  <2> QED BY <1>1, <1>11, <2>1, KnownGrows DEF KnownOf
<1>15. From(e, t, 0, Jumps)
  BY <1>1, <1>11, <1>13, Plus0
<1>16. Unresolved(e) \ Broken(loops) \subseteq Jumps
  BY <1>12 DEF Jumps
<1> QED BY <1>5, <1>6, <1>14, <1>15, <1>16, Onward

JumpsOp == "jump"
LEMMA StepBreak ==
  ASSUME NowWorking, Plain, Stating \/ Doing("jump"), Break, Do(<< >>)
  PROVE  NowWorking'
<1> DEFINE t == Tail(todo)
           n == Len(loops)
           loop == Last(loops)
           m == EmitPops(out, PopsToDepth(loop.scopeDepth))
           b == Here(m)
           arg == 0
           e == [Emit(m, JumpsOp, arg) EXCEPT !.height = out.height]
           ls == [loops EXCEPT ![n].breaks = @ \cup {b}]
           h == EndHeight(locals, loop)
           P == Now(out, loops, locals, depth, 0)
           U == Undefined(locals)
<1>1. /\ KnownOf(out) /\ IsSeq(t) /\ From(out, t, 0, Jumps)
      /\ out.height \in Nat /\ out.height >= 1
  BY NextJump
<1>2. loops # << >> /\ StatementPosition
  BY DEF Break
<1>3. /\ n >= 1 /\ loop = loops[n] /\ loop.locals <= Len(locals)
      /\ \E B \in Places : Leads(B, h) /\ loop.scopeDepth = B.d
  BY <1>1, <1>2, LoopAround
<1>4. PICK B \in Places : Leads(B, h) /\ loop.scopeDepth = B.d
  BY <1>3
<1>5. out' = e /\ loops' = ls /\ UNCHANGED <<locals, depth>>
  BY DEF Break, JumpsOp
<1>6. todo' = t
  <2>1. todo' = << >> \o t
    BY DEF Do
  <2> HIDE DEF t
  <2> QED BY <1>1, <2>1, Items0
<1>7. CodeOK(out) /\ locals \in Seq(Slots) /\ loops \in Seq(Loops) /\ n \in Nat /\ Len(locals) \in Nat /\ depth \in Nat
      /\ \A i \in 1..Len(locals) : locals[i].depth <= depth /\ locals[i].depth \in Int
  BY <1>1 DEF Known, KnownOf
<1>8. P = Place(out.height, Len(locals), depth, n)
  BY <1>1 DEF Now
<1>9. PlanFrom(out, loops, locals, t, P, U, 1..n, Jumps)
  BY <1>1 DEF From
<1>10. P \in Places /\ P.l = n
  BY <1>1, Here0
<1> HIDE DEF t, h, P, U
<1>11. CodeOK(m) /\ Grows(out, m) /\ m.height = h /\ Unresolved(m) = Unresolved(out)
  BY <1>1, <1>4, PopsTo
<1> HIDE DEF m, loop
<1>12. JumpsOp \in {"jump", "loop", "return"} /\ JumpsOp \in Awaiting /\ MayEmit(m, JumpsOp, arg)
  <2>1. JumpsOp \in Ops /\ JumpsOp \in Awaiting /\ Effect(JumpsOp, 0) = 0
    BY JumpOps DEF JumpsOp
  <2>2. JumpsOp \in {"jump", "loop", "return"}
    BY DEF JumpsOp
  <2>3. m.height \in Nat
    BY <1>11, OutFacts
  <2> QED BY <2>1, <2>2, <2>3, MayJump
<1> HIDE DEF arg
<1>13. /\ CodeOK(e) /\ Grows(m, e) /\ e.height = out.height /\ Len(e.code) = Len(m.code) + 1
       /\ e.code[Len(m.code) + 1].op = JumpsOp /\ e.code[Len(m.code) + 1].height = m.height
       /\ Unresolved(e) = Unresolved(m) \cup (IF JumpsOp \in Awaiting THEN {Len(m.code) + 1} ELSE {})
  BY <1>1, <1>11, <1>12, Abandon
<1>14. Unresolved(e) = Unresolved(out) \cup {b}
  BY <1>11, <1>12, <1>13 DEF Here
<1> HIDE DEF e
<1>15. Grows(out, e)
  BY <1>7, <1>11, <1>13, GrowsTransitive
<1>16. Len(m.code) \in Nat /\ b = Len(m.code) + 1
  BY <1>11, OutFacts DEF Here
<1>17. Patchable(e, b, h) /\ b \in Int
  BY <1>11, <1>12, <1>13, <1>16 DEF Patchable
<1> HIDE DEF b
<1>18. /\ n \in 1..Len(loops) /\ Patchable(e, b, EndHeight(locals, loops[n]))
       /\ loops[n].locals <= Len(locals)
  BY <1>3, <1>7, <1>17 DEF h
<1>19. PlanFrom(e, ls, locals, t, P, U, 1..n, Jumps)
  <2>1. PlanFrom(e, loops, locals, t, P, U, 1..n, Jumps)
    BY <1>7, <1>9, <1>13, <1>15, FromGrow
  <2>2. P.l <= Len(loops)
    BY <1>7, <1>10
  <2> HIDE DEF n
  <2>3. PlanFrom(e, [loops EXCEPT ![n].breaks = @ \cup {b}], locals, t, P, U, 1..n, Jumps)
    BY <1>7, <1>10, <1>18, <2>1, <2>2, FromBreak
  <2> QED BY <2>3
<1>20. ls \in Seq(Loops) /\ Len(ls) = n /\ Broken(ls) = Broken(loops) \cup {b}
  <2> DEFINE new == [loops[n] EXCEPT !.breaks = @ \cup {b}]
  <2>1. loops[n] \in Loops
    BY <1>7, <1>18
  <2>2. new \in Loops /\ new.breaks = loops[n].breaks \cup {b}
    BY <1>17, <2>1 DEF Loops
  <2>3. ls = [loops EXCEPT ![n] = new]
    OBVIOUS
  <2> HIDE DEF new, ls
  <2>4. n \in 1..n
    BY <1>18
  <2>5. ls \in Seq(Loops) /\ Len(ls) = n
    <3> HIDE DEF n
    <3>1. n = Len(loops)
      BY DEF n
    <3> QED BY <1>7, <2>2, <2>3, <2>4, <3>1
  <2>6. ls[n] = new /\ \A i \in 1..n : i # n => ls[i] = loops[i]
    <3> HIDE DEF n
    <3>1. n = Len(loops)
      BY DEF n
    <3> QED BY <1>7, <2>2, <2>3, <2>4, <3>1
  <2>7. Broken(ls) = Broken(loops) \cup {b}
    <3>1. \A x : x \in Broken(ls) <=> \E i \in 1..n : x \in ls[i].breaks
      BY <2>5 DEF Broken
    <3>2. \A x : x \in Broken(loops) <=> \E i \in 1..n : x \in loops[i].breaks
      BY DEF Broken
    <3> HIDE DEF n
    <3>3. \A i \in 1..n : ls[i].breaks = IF i = n THEN loops[n].breaks \cup {b} ELSE loops[i].breaks
      BY <2>2, <2>6
    <3> QED BY <2>4, <3>1, <3>2, <3>3
  <2> QED BY <2>5, <2>7
<1> HIDE DEF ls
<1>21. Known(e, ls, locals, depth)
  <2>1. e.height \in Nat /\ e.height >= 1 /\ Len(ls) \in Nat
    BY <1>1, <1>7, <1>13, <1>20
  <2>2. Low(locals, e.height)
    BY <1>1, <1>13 DEF Known, KnownOf
  <2> QED BY <1>7, <1>13, <1>20, <2>1, <2>2 DEF Known
<1>22. P = Place(e.height, Len(locals), depth, Len(ls))
  BY <1>8, <1>13, <1>20
<1>23. Unresolved(e) \ Broken(ls) \subseteq Jumps
  BY <1>14, <1>20 DEF Jumps
<1>24. PlanFrom(e, ls, locals, t, P, U, 1..Len(ls), Jumps)
  BY <1>19, <1>20
<1>25. Working(e, ls, locals, depth, t)
  BY <1>21, <1>22, <1>23, <1>24, Placed DEF U
<1> QED BY <1>5, <1>6, <1>25 DEF NowWorking

LEMMA StepJump == ASSUME NowWorking, Plain, Jump PROVE NowWorking'
<1>1. (Stating \/ Doing("jump")) /\ (Break \/ Continue) /\ Do(<< >>)
  BY DEF Jump
<1> QED BY <1>1, StepBreak, StepContinue

----------------------------------------------------------------------------
(* The end of the function.                                                *)

Jumping == Awaiting \cup {"loop"}

(* Code that the machine can run: no path leads out of it.                 *)
RunOK(o) ==
  /\ CodeOK(o) /\ Len(o.code) >= 1
  /\ \A q \in 1..Len(o.code) :
       /\ o.code[q].op \in Flowing => q < Len(o.code)
       /\ o.code[q].op \in Jumping => o.code[q].arg \in 1..Len(o.code)

(* When nothing is left to compile, every jump has been patched.           *)
LEMMA AllPatched ==
  ASSUME NowWorking, todo = << >>
  PROVE  KnownOf(out) /\ Unresolved(out) = {}
<1>1. KnownOf(out)
  BY Begin DEF NowWorking, KnownOf
<1>2. AllFrom(out, loops, locals, << >>, Place(out.height, Len(locals), depth, Len(loops)))
  BY DEF NowWorking, Working
<1>3. PICK S : Settles(<< >>, S, Undefined(locals), 1..Len(loops), Unresolved(out) \ Broken(loops))
  BY <1>2 DEF AllFrom, PlanFrom
<1>4. \A k \in 1..Len(<< >>) : FALSE
  OBVIOUS
<1>5. \A m \in 1..Len(loops) : FALSE
  BY <1>3, <1>4 DEF Settles
<1>6. Broken(loops) = {}
  BY <1>5 DEF Broken
<1>7. \A q \in Unresolved(out) \ Broken(loops) : FALSE
  BY <1>3, <1>4 DEF Settles
<1> QED BY <1>1, <1>6, <1>7

LEMMA EmitText ==
  ASSUME NEW o, CodeOK(o), NEW op, NEW arg
  PROVE  LET e == Emit(o, op, arg)
         IN  /\ Len(e.code) = Len(o.code) + 1
             /\ \A q \in 1..Len(o.code) : e.code[q] = o.code[q]
             /\ e.code[Len(o.code) + 1].op = op
<1> DEFINE e == Emit(o, op, arg)
           i == [op |-> op, arg |-> arg, height |-> o.height]
<1>1. o \in Outs /\ Len(o.code) \in Nat /\ o.code \in Seq(Instructions)
  BY OutFacts
<1>2. e.code = Append(o.code, i)
  BY <1>1 DEF Emit, Outs
<1>3. i.op = op
  OBVIOUS
<1> HIDE DEF e, i
<1>4. /\ Len(Append(o.code, i)) = Len(o.code) + 1
      /\ \A q \in 1..Len(o.code) : Append(o.code, i)[q] = o.code[q]
      /\ Append(o.code, i)[Len(o.code) + 1] = i
  BY <1>1
<1> QED BY <1>2, <1>3, <1>4 DEF e

LEMMA ReturnOps ==
  /\ Simple("constant") /\ Simple("return") /\ 0 \in Int \cup Slots
  /\ Effect("constant", 0) = 1 /\ Effect("return", 0) = -1
  /\ "constant" \notin Jumping /\ "return" \notin Jumping /\ "return" \notin Flowing
<1>0. 0 \in Int \cup Slots
  OBVIOUS
<1>1. Simple("constant") /\ Simple("return")
  BY SimpleOps
<1>2. Effect("constant", 0) = 1 /\ Effect("return", 0) = -1
  BY DEF Effect
<1>3. "constant" \notin Jumping /\ "return" \notin Jumping /\ "return" \notin Flowing
  BY DEF Jumping, Awaiting, Flowing
<1> QED BY <1>0, <1>1, <1>2, <1>3

(* Two instructions more, the second of which leaves the function.         *)
LEMMA Finished ==
  ASSUME NEW o, CodeOK(o), Unresolved(o) = {}, NEW op1, NEW op2, NEW arg,
         MayEmit(o, op1, arg), MayEmit(Emit(o, op1, arg), op2, arg),
         op1 \notin Jumping, op2 \notin Jumping, op2 \notin Flowing
  PROVE  RunOK(Emit(Emit(o, op1, arg), op2, arg))
<1> DEFINE m == Emit(o, op1, arg)
           e == Emit(m, op2, arg)
           n == Len(o.code)
<1>1. CodeOK(m)
  BY EmitKeeps
<1>2. CodeOK(e)
  BY <1>1, EmitKeeps
<1>3. /\ Len(m.code) = n + 1 /\ m.code[n + 1].op = op1
      /\ \A q \in 1..n : m.code[q] = o.code[q]
  BY EmitText
<1>4. /\ Len(e.code) = Len(m.code) + 1 /\ e.code[Len(m.code) + 1].op = op2
      /\ \A q \in 1..Len(m.code) : e.code[q] = m.code[q]
  BY <1>1, EmitText
<1>5. n \in Nat
  BY OutFacts
<1> HIDE DEF m, e
<1>6. /\ Len(e.code) = n + 2 /\ e.code[n + 1].op = op1 /\ e.code[n + 2].op = op2
      /\ \A q \in 1..n : e.code[q] = o.code[q]
  <2>1. Len(m.code) + 1 = n + 2
    BY <1>3, <1>5
  <2>2. n + 1 \in 1..Len(m.code) /\ \A q \in 1..n : q \in 1..Len(m.code)
    BY <1>3, <1>5
  <2> QED BY <1>3, <1>4, <2>1, <2>2
<1>7. \A q \in 1..n : o.code[q].op \in Jumping => o.code[q].arg \in 1..n + 1
  <2> SUFFICES ASSUME NEW q \in 1..n, o.code[q].op \in Jumping PROVE o.code[q].arg \in 1..n + 1
    OBVIOUS
  <2>1. Sound(o, q)
    BY DEF CodeOK
  <2>2. ~ (o.code[q].op \in Awaiting /\ o.code[q].arg = 0)
    BY DEF Unresolved
  <2> QED BY <2>1, <2>2 DEF Sound, Jumping
<1> HIDE DEF n
<1>8. \A q \in 1..n + 2 : q \in 1..n \/ q = n + 1 \/ q = n + 2
  BY <1>5
<1>9. \A q \in 1..n + 1 : q \in 1..n + 2
  BY <1>5
<1>10. ASSUME NEW q \in 1..n + 2
       PROVE  /\ e.code[q].op \in Flowing => q < n + 2
              /\ e.code[q].op \in Jumping => e.code[q].arg \in 1..n + 2
  <2>1. CASE q \in 1..n
    <3>1. q < n + 2
      BY <1>5, <2>1
    <3> QED BY <1>6, <1>7, <1>9, <2>1, <3>1
  <2>2. CASE q = n + 1
    <3>1. q < n + 2
      BY <1>5, <2>2
    <3> QED BY <1>6, <2>2, <3>1
  <2>3. CASE q = n + 2
    BY <1>6, <2>3
  <2> QED BY <1>8, <2>1, <2>2, <2>3
<1>11. Len(e.code) >= 1
  BY <1>5, <1>6
<1> QED BY <1>2, <1>6, <1>10, <1>11 DEF RunOK, e, m

LEMMA StepEndCompiler ==
  ASSUME NowWorking, EndCompiler
  PROVE  RunOK(out') /\ phase' = "run" /\ UNCHANGED <<pc, stack>>
<1>1. CodeOK(out) /\ Unresolved(out) = {} /\ out.height \in Nat
  BY AllPatched DEF EndCompiler, KnownOf, Known
<1> DEFINE op1 == "constant"
           op2 == "return"
           arg == 0
<1>2. /\ Simple(op1) /\ Simple(op2) /\ arg \in Int \cup Slots
      /\ Effect(op1, arg) = 1 /\ Effect(op2, arg) = -1
      /\ op1 \notin Jumping /\ op2 \notin Jumping /\ op2 \notin Flowing
  BY ReturnOps
<1>3. out' = Emit(Emit(out, op1, arg), op2, arg) /\ phase' = "run" /\ UNCHANGED <<pc, stack>>
  BY DEF EndCompiler, machine
<1> HIDE DEF op1, op2, arg
<1>4. MayEmit(out, op1, arg)
  <2>1. out.height + Effect(op1, arg) \in Nat
    BY <1>1, <1>2
  <2> QED BY <1>2, <2>1, SimpleEmit
<1>5. Emit(out, op1, arg).height = out.height + Effect(op1, arg)
  BY <1>1, <1>4, EmitKeeps
<1>6. MayEmit(Emit(out, op1, arg), op2, arg)
  <2>1. Emit(out, op1, arg).height + Effect(op2, arg) \in Nat
    BY <1>1, <1>2, <1>5
  <2> QED BY <1>2, <2>1, SimpleEmit
<1>7. RunOK(Emit(Emit(out, op1, arg), op2, arg))
  BY <1>1, <1>2, <1>4, <1>6, Finished
<1> QED BY <1>3, <1>7

----------------------------------------------------------------------------
(* The machine.                                                            *)

Running ==
  /\ RunOK(out) /\ pc \in 1..Len(out.code)
  /\ IsSeq(stack) /\ Len(stack) = out.code[pc].height

LEMMA RunFacts ==
  ASSUME Running
  PROVE  LET i == out.code[pc]
         IN  /\ pc \in Nat /\ Len(stack) \in Nat /\ i.height = Len(stack)
             /\ i.op \in Ops /\ i.height \in Nat
             /\ i.op \in Flowing =>
                  /\ pc + 1 \in 1..Len(out.code)
                  /\ out.code[pc + 1].height = Len(stack) + Effect(i.op, i.arg)
                  /\ out.code[pc + 1].height \in Nat
             /\ i.op \in Jumping =>
                  i.arg \in 1..Len(out.code) /\ out.code[i.arg].height = Len(stack)
             /\ i.op = "close block" => i.arg \in Nat /\ Len(stack) > i.arg
<1>1. /\ CodeOK(out) /\ pc \in 1..Len(out.code) /\ IsSeq(stack)
      /\ Len(stack) = out.code[pc].height
  BY DEF Running, RunOK
<1>2. /\ Len(out.code) \in Nat /\ out.code[pc].op \in Ops /\ out.code[pc].height \in Nat
      /\ \A t \in 1..Len(out.code) : out.code[t].height \in Nat
  BY <1>1, OutFacts
<1>3. Sound(out, pc)
  BY <1>1 DEF CodeOK
<1>4. pc \in Nat /\ Len(stack) \in Nat
  BY <1>1, <1>2
<1>5. ASSUME out.code[pc].op \in Flowing
      PROVE  /\ pc + 1 \in 1..Len(out.code)
             /\ out.code[pc + 1].height = Len(stack) + Effect(out.code[pc].op, out.code[pc].arg)
  <2>1. pc < Len(out.code)
    BY <1>1, <1>5 DEF Running, RunOK
  <2>2. pc + 1 \in 1..Len(out.code)
    BY <1>2, <1>4, <2>1
  <2>3. HeightAt(out, pc + 1) = out.code[pc + 1].height
    BY <1>2, <1>4, <2>1 DEF HeightAt
  <2> QED BY <1>1, <1>3, <1>5, <2>2, <2>3 DEF Sound
<1>6. ASSUME out.code[pc].op \in Jumping
      PROVE  /\ out.code[pc].arg \in 1..Len(out.code)
             /\ out.code[out.code[pc].arg].height = Len(stack)
  <2> DEFINE a == out.code[pc].arg
  <2>1. a \in 1..Len(out.code)
    BY <1>1, <1>6 DEF Running, RunOK
  <2>2. HeightAt(out, a) = out.code[a].height /\ a # 0
    BY <1>2, <2>1 DEF HeightAt
  <2> QED BY <1>1, <1>3, <1>6, <2>1, <2>2 DEF Sound, Jumping
<1>7. out.code[pc].op = CloseOp => out.code[pc].arg \in Nat /\ Len(stack) > out.code[pc].arg
  BY <1>1, <1>3 DEF Sound, CloseOp
<1> QED BY <1>1, <1>2, <1>4, <1>5, <1>6, <1>7 DEF CloseOp

(* An instruction that goes on with the next one.                          *)
LEMMA GoesOn ==
  ASSUME Running, out.code[pc].op \in Flowing, NEW s, NEW o,
         Run(pc + 1, s, o), IsSeq(s),
         Len(s) = Len(stack) + Effect(out.code[pc].op, out.code[pc].arg)
  PROVE  Running' /\ out' = out /\ phase' = phase
<1>1. /\ pc + 1 \in 1..Len(out.code)
      /\ out.code[pc + 1].height = Len(stack) + Effect(out.code[pc].op, out.code[pc].arg)
  BY RunFacts
<1>2. pc' = pc + 1 /\ stack' = s /\ out' = out /\ phase' = phase
  BY DEF Run
<1> QED BY <1>1, <1>2 DEF Running

(* One that goes where it says.                                            *)
LEMMA GoesTo ==
  ASSUME Running, out.code[pc].op \in Jumping, NEW o, Run(Arg, stack, o)
  PROVE  Running' /\ out' = out /\ phase' = phase
<1>1. Arg \in 1..Len(out.code) /\ out.code[Arg].height = Len(stack)
  BY RunFacts DEF Arg
<1>2. pc' = Arg /\ stack' = stack /\ out' = out /\ phase' = phase
  BY DEF Run
<1> QED BY <1>1, <1>2 DEF Running

LEMMA Pushed ==
  ASSUME NEW s, IsSeq(s), NEW v
  PROVE  IsSeq(Append(s, v)) /\ Len(Append(s, v)) = Len(s) + 1 /\ Len(s) \in Nat
<1>1. PICK X : s \in Seq(X)
  BY DEF IsSeq
<1> DEFINE Y == X \cup {v}
<1>2. s \in Seq(Y) /\ v \in Y
  BY <1>1
<1> HIDE DEF Y
<1>3. Append(s, v) \in Seq(Y) /\ Len(Append(s, v)) = Len(s) + 1 /\ Len(s) \in Nat
  BY <1>2
<1> QED BY <1>3 DEF IsSeq

LEMMA Cut ==
  ASSUME NEW s, IsSeq(s), NEW n \in Nat, n <= Len(s)
  PROVE  IsSeq(SubSeq(s, 1, n)) /\ Len(SubSeq(s, 1, n)) = n
<1>1. PICK X : s \in Seq(X)
  BY DEF IsSeq
<1>2. SubSeq(s, 1, n) \in Seq(X) /\ Len(SubSeq(s, 1, n)) = n
  BY <1>1
<1> QED BY <1>2 DEF IsSeq

LEMMA Replaced ==
  ASSUME NEW s, IsSeq(s), NEW i, NEW v
  PROVE  IsSeq([s EXCEPT ![i] = v]) /\ Len([s EXCEPT ![i] = v]) = Len(s)
<1>1. PICK X : s \in Seq(X)
  BY DEF IsSeq
<1> DEFINE Y == X \cup {v}
           t == [s EXCEPT ![i] = v]
<1>2. s \in [1..Len(s) -> Y] /\ v \in Y /\ Len(s) \in Nat
  BY <1>1
<1> HIDE DEF Y
<1>3. t \in [1..Len(s) -> Y]
  BY <1>2
<1> HIDE DEF t
<1>4. t \in Seq(Y) /\ Len(t) = Len(s)
  BY <1>2, <1>3
<1> QED BY <1>4 DEF IsSeq, t

LEMMA Effects ==
  ASSUME NEW op, NEW arg
  PROVE  /\ op \in {"constant", "get local", "closure"} => op \in Flowing /\ Effect(op, arg) = 1
         /\ op = "name" => op \in Flowing /\ Effect(op, arg) = 0
         /\ op \in {"pop", "add", "close upvalue"} => op \in Flowing /\ Effect(op, arg) = -1
         /\ op = CloseOp => op \in Flowing /\ Effect(op, arg) = -arg
         /\ op = JumpOp => op \in Flowing /\ op \in Jumping /\ Effect(op, arg) = 0
         /\ op \in {"jump", "loop"} => op \in Jumping
<1>1. op \in {"constant", "get local", "closure"} => op \in Flowing /\ Effect(op, arg) = 1
  BY DEF Flowing, Ops, Effect
<1>2. op = "name" => op \in Flowing /\ Effect(op, arg) = 0
  BY DEF Flowing, Ops, Effect
<1>3. op \in {"pop", "add", "close upvalue"} => op \in Flowing /\ Effect(op, arg) = -1
  BY DEF Flowing, Ops, Effect
<1>4. op = CloseOp => op \in Flowing /\ Effect(op, arg) = -arg
  BY DEF Flowing, Ops, Effect, CloseOp
<1>5. op = JumpOp => op \in Flowing /\ op \in Jumping /\ Effect(op, arg) = 0
  BY DEF Flowing, Ops, Effect, JumpOp, Jumping, Awaiting
<1>6. op \in {"jump", "loop"} => op \in Jumping
  BY DEF Jumping, Awaiting
<1> QED BY <1>1, <1>2, <1>3, <1>4, <1>5, <1>6

Steps == Running' /\ out' = out /\ phase' = phase

LEMMA RunPushValue == ASSUME Running, PushValue PROVE Steps
<1> DEFINE s == Append(stack, NONE)
<1>1. /\ out.code[pc].op \in Flowing /\ Effect(out.code[pc].op, out.code[pc].arg) = 1
      /\ Run(pc + 1, s, open)
  BY Effects DEF PushValue, At
<1>2. IsSeq(s) /\ Len(s) = Len(stack) + 1
  BY Pushed DEF Running
<1> HIDE DEF s
<1> QED BY <1>1, <1>2, GoesOn DEF Steps

LEMMA RunMakeClosure == ASSUME Running, MakeClosure PROVE Steps
<1> DEFINE s == Append(stack, NONE)
           o == open \cup {Arg.slot}
<1>1. /\ out.code[pc].op \in Flowing /\ Effect(out.code[pc].op, out.code[pc].arg) = 1
      /\ Run(pc + 1, s, o)
  BY Effects DEF MakeClosure, At
<1>2. IsSeq(s) /\ Len(s) = Len(stack) + 1
  BY Pushed DEF Running
<1> HIDE DEF s, o
<1> QED BY <1>1, <1>2, GoesOn DEF Steps

LEMMA RunName == ASSUME Running, Name PROVE Steps
<1> DEFINE s == [stack EXCEPT ![Arg.slot + 1] = Arg.decl]
<1>1. /\ out.code[pc].op \in Flowing /\ Effect(out.code[pc].op, out.code[pc].arg) = 0
      /\ Run(pc + 1, s, open)
  BY Effects DEF Name, At
<1>2. IsSeq(s) /\ Len(s) = Len(stack) /\ Len(stack) \in Nat
  BY Replaced, RunFacts DEF Running
<1> HIDE DEF s
<1>3. Len(s) = Len(stack) + 0
  BY <1>2
<1> QED BY <1>1, <1>2, <1>3, GoesOn DEF Steps

LEMMA Dropped ==
  ASSUME Running, out.code[pc].op \in Flowing, Effect(out.code[pc].op, out.code[pc].arg) = -1
  PROVE  /\ IsSeq(SubSeq(stack, 1, Len(stack) - 1))
         /\ Len(SubSeq(stack, 1, Len(stack) - 1)) = Len(stack) + -1
<1>1. /\ Len(stack) \in Nat /\ out.code[pc + 1].height \in Nat
      /\ out.code[pc + 1].height = Len(stack) + -1
  BY RunFacts
<1>2. Len(stack) - 1 \in Nat /\ Len(stack) - 1 <= Len(stack) /\ Len(stack) - 1 = Len(stack) + -1
  BY <1>1
<1>3. IsSeq(stack)
  BY DEF Running
<1> QED BY <1>2, <1>3, Cut

LEMMA RunPop == ASSUME Running, Pop PROVE Steps
<1> DEFINE s == SubSeq(stack, 1, Len(stack) - 1)
<1>1. /\ out.code[pc].op \in Flowing /\ Effect(out.code[pc].op, out.code[pc].arg) = -1
      /\ Run(pc + 1, s, open)
  BY Effects DEF Pop, At
<1>2. IsSeq(s) /\ Len(s) = Len(stack) + -1
  BY <1>1, Dropped
<1> HIDE DEF s
<1> QED BY <1>1, <1>2, GoesOn DEF Steps

LEMMA RunCloseUpvalue == ASSUME Running, CloseUpvalue PROVE Steps
<1> DEFINE s == SubSeq(stack, 1, Len(stack) - 1)
           o == open \ {Len(stack) - 1}
<1>1. /\ out.code[pc].op \in Flowing /\ Effect(out.code[pc].op, out.code[pc].arg) = -1
      /\ Run(pc + 1, s, o)
  BY Effects DEF CloseUpvalue, At
<1>2. IsSeq(s) /\ Len(s) = Len(stack) + -1
  BY <1>1, Dropped
<1> HIDE DEF s, o
<1> QED BY <1>1, <1>2, GoesOn DEF Steps

LEMMA RunCloseBlock == ASSUME Running, CloseBlock PROVE Steps
<1> DEFINE kept == Len(stack) - Arg - 1
           r == SubSeq(stack, 1, kept)
           s == Append(r, NONE)
           o == {u \in open : u < kept}
<1>1. out.code[pc].op = CloseOp /\ Run(pc + 1, s, o)
  BY DEF CloseBlock, At, CloseOp
<1>2. out.code[pc].op \in Flowing /\ Effect(out.code[pc].op, out.code[pc].arg) = -Arg
  BY <1>1, Effects DEF Arg
<1>3. Arg \in Nat /\ Len(stack) > Arg /\ Len(stack) \in Nat
  BY <1>1, RunFacts DEF Arg, CloseOp
<1>4. kept \in Nat /\ kept <= Len(stack) /\ kept + 1 = Len(stack) + -Arg
  BY <1>3
<1> HIDE DEF kept
<1>5. IsSeq(r) /\ Len(r) = kept
  BY <1>4, Cut DEF Running
<1> HIDE DEF r
<1>6. IsSeq(s) /\ Len(s) = Len(stack) + -Arg
  BY <1>4, <1>5, Pushed
<1> HIDE DEF s, o
<1> QED BY <1>1, <1>2, <1>6, GoesOn DEF Steps

(* Both ways of a conditional jump are at the height it has.                *)
LEMMA RunJumpIfFalse == ASSUME Running, JumpIfFalse PROVE Steps
<1>1. out.code[pc].op = JumpOp /\ (Run(pc + 1, stack, open) \/ Run(Arg, stack, open))
  BY DEF JumpIfFalse, At, JumpOp
<1>2. /\ out.code[pc].op \in Flowing /\ out.code[pc].op \in Jumping
      /\ Effect(out.code[pc].op, out.code[pc].arg) = 0
  BY <1>1, Effects
<1>0. Len(stack) \in Nat
  BY RunFacts
<1>3. IsSeq(stack) /\ Len(stack) = Len(stack) + 0
  BY <1>0 DEF Running
<1>4. CASE Run(pc + 1, stack, open)
  BY <1>2, <1>3, <1>4, GoesOn DEF Steps
<1>5. CASE Run(Arg, stack, open)
  BY <1>2, <1>5, GoesTo DEF Steps
<1> QED BY <1>1, <1>4, <1>5

LEMMA RunTakeJump == ASSUME Running, TakeJump PROVE Steps
<1>1. out.code[pc].op \in Jumping /\ Run(Arg, stack, open)
  BY Effects DEF TakeJump, At
<1> QED BY <1>1, GoesTo DEF Steps

----------------------------------------------------------------------------
(* The inductive invariant.                                                *)

(* Everything is still to be compiled, with no operands and no locals.     *)
LEMMA Starts ==
  ASSUME NEW o, CodeOK(o), Len(o.code) = 0, o.height = 1
  PROVE  Working(o, << >>, << >>, 1, <<[do |-> "stmts"]>>)
<1> DEFINE it == [do |-> "stmts"]
           P == Place(1, 0, 1, 0)
           R == [P EXCEPT !.x = 0]
           S == <<R>>
<1>1. it.do = "stmts" /\ it.do # "define"
  OBVIOUS
<1>2. /\ P \in Places /\ P.e = 1 /\ P.n = 0 /\ P.d = 1 /\ P.l = 0 /\ P.x = 1
      /\ R \in Places /\ R.e = 1 /\ R.n = 0 /\ R.d = 1 /\ R.l = 0 /\ R.x = 0
  BY DEF Place, Places
<1> HIDE DEF P, R
<1>3. S \in Seq(Places) /\ Len(S) = 1 /\ S[1] = R
  BY <1>2
<1> HIDE DEF S
<1>4. Fits(<< >>, P) /\ Fits(<< >>, R)
  <2>1. \A i \in 1..Len(<< >>) : FALSE
    OBVIOUS
  <2>2. HasSlots(<< >>, P.e, P.n, P.d) /\ HasSlots(<< >>, R.e, R.n, R.d)
    BY <2>1 DEF HasSlots
  <2> QED BY <1>2, <2>1, <2>2 DEF Fits
<1>5. Plan(o, << >>, << >>, << >>, S)
  <2>1. IsSeq(<< >>)
    <3>1. << >> \in Seq({})
      OBVIOUS
    <3> QED BY <3>1 DEF IsSeq
  <2>2. Len(<< >>) = 0 /\ \A k \in 1..Len(<< >>) : FALSE
    OBVIOUS
  <2>3. \A k \in 1..1 : k = 1
    OBVIOUS
  <2>4. Len(S) = Len(<< >>) + 1
    BY <1>3, <2>2
  <2>5. \A k \in 1..Len(S) : Fits(<< >>, S[k])
    BY <1>3, <1>4, <2>3
  <2>6. \A j, k \in 1..Len(S) : ~ (j < k)
    BY <1>3, <2>3
  <2> QED BY <1>3, <2>1, <2>2, <2>4, <2>5, <2>6 DEF Plan
<1>6. Undefined(<< >>) = {} /\ 1..Len(<< >>) = {} /\ Unresolved(o) \ Broken(<< >>) = {}
  <2>1. \A k \in 1..Len(<< >>) : FALSE
    OBVIOUS
  <2>2. \A q \in 1..Len(o.code) : FALSE
    OBVIOUS
  <2> QED BY <2>1, <2>2 DEF Undefined, Unresolved
<1>7. Settles(<< >>, S, {}, {}, {})
  BY DEF Settles
<1>8. PlanFrom(o, << >>, << >>, << >>, R, {}, {}, {})
  BY <1>3, <1>5, <1>7 DEF PlanFrom
<1>9. Link(o, << >>, << >>, it, P, R)
  <2>1. Keeps(P, R, 0) /\ R.x = 0
    BY <1>2 DEF Keeps
  <2> QED BY <2>1, Links DEF it
<1>10. Before(P, R)
  BY <1>2 DEF Before
<1>11. Added(it, P, {}, {}, {}, {}, {}, {})
  BY DEF Added
<1> HIDE DEF it
<1>12. PlanFrom(o, << >>, << >>, <<it>> \o << >>, P, {}, {}, {})
  BY <1>1, <1>2, <1>4, <1>8, <1>9, <1>10, <1>11, FromCons
<1>13. <<it>> \o << >> = <<it>>
  OBVIOUS
<1>14. AllFrom(o, << >>, << >>, <<it>>, P)
  BY <1>6, <1>12, <1>13 DEF AllFrom
<1>15. P = Place(o.height, Len(<< >>), 1, Len(<< >>))
  BY DEF P
<1>16. << >> \in Seq(Slots) /\ << >> \in Seq(Loops) /\ 1 \in Nat
  OBVIOUS
<1> QED BY <1>14, <1>15, <1>16 DEF Working, it

IInv ==
  /\ phase \in {"compile", "run", "done"}
  /\ out.ok
  /\ phase = "compile" =>
       NowWorking /\ nodes \in Nat /\ pc = 1 /\ IsSeq(stack) /\ Len(stack) = 1
  /\ phase = "run" => Running

LEMMA InitIInv == Init => IInv
<1> SUFFICES ASSUME Init PROVE IInv
  OBVIOUS
<1>1. /\ phase = "compile" /\ out = [code |-> << >>, height |-> 1, reachable |-> TRUE, ok |-> TRUE]
      /\ todo = <<[do |-> "stmts"]>> /\ locals = << >> /\ loops = << >> /\ depth = 1
      /\ nodes = 0 /\ pc = 1 /\ stack = <<NONE>>
  BY DEF Init
<1>2. out.ok /\ out.height = 1 /\ out.code = << >> /\ Len(out.code) = 0 /\ out \in Outs
  BY <1>1 DEF Outs
<1>3. CodeOK(out)
  <2>1. HeightAt(out, 1) = 1
    BY <1>2 DEF HeightAt
  <2>2. \A q \in 1..Len(out.code) : FALSE
    BY <1>2
  <2> QED BY <1>2, <2>1, <2>2 DEF CodeOK
<1>4. Working(out, << >>, << >>, 1, <<[do |-> "stmts"]>>)
  BY <1>2, <1>3, Starts
<1>5. NowWorking
  BY <1>1, <1>4 DEF NowWorking
<1>6. IsSeq(stack) /\ Len(stack) = 1
  <2>1. stack \in Seq({NONE}) /\ Len(stack) = 1
    BY <1>1
  <2> QED BY <2>1 DEF IsSeq
<1> QED BY <1>1, <1>2, <1>5, <1>6 DEF IInv

(* The steps of the compiler but for the last.                             *)
Walk ==
  \/ CheckStatement \/ EmitOperator \/ Statements \/ ExprStmt \/ VarDecl \/ DefineVariable
  \/ Block \/ BlockValue \/ EndScope \/ If \/ IfExpr \/ Then \/ Else \/ Patch
  \/ While \/ WhileBody \/ For \/ ForCondition \/ ForExit \/ ForIncrement \/ EndLoop
  \/ Jump \/ Return \/ FinishReturn
  \/ Literal \/ Binary \/ And \/ AndRight \/ BlockExpr \/ CloseBlockExpr
  \/ \E i \in Initialized : Variable(i) \/ Lambda(i)
  \/ \E self \in BOOLEAN : FunctionDecl(self)

LEMMA WalkKeeps ==
  ASSUME NowWorking, nodes \in Nat, Plain, Walk
  PROVE  NowWorking'
BY StepCheckStatement, StepEmitOperator, StepStatements, StepExprStmt, StepVarDecl,
   StepDefineVariable, StepBlock, StepBlockValue, StepEndScope, StepIf, StepIfExpr, StepThen,
   StepElse, StepPatch, StepWhile, StepWhileBody, StepFor, StepForCondition, StepForExit,
   StepForIncrement, StepEndLoop, StepJump, StepReturn, StepFinishReturn, StepLiteral,
   StepBinary, StepAnd, StepAndRight, StepBlockExpr, StepCloseBlockExpr, StepVariable,
   StepLambda, StepFunctionDecl
   DEF Walk

(* The compiler leaves the machine alone until the code is complete.       *)
Counts == UNCHANGED <<phase, machine>> /\ (nodes \in Nat => nodes' \in Nat)

LEMMA WalkCounts == ASSUME Walk PROVE Counts
<1>0. Same = UNCHANGED <<phase, machine>>
  BY DEF Same
<1>1. ASSUME NEW c, Node(c) PROVE nodes \in Nat => nodes' \in Nat
  BY <1>1 DEF Node
<1>2. ASSUME ExprStmt \/ VarDecl \/ Block \/ If \/ IfExpr \/ While \/ For \/ Return \/ Binary
             \/ And \/ BlockExpr
      PROVE  Counts
  BY <1>0, <1>1, <1>2 DEF Counts, ExprStmt, VarDecl, Block, If, IfExpr, While, For, Return,
     Binary, And, BlockExpr
<1>3. ASSUME CheckStatement \/ EmitOperator \/ Statements \/ DefineVariable \/ EndScope \/ Then
             \/ Else \/ Patch \/ WhileBody \/ ForCondition \/ ForExit \/ ForIncrement \/ EndLoop
      PROVE  Counts
  BY <1>0, <1>3 DEF Counts, CheckStatement, EmitOperator, Statements, DefineVariable, EndScope,
     Then, Else, Patch, WhileBody, ForCondition, ForExit, ForIncrement, EndLoop
<1>4. ASSUME FinishReturn \/ Literal \/ AndRight \/ CloseBlockExpr PROVE Counts
  BY <1>0, <1>4 DEF Counts, FinishReturn, Literal, AndRight, CloseBlockExpr
<1>5. BlockValue => Counts
  BY <1>0, <1>1 DEF Counts, BlockValue
<1>6. Jump => Counts
  BY <1>0, <1>1 DEF Counts, Jump, Break, Continue
<1>7. ASSUME NEW i, Variable(i) \/ Lambda(i) PROVE Counts
  BY <1>0, <1>1, <1>7 DEF Counts, Variable, Lambda
<1>8. ASSUME NEW self, FunctionDecl(self) PROVE Counts
  BY <1>0, <1>1, <1>8 DEF Counts, FunctionDecl
<1> QED BY <1>2, <1>3, <1>4, <1>5, <1>6, <1>7, <1>8 DEF Walk

LEMMA WalkCompiles == ASSUME Walk PROVE phase = "compile"
<1>0. \A d : Doing(d) => phase = "compile"
  BY DEF Doing
<1>1. ASSUME CheckStatement \/ EmitOperator \/ Statements \/ ExprStmt \/ VarDecl \/ DefineVariable
             \/ Block \/ BlockValue \/ EndScope \/ If \/ IfExpr \/ Then \/ Else \/ Patch
      PROVE  phase = "compile"
  BY <1>0, <1>1 DEF Stating, CheckStatement, EmitOperator, Statements, ExprStmt, VarDecl,
     DefineVariable, Block, BlockValue, EndScope, If, IfExpr, Then, Else, Patch
<1>2. ASSUME While \/ WhileBody \/ For \/ ForCondition \/ ForExit \/ ForIncrement \/ EndLoop
             \/ Jump \/ Return \/ FinishReturn
      PROVE  phase = "compile"
  BY <1>0, <1>2 DEF Stating, While, WhileBody, For, ForCondition, ForExit, ForIncrement, EndLoop,
     Jump, Return, FinishReturn
<1>3. ASSUME Literal \/ Binary \/ And \/ AndRight \/ BlockExpr \/ CloseBlockExpr
      PROVE  phase = "compile"
  BY <1>0, <1>3 DEF Literal, Binary, And, AndRight, BlockExpr, CloseBlockExpr
<1>4. ASSUME NEW i, Variable(i) \/ Lambda(i) PROVE phase = "compile"
  BY <1>0, <1>4 DEF Variable, Lambda
<1>5. ASSUME NEW self, FunctionDecl(self) PROVE phase = "compile"
  BY <1>0, <1>5 DEF FunctionDecl
<1> QED BY <1>1, <1>2, <1>3, <1>4, <1>5 DEF Walk

LEMMA NextIInv == Plain /\ IInv /\ [Next]_vars => IInv'
<1> SUFFICES ASSUME Plain, IInv, [Next]_vars PROVE IInv'
  OBVIOUS
<1>1. CASE Walk
  <2>1. Counts
    BY <1>1, WalkCounts
  <2>2. UNCHANGED <<phase, pc, stack>> /\ phase = "compile"
    <3>1. UNCHANGED <<phase, pc, stack>>
      BY <2>1 DEF Counts, machine
    <3>2. phase = "compile"
      BY <1>1, WalkCompiles
    <3> QED BY <3>1, <3>2
  <2>3. NowWorking' /\ nodes' \in Nat
    BY <1>1, <2>1, <2>2, WalkKeeps DEF IInv, Counts
  <2>4. out'.ok
    BY <2>3 DEF NowWorking, Working, CodeOK
  <2> QED BY <2>2, <2>3, <2>4 DEF IInv, IsSeq
<1>2. CASE EndCompiler
  <2>1. NowWorking /\ pc = 1 /\ IsSeq(stack) /\ Len(stack) = 1
    BY <1>2 DEF IInv, EndCompiler
  <2>2. RunOK(out') /\ phase' = "run" /\ UNCHANGED <<pc, stack>>
    BY <1>2, <2>1, StepEndCompiler
  <2>3. CodeOK(out') /\ out'.ok /\ HeightAt(out', 1) = 1 /\ Len(out'.code) >= 1 /\ Len(out'.code) \in Nat
    BY <2>2, OutFacts DEF RunOK, CodeOK
  <2>4. 1 \in 1..Len(out'.code) /\ out'.code[1].height = 1
    BY <2>3 DEF HeightAt
  <2>5. Running'
    BY <2>1, <2>2, <2>4 DEF Running, IsSeq
  <2> QED BY <2>2, <2>3, <2>5 DEF IInv
<1>3. CASE Execute
  <2>1. phase = "run" /\ Running
    BY <1>3 DEF IInv, Execute, PushValue, MakeClosure, Name, Pop, CloseUpvalue, CloseBlock,
       JumpIfFalse, TakeJump, ReturnValue, At
  <2>2. CASE ReturnValue
    BY <2>2 DEF IInv, ReturnValue
  <2>3. CASE PushValue \/ MakeClosure \/ Name \/ Pop \/ CloseUpvalue \/ CloseBlock
             \/ JumpIfFalse \/ TakeJump
    <3>1. Steps
      BY <2>1, <2>3, RunPushValue, RunMakeClosure, RunName, RunPop, RunCloseUpvalue,
         RunCloseBlock, RunJumpIfFalse, RunTakeJump
    <3> QED BY <2>1, <3>1 DEF IInv, Steps
  <2> QED BY <1>3, <2>2, <2>3 DEF Execute
<1>4. CASE UNCHANGED vars
  <2>1. UNCHANGED <<phase, out, todo, nodes, locals, depth, loops, pc, stack>>
    BY <1>4 DEF vars, compiler, machine
  <2>2. NowWorking => NowWorking'
    BY <2>1 DEF NowWorking
  <2>3. Running => Running'
    BY <2>1 DEF Running
  <2> QED BY <2>1, <2>2, <2>3 DEF IInv
<1> QED BY <1>1, <1>2, <1>3, <1>4 DEF Next, Compile, Walk

LEMMA IInvHolds == ASSUME Plain PROVE Spec => []IInv
<1>1. IInv /\ [Next]_vars => IInv'
  BY NextIInv
<1> QED BY <1>1, InitIInv, PTL DEF Spec

(* checkStackHeight never fails, at the end of no statement and where no   *)
(* two ways meet: a program of any size, of any constructs of the grammar, *)
(* compiles, as long as it jumps from statement position only.             *)
THEOREM CompilesEveryPlainProgram == ASSUME Plain PROVE Spec => []NoInternalError
<1>1. IInv => NoInternalError
  BY DEF IInv, NoInternalError
<1> QED BY <1>1, IInvHolds, PTL

(* At every instruction, on every path, however often loops go round, the  *)
(* stack has the height that the compiler counted along the text.          *)
THEOREM HeightsAgreeEverywhere == ASSUME Plain PROVE Spec => []HeightsAgree
<1>1. IInv => HeightsAgree
  BY RunFacts DEF IInv, HeightsAgree
<1> QED BY <1>1, IInvHolds, PTL
=============================================================================
