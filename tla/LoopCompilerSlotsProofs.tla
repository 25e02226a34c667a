---------------------- MODULE LoopCompilerSlotsProofs ----------------------
(***************************************************************************)
(* In a plain program of any size, what is read or captured is in the slot *)
(* the compiler gave it, at every instruction on every path.               *)
(*                                                                         *)
(* L[t] is a set of pairs of a slot and the declaration whose value is in  *)
(* it whenever the machine comes to t.  Every instruction respects it      *)
(* (Named), the compiler has it say what the locals say of the end of the  *)
(* code (Knows), and whoever will patch a jump or emit one knows that it   *)
(* says enough where the jump is (Recalled).                               *)
(***************************************************************************)
EXTENDS LoopCompilerProofs

Reads == {"get local", "closure"}
Beneath(X, h) == \A x \in X : x[1] \in Nat /\ x[1] < h

Flows(i, X, Y) ==
  /\ i.op \in Flowing /\ i.op # NameOp => Y \subseteq X
  /\ i.op = NameOp =>
       /\ i.arg.slot \in Int
       /\ \A x \in Y : x = <<i.arg.slot, i.arg.decl>> \/ (x \in X /\ x[1] # i.arg.slot)
  /\ i.op = CloseOp => \A x \in Y : x[1] < i.height - i.arg - 1
  /\ i.op \in Reads /\ i.arg.slot < i.height => <<i.arg.slot, i.arg.decl>> \in X
Turns(i, L, X) ==
  i.op \in Jumping /\ i.arg # 0 => i.arg \in DOMAIN L /\ L[i.arg] \subseteq X

Named(c, L) ==
  /\ DOMAIN L = 1..Len(c) + 1 /\ L[1] = {}
  /\ \A q \in 1..Len(c) :
       Beneath(L[q], c[q].height) /\ Flows(c[q], L[q], L[q + 1]) /\ Turns(c[q], L, L[q])

Extends(L, M) == DOMAIN L \subseteq DOMAIN M /\ \A p \in DOMAIN L : M[p] = L[p]

(* Instructions more, behind which X is known.                             *)
Fresh(i, L, Y, X) == Beneath(Y, i.height) /\ Flows(i, Y, X) /\ Turns(i, L, Y)

(* The code c2 is c of n instructions and m more, behind which X is known.  *)
Grown(c, n, m, c2, L, X) ==
  /\ Named(c, L) /\ Len(c) = n /\ Len(c2) = n + m /\ \A q \in 1..n : c2[q] = c[q]
  /\ m = 0 => X = L[n + 1]
  /\ \A k \in 1..m : Fresh(c2[n + k], L, IF k = 1 THEN L[n + 1] ELSE X, X)

LEMMA NamedMore ==
  ASSUME NEW c, NEW n \in Nat, NEW m \in Nat, NEW c2, NEW L, NEW X, Grown(c, n, m, c2, L, X)
  PROVE  \E M : Named(c2, M) /\ Extends(L, M) /\ M[Len(c2) + 1] = X
<1>0. /\ Named(c, L) /\ Len(c) = n /\ Len(c2) = n + m /\ \A q \in 1..n : c2[q] = c[q]
      /\ m = 0 => X = L[n + 1]
      /\ \A k \in 1..m : Fresh(c2[n + k], L, IF k = 1 THEN L[n + 1] ELSE X, X)
  BY DEF Grown
<1> DEFINE M == [t \in 1..(n + m) + 1 |-> IF t <= n + 1 THEN L[t] ELSE X]
<1>1. DOMAIN L = 1..n + 1 /\ L[1] = {}
  BY <1>0 DEF Named
<1>2. DOMAIN M = 1..(n + m) + 1 /\ \A t \in 1..n + 1 : M[t] = L[t]
  OBVIOUS
<1>3. \A t \in n + 2..(n + m) + 1 : M[t] = X
  OBVIOUS
<1> HIDE DEF M
<1>4. Extends(L, M)
  <2>1. \A t \in 1..n + 1 : t \in 1..(n + m) + 1
    OBVIOUS
  <2> QED BY <1>1, <1>2, <2>1 DEF Extends
<1>5. M[1] = {} /\ M[Len(c2) + 1] = X
  <2>1. M[1] = {}
    BY <1>1, <1>2
  <2>2. CASE m = 0
    <3>1. Len(c2) + 1 = n + 1 /\ n + 1 \in 1..n + 1
      BY <1>0, <2>2
    <3> QED BY <1>0, <1>2, <2>1, <2>2, <3>1
  <2>3. CASE m # 0
    <3>1. (n + m) + 1 \in n + 2..(n + m) + 1
      BY <2>3
    <3>2. Len(c2) + 1 = (n + m) + 1
      BY <1>0
    <3> QED BY <1>3, <2>1, <3>1, <3>2
  <2> QED BY <2>1, <2>2, <2>3
<1>6. ASSUME NEW i, NEW Y, Turns(i, L, Y) PROVE Turns(i, M, Y)
  BY <1>4, <1>6 DEF Turns, Extends
<1>7. ASSUME NEW q \in 1..n + m
      PROVE  Beneath(M[q], c2[q].height) /\ Flows(c2[q], M[q], M[q + 1]) /\ Turns(c2[q], M, M[q])
  <2>1. CASE q \in 1..n
    <3>1. M[q] = L[q] /\ M[q + 1] = L[q + 1] /\ c2[q] = c[q]
      BY <1>0, <1>2, <2>1
    <3>2. Beneath(L[q], c[q].height) /\ Flows(c[q], L[q], L[q + 1]) /\ Turns(c[q], L, L[q])
      BY <1>0, <1>1, <2>1 DEF Named
    <3> QED BY <1>6, <3>1, <3>2
  <2>2. CASE q \notin 1..n
    <3> DEFINE k == q - n
               Y == IF k = 1 THEN L[n + 1] ELSE X
    <3>1. k \in 1..m /\ q = n + k
      BY <2>2
    <3>2. M[q] = Y
      <4>1. CASE k = 1
        BY <1>2, <3>1, <4>1
      <4>2. CASE k # 1
        <5>1. q \in n + 2..(n + m) + 1
          BY <3>1, <4>2
        <5> QED BY <1>3, <4>2, <5>1
      <4> QED BY <4>1, <4>2
    <3>3. M[q + 1] = X
      <4>1. q + 1 \in n + 2..(n + m) + 1
        BY <3>1
      <4> QED BY <1>3, <4>1
    <3>4. Beneath(Y, c2[n + k].height) /\ Flows(c2[n + k], Y, X) /\ Turns(c2[n + k], L, Y)
      BY <1>0, <3>1 DEF Fresh
    <3> HIDE DEF k, Y
    <3> QED BY <1>6, <3>1, <3>2, <3>3, <3>4
  <2> QED BY <2>1, <2>2
<1>8. Named(c2, M)
  BY <1>0, <1>2, <1>5, <1>7 DEF Named
<1> QED BY <1>4, <1>5, <1>8

(* Jumps that are made to land at the end of the code.                     *)
Patched(c, n, c2, L, ps) ==
  /\ Named(c, L) /\ Len(c) = n /\ Len(c2) = n /\ \A q \in 1..n : q \notin ps => c2[q] = c[q]
  /\ \A q \in 1..n : q \in ps =>
       /\ c[q].op \in Awaiting /\ L[n + 1] \subseteq L[q]
       /\ c2[q].op = c[q].op /\ c2[q].height = c[q].height /\ c2[q].arg = n + 1

LEMMA NamedPatched ==
  ASSUME NEW c, NEW n \in Nat, NEW c2, NEW L, NEW ps, Patched(c, n, c2, L, ps)
  PROVE  Named(c2, L)
<1>0. /\ Named(c, L) /\ Len(c) = n /\ Len(c2) = n /\ \A q \in 1..n : q \notin ps => c2[q] = c[q]
      /\ \A q \in 1..n : q \in ps =>
           /\ c[q].op \in Awaiting /\ L[n + 1] \subseteq L[q]
           /\ c2[q].op = c[q].op /\ c2[q].height = c[q].height /\ c2[q].arg = n + 1
  BY DEF Patched
<1>1. /\ DOMAIN L = 1..n + 1 /\ L[1] = {}
      /\ \A q \in 1..n :
           Beneath(L[q], c[q].height) /\ Flows(c[q], L[q], L[q + 1]) /\ Turns(c[q], L, L[q])
  BY <1>0 DEF Named
<1>2. ASSUME NEW q \in 1..n
      PROVE  Beneath(L[q], c2[q].height) /\ Flows(c2[q], L[q], L[q + 1]) /\ Turns(c2[q], L, L[q])
  <2>1. CASE q \notin ps
    BY <1>0, <1>1, <2>1
  <2>2. CASE q \in ps
    <3>1. /\ c[q].op \in Awaiting /\ L[n + 1] \subseteq L[q]
          /\ c2[q].op = c[q].op /\ c2[q].height = c[q].height /\ c2[q].arg = n + 1
      BY <1>0, <2>2
    <3>2. c[q].op # NameOp /\ c[q].op # CloseOp /\ c[q].op \notin Reads
      BY <3>1 DEF Awaiting, NameOp, CloseOp, Reads
    <3>3. n + 1 \in DOMAIN L
      BY <1>1
    <3>4. Flows(c2[q], L[q], L[q + 1])
      BY <1>1, <3>1, <3>2 DEF Flows
    <3>5. Turns(c2[q], L, L[q])
      BY <3>1, <3>3 DEF Turns
    <3> QED BY <1>1, <3>1, <3>4, <3>5
  <2> QED BY <2>1, <2>2
<1> QED BY <1>0, <1>1, <1>2 DEF Named

(* The locals in scope at a depth.                                         *)
Held(locs, d) == {<<locs[i].slot, locs[i].decl>> : i \in {j \in 1..Len(locs) : InScope(locs, j, d)}}

LEMMA HeldIff ==
  ASSUME NEW locs, NEW d, NEW x
  PROVE  x \in Held(locs, d) <=>
           \E i \in 1..Len(locs) : InScope(locs, i, d) /\ x = <<locs[i].slot, locs[i].decl>>
BY DEF Held

LEMMA HeldBeneath ==
  ASSUME NEW locs, NEW d, NEW h, Low(locs, h), \A i \in 1..Len(locs) : locs[i].slot \in Nat
  PROVE  Beneath(Held(locs, d), h)
<1> SUFFICES ASSUME NEW x \in Held(locs, d) PROVE x[1] \in Nat /\ x[1] < h
  BY DEF Beneath
<1>1. PICK i \in 1..Len(locs) : InScope(locs, i, d) /\ x = <<locs[i].slot, locs[i].decl>>
  BY HeldIff
<1>2. locs[i].slot < h
  BY <1>1 DEF Low, InScope
<1>3. x[1] = locs[i].slot
  BY <1>1
<1> QED BY <1>2, <1>3

(* Above a local that has its value are those that were declared later.     *)
Ordered(locs) ==
  /\ \A i \in 1..Len(locs) : locs[i].slot \in Nat
  /\ \A i, j \in 1..Len(locs) :
       i < j /\ locs[i].depth # UNINITIALIZED => locs[i].slot < locs[j].slot

----------------------------------------------------------------------------
(* The machine keeps what is known of the slots.                           *)

True(L, p, s) == \A x \in L[p] : s[x[1] + 1] = x[2]
Holds == \E L : Named(out.code, L) /\ True(L, pc, stack)

LEMMA HoldsFacts ==
  ASSUME Running, NEW L, Named(out.code, L), out.code[pc].op \in Flowing
  PROVE  /\ Len(stack) \in Nat /\ IsSeq(stack)
         /\ \A x \in L[pc] : x[1] \in Nat /\ x[1] < Len(stack)
         /\ \A x \in L[pc + 1] :
              x[1] \in Nat /\ x[1] < Len(stack) + Effect(out.code[pc].op, out.code[pc].arg)
         /\ Flows(out.code[pc], L[pc], L[pc + 1])
<1>1. /\ pc \in 1..Len(out.code) /\ out.code[pc].height = Len(stack) /\ Len(stack) \in Nat
      /\ pc + 1 \in 1..Len(out.code) /\ IsSeq(stack)
      /\ out.code[pc + 1].height = Len(stack) + Effect(out.code[pc].op, out.code[pc].arg)
  BY RunFacts DEF Running
<1>2. Beneath(L[pc], Len(stack)) /\ Flows(out.code[pc], L[pc], L[pc + 1])
  BY <1>1 DEF Named
<1>3. Beneath(L[pc + 1], Len(stack) + Effect(out.code[pc].op, out.code[pc].arg))
  <2> DEFINE q == pc + 1
  <2>1. q \in 1..Len(out.code) /\ out.code[q].height = Len(stack) + Effect(out.code[pc].op, out.code[pc].arg)
    BY <1>1
  <2> HIDE DEF q
  <2>2. Beneath(L[q], out.code[q].height)
    BY <2>1 DEF Named
  <2> QED BY <2>1, <2>2 DEF q
<1> QED BY <1>1, <1>2, <1>3 DEF Beneath

LEMMA Widened ==
  ASSUME NEW s, NEW X, s \in Seq(X), NEW v
  PROVE  s \in Seq(X \cup {v}) /\ v \in X \cup {v}
<1> DEFINE Y == X \cup {v}
<1>1. s \in [1..Len(s) -> Y] /\ Len(s) \in Nat
  OBVIOUS
<1> HIDE DEF Y
<1>2. s \in Seq(Y)
  BY <1>1
<1> QED BY <1>2 DEF Y

(* Values that are pushed or dropped above the locals.                     *)
LEMMA HoldsOn ==
  ASSUME Running, NEW L, Named(out.code, L), True(L, pc, stack),
         out.code[pc].op \in Flowing, out.code[pc].op # NameOp,
         NEW s, NEW k \in Int, NEW o, Run(pc + 1, s, o),
         \A j \in 1..Len(stack) : j <= k => s[j] = stack[j],
         \A x \in L[pc + 1] : x[1] < k
  PROVE  Holds'
<1>1. /\ Len(stack) \in Nat /\ \A x \in L[pc] : x[1] \in Nat /\ x[1] < Len(stack)
      /\ L[pc + 1] \subseteq L[pc]
  BY HoldsFacts DEF Flows
<1>2. pc' = pc + 1 /\ stack' = s /\ out' = out
  BY DEF Run
<1>3. ASSUME NEW x \in L[pc + 1] PROVE s[x[1] + 1] = x[2]
  <2>1. x \in L[pc] /\ x[1] \in Nat /\ x[1] < Len(stack) /\ x[1] < k
    BY <1>1
  <2>2. x[1] + 1 \in 1..Len(stack) /\ x[1] + 1 <= k
    BY <1>1, <2>1
  <2>3. stack[x[1] + 1] = x[2]
    BY <2>1 DEF True
  <2> QED BY <2>2, <2>3
<1>4. True(L, pc', stack')
  BY <1>2, <1>3 DEF True
<1> QED BY <1>2, <1>4 DEF Holds

LEMMA HoldsPush ==
  ASSUME Running, Holds, PushValue \/ MakeClosure
  PROVE  Holds'
<1> DEFINE s == Append(stack, NONE)
           k == Len(stack)
<1>1. PICK L : Named(out.code, L) /\ True(L, pc, stack)
  BY DEF Holds
<1>2. out.code[pc].op \in {"constant", "get local", "closure"} /\ \E o : Run(pc + 1, s, o)
  BY DEF PushValue, MakeClosure, At
<1>3. out.code[pc].op \in Flowing /\ out.code[pc].op # NameOp
  BY <1>2 DEF Flowing, Ops, NameOp
<1>4. /\ k \in Int /\ IsSeq(stack) /\ L[pc + 1] \subseteq L[pc]
      /\ \A x \in L[pc] : x[1] < k
  BY <1>1, <1>3, HoldsFacts DEF Flows
<1>5. \A j \in 1..Len(stack) : s[j] = stack[j]
  <2>1. PICK X : stack \in Seq(X)
    BY <1>4 DEF IsSeq
  <2> QED BY <2>1
<1>6. PICK o : Run(pc + 1, s, o)
  BY <1>2
<1>7. \A x \in L[pc + 1] : x[1] < k
  BY <1>4
<1>8. \A j \in 1..Len(stack) : j <= k => s[j] = stack[j]
  BY <1>5
<1> HIDE DEF s, k
<1> QED BY <1>1, <1>3, <1>4, <1>6, <1>7, <1>8, HoldsOn

LEMMA HoldsName == ASSUME Running, Holds, Name PROVE Holds'
<1> DEFINE a == Arg.slot
           d == Arg.decl
           s == [stack EXCEPT ![a + 1] = d]
<1>1. PICK L : Named(out.code, L) /\ True(L, pc, stack)
  BY DEF Holds
<1>2. out.code[pc].op = NameOp /\ Run(pc + 1, s, open)
  BY DEF Name, At, NameOp
<1>3. out.code[pc].op \in Flowing /\ Effect(out.code[pc].op, Arg) = 0
  BY <1>2, Effects DEF NameOp
<1>4. /\ Len(stack) \in Nat /\ IsSeq(stack)
      /\ \A x \in L[pc] : x[1] \in Nat /\ x[1] < Len(stack)
      /\ \A x \in L[pc + 1] : x[1] \in Nat /\ x[1] < Len(stack) + 0
      /\ Flows(out.code[pc], L[pc], L[pc + 1])
  BY <1>1, <1>3, HoldsFacts DEF Arg
<1>5. a \in Int /\ \A x \in L[pc + 1] : x = <<a, d>> \/ (x \in L[pc] /\ x[1] # a)
  BY <1>2, <1>4 DEF Flows, Arg
<1>6. DOMAIN stack = 1..Len(stack)
  <2>1. PICK X : stack \in Seq(X)
    BY <1>4 DEF IsSeq
  <2> QED BY <2>1
<1>7. pc' = pc + 1 /\ stack' = s /\ out' = out
  BY <1>2 DEF Run
<1>8. ASSUME NEW x \in L[pc + 1] PROVE s[x[1] + 1] = x[2]
  <2>1. x[1] \in Nat /\ x[1] + 1 \in DOMAIN stack
    BY <1>4, <1>6
  <2>2. CASE x = <<a, d>>
    <3>1. x[1] = a /\ x[2] = d
      BY <2>2
    <3> HIDE DEF a, d
    <3> QED BY <2>1, <3>1
  <2>3. CASE x \in L[pc] /\ x[1] # a
    <3>1. stack[x[1] + 1] = x[2]
      BY <1>1, <2>3 DEF True
    <3>2. s[x[1] + 1] = IF x[1] + 1 = a + 1 THEN d ELSE stack[x[1] + 1]
      BY <2>1
    <3> HIDE DEF a, d, s
    <3>3. x[1] + 1 # a + 1
      BY <1>5, <2>1, <2>3
    <3> QED BY <3>1, <3>2, <3>3
  <2> QED BY <1>5, <2>2, <2>3
<1>9. True(L, pc', stack')
  BY <1>7, <1>8 DEF True
<1> QED BY <1>1, <1>7, <1>9 DEF Holds

LEMMA HoldsPop == ASSUME Running, Holds, Pop \/ CloseUpvalue PROVE Holds'
<1> DEFINE k == Len(stack) - 1
           s == SubSeq(stack, 1, k)
<1>1. PICK L : Named(out.code, L) /\ True(L, pc, stack)
  BY DEF Holds
<1>2. out.code[pc].op \in {"pop", "add", "close upvalue"} /\ \E o : Run(pc + 1, s, o)
  BY DEF Pop, CloseUpvalue, At
<1>3. /\ out.code[pc].op \in Flowing /\ Effect(out.code[pc].op, Arg) = -1
      /\ out.code[pc].op # NameOp
  BY <1>2, Effects DEF NameOp
<1>4. /\ Len(stack) \in Nat /\ IsSeq(stack)
      /\ \A x \in L[pc + 1] : x[1] \in Nat /\ x[1] < Len(stack) + -1
  BY <1>1, <1>3, HoldsFacts DEF Arg
<1>5. \A j \in 1..Len(stack) : j <= k => s[j] = stack[j]
  <2>1. PICK X : stack \in Seq(X)
    BY <1>4 DEF IsSeq
  <2>2. k \in Int /\ k <= Len(stack)
    BY <1>4
  <2> HIDE DEF k
  <2> QED BY <1>4, <2>1, <2>2
<1>6. PICK o : Run(pc + 1, s, o)
  BY <1>2
<1>7. k \in Int /\ \A x \in L[pc + 1] : x[1] < k
  BY <1>4
<1> HIDE DEF s, k
<1> QED BY <1>1, <1>3, <1>5, <1>6, <1>7, HoldsOn

LEMMA HoldsCloseBlock == ASSUME Running, Holds, CloseBlock PROVE Holds'
<1> DEFINE k == Len(stack) - Arg - 1
           r == SubSeq(stack, 1, k)
           s == Append(r, NONE)
<1>1. PICK L : Named(out.code, L) /\ True(L, pc, stack)
  BY DEF Holds
<1>2. out.code[pc].op = CloseOp /\ \E o : Run(pc + 1, s, o)
  BY DEF CloseBlock, At, CloseOp
<1>3. out.code[pc].op \in Flowing /\ out.code[pc].op # NameOp
  BY <1>2, Effects DEF NameOp, CloseOp
<1>4. /\ Len(stack) \in Nat /\ IsSeq(stack) /\ Flows(out.code[pc], L[pc], L[pc + 1])
      /\ \A x \in L[pc + 1] : x[1] \in Nat
  BY <1>1, <1>3, HoldsFacts
<1>5. out.code[pc].height = Len(stack) /\ Arg \in Nat /\ Len(stack) > Arg
  BY <1>2, RunFacts DEF Arg, CloseOp
<1>6. k \in Nat /\ k <= Len(stack)
  <2> DEFINE a == Arg
  <2>1. a \in Nat /\ Len(stack) > a /\ Len(stack) \in Nat
    BY <1>4, <1>5
  <2> HIDE DEF a
  <2>2. Len(stack) - a - 1 \in Nat /\ Len(stack) - a - 1 <= Len(stack)
    BY <2>1
  <2> QED BY <2>2 DEF a
<1>7. \A x \in L[pc + 1] : x[1] < k
  BY <1>2, <1>4, <1>5 DEF Flows, Arg
<1>8. \A j \in 1..Len(stack) : j <= k => s[j] = stack[j]
  <2>1. PICK X : stack \in Seq(X)
    BY <1>4 DEF IsSeq
  <2> HIDE DEF k
  <2> DEFINE Y == X \cup {NONE}
  <2>2. stack \in Seq(Y) /\ NONE \in Y
    BY <2>1, Widened
  <2> HIDE DEF Y
  <2>3. r \in Seq(Y) /\ Len(r) = k /\ \A j \in 1..k : r[j] = stack[j]
    BY <1>6, <2>2
  <2> HIDE DEF r
  <2>4. \A j \in 1..k : s[j] = r[j]
    BY <2>2, <2>3
  <2>5. \A j \in 1..Len(stack) : j <= k => j \in 1..k
    BY <1>4, <1>6
  <2> QED BY <2>3, <2>4, <2>5
<1>9. PICK o : Run(pc + 1, s, o)
  BY <1>2
<1>10. k \in Int
  BY <1>6
<1> HIDE DEF s, k
<1> QED BY <1>1, <1>3, <1>7, <1>8, <1>9, <1>10, HoldsOn

LEMMA HoldsJump == ASSUME Running, Holds, JumpIfFalse \/ TakeJump PROVE Holds'
<1>1. PICK L : Named(out.code, L) /\ True(L, pc, stack)
  BY DEF Holds
<1>2. out.code[pc].op \in Jumping
  BY Effects DEF JumpIfFalse, TakeJump, At, JumpOp
<1>3. /\ out' = out /\ stack' = stack
      /\ pc' = Arg \/ (pc' = pc + 1 /\ out.code[pc].op = JumpOp)
  BY DEF JumpIfFalse, TakeJump, At, Run, JumpOp
<1>4. Arg \in 1..Len(out.code) /\ pc \in 1..Len(out.code)
  BY <1>2, RunFacts DEF Arg, Running
<1>5. L[pc'] \subseteq L[pc]
  <2>1. CASE pc' = Arg
    <3>1. Turns(out.code[pc], L, L[pc])
      BY <1>1, <1>4 DEF Named
    <3>2. Arg # 0
      BY <1>4
    <3> QED BY <1>2, <2>1, <3>1, <3>2 DEF Turns, Arg
  <2>2. CASE pc' = pc + 1 /\ out.code[pc].op = JumpOp
    <3>1. out.code[pc].op \in Flowing /\ out.code[pc].op # NameOp
      BY <2>2, Effects DEF JumpOp, NameOp
    <3> QED BY <1>1, <2>2, <3>1, HoldsFacts DEF Flows
  <2> QED BY <1>3, <2>1, <2>2
<1>6. True(L, pc', stack')
  BY <1>1, <1>3, <1>5 DEF True
<1> QED BY <1>1, <1>3, <1>6 DEF Holds

LEMMA ExecuteHolds ==
  ASSUME Running, Holds, Execute PROVE phase' = "run" => Holds'
<1>1. ReturnValue => phase' = "done"
  BY DEF ReturnValue
<1> QED BY <1>1, HoldsPush, HoldsName, HoldsPop, HoldsCloseBlock, HoldsJump DEF Execute

(* What an instruction reads is where its operand says.                    *)
LEMMA HoldsReads ==
  ASSUME Running, Holds, out.code[pc].op \in Reads,
         Arg.slot < Len(stack)
  PROVE  stack[Arg.slot + 1] = Arg.decl
<1>1. PICK L : Named(out.code, L) /\ True(L, pc, stack)
  BY DEF Holds
<1>2. Flows(out.code[pc], L[pc], L[pc + 1])
  BY <1>1 DEF Named, Running
<1>3. <<Arg.slot, Arg.decl>> \in L[pc]
  <2>1. out.code[pc].height = Len(stack)
    BY DEF Running
  <2> QED BY <1>2, <2>1 DEF Flows, Arg
<1> DEFINE x == <<Arg.slot, Arg.decl>>
<1>4. x[1] = Arg.slot /\ x[2] = Arg.decl
  OBVIOUS
<1>5. stack[x[1] + 1] = x[2]
  BY <1>1, <1>3 DEF True
<1> QED BY <1>4, <1>5

----------------------------------------------------------------------------
(* What the items that are left to compile recall of the slots.            *)

Declares(it) == it.do \in {"stmts", "declaration", "define"}
Recalls(it) == it.do \in {"else", "patch", "for increment", "end loop"}
EndsScope(it) ==
  \/ it.do \in {"end scope", "close block"}
  \/ it.do \in {"for", "for exit", "for increment", "end loop"} /\ it.scope = TRUE

(* A jump at p is going to land where the locals up to depth v are known,   *)
(* and one from there to p finds what p asks for.                          *)
Back(L, locs, p, v) == p \in DOMAIN L /\ Held(locs, v) \subseteq L[p]
Forth(L, locs, p, v) == p \in DOMAIN L /\ L[p] \subseteq Held(locs, v)

LoopRecalls(L, locs, loop, v, w) ==
  /\ loop.continueDepth = v /\ loop.scopeDepth = w
  /\ Forth(L, locs, loop.continueTarget, v)
  /\ \A b \in loop.breaks : Back(L, locs, b, w)

(* An item between the depths v and w and within l loops, m behind it.      *)
Recall(L, ls, locs, it, v, w, l, m) ==
  /\ w = IF EndsScope(it) THEN v - 1 ELSE v
  /\ m = IF EndsLoopItem(it) THEN l - 1 ELSE l
  /\ it.do \in {"else", "patch"} => Back(L, locs, it.p, v)
  /\ it.do \in {"while", "for exit"} => Forth(L, locs, it.start, v)
  /\ it.do = "for increment" =>
       /\ Back(L, locs, it.p, v) /\ Back(L, locs, it.body, v)
       /\ Forth(L, locs, it.start, v) /\ Forth(L, locs, it.body + 1, v)
  /\ EndsLoopItem(it) =>
       /\ Back(L, locs, it.p, v) /\ Forth(L, locs, it.start, v)
       /\ l >= 1 /\ LoopRecalls(L, locs, ls[l], v, w)

(* The items of t from depth d on, which recall nothing deeper than b.      *)
RecallAll(L, ls, locs, t, D, M, b) ==
  /\ \A k \in 1..Len(t) : Recall(L, ls, locs, t[k], D[k], D[k + 1], M[k], M[k + 1])
  /\ \A j, k \in 1..Len(t) + 1 : j < k => D[k] <= D[j] /\ M[k] <= M[j]
  /\ \A j, k \in 1..Len(t) : j < k /\ Declares(t[j]) /\ Recalls(t[k]) => D[k] < D[j]
  /\ \A k \in 1..Len(t) : Recalls(t[k]) => D[k] <= b
  /\ \A m \in 1..M[1] : \E k \in 1..Len(t) : EndsLoopItem(t[k]) /\ M[k] = m
Recalled(L, ls, locs, t, d, b, l) ==
  /\ IsSeq(t)
  /\ \E D, M \in [1..Len(t) + 1 -> Int] :
       D[1] = d /\ M[1] = l /\ RecallAll(L, ls, locs, t, D, M, b)

LEMMA RecalledCons ==
  ASSUME NEW L, NEW ls, NEW locs, NEW t, NEW w \in Int, NEW b \in Int, NEW m \in Int,
         Recalled(L, ls, locs, t, w, b, m), NEW it, NEW d \in Int, NEW l \in Int, NEW b2 \in Int,
         Recall(L, ls, locs, it, d, w, l, m), b <= b2,
         Declares(it) => b < d, Recalls(it) => d <= b2
  PROVE  Recalled(L, ls, locs, Cons(it, t), d, b2, l)
<1> DEFINE u == Cons(it, t)
           n == Len(t)
<1>1. /\ IsSeq(t) /\ n \in Nat /\ IsSeq(u) /\ Len(u) = n + 1 /\ u[1] = it
      /\ \A k \in 1..n : u[k + 1] = t[k]
  <2>1. IsSeq(t)
    BY DEF Recalled
  <2>2. n \in Nat
    BY <2>1 DEF IsSeq
  <2> DEFINE v == <<it>> \o t
  <2>3. /\ IsSeq(v) /\ Len(v) = Len(t) + 1 /\ v[1] = it /\ \A k \in 1..Len(t) : v[k + 1] = t[k]
    BY <2>1, SeqCons
  <2>4. u = v
    BY DEF Cons
  <2> HIDE DEF u, v
  <2> QED BY <2>1, <2>2, <2>3, <2>4
<1>2. PICK D \in [1..n + 1 -> Int], M \in [1..n + 1 -> Int] :
        D[1] = w /\ M[1] = m /\ RecallAll(L, ls, locs, t, D, M, b)
  BY DEF Recalled
<1> DEFINE D2 == [k \in 1..n + 2 |-> IF k = 1 THEN d ELSE D[k - 1]]
           M2 == [k \in 1..n + 2 |-> IF k = 1 THEN l ELSE M[k - 1]]
<1>3. /\ D2[1] = d /\ \A k \in 1..n + 1 : D2[k + 1] = D[k]
      /\ M2[1] = l /\ \A k \in 1..n + 1 : M2[k + 1] = M[k]
  BY <1>1
<1>4. D2 \in [1..n + 2 -> Int] /\ M2 \in [1..n + 2 -> Int]
  <2>1. \A k \in 1..n + 2 : k = 1 \/ k - 1 \in 1..n + 1
    BY <1>1
  <2> QED BY <2>1
<1>5. Len(u) + 1 = n + 2
  BY <1>1
<1> HIDE DEF u, n, D2, M2
<1>6. w <= d /\ m <= l /\ (EndsLoopItem(it) => m = l - 1) /\ (~ EndsLoopItem(it) => m = l)
  <2>1. w = (IF EndsScope(it) THEN d - 1 ELSE d) /\ m = (IF EndsLoopItem(it) THEN l - 1 ELSE l)
    BY DEF Recall
  <2> QED BY <2>1
<1>7. /\ \A k \in 1..n : Recall(L, ls, locs, t[k], D[k], D[k + 1], M[k], M[k + 1])
      /\ \A j, k \in 1..n + 1 : j < k => D[k] <= D[j] /\ M[k] <= M[j]
      /\ \A j, k \in 1..n : j < k /\ Declares(t[j]) /\ Recalls(t[k]) => D[k] < D[j]
      /\ \A k \in 1..n : Recalls(t[k]) => D[k] <= b
      /\ \A i \in 1..m : \E k \in 1..n : EndsLoopItem(t[k]) /\ M[k] = i
  BY <1>2 DEF RecallAll, n
<1>8. \A k \in 1..n + 1 : D[k] \in Int /\ M[k] \in Int /\ D[k] <= w /\ M[k] <= m
  <2>1. \A k \in 1..n + 1 : k = 1 \/ (1 < k /\ 1 \in 1..n + 1)
    BY <1>1
  <2> QED BY <1>2, <1>7, <2>1
<1>9. \A k \in 1..n + 2 : k = 1 \/ (k - 1 \in 1..n + 1 /\ k = (k - 1) + 1)
  BY <1>1
<1>10. \A k \in 1..n + 1 : k = 1 \/ (k - 1 \in 1..n /\ k - 1 \in 1..n + 1 /\ k = (k - 1) + 1)
  BY <1>1
<1>11. ASSUME NEW k \in 1..n + 1
       PROVE  Recall(L, ls, locs, u[k], D2[k], D2[k + 1], M2[k], M2[k + 1])
  <2>1. CASE k = 1
    <3>1. 1 \in 1..n + 1
      BY <1>1
    <3> QED BY <1>1, <1>2, <1>3, <2>1, <3>1
  <2>2. CASE k # 1
    <3> DEFINE i == k - 1
    <3>1. i \in 1..n /\ i \in 1..n + 1 /\ i + 1 \in 1..n + 1 /\ k = i + 1
      BY <1>1, <1>10, <2>2
    <3> HIDE DEF i
    <3>2. u[k] = t[i] /\ D2[k] = D[i] /\ D2[k + 1] = D[i + 1] /\ M2[k] = M[i] /\ M2[k + 1] = M[i + 1]
      BY <1>1, <1>3, <3>1
    <3> QED BY <1>7, <3>1, <3>2
  <2> QED BY <2>1, <2>2
<1>12. ASSUME NEW j \in 1..n + 2, NEW k \in 1..n + 2, j < k
       PROVE  D2[k] <= D2[j] /\ M2[k] <= M2[j]
  <2>1. k - 1 \in 1..n + 1 /\ D2[k] = D[k - 1] /\ M2[k] = M[k - 1]
    <3>1. k - 1 \in 1..n + 1 /\ k = (k - 1) + 1
      BY <1>1, <1>12
    <3> QED BY <1>3, <3>1
  <2>2. CASE j = 1
    BY <1>3, <1>6, <1>8, <2>1, <2>2
  <2>3. CASE j # 1
    <3>1. j - 1 \in 1..n + 1 /\ j = (j - 1) + 1 /\ j - 1 < k - 1
      BY <1>9, <1>12, <2>3
    <3>2. D2[j] = D[j - 1] /\ M2[j] = M[j - 1]
      BY <1>3, <3>1
    <3> QED BY <1>7, <2>1, <3>1, <3>2
  <2> QED BY <2>2, <2>3
<1>13. ASSUME NEW k \in 1..n + 1, Recalls(u[k])
       PROVE  /\ D2[k] <= b2
              /\ \A j \in 1..n + 1 : j < k /\ Declares(u[j]) => D2[k] < D2[j]
  <2>1. CASE k = 1
    <3>1. \A j \in 1..n + 1 : ~ (j < k)
      BY <2>1
    <3> QED BY <1>1, <1>3, <1>13, <2>1, <3>1
  <2>2. CASE k # 1
    <3>1. k - 1 \in 1..n /\ k - 1 \in 1..n + 1 /\ k = (k - 1) + 1
      BY <1>10, <2>2
    <3>2. u[k] = t[k - 1] /\ D2[k] = D[k - 1]
      BY <1>1, <1>3, <3>1
    <3>3. D2[k] <= b /\ D2[k] \in Int
      BY <1>7, <1>8, <1>13, <3>1, <3>2
    <3>4. ASSUME NEW j \in 1..n + 1, j < k, Declares(u[j]) PROVE D2[k] < D2[j]
      <4>1. CASE j = 1
        <5>1. b < d
          BY <1>1, <3>4, <4>1
        <5> QED BY <1>3, <3>3, <4>1, <5>1
      <4>2. CASE j # 1
        <5>1. j - 1 \in 1..n /\ j - 1 \in 1..n + 1 /\ j = (j - 1) + 1 /\ j - 1 < k - 1
          BY <1>10, <3>4, <4>2
        <5>2. u[j] = t[j - 1] /\ D2[j] = D[j - 1]
          BY <1>1, <1>3, <5>1
        <5> QED BY <1>7, <1>13, <3>1, <3>2, <3>4, <5>1, <5>2
      <4> QED BY <4>1, <4>2
    <3> QED BY <3>3, <3>4
  <2> QED BY <2>1, <2>2
<1>14. ASSUME NEW i \in 1..l PROVE \E k \in 1..n + 1 : EndsLoopItem(u[k]) /\ M2[k] = i
  <2>1. CASE i \in 1..m
    <3>1. PICK k \in 1..n : EndsLoopItem(t[k]) /\ M[k] = i
      BY <1>7, <2>1
    <3>2. k \in 1..n + 1 /\ k + 1 \in 1..n + 1
      BY <1>1
    <3> QED BY <1>1, <1>3, <3>1, <3>2
  <2>2. CASE i \notin 1..m
    <3>1. EndsLoopItem(it) /\ i = l
      BY <1>6, <2>2
    <3>2. 1 \in 1..n + 1
      BY <1>1
    <3> QED BY <1>1, <1>3, <3>1, <3>2
  <2> QED BY <2>1, <2>2
<1>15. RecallAll(L, ls, locs, u, D2, M2, b2)
  <2>1. Len(u) = n + 1 /\ Len(u) + 1 = n + 2 /\ M2[1] = l
    BY <1>1, <1>3, <1>5
  <2> QED BY <1>11, <1>12, <1>13, <1>14, <2>1 DEF RecallAll
<1> QED BY <1>1, <1>3, <1>4, <1>5, <1>15 DEF Recalled, u

LEMMA RecalledTail ==
  ASSUME NEW L, NEW ls, NEW locs, NEW t, t # << >>, NEW d, NEW b, NEW l,
         Recalled(L, ls, locs, t, d, b, l)
  PROVE  /\ d \in Int /\ l \in Int /\ IsSeq(Tail(t)) /\ Head(t) = t[1]
         /\ Recalls(t[1]) => d <= b
         /\ \E w, m \in Int :
              /\ Recall(L, ls, locs, t[1], d, w, l, m)
              /\ w <= d /\ m <= l /\ Recalled(L, ls, locs, Tail(t), w, b, m)
              /\ Declares(t[1]) => Recalled(L, ls, locs, Tail(t), w, d - 1, m)
<1> DEFINE u == Tail(t)
           n == Len(u)
<1>1. /\ IsSeq(u) /\ n \in Nat /\ Len(t) = n + 1 /\ Head(t) = t[1]
      /\ \A k \in 1..n : u[k] = t[k + 1]
  <2>1. IsSeq(t)
    BY DEF Recalled
  <2>2. /\ IsSeq(u) /\ Len(t) \in Nat \ {0} /\ n = Len(t) - 1 /\ Head(t) = t[1]
        /\ \A k \in 1..Len(t) - 1 : u[k] = t[k + 1]
    BY <2>1, SeqTail
  <2> HIDE DEF u, n
  <2> QED BY <2>2
<1>2. PICK D \in [1..Len(t) + 1 -> Int], M \in [1..Len(t) + 1 -> Int] :
        D[1] = d /\ M[1] = l /\ RecallAll(L, ls, locs, t, D, M, b)
  BY DEF Recalled
<1> DEFINE D2 == [k \in 1..n + 1 |-> D[k + 1]]
           M2 == [k \in 1..n + 1 |-> M[k + 1]]
<1> HIDE DEF u, n
<1>3. Len(t) + 1 = n + 2
  BY <1>1
<1>4. \A k \in 1..n + 1 : k + 1 \in 1..n + 2 /\ k + 1 \in 1..Len(t) + 1
  BY <1>1, <1>3
<1>5. /\ D2 \in [1..n + 1 -> Int] /\ M2 \in [1..n + 1 -> Int]
      /\ \A k \in 1..n + 1 : D2[k] = D[k + 1] /\ M2[k] = M[k + 1]
  BY <1>4
<1> HIDE DEF D2, M2
<1>6. /\ \A k \in 1..n + 1 : Recall(L, ls, locs, t[k], D[k], D[k + 1], M[k], M[k + 1])
      /\ \A j, k \in 1..n + 2 : j < k => D[k] <= D[j] /\ M[k] <= M[j]
      /\ \A j, k \in 1..n + 1 : j < k /\ Declares(t[j]) /\ Recalls(t[k]) => D[k] < D[j]
      /\ \A k \in 1..n + 1 : Recalls(t[k]) => D[k] <= b
      /\ \A i \in 1..l : \E k \in 1..n + 1 : EndsLoopItem(t[k]) /\ M[k] = i
  BY <1>1, <1>2, <1>3 DEF RecallAll
<1>7. 1 \in 1..n + 1 /\ 2 \in 1..n + 2 /\ 1 \in 1..n + 2
  BY <1>1
<1>8. \A k \in 1..n + 2 : D[k] \in Int /\ M[k] \in Int
  BY <1>3
<1>9. d \in Int /\ l \in Int /\ (Recalls(t[1]) => d <= b)
  BY <1>2, <1>6, <1>7, <1>8
<1> DEFINE w == D[2]
           m == M[2]
<1>10. w \in Int /\ m \in Int /\ w <= d /\ m <= l /\ D2[1] = w /\ M2[1] = m
  BY <1>2, <1>5, <1>6, <1>7, <1>8
<1>11. Recall(L, ls, locs, t[1], d, w, l, m)
  <2>1. Recall(L, ls, locs, t[1], D[1], D[1 + 1], M[1], M[1 + 1])
    BY <1>6, <1>7
  <2> QED BY <1>2, <2>1
<1> HIDE DEF w, m
<1>12. ASSUME NEW b2, \A k \in 1..n + 1 : k # 1 /\ Recalls(t[k]) => D[k] <= b2
       PROVE  Recalled(L, ls, locs, u, w, b2, m)
  <2>1. \A k \in 1..n : Recall(L, ls, locs, u[k], D2[k], D2[k + 1], M2[k], M2[k + 1])
    <3> SUFFICES ASSUME NEW k \in 1..n
                 PROVE  Recall(L, ls, locs, u[k], D2[k], D2[k + 1], M2[k], M2[k + 1])
      OBVIOUS
    <3> DEFINE j == k + 1
    <3>1. k \in 1..n + 1 /\ j \in 1..n + 1
      BY <1>1
    <3>2. u[k] = t[j] /\ D2[k] = D[j] /\ D2[k + 1] = D[j + 1] /\ M2[k] = M[j] /\ M2[k + 1] = M[j + 1]
      BY <1>1, <1>5, <3>1
    <3> HIDE DEF j
    <3> QED BY <1>6, <3>1, <3>2
  <2>2. ASSUME NEW j \in 1..n + 1, NEW k \in 1..n + 1, j < k PROVE D2[k] <= D2[j] /\ M2[k] <= M2[j]
    <3>1. j + 1 \in 1..n + 2 /\ k + 1 \in 1..n + 2 /\ j + 1 < k + 1
      BY <1>1, <2>2
    <3> QED BY <1>5, <1>6, <3>1
  <2>3. ASSUME NEW j \in 1..n, NEW k \in 1..n, j < k, Declares(u[j]), Recalls(u[k]) PROVE D2[k] < D2[j]
    <3>1. j + 1 \in 1..n + 1 /\ k + 1 \in 1..n + 1 /\ j + 1 < k + 1 /\ j \in 1..n + 1 /\ k \in 1..n + 1
      BY <1>1, <2>3
    <3>2. u[j] = t[j + 1] /\ u[k] = t[k + 1] /\ D2[j] = D[j + 1] /\ D2[k] = D[k + 1]
      BY <1>1, <1>5, <3>1
    <3> QED BY <1>6, <2>3, <3>1, <3>2
  <2>4. ASSUME NEW k \in 1..n, Recalls(u[k]) PROVE D2[k] <= b2
    <3>1. k + 1 \in 1..n + 1 /\ k \in 1..n + 1 /\ k + 1 # 1
      BY <1>1
    <3>2. u[k] = t[k + 1] /\ D2[k] = D[k + 1]
      BY <1>1, <1>5, <3>1
    <3> QED BY <1>12, <2>4, <3>1, <3>2
  <2>5. ASSUME NEW i \in 1..m PROVE \E k \in 1..n : EndsLoopItem(u[k]) /\ M2[k] = i
    <3>1. i \in 1..l /\ i <= m
      BY <1>9, <1>10
    <3>2. PICK k \in 1..n + 1 : EndsLoopItem(t[k]) /\ M[k] = i
      BY <1>6, <3>1
    <3>3. k # 1
      <4>1. SUFFICES ASSUME k = 1 PROVE FALSE
        OBVIOUS
      <4>2. EndsLoopItem(t[1]) /\ l = i
        BY <1>2, <3>2, <4>1
      <4>3. m = l - 1
        <5>1. m = (IF EndsLoopItem(t[1]) THEN l - 1 ELSE l)
          BY <1>11 DEF Recall
        <5> QED BY <4>2, <5>1
      <4> QED BY <1>9, <3>1, <4>2, <4>3
    <3>4. k - 1 \in 1..n /\ k - 1 \in 1..n + 1 /\ k = (k - 1) + 1
      BY <1>1, <3>3
    <3>5. u[k - 1] = t[k] /\ M2[k - 1] = M[k]
      BY <1>1, <1>5, <3>4
    <3> QED BY <3>2, <3>4, <3>5
  <2>6. RecallAll(L, ls, locs, u, D2, M2, b2)
    <3>1. Len(u) = n /\ M2[1] = m
      BY <1>10 DEF n
    <3> QED BY <2>1, <2>2, <2>3, <2>4, <2>5, <3>1 DEF RecallAll
  <2> QED BY <1>1, <1>5, <1>10, <2>6 DEF Recalled, n
<1>13. Recalled(L, ls, locs, u, w, b, m)
  BY <1>6, <1>12
<1>14. Declares(t[1]) => Recalled(L, ls, locs, u, w, d - 1, m)
  <2> SUFFICES ASSUME Declares(t[1]) PROVE Recalled(L, ls, locs, u, w, d - 1, m)
    OBVIOUS
  <2>1. ASSUME NEW k \in 1..n + 1, k # 1, Recalls(t[k]) PROVE D[k] <= d - 1
    <3>1. 1 < k /\ D[k] \in Int
      BY <1>1, <1>3, <2>1
    <3>2. D[k] < D[1]
      BY <1>6, <1>7, <2>1, <3>1
    <3> QED BY <1>2, <1>9, <3>1, <3>2
  <2> QED BY <1>12, <2>1
<1> QED BY <1>1, <1>9, <1>10, <1>11, <1>13, <1>14 DEF u

LEMMA RecalledMore ==
  ASSUME NEW L, NEW ls, NEW locs, NEW t, NEW d, NEW b \in Int, NEW l, NEW b2 \in Int, b <= b2,
         Recalled(L, ls, locs, t, d, b, l)
  PROVE  Recalled(L, ls, locs, t, d, b2, l)
<1>1. PICK D \in [1..Len(t) + 1 -> Int], M \in [1..Len(t) + 1 -> Int] :
        D[1] = d /\ M[1] = l /\ RecallAll(L, ls, locs, t, D, M, b)
  BY DEF Recalled
<1>2. IsSeq(t) /\ Len(t) \in Nat
  <2>1. IsSeq(t)
    BY DEF Recalled
  <2>2. PICK X : t \in Seq(X)
    BY <2>1 DEF IsSeq
  <2> QED BY <2>1, <2>2
<1>3. \A k \in 1..Len(t) : D[k] \in Int
  BY <1>2
<1>4. RecallAll(L, ls, locs, t, D, M, b2)
  <2>1. \A k \in 1..Len(t) : Recalls(t[k]) => D[k] <= b2
    BY <1>1, <1>3 DEF RecallAll
  <2> QED BY <1>1, <2>1 DEF RecallAll
<1> QED BY <1>1, <1>2, <1>4 DEF Recalled

(* What the items recall stays true when each of them has what it asks.    *)
LEMMA RecalledChange ==
  ASSUME NEW L, NEW ls, NEW locs, NEW t, NEW d, NEW b, NEW l,
         Recalled(L, ls, locs, t, d, b, l), NEW L2, NEW ls2, NEW locs2,
         \A it : \A v, w, k, m \in Int :
           /\ v <= d /\ w <= v /\ k <= l /\ (Recalls(it) => v <= b)
           /\ Recall(L, ls, locs, it, v, w, k, m)
           => Recall(L2, ls2, locs2, it, v, w, k, m)
  PROVE  Recalled(L2, ls2, locs2, t, d, b, l)
<1>1. PICK D \in [1..Len(t) + 1 -> Int], M \in [1..Len(t) + 1 -> Int] :
        D[1] = d /\ M[1] = l /\ RecallAll(L, ls, locs, t, D, M, b)
  BY DEF Recalled
<1>2. IsSeq(t) /\ Len(t) \in Nat
  <2>1. IsSeq(t)
    BY DEF Recalled
  <2>2. PICK X : t \in Seq(X)
    BY <2>1 DEF IsSeq
  <2> QED BY <2>1, <2>2
<1> DEFINE n == Len(t)
<1>3. \A k \in 1..n + 1 : D[k] \in Int /\ M[k] \in Int
  OBVIOUS
<1> HIDE DEF n
<1>4. ASSUME NEW k \in 1..n
      PROVE  Recall(L2, ls2, locs2, t[k], D[k], D[k + 1], M[k], M[k + 1])
  <2> DEFINE v == D[k]
             w == D[k + 1]
             i == M[k]
             m == M[k + 1]
  <2>1. 1 \in 1..n + 1 /\ k \in 1..n + 1 /\ k + 1 \in 1..n + 1 /\ (k = 1 \/ 1 < k) /\ k < k + 1
    BY <1>2 DEF n
  <2>2. \A q, p \in 1..n + 1 : q < p => D[p] <= D[q] /\ M[p] <= M[q]
    BY <1>1 DEF RecallAll, n
  <2>3. v \in Int /\ w \in Int /\ i \in Int /\ m \in Int /\ w <= v
    BY <1>3, <2>1, <2>2
  <2>4. v <= d /\ i <= l
    BY <1>1, <1>3, <2>1, <2>2
  <2>5. (Recalls(t[k]) => v <= b) /\ Recall(L, ls, locs, t[k], v, w, i, m)
    BY <1>1 DEF RecallAll, n
  <2> HIDE DEF v, w, i, m
  <2>6. Recall(L2, ls2, locs2, t[k], v, w, i, m)
    BY <2>3, <2>4, <2>5
  <2> QED BY <2>6 DEF v, w, i, m
<1>5. RecallAll(L2, ls2, locs2, t, D, M, b)
  BY <1>1, <1>4 DEF RecallAll, n
<1> QED BY <1>1, <1>2, <1>5 DEF Recalled

(* More code, and locals that are the same up to b and no fewer up to d.   *)
LEMMA RecallsMore ==
  ASSUME NEW L, NEW ls, NEW locs, NEW t, NEW d, NEW b \in Int, NEW l,
         Recalled(L, ls, locs, t, d, b, l), NEW L2, Extends(L, L2), NEW locs2,
         \A v \in Int : v <= b => Held(locs2, v) \subseteq Held(locs, v),
         \A v \in Int : v <= d => Held(locs, v) \subseteq Held(locs2, v)
  PROVE  Recalled(L2, ls, locs2, t, d, b, l)
<1>1. ASSUME NEW p, NEW v \in Int, v <= b, Back(L, locs, p, v) PROVE Back(L2, locs2, p, v)
  <2>1. L2[p] = L[p] /\ p \in DOMAIN L2 /\ Held(locs2, v) \subseteq Held(locs, v)
    BY <1>1 DEF Extends, Back
  <2> QED BY <1>1, <2>1 DEF Back
<1>2. ASSUME NEW p, NEW v \in Int, v <= d, Forth(L, locs, p, v) PROVE Forth(L2, locs2, p, v)
  <2>1. L2[p] = L[p] /\ p \in DOMAIN L2 /\ Held(locs, v) \subseteq Held(locs2, v)
    BY <1>2 DEF Extends, Forth
  <2> QED BY <1>2, <2>1 DEF Forth
<1>3. ASSUME NEW loop, NEW v \in Int, NEW w \in Int, v <= d, w <= b, LoopRecalls(L, locs, loop, v, w)
      PROVE  LoopRecalls(L2, locs2, loop, v, w)
  BY <1>1, <1>2, <1>3 DEF LoopRecalls
<1>4. ASSUME NEW it, NEW v \in Int, NEW w \in Int, NEW k \in Int, NEW m \in Int,
             v <= d, w <= v, Recalls(it) => v <= b, Recall(L, ls, locs, it, v, w, k, m)
      PROVE  Recall(L2, ls, locs2, it, v, w, k, m)
  <2>1. EndsLoopItem(it) => Recalls(it)
    BY DEF EndsLoopItem, Recalls
  <2>2. w <= b \/ ~ Recalls(it)
    BY <1>4
  <2>3. it.do \in {"else", "patch"} => Back(L2, locs2, it.p, v)
    <3>1. it.do \in {"else", "patch"} => Recalls(it) /\ Back(L, locs, it.p, v)
      BY <1>4 DEF Recall, Recalls
    <3> QED BY <1>1, <1>4, <3>1
  <2>4. it.do \in {"while", "for exit"} => Forth(L2, locs2, it.start, v)
    <3>1. it.do \in {"while", "for exit"} => Forth(L, locs, it.start, v)
      BY <1>4 DEF Recall
    <3> QED BY <1>2, <1>4, <3>1
  <2>5. it.do = "for increment" =>
          /\ Back(L2, locs2, it.p, v) /\ Back(L2, locs2, it.body, v)
          /\ Forth(L2, locs2, it.start, v) /\ Forth(L2, locs2, it.body + 1, v)
    <3>1. it.do = "for increment" =>
            /\ Recalls(it) /\ Back(L, locs, it.p, v) /\ Back(L, locs, it.body, v)
            /\ Forth(L, locs, it.start, v) /\ Forth(L, locs, it.body + 1, v)
      BY <1>4 DEF Recall, Recalls
    <3> QED BY <1>1, <1>2, <1>4, <3>1
  <2>6. EndsLoopItem(it) =>
          /\ Back(L2, locs2, it.p, v) /\ Forth(L2, locs2, it.start, v)
          /\ k >= 1 /\ LoopRecalls(L2, locs2, ls[k], v, w)
    <3>1. EndsLoopItem(it) =>
            /\ Recalls(it) /\ Back(L, locs, it.p, v) /\ Forth(L, locs, it.start, v)
            /\ k >= 1 /\ LoopRecalls(L, locs, ls[k], v, w)
      BY <1>4, <2>1 DEF Recall
    <3> QED BY <1>1, <1>2, <1>3, <1>4, <2>2, <3>1
  <2> QED BY <1>4, <2>3, <2>4, <2>5, <2>6 DEF Recall
<1> QED BY <1>4, RecalledChange

(* The loops around that are left recall at least what they did.           *)
LEMMA RecallsLoops ==
  ASSUME NEW L, NEW ls, NEW locs, NEW t, NEW d, NEW b \in Int, NEW l,
         Recalled(L, ls, locs, t, d, b, l), NEW ls2,
         \A k \in Int : \A v, w : k >= 1 /\ k <= l /\ LoopRecalls(L, locs, ls[k], v, w)
                              => LoopRecalls(L, locs, ls2[k], v, w)
  PROVE  Recalled(L, ls2, locs, t, d, b, l)
<1>1. ASSUME NEW it, NEW v \in Int, NEW w \in Int, NEW k \in Int, NEW m \in Int, k <= l,
             Recall(L, ls, locs, it, v, w, k, m)
      PROVE  Recall(L, ls2, locs, it, v, w, k, m)
  <2>1. EndsLoopItem(it) => k >= 1 /\ LoopRecalls(L, locs, ls2[k], v, w)
    BY <1>1 DEF Recall
  <2> QED BY <1>1, <2>1 DEF Recall
<1> QED BY <1>1, RecalledChange

(* Every loop around is going to end.                                      *)
LEMMA RecallLoop ==
  ASSUME NEW L, NEW ls, NEW locs, NEW t, NEW d, NEW b \in Int, NEW l,
         Recalled(L, ls, locs, t, d, b, l), NEW m \in 1..l
  PROVE  \E v, w \in Int : v <= d /\ w <= v /\ w <= b /\ LoopRecalls(L, locs, ls[m], v, w)
<1>1. PICK D \in [1..Len(t) + 1 -> Int], M \in [1..Len(t) + 1 -> Int] :
        D[1] = d /\ M[1] = l /\ RecallAll(L, ls, locs, t, D, M, b)
  BY DEF Recalled
<1>2. Len(t) \in Nat
  <2>1. IsSeq(t)
    BY DEF Recalled
  <2>2. PICK X : t \in Seq(X)
    BY <2>1 DEF IsSeq
  <2> QED BY <2>2
<1>3. PICK k \in 1..Len(t) : EndsLoopItem(t[k]) /\ M[k] = m
  BY <1>1 DEF RecallAll
<1> DEFINE n == Len(t)
<1>4. 1 \in 1..n + 1 /\ k \in 1..n + 1 /\ k + 1 \in 1..n + 1 /\ (k = 1 \/ 1 < k) /\ k < k + 1
  BY <1>2
<1>5. D[k] \in Int /\ D[k + 1] \in Int /\ D[1] \in Int
  BY <1>4
<1> HIDE DEF n
<1>6. \A q, p \in 1..n + 1 : q < p => D[p] <= D[q]
  BY <1>1 DEF RecallAll, n
<1>7. D[k + 1] <= D[k] /\ D[k] <= d
  BY <1>1, <1>4, <1>5, <1>6
<1>8. Recalls(t[k]) /\ D[k] <= b
  BY <1>1, <1>3 DEF RecallAll, Recalls, EndsLoopItem
<1>9. LoopRecalls(L, locs, ls[m], D[k], D[k + 1])
  <2>1. Recall(L, ls, locs, t[k], D[k], D[k + 1], M[k], M[k + 1])
    BY <1>1 DEF RecallAll
  <2> QED BY <1>3, <2>1 DEF Recall
<1> DEFINE v == D[k]
           w == D[k + 1]
<1>10. v \in Int /\ w \in Int /\ v <= d /\ w <= v /\ w <= b
  BY <1>5, <1>7, <1>8
<1>11. LoopRecalls(L, locs, ls[m], v, w)
  BY <1>9
<1> HIDE DEF v, w
<1> QED BY <1>10, <1>11

----------------------------------------------------------------------------
(* What the compiler knows of the slots at any time.                       *)

Knows(L, o, locs, d) == Named(o.code, L) /\ L[Here(o)] = Held(locs, d) /\ Ordered(locs)
Remembering ==
  \E L : /\ Knows(L, out, locals, depth)
         /\ Recalled(L, loops, locals, todo, depth, depth, Len(loops))

(* The rest of what is left, from here.                                    *)
Memory(L, t, b) == Recalled(L, loops, locals, t, depth, b, Len(loops))

LEMMA Remembered ==
  ASSUME NEW L, NEW o, NEW ls, NEW locs, NEW d \in Int, NEW t, Knows(L, o, locs, d),
         NEW b \in Int, b <= d, Recalled(L, ls, locs, t, d, b, Len(ls)),
         out' = o, loops' = ls, locals' = locs, depth' = d, todo' = t
  PROVE  Remembering'
<1>1. Recalled(L, ls, locs, t, d, d, Len(ls))
  BY RecalledMore
<1>2. Knows(L, out', locals', depth')
  OBVIOUS
<1>3. Recalled(L, loops', locals', todo', depth', depth', Len(loops'))
  BY <1>1
<1> QED BY <1>2, <1>3 DEF Remembering

(* An item that closes neither a scope nor a loop.                         *)
Continues(it) == ~ EndsScope(it) /\ ~ EndsLoopItem(it)

LEMMA HeadContinues ==
  ASSUME NowWorking, Remembering, todo # << >>, Continues(todo[1])
  PROVE  /\ KnownOf(out) /\ IsSeq(Tail(todo)) /\ Head(todo) = todo[1]
         /\ depth \in Nat /\ Len(loops) \in Nat
         /\ \E L : /\ Knows(L, out, locals, depth)
                   /\ Recall(L, loops, locals, todo[1], depth, depth, Len(loops), Len(loops))
                   /\ Memory(L, Tail(todo), depth)
                   /\ Declares(todo[1]) => Memory(L, Tail(todo), depth - 1)
<1>1. KnownOf(out) /\ Head(todo) = todo[1] /\ IsSeq(Tail(todo))
  <2>1. Known(out, loops, locals, depth) /\ Head(todo) = todo[1]
        /\ \E Q \in Places : Behind(out, loops, locals, depth, todo[1], Tail(todo), Q)
    BY Begin DEF NowWorking
  <2> QED BY <2>1 DEF KnownOf, Behind
<1>2. depth \in Nat /\ Len(loops) \in Nat
  BY <1>1 DEF KnownOf, Known
<1>3. PICK L : Knows(L, out, locals, depth) /\ Recalled(L, loops, locals, todo, depth, depth, Len(loops))
  BY DEF Remembering
<1>4. PICK w \in Int, m \in Int :
        /\ Recall(L, loops, locals, todo[1], depth, w, Len(loops), m)
        /\ Recalled(L, loops, locals, Tail(todo), w, depth, m)
        /\ Declares(todo[1]) => Recalled(L, loops, locals, Tail(todo), w, depth - 1, m)
  BY <1>3, RecalledTail
<1>5. w = depth /\ m = Len(loops)
  BY <1>4 DEF Recall, Continues
<1> QED BY <1>1, <1>2, <1>3, <1>4, <1>5 DEF Memory

(* Items that recall nothing.                                              *)
Forgets(it) ==
  \/ it.do \in {"stmt", "jump", "block value", "expr", "emit", "check", "return", "and", "then"}
  \/ it.do = "for" /\ it.scope = FALSE
Shuts(it) == it.do \in {"end scope", "close block"} \/ (it.do = "for" /\ it.scope = TRUE)

LEMMA ForgetsRecall ==
  ASSUME NEW it, Forgets(it) \/ Declares(it) \/ Shuts(it), NEW L, NEW ls, NEW locs, NEW v, NEW l
  PROVE  /\ ~ Recalls(it) /\ ~ EndsLoopItem(it)
         /\ ~ Shuts(it) => ~ EndsScope(it) /\ Recall(L, ls, locs, it, v, v, l, l)
         /\ Shuts(it) => ~ Declares(it) /\ Recall(L, ls, locs, it, v, v - 1, l, l)
         /\ Forgets(it) => ~ Declares(it) /\ ~ Shuts(it)
         /\ Declares(it) => ~ Shuts(it)
<1>1. ~ Recalls(it)
  BY DEF Recalls, Forgets, Declares, Shuts
<1>2. ~ EndsLoopItem(it)
  BY DEF EndsLoopItem, Forgets, Declares, Shuts
<1>3. Shuts(it) => ~ Declares(it) /\ EndsScope(it)
  BY DEF EndsScope, Declares, Shuts
<1>4. ~ Shuts(it) => ~ EndsScope(it)
  BY DEF EndsScope, Forgets, Declares, Shuts
<1>5. /\ it.do \notin {"else", "patch"} /\ it.do # "for increment"
      /\ it.do \notin {"while", "for exit"}
  BY DEF Forgets, Declares, Shuts
<1>6. ~ Shuts(it) => Recall(L, ls, locs, it, v, v, l, l)
  BY <1>2, <1>4, <1>5 DEF Recall
<1>7. Shuts(it) => Recall(L, ls, locs, it, v, v - 1, l, l)
  BY <1>2, <1>3, <1>5 DEF Recall
<1>8. Forgets(it) => ~ Declares(it) /\ ~ Shuts(it)
  BY DEF Forgets, Declares, Shuts
<1> QED BY <1>1, <1>2, <1>3, <1>4, <1>6, <1>7, <1>8

LEMMA RecalledInt ==
  ASSUME NEW L, NEW ls, NEW locs, NEW t, NEW d, NEW b, NEW l, Recalled(L, ls, locs, t, d, b, l)
  PROVE  d \in Int /\ l \in Int /\ IsSeq(t)
<1>1. PICK D \in [1..Len(t) + 1 -> Int], M \in [1..Len(t) + 1 -> Int] : D[1] = d /\ M[1] = l
  BY DEF Recalled
<1>2. IsSeq(t)
  BY DEF Recalled
<1>3. Len(t) \in Nat
  <2>1. PICK X : t \in Seq(X)
    BY <1>2 DEF IsSeq
  <2> QED BY <2>1
<1> QED BY <1>1, <1>2, <1>3

LEMMA Recollects ==
  ASSUME NEW L, NEW ls, NEW locs, NEW t, NEW d, NEW b \in Int, NEW l,
         Recalled(L, ls, locs, t, d, b, l), NEW it
  PROVE  /\ Forgets(it) => Recalled(L, ls, locs, Cons(it, t), d, b, l)
         /\ Declares(it) /\ b < d => Recalled(L, ls, locs, Cons(it, t), d, b, l)
         /\ Shuts(it) => Recalled(L, ls, locs, Cons(it, t), d + 1, b, l)
<1>1. d \in Int /\ l \in Int
  BY RecalledInt
<1>2. CASE Forgets(it)
  <2>1. ~ Recalls(it) /\ ~ Declares(it) /\ ~ Shuts(it) /\ Recall(L, ls, locs, it, d, d, l, l)
    BY <1>2, ForgetsRecall
  <2>2. Recalled(L, ls, locs, Cons(it, t), d, b, l)
    BY <1>1, <2>1, RecalledCons
  <2> QED BY <2>1, <2>2
<1>3. CASE Declares(it)
  <2>1. ~ Recalls(it) /\ ~ Shuts(it) /\ Recall(L, ls, locs, it, d, d, l, l)
    BY <1>3, ForgetsRecall
  <2>2. b < d => Recalled(L, ls, locs, Cons(it, t), d, b, l)
    BY <1>1, <2>1, RecalledCons
  <2>3. ~ Forgets(it)
    BY <1>3, ForgetsRecall
  <2> QED BY <2>1, <2>2, <2>3
<1>4. CASE Shuts(it)
  <2> DEFINE e == d + 1
  <2>1. ~ Recalls(it) /\ ~ Declares(it) /\ Recall(L, ls, locs, it, e, e - 1, l, l)
    BY <1>4, ForgetsRecall
  <2>2. e \in Int /\ e - 1 = d
    BY <1>1
  <2> HIDE DEF e
  <2>3. Recalled(L, ls, locs, Cons(it, t), e, b, l)
    BY <1>1, <2>1, <2>2, RecalledCons
  <2>4. ~ Forgets(it)
    BY <1>4, ForgetsRecall
  <2> QED BY <2>1, <2>3, <2>4 DEF e
<1> QED BY <1>2, <1>3, <1>4

LEMMA RecollectsForgets ==
  ASSUME NEW L, NEW t, NEW b \in Int, Memory(L, t, b)
  PROVE  /\ Memory(L, Cons(Expr, t), b) /\ Memory(L, Cons(Stmt, t), b)
         /\ \A op : Memory(L, Cons(Op(op), t), b)
         /\ Memory(L, Cons(TheCheck, t), b) /\ Memory(L, Cons([do |-> "jump"], t), b)
         /\ Memory(L, Cons([do |-> "and"], t), b)
<1>1. \A it : Forgets(it) => Memory(L, Cons(it, t), b)
  BY Recollects DEF Memory
<1>2. /\ Forgets(Expr) /\ Forgets(Stmt) /\ \A op : Forgets(Op(op))
      /\ Forgets(TheCheck) /\ Forgets([do |-> "jump"]) /\ Forgets([do |-> "and"])
  BY DEF Forgets, Expr, Stmt, Op, TheCheck
<1> QED BY <1>1, <1>2

(* A step that only puts items in front of the rest.                       *)
LEMMA RememberItems ==
  ASSUME NEW L, Knows(L, out, locals, depth), depth \in Nat, NEW t, NEW b \in Int, b <= depth,
         Memory(L, t, b), todo' = t, UNCHANGED <<out, locals, depth, loops>>
  PROVE  Remembering'
BY Remembered DEF Memory

LEMMA Heading ==
  ASSUME NowWorking, Remembering,
         NEW what \in {"stmts", "declaration", "stmt", "jump", "block value", "expr", "emit", "check",
                       "define", "return", "and", "then", "else", "patch", "while"},
         Doing(what)
  PROVE  /\ KnownOf(out) /\ IsSeq(Tail(todo)) /\ Head(todo) = todo[1] /\ todo[1].do = what
         /\ depth \in Nat /\ Len(loops) \in Nat
         /\ \E L : /\ Knows(L, out, locals, depth)
                   /\ Recall(L, loops, locals, todo[1], depth, depth, Len(loops), Len(loops))
                   /\ Memory(L, Tail(todo), depth)
                   /\ Declares(todo[1]) => Memory(L, Tail(todo), depth - 1)
<1>1. todo # << >> /\ Head(todo).do = what
  BY DEF Doing
<1>2. Head(todo) = todo[1]
  BY <1>1, Begin DEF NowWorking
<1>3. Continues(todo[1])
  BY <1>1, <1>2 DEF Continues, EndsScope, EndsLoopItem
<1> QED BY <1>1, <1>2, <1>3, HeadContinues

LEMMA HeadingState ==
  ASSUME NowWorking, Remembering, Stating
  PROVE  /\ IsSeq(Tail(todo)) /\ depth \in Nat
         /\ \E L : /\ Knows(L, out, locals, depth) /\ Memory(L, Tail(todo), depth)
                   /\ Memory(L, Cons(TheCheck, Tail(todo)), depth)
<1>1. /\ IsSeq(Tail(todo)) /\ depth \in Nat
      /\ \E L : Knows(L, out, locals, depth) /\ Memory(L, Tail(todo), depth)
  <2>1. CASE Doing("stmt")
    BY <2>1, Heading
  <2>2. CASE Doing("declaration")
    BY <2>2, Heading
  <2> QED BY <2>1, <2>2 DEF Stating
<1>2. depth \in Int
  BY <1>1
<1> QED BY <1>1, <1>2, RecollectsForgets

LEMMA HeadingExpr ==
  ASSUME NowWorking, Remembering, Doing("expr")
  PROVE  /\ IsSeq(Tail(todo)) /\ depth \in Nat
         /\ \E L : Knows(L, out, locals, depth) /\ Memory(L, Tail(todo), depth)
BY Heading

LEMMA RememberExprStmt == ASSUME NowWorking, Remembering, ExprStmt PROVE Remembering'
<1> DEFINE t == Tail(todo)
           pop == Op("pop")
           t1 == Cons(TheCheck, t)
           t2 == Cons(pop, t1)
           t3 == Cons(Expr, t2)
<1>1. IsSeq(t) /\ depth \in Nat
  BY HeadingState DEF ExprStmt
<1>2. PICK L : Knows(L, out, locals, depth) /\ Memory(L, t1, depth)
  BY HeadingState DEF ExprStmt
<1>3. todo' = (<<Expr, pop>> \o <<TheCheck>>) \o t
  BY DEF ExprStmt, Do, Checked, TheCheck
<1>4. Memory(L, t2, depth)
  BY <1>1, <1>2, RecollectsForgets
<1> HIDE DEF t, pop
<1>5. todo' = t3
  BY <1>1, <1>3, Items21
<1> HIDE DEF t1, t2
<1>6. Memory(L, t3, depth)
  BY <1>1, <1>4, RecollectsForgets
<1> HIDE DEF t3
<1> QED BY <1>1, <1>2, <1>5, <1>6, RememberItems DEF ExprStmt

LEMMA RememberBinary == ASSUME NowWorking, Remembering, Binary PROVE Remembering'
<1> DEFINE t == Tail(todo)
           add == Op("add")
           t1 == Cons(add, t)
           t2 == Cons(Expr, t1)
           t3 == Cons(Expr, t2)
<1>1. IsSeq(t) /\ depth \in Nat
  BY HeadingExpr DEF Binary
<1>2. PICK L : Knows(L, out, locals, depth) /\ Memory(L, t, depth)
  BY HeadingExpr DEF Binary
<1>3. todo' = <<Expr, Expr, add>> \o t
  BY DEF Binary, Do
<1>4. Memory(L, t1, depth)
  BY <1>1, <1>2, RecollectsForgets
<1> HIDE DEF t, add
<1>5. todo' = t3
  BY <1>1, <1>3, Items3
<1> HIDE DEF t1
<1>6. Memory(L, t2, depth)
  BY <1>1, <1>4, RecollectsForgets
<1> HIDE DEF t2
<1>7. Memory(L, t3, depth)
  BY <1>1, <1>6, RecollectsForgets
<1> HIDE DEF t3
<1> QED BY <1>1, <1>2, <1>5, <1>7, RememberItems DEF Binary

LEMMA RememberAnd == ASSUME NowWorking, Remembering, And PROVE Remembering'
<1> DEFINE t == Tail(todo)
           a == [do |-> "and"]
           t1 == Cons(a, t)
           t2 == Cons(Expr, t1)
<1>1. IsSeq(t) /\ depth \in Nat
  BY HeadingExpr DEF And
<1>2. PICK L : Knows(L, out, locals, depth) /\ Memory(L, t, depth)
  BY HeadingExpr DEF And
<1>3. todo' = <<Expr, a>> \o t
  BY DEF And, Do
<1>4. Memory(L, t1, depth)
  BY <1>1, <1>2, RecollectsForgets
<1> HIDE DEF t, a
<1>5. todo' = t2
  BY <1>1, <1>3, Items2
<1> HIDE DEF t1
<1>6. Memory(L, t2, depth)
  BY <1>1, <1>4, RecollectsForgets
<1> HIDE DEF t2
<1> QED BY <1>1, <1>2, <1>5, <1>6, RememberItems DEF And

LEMMA RememberReturn == ASSUME NowWorking, Remembering, Return PROVE Remembering'
<1> DEFINE t == Tail(todo)
           a == [do |-> "return", height |-> out.height]
           t1 == Cons(a, t)
           t2 == Cons(Expr, t1)
<1>1. IsSeq(t) /\ depth \in Nat
  BY HeadingState DEF Return
<1>2. PICK L : Knows(L, out, locals, depth) /\ Memory(L, t, depth)
  BY HeadingState DEF Return
<1>3. todo' = <<Expr, a>> \o t
  BY DEF Return, Do
<1>4. Memory(L, t1, depth)
  <2>1. Forgets(a)
    BY DEF Forgets
  <2> HIDE DEF a
  <2> QED BY <1>1, <1>2, <2>1, Recollects DEF Memory
<1> HIDE DEF t, a
<1>5. todo' = t2
  BY <1>1, <1>3, Items2
<1> HIDE DEF t1
<1>6. Memory(L, t2, depth)
  BY <1>1, <1>4, RecollectsForgets
<1> HIDE DEF t2
<1> QED BY <1>1, <1>2, <1>5, <1>6, RememberItems DEF Return

LEMMA RememberIf == ASSUME NowWorking, Remembering, If PROVE Remembering'
<1>0. PICK other \in {<< >>, <<Stmt>>} :
        Do(Checked(<<Expr, [do |-> "then", branch |-> <<Stmt>>, other |-> other]>>))
  BY DEF If
<1> DEFINE t == Tail(todo)
           a == [do |-> "then", branch |-> <<Stmt>>, other |-> other]
           t1 == Cons(TheCheck, t)
           t2 == Cons(a, t1)
           t3 == Cons(Expr, t2)
<1>1. IsSeq(t) /\ depth \in Nat
  BY HeadingState DEF If
<1>2. PICK L : Knows(L, out, locals, depth) /\ Memory(L, t1, depth)
  BY HeadingState DEF If
<1>3. todo' = (<<Expr, a>> \o <<TheCheck>>) \o t
  BY <1>0 DEF Do, Checked, TheCheck
<1>4. Memory(L, t2, depth)
  <2>1. Forgets(a)
    BY DEF Forgets
  <2> HIDE DEF a
  <2> QED BY <1>1, <1>2, <2>1, Recollects DEF Memory
<1> HIDE DEF t, a
<1>5. todo' = t3
  BY <1>1, <1>3, Items21
<1> HIDE DEF t1, t2
<1>6. Memory(L, t3, depth)
  BY <1>1, <1>4, RecollectsForgets
<1> HIDE DEF t3
<1> QED BY <1>1, <1>2, <1>5, <1>6, RememberItems DEF If

LEMMA RememberIfExpr == ASSUME NowWorking, Remembering, IfExpr PROVE Remembering'
<1>0. PICK branch \in {<<Expr>>, <<[do |-> "jump"], Op("constant")>>} :
        Do(<<Expr, [do |-> "then", branch |-> branch, other |-> <<Expr>>]>>)
  BY DEF IfExpr
<1> DEFINE t == Tail(todo)
           a == [do |-> "then", branch |-> branch, other |-> <<Expr>>]
           t1 == Cons(a, t)
           t2 == Cons(Expr, t1)
<1>1. IsSeq(t) /\ depth \in Nat
  BY HeadingExpr DEF IfExpr
<1>2. PICK L : Knows(L, out, locals, depth) /\ Memory(L, t, depth)
  BY HeadingExpr DEF IfExpr
<1>3. todo' = <<Expr, a>> \o t
  BY <1>0 DEF Do
<1>4. Memory(L, t1, depth)
  <2>1. Forgets(a)
    BY DEF Forgets
  <2> HIDE DEF a
  <2> QED BY <1>1, <1>2, <2>1, Recollects DEF Memory
<1> HIDE DEF t, a
<1>5. todo' = t2
  BY <1>1, <1>3, Items2
<1> HIDE DEF t1
<1>6. Memory(L, t2, depth)
  BY <1>1, <1>4, RecollectsForgets
<1> HIDE DEF t2
<1>7. UNCHANGED <<out, locals, depth, loops>>
  BY DEF IfExpr
<1> QED BY <1>1, <1>2, <1>5, <1>6, <1>7, RememberItems

LEMMA RecollectsForth ==
  ASSUME NEW L, NEW ls, NEW locs, NEW t, NEW d, NEW b \in Int, NEW l,
         Recalled(L, ls, locs, t, d, b, l), NEW start, Forth(L, locs, start, d)
  PROVE  Recalled(L, ls, locs, Cons([do |-> "while", start |-> start], t), d, b, l)
<1> DEFINE w == [do |-> "while", start |-> start]
<1>1. d \in Int /\ l \in Int
  BY RecalledInt
<1>2. ~ Recalls(w) /\ ~ Declares(w) /\ ~ EndsScope(w) /\ ~ EndsLoopItem(w)
  BY DEF Recalls, Declares, EndsScope, EndsLoopItem
<1>3. Recall(L, ls, locs, w, d, d, l, l)
  BY <1>2 DEF Recall
<1> HIDE DEF w
<1>5. Recalled(L, ls, locs, Cons(w, t), d, b, l)
  BY <1>1, <1>2, <1>3, RecalledCons
<1> QED BY <1>5 DEF w

(* The items of a for loop, whose initializer may have opened a scope.     *)
Inside(scope, d) == IF scope = TRUE THEN d - 1 ELSE d
ExitItem(start, scope) == [do |-> "for exit", start |-> start, scope |-> scope]

LEMMA RecollectsExit ==
  ASSUME NEW L, NEW ls, NEW locs, NEW t, NEW d \in Int, NEW b \in Int, NEW l, NEW scope,
         NEW w, w = Inside(scope, d), Recalled(L, ls, locs, t, w, b, l),
         NEW start, Forth(L, locs, start, d)
  PROVE  Recalled(L, ls, locs, Cons(ExitItem(start, scope), t), d, b, l)
<1> DEFINE x == ExitItem(start, scope)
<1>1. w \in Int /\ l \in Int
  BY RecalledInt
<1>2. x.do = "for exit" /\ x.start = start /\ x.scope = scope
  BY DEF ExitItem
<1> HIDE DEF x
<1>3. ~ Recalls(x) /\ ~ Declares(x) /\ (EndsScope(x) <=> scope = TRUE) /\ ~ EndsLoopItem(x)
  BY <1>2 DEF Recalls, Declares, EndsScope, EndsLoopItem
<1>4. Recall(L, ls, locs, x, d, w, l, l)
  <2>1. w = IF EndsScope(x) THEN d - 1 ELSE d
    BY <1>3 DEF Inside
  <2>2. x.do \notin {"else", "patch"} /\ x.do # "for increment"
    BY <1>2
  <2> QED BY <1>2, <1>3, <2>1, <2>2 DEF Recall
<1>5. b <= b
  OBVIOUS
<1>6. Recalled(L, ls, locs, Cons(x, t), d, b, l)
  BY <1>1, <1>3, <1>4, <1>5, RecalledCons
<1> QED BY <1>6 DEF x

(* What is known here is what the locals say.                              *)
LEMMA KnowsHere ==
  ASSUME NEW L, NEW o, NEW locs, NEW d, Knows(L, o, locs, d), Len(o.code) \in Nat
  PROVE  Here(o) \in DOMAIN L /\ Back(L, locs, Here(o), d) /\ Forth(L, locs, Here(o), d)
<1>1. DOMAIN L = 1..Len(o.code) + 1 /\ L[Here(o)] = Held(locs, d)
  BY DEF Knows, Named
<1>2. Here(o) \in 1..Len(o.code) + 1
  BY DEF Here
<1> QED BY <1>1, <1>2 DEF Back, Forth

LEMMA CodeLen == ASSUME NEW o, KnownOf(o) PROVE Len(o.code) \in Nat
BY OutFacts DEF KnownOf, Known

LEMMA RememberWhile == ASSUME NowWorking, Remembering, While PROVE Remembering'
<1> DEFINE t == Tail(todo)
           a == [do |-> "while", start |-> Here(out)]
           t1 == Cons(TheCheck, t)
           t2 == Cons(a, t1)
           t3 == Cons(Expr, t2)
<1>1. IsSeq(t) /\ depth \in Nat
  BY HeadingState DEF While
<1>2. PICK L : Knows(L, out, locals, depth) /\ Memory(L, t1, depth)
  BY HeadingState DEF While
<1>3. todo' = (<<Expr, a>> \o <<TheCheck>>) \o t
  BY DEF While, Do, Checked, TheCheck
<1>4. Len(out.code) \in Nat
  BY Begin, CodeLen DEF NowWorking, KnownOf
<1>5. Memory(L, t2, depth)
  <2>1. Forth(L, locals, Here(out), depth)
    BY <1>2, <1>4, KnowsHere
  <2>2. depth \in Int
    BY <1>1
  <2> HIDE DEF t1
  <2> QED BY <1>2, <2>1, <2>2, RecollectsForth DEF Memory
<1> HIDE DEF t, a
<1>6. todo' = t3
  BY <1>1, <1>3, Items21
<1> HIDE DEF t1, t2
<1>7. Memory(L, t3, depth)
  BY <1>1, <1>5, RecollectsForgets
<1> HIDE DEF t3
<1> QED BY <1>1, <1>2, <1>6, <1>7, RememberItems DEF While

LEMMA RememberStatements == ASSUME NowWorking, Remembering, Statements PROVE Remembering'
<1> DEFINE t == Tail(todo)
           a == [do |-> "declaration"]
           s == [do |-> "stmts"]
           t1 == Cons(s, t)
           t2 == Cons(a, t1)
           b == depth - 1
<1>1. IsSeq(t) /\ depth \in Nat
  BY Heading DEF Statements
<1>2. PICK L : Knows(L, out, locals, depth) /\ Memory(L, t, b)
  <2>1. todo[1].do = "stmts"
    BY Heading DEF Statements
  <2>2. Declares(todo[1])
    BY <2>1 DEF Declares
  <2> QED BY <2>2, Heading DEF Statements
<1>3. b \in Int /\ b < depth /\ b <= depth
  BY <1>1
<1> HIDE DEF b
<1>4. Declares(a) /\ Declares(s)
  BY DEF Declares
<1>5. todo' = <<a, s>> \o t \/ todo' = << >> \o t
  BY DEF Statements, Do
<1> HIDE DEF a, s, t
<1>6. todo' = t2 \/ todo' = t
  BY <1>1, <1>5, Items2, Items0
<1>7. Memory(L, t1, b)
  BY <1>2, <1>3, <1>4, Recollects DEF Memory
<1> HIDE DEF t1
<1>8. Memory(L, t2, b)
  BY <1>3, <1>4, <1>7, Recollects DEF Memory
<1> HIDE DEF t2
<1>9. UNCHANGED <<out, locals, depth, loops>>
  BY DEF Statements
<1> QED BY <1>1, <1>2, <1>3, <1>6, <1>8, <1>9, RememberItems

LEMMA RememberBlockValue == ASSUME NowWorking, Remembering, BlockValue PROVE Remembering'
<1> DEFINE t == Tail(todo)
           pop == Op("pop")
           t1 == Cons(pop, t)
           t2 == Cons(Expr, t1)
<1>1. IsSeq(t) /\ depth \in Nat
  BY Heading DEF BlockValue
<1>2. PICK L : Knows(L, out, locals, depth) /\ Memory(L, t, depth)
  BY Heading DEF BlockValue
<1>3. todo' = <<Expr, pop>> \o t \/ todo' = << >> \o t
  BY DEF BlockValue, Do
<1>4. UNCHANGED <<out, locals, depth, loops>>
  BY DEF BlockValue
<1>5. Memory(L, t1, depth)
  BY <1>1, <1>2, RecollectsForgets
<1> HIDE DEF t, pop
<1>6. todo' = t2 \/ todo' = t
  BY <1>1, <1>3, Items2, Items0
<1> HIDE DEF t1
<1>7. Memory(L, t2, depth)
  BY <1>1, <1>5, RecollectsForgets
<1> HIDE DEF t2
<1> QED BY <1>1, <1>2, <1>4, <1>6, <1>7, RememberItems

LEMMA RememberCheckStatement ==
  ASSUME NowWorking, Remembering, CheckStatement PROVE Remembering'
<1> DEFINE t == Tail(todo)
<1>1. IsSeq(t) /\ depth \in Nat
  BY Heading DEF CheckStatement
<1>2. PICK L : Knows(L, out, locals, depth) /\ Memory(L, t, depth)
  BY Heading DEF CheckStatement
<1>3. todo' = << >> \o t /\ UNCHANGED <<locals, depth, loops>>
  BY DEF CheckStatement, Do
<1> HIDE DEF t
<1>4. todo' = t
  BY <1>1, <1>3, Items0
<1>5. Knows(L, out', locals, depth)
  <2> DEFINE e == out'
  <2>1. e.code = out.code
    BY DEF CheckStatement
  <2>2. Here(e) = Here(out)
    BY <2>1 DEF Here
  <2> HIDE DEF e
  <2>3. Knows(L, e, locals, depth)
    BY <1>2, <2>1, <2>2 DEF Knows
  <2> QED BY <2>3 DEF e
<1> DEFINE e == out'
<1>6. Knows(L, e, locals, depth) /\ e = out'
  BY <1>5
<1> HIDE DEF e
<1>7. depth \in Int
  BY <1>1
<1> QED BY <1>2, <1>3, <1>4, <1>6, <1>7, Remembered DEF Memory

(* A scope is entered.                                                     *)
LEMMA RememberEnter ==
  ASSUME NEW L, Knows(L, out, locals, depth), depth \in Nat, NEW t, NEW b \in Int, b <= depth,
         Recalled(L, loops, locals, t, depth + 1, b, Len(loops)),
         Held(locals, depth + 1) = Held(locals, depth),
         todo' = t, depth' = depth + 1, UNCHANGED <<out, locals, loops>>
  PROVE  Remembering'
<1> DEFINE d == depth + 1
<1>1. d \in Int /\ b <= d
  OBVIOUS
<1>2. Knows(L, out, locals, d) /\ Recalled(L, loops, locals, t, d, b, Len(loops)) /\ depth' = d
  BY DEF Knows
<1> HIDE DEF d
<1> QED BY <1>1, <1>2, Remembered

(* No variable is deeper than the current scope.                           *)
LEMMA HeldDeeper ==
  ASSUME NEW locs, NEW d \in Int, \A i \in 1..Len(locs) : locs[i].depth <= d /\ locs[i].depth \in Int,
         NEW e \in Int, d <= e
  PROVE  Held(locs, e) = Held(locs, d)
<1>1. \A i \in 1..Len(locs) : InScope(locs, i, e) <=> InScope(locs, i, d)
  BY DEF InScope
<1> QED BY <1>1 DEF Held

LEMMA RememberBlock == ASSUME NowWorking, Remembering, Block PROVE Remembering'
<1> DEFINE t == Tail(todo)
           s == [do |-> "stmts"]
           v == [do |-> "block value"]
           x == [do |-> "end scope"]
           t1 == Cons(TheCheck, t)
           t2 == Cons(x, t1)
           t3 == Cons(v, t2)
           t4 == Cons(s, t3)
           d == depth + 1
           n == Len(loops)
<1>1. IsSeq(t) /\ depth \in Nat
  BY HeadingState DEF Block
<1>2. PICK L : Knows(L, out, locals, depth) /\ Memory(L, t1, depth)
  BY HeadingState DEF Block
<1>3. todo' = (<<s, v, x>> \o <<TheCheck>>) \o t
  BY DEF Block, Do, Checked, TheCheck
<1>4. Held(locals, d) = Held(locals, depth)
  <2>1. \A i \in 1..Len(locals) : locals[i].depth <= depth /\ locals[i].depth \in Int
    BY Begin DEF NowWorking, Known
  <2>2. depth \in Int /\ d \in Int /\ depth <= d
    BY <1>1
  <2> HIDE DEF d
  <2> QED BY <2>1, <2>2, HeldDeeper
<1>5. Shuts(x) /\ Declares(s) /\ Forgets(v)
  BY DEF Shuts, Declares, Forgets
<1>6. UNCHANGED <<out, locals, loops>> /\ depth' = depth + 1
  BY DEF Block
<1> HIDE DEF t, s, v, x
<1>7. todo' = t4
  BY <1>1, <1>3, Items31
<1>8. depth \in Int /\ depth < d /\ depth <= depth
  BY <1>1
<1> HIDE DEF t1
<1>9. Recalled(L, loops, locals, t2, d, depth, n)
  BY <1>2, <1>5, <1>8, Recollects DEF Memory
<1> HIDE DEF t2, d, n
<1>10. Recalled(L, loops, locals, t3, d, depth, n)
  BY <1>5, <1>8, <1>9, Recollects
<1> HIDE DEF t3
<1>11. Recalled(L, loops, locals, t4, d, depth, n)
  BY <1>5, <1>8, <1>10, Recollects
<1> HIDE DEF t4
<1> QED BY <1>1, <1>2, <1>4, <1>6, <1>7, <1>8, <1>11, RememberEnter DEF d, n

LEMMA RememberBlockExpr == ASSUME NowWorking, Remembering, BlockExpr PROVE Remembering'
<1> DEFINE t == Tail(todo)
           s == [do |-> "stmts"]
           x == [do |-> "close block"]
           t2 == Cons(x, t)
           t3 == Cons(Expr, t2)
           t4 == Cons(s, t3)
           d == depth + 1
           n == Len(loops)
<1>1. IsSeq(t) /\ depth \in Nat
  BY HeadingExpr DEF BlockExpr
<1>2. PICK L : Knows(L, out, locals, depth) /\ Memory(L, t, depth)
  BY HeadingExpr DEF BlockExpr
<1>3. todo' = <<s, Expr, x>> \o t
  BY DEF BlockExpr, Do
<1>4. Held(locals, d) = Held(locals, depth)
  <2>1. \A i \in 1..Len(locals) : locals[i].depth <= depth /\ locals[i].depth \in Int
    BY Begin DEF NowWorking, Known
  <2>2. depth \in Int /\ d \in Int /\ depth <= d
    BY <1>1
  <2> HIDE DEF d
  <2> QED BY <2>1, <2>2, HeldDeeper
<1>5. Shuts(x) /\ Declares(s) /\ Forgets(Expr)
  BY DEF Shuts, Declares, Forgets, Expr
<1>6. UNCHANGED <<out, locals, loops>> /\ depth' = depth + 1
  BY DEF BlockExpr
<1> HIDE DEF t, s, x
<1>7. todo' = t4
  BY <1>1, <1>3, Items3
<1>8. depth \in Int /\ depth < d /\ depth <= depth
  BY <1>1
<1>9. Recalled(L, loops, locals, t2, d, depth, n)
  BY <1>2, <1>5, <1>8, Recollects DEF Memory
<1> HIDE DEF t2, d, n
<1>10. Recalled(L, loops, locals, t3, d, depth, n)
  BY <1>5, <1>8, <1>9, Recollects
<1> HIDE DEF t3
<1>11. Recalled(L, loops, locals, t4, d, depth, n)
  BY <1>5, <1>8, <1>10, Recollects
<1> HIDE DEF t4
<1> QED BY <1>1, <1>2, <1>4, <1>6, <1>7, <1>8, <1>11, RememberEnter DEF d, n

LEMMA ExtendsItself == ASSUME NEW L PROVE Extends(L, L)
BY DEF Extends

LEMMA HeldAppend ==
  ASSUME NEW locs, locs \in Seq(Slots), NEW new \in Slots, NEW v,
         new.depth = UNINITIALIZED
  PROVE  Held(Append(locs, new), v) = Held(locs, v)
<1> DEFINE l2 == Append(locs, new)
           n == Len(locs)
<1>1. n \in Nat /\ Len(l2) = n + 1 /\ l2[n + 1] = new /\ \A i \in 1..n : l2[i] = locs[i]
  OBVIOUS
<1> HIDE DEF l2, n
<1>2. \A i \in 1..n + 1 : InScope(l2, i, v) => i \in 1..n
  BY <1>1 DEF InScope
<1>3. \A i \in 1..n : i \in 1..n + 1 /\ l2[i] = locs[i] /\ (InScope(l2, i, v) <=> InScope(locs, i, v))
  BY <1>1 DEF InScope
<1>4. \A x : x \in Held(l2, v) <=> \E i \in 1..n + 1 : InScope(l2, i, v) /\ x = <<l2[i].slot, l2[i].decl>>
  BY <1>1, HeldIff
<1>5. \A x : x \in Held(locs, v) <=> \E i \in 1..n : InScope(locs, i, v) /\ x = <<locs[i].slot, locs[i].decl>>
  BY HeldIff DEF n
<1>6. \A x : x \in Held(l2, v) <=> x \in Held(locs, v)
  BY <1>2, <1>3, <1>4, <1>5
<1>7. Held(l2, v) = Held(locs, v)
  <2> DEFINE A == Held(l2, v)
             B == Held(locs, v)
  <2>1. \A x : x \in A <=> x \in B
    BY <1>6
  <2>2. A \subseteq B /\ B \subseteq A
    BY <2>1
  <2> QED BY <2>2
<1> QED BY <1>7 DEF l2

LEMMA OrderedAppend ==
  ASSUME NEW locs, locs \in Seq(Slots), Ordered(locs), NEW new \in Slots, new.slot \in Nat,
         Low(locs, new.slot)
  PROVE  Ordered(Append(locs, new))
<1> DEFINE l2 == Append(locs, new)
           n == Len(locs)
<1>1. n \in Nat /\ Len(l2) = n + 1 /\ l2[n + 1] = new /\ \A i \in 1..n : l2[i] = locs[i]
  OBVIOUS
<1> HIDE DEF l2, n
<1>2. \A i \in 1..n + 1 : l2[i].slot \in Nat
  BY <1>1 DEF Ordered, n
<1>3. ASSUME NEW i \in 1..n + 1, NEW j \in 1..n + 1, i < j,
             l2[i].depth # UNINITIALIZED
      PROVE  l2[i].slot < l2[j].slot
  <2>1. i \in 1..n /\ l2[i] = locs[i]
    BY <1>1, <1>3
  <2>2. CASE j = n + 1
    <3>1. Low(locs, new.slot) /\ l2[j] = new
      BY <1>1, <1>3, <2>2
    <3> QED BY <1>3, <2>1, <3>1 DEF Low, n
  <2>3. CASE j # n + 1
    <3>1. j \in 1..n /\ l2[j] = locs[j]
      BY <1>1, <2>3
    <3> QED BY <1>3, <2>1, <3>1 DEF Ordered, n
  <2> QED BY <2>2, <2>3
<1> QED BY <1>1, <1>2, <1>3 DEF Ordered, l2

(* A variable whose initializer comes next.                                *)
LEMMA KnowsAdded ==
  ASSUME KnownOf(out), nodes \in Nat, NEW L, Knows(L, out, locals, depth),
         NEW locs, locs = AddLocal(out), NEW d \in Int, depth <= d
  PROVE  Knows(L, out, locs, d) /\ \A v : Held(locs, v) = Held(locals, v)
<1>1. /\ depth \in Nat /\ locals \in Seq(Slots) /\ out.height \in Nat /\ Low(locals, out.height)
      /\ \A i \in 1..Len(locals) : locals[i].depth <= depth /\ locals[i].depth \in Int
  BY DEF KnownOf, Known
<1>2. /\ \E new \in Slots : locs = Append(locals, new) /\ new.depth = UNINITIALIZED
      /\ locs[Len(locs)].slot = out.height
  <2>1. depth <= depth
    BY <1>1
  <2> QED BY <1>1, <2>1, AddedLocal
<1>3. PICK new \in Slots : locs = Append(locals, new) /\ new.depth = UNINITIALIZED
  BY <1>2
<1>4. new.slot = out.height
  <2>1. locs[Len(locs)] = new
    BY <1>1, <1>3
  <2> QED BY <1>2, <2>1
<1>5. Ordered(locs)
  BY <1>1, <1>3, <1>4, OrderedAppend DEF Knows
<1>6. \A v : Held(locs, v) = Held(locals, v)
  BY <1>1, <1>3, HeldAppend
<1>7. Held(locals, d) = Held(locals, depth)
  <2>1. depth \in Int
    BY <1>1
  <2> QED BY <1>1, <2>1, HeldDeeper
<1> QED BY <1>5, <1>6, <1>7 DEF Knows

LEMMA RememberVarDecl ==
  ASSUME NowWorking, nodes \in Nat, Remembering, VarDecl PROVE Remembering'
<1> DEFINE t == Tail(todo)
           locs == AddLocal(out)
           def == [do |-> "define"]
           t1 == Cons(TheCheck, t)
           t2 == Cons(def, t1)
           t3 == Cons(Expr, t2)
           b == depth - 1
           n == Len(loops)
<1>1. Doing("declaration")
  BY DEF VarDecl
<1>2. IsSeq(t) /\ depth \in Nat /\ KnownOf(out) /\ todo[1].do = "declaration"
  BY <1>1, Heading
<1>3. PICK L : Knows(L, out, locals, depth) /\ Memory(L, t, b)
  <2>1. Declares(todo[1])
    BY <1>2 DEF Declares
  <2> QED BY <1>1, <2>1, Heading
<1>4. todo' = (<<Expr, def>> \o <<TheCheck>>) \o t
  BY DEF VarDecl, Do, Checked, TheCheck
<1>5. locals' = locs /\ UNCHANGED <<out, depth, loops>> /\ locs = AddLocal(out)
  BY DEF VarDecl
<1>6. depth \in Int /\ b \in Int /\ b < depth /\ b <= depth /\ depth <= depth
  BY <1>2
<1> HIDE DEF b, t, locs
<1>7. Declares(def) /\ Forgets(Expr) /\ Forgets(TheCheck)
  BY DEF Declares, Forgets, Expr, TheCheck
<1> HIDE DEF def
<1>8. todo' = t3
  BY <1>2, <1>4, Items21
<1>9. Knows(L, out, locs, depth) /\ \A v : Held(locs, v) = Held(locals, v)
  BY <1>2, <1>3, <1>5, <1>6, KnowsAdded
<1>10. Recalled(L, loops, locs, t, depth, b, n)
  BY <1>3, <1>6, <1>9, RecallsMore, ExtendsItself DEF Memory
<1> HIDE DEF n
<1>11. Recalled(L, loops, locs, t1, depth, b, n)
  BY <1>6, <1>7, <1>10, Recollects
<1> HIDE DEF t1
<1>12. Recalled(L, loops, locs, t2, depth, b, n)
  BY <1>6, <1>7, <1>11, Recollects
<1> HIDE DEF t2
<1>13. Recalled(L, loops, locs, t3, depth, b, n)
  BY <1>6, <1>7, <1>12, Recollects
<1> HIDE DEF t3
<1> QED BY <1>5, <1>6, <1>8, <1>9, <1>13, Remembered DEF n

LEMMA RememberForVariable ==
  ASSUME NowWorking, nodes \in Nat, Remembering, ForVariable PROVE Remembering'
<1> DEFINE t == Tail(todo)
           locs == AddLocal(out)
           def == [do |-> "define"]
           for == ForItem(TRUE)
           t1 == Cons(TheCheck, t)
           t2 == Cons(for, t1)
           t3 == Cons(TheCheck, t2)
           t4 == Cons(def, t3)
           t5 == Cons(Expr, t4)
           d == depth + 1
           n == Len(loops)
<1>1. Stating
  BY DEF ForVariable
<1>2. IsSeq(t) /\ depth \in Nat
  BY <1>1, HeadingState
<1>3. PICK L : Knows(L, out, locals, depth) /\ Memory(L, t1, depth)
  BY <1>1, HeadingState
<1>4. todo' = (((<<Expr, def>> \o <<TheCheck>>) \o <<for>>) \o <<TheCheck>>) \o t
  BY DEF ForVariable, Do, Checked, TheCheck
<1>5. locals' = locs /\ depth' = d /\ UNCHANGED <<out, loops>> /\ locs = AddLocal(out)
  BY DEF ForVariable
<1>6. depth \in Int /\ d \in Int /\ depth < d /\ depth <= d /\ d = depth + 1
  BY <1>2
<1>7. KnownOf(out)
  BY Begin DEF NowWorking, KnownOf
<1> HIDE DEF d, t, locs
<1>8. Declares(def) /\ Forgets(Expr) /\ Forgets(TheCheck) /\ Shuts(for)
  BY DEF Declares, Forgets, Expr, TheCheck, Shuts, ForItem
<1> HIDE DEF def, for
<1>9. todo' = t5
  BY <1>2, <1>4, Items2111
<1>10. Knows(L, out, locs, d) /\ \A v : Held(locs, v) = Held(locals, v)
  BY <1>3, <1>5, <1>6, <1>7, KnowsAdded
<1> HIDE DEF t1
<1>11. Recalled(L, loops, locs, t1, depth, depth, n)
  BY <1>3, <1>6, <1>10, RecallsMore, ExtendsItself DEF Memory
<1> HIDE DEF n
<1>12. Recalled(L, loops, locs, t2, d, depth, n)
  BY <1>6, <1>8, <1>11, Recollects
<1> HIDE DEF t2
<1>13. Recalled(L, loops, locs, t3, d, depth, n)
  BY <1>6, <1>8, <1>12, Recollects
<1> HIDE DEF t3
<1>14. Recalled(L, loops, locs, t4, d, depth, n)
  BY <1>6, <1>8, <1>13, Recollects
<1> HIDE DEF t4
<1>15. Recalled(L, loops, locs, t5, d, depth, n)
  BY <1>6, <1>8, <1>14, Recollects
<1> HIDE DEF t5
<1> QED BY <1>5, <1>6, <1>9, <1>10, <1>15, Remembered DEF n

(* An expression, in a scope that has no variable.                         *)
LEMMA RememberForExpression ==
  ASSUME NowWorking, Remembering, ForExpression PROVE Remembering'
<1> DEFINE t == Tail(todo)
           pop == Op("pop")
           for == ForItem(TRUE)
           t1 == Cons(TheCheck, t)
           t2 == Cons(for, t1)
           t3 == Cons(TheCheck, t2)
           t4 == Cons(pop, t3)
           t5 == Cons(Expr, t4)
           d == depth + 1
           n == Len(loops)
<1>1. Stating
  BY DEF ForExpression
<1>2. IsSeq(t) /\ depth \in Nat
  BY <1>1, HeadingState
<1>3. PICK L : Knows(L, out, locals, depth) /\ Memory(L, t1, depth)
  BY <1>1, HeadingState
<1>4. todo' = (((<<Expr, pop>> \o <<TheCheck>>) \o <<for>>) \o <<TheCheck>>) \o t
  BY DEF ForExpression, Do, Checked, TheCheck
<1>5. depth' = d /\ UNCHANGED <<out, loops, locals>>
  BY DEF ForExpression
<1>6. depth \in Int /\ d \in Int /\ depth < d /\ depth <= d /\ d = depth + 1
  BY <1>2
<1>7. \A i \in 1..Len(locals) : locals[i].depth <= depth /\ locals[i].depth \in Int
  BY Begin DEF NowWorking, KnownOf, Known
<1> HIDE DEF d, t
<1>8. Forgets(pop) /\ Forgets(Expr) /\ Forgets(TheCheck) /\ Shuts(for)
  BY DEF Forgets, Expr, Op, TheCheck, Shuts, ForItem
<1> HIDE DEF pop, for
<1>9. todo' = t5
  BY <1>2, <1>4, Items2111
<1>10. Knows(L, out, locals, d)
  <2>1. Held(locals, d) = Held(locals, depth)
    BY <1>6, <1>7, HeldDeeper
  <2> QED BY <1>3, <2>1 DEF Knows
<1> HIDE DEF t1
<1>11. Recalled(L, loops, locals, t1, depth, depth, n)
  BY <1>3 DEF Memory
<1> HIDE DEF n
<1>12. Recalled(L, loops, locals, t2, d, depth, n)
  BY <1>6, <1>8, <1>11, Recollects
<1> HIDE DEF t2
<1>13. Recalled(L, loops, locals, t3, d, depth, n)
  BY <1>6, <1>8, <1>12, Recollects
<1> HIDE DEF t3
<1>14. Recalled(L, loops, locals, t4, d, depth, n)
  BY <1>6, <1>8, <1>13, Recollects
<1> HIDE DEF t4
<1>15. Recalled(L, loops, locals, t5, d, depth, n)
  BY <1>6, <1>8, <1>14, Recollects
<1> HIDE DEF t5
<1> QED BY <1>5, <1>6, <1>9, <1>10, <1>15, Remembered DEF n

LEMMA RememberForNothing ==
  ASSUME NowWorking, Remembering, ForNothing PROVE Remembering'
<1> DEFINE t == Tail(todo)
           for == ForItem(FALSE)
           t1 == Cons(TheCheck, t)
           t2 == Cons(for, t1)
<1>1. Stating
  BY DEF ForNothing
<1>2. IsSeq(t) /\ depth \in Nat
  BY <1>1, HeadingState
<1>3. PICK L : Knows(L, out, locals, depth) /\ Memory(L, t1, depth)
  BY <1>1, HeadingState
<1>4. todo' = (<<for>> \o <<TheCheck>>) \o t
  BY DEF ForNothing, Do, Checked, TheCheck
<1>5. UNCHANGED <<out, loops, locals, depth>>
  BY DEF ForNothing
<1>6. Forgets(for)
  BY DEF Forgets, ForItem
<1> HIDE DEF t, for
<1>7. todo' = t2
  BY <1>2, <1>4, Items11
<1>8. depth \in Int
  BY <1>2
<1> HIDE DEF t1
<1>9. Memory(L, t2, depth)
  BY <1>3, <1>6, <1>8, Recollects DEF Memory
<1> HIDE DEF t2
<1> QED BY <1>2, <1>3, <1>5, <1>7, <1>9, RememberItems

LEMMA RememberFor ==
  ASSUME NowWorking, nodes \in Nat, Remembering, For PROVE Remembering'
<1>1. ForVariable \/ ForExpression \/ ForNothing
  BY DEF For, ForVariable, ForExpression, ForNothing, ForItem
<1> QED BY <1>1, RememberForVariable, RememberForExpression, RememberForNothing

----------------------------------------------------------------------------
(* What is known of the slots, over the code that is emitted.              *)

Frame(o) ==
  /\ {"code", "height", "reachable", "ok"} \subseteq DOMAIN o /\ IsSeq(o.code)
  /\ \A q \in 1..Len(o.code) : {"op", "arg", "height"} \subseteq DOMAIN o.code[q]
Instruction(op, arg, height) == [op |-> op, arg |-> arg, height |-> height]

LEMMA FrameOf == ASSUME NEW o, CodeOK(o) PROVE Frame(o) /\ Len(o.code) \in Nat /\ o.height \in Nat
<1>1. o \in Outs /\ o.code \in Seq(Instructions) /\ Len(o.code) \in Nat /\ o.height \in Nat
      /\ \A q \in 1..Len(o.code) : o.code[q] \in Instructions
  BY OutFacts
<1>2. {"code", "height", "reachable", "ok"} \subseteq DOMAIN o
  BY <1>1 DEF Outs
<1>3. \A i \in Instructions : {"op", "arg", "height"} \subseteq DOMAIN i
  BY DEF Instructions
<1>4. IsSeq(o.code)
  BY <1>1 DEF IsSeq
<1> QED BY <1>1, <1>2, <1>3, <1>4 DEF Frame

LEMMA FrameLen == ASSUME NEW o, Frame(o) PROVE Len(o.code) \in Nat
<1>1. PICK X : o.code \in Seq(X)
  BY DEF Frame, IsSeq
<1> QED BY <1>1

LEMMA EmitFrame ==
  ASSUME NEW o, Frame(o), NEW op, NEW arg
  PROVE  LET e == Emit(o, op, arg)
         IN  /\ Frame(e) /\ Len(e.code) = Len(o.code) + 1 /\ e.height = o.height + Effect(op, arg)
             /\ \A q \in 1..Len(o.code) : e.code[q] = o.code[q]
             /\ e.code[Len(o.code) + 1] = Instruction(op, arg, o.height)
             /\ op \in {"jump", "loop"} => ~ e.reachable
<1> DEFINE i == Instruction(op, arg, o.height)
           e == Emit(o, op, arg)
           n == Len(o.code)
           c2 == Append(o.code, i)
           f == Effect(op, arg)
<1>1. PICK X : o.code \in Seq(X)
  BY DEF Frame, IsSeq
<1>2. n \in Nat /\ c2 \in Seq(X \cup {i}) /\ Len(c2) = n + 1 /\ c2[n + 1] = i /\ \A q \in 1..n : c2[q] = o.code[q]
  <2> HIDE DEF i
  <2> DEFINE Y == X \cup {i}
  <2>1. o.code \in Seq(Y) /\ i \in Y
    BY <1>1, Widened
  <2> HIDE DEF Y
  <2>2. c2 \in Seq(Y) /\ Len(c2) = n + 1 /\ c2[n + 1] = i /\ \A q \in 1..n : c2[q] = o.code[q]
    BY <2>1
  <2>3. n \in Nat
    BY <1>1
  <2> QED BY <2>2, <2>3 DEF Y
<1>3. e = [o EXCEPT !.code = c2, !.height = @ + f, !.reachable = @ /\ op \notin {"jump", "loop", "return"}]
  BY DEF Emit, Instruction
<1> HIDE DEF e, c2, f
<1>4. e.code = c2 /\ e.height = o.height + f /\ DOMAIN e = DOMAIN o
      /\ e.reachable = (o.reachable /\ op \notin {"jump", "loop", "return"})
  BY <1>3 DEF Frame
<1>5. {"op", "arg", "height"} \subseteq DOMAIN i
  BY DEF Instruction
<1> HIDE DEF i
<1>6. \A q \in 1..n + 1 : q \in 1..n \/ q = n + 1
  BY <1>2
<1>7. \A q \in 1..n + 1 : {"op", "arg", "height"} \subseteq DOMAIN c2[q]
  BY <1>2, <1>5, <1>6 DEF Frame, n
<1>8. Frame(e)
  <2>1. {"code", "height", "reachable", "ok"} \subseteq DOMAIN e
    BY <1>4 DEF Frame
  <2>2. IsSeq(e.code)
    BY <1>2, <1>4 DEF IsSeq
  <2> QED BY <1>2, <1>4, <1>7, <2>1, <2>2 DEF Frame
<1>9. op \in {"jump", "loop"} => ~ e.reachable
  BY <1>4
<1> QED BY <1>2, <1>4, <1>8, <1>9 DEF e, f, i

LEMMA PatchFrame ==
  ASSUME NEW o, Frame(o), NEW p \in 1..Len(o.code)
  PROVE  LET e == PatchJump(o, p)
         IN  /\ Frame(e) /\ Len(e.code) = Len(o.code)
             /\ e.height = (IF o.reachable THEN o.height ELSE o.code[p].height) /\ e.reachable
             /\ \A q \in 1..Len(o.code) : q # p => e.code[q] = o.code[q]
             /\ e.code[p].op = o.code[p].op /\ e.code[p].height = o.code[p].height
             /\ e.code[p].arg = Len(o.code) + 1
<1> DEFINE agreed == IF o.reachable
                       THEN [o EXCEPT !.ok = @ /\ o.height = o.code[p].height]
                       ELSE [o EXCEPT !.height = o.code[p].height, !.reachable = TRUE]
           n == Len(o.code)
           i == [o.code[p] EXCEPT !.arg = n + 1]
           c2 == [o.code EXCEPT ![p] = i]
           e == PatchJump(o, p)
<1>1. PICK X : o.code \in Seq(X)
  BY DEF Frame, IsSeq
<1>2. /\ agreed.code = o.code /\ DOMAIN agreed = DOMAIN o /\ agreed.reachable
      /\ agreed.height = (IF o.reachable THEN o.height ELSE o.code[p].height)
  <2>1. CASE o.reachable
    <3>1. agreed = [o EXCEPT !.ok = @ /\ o.height = o.code[p].height]
      BY <2>1
    <3> QED BY <2>1, <3>1 DEF Frame
  <2>2. CASE ~ o.reachable
    <3>1. agreed = [o EXCEPT !.height = o.code[p].height, !.reachable = TRUE]
      BY <2>2
    <3> QED BY <2>2, <3>1 DEF Frame
  <2> QED BY <2>1, <2>2
<1>3. i.op = o.code[p].op /\ i.height = o.code[p].height /\ i.arg = n + 1 /\ DOMAIN i = DOMAIN o.code[p]
  BY DEF Frame
<1>4. e = [agreed EXCEPT !.code = c2]
  <2>1. Here(o) = n + 1
    BY DEF Here
  <2>2. e = [agreed EXCEPT !.code[p].arg = Here(o)]
    BY DEF PatchJump
  <2> HIDE DEF agreed, e
  <2> QED BY <1>2, <2>1, <2>2
<1> HIDE DEF agreed, e, i
<1>5. n \in Nat /\ p \in 1..n /\ Len(c2) = n /\ c2[p] = i /\ (\A q \in 1..n : q # p => c2[q] = o.code[q])
      /\ IsSeq(c2)
  <2> DEFINE Y == X \cup {i}
  <2>1. o.code \in Seq(Y) /\ i \in Y
    BY <1>1, Widened
  <2> HIDE DEF Y
  <2>2. c2 \in Seq(Y) /\ Len(c2) = n /\ n \in Nat /\ c2[p] = i /\ \A q \in 1..n : q # p => c2[q] = o.code[q]
    BY <2>1
  <2> QED BY <2>2 DEF IsSeq
<1> HIDE DEF c2
<1>6. e.code = c2 /\ e.height = agreed.height /\ e.reachable = agreed.reachable /\ DOMAIN e = DOMAIN o
  BY <1>2, <1>4 DEF Frame
<1>7. \A q \in 1..n : {"op", "arg", "height"} \subseteq DOMAIN c2[q]
  BY <1>3, <1>5 DEF Frame, n
<1>8. Frame(e)
  <2>1. {"code", "height", "reachable", "ok"} \subseteq DOMAIN e
    BY <1>6 DEF Frame
  <2> QED BY <1>5, <1>6, <1>7, <2>1 DEF Frame
<1> QED BY <1>2, <1>3, <1>5, <1>6, <1>8 DEF e, n

LEMMA ExtendsTransitive ==
  ASSUME NEW L, NEW M, NEW N, Extends(L, M), Extends(M, N) PROVE Extends(L, N)
BY DEF Extends

(* One instruction more.                                                   *)
LEMMA NamedEmit ==
  ASSUME NEW o, Frame(o), NEW L, Named(o.code, L), NEW op, NEW arg, NEW X,
         Beneath(L[Here(o)], o.height),
         Flows(Instruction(op, arg, o.height), L[Here(o)], X),
         Turns(Instruction(op, arg, o.height), L, L[Here(o)])
  PROVE  LET e == Emit(o, op, arg)
         IN  \E M : Named(e.code, M) /\ Extends(L, M) /\ M[Here(e)] = X
<1> DEFINE e == Emit(o, op, arg)
           i == Instruction(op, arg, o.height)
           n == Len(o.code)
           one == 1
<1>1. /\ n \in Nat /\ Len(e.code) = n + one /\ \A q \in 1..n : e.code[q] = o.code[q]
      /\ e.code[n + one] = i
  BY EmitFrame, FrameLen
<1>2. i.height = o.height /\ Here(o) = n + 1
  BY DEF Instruction, Here
<1> HIDE DEF e, i
<1> DEFINE Y == L[n + 1]
<1>3. Fresh(i, L, Y, X)
  BY <1>2 DEF i, Fresh
<1>4. \A k \in 1..one : k = one /\ k = 1
  OBVIOUS
<1>5. one \in Nat /\ one # 0
  OBVIOUS
<1>6. \A k \in 1..one : Fresh(e.code[n + k], L, IF k = 1 THEN L[n + 1] ELSE X, X)
  <2> SUFFICES ASSUME NEW k \in 1..one PROVE Fresh(e.code[n + k], L, IF k = 1 THEN L[n + 1] ELSE X, X)
    OBVIOUS
  <2>1. k = one /\ k = 1
    BY <1>4
  <2>2. e.code[n + k] = i
    BY <1>1, <2>1
  <2> HIDE DEF n, one
  <2> QED BY <1>3, <2>1, <2>2
<1>7. n = Len(o.code)
  OBVIOUS
<1> HIDE DEF one, n, Y
<1>8. Grown(o.code, n, one, e.code, L, X)
  BY <1>1, <1>5, <1>6, <1>7 DEF Grown
<1>9. \E M : Named(e.code, M) /\ Extends(L, M) /\ M[Len(e.code) + 1] = X
  BY <1>1, <1>5, <1>8, NamedMore
<1> QED BY <1>9 DEF e, Here

(* An instruction that neither reads a variable nor names one, and goes    *)
(* nowhere yet.                                                            *)
Quiet(op, arg) == op \notin {NameOp, CloseOp} \cup Reads /\ (op \in Jumping => arg = 0)

LEMMA FlowsQuiet ==
  ASSUME NEW op, NEW arg, Quiet(op, arg), NEW h, NEW X, NEW Y, op \in Flowing => Y \subseteq X, NEW L
  PROVE  Flows(Instruction(op, arg, h), X, Y) /\ Turns(Instruction(op, arg, h), L, X)
<1> DEFINE i == Instruction(op, arg, h)
<1>1. i.op = op /\ i.arg = arg /\ i.height = h
  BY DEF Instruction
<1> HIDE DEF i
<1>2. Flows(i, X, Y)
  BY <1>1 DEF Flows, Quiet
<1>3. Turns(i, L, X)
  BY <1>1 DEF Turns, Quiet
<1> QED BY <1>2, <1>3 DEF i

LEMMA KnowsEmit ==
  ASSUME NEW o, Frame(o), NEW L, NEW locs, NEW d, Knows(L, o, locs, d),
         Beneath(Held(locs, d), o.height), NEW op, NEW arg, Quiet(op, arg)
  PROVE  \E M : Knows(M, Emit(o, op, arg), locs, d) /\ Extends(L, M)
<1> DEFINE X == Held(locs, d)
<1>1. Named(o.code, L) /\ L[Here(o)] = X /\ Ordered(locs)
  BY DEF Knows
<1> HIDE DEF X
<1>2. Flows(Instruction(op, arg, o.height), X, X) /\ Turns(Instruction(op, arg, o.height), L, X)
  BY FlowsQuiet
<1>3. \E M : Named(Emit(o, op, arg).code, M) /\ Extends(L, M) /\ M[Here(Emit(o, op, arg))] = X
  BY <1>1, <1>2, NamedEmit DEF X
<1> QED BY <1>1, <1>3 DEF Knows, X

LEMMA KnowsPatch ==
  ASSUME NEW o, Frame(o), NEW L, NEW locs, NEW d, Knows(L, o, locs, d),
         NEW p \in 1..Len(o.code), o.code[p].op \in Awaiting, Back(L, locs, p, d)
  PROVE  Knows(L, PatchJump(o, p), locs, d)
<1> DEFINE e == PatchJump(o, p)
           n == Len(o.code)
           c == o.code
           c2 == e.code
<1>1. /\ Len(c2) = n /\ \A q \in 1..n : q # p => c2[q] = c[q]
      /\ c2[p].op = c[p].op /\ c2[p].height = c[p].height /\ c2[p].arg = n + 1
  BY PatchFrame
<1>2. n \in Nat /\ Len(c) = n /\ Here(o) = n + 1 /\ p \in 1..n /\ c[p].op \in Awaiting
  BY FrameLen DEF Here
<1>3. Named(c, L) /\ L[Here(o)] = Held(locs, d) /\ Ordered(locs)
  BY DEF Knows
<1>4. Here(e) = n + 1
  BY <1>1 DEF Here
<1> HIDE DEF e, n, c, c2
<1>5. L[n + 1] \subseteq L[p]
  BY <1>2, <1>3 DEF Back
<1>6. Named(c2, L)
  <2> DEFINE ps == {p}
  <2>1. \A q \in 1..n : q \notin ps => c2[q] = c[q]
    BY <1>1
  <2>2. \A q \in 1..n : q \in ps =>
          /\ c[q].op \in Awaiting /\ L[n + 1] \subseteq L[q]
          /\ c2[q].op = c[q].op /\ c2[q].height = c[q].height /\ c2[q].arg = n + 1
    BY <1>1, <1>2, <1>5
  <2> HIDE DEF ps
  <2>3. Patched(c, n, c2, L, ps)
    BY <1>1, <1>2, <1>3, <2>1, <2>2 DEF Patched
  <2> QED BY <1>2, <2>3, NamedPatched
<1>7. L[Here(e)] = Held(locs, d)
  BY <1>2, <1>3, <1>4
<1> QED BY <1>3, <1>6, <1>7 DEF Knows, c2, e

LEMMA KnownBeneath ==
  ASSUME KnownOf(out), NEW L, Knows(L, out, locals, depth)
  PROVE  Beneath(Held(locals, depth), out.height) /\ Frame(out)
<1>1. Low(locals, out.height) /\ CodeOK(out)
  BY DEF KnownOf, Known
<1>2. \A i \in 1..Len(locals) : locals[i].slot \in Nat
  BY DEF Knows, Ordered
<1> QED BY <1>1, <1>2, HeldBeneath, FrameOf

(* What is behind a jump is beneath the height there.                      *)
LEMMA BackBeneath ==
  ASSUME NEW o, NEW L, Named(o.code, L), NEW locs, NEW p \in 1..Len(o.code), NEW v, Back(L, locs, p, v)
  PROVE  Beneath(Held(locs, v), o.code[p].height)
BY DEF Named, Back, Beneath

(* A step that emits code over what is left.                               *)
LEMMA RememberCode ==
  ASSUME KnownOf(out), NEW L, NEW M, Knows(M, out', locals, depth), Extends(L, M), depth \in Nat,
         NEW t, Memory(L, t, depth), todo' = t, UNCHANGED <<locals, depth, loops>>
  PROVE  Remembering'
<1> DEFINE e == out'
           n == Len(loops)
<1>1. depth \in Int /\ depth <= depth
  OBVIOUS
<1>2. Recalled(M, loops, locals, t, depth, depth, n)
  BY <1>1, RecallsMore DEF Memory
<1>3. Knows(M, e, locals, depth) /\ out' = e
  OBVIOUS
<1> HIDE DEF e
<1> QED BY <1>1, <1>2, <1>3, Remembered DEF n

LEMMA RememberEmit ==
  ASSUME KnownOf(out), NEW L, Knows(L, out, locals, depth), depth \in Nat,
         NEW t, Memory(L, t, depth), todo' = t, UNCHANGED <<locals, depth, loops>>,
         NEW op, NEW arg, Quiet(op, arg), out'.code = Emit(out, op, arg).code
  PROVE  Remembering'
<1> DEFINE e == Emit(out, op, arg)
<1>1. PICK M : Knows(M, e, locals, depth) /\ Extends(L, M)
  BY KnownBeneath, KnowsEmit
<1>2. e.code = out'.code /\ Here(e) = Here(out')
  BY DEF Here
<1> HIDE DEF e
<1>3. Knows(M, out', locals, depth)
  BY <1>1, <1>2 DEF Knows
<1> QED BY <1>1, <1>3, RememberCode

LEMMA RememberLiteral == ASSUME NowWorking, Remembering, Literal PROVE Remembering'
<1> DEFINE t == Tail(todo)
           op == "constant"
<1>1. IsSeq(t) /\ depth \in Nat /\ KnownOf(out)
  BY Heading DEF Literal
<1>2. PICK L : Knows(L, out, locals, depth) /\ Memory(L, t, depth)
  BY Heading DEF Literal
<1>3. todo' = << >> \o t /\ UNCHANGED <<locals, depth, loops>> /\ out' = Emit(out, op, 0)
  BY DEF Literal, Do
<1>4. Quiet(op, 0)
  BY DEF Quiet, NameOp, CloseOp, Reads, Jumping, Awaiting
<1> HIDE DEF t, op
<1>5. todo' = t
  BY <1>1, <1>3, Items0
<1> QED BY <1>1, <1>2, <1>3, <1>4, <1>5, RememberEmit

LEMMA RememberEmitOperator == ASSUME NowWorking, Remembering, EmitOperator PROVE Remembering'
<1> DEFINE t == Tail(todo)
           op == todo[1].op
<1>1. IsSeq(t) /\ depth \in Nat /\ KnownOf(out) /\ Head(todo) = todo[1] /\ todo[1].do = "emit"
  BY Heading DEF EmitOperator
<1>2. PICK L : Knows(L, out, locals, depth) /\ Memory(L, t, depth)
  BY Heading DEF EmitOperator
<1>3. todo' = << >> \o t /\ UNCHANGED <<locals, depth, loops>> /\ out' = Emit(out, op, 0)
  BY <1>1 DEF EmitOperator, Do
<1>4. Quiet(op, 0)
  <2>1. \E P, Q : Link(out, loops, locals, todo[1], P, Q)
    <3>1. todo # << >>
      BY DEF EmitOperator, Doing
    <3> QED BY <3>1, Begin DEF NowWorking, Behind
  <2>2. op \in {"pop", "add", "constant"}
    BY <1>1, <2>1 DEF Link, LinkExpr
  <2> HIDE DEF op
  <2> QED BY <2>2 DEF Quiet, NameOp, CloseOp, Reads, Jumping, Awaiting
<1> HIDE DEF t, op
<1>5. todo' = t
  BY <1>1, <1>3, Items0
<1> QED BY <1>1, <1>2, <1>3, <1>4, <1>5, RememberEmit

LEMMA RememberFinishReturn == ASSUME NowWorking, Remembering, FinishReturn PROVE Remembering'
<1> DEFINE t == Tail(todo)
           op == "return"
           e == Emit(out, op, 0)
<1>1. IsSeq(t) /\ depth \in Nat /\ KnownOf(out)
  BY Heading DEF FinishReturn
<1>2. PICK L : Knows(L, out, locals, depth) /\ Memory(L, t, depth)
  BY Heading DEF FinishReturn
<1>3. todo' = << >> \o t /\ UNCHANGED <<locals, depth, loops>>
      /\ out' = [e EXCEPT !.height = Head(todo).height]
  BY DEF FinishReturn, Do
<1>4. Quiet(op, 0)
  BY DEF Quiet, NameOp, CloseOp, Reads, Jumping, Awaiting
<1>5. out'.code = e.code
  <2>1. Frame(e)
    BY <1>1, <1>2, KnownBeneath, EmitFrame
  <2> HIDE DEF e
  <2> QED BY <1>3, <2>1 DEF Frame
<1> HIDE DEF t, op
<1>6. todo' = t
  BY <1>1, <1>3, Items0
<1> QED BY <1>1, <1>2, <1>3, <1>4, <1>5, <1>6, RememberEmit DEF e

(* emitJump on the condition and the pop of it.                            *)
LEMMA KnowsTest ==
  ASSUME NEW o, Frame(o), o.height \in Nat, NEW L, NEW locs, NEW d, Knows(L, o, locs, d),
         Beneath(Held(locs, d), o.height)
  PROVE  \E M : /\ Knows(M, EmitTest(o), locs, d) /\ Extends(L, M)
                /\ Back(M, locs, Here(o), d) /\ Forth(M, locs, Here(EmitTest(o)), d)
<1> DEFINE pop == "pop"
           z == 0
           m == Emit(o, JumpOp, z)
           e == Emit(m, pop, z)
<1>1. Quiet(JumpOp, z) /\ Quiet(pop, z)
  BY DEF Quiet, JumpOp, NameOp, CloseOp, Reads, Jumping, Awaiting
<1>2. EmitTest(o) = e
  BY DEF EmitTest, JumpOp
<1>3. Effect(JumpOp, z) = 0
  BY JumpOps
<1> HIDE DEF pop, z
<1>4. Frame(m) /\ Frame(e) /\ m.height = o.height
  <2>1. Frame(m) /\ m.height = o.height + Effect(JumpOp, z)
    BY EmitFrame
  <2> HIDE DEF m
  <2>2. m.height = o.height
    BY <1>3, <2>1
  <2> QED BY <2>1, <2>2, EmitFrame
<1>5. PICK M : Knows(M, m, locs, d) /\ Extends(L, M)
  BY <1>1, KnowsEmit
<1> HIDE DEF m
<1>6. PICK N : Knows(N, e, locs, d) /\ Extends(M, N)
  BY <1>1, <1>4, <1>5, KnowsEmit
<1> HIDE DEF e
<1>7. Extends(L, N)
  BY <1>5, <1>6, ExtendsTransitive
<1>8. Back(N, locs, Here(o), d)
  <2>1. Here(o) \in DOMAIN L /\ L[Here(o)] = Held(locs, d)
    BY FrameLen, KnowsHere DEF Knows
  <2> QED BY <1>7, <2>1 DEF Extends, Back
<1>9. Forth(N, locs, Here(e), d)
  BY <1>4, <1>6, FrameLen, KnowsHere
<1> QED BY <1>2, <1>6, <1>7, <1>8, <1>9

LEMMA RecollectsBack ==
  ASSUME NEW L, NEW ls, NEW locs, NEW t, NEW d, NEW b \in Int, b <= d, NEW l,
         Recalled(L, ls, locs, t, d, b, l), NEW p, Back(L, locs, p, d), NEW other
  PROVE  /\ Recalled(L, ls, locs, Cons([do |-> "patch", p |-> p], t), d, d, l)
         /\ Recalled(L, ls, locs, Cons([do |-> "else", p |-> p, other |-> other], t), d, d, l)
<1> DEFINE x == [do |-> "patch", p |-> p]
           y == [do |-> "else", p |-> p, other |-> other]
<1>1. d \in Int /\ l \in Int
  BY RecalledInt
<1>2. /\ ~ Declares(x) /\ ~ EndsScope(x) /\ ~ EndsLoopItem(x)
      /\ ~ Declares(y) /\ ~ EndsScope(y) /\ ~ EndsLoopItem(y)
  BY DEF Declares, EndsScope, EndsLoopItem
<1>3. Recall(L, ls, locs, x, d, d, l, l) /\ Recall(L, ls, locs, y, d, d, l, l)
  BY <1>2 DEF Recall
<1> HIDE DEF x, y
<1>4. d <= d
  BY <1>1
<1>5. Recalled(L, ls, locs, Cons(x, t), d, d, l)
  BY <1>1, <1>2, <1>3, <1>4, RecalledCons
<1>6. Recalled(L, ls, locs, Cons(y, t), d, d, l)
  BY <1>1, <1>2, <1>3, <1>4, RecalledCons
<1> QED BY <1>5, <1>6 DEF x, y

LEMMA RememberAndRight == ASSUME NowWorking, Remembering, AndRight PROVE Remembering'
<1> DEFINE t == Tail(todo)
           e == EmitTest(out)
           x == [do |-> "patch", p |-> Here(out)]
           t1 == Cons(x, t)
           t2 == Cons(Expr, t1)
           n == Len(loops)
<1>1. IsSeq(t) /\ depth \in Nat /\ KnownOf(out)
  BY Heading DEF AndRight
<1>2. PICK L : Knows(L, out, locals, depth) /\ Memory(L, t, depth)
  BY Heading DEF AndRight
<1>3. Frame(out) /\ Beneath(Held(locals, depth), out.height) /\ out.height \in Nat
  BY <1>1, <1>2, KnownBeneath, FrameOf DEF KnownOf, Known
<1>4. PICK M : Knows(M, e, locals, depth) /\ Extends(L, M) /\ Back(M, locals, Here(out), depth)
  BY <1>2, <1>3, KnowsTest
<1>5. todo' = <<Expr, x>> \o t
  BY DEF AndRight, Do
<1>6. depth \in Int /\ depth <= depth
  BY <1>1
<1> HIDE DEF t
<1>7. Recalled(M, loops, locals, t, depth, depth, n)
  BY <1>2, <1>4, <1>6, RecallsMore DEF Memory
<1>8. Recalled(M, loops, locals, t1, depth, depth, n)
  BY <1>4, <1>6, <1>7, RecollectsBack
<1> HIDE DEF x
<1>9. todo' = t2
  BY <1>1, <1>5, Items2
<1> HIDE DEF t1, n
<1>10. Recalled(M, loops, locals, t2, depth, depth, n)
  <2>1. Forgets(Expr)
    BY DEF Forgets, Expr
  <2> QED BY <1>6, <1>8, <2>1, Recollects
<1> HIDE DEF t2
<1>11. out' = e /\ UNCHANGED <<locals, depth, loops>>
  BY DEF AndRight
<1> HIDE DEF e
<1> QED BY <1>4, <1>6, <1>9, <1>10, <1>11, Remembered DEF n

LEMMA RememberThen == ASSUME NowWorking, Remembering, Then PROVE Remembering'
<1> DEFINE t == Tail(todo)
           e == EmitTest(out)
           it == todo[1]
           x == [do |-> "else", p |-> Here(out), other |-> it.other]
           t1 == Cons(x, t)
           n == Len(loops)
           v == Op("constant")
           j == [do |-> "jump"]
<1>1. IsSeq(t) /\ depth \in Nat /\ KnownOf(out) /\ Head(todo) = it /\ it.do = "then"
  BY Heading DEF Then
<1>2. PICK L : Knows(L, out, locals, depth) /\ Memory(L, t, depth)
  BY Heading DEF Then
<1>3. Frame(out) /\ Beneath(Held(locals, depth), out.height) /\ out.height \in Nat
  BY <1>1, <1>2, KnownBeneath, FrameOf DEF KnownOf, Known
<1>4. PICK M : Knows(M, e, locals, depth) /\ Extends(L, M) /\ Back(M, locals, Here(out), depth)
  BY <1>2, <1>3, KnowsTest
<1>5. todo' = (it.branch \o <<x>>) \o t
  BY <1>1 DEF Then, Do
<1>6. it.branch \in {<<Stmt>>, <<Expr>>, <<j, v>>}
  <2>1. \E P, Q : Link(out, loops, locals, todo[1], P, Q)
    <3>1. todo # << >>
      BY DEF Then, Doing
    <3> QED BY <3>1, Begin DEF NowWorking, Behind
  <2> QED BY <1>1, <2>1 DEF Link, LinkIf
<1>7. depth \in Int /\ depth <= depth
  BY <1>1
<1>8. Forgets(Expr) /\ Forgets(Stmt) /\ Forgets(j) /\ Forgets(v)
  BY DEF Forgets, Expr, Stmt, Op
<1> HIDE DEF t, it, j, v
<1>9. Recalled(M, loops, locals, t, depth, depth, n)
  BY <1>2, <1>4, <1>7, RecallsMore DEF Memory
<1>10. Recalled(M, loops, locals, t1, depth, depth, n)
  BY <1>4, <1>7, <1>9, RecollectsBack
<1> HIDE DEF x, n
<1>11. Recalled(M, loops, locals, todo', depth, depth, n)
  <2>1. CASE it.branch = <<j, v>>
    <3>1. todo' = Cons(j, Cons(v, t1))
      BY <1>1, <1>5, <2>1, Items21
    <3> HIDE DEF t1
    <3> QED BY <1>7, <1>8, <1>10, <3>1, Recollects
  <2>2. ASSUME NEW a, it.branch = <<a>>, Forgets(a) PROVE Recalled(M, loops, locals, todo', depth, depth, n)
    <3>1. todo' = Cons(a, t1)
      BY <1>1, <1>5, <2>2, Items11
    <3> HIDE DEF t1
    <3> QED BY <1>7, <1>10, <2>2, <3>1, Recollects
  <2> QED BY <1>6, <1>8, <2>1, <2>2
<1>12. out' = e /\ UNCHANGED <<locals, depth, loops>>
  BY DEF Then
<1> DEFINE u == todo'
<1>13. Recalled(M, loops, locals, u, depth, depth, n) /\ todo' = u
  BY <1>11
<1> HIDE DEF e, u
<1> QED BY <1>4, <1>7, <1>12, <1>13, Remembered DEF n

LEMMA RememberPatch == ASSUME NowWorking, Remembering, Patch PROVE Remembering'
<1> DEFINE t == Tail(todo)
           it == todo[1]
           e == PatchJump(out, it.p)
           n == Len(loops)
<1>1. IsSeq(t) /\ depth \in Nat /\ KnownOf(out) /\ Head(todo) = it /\ it.do = "patch"
  BY Heading DEF Patch
<1>2. PICK L : /\ Knows(L, out, locals, depth) /\ Memory(L, t, depth)
               /\ Recall(L, loops, locals, it, depth, depth, n, n)
  BY Heading DEF Patch
<1>3. Back(L, locals, it.p, depth)
  BY <1>1, <1>2 DEF Recall
<1>4. it.p \in 1..Len(out.code) /\ out.code[it.p].op \in Awaiting
  <2>1. \E P, Q : Link(out, loops, locals, todo[1], P, Q)
    <3>1. todo # << >>
      BY DEF Patch, Doing
    <3> QED BY <3>1, Begin DEF NowWorking, Behind
  <2> QED BY <1>1, <2>1 DEF Link, LinkIf, Patchable
<1>5. Frame(out)
  BY <1>1, <1>2, KnownBeneath
<1>6. Knows(L, e, locals, depth)
  BY <1>2, <1>3, <1>4, <1>5, KnowsPatch
<1>7. todo' = << >> \o t /\ out' = e /\ UNCHANGED <<locals, depth, loops>>
  BY <1>1 DEF Patch, Do
<1> HIDE DEF t, e
<1>8. todo' = t
  BY <1>1, <1>7, Items0
<1>9. depth \in Int /\ depth <= depth
  BY <1>1
<1> QED BY <1>2, <1>6, <1>7, <1>8, <1>9, Remembered DEF Memory

(* A jump, behind which one that was emitted before is made to land.       *)
LEMMA KnowsAcross ==
  ASSUME NEW o, Frame(o), NEW L, NEW locs, NEW d, Knows(L, o, locs, d),
         Beneath(Held(locs, d), o.height), NEW op \in {"jump", "loop"}, NEW arg,
         Turns(Instruction(op, arg, o.height), L, Held(locs, d)),
         NEW p \in 1..Len(o.code), o.code[p].op \in Awaiting, Back(L, locs, p, d)
  PROVE  LET m == PatchJump(Emit(o, op, arg), p)
         IN  /\ Frame(m) /\ m.reachable /\ m.height = o.code[p].height /\ Beneath(Held(locs, d), m.height)
             /\ \E M : /\ Knows(M, m, locs, d) /\ Extends(L, M)
                       /\ Back(M, locs, Here(o), d) /\ Forth(M, locs, Here(m), d)
<1> DEFINE X == Held(locs, d)
           n == Len(o.code)
           i == Instruction(op, arg, o.height)
           j == Emit(o, op, arg)
           m == PatchJump(j, p)
<1>1. Named(o.code, L) /\ L[Here(o)] = X /\ Ordered(locs)
  BY DEF Knows
<1>2. n \in Nat
  BY FrameLen
<1>3. Here(o) \in DOMAIN L
  BY <1>2, KnowsHere
<1>4. Flows(i, X, X)
  <2>1. i.op = op
    BY DEF Instruction
  <2>2. op \notin Flowing /\ op # NameOp /\ op # CloseOp /\ op \notin Reads
    BY DEF Flowing, NameOp, CloseOp, Reads
  <2> HIDE DEF i
  <2> QED BY <2>1, <2>2 DEF Flows
<1>5. /\ Frame(j) /\ Len(j.code) = n + 1 /\ ~ j.reachable
      /\ \A q \in 1..n : j.code[q] = o.code[q]
  BY EmitFrame
<1>6. PICK M : Named(j.code, M) /\ Extends(L, M) /\ M[Here(j)] = X
  <2> HIDE DEF X, j
  <2> QED BY <1>1, <1>4, NamedEmit DEF X, j
<1> HIDE DEF j
<1>7. Knows(M, j, locs, d)
  BY <1>1, <1>6 DEF Knows
<1>8. Back(M, locs, p, d) /\ Back(M, locs, Here(o), d)
  <2>1. L[p] = M[p] /\ p \in DOMAIN M
    BY <1>6 DEF Back, Extends
  <2>2. Here(o) \in DOMAIN M /\ M[Here(o)] = X
    BY <1>1, <1>3, <1>6 DEF Extends
  <2> QED BY <2>1, <2>2 DEF Back
<1>9. p \in 1..Len(j.code) /\ j.code[p].op \in Awaiting /\ j.code[p].height = o.code[p].height
  BY <1>2, <1>5
<1>10. Knows(M, m, locs, d)
  BY <1>5, <1>7, <1>8, <1>9, KnowsPatch
<1>11. Frame(m) /\ m.reachable /\ m.height = o.code[p].height
  BY <1>5, <1>9, PatchFrame
<1>12. Beneath(X, m.height)
  BY <1>1, <1>11, BackBeneath
<1> HIDE DEF m
<1>13. Forth(M, locs, Here(m), d)
  BY <1>10, <1>11, FrameLen, KnowsHere
<1> QED BY <1>6, <1>8, <1>10, <1>11, <1>12, <1>13 DEF m, j

LEMMA RememberElse == ASSUME NowWorking, Remembering, Else PROVE Remembering'
<1> DEFINE t == Tail(todo)
           it == todo[1]
           n == Len(loops)
           p == Here(out)
           x == [do |-> "patch", p |-> p]
           t1 == Cons(x, t)
           t2 == Cons(Expr, t1)
           t3 == Cons(Stmt, t1)
           jump == "jump"
           pop == "pop"
           z == 0
           m == PatchJump(Emit(out, jump, z), it.p)
           e == Emit(m, pop, z)
<1>1. IsSeq(t) /\ depth \in Nat /\ KnownOf(out) /\ Head(todo) = it /\ it.do = "else"
  BY Heading DEF Else
<1>2. PICK L : /\ Knows(L, out, locals, depth) /\ Memory(L, t, depth)
               /\ Recall(L, loops, locals, it, depth, depth, n, n)
  BY Heading DEF Else
<1>3. Back(L, locals, it.p, depth)
  BY <1>1, <1>2 DEF Recall
<1>4. /\ it.p \in 1..Len(out.code) /\ out.code[it.p].op \in Awaiting
      /\ it.other = << >> \/ it.other = <<Expr>> \/ it.other = <<Stmt>>
  <2>1. \E P, Q : Link(out, loops, locals, todo[1], P, Q)
    <3>1. todo # << >>
      BY DEF Else, Doing
    <3> QED BY <3>1, Begin DEF NowWorking, Behind
  <2> QED BY <1>1, <2>1 DEF Link, LinkIf, Patchable
<1>5. Frame(out) /\ Beneath(Held(locals, depth), out.height)
  BY <1>1, <1>2, KnownBeneath
<1>6. todo' = (it.other \o <<x>>) \o t /\ out' = e /\ UNCHANGED <<locals, depth, loops>>
  BY <1>1 DEF Else, Do
<1>7. jump \in {"jump", "loop"} /\ \A i : i.arg = z => Turns(i, L, Held(locals, depth))
  BY DEF Turns
<1>8. Quiet(pop, z)
  BY DEF Quiet, NameOp, CloseOp, Reads, Jumping, Awaiting
<1> HIDE DEF t, it, jump, pop, z
<1>9. Turns(Instruction(jump, z, out.height), L, Held(locals, depth))
  BY <1>7 DEF Instruction
<1>10. /\ Frame(m) /\ Beneath(Held(locals, depth), m.height)
       /\ \E M : Knows(M, m, locals, depth) /\ Extends(L, M) /\ Back(M, locals, p, depth)
  BY <1>2, <1>3, <1>4, <1>5, <1>7, <1>9, KnowsAcross
<1>11. PICK M : Knows(M, m, locals, depth) /\ Extends(L, M) /\ Back(M, locals, p, depth)
  BY <1>10
<1> HIDE DEF m
<1>12. PICK N : Knows(N, e, locals, depth) /\ Extends(M, N)
  BY <1>8, <1>10, <1>11, KnowsEmit
<1> HIDE DEF e
<1>13. Extends(L, N) /\ Back(N, locals, p, depth)
  <2>1. Extends(L, N)
    BY <1>11, <1>12, ExtendsTransitive
  <2>2. Back(N, locals, p, depth)
    BY <1>11, <1>12 DEF Back, Extends
  <2> QED BY <2>1, <2>2
<1>14. depth \in Int /\ depth <= depth
  BY <1>1
<1> HIDE DEF p
<1>15. Recalled(N, loops, locals, t, depth, depth, n)
  BY <1>2, <1>13, <1>14, RecallsMore DEF Memory
<1>16. Recalled(N, loops, locals, t1, depth, depth, n)
  BY <1>13, <1>14, <1>15, RecollectsBack
<1>17. Forgets(Expr) /\ Forgets(Stmt)
  BY DEF Forgets, Expr, Stmt
<1> HIDE DEF x
<1>18. todo' = t1 \/ todo' = t2 \/ todo' = t3
  <2>1. CASE it.other = << >>
    BY <1>1, <1>6, <2>1, Items01
  <2>2. CASE it.other = <<Expr>>
    BY <1>1, <1>6, <2>2, Items11
  <2>3. CASE it.other = <<Stmt>>
    BY <1>1, <1>6, <2>3, Items11
  <2> QED BY <1>4, <2>1, <2>2, <2>3
<1> HIDE DEF t1, n
<1>19. Recalled(N, loops, locals, t2, depth, depth, n)
  BY <1>14, <1>16, <1>17, Recollects
<1>20. Recalled(N, loops, locals, t3, depth, depth, n)
  BY <1>14, <1>16, <1>17, Recollects
<1> HIDE DEF t2, t3
<1> QED BY <1>6, <1>12, <1>14, <1>16, <1>18, <1>19, <1>20, Remembered DEF n

(* An item at the head of a loop, and what is recalled behind it.          *)
Outer(it) == IF EndsScope(it) THEN depth - 1 ELSE depth

LEMMA HeadPasses ==
  ASSUME NowWorking, Remembering, todo # << >>, ~ EndsLoopItem(todo[1])
  PROVE  /\ KnownOf(out) /\ IsSeq(Tail(todo)) /\ Head(todo) = todo[1]
         /\ depth \in Nat /\ Len(loops) \in Nat /\ Outer(todo[1]) \in Int /\ Outer(todo[1]) <= depth
         /\ \E L : /\ Knows(L, out, locals, depth)
                   /\ Recall(L, loops, locals, todo[1], depth, Outer(todo[1]), Len(loops), Len(loops))
                   /\ Recalled(L, loops, locals, Tail(todo), Outer(todo[1]), depth, Len(loops))
<1>1. KnownOf(out) /\ Head(todo) = todo[1] /\ IsSeq(Tail(todo))
  <2>1. Known(out, loops, locals, depth) /\ Head(todo) = todo[1]
        /\ \E Q \in Places : Behind(out, loops, locals, depth, todo[1], Tail(todo), Q)
    BY Begin DEF NowWorking
  <2> QED BY <2>1 DEF KnownOf, Behind
<1>2. depth \in Nat /\ Len(loops) \in Nat
  BY <1>1 DEF KnownOf, Known
<1>3. PICK L : Knows(L, out, locals, depth) /\ Recalled(L, loops, locals, todo, depth, depth, Len(loops))
  BY DEF Remembering
<1>4. PICK w \in Int, m \in Int :
        /\ Recall(L, loops, locals, todo[1], depth, w, Len(loops), m)
        /\ w <= depth /\ Recalled(L, loops, locals, Tail(todo), w, depth, m)
  BY <1>3, RecalledTail
<1>5. w = Outer(todo[1]) /\ m = Len(loops)
  BY <1>4 DEF Recall, Outer
<1> QED BY <1>1, <1>2, <1>3, <1>4, <1>5

(* The body of a loop and what ends it.                                    *)
LEMMA RememberBody ==
  ASSUME KnownOf(out), depth \in Nat, NEW e, NEW M, Knows(M, e, locals, depth),
         NEW scope \in BOOLEAN, NEW w \in Int, w = (IF scope THEN depth - 1 ELSE depth),
         NEW t, Recalled(M, loops, locals, t, w, depth, Len(loops)),
         NEW target \in Int, BeginLoop(w, target), Forth(M, locals, target, depth),
         NEW start, Forth(M, locals, start, depth), NEW p, Back(M, locals, p, depth),
         NEW u, u = Cons(Stmt, Cons(EndItem(start, p, scope), t)), todo' = u, out' = e,
         UNCHANGED <<locals, depth>>
  PROVE  Remembering'
<1> DEFINE n == Len(loops)
           ls == loops'
           it == EndItem(start, p, scope)
           t1 == Cons(it, t)
<1>1. n \in Nat
  BY DEF KnownOf, Known
<1>2. /\ Len(ls) = n + 1 /\ \A k \in 1..n : ls[k] = loops[k]
      /\ ls[n + 1].scopeDepth = w /\ ls[n + 1].continueDepth = depth
      /\ ls[n + 1].continueTarget = target /\ ls[n + 1].breaks = {}
  BY LoopAdded
<1>3. /\ it.do = "end loop" /\ it.start = start /\ it.p = p /\ it.scope = scope
  BY DEF EndItem
<1> HIDE DEF it, ls
<1> DEFINE l == n + 1
<1>4. l \in Int /\ l >= 1 /\ l - 1 = n /\ n \in Int
  BY <1>1
<1>5. LoopRecalls(M, locals, ls[l], depth, w)
  BY <1>2 DEF LoopRecalls
<1>6. ~ Declares(it) /\ EndsLoopItem(it) /\ (EndsScope(it) <=> scope = TRUE)
  BY <1>3 DEF Declares, EndsLoopItem, EndsScope
<1>7. Recall(M, ls, locals, it, depth, w, l, n)
  <2>1. w = IF EndsScope(it) THEN depth - 1 ELSE depth
    BY <1>6
  <2>2. n = IF EndsLoopItem(it) THEN l - 1 ELSE l
    BY <1>4, <1>6
  <2>3. it.do \notin {"else", "patch"} /\ it.do \notin {"while", "for exit"} /\ it.do # "for increment"
    BY <1>3
  <2> HIDE DEF l
  <2> QED BY <1>3, <1>4, <1>5, <2>1, <2>2, <2>3 DEF Recall
<1>8. Recalled(M, ls, locals, t, w, depth, n)
  <2>1. \A k \in Int : k >= 1 /\ k <= n => ls[k] = loops[k]
    BY <1>1, <1>2
  <2>2. depth \in Int
    OBVIOUS
  <2> HIDE DEF n
  <2> QED BY <2>1, <2>2, RecallsLoops DEF n
<1>9. depth \in Int /\ depth <= depth
  OBVIOUS
<1> HIDE DEF l
<1>10. Recalled(M, ls, locals, t1, depth, depth, l)
  BY <1>4, <1>6, <1>7, <1>8, <1>9, RecalledCons
<1>11. Forgets(Stmt)
  BY DEF Forgets, Stmt
<1>12. u = Cons(Stmt, t1)
  BY DEF it
<1> HIDE DEF t1
<1>13. Recalled(M, ls, locals, u, depth, depth, l)
  BY <1>9, <1>10, <1>11, <1>12, Recollects
<1>14. Len(ls) = l /\ loops' = ls
  BY <1>2 DEF l, ls
<1> QED BY <1>9, <1>13, <1>14, Remembered

LEMMA RememberWhileBody == ASSUME NowWorking, Remembering, WhileBody PROVE Remembering'
<1> DEFINE t == Tail(todo)
           it == todo[1]
           n == Len(loops)
           e == EmitTest(out)
           p == Here(out)
           a == EndItem(it.start, p, FALSE)
           u == Cons(Stmt, Cons(a, t))
<1>1. IsSeq(t) /\ depth \in Nat /\ KnownOf(out) /\ Head(todo) = it /\ it.do = "while"
  BY Heading DEF WhileBody
<1>2. PICK L : /\ Knows(L, out, locals, depth) /\ Memory(L, t, depth)
               /\ Recall(L, loops, locals, it, depth, depth, n, n)
  BY Heading DEF WhileBody
<1>3. Forth(L, locals, it.start, depth)
  BY <1>1, <1>2 DEF Recall
<1>4. Frame(out) /\ Beneath(Held(locals, depth), out.height) /\ out.height \in Nat
  BY <1>1, <1>2, KnownBeneath, FrameOf DEF KnownOf, Known
<1>5. PICK M : Knows(M, e, locals, depth) /\ Extends(L, M) /\ Back(M, locals, p, depth)
  BY <1>2, <1>4, KnowsTest
<1>6. /\ todo' = <<Stmt, a>> \o t /\ out' = e /\ UNCHANGED <<locals, depth>>
      /\ BeginLoop(depth, it.start)
  BY <1>1 DEF WhileBody, Do, EndItem
<1>7. it.start \in Int
  <2>1. DOMAIN L = 1..Len(out.code) + 1
    BY <1>2 DEF Knows, Named
  <2> QED BY <1>3, <2>1 DEF Forth
<1> HIDE DEF t, it, e, p
<1>8. todo' = u
  BY <1>1, <1>6, Items2
<1>9. Forth(M, locals, it.start, depth)
  BY <1>3, <1>5 DEF Forth, Extends
<1>10. depth \in Int
  BY <1>1
<1>11. Recalled(M, loops, locals, t, depth, depth, n)
  BY <1>2, <1>5, <1>10, RecallsMore DEF Memory
<1> DEFINE scope == FALSE
<1>12. scope \in BOOLEAN /\ depth = (IF scope THEN depth - 1 ELSE depth) /\ u = Cons(Stmt, Cons(EndItem(it.start, p, scope), t))
  OBVIOUS
<1> HIDE DEF scope, u, a
<1> QED BY <1>1, <1>5, <1>6, <1>7, <1>8, <1>9, <1>10, <1>11, <1>12, RememberBody DEF n

(* What a for loop is compiled within.                                     *)
LEMMA ForScope ==
  ASSUME NowWorking, todo # << >>, todo[1].do \in {"for exit", "for increment"}
  PROVE  LET scope == todo[1].scope
         IN  /\ scope \in BOOLEAN /\ Outer(todo[1]) = OuterDepth(scope)
             /\ Outer(todo[1]) = (IF scope THEN depth - 1 ELSE depth)
             /\ Outer(todo[1]) = Inside(scope, depth)
<1> DEFINE scope == todo[1].scope
<1>1. scope \in BOOLEAN
  <2>1. \E P, Q : Link(out, loops, locals, todo[1], P, Q)
    BY Begin DEF NowWorking, Behind
  <2>2. PICK P, Q : LinkLoop(out, loops, locals, todo[1], P, Q)
    BY <2>1 DEF Link
  <2>3. EndsFor(todo[1].scope, P, Q, -1)
    <3>1. todo[1].do = "for exit" => EndsFor(todo[1].scope, P, Q, -1)
      BY <2>2 DEF LinkLoop
    <3>2. todo[1].do = "for increment" => EndsFor(todo[1].scope, P, Q, -1)
      BY <2>2 DEF LinkLoop
    <3> QED BY <3>1, <3>2
  <2> QED BY <2>3 DEF EndsFor, ClosesFor
<1>2. EndsScope(todo[1]) <=> scope = TRUE
  BY DEF EndsScope
<1>3. CASE scope = TRUE
  <2>1. Outer(todo[1]) = depth - 1
    BY <1>2, <1>3 DEF Outer
  <2> QED BY <1>3, <2>1 DEF OuterDepth, Inside
<1>4. CASE scope = FALSE
  <2>1. Outer(todo[1]) = depth
    BY <1>2, <1>4 DEF Outer
  <2> QED BY <1>4, <2>1 DEF OuterDepth, Inside
<1> QED BY <1>1, <1>3, <1>4

LEMMA RememberForCondition == ASSUME NowWorking, Remembering, ForCondition PROVE Remembering'
<1> DEFINE t == Tail(todo)
           it == todo[1]
           n == Len(loops)
           start == Here(out)
           x == ExitItem(start, it.scope)
           t1 == Cons(x, t)
           t2 == Cons(Expr, t1)
           w == Outer(it)
<1>1. todo # << >> /\ it.do = "for"
  BY Begin DEF ForCondition, Doing, NowWorking
<1>2. ~ EndsLoopItem(it) /\ w = Inside(it.scope, depth)
  BY <1>1 DEF EndsLoopItem, EndsScope, Outer, Inside
<1>3. IsSeq(t) /\ depth \in Nat /\ KnownOf(out) /\ Head(todo) = it
  BY <1>1, <1>2, HeadPasses
<1>4. PICK L : Knows(L, out, locals, depth) /\ Recalled(L, loops, locals, t, w, depth, n)
  BY <1>1, <1>2, HeadPasses
<1>5. todo' = <<Expr, x>> \o t /\ UNCHANGED <<out, locals, depth, loops>>
  BY <1>3 DEF ForCondition, Do, ExitItem
<1>6. Forth(L, locals, start, depth)
  BY <1>3, <1>4, CodeLen, KnowsHere
<1>7. depth \in Int /\ depth <= depth /\ w \in Int
  BY <1>1, <1>2, <1>3, HeadPasses
<1> HIDE DEF t, it, start, w, n
<1>8. Recalled(L, loops, locals, t1, depth, depth, n)
  BY <1>2, <1>4, <1>6, <1>7, RecollectsExit
<1> HIDE DEF x
<1>9. todo' = t2
  BY <1>3, <1>5, Items2
<1>10. Forgets(Expr)
  BY DEF Forgets, Expr
<1> HIDE DEF t1
<1>11. Recalled(L, loops, locals, t2, depth, depth, n)
  BY <1>7, <1>8, <1>10, Recollects
<1> HIDE DEF t2
<1> QED BY <1>4, <1>5, <1>7, <1>9, <1>11, Remembered DEF n

LEMMA TestFrame ==
  ASSUME NEW o, Frame(o), o.height \in Nat
  PROVE  Frame(EmitTest(o)) /\ EmitTest(o).height = o.height - 1
<1> DEFINE z == 0
           pop == "pop"
           m == Emit(o, JumpOp, z)
           e == Emit(m, pop, z)
<1>1. EmitTest(o) = e
  BY DEF EmitTest, JumpOp
<1>2. Effect(JumpOp, z) = 0
  BY JumpOps
<1>3. Effect(pop, z) = -1
  BY DEF Effect
<1> HIDE DEF z, pop
<1>4. Frame(m) /\ m.height = o.height + Effect(JumpOp, z)
  BY EmitFrame
<1> HIDE DEF m
<1>5. Frame(e) /\ e.height = m.height + Effect(pop, z)
  BY <1>4, EmitFrame
<1> HIDE DEF e
<1>6. e.height = o.height - 1
  BY <1>2, <1>3, <1>4, <1>5
<1> QED BY <1>1, <1>5, <1>6

LEMMA PopFrame ==
  ASSUME NEW o, Frame(o), o.height \in Nat
  PROVE  Frame(Emit(o, PopOp, 0)) /\ Emit(o, PopOp, 0).height = o.height - 1
         /\ Len(Emit(o, PopOp, 0).code) = Len(o.code) + 1
         /\ \A q \in 1..Len(o.code) : Emit(o, PopOp, 0).code[q] = o.code[q]
<1> DEFINE z == 0
           e == Emit(o, PopOp, z)
<1>1. Effect(PopOp, z) = -1
  BY DEF Effect, PopOp
<1> HIDE DEF z
<1>2. /\ Frame(e) /\ e.height = o.height + Effect(PopOp, z) /\ Len(e.code) = Len(o.code) + 1
      /\ \A q \in 1..Len(o.code) : e.code[q] = o.code[q]
  BY EmitFrame
<1> HIDE DEF e
<1>3. e.height = o.height - 1
  BY <1>1, <1>2
<1> QED BY <1>2, <1>3 DEF e, z

(* Below a condition are the locals.                                       *)
LEMMA TestBeneath ==
  ASSUME NowWorking, todo # << >>, Tests(todo[1]), NEW L, Knows(L, out, locals, depth)
  PROVE  Beneath(Held(locals, depth), out.height - 1)
<1>1. Low(locals, out.height - 1)
  BY TestLow
<1>2. \A i \in 1..Len(locals) : locals[i].slot \in Nat
  BY DEF Knows, Ordered
<1> QED BY <1>1, <1>2, HeldBeneath

IncrementItem(start, p, body, scope) ==
  [do |-> "for increment", start |-> start, p |-> p, body |-> body, scope |-> scope]

LEMMA RecollectsIncrement ==
  ASSUME NEW L, NEW ls, NEW locs, NEW t, NEW d \in Int, NEW l, NEW scope,
         NEW w, w = Inside(scope, d), Recalled(L, ls, locs, t, w, d, l),
         NEW start, NEW p, NEW body, Back(L, locs, p, d), Back(L, locs, body, d),
         Forth(L, locs, start, d), Forth(L, locs, body + 1, d)
  PROVE  Recalled(L, ls, locs, Cons(IncrementItem(start, p, body, scope), t), d, d, l)
<1> DEFINE x == IncrementItem(start, p, body, scope)
<1>1. w \in Int /\ l \in Int /\ d <= d
  BY RecalledInt
<1>2. x.do = "for increment" /\ x.start = start /\ x.p = p /\ x.body = body /\ x.scope = scope
  BY DEF IncrementItem
<1> HIDE DEF x
<1>3. ~ Declares(x) /\ (EndsScope(x) <=> scope = TRUE) /\ ~ EndsLoopItem(x)
  BY <1>2 DEF Declares, EndsScope, EndsLoopItem
<1>4. Recall(L, ls, locs, x, d, w, l, l)
  <2>1. x.do \notin {"else", "patch"} /\ x.do \notin {"while", "for exit"}
    BY <1>2
  <2>2. w = IF EndsScope(x) THEN d - 1 ELSE d
    BY <1>3 DEF Inside
  <2> QED BY <1>2, <1>3, <2>1, <2>2 DEF Recall
<1>6. Recalled(L, ls, locs, Cons(x, t), d, d, l)
  BY <1>1, <1>3, <1>4, RecalledCons
<1> QED BY <1>6 DEF x

LEMMA RememberForExit == ASSUME NowWorking, Remembering, ForExit PROVE Remembering'
<1> DEFINE t == Tail(todo)
           it == todo[1]
           n == Len(loops)
           p == Here(out)
           m == EmitTest(out)
           z == 0
           jump == "jump"
           e == Emit(m, jump, z)
           body == Here(m)
           scope == it.scope
           x == IncrementItem(it.start, p, body, scope)
           a == EndItem(it.start, p, scope)
           w == Outer(it)
           X == Held(locals, depth)
<1>1. todo # << >> /\ it.do = "for exit"
  BY Begin DEF ForExit, Doing, NowWorking
<1>2. ~ EndsLoopItem(it) /\ Tests(it)
  BY <1>1 DEF EndsLoopItem, Tests
<1>19. /\ scope \in BOOLEAN /\ w = OuterDepth(scope) /\ w = (IF scope THEN depth - 1 ELSE depth)
       /\ w = Inside(scope, depth)
  BY <1>1, ForScope
<1>3. IsSeq(t) /\ depth \in Nat /\ KnownOf(out) /\ Head(todo) = it
  BY <1>1, <1>2, HeadPasses
<1>4. PICK L : /\ Knows(L, out, locals, depth) /\ Recalled(L, loops, locals, t, w, depth, n)
               /\ Recall(L, loops, locals, it, depth, w, n, n)
  BY <1>1, <1>2, HeadPasses
<1>5. Forth(L, locals, it.start, depth)
  BY <1>1, <1>4 DEF Recall
<1>6. Frame(out) /\ Beneath(X, out.height) /\ out.height \in Nat
  BY <1>3, <1>4, KnownBeneath, FrameOf DEF KnownOf, Known
<1>7. Frame(m) /\ Beneath(X, m.height)
  <2>1. Frame(m) /\ m.height = out.height - 1
    BY <1>6, TestFrame
  <2> HIDE DEF m
  <2> QED BY <1>1, <1>2, <1>4, <2>1, TestBeneath
<1>8. PICK M : /\ Knows(M, m, locals, depth) /\ Extends(L, M) /\ Back(M, locals, p, depth)
  BY <1>4, <1>6, KnowsTest
<1>9. \/ /\ out' = e /\ todo' = <<Expr, x>> \o t /\ UNCHANGED loops
      \/ /\ out' = m /\ BeginLoop(w, it.start) /\ todo' = <<Stmt, a>> \o t
  BY <1>3, <1>19 DEF ForExit, Do, IncrementItem, EndItem
<1>10. UNCHANGED <<locals, depth>>
  BY DEF ForExit
<1>11. it.start \in Int
  <2>1. DOMAIN L = 1..Len(out.code) + 1
    BY <1>4 DEF Knows, Named
  <2> QED BY <1>5, <2>1 DEF Forth
<1>12. Quiet(jump, z)
  BY DEF Quiet, NameOp, CloseOp, Reads, Jumping, Awaiting
<1>13. Forth(M, locals, it.start, depth)
  BY <1>5, <1>8 DEF Forth, Extends
<1>14. Back(M, locals, body, depth) /\ Len(m.code) \in Nat
  BY <1>7, <1>8, FrameLen, KnowsHere
<1>15. depth \in Int /\ w \in Int /\ w <= depth /\ depth <= depth
  <2>1. todo # << >> /\ ~ EndsLoopItem(todo[1])
    BY <1>1, <1>2
  <2>2. Outer(todo[1]) \in Int /\ Outer(todo[1]) <= depth /\ depth \in Nat
    BY <2>1, HeadPasses
  <2> QED BY <2>2
<1> HIDE DEF t, scope, it, p, m, jump, z, w
<1>16. Recalled(M, loops, locals, t, w, depth, n)
  BY <1>4, <1>8, <1>15, RecallsMore
<1>17. CASE out' = e /\ todo' = <<Expr, x>> \o t /\ UNCHANGED loops
  <2> DEFINE t1 == Cons(x, t)
             t2 == Cons(Expr, t1)
  <2>1. PICK N : Knows(N, e, locals, depth) /\ Extends(M, N)
    BY <1>7, <1>8, <1>12, KnowsEmit
  <2>2. Frame(e) /\ Here(e) = body + 1
    BY <1>7, EmitFrame DEF Here
  <2> HIDE DEF e, body
  <2>3. Forth(N, locals, body + 1, depth)
    BY <2>1, <2>2, FrameLen, KnowsHere
  <2>4. Back(N, locals, p, depth) /\ Back(N, locals, body, depth) /\ Forth(N, locals, it.start, depth)
    BY <1>8, <1>13, <1>14, <2>1 DEF Back, Forth, Extends
  <2>5. Recalled(N, loops, locals, t, w, depth, n)
    BY <1>15, <1>16, <2>1, RecallsMore
  <2>6. Recalled(N, loops, locals, t1, depth, depth, n)
    BY <1>15, <1>19, <2>3, <2>4, <2>5, RecollectsIncrement
  <2> HIDE DEF x
  <2>7. todo' = t2
    BY <1>3, <1>17, Items2
  <2>8. Forgets(Expr)
    BY DEF Forgets, Expr
  <2> HIDE DEF t1
  <2>9. Recalled(N, loops, locals, t2, depth, depth, n)
    BY <1>15, <2>6, <2>8, Recollects
  <2> HIDE DEF t2
  <2> QED BY <1>10, <1>15, <1>17, <2>1, <2>7, <2>9, Remembered DEF n
<1>18. CASE out' = m /\ BeginLoop(w, it.start) /\ todo' = <<Stmt, a>> \o t
  <2> DEFINE u == Cons(Stmt, Cons(a, t))
  <2>1. todo' = u
    BY <1>3, <1>18, Items2
  <2>2. scope \in BOOLEAN /\ w = (IF scope THEN depth - 1 ELSE depth)
        /\ u = Cons(Stmt, Cons(EndItem(it.start, p, scope), t))
    BY <1>19
  <2> HIDE DEF u, a
  <2> QED BY <1>3, <1>8, <1>10, <1>11, <1>13, <1>15, <1>16, <1>18, <2>1, <2>2, RememberBody DEF n
<1> QED BY <1>9, <1>17, <1>18

LEMMA RememberForIncrement == ASSUME NowWorking, Remembering, ForIncrement PROVE Remembering'
<1> DEFINE t == Tail(todo)
           it == todo[1]
           n == Len(loops)
           z == 0
           m == Emit(out, PopOp, z)
           e == PatchJump(Emit(m, LoopOp, it.start), it.body)
           target == it.body + 1
           scope == it.scope
           a == EndItem(target, it.p, scope)
           w == Outer(it)
           X == Held(locals, depth)
<1>1. todo # << >> /\ it.do = "for increment"
  BY Begin DEF ForIncrement, Doing, NowWorking
<1>2. ~ EndsLoopItem(it) /\ Tests(it)
  BY <1>1 DEF EndsLoopItem, Tests
<1>27. scope \in BOOLEAN /\ w = OuterDepth(scope) /\ w = (IF scope THEN depth - 1 ELSE depth)
  BY <1>1, ForScope
<1>3. IsSeq(t) /\ depth \in Nat /\ KnownOf(out) /\ Head(todo) = it
  BY <1>1, <1>2, HeadPasses
<1>4. PICK L : /\ Knows(L, out, locals, depth) /\ Recalled(L, loops, locals, t, w, depth, n)
               /\ Recall(L, loops, locals, it, depth, w, n, n)
  BY <1>1, <1>2, HeadPasses
<1>5. /\ Back(L, locals, it.p, depth) /\ Back(L, locals, it.body, depth)
      /\ Forth(L, locals, it.start, depth) /\ Forth(L, locals, target, depth)
  BY <1>1, <1>4 DEF Recall
<1>6. it.body \in 1..Len(out.code) /\ out.code[it.body].op \in Awaiting
  <2>1. \E P, Q : Link(out, loops, locals, it, P, Q)
    BY <1>1, Begin DEF NowWorking, Behind
  <2> QED BY <1>1, <2>1 DEF Link, LinkLoop, Patchable
<1>7. Frame(out) /\ Beneath(X, out.height) /\ out.height \in Nat
  BY <1>3, <1>4, KnownBeneath, FrameOf DEF KnownOf, Known
<1>8. /\ Frame(m) /\ m.height = out.height - 1 /\ Len(m.code) = Len(out.code) + 1
      /\ \A q \in 1..Len(out.code) : m.code[q] = out.code[q]
  BY <1>7, PopFrame
<1>9. Beneath(X, out.height - 1)
  BY <1>1, <1>2, <1>4, TestBeneath
<1>10. Quiet(PopOp, z)
  BY DEF Quiet, PopOp, NameOp, CloseOp, Reads, Jumping, Awaiting
<1>11. /\ out' = e /\ BeginLoop(w, target) /\ todo' = <<Stmt, a>> \o t /\ UNCHANGED <<locals, depth>>
  BY <1>3, <1>27 DEF ForIncrement, Do, EndItem, PopOp, LoopOp
<1>12. LoopOp \in {"jump", "loop"}
  BY DEF LoopOp
<1>13. it.body \in Nat /\ it.body \in 1..Len(m.code) /\ target \in Int
  <2>1. Len(out.code) \in Nat
    BY <1>7, FrameLen
  <2> HIDE DEF m
  <2> QED BY <1>6, <1>8, <2>1
<1>14. m.code[it.body].op \in Awaiting
  BY <1>6, <1>8
<1> HIDE DEF t, m, z, target
<1>15. PICK M : Knows(M, m, locals, depth) /\ Extends(L, M)
  BY <1>4, <1>7, <1>10, KnowsEmit DEF m
<1>16. Forth(M, locals, it.start, depth) /\ Back(M, locals, it.body, depth)
  BY <1>5, <1>15 DEF Forth, Back, Extends
<1>17. Turns(Instruction(LoopOp, it.start, m.height), M, X)
  <2> DEFINE i == Instruction(LoopOp, it.start, m.height)
  <2>1. i.arg = it.start
    BY DEF Instruction
  <2> HIDE DEF i
  <2> QED BY <1>16, <2>1 DEF Turns, Forth, i
<1>18. Beneath(X, m.height)
  BY <1>8, <1>9
<1>19. \E N : Knows(N, e, locals, depth) /\ Extends(M, N)
  BY <1>8, <1>12, <1>13, <1>14, <1>15, <1>16, <1>17, <1>18, KnowsAcross
<1>20. PICK N : Knows(N, e, locals, depth) /\ Extends(M, N)
  BY <1>19
<1> HIDE DEF e
<1>21. Extends(L, N)
  BY <1>15, <1>20, ExtendsTransitive
<1>22. Back(N, locals, it.p, depth) /\ Forth(N, locals, target, depth)
  BY <1>5, <1>21 DEF Forth, Back, Extends
<1>23. depth \in Int /\ w \in Int /\ w <= depth
  <2>1. todo # << >> /\ ~ EndsLoopItem(todo[1])
    BY <1>1, <1>2
  <2>2. Outer(todo[1]) \in Int /\ Outer(todo[1]) <= depth /\ depth \in Nat
    BY <2>1, HeadPasses
  <2> QED BY <2>2
<1> HIDE DEF it, scope
<1>24. Recalled(N, loops, locals, t, w, depth, n)
  BY <1>4, <1>21, <1>23, RecallsMore
<1> DEFINE u == Cons(Stmt, Cons(a, t))
<1>25. todo' = u
  BY <1>3, <1>11, Items2
<1>26. scope \in BOOLEAN /\ w = (IF scope THEN depth - 1 ELSE depth)
      /\ u = Cons(Stmt, Cons(EndItem(target, it.p, scope), t))
  BY <1>27
<1> HIDE DEF u, a, w
<1> QED BY <1>3, <1>11, <1>13, <1>20, <1>22, <1>23, <1>24, <1>25, <1>26, RememberBody DEF n

(* Instructions that drop the top of the stack.                            *)
LEMMA PopsFrame ==
  ASSUME NEW o, Frame(o), o.height \in Nat, NEW pops \in Seq(PopOps), Len(pops) <= o.height
  PROVE  LET e == EmitPops(o, pops)
             n == Len(o.code)
         IN  /\ Frame(e) /\ Len(e.code) = n + Len(pops) /\ e.height = o.height - Len(pops)
             /\ e.reachable = o.reachable /\ e.ok = o.ok
             /\ \A q \in 1..n : e.code[q] = o.code[q]
             /\ \A k \in 1..Len(pops) : e.code[n + k] = Instruction(pops[k], 0, o.height - (k - 1))
<1> DEFINE l == Len(pops)
           n == Len(o.code)
           x == [k \in DOMAIN pops |-> [op |-> pops[k], arg |-> 0, height |-> o.height - (k - 1)]]
           c2 == o.code \o x
           e == EmitPops(o, pops)
<1>1. n \in Nat /\ l \in Nat /\ DOMAIN pops = 1..l
  BY FrameLen
<1>2. PICK X : o.code \in Seq(X)
  BY DEF Frame, IsSeq
<1>3. \A k \in 1..l : x[k] = Instruction(pops[k], 0, o.height - (k - 1))
  BY <1>1 DEF Instruction
<1>4. e = [o EXCEPT !.code = c2, !.height = @ - l]
  BY DEF EmitPops
<1> DEFINE Z == {x[k] : k \in 1..l}
           Y == X \cup Z
<1>5. x \in Seq(Y) /\ Len(x) = l
  <2>1. x \in [1..l -> Y]
    BY <1>1
  <2> HIDE DEF x, Y
  <2> QED BY <1>1, <2>1, SeqDef
<1>6. o.code \in Seq(Y)
  <2>1. o.code \in [1..n -> X]
    BY <1>1, <1>2
  <2>2. \A q \in 1..n : o.code[q] \in Y
    BY <2>1
  <2>3. o.code \in [1..n -> Y]
    BY <2>1, <2>2
  <2> HIDE DEF Y
  <2> QED BY <1>1, <2>3, SeqDef
<1> HIDE DEF x, Y, e
<1>7. c2 \in Seq(Y) /\ Len(c2) = n + l /\ (\A q \in 1..n : c2[q] = o.code[q])
      /\ \A k \in 1..l : c2[n + k] = x[k]
  BY <1>1, <1>5, <1>6
<1> HIDE DEF c2
<1>8. /\ e.code = c2 /\ e.height = o.height - l /\ e.reachable = o.reachable /\ e.ok = o.ok
      /\ DOMAIN e = DOMAIN o
  BY <1>4 DEF Frame
<1>9. \A op, arg, h : {"op", "arg", "height"} \subseteq DOMAIN Instruction(op, arg, h)
  BY DEF Instruction
<1>10. \A q \in 1..n + l : {"op", "arg", "height"} \subseteq DOMAIN c2[q]
  <2> SUFFICES ASSUME NEW q \in 1..n + l PROVE {"op", "arg", "height"} \subseteq DOMAIN c2[q]
    OBVIOUS
  <2>1. CASE q \in 1..n
    BY <1>7, <2>1 DEF Frame
  <2>2. CASE q \notin 1..n
    <3> DEFINE k == q - n
    <3>1. k \in 1..l /\ q = n + k
      BY <1>1, <2>2
    <3> HIDE DEF k
    <3>2. c2[q] = Instruction(pops[k], 0, o.height - (k - 1))
      BY <1>3, <1>7, <3>1
    <3> QED BY <1>9, <3>2
  <2> QED BY <2>1, <2>2
<1>11. Frame(e)
  <2>1. IsSeq(e.code)
    BY <1>7, <1>8 DEF IsSeq
  <2>2. {"code", "height", "reachable", "ok"} \subseteq DOMAIN e
    BY <1>8 DEF Frame
  <2> QED BY <1>7, <1>8, <1>10, <2>1, <2>2 DEF Frame
<1> QED BY <1>3, <1>7, <1>8, <1>11 DEF e

(* Nothing deeper than the items that are left is recalled.                *)
LEMMA RecalledLess ==
  ASSUME NEW L, NEW ls, NEW locs, NEW t, NEW d, NEW b, NEW l, Recalled(L, ls, locs, t, d, b, l)
  PROVE  Recalled(L, ls, locs, t, d, d, l)
<1>1. PICK D \in [1..Len(t) + 1 -> Int], M \in [1..Len(t) + 1 -> Int] :
        D[1] = d /\ M[1] = l /\ RecallAll(L, ls, locs, t, D, M, b)
  BY DEF Recalled
<1>2. IsSeq(t) /\ d \in Int
  BY RecalledInt
<1>3. Len(t) \in Nat
  <2>1. PICK X : t \in Seq(X)
    BY <1>2 DEF IsSeq
  <2> QED BY <2>1
<1>4. \A j, k \in 1..Len(t) + 1 : j < k => D[k] <= D[j]
  BY <1>1 DEF RecallAll
<1>5. \A k \in 1..Len(t) : D[k] <= d
  <2> SUFFICES ASSUME NEW k \in 1..Len(t) PROVE D[k] <= d
    OBVIOUS
  <2>1. CASE k = 1
    BY <1>1, <1>2, <2>1
  <2>2. CASE k # 1
    <3>1. 1 \in 1..Len(t) + 1 /\ k \in 1..Len(t) + 1 /\ 1 < k
      BY <1>3, <2>2
    <3> QED BY <1>1, <1>4, <3>1
  <2> QED BY <2>1, <2>2
<1>6. RecallAll(L, ls, locs, t, D, M, d)
  BY <1>1, <1>5 DEF RecallAll
<1> QED BY <1>1, <1>2, <1>6 DEF Recalled

(* What is known behind pops that leave X.                                 *)
Popped(o, L, locs, d, pops, X, h) ==
  /\ Frame(o) /\ o.height \in Nat /\ Knows(L, o, locs, d) /\ Beneath(Held(locs, d), o.height)
  /\ pops \in Seq(PopOps) /\ Len(pops) <= o.height /\ h = o.height - Len(pops)
  /\ X \subseteq Held(locs, d) /\ Beneath(X, h) /\ (Len(pops) = 0 => X = Held(locs, d))

LEMMA NamedPops ==
  ASSUME NEW o, NEW L, NEW locs, NEW d, NEW pops, NEW X, NEW h, Popped(o, L, locs, d, pops, X, h)
  PROVE  LET e == EmitPops(o, pops)
         IN  \E M : Named(e.code, M) /\ Extends(L, M) /\ M[Here(e)] = X
<1>0. /\ Frame(o) /\ o.height \in Nat /\ Knows(L, o, locs, d) /\ Beneath(Held(locs, d), o.height)
      /\ pops \in Seq(PopOps) /\ Len(pops) <= o.height /\ h = o.height - Len(pops)
      /\ X \subseteq Held(locs, d) /\ Beneath(X, h) /\ (Len(pops) = 0 => X = Held(locs, d))
  BY DEF Popped
<1> DEFINE e == EmitPops(o, pops)
           n == Len(o.code)
           m == Len(pops)
           Z == Held(locs, d)
           g == o.height
<1>1. n \in Nat /\ m \in Nat /\ g \in Nat
  BY <1>0, FrameLen
<1>2. /\ Len(e.code) = n + m /\ \A q \in 1..n : e.code[q] = o.code[q]
      /\ \A k \in 1..m : e.code[n + k] = Instruction(pops[k], 0, g - (k - 1))
  BY <1>0, PopsFrame
<1>3. Named(o.code, L) /\ L[n + 1] = Z
  BY <1>0 DEF Knows, Here
<1>4. \A k \in 1..m : pops[k] \in PopOps
  BY <1>0
<1> HIDE DEF e, m, n, Z, g
<1>5. ASSUME NEW k \in 1..m PROVE Fresh(e.code[n + k], L, IF k = 1 THEN L[n + 1] ELSE X, X)
  <2> DEFINE i == e.code[n + k]
             Y == IF k = 1 THEN L[n + 1] ELSE X
  <2>1. i.op = pops[k] /\ i.height = g - (k - 1)
    <3>1. i = Instruction(pops[k], 0, g - (k - 1))
      BY <1>2
    <3> QED BY <3>1 DEF Instruction
  <2>2. i.op \in Flowing /\ i.op # NameOp /\ i.op # CloseOp /\ i.op \notin Reads /\ i.op \notin Jumping
    BY <1>4, <2>1 DEF PopOps, Flowing, Ops, NameOp, CloseOp, Reads, Jumping, Awaiting
  <2>3. X \subseteq Y
    BY <1>0, <1>3 DEF Z
  <2>4. Beneath(Y, i.height)
    <3>1. CASE k = 1
      <4>1. i.height = g
        BY <1>1, <2>1, <3>1
      <4> QED BY <1>0, <1>3, <3>1, <4>1 DEF Z, g
    <3>2. CASE k # 1
      <4>1. h <= i.height /\ h \in Int /\ i.height \in Int
        <5>1. h = g - m
          BY <1>0 DEF g, m
        <5> QED BY <1>1, <2>1, <3>2, <5>1
      <4>2. \A x \in X : x[1] \in Nat /\ x[1] < h
        BY <1>0 DEF Beneath
      <4>3. \A x \in X : x[1] \in Nat /\ x[1] < i.height
        <5> HIDE DEF i
        <5> QED BY <4>1, <4>2
      <4> QED BY <3>2, <4>3 DEF Beneath
    <3> QED BY <3>1, <3>2
  <2> HIDE DEF i, Y
  <2>5. Flows(i, Y, X)
    BY <2>2, <2>3 DEF Flows
  <2>6. Turns(i, L, Y)
    BY <2>2 DEF Turns
  <2> QED BY <2>4, <2>5, <2>6 DEF Fresh, i, Y
<1>6. m = 0 => X = L[n + 1]
  BY <1>0, <1>3 DEF m, Z
<1>7. Grown(o.code, n, m, e.code, L, X)
  <2>1. n = Len(o.code)
    BY DEF n
  <2> QED BY <1>2, <1>3, <1>5, <1>6, <2>1 DEF Grown
<1>8. \E M : Named(e.code, M) /\ Extends(L, M) /\ M[Len(e.code) + 1] = X
  BY <1>1, <1>7, NamedMore
<1> QED BY <1>8 DEF e, Here

(* The locals that are kept when a scope is left.                          *)
LEMMA KeptHeld ==
  ASSUME locals \in Seq(Slots), \A i \in 1..Len(locals) : locals[i].depth \in Int,
         NEW Q \in Places, Q.x = 1, Q.n <= Len(locals), Fits(locals, Q),
         \A i \in Undefined(locals) : i <= Q.n
  PROVE  /\ \A v : Held(Keep(Q.d), v) \subseteq Held(locals, v)
         /\ \A v \in Int : v <= Q.d => Held(Keep(Q.d), v) = Held(locals, v)
         /\ Ordered(locals) => Ordered(Keep(Q.d))
         /\ Q.n = Len(locals) => \A v \in Int : Q.d <= v => Held(locals, v) = Held(locals, Q.d)
<1> DEFINE k == Keep(Q.d)
           n == Len(locals)
<1>1. /\ Len(k) = Q.n /\ \A i \in 1..Q.n : k[i] = locals[i] /\ locals[i].depth <= Q.d
  BY ScopeLocals
<1>2. Q.n \in Nat /\ n \in Nat /\ Q.d \in Int
  BY DEF Places
<1>3. \A i \in 1..n : i > Q.n => locals[i].depth = UNINITIALIZED \/ locals[i].depth > Q.d
  BY DEF Fits
<1> HIDE DEF k
<1>4. \A i \in 1..Len(k) : i \in 1..n /\ i \in 1..Q.n
  BY <1>1, <1>2
<1>5. ASSUME NEW v PROVE Held(k, v) \subseteq Held(locals, v)
  <2> SUFFICES ASSUME NEW x \in Held(k, v) PROVE x \in Held(locals, v)
    OBVIOUS
  <2>1. PICK i \in 1..Len(k) : InScope(k, i, v) /\ x = <<k[i].slot, k[i].decl>>
    BY HeldIff
  <2>2. i \in 1..n /\ k[i] = locals[i]
    BY <1>1, <1>4
  <2>3. InScope(locals, i, v) /\ x = <<locals[i].slot, locals[i].decl>>
    BY <2>1, <2>2 DEF InScope
  <2> QED BY <2>2, <2>3, HeldIff
<1>6. ASSUME NEW v \in Int, v <= Q.d PROVE Held(locals, v) \subseteq Held(k, v)
  <2> SUFFICES ASSUME NEW x \in Held(locals, v) PROVE x \in Held(k, v)
    OBVIOUS
  <2>1. PICK i \in 1..n : InScope(locals, i, v) /\ x = <<locals[i].slot, locals[i].decl>>
    BY HeldIff
  <2>2. locals[i].depth # UNINITIALIZED /\ locals[i].depth <= v /\ locals[i].depth \in Int
    BY <2>1 DEF InScope
  <2>3. ~ (i > Q.n)
    BY <1>2, <1>3, <1>6, <2>2
  <2>4. i \in 1..Len(k) /\ k[i] = locals[i]
    BY <1>1, <1>2, <2>3
  <2>5. InScope(k, i, v) /\ x = <<k[i].slot, k[i].decl>>
    BY <2>1, <2>4 DEF InScope
  <2> QED BY <2>4, <2>5, HeldIff
<1>7. Ordered(locals) => Ordered(k)
  BY <1>1, <1>4 DEF Ordered
<1>8. ASSUME Q.n = n, NEW v \in Int, Q.d <= v PROVE Held(locals, v) = Held(locals, Q.d)
  <2>1. \A i \in 1..n : InScope(locals, i, v) <=> InScope(locals, i, Q.d)
    <3> SUFFICES ASSUME NEW i \in 1..n PROVE InScope(locals, i, v) <=> InScope(locals, i, Q.d)
      OBVIOUS
    <3>1. locals[i].depth <= Q.d /\ locals[i].depth \in Int
      BY <1>1, <1>8
    <3>2. locals[i].depth <= v
      BY <1>2, <1>8, <3>1
    <3> QED BY <3>1, <3>2 DEF InScope
  <2> QED BY <2>1 DEF Held
<1> QED BY <1>5, <1>6, <1>7, <1>8 DEF k

(* What remains when a scope has been closed.                              *)
ScopeOf(Q) ==
  /\ Q.x = 1 /\ Q.n <= Len(locals) /\ Fits(locals, Q) /\ \A i \in Undefined(locals) : i <= Q.n

LEMMA RememberLeft ==
  ASSUME KnownOf(out), NEW Q \in Places, ScopeOf(Q), Ordered(locals),
         NEW e, NEW L, NEW M, Named(e.code, M), Extends(L, M), M[Here(e)] = Held(locals, Q.d),
         NEW ls, NEW t, NEW b, Recalled(L, ls, locals, t, Q.d, b, Len(ls)),
         out' = e, loops' = ls, locals' = Keep(Q.d), depth' = Q.d, todo' = t
  PROVE  Remembering'
<1> DEFINE k == Keep(Q.d)
           d == Q.d
           n == Len(ls)
<1>1. locals \in Seq(Slots) /\ \A i \in 1..Len(locals) : locals[i].depth \in Int
  BY DEF KnownOf, Known
<1>2. /\ \A v : Held(k, v) \subseteq Held(locals, v)
      /\ \A v \in Int : v <= d => Held(k, v) = Held(locals, v)
      /\ Ordered(k)
  BY <1>1, KeptHeld DEF ScopeOf
<1>3. d \in Int /\ d <= d
  BY DEF Places
<1> HIDE DEF k, d, n
<1>4. Knows(M, e, k, d)
  <2>1. Held(k, d) = Held(locals, d)
    BY <1>2, <1>3
  <2> QED BY <1>2, <2>1 DEF Knows, d
<1>5. Recalled(L, ls, locals, t, d, d, n)
  BY RecalledLess DEF d, n
<1>6. Recalled(M, ls, k, t, d, d, n)
  <2>1. \A v \in Int : v <= d => Held(k, v) \subseteq Held(locals, v)
    BY <1>2
  <2>2. \A v \in Int : v <= d => Held(locals, v) \subseteq Held(k, v)
    BY <1>2
  <2> QED BY <1>3, <1>5, <2>1, <2>2, RecallsMore
<1>7. locals' = k /\ depth' = d
  BY DEF k, d
<1> QED BY <1>3, <1>4, <1>6, <1>7, Remembered DEF n

(* What the scope's locals leave is beneath the height that is left.       *)
LEMMA LeftBeneath ==
  ASSUME KnownOf(out), NEW Q \in Places, ScopeOf(Q), Ordered(locals), NowWorking', locals' = Keep(Q.d)
  PROVE  Beneath(Held(locals, Q.d), out'.height)
<1> DEFINE k == Keep(Q.d)
           h == out'.height
<1>1. locals \in Seq(Slots) /\ \A i \in 1..Len(locals) : locals[i].depth \in Int
  BY DEF KnownOf, Known
<1>2. /\ \A v \in Int : v <= Q.d => Held(k, v) = Held(locals, v)
      /\ Ordered(k)
  BY <1>1, KeptHeld DEF ScopeOf
<1>3. Q.d \in Int /\ Q.d <= Q.d
  BY DEF Places
<1>4. Low(k, h)
  <2>1. Known(out', loops', locals', depth')
    BY Begin DEF NowWorking
  <2> QED BY <2>1 DEF Known
<1> HIDE DEF k, h
<1>5. Beneath(Held(k, Q.d), h)
  <2>1. \A i \in 1..Len(k) : k[i].slot \in Nat
    BY <1>2 DEF Ordered
  <2> QED BY <1>4, <2>1, HeldBeneath
<1>6. Held(k, Q.d) = Held(locals, Q.d)
  BY <1>2, <1>3
<1> QED BY <1>5, <1>6 DEF h

LEMMA RememberEndScope == ASSUME NowWorking, Remembering, EndScope PROVE Remembering'
<1> DEFINE t == Tail(todo)
           it == todo[1]
           n == Len(loops)
           w == depth - 1
           pops == PopsToDepth(w)
           e == EmitPops(out, pops)
           Z == Held(locals, depth)
           h == out.height
<1>1. todo # << >> /\ it.do = "end scope"
  BY Begin DEF EndScope, Doing, NowWorking
<1>2. ~ EndsLoopItem(it) /\ Outer(it) = w /\ ClosesScope(it)
  BY <1>1 DEF EndsLoopItem, EndsScope, Outer, ClosesScope
<1>3. IsSeq(t) /\ depth \in Nat /\ KnownOf(out) /\ Head(todo) = it
  BY <1>1, <1>2, HeadPasses
<1>4. PICK L : Knows(L, out, locals, depth) /\ Recalled(L, loops, locals, t, w, depth, n)
  BY <1>1, <1>2, HeadPasses
<1>5. PICK Q \in Places : w = Q.d /\ ScopeOf(Q) /\ Q.n <= Len(locals)
  BY <1>1, <1>2, NextCloses DEF ScopeOf
<1>6. NowWorking'
  BY StepEndScope
<1>7. /\ out' = e /\ todo' = << >> \o t /\ loops' = loops /\ locals' = Keep(Q.d) /\ depth' = Q.d
  BY <1>5 DEF EndScope, Do
<1>8. Ordered(locals)
  BY <1>4 DEF Knows
<1>9. Frame(out) /\ Beneath(Z, h) /\ h \in Nat
  BY <1>3, <1>4, KnownBeneath, FrameOf DEF KnownOf, Known
<1>10. /\ locals \in Seq(Slots) /\ Len(locals) \in Nat /\ \A i \in 1..Len(locals) : locals[i].depth \in Int
  BY <1>3 DEF KnownOf, Known
<1>11. pops \in Seq(PopOps) /\ Len(pops) = Len(locals) - Q.n
  BY <1>5, <1>10, ScopeLocals DEF ScopeOf
<1>12. todo' = t
  <2> HIDE DEF t
  <2> QED BY <1>3, <1>7, Items0
<1> HIDE DEF t, it, pops, w, n
<1>13. Beneath(Held(locals, Q.d), out'.height)
  BY <1>3, <1>5, <1>6, <1>7, <1>8, LeftBeneath
<1>14. out'.height \in Nat /\ out'.height = h - Len(pops)
  <2>1. out'.height \in Nat
    <3>1. Known(out', loops', locals', depth')
      BY <1>6, Begin DEF NowWorking
    <3> QED BY <3>1 DEF Known
  <2>2. e.height = h - Len(pops)
    <3>1. DOMAIN out = {"code", "height", "reachable", "ok"}
      BY <1>3, OutFacts DEF KnownOf, Known, Outs
    <3> QED BY <3>1 DEF EmitPops
  <2> QED BY <1>7, <2>1, <2>2
<1> HIDE DEF h
<1>15. Len(pops) <= h
  <2>1. Len(pops) \in Nat
    BY <1>11
  <2> QED BY <1>9, <1>14, <2>1
<1>16. Q.n \in Nat /\ Q.d \in Int /\ depth \in Int /\ Q.d <= depth
  <2>1. Q.d = depth - 1
    BY <1>5 DEF w
  <2> QED BY <1>3, <2>1 DEF Places
<1> DEFINE X == Held(locals, Q.d)
<1>17. X \subseteq Z
  <2>1. \A i \in 1..Len(locals) : InScope(locals, i, Q.d) => InScope(locals, i, depth)
    BY <1>10, <1>16 DEF InScope
  <2> QED BY <2>1 DEF Held
<1>18. Len(pops) = 0 => X = Z
  <2> SUFFICES ASSUME Len(pops) = 0 PROVE X = Z
    OBVIOUS
  <2>1. Q.n = Len(locals)
    BY <1>10, <1>11, <1>16
  <2> QED BY <1>5, <1>10, <1>16, <2>1, KeptHeld DEF ScopeOf
<1> HIDE DEF X, Z, e
<1>19. \E M : Named(e.code, M) /\ Extends(L, M) /\ M[Here(e)] = X
  <2> DEFINE g == out'.height
  <2>1. g = out.height - Len(pops) /\ Beneath(X, g)
    BY <1>13, <1>14 DEF X, h
  <2>2. out.height \in Nat /\ Len(pops) <= out.height /\ Beneath(Held(locals, depth), out.height)
    BY <1>9, <1>15 DEF h, Z
  <2>3. X \subseteq Held(locals, depth) /\ (Len(pops) = 0 => X = Held(locals, depth))
    BY <1>17, <1>18 DEF Z
  <2>4. pops \in Seq(PopOps)
    BY <1>11
  <2> HIDE DEF X, g
  <2>5. Popped(out, L, locals, depth, pops, X, g)
    BY <1>4, <1>9, <2>1, <2>2, <2>3, <2>4 DEF Popped
  <2> QED BY <2>5, NamedPops DEF e
<1>20. PICK M : Named(e.code, M) /\ Extends(L, M) /\ M[Here(e)] = X
  BY <1>19
<1>21. Recalled(L, loops, locals, t, Q.d, depth, Len(loops))
  BY <1>4, <1>5 DEF n
<1> QED BY <1>3, <1>5, <1>7, <1>8, <1>12, <1>20, <1>21, RememberLeft DEF X

(* At a place that knows the locals, those in scope are beneath its height. *)
LEMMA HasBeneath ==
  ASSUME NEW locs, \A i \in 1..Len(locs) : locs[i].slot \in Nat /\ locs[i].depth \in Int,
         NEW Q \in Places, Q.x = 1, Fits(locs, Q), NEW e \in Int, HasSlots(locs, e, Q.n, Q.d),
         NEW h, h = e + Q.n
  PROVE  Beneath(Held(locs, Q.d), h)
<1>1. Q.n \in Nat /\ Q.d \in Int
  BY DEF Places
<1>2. \A i \in 1..Len(locs) : i > Q.n => locs[i].depth = UNINITIALIZED \/ locs[i].depth > Q.d
  BY DEF Fits
<1> SUFFICES ASSUME NEW x \in Held(locs, Q.d) PROVE x[1] \in Nat /\ x[1] < h
  BY DEF Beneath
<1>3. PICK i \in 1..Len(locs) : InScope(locs, i, Q.d) /\ x = <<locs[i].slot, locs[i].decl>>
  BY HeldIff
<1>4. x[1] = locs[i].slot /\ locs[i].slot \in Nat
  BY <1>3
<1>5. CASE locs[i].slot < e + Q.n
  BY <1>4, <1>5
<1>6. CASE \E j \in 1..Len(locs) : InScope(locs, j, Q.d) /\ locs[i].slot < e + j
  <2>1. PICK j \in 1..Len(locs) : InScope(locs, j, Q.d) /\ locs[i].slot < e + j
    BY <1>6
  <2>2. locs[j].depth # UNINITIALIZED /\ locs[j].depth <= Q.d /\ locs[j].depth \in Int
    BY <2>1 DEF InScope
  <2>3. ~ (j > Q.n)
    BY <1>1, <1>2, <2>2
  <2>4. j \in Int
    OBVIOUS
  <2> QED BY <1>1, <1>4, <2>1, <2>3, <2>4
<1> QED BY <1>3, <1>5, <1>6 DEF HasSlots

LEMMA NextClosesBlock ==
  ASSUME NowWorking, todo # << >>, todo[1].do = CloseOp
  PROVE  \E Q \in Places :
           /\ depth - 1 = Q.d /\ ScopeOf(Q) /\ Q.e = out.height - Len(locals)
           /\ HasSlots(locals, Q.e - 1, Q.n, Q.d)
<1> DEFINE it == todo[1]
           t == Tail(todo)
           P == Place(out.height, Len(locals), depth, Len(loops))
<1>1. KnownOf(out) /\ \E Q \in Places : Behind(out, loops, locals, depth, it, t, Q)
  BY Begin DEF NowWorking, KnownOf
<1>2. PICK Q \in Places : Behind(out, loops, locals, depth, it, t, Q)
  BY <1>1
<1>3. P.e = out.height - Len(locals) /\ P.n = Len(locals) /\ P.d = depth
  BY DEF Place
<1>4. Link(out, loops, locals, it, P, Q) /\ Fits(locals, Q) /\ \A i \in Undefined(locals) : i <= Q.n
  BY <1>2 DEF Behind, StillUndefined, CloseOp
<1>5. Closes(P, Q, 0) /\ HasSlots(locals, Q.e - 1, Q.n, Q.d)
  BY <1>4 DEF Link, LinkExpr, LinkLoop, CloseOp
<1> HIDE DEF P
<1>6. Q.e = out.height - Len(locals) /\ depth = Q.d + 1 /\ Q.n <= Len(locals) /\ Q.x = 1
  <2>1. out.height \in Nat /\ Len(locals) \in Nat
    BY <1>1 DEF Known, KnownOf
  <2> QED BY <1>3, <1>5, <2>1 DEF Closes
<1>7. depth - 1 = Q.d
  BY <1>6 DEF Places
<1> QED BY <1>4, <1>5, <1>6, <1>7 DEF ScopeOf

LEMMA RememberCloseBlockExpr == ASSUME NowWorking, Remembering, CloseBlockExpr PROVE Remembering'
<1> DEFINE t == Tail(todo)
           it == todo[1]
           n == Len(loops)
           w == depth - 1
           a == Cardinality(Leaving(w))
           e == Emit(out, CloseOp, a)
           Z == Held(locals, depth)
           h == out.height
<1>1. todo # << >> /\ it.do = CloseOp
  BY Begin DEF CloseBlockExpr, Doing, NowWorking, CloseOp
<1>2. ~ EndsLoopItem(it) /\ Outer(it) = w
  BY <1>1 DEF EndsLoopItem, EndsScope, Outer, CloseOp
<1>3. IsSeq(t) /\ depth \in Nat /\ KnownOf(out) /\ Head(todo) = it
  BY <1>1, <1>2, HeadPasses
<1>4. PICK L : Knows(L, out, locals, depth) /\ Recalled(L, loops, locals, t, w, depth, n)
  BY <1>1, <1>2, HeadPasses
<1>5. PICK Q \in Places : /\ w = Q.d /\ ScopeOf(Q) /\ Q.e = out.height - Len(locals)
                          /\ HasSlots(locals, Q.e - 1, Q.n, Q.d)
  BY <1>1, NextClosesBlock
<1>7. /\ out' = e /\ todo' = << >> \o t /\ loops' = loops /\ locals' = Keep(Q.d) /\ depth' = Q.d
  BY <1>5 DEF CloseBlockExpr, Do, CloseOp
<1>8. Ordered(locals)
  BY <1>4 DEF Knows
<1>9. Frame(out) /\ Beneath(Z, h) /\ h \in Nat
  BY <1>3, <1>4, KnownBeneath, FrameOf DEF KnownOf, Known
<1>10. /\ locals \in Seq(Slots) /\ Len(locals) \in Nat /\ \A i \in 1..Len(locals) : locals[i].depth \in Int
  BY <1>3 DEF KnownOf, Known
<1>11. a = Len(locals) - Q.n
  BY <1>5, <1>10, ScopeLocals DEF ScopeOf
<1>12. todo' = t
  <2> HIDE DEF t
  <2> QED BY <1>3, <1>7, Items0
<1> HIDE DEF t, it, a, w, n
<1> DEFINE X == Held(locals, Q.d)
           g == h - a - 1
<1>13. Beneath(X, g)
  <2>1. Q.e \in Int /\ Q.n \in Nat
    BY DEF Places
  <2>2. g = (Q.e - 1) + Q.n /\ Q.e - 1 \in Int
    BY <1>5, <1>9, <1>10, <1>11, <2>1
  <2>3. \A i \in 1..Len(locals) : locals[i].slot \in Nat /\ locals[i].depth \in Int
    BY <1>8, <1>10 DEF Ordered
  <2> HIDE DEF g
  <2> QED BY <1>5, <2>2, <2>3, HasBeneath DEF ScopeOf
<1>14. X \subseteq Z
  <2>1. Q.d \in Int /\ depth \in Int /\ Q.d <= depth
    <3>1. Q.d = depth - 1
      BY <1>5 DEF w
    <3> QED BY <1>3, <3>1 DEF Places
  <2>2. \A i \in 1..Len(locals) : InScope(locals, i, Q.d) => InScope(locals, i, depth)
    BY <1>10, <2>1 DEF InScope
  <2> QED BY <2>2 DEF Held
<1> DEFINE i == Instruction(CloseOp, a, h)
<1>15. i.op = CloseOp /\ i.arg = a /\ i.height = h
  BY DEF Instruction
<1>16. CloseOp \notin Reads /\ CloseOp # NameOp /\ CloseOp \notin Jumping
  BY DEF CloseOp, Reads, NameOp, Jumping, Awaiting
<1>17. Flows(i, Z, X)
  <2>1. \A x \in X : x[1] < i.height - i.arg - 1
    BY <1>13, <1>15 DEF Beneath
  <2> HIDE DEF i, X, Z
  <2> QED BY <1>14, <1>15, <1>16, <2>1 DEF Flows
<1>18. Turns(i, L, Z)
  BY <1>15, <1>16 DEF Turns
<1> HIDE DEF X, Z, e, i, g
<1>19. \E M : Named(e.code, M) /\ Extends(L, M) /\ M[Here(e)] = X
  <2>1. Named(out.code, L) /\ L[Here(out)] = Z
    BY <1>4 DEF Knows, Z
  <2> QED BY <1>9, <1>17, <1>18, <2>1, NamedEmit DEF e, i
<1>20. PICK M : Named(e.code, M) /\ Extends(L, M) /\ M[Here(e)] = X
  BY <1>19
<1>21. Recalled(L, loops, locals, t, Q.d, depth, Len(loops))
  BY <1>4, <1>5 DEF n
<1> QED BY <1>3, <1>5, <1>7, <1>8, <1>12, <1>20, <1>21, RememberLeft DEF X

LEMMA NextDefines ==
  ASSUME NowWorking, todo # << >>, todo[1].do = "define"
  PROVE  LET n == Len(locals)
         IN  /\ n >= 1 /\ locals[n] \in Slots
             /\ locals[n].depth = UNINITIALIZED \/ locals[n].depth = depth
<1> DEFINE t == Tail(todo)
           it == todo[1]
           n == Len(locals)
           P == Place(out.height, n, depth, Len(loops))
<1>1. KnownOf(out) /\ \E Q \in Places : Behind(out, loops, locals, depth, it, t, Q)
  BY Begin DEF NowWorking, KnownOf
<1>2. PICK Q \in Places : Behind(out, loops, locals, depth, it, t, Q)
  BY <1>1
<1>3. Link(out, loops, locals, it, P, Q)
  BY <1>2 DEF Behind
<1>4. P.n = n /\ P.d = depth
  BY DEF Place
<1>5. P.n >= 1 /\ Defines(locals, P)
  BY <1>3 DEF Link, LinkExpr, LinkLoop
<1>6. locals \in Seq(Slots) /\ n \in Nat
  BY <1>1 DEF Known, KnownOf
<1>7. n \in 1..Len(locals)
  BY <1>4, <1>5, <1>6
<1> QED BY <1>4, <1>5, <1>6, <1>7 DEF Defines

(* The variable n is in scope from here on: what is known before and then.  *)
Begins(locs, n) == locs = [locals EXCEPT ![n].depth = depth]
Renames(X, Z, arg) == \A x \in X : x = <<arg.slot, arg.decl>> \/ (x \in Z /\ x[1] # arg.slot)

LEMMA HeldDefined ==
  ASSUME KnownOf(out), Ordered(locals), NEW n, n = Len(locals), n >= 1, locals[n] \in Slots,
         locals[n].depth = UNINITIALIZED \/ locals[n].depth = depth,
         NEW locs, Begins(locs, n), NEW Z, Z = Held(locals, depth)
  PROVE  /\ Ordered(locs)
         /\ \A v \in Int : v <= depth - 1 => Held(locs, v) \subseteq Held(locals, v)
         /\ \A v \in Int : Held(locals, v) \subseteq Held(locs, v)
         /\ Renames(Held(locs, depth), Z, locals[n])
<1>1. /\ depth \in Nat /\ locals \in Seq(Slots) /\ n \in Nat /\ n \in 1..n
      /\ \A i \in 1..n : locals[i].depth <= depth /\ locals[i].depth \in Int
  BY DEF KnownOf, Known
<1>2. /\ Len(locs) = n /\ \A i \in 1..n : i # n => locs[i] = locals[i]
      /\ locs[n].depth = depth /\ locs[n].slot = locals[n].slot /\ locs[n].decl = locals[n].decl
  <2> DEFINE new == [locals[n] EXCEPT !.depth = depth]
  <2>1. new.depth = depth /\ new.slot = locals[n].slot /\ new.decl = locals[n].decl /\ new \in Slots
    <3>1. depth \in Int
      BY <1>1
    <3> QED BY <3>1 DEF Slots
  <2>2. locs = [locals EXCEPT ![n] = new]
    BY DEF Begins
  <2> HIDE DEF new
  <2>3. Len(locs) = n /\ locs[n] = new /\ \A i \in 1..n : i # n => locs[i] = locals[i]
    BY <1>1, <2>1, <2>2
  <2> QED BY <2>1, <2>3
<1>3. \A i \in 1..n : locs[i].slot = locals[i].slot /\ locs[i].decl = locals[i].decl
  BY <1>2
<1>4. \A i, j \in 1..n : i < j /\ locals[i].depth # UNINITIALIZED => locals[i].slot < locals[j].slot
  BY DEF Ordered
<1>5. \A i \in 1..n : i < n => i # n
  BY <1>1
<1>6. Ordered(locs)
  <2>1. \A i \in 1..Len(locs) : locs[i].slot \in Nat
    BY <1>2, <1>3 DEF Ordered
  <2>2. ASSUME NEW i \in 1..n, NEW j \in 1..n, i < j, locs[i].depth # UNINITIALIZED
        PROVE  locs[i].slot < locs[j].slot
    <3>1. i # n
      BY <1>1, <2>2
    <3>2. locals[i].depth # UNINITIALIZED
      BY <1>2, <2>2, <3>1
    <3> QED BY <1>3, <1>4, <2>2, <3>2
  <2> QED BY <1>2, <2>1, <2>2 DEF Ordered
<1>7. ASSUME NEW v \in Int, v <= depth - 1 PROVE Held(locs, v) \subseteq Held(locals, v)
  <2> SUFFICES ASSUME NEW x \in Held(locs, v) PROVE x \in Held(locals, v)
    OBVIOUS
  <2>1. PICK i \in 1..n : InScope(locs, i, v) /\ x = <<locs[i].slot, locs[i].decl>>
    <3>1. \E i \in 1..Len(locs) : InScope(locs, i, v) /\ x = <<locs[i].slot, locs[i].decl>>
      BY HeldIff
    <3> QED BY <1>2, <3>1
  <2>2. i # n
    <3>1. locs[i].depth <= v
      BY <2>1 DEF InScope
    <3> QED BY <1>1, <1>2, <1>7, <3>1
  <2>3. InScope(locals, i, v) /\ x = <<locals[i].slot, locals[i].decl>>
    BY <1>2, <2>1, <2>2 DEF InScope
  <2> QED BY <2>3, HeldIff
<1>8. ASSUME NEW v \in Int PROVE Held(locals, v) \subseteq Held(locs, v)
  <2> SUFFICES ASSUME NEW x \in Held(locals, v) PROVE x \in Held(locs, v)
    OBVIOUS
  <2>1. PICK i \in 1..n : InScope(locals, i, v) /\ x = <<locals[i].slot, locals[i].decl>>
    BY HeldIff
  <2>2. locs[i].depth = locals[i].depth
    BY <1>2, <2>1 DEF InScope
  <2>3. InScope(locs, i, v) /\ x = <<locs[i].slot, locs[i].decl>>
    BY <1>3, <2>1, <2>2 DEF InScope
  <2> QED BY <1>2, <2>3, HeldIff
<1>9. ASSUME NEW x \in Held(locs, depth)
      PROVE  x = <<locals[n].slot, locals[n].decl>> \/ (x \in Z /\ x[1] # locals[n].slot)
  <2>1. PICK i \in 1..n : InScope(locs, i, depth) /\ x = <<locs[i].slot, locs[i].decl>>
    <3>1. \E i \in 1..Len(locs) : InScope(locs, i, depth) /\ x = <<locs[i].slot, locs[i].decl>>
      BY HeldIff
    <3> QED BY <1>2, <3>1
  <2>2. x = <<locals[i].slot, locals[i].decl>>
    BY <1>3, <2>1
  <2>3. CASE i = n
    BY <2>2, <2>3
  <2>4. CASE i # n
    <3>1. InScope(locals, i, depth)
      BY <1>2, <2>1, <2>4 DEF InScope
    <3>2. x \in Z
      BY <2>2, <3>1, HeldIff
    <3>3. i < n
      BY <1>1, <2>4
    <3>4. locals[i].slot < locals[n].slot
      BY <1>1, <1>4, <3>1, <3>3 DEF InScope
    <3>5. locals[i].slot \in Nat /\ locals[n].slot \in Nat
      BY <1>1 DEF Ordered
    <3>6. x[1] = locals[i].slot
      BY <2>2
    <3> QED BY <3>2, <3>4, <3>5, <3>6
  <2> QED BY <2>3, <2>4
<1> QED BY <1>6, <1>7, <1>8, <1>9 DEF Renames

(* The mark where a local starts to exist.                                 *)
LEMMA NamedName ==
  ASSUME NEW o, Frame(o), NEW L, Named(o.code, L), NEW Z, L[Here(o)] = Z, Beneath(Z, o.height),
         NEW arg \in Slots, NEW X, Renames(X, Z, arg)
  PROVE  LET e == Emit(o, NameOp, arg)
         IN  \E M : Named(e.code, M) /\ Extends(L, M) /\ M[Here(e)] = X
<1> DEFINE i == Instruction(NameOp, arg, o.height)
<1>1. i.op = NameOp /\ i.arg = arg
  BY DEF Instruction
<1>2. NameOp \notin Reads /\ NameOp # CloseOp /\ NameOp \notin Jumping
  BY DEF CloseOp, Reads, NameOp, Jumping, Awaiting
<1>3. arg.slot \in Int
  BY DEF Slots
<1> HIDE DEF i
<1>4. Flows(i, Z, X)
  BY <1>1, <1>2, <1>3 DEF Flows, Renames
<1>5. Turns(i, L, Z)
  BY <1>1, <1>2 DEF Turns
<1>6. Flows(i, L[Here(o)], X) /\ Turns(i, L, L[Here(o)]) /\ Beneath(L[Here(o)], o.height)
  BY <1>4, <1>5
<1> QED BY <1>6, NamedEmit DEF i

LEMMA RememberDefineVariable == ASSUME NowWorking, Remembering, DefineVariable PROVE Remembering'
<1> DEFINE t == Tail(todo)
           n == Len(locals)
           arg == locals[n]
           locs == [locals EXCEPT ![n].depth = depth]
           e == Emit(out, NameOp, arg)
           Z == Held(locals, depth)
           X == Held(locs, depth)
           b == depth - 1
<1>1. Doing("define")
  BY DEF DefineVariable
<1>2. IsSeq(t) /\ depth \in Nat /\ KnownOf(out) /\ todo[1].do = "define" /\ todo # << >>
  BY <1>1, Heading DEF Doing
<1>3. PICK L : Knows(L, out, locals, depth) /\ Memory(L, t, b)
  <2>1. Declares(todo[1])
    BY <1>2 DEF Declares
  <2> QED BY <1>1, <2>1, Heading
<1>4. n >= 1 /\ arg \in Slots /\ (locals[n].depth = UNINITIALIZED \/ locals[n].depth = depth)
  BY <1>2, NextDefines
<1>5. out' = e /\ locals' = locs /\ todo' = << >> \o t /\ UNCHANGED <<depth, loops>>
  BY DEF DefineVariable, Do, NameOp, Last
<1>6. todo' = t
  <2> HIDE DEF t
  <2> QED BY <1>2, <1>5, Items0
<1>7. Named(out.code, L) /\ L[Here(out)] = Z /\ Ordered(locals)
  BY <1>3 DEF Knows
<1>8. Frame(out) /\ Beneath(Z, out.height)
  BY <1>2, <1>3, KnownBeneath
<1>9. /\ Ordered(locs)
      /\ \A v \in Int : v <= depth - 1 => Held(locs, v) \subseteq Held(locals, v)
      /\ \A v \in Int : Held(locals, v) \subseteq Held(locs, v)
      /\ Renames(X, Z, arg)
  BY <1>2, <1>4, <1>7, HeldDefined DEF Begins
<1>10. b \in Int /\ depth \in Int /\ b <= depth
  BY <1>2
<1> HIDE DEF t, locs, Z
<1>11. \E M : Named(e.code, M) /\ Extends(L, M) /\ M[Here(e)] = X
  <2>1. Renames(X, Z, arg)
    BY <1>9
  <2>2. arg \in Slots
    BY <1>4
  <2> HIDE DEF X, arg
  <2> QED BY <1>7, <1>8, <2>1, <2>2, NamedName
<1>12. PICK M : Named(e.code, M) /\ Extends(L, M) /\ M[Here(e)] = X
  BY <1>11
<1>13. Knows(M, e, locs, depth)
  BY <1>9, <1>12 DEF Knows
<1>14. Recalled(M, loops, locs, t, depth, b, Len(loops))
  <2>1. \A v \in Int : v <= b => Held(locs, v) \subseteq Held(locals, v)
    BY <1>9
  <2>2. \A v \in Int : v <= depth => Held(locals, v) \subseteq Held(locs, v)
    BY <1>9
  <2> HIDE DEF b, e
  <2> QED BY <1>3, <1>10, <1>12, <2>1, <2>2, RecallsMore DEF Memory
<1> HIDE DEF b, e
<1> QED BY <1>5, <1>6, <1>10, <1>13, <1>14, Remembered

(* An instruction that pushes a value, of a variable that is where it says.  *)
Pushes == {"constant", "get local", "closure"}
Found(arg, h, Z) == arg.slot < h => <<arg.slot, arg.decl>> \in Z

LEMMA NamedPush ==
  ASSUME NEW o, Frame(o), NEW L, Named(o.code, L), NEW Z, L[Here(o)] = Z, Beneath(Z, o.height),
         NEW op \in Pushes, NEW arg, Found(arg, o.height, Z)
  PROVE  LET e == Emit(o, op, arg)
         IN  /\ Frame(e) /\ e.height = o.height + 1
             /\ \E M : Named(e.code, M) /\ Extends(L, M) /\ M[Here(e)] = Z
<1> DEFINE i == Instruction(op, arg, o.height)
           e == Emit(o, op, arg)
<1>1. i.op = op /\ i.arg = arg /\ i.height = o.height
  BY DEF Instruction
<1>2. op # NameOp /\ op # CloseOp /\ op \notin Jumping /\ Effect(op, arg) = 1
  BY DEF CloseOp, NameOp, Jumping, Awaiting, Effect, Pushes
<1>3. Frame(e) /\ e.height = o.height + 1
  <2> DEFINE f == Effect(op, arg)
  <2>1. Frame(e) /\ e.height = o.height + f
    BY EmitFrame
  <2>2. f = 1
    BY <1>2
  <2> HIDE DEF f, e
  <2> QED BY <2>1, <2>2
<1> HIDE DEF i
<1>4. Flows(i, Z, Z)
  BY <1>1, <1>2 DEF Flows, Found
<1>5. Turns(i, L, Z)
  BY <1>1, <1>2 DEF Turns
<1>6. Flows(i, L[Here(o)], Z) /\ Turns(i, L, L[Here(o)]) /\ Beneath(L[Here(o)], o.height)
  BY <1>4, <1>5
<1>7. \E M : Named(e.code, M) /\ Extends(L, M) /\ M[Here(e)] = Z
  BY <1>6, NamedEmit DEF i
<1> QED BY <1>3, <1>7

(* A local that is initialized is in scope.                                *)
LEMMA InitializedHeld ==
  ASSUME KnownOf(out), NEW i \in Initialized
  PROVE  <<locals[i].slot, locals[i].decl>> \in Held(locals, depth) /\ i \in 1..Len(locals)
<1>1. i \in 1..Len(locals) /\ locals[i].depth # UNINITIALIZED
  BY DEF KnownOf, Known, Initialized
<1>2. InScope(locals, i, depth)
  BY <1>1 DEF InScope, KnownOf, Known
<1> QED BY <1>1, <1>2, HeldIff

LEMMA RememberVariable ==
  ASSUME NowWorking, Remembering, NEW i \in Initialized, Variable(i) PROVE Remembering'
<1> DEFINE t == Tail(todo)
           arg == locals[i]
           op == "get local"
           e == Emit(out, op, arg)
           Z == Held(locals, depth)
<1>1. Doing("expr")
  BY DEF Variable
<1>2. IsSeq(t) /\ depth \in Nat /\ KnownOf(out)
  BY <1>1, Heading
<1>3. PICK L : Knows(L, out, locals, depth) /\ Memory(L, t, depth)
  BY <1>1, HeadingExpr
<1>4. out' = e /\ todo' = << >> \o t /\ UNCHANGED <<locals, depth, loops>>
  BY DEF Variable, Do
<1>5. todo' = t
  <2> HIDE DEF t
  <2> QED BY <1>2, <1>4, Items0
<1>6. Named(out.code, L) /\ L[Here(out)] = Z /\ Ordered(locals)
  BY <1>3 DEF Knows
<1>7. Frame(out) /\ Beneath(Z, out.height)
  BY <1>2, <1>3, KnownBeneath
<1>8. Found(arg, out.height, Z)
  BY <1>2, InitializedHeld DEF Found
<1>9. op \in Pushes
  BY DEF Pushes
<1> HIDE DEF t, Z, op, arg
<1>10. \E M : Named(e.code, M) /\ Extends(L, M) /\ M[Here(e)] = Z
  BY <1>6, <1>7, <1>8, <1>9, NamedPush
<1>11. PICK M : Named(e.code, M) /\ Extends(L, M) /\ M[Here(e)] = Z
  BY <1>10
<1>12. Knows(M, e, locals, depth)
  BY <1>6, <1>11 DEF Knows, Z
<1> HIDE DEF e
<1>13. Knows(M, out', locals, depth)
  BY <1>4, <1>12
<1> QED BY <1>2, <1>3, <1>4, <1>5, <1>11, <1>13, RememberCode

(* A local that is captured is where it was.                               *)
LEMMA HeldCaptured ==
  ASSUME KnownOf(out), Ordered(locals), NEW i \in 1..Len(locals),
         NEW locs, locs = [locals EXCEPT ![i].captured = TRUE]
  PROVE  Ordered(locs) /\ \A v : Held(locs, v) = Held(locals, v)
<1> DEFINE n == Len(locals)
           new == [locals[i] EXCEPT !.captured = TRUE]
<1>1. locals \in Seq(Slots) /\ n \in Nat
  BY DEF KnownOf, Known
<1>2. new \in Slots /\ new.depth = locals[i].depth /\ new.slot = locals[i].slot /\ new.decl = locals[i].decl
  <2>1. locals[i] \in Slots
    BY <1>1
  <2> QED BY <2>1 DEF Slots
<1>3. locs = [locals EXCEPT ![i] = new]
  OBVIOUS
<1> HIDE DEF new
<1>4. Len(locs) = n /\ locs[i] = new /\ \A k \in 1..n : k # i => locs[k] = locals[k]
  BY <1>1, <1>2, <1>3
<1>5. \A k \in 1..n : /\ locs[k].depth = locals[k].depth /\ locs[k].slot = locals[k].slot
                      /\ locs[k].decl = locals[k].decl
  BY <1>2, <1>4
<1>6. Ordered(locs)
  <2>1. Len(locs) = Len(locals)
    BY <1>4
  <2> QED BY <1>5, <2>1 DEF Ordered, n
<1>7. ASSUME NEW v PROVE Held(locs, v) = Held(locals, v)
  <2>1. \A k \in 1..n : InScope(locs, k, v) <=> InScope(locals, k, v)
    BY <1>5 DEF InScope
  <2>2. {k \in 1..Len(locs) : InScope(locs, k, v)} = {k \in 1..Len(locals) : InScope(locals, k, v)}
    BY <1>4, <2>1
  <2>3. \A k \in {j \in 1..Len(locals) : InScope(locals, j, v)} :
          <<locs[k].slot, locs[k].decl>> = <<locals[k].slot, locals[k].decl>>
    BY <1>5
  <2> QED BY <2>2, <2>3 DEF Held
<1> QED BY <1>6, <1>7

LEMMA RememberLambda ==
  ASSUME NowWorking, Remembering, NEW i \in Initialized, Lambda(i) PROVE Remembering'
<1> DEFINE t == Tail(todo)
           arg == locals[i]
           op == "closure"
           e == Emit(out, op, arg)
           locs == [locals EXCEPT ![i].captured = TRUE]
           Z == Held(locals, depth)
<1>1. Doing("expr")
  BY DEF Lambda
<1>2. IsSeq(t) /\ depth \in Nat /\ KnownOf(out)
  BY <1>1, Heading
<1>3. PICK L : Knows(L, out, locals, depth) /\ Memory(L, t, depth)
  BY <1>1, HeadingExpr
<1>4. out' = e /\ todo' = << >> \o t /\ locals' = locs /\ UNCHANGED <<depth, loops>>
  BY DEF Lambda, Do
<1>5. todo' = t
  <2> HIDE DEF t
  <2> QED BY <1>2, <1>4, Items0
<1>6. Named(out.code, L) /\ L[Here(out)] = Z /\ Ordered(locals)
  BY <1>3 DEF Knows
<1>7. Frame(out) /\ Beneath(Z, out.height)
  BY <1>2, <1>3, KnownBeneath
<1>8. Found(arg, out.height, Z) /\ i \in 1..Len(locals)
  BY <1>2, InitializedHeld DEF Found
<1>9. op \in Pushes
  BY DEF Pushes
<1>10. Ordered(locs) /\ \A v : Held(locs, v) = Held(locals, v)
  BY <1>2, <1>6, <1>8, HeldCaptured
<1>11. depth \in Int /\ depth <= depth
  BY <1>2
<1> HIDE DEF t, Z, op, arg, locs
<1>12. \E M : Named(e.code, M) /\ Extends(L, M) /\ M[Here(e)] = Z
  BY <1>6, <1>7, <1>8, <1>9, NamedPush
<1>13. PICK M : Named(e.code, M) /\ Extends(L, M) /\ M[Here(e)] = Z
  BY <1>12
<1>14. Knows(M, e, locs, depth)
  BY <1>10, <1>13 DEF Knows, Z
<1> HIDE DEF e
<1>15. Recalled(M, loops, locs, t, depth, depth, Len(loops))
  <2>1. \A v \in Int : v <= depth => Held(locs, v) \subseteq Held(locals, v)
    BY <1>10
  <2>2. \A v \in Int : v <= depth => Held(locals, v) \subseteq Held(locs, v)
    BY <1>10
  <2> QED BY <1>3, <1>11, <1>13, <2>1, <2>2, RecallsMore DEF Memory
<1> QED BY <1>4, <1>5, <1>11, <1>14, <1>15, Remembered

(* A local that is declared and initialized at once, above all others.      *)
Joins(locs, new) == locs = Append(locals, new)
LEMMA HeldDeclared ==
  ASSUME KnownOf(out), Ordered(locals), NEW new \in Slots, new.depth = depth, new.slot = out.height,
         NEW locs, Joins(locs, new), NEW Z, Z = Held(locals, depth)
  PROVE  /\ Ordered(locs)
         /\ \A v \in Int : v <= depth - 1 => Held(locs, v) \subseteq Held(locals, v)
         /\ \A v \in Int : Held(locals, v) \subseteq Held(locs, v)
         /\ Beneath(Z, out.height) => Renames(Held(locs, depth), Z, new)
<1> DEFINE n == Len(locals)
<1>1. /\ depth \in Nat /\ locals \in Seq(Slots) /\ n \in Nat /\ Low(locals, out.height) /\ out.height \in Nat
  BY DEF KnownOf, Known
<1>2. Len(locs) = n + 1 /\ locs[n + 1] = new /\ \A i \in 1..n : locs[i] = locals[i] /\ i \in 1..n + 1
  BY <1>1 DEF Joins
<1>3. Ordered(locs)
  <2>1. Low(locals, new.slot) /\ new.slot \in Nat
    BY <1>1
  <2> QED BY <1>1, <2>1, OrderedAppend DEF Joins
<1> HIDE DEF n
<1>4. \A v, x : x \in Held(locs, v) <=> \E i \in 1..n + 1 : InScope(locs, i, v) /\ x = <<locs[i].slot, locs[i].decl>>
  <2>1. \A v, x : x \in Held(locs, v) <=> \E i \in 1..Len(locs) : InScope(locs, i, v) /\ x = <<locs[i].slot, locs[i].decl>>
    BY HeldIff
  <2> QED BY <1>2, <2>1
<1>5. \A v, x : x \in Held(locals, v) <=> \E i \in 1..n : InScope(locals, i, v) /\ x = <<locals[i].slot, locals[i].decl>>
  BY HeldIff DEF n
<1>6. ASSUME NEW v, NEW x \in Held(locals, v) PROVE x \in Held(locs, v)
  <2>1. PICK i \in 1..n : InScope(locals, i, v) /\ x = <<locals[i].slot, locals[i].decl>>
    BY <1>5, <1>6
  <2>2. i \in 1..n + 1 /\ InScope(locs, i, v) /\ x = <<locs[i].slot, locs[i].decl>>
    BY <1>2, <2>1 DEF InScope
  <2> QED BY <1>4, <2>2
<1>7. ASSUME NEW v, NEW x \in Held(locs, v)
      PROVE  x \in Held(locals, v) \/ (InScope(locs, n + 1, v) /\ x = <<new.slot, new.decl>>)
  <2>1. \E i \in 1..n + 1 : InScope(locs, i, v) /\ x = <<locs[i].slot, locs[i].decl>>
    BY <1>4, <1>7
  <2>4. PICK i \in 1..n + 1 : InScope(locs, i, v) /\ x = <<locs[i].slot, locs[i].decl>>
    BY <2>1
  <2>2. CASE i = n + 1
    BY <1>2, <2>4, <2>2
  <2>3. CASE i # n + 1
    <3>1. i \in 1..n
      BY <1>1, <2>3
    <3>2. InScope(locals, i, v) /\ x = <<locals[i].slot, locals[i].decl>>
      BY <1>2, <2>4, <3>1 DEF InScope
    <3> QED BY <1>5, <3>1, <3>2
  <2> QED BY <2>2, <2>3
<1>8. ASSUME NEW v \in Int, v <= depth - 1 PROVE Held(locs, v) \subseteq Held(locals, v)
  <2>1. ~ InScope(locs, n + 1, v)
    <3>1. locs[n + 1].depth = depth
      BY <1>2
    <3>2. ~ (depth <= v)
      BY <1>1, <1>8
    <3> QED BY <3>1, <3>2 DEF InScope
  <2> QED BY <1>7, <2>1
<1>9. ASSUME Beneath(Z, out.height) PROVE Renames(Held(locs, depth), Z, new)
  <2> SUFFICES ASSUME NEW x \in Held(locs, depth)
               PROVE  x = <<new.slot, new.decl>> \/ (x \in Z /\ x[1] # new.slot)
    BY DEF Renames
  <2>1. CASE x = <<new.slot, new.decl>>
    BY <2>1
  <2>2. CASE x \in Z
    <3>1. x[1] \in Nat /\ x[1] < out.height
      BY <1>9, <2>2 DEF Beneath
    <3> QED BY <1>1, <2>2, <3>1
  <2> QED BY <1>7, <2>1, <2>2
<1> QED BY <1>3, <1>6, <1>8, <1>9

LEMMA RememberFunctionDecl ==
  ASSUME NowWorking, nodes \in Nat, Remembering, NEW self \in BOOLEAN, FunctionDecl(self)
  PROVE  Remembering'
<1> DEFINE t == Tail(todo)
           n == Len(locals)
           new == [Last(AddLocal(out)) EXCEPT !.depth = depth, !.captured = self]
           locs == Append(locals, new)
           op == IF self THEN "closure" ELSE "constant"
           m == Emit(out, op, new)
           e == Emit(m, NameOp, new)
           u == Cons(TheCheck, t)
           Z == Held(locals, depth)
           X == Held(locs, depth)
           b == depth - 1
<1>1. Doing("declaration")
  BY DEF FunctionDecl
<1>2. IsSeq(t) /\ depth \in Nat /\ KnownOf(out) /\ todo[1].do = "declaration"
  BY <1>1, Heading
<1>3. PICK L : Knows(L, out, locals, depth) /\ Memory(L, t, b)
  <2>1. Declares(todo[1])
    BY <1>2 DEF Declares
  <2> QED BY <1>1, <2>1, Heading
<1>4. locals \in Seq(Slots) /\ out.height \in Nat /\ n \in Nat
  BY <1>2 DEF Known, KnownOf
<1>5. new \in Slots /\ new.depth = depth /\ new.slot = out.height
  <2> DEFINE a == AddLocal(out)
             c == Last(a)
  <2>1. a \in Seq(Slots) /\ Len(a) = n + 1 /\ a[Len(a)].slot = out.height
    <3>1. depth <= depth
      BY <1>2
    <3> QED BY <1>2, <3>1, AddedLocal
  <2>2. c \in Slots /\ c.slot = out.height
    <3> HIDE DEF a, n
    <3> QED BY <1>4, <2>1 DEF Last
  <2> HIDE DEF c
  <2>3. depth \in Int
    BY <1>2
  <2>4. [c EXCEPT !.depth = depth, !.captured = self] \in Slots
        /\ [c EXCEPT !.depth = depth, !.captured = self].depth = depth
        /\ [c EXCEPT !.depth = depth, !.captured = self].slot = out.height
    BY <2>2, <2>3 DEF Slots
  <2> QED BY <2>4 DEF c
<1>6. todo' = u
  <2>1. todo' = (<< >> \o <<TheCheck>>) \o t
    BY DEF FunctionDecl, Do, Checked, TheCheck
  <2> HIDE DEF t
  <2> QED BY <1>2, <2>1, Items01
<1>7. out' = e /\ locals' = locs /\ UNCHANGED <<depth, loops>>
  BY DEF FunctionDecl, NameOp
<1>8. op \in Pushes
  BY DEF Pushes
<1>9. Named(out.code, L) /\ L[Here(out)] = Z /\ Ordered(locals)
  BY <1>3 DEF Knows
<1>10. Frame(out) /\ Beneath(Z, out.height)
  BY <1>2, <1>3, KnownBeneath
<1> HIDE DEF new, op, t, n
<1>11. /\ Ordered(locs)
       /\ \A v \in Int : v <= depth - 1 => Held(locs, v) \subseteq Held(locals, v)
       /\ \A v \in Int : Held(locals, v) \subseteq Held(locs, v)
       /\ Renames(X, Z, new)
  BY <1>2, <1>5, <1>9, <1>10, HeldDeclared DEF Joins
<1> HIDE DEF Z, X, locs, m
<1>12. /\ Frame(m) /\ m.height = out.height + 1
       /\ \E M : Named(m.code, M) /\ Extends(L, M) /\ M[Here(m)] = Z
  <2>1. Found(new, out.height, Z)
    <3>1. ~ (new.slot < out.height)
      BY <1>4, <1>5
    <3> QED BY <3>1 DEF Found
  <2> QED BY <1>8, <1>9, <1>10, <2>1, NamedPush DEF m
<1>13. PICK M1 : Named(m.code, M1) /\ Extends(L, M1) /\ M1[Here(m)] = Z
  BY <1>12
<1>14. Beneath(Z, m.height)
  <2>1. \A x \in Z : x[1] \in Nat /\ x[1] < out.height
    BY <1>10 DEF Beneath
  <2>2. \A x \in Z : x[1] < out.height + 1
    BY <1>4, <2>1
  <2> QED BY <1>12, <2>1, <2>2 DEF Beneath
<1>15. \E M : Named(e.code, M) /\ Extends(M1, M) /\ M[Here(e)] = X
  <2>1. new \in Slots /\ Frame(m) /\ Renames(X, Z, new)
    BY <1>5, <1>11, <1>12
  <2> QED BY <1>13, <1>14, <2>1, NamedName
<1>16. PICK M : Named(e.code, M) /\ Extends(M1, M) /\ M[Here(e)] = X
  BY <1>15
<1>17. Extends(L, M)
  BY <1>13, <1>16, ExtendsTransitive
<1>18. Knows(M, e, locs, depth)
  BY <1>11, <1>16 DEF Knows, X
<1>19. b \in Int /\ depth \in Int /\ b <= depth
  BY <1>2
<1>20. Recalled(M, loops, locs, t, depth, b, Len(loops))
  <2>1. \A v \in Int : v <= b => Held(locs, v) \subseteq Held(locals, v)
    BY <1>11
  <2>2. \A v \in Int : v <= depth => Held(locals, v) \subseteq Held(locs, v)
    BY <1>11
  <2> HIDE DEF b, e
  <2> QED BY <1>3, <1>17, <1>19, <2>1, <2>2, RecallsMore DEF Memory
<1> HIDE DEF b, e
<1>21. Recalled(M, loops, locs, u, depth, b, Len(loops))
  <2>1. Forgets(TheCheck)
    BY DEF Forgets, TheCheck
  <2> QED BY <1>19, <1>20, <2>1, Recollects
<1> HIDE DEF u
<1> QED BY <1>6, <1>7, <1>18, <1>19, <1>21, Remembered

LEMMA PatchAllFrame ==
  ASSUME NEW o, Frame(o), o.reachable, NEW ps
  PROVE  LET e == PatchAll(o, ps)
             n == Len(o.code)
         IN  /\ Frame(e) /\ Len(e.code) = n /\ e.height = o.height
             /\ \A q \in 1..n : q \notin ps => e.code[q] = o.code[q]
             /\ \A q \in 1..n : q \in ps =>
                  /\ e.code[q].op = o.code[q].op /\ e.code[q].height = o.code[q].height
                  /\ e.code[q].arg = n + 1
<1> DEFINE n == Len(o.code)
           c2 == [i \in DOMAIN o.code |->
                    IF i \in ps THEN [o.code[i] EXCEPT !.arg = n + 1] ELSE o.code[i]]
           e == PatchAll(o, ps)
           ok == o.ok /\ \A p \in ps : o.code[p].height = o.height
<1>1. n \in Nat /\ DOMAIN o.code = 1..n
  <2>1. PICK X : o.code \in Seq(X)
    BY DEF Frame, IsSeq
  <2> QED BY <2>1
<1>2. ASSUME NEW q \in 1..n
      PROVE  /\ {"op", "arg", "height"} \subseteq DOMAIN c2[q]
             /\ q \notin ps => c2[q] = o.code[q]
             /\ q \in ps => /\ c2[q].op = o.code[q].op /\ c2[q].height = o.code[q].height
                            /\ c2[q].arg = n + 1
  <2>1. {"op", "arg", "height"} \subseteq DOMAIN o.code[q]
    BY DEF Frame
  <2> QED BY <1>1, <2>1
<1>3. IsSeq(c2) /\ Len(c2) = n
  <2> DEFINE Y == {c2[i] : i \in 1..n}
  <2>1. c2 \in [1..n -> Y]
    BY <1>1
  <2> HIDE DEF c2, Y
  <2>2. c2 \in Seq(Y)
    BY <1>1, <2>1, SeqDef
  <2>3. Len(c2) = n
    BY <1>1, <2>1, <2>2
  <2> QED BY <2>2, <2>3 DEF IsSeq
<1> HIDE DEF c2
<1>4. e = [o EXCEPT !.code = c2, !.height = o.height, !.reachable = o.reachable \/ ps # {}, !.ok = ok]
  BY DEF PatchAll, Here, c2
<1> HIDE DEF e, ok
<1>5. e.code = c2 /\ e.height = o.height /\ DOMAIN e = DOMAIN o
  BY <1>4 DEF Frame
<1>6. Frame(e)
  BY <1>2, <1>3, <1>5 DEF Frame
<1> QED BY <1>2, <1>3, <1>5, <1>6 DEF e

(* The way back and the way out of a loop.                                 *)
LEMMA KnowsExit ==
  ASSUME NEW o, Frame(o), o.height \in Nat, NEW L, NEW locs, NEW d, Knows(L, o, locs, d),
         Beneath(Held(locs, d), o.height), NEW start, Forth(L, locs, start, d),
         NEW p \in 1..Len(o.code), o.code[p].op \in Awaiting, o.code[p].height = o.height + 1,
         Back(L, locs, p, d)
  PROVE  LET e == Emit(PatchJump(Emit(o, LoopOp, start), p), PopOp, 0)
         IN  /\ Frame(e) /\ e.height = o.height
             /\ \E M : Knows(M, e, locs, d) /\ Extends(L, M)
<1> DEFINE m == PatchJump(Emit(o, LoopOp, start), p)
           z == 0
           e == Emit(m, PopOp, z)
           X == Held(locs, d)
<1>1. LoopOp \in {"jump", "loop"}
  BY DEF LoopOp
<1>2. Turns(Instruction(LoopOp, start, o.height), L, X)
  <2> DEFINE i == Instruction(LoopOp, start, o.height)
  <2>1. i.arg = start
    BY DEF Instruction
  <2> HIDE DEF i
  <2> QED BY <2>1 DEF Turns, Forth, i
<1>3. /\ Frame(m) /\ m.height = o.code[p].height /\ Beneath(X, m.height)
      /\ \E M : Knows(M, m, locs, d) /\ Extends(L, M)
  BY <1>1, <1>2, KnowsAcross
<1>4. PICK M : Knows(M, m, locs, d) /\ Extends(L, M)
  BY <1>3
<1> HIDE DEF m, X
<1>5. Quiet(PopOp, z)
  BY DEF Quiet, PopOp, NameOp, CloseOp, Reads, Jumping, Awaiting
<1>6. Frame(e) /\ e.height = m.height - 1
  <2>1. m.height \in Nat
    BY <1>3
  <2> QED BY <1>3, <2>1, PopFrame
<1>7. \E N : Knows(N, e, locs, d) /\ Extends(M, N)
  BY <1>3, <1>4, <1>5, KnowsEmit DEF X
<1>8. PICK N : Knows(N, e, locs, d) /\ Extends(M, N)
  BY <1>7
<1>9. Extends(L, N)
  BY <1>4, <1>8, ExtendsTransitive
<1>10. e.height = o.height
  BY <1>3, <1>6
<1> QED BY <1>6, <1>8, <1>9, <1>10 DEF e, m, z

(* What is known where the breaks of a loop are going to land.             *)
LEMMA LoopKnows ==
  ASSUME NowWorking, NowWorking', Remembering, EndLoop
  PROVE  /\ Frame(Closed)
         /\ \E Q \in Places : \E L, M :
              /\ LeavesLoop(Q) /\ Ordered(locals)
              /\ Named(Closed.code, M) /\ Extends(L, M) /\ M[Here(Closed)] = Held(locals, Q.d)
              /\ Recalled(L, loops, locals, Tail(todo), Q.d, depth, Len(loops) - 1)
              /\ \A b \in Last(loops).breaks : Back(L, locals, b, Q.d)
<1> DEFINE t == Tail(todo)
           it == todo[1]
           n == Len(loops)
           Z == Held(locals, depth)
<1>1. /\ todo # << >> /\ EndsLoopItem(it) /\ KnownOf(out) /\ n >= 1
      /\ out' = PatchAll(Closed, Last(loops).breaks) /\ Patchable(out, it.p, out.height + 1)
      /\ Closed.reachable /\ CodeOK(Closed) /\ \E Q \in Places : LeavesLoop(Q)
  BY LoopCloses
<1>2. PICK Q \in Places : LeavesLoop(Q)
  BY <1>1
<1>3. /\ locals \in Seq(Slots) /\ Len(locals) \in Nat /\ depth \in Nat /\ n \in Nat
      /\ out.height \in Nat /\ \A i \in 1..Len(locals) : locals[i].depth \in Int
  BY <1>1 DEF KnownOf, Known
<1>4. PICK L : Knows(L, out, locals, depth) /\ Recalled(L, loops, locals, todo, depth, depth, n)
  BY DEF Remembering
<1>5. PICK w \in Int, m \in Int :
        /\ Recall(L, loops, locals, it, depth, w, n, m)
        /\ w <= depth /\ m <= n /\ Recalled(L, loops, locals, t, w, depth, m)
  BY <1>1, <1>4, RecalledTail
<1>6. EndsScope(it) <=> it.scope = TRUE
  BY <1>1 DEF EndsScope, EndsLoopItem
<1>7. m = n - 1 /\ w = Q.d
  <2>1. m = n - 1 /\ w = (IF it.scope = TRUE THEN depth - 1 ELSE depth)
    BY <1>1, <1>5, <1>6 DEF Recall
  <2> QED BY <1>2, <2>1 DEF LeavesLoop
<1>8. /\ Back(L, locals, it.p, depth) /\ Forth(L, locals, it.start, depth)
      /\ LoopRecalls(L, locals, loops[n], depth, w)
  BY <1>1, <1>5 DEF Recall
<1>9. \A b \in Last(loops).breaks : Back(L, locals, b, Q.d)
  BY <1>7, <1>8 DEF LoopRecalls, Last
<1>10. Frame(out) /\ Beneath(Z, out.height) /\ Ordered(locals)
  BY <1>1, <1>4, KnownBeneath DEF Knows
<1>11. it.p \in 1..Len(out.code) /\ out.code[it.p].op \in Awaiting /\ out.code[it.p].height = out.height + 1
  BY <1>1 DEF Patchable
<1>12. Exited = Emit(PatchJump(Emit(out, LoopOp, it.start), it.p), PopOp, 0)
  BY DEF Exited, LoopOp
<1> HIDE DEF it, t, n, Z
<1>13. /\ Frame(Exited) /\ Exited.height = out.height
       /\ \E M : Knows(M, Exited, locals, depth) /\ Extends(L, M)
  BY <1>3, <1>4, <1>8, <1>10, <1>11, <1>12, KnowsExit DEF Z
<1>14. PICK M : Knows(M, Exited, locals, depth) /\ Extends(L, M)
  BY <1>13
<1>15. Frame(Closed) /\ \E N : Named(Closed.code, N) /\ Extends(L, N) /\ N[Here(Closed)] = Held(locals, Q.d)
  <2>1. CASE it.scope = FALSE
    <3>1. Closed = Exited /\ Q.d = depth
      BY <1>2, <2>1 DEF Closed, it, LeavesLoop
    <3> QED BY <1>13, <1>14, <3>1 DEF Knows
  <2>2. CASE it.scope = TRUE
    <3> DEFINE pops == PopsToDepth(Q.d)
               X == Held(locals, Q.d)
               h == out'.height
    <3>1. Closed = EmitPops(Exited, pops) /\ Q.d = depth - 1 /\ locals' = Keep(Q.d) /\ ScopeOf(Q)
      BY <1>2, <2>2 DEF Closed, it, LeavesLoop, ScopeOf
    <3>2. pops \in Seq(PopOps) /\ Len(pops) = Len(locals) - Q.n
      BY <1>3, <3>1, ScopeLocals DEF ScopeOf
    <3>3. Q.n \in Nat /\ Q.d \in Int /\ depth \in Int /\ Q.d <= depth
      BY <1>3, <3>1 DEF Places
    <3>4. Beneath(X, h)
      BY <1>1, <1>10, <3>1, LeftBeneath
    <3>5. Frame(Closed) /\ h = Closed.height
      <4>1. Frame(Closed)
        BY <1>1, FrameOf
      <4> QED BY <1>1, <4>1, PatchAllFrame
    <3> HIDE DEF pops, X, h
    <3>6. h = Exited.height - Len(pops) /\ h \in Nat /\ Len(pops) \in Nat
      <4>1. Closed.height = Exited.height - Len(pops)
        BY <1>13, <3>1 DEF EmitPops, Frame
      <4>2. Closed.height \in Nat
        BY <1>1, FrameOf
      <4> QED BY <3>2, <3>5, <4>1, <4>2
    <3>7. Len(pops) <= Exited.height
      BY <1>3, <1>13, <3>6
    <3>8. X \subseteq Z
      <4>1. \A i \in 1..Len(locals) : InScope(locals, i, Q.d) => InScope(locals, i, depth)
        BY <1>3, <3>3 DEF InScope
      <4> QED BY <4>1 DEF Held, X, Z
    <3>9. Len(pops) = 0 => X = Z
      <4> SUFFICES ASSUME Len(pops) = 0 PROVE X = Z
        OBVIOUS
      <4>1. Q.n = Len(locals)
        BY <1>3, <3>2, <3>3
      <4> QED BY <1>3, <3>1, <3>3, <4>1, KeptHeld DEF ScopeOf, X, Z
    <3>10. Popped(Exited, M, locals, depth, pops, X, h)
      <4>1. Beneath(Held(locals, depth), Exited.height) /\ Exited.height \in Nat
        BY <1>3, <1>10, <1>13 DEF Z
      <4> QED BY <1>13, <1>14, <3>2, <3>4, <3>6, <3>7, <3>8, <3>9, <4>1 DEF Popped, Z
    <3>11. \E N : Named(Closed.code, N) /\ Extends(M, N) /\ N[Here(Closed)] = X
      BY <3>1, <3>10, NamedPops
    <3> QED BY <1>14, <3>5, <3>11, ExtendsTransitive DEF X
  <2> QED BY <1>2, <2>1, <2>2 DEF LeavesLoop, it
<1>16. Recalled(L, loops, locals, t, Q.d, depth, n - 1)
  BY <1>5, <1>7
<1> QED BY <1>2, <1>9, <1>10, <1>15, <1>16 DEF t, n

LEMMA RememberEndLoop == ASSUME NowWorking, Remembering, EndLoop PROVE Remembering'
<1> DEFINE t == Tail(todo)
           n == Len(loops)
           ls == Front(loops)
           breaks == Last(loops).breaks
           m == Len(Closed.code)
           e == PatchAll(Closed, breaks)
<1>1. NowWorking'
  BY StepEndLoop
<1>2. /\ KnownOf(out) /\ todo' = t /\ out' = e /\ loops' = ls /\ Closed.reachable /\ n >= 1
      /\ \A b \in breaks : Patchable(Closed, b, Closed.height)
  BY LoopCloses
<1>20. PICK Q \in Places : \E L, M :
        /\ LeavesLoop(Q) /\ Ordered(locals)
        /\ Named(Closed.code, M) /\ Extends(L, M) /\ M[Here(Closed)] = Held(locals, Q.d)
        /\ Recalled(L, loops, locals, t, Q.d, depth, n - 1)
        /\ \A b \in breaks : Back(L, locals, b, Q.d)
  BY <1>1, LoopKnows
<1>3. PICK L, M :
        /\ LeavesLoop(Q) /\ Ordered(locals)
        /\ Named(Closed.code, M) /\ Extends(L, M) /\ M[Here(Closed)] = Held(locals, Q.d)
        /\ Recalled(L, loops, locals, t, Q.d, depth, n - 1)
        /\ \A b \in breaks : Back(L, locals, b, Q.d)
  BY <1>20
<1>4. Frame(Closed) /\ m \in Nat
  BY <1>1, LoopKnows, FrameLen
<1>5. loops \in Seq(Loops) /\ n \in Nat /\ depth \in Nat /\ Q.d \in Int
  BY <1>2 DEF KnownOf, Known, Places
<1>6. Len(ls) = n - 1 /\ \A k \in 1..n - 1 : ls[k] = loops[k]
  BY <1>2, <1>5, LoopRemoved
<1> HIDE DEF t, n, ls, breaks, m, e
<1>7. /\ Len(e.code) = m
      /\ \A q \in 1..m : q \notin breaks => e.code[q] = Closed.code[q]
      /\ \A q \in 1..m : q \in breaks =>
           /\ e.code[q].op = Closed.code[q].op /\ e.code[q].height = Closed.code[q].height
           /\ e.code[q].arg = m + 1
  BY <1>2, <1>4, PatchAllFrame DEF e, m
<1>8. \A q \in 1..m : q \in breaks => Closed.code[q].op \in Awaiting /\ M[m + 1] \subseteq M[q]
  <2> SUFFICES ASSUME NEW q \in 1..m, q \in breaks
               PROVE  Closed.code[q].op \in Awaiting /\ M[m + 1] \subseteq M[q]
    OBVIOUS
  <2>1. Closed.code[q].op \in Awaiting
    BY <1>2 DEF Patchable
  <2>2. M[m + 1] = Held(locals, Q.d)
    BY <1>3 DEF Here, m
  <2>3. Held(locals, Q.d) \subseteq L[q] /\ M[q] = L[q]
    BY <1>3 DEF Back, Extends
  <2> QED BY <2>1, <2>2, <2>3
<1>9. Patched(Closed.code, m, e.code, M, breaks)
  <2>1. Len(Closed.code) = m
    BY DEF m
  <2> QED BY <1>3, <1>7, <1>8, <2>1 DEF Patched
<1>10. Named(e.code, M)
  BY <1>4, <1>9, NamedPatched
<1>11. M[Here(e)] = Held(locals, Q.d)
  BY <1>3, <1>7 DEF Here, m
<1>12. Recalled(L, ls, locals, t, Q.d, depth, Len(ls))
  <2> DEFINE l == n - 1
  <2>1. \A k \in Int : \A v, w : k >= 1 /\ k <= l /\ LoopRecalls(L, locals, loops[k], v, w)
                               => LoopRecalls(L, locals, ls[k], v, w)
    <3>1. \A k \in Int : k >= 1 /\ k <= l => ls[k] = loops[k]
      BY <1>5, <1>6
    <3> QED BY <3>1
  <2>2. Len(ls) = l /\ depth \in Int
    BY <1>5, <1>6
  <2>3. Recalled(L, loops, locals, t, Q.d, depth, l)
    BY <1>3
  <2> HIDE DEF l
  <2> QED BY <2>1, <2>2, <2>3, RecallsLoops
<1>13. \/ locals' = Keep(Q.d) /\ depth' = Q.d /\ ScopeOf(Q)
       \/ UNCHANGED <<locals, depth>> /\ Q.d = depth
  BY <1>3 DEF LeavesLoop, ScopeOf
<1>14. CASE locals' = Keep(Q.d) /\ depth' = Q.d /\ ScopeOf(Q)
  <2> HIDE DEF e
  <2> QED BY <1>2, <1>3, <1>10, <1>11, <1>12, <1>14, RememberLeft
<1>15. CASE UNCHANGED <<locals, depth>> /\ Q.d = depth
  <2>1. depth \in Int /\ depth <= depth
    BY <1>5
  <2>2. Knows(M, e, locals, depth)
    BY <1>3, <1>10, <1>11, <1>15 DEF Knows
  <2>3. Recalled(M, ls, locals, t, depth, depth, Len(ls))
    <3>1. Recalled(L, ls, locals, t, depth, depth, Len(ls))
      BY <1>12, <1>15
    <3> QED BY <1>3, <2>1, <3>1, RecallsMore
  <2> HIDE DEF e
  <2> QED BY <1>2, <1>15, <2>1, <2>2, <2>3, Remembered
<1> QED BY <1>13, <1>14, <1>15

(* The pops of a break or a continue.                                      *)
LEMMA KnowsLeave ==
  ASSUME KnownOf(out), NEW L, Knows(L, out, locals, depth), NEW A \in Places, NEW h, Leads(A, h),
         h = H(A), A.d <= depth
  PROVE  LET m == EmitPops(out, PopsToDepth(A.d))
         IN  /\ Frame(m) /\ m.height = h /\ Beneath(Held(locals, A.d), h)
             /\ \E M : Named(m.code, M) /\ Extends(L, M) /\ M[Here(m)] = Held(locals, A.d)
<1> DEFINE pops == PopsToDepth(A.d)
           m == EmitPops(out, pops)
           X == Held(locals, A.d)
           Z == Held(locals, depth)
<1>1. /\ A.x = 1 /\ A.n <= Len(locals) /\ Fits(locals, A) /\ (\A i \in Undefined(locals) : i <= A.n)
      /\ h \in Nat /\ out.height - (Len(locals) - A.n) = h
  BY DEF Leads
<1>2. /\ locals \in Seq(Slots) /\ Len(locals) \in Nat /\ depth \in Nat /\ out.height \in Nat
      /\ \A i \in 1..Len(locals) : locals[i].depth \in Int
  BY DEF KnownOf, Known
<1>3. A.n \in Nat /\ A.d \in Int /\ A.e \in Int /\ depth \in Int
  BY <1>2 DEF Places
<1>4. Frame(out) /\ Beneath(Z, out.height) /\ Ordered(locals)
  BY KnownBeneath DEF Knows
<1>5. pops \in Seq(PopOps) /\ Len(pops) = Len(locals) - A.n
  BY <1>1, <1>2, ScopeLocals
<1>6. Beneath(X, h)
  <2>1. \A i \in 1..Len(locals) : locals[i].slot \in Nat /\ locals[i].depth \in Int
    BY <1>2, <1>4 DEF Ordered
  <2>2. HasSlots(locals, A.e, A.n, A.d) /\ h = A.e + A.n
    BY <1>1 DEF Fits, H
  <2> QED BY <1>1, <1>3, <2>1, <2>2, HasBeneath
<1> HIDE DEF pops, X, Z
<1>7. h = out.height - Len(pops) /\ Len(pops) <= out.height /\ Len(pops) \in Nat
  BY <1>1, <1>2, <1>3, <1>5
<1>8. X \subseteq Z
  <2>1. \A i \in 1..Len(locals) : InScope(locals, i, A.d) => InScope(locals, i, depth)
    BY <1>2, <1>3 DEF InScope
  <2> QED BY <2>1 DEF Held, X, Z
<1>9. Len(pops) = 0 => X = Z
  <2> SUFFICES ASSUME Len(pops) = 0 PROVE X = Z
    OBVIOUS
  <2>1. A.n = Len(locals)
    BY <1>2, <1>3, <1>5
  <2> QED BY <1>1, <1>2, <1>3, <2>1, KeptHeld DEF X, Z
<1>10. Popped(out, L, locals, depth, pops, X, h)
  BY <1>2, <1>4, <1>5, <1>6, <1>7, <1>8, <1>9 DEF Popped, Z
<1>11. Frame(m) /\ m.height = h
  BY <1>2, <1>4, <1>5, <1>7, PopsFrame
<1>12. \E M : Named(m.code, M) /\ Extends(L, M) /\ M[Here(m)] = X
  BY <1>10, NamedPops
<1> QED BY <1>6, <1>11, <1>12 DEF pops, X

(* Behind a jump anything may be said of the slots.                        *)
LEMMA FlowsAway ==
  ASSUME NEW op \in {"jump", "loop"}, NEW arg, NEW h, NEW X, NEW Z
  PROVE  Flows(Instruction(op, arg, h), X, Z)
<1> DEFINE i == Instruction(op, arg, h)
<1>1. i.op = op
  BY DEF Instruction
<1>2. op \notin Flowing /\ op # NameOp /\ op # CloseOp /\ op \notin Reads
  BY DEF Flowing, NameOp, CloseOp, Reads
<1> HIDE DEF i
<1>3. Flows(i, X, Z)
  BY <1>1, <1>2 DEF Flows
<1> QED BY <1>3 DEF i

(* What a break or a continue finds.                                       *)
LEMMA JumpKnows ==
  ASSUME NowWorking, Remembering, Stating \/ Doing("jump"), loops # << >>
  PROVE  /\ KnownOf(out) /\ IsSeq(Tail(todo)) /\ depth \in Nat /\ Len(loops) \in Nat /\ Len(loops) >= 1
         /\ \E L : /\ Knows(L, out, locals, depth) /\ Memory(L, Tail(todo), depth)
                   /\ \E v, w \in Int : /\ v <= depth /\ w <= v
                                        /\ LoopRecalls(L, locals, loops[Len(loops)], v, w)
<1> DEFINE t == Tail(todo)
           n == Len(loops)
<1>1. KnownOf(out) /\ IsSeq(t)
  BY NextJump
<1>2. depth \in Nat /\ n \in Nat /\ n >= 1 /\ n \in 1..n /\ depth \in Int
  BY <1>1 DEF KnownOf, Known
<1>3. \E L : Knows(L, out, locals, depth) /\ Memory(L, t, depth)
  BY HeadingState, Heading
<1>4. PICK L : Knows(L, out, locals, depth) /\ Memory(L, t, depth)
  BY <1>3
<1>5. Recalled(L, loops, locals, t, depth, depth, n)
  BY <1>4 DEF Memory
<1> HIDE DEF t, n
<1>6. \E v, w \in Int : v <= depth /\ w <= v /\ w <= depth /\ LoopRecalls(L, locals, loops[n], v, w)
  BY <1>2, <1>5, RecallLoop
<1> QED BY <1>1, <1>2, <1>4, <1>6 DEF t, n

LEMMA RememberContinue ==
  ASSUME NowWorking, Remembering, Plain, Stating \/ Doing("jump"), Continue, Do(<< >>)
  PROVE  Remembering'
<1> DEFINE t == Tail(todo)
           n == Len(loops)
           loop == Last(loops)
           target == loop.continueTarget
           m == EmitPops(out, PopsToDepth(loop.continueDepth))
           a == Emit(m, LoopOp, target)
           e == [a EXCEPT !.height = out.height]
           Z == Held(locals, depth)
<1>1. loops # << >> /\ StatementPosition
  BY DEF Continue
<1>2. KnownOf(out) /\ IsSeq(t) /\ depth \in Nat
  BY <1>1, JumpKnows
<1>3. PICK L : /\ Knows(L, out, locals, depth) /\ Memory(L, t, depth)
               /\ \E v, w \in Int : v <= depth /\ w <= v /\ LoopRecalls(L, locals, loops[n], v, w)
  BY <1>1, JumpKnows
<1>4. PICK v, w \in Int : v <= depth /\ w <= v /\ LoopRecalls(L, locals, loops[n], v, w)
  BY <1>3
<1>5. loop = loops[n] /\ \E A \in Places : Leads(A, H(A)) /\ loop.continueDepth = A.d
  <2>1. From(out, t, 0, Jumps)
    BY NextJump
  <2> QED BY <1>1, <1>2, <2>1, LoopAround
<1>6. PICK A \in Places : Leads(A, H(A)) /\ loop.continueDepth = A.d
  BY <1>5
<1>7. v = A.d /\ Forth(L, locals, target, A.d) /\ A.d <= depth
  BY <1>4, <1>5, <1>6 DEF LoopRecalls
<1>8. out' = e /\ todo' = << >> \o t /\ UNCHANGED <<locals, depth, loops>>
  BY DEF Continue, LoopOp, Do
<1>9. todo' = t
  <2> HIDE DEF t
  <2> QED BY <1>2, <1>8, Items0
<1> DEFINE X == Held(locals, A.d)
           h == H(A)
<1>10. m = EmitPops(out, PopsToDepth(A.d))
  BY <1>6
<1>11. Leads(A, h) /\ h = H(A)
  BY <1>6
<1> HIDE DEF t, n, loop, target, m, X, h
<1>12. /\ Frame(m) /\ m.height = h /\ Beneath(X, h)
       /\ \E M : Named(m.code, M) /\ Extends(L, M) /\ M[Here(m)] = X
  BY <1>2, <1>3, <1>7, <1>10, <1>11, KnowsLeave DEF X
<1>13. PICK M : Named(m.code, M) /\ Extends(L, M) /\ M[Here(m)] = X
  BY <1>12
<1>14. Turns(Instruction(LoopOp, target, m.height), M, X)
  <2> DEFINE i == Instruction(LoopOp, target, m.height)
  <2>1. i.arg = target
    BY DEF Instruction
  <2>2. target \in DOMAIN M /\ M[target] \subseteq X
    BY <1>7, <1>13 DEF Forth, Extends, X
  <2> HIDE DEF i
  <2> QED BY <2>1, <2>2 DEF Turns, i
<1>15. LoopOp \in {"jump", "loop"}
  BY DEF LoopOp
<1>16. \E N : Named(a.code, N) /\ Extends(M, N) /\ N[Here(a)] = Z
  <2>1. Beneath(M[Here(m)], m.height) /\ Turns(Instruction(LoopOp, target, m.height), M, M[Here(m)])
    BY <1>12, <1>13, <1>14
  <2>2. Frame(m) /\ Named(m.code, M)
    BY <1>12, <1>13
  <2> HIDE DEF Z
  <2>3. Flows(Instruction(LoopOp, target, m.height), M[Here(m)], Z)
    BY <1>15, FlowsAway
  <2> QED BY <2>1, <2>2, <2>3, NamedEmit
<1>17. PICK N : Named(a.code, N) /\ Extends(M, N) /\ N[Here(a)] = Z
  BY <1>16
<1>18. Extends(L, N)
  BY <1>13, <1>17, ExtendsTransitive
<1>19. e.code = a.code
  <2>1. Frame(a)
    BY <1>12, EmitFrame
  <2> HIDE DEF a
  <2> QED BY <2>1 DEF Frame
<1>20. Ordered(locals)
  BY <1>3 DEF Knows
<1> HIDE DEF e, a
<1>21. Knows(N, out', locals, depth)
  BY <1>8, <1>17, <1>19, <1>20 DEF Knows, Here, Z
<1> QED BY <1>2, <1>3, <1>8, <1>9, <1>18, <1>21, RememberCode

LEMMA RememberBreak ==
  ASSUME NowWorking, Remembering, Plain, Stating \/ Doing("jump"), Break, Do(<< >>)
  PROVE  Remembering'
<1> DEFINE t == Tail(todo)
           n == Len(loops)
           loop == Last(loops)
           m == EmitPops(out, PopsToDepth(loop.scopeDepth))
           b == Here(m)
           z == 0
           a == Emit(m, JumpsOp, z)
           e == [a EXCEPT !.height = out.height]
           ls == [loops EXCEPT ![n].breaks = @ \cup {b}]
           Z == Held(locals, depth)
<1>1. loops # << >> /\ StatementPosition
  BY DEF Break
<1>2. KnownOf(out) /\ IsSeq(t) /\ depth \in Nat /\ n \in Nat /\ n >= 1
  BY <1>1, JumpKnows
<1>3. PICK L : /\ Knows(L, out, locals, depth) /\ Memory(L, t, depth)
               /\ \E v, w \in Int : v <= depth /\ w <= v /\ LoopRecalls(L, locals, loops[n], v, w)
  BY <1>1, JumpKnows
<1>4. PICK v, w \in Int : v <= depth /\ w <= v /\ LoopRecalls(L, locals, loops[n], v, w)
  BY <1>3
<1>5. loop = loops[n]
      /\ \E B \in Places : Leads(B, EndHeight(locals, loop)) /\ loop.scopeDepth = B.d /\ EndHeight(locals, loop) = H(B)
  <2>1. From(out, t, 0, Jumps)
    BY NextJump
  <2> QED BY <1>1, <1>2, <2>1, LoopAround
<1>6. PICK B \in Places : Leads(B, EndHeight(locals, loop)) /\ loop.scopeDepth = B.d /\ EndHeight(locals, loop) = H(B)
  BY <1>5
<1>7. loops[n].scopeDepth = B.d /\ B.d <= depth
  <2>1. w = B.d
    BY <1>4, <1>5, <1>6 DEF LoopRecalls
  <2> QED BY <1>2, <1>4, <1>5, <1>6, <2>1
<1>8. out' = e /\ loops' = ls /\ todo' = << >> \o t /\ UNCHANGED <<locals, depth>>
  BY DEF Break, JumpsOp, Do
<1>9. todo' = t
  <2> HIDE DEF t
  <2> QED BY <1>2, <1>8, Items0
<1>10. loops \in Seq(Loops)
  BY <1>2 DEF KnownOf, Known
<1> DEFINE X == Held(locals, B.d)
           h == EndHeight(locals, loop)
<1>11. m = EmitPops(out, PopsToDepth(B.d))
  BY <1>6
<1>12. Leads(B, h) /\ h = H(B)
  BY <1>6
<1> HIDE DEF t, n, loop, m, X, h
<1>13. /\ Frame(m) /\ m.height = h /\ Beneath(X, h)
       /\ \E M : Named(m.code, M) /\ Extends(L, M) /\ M[Here(m)] = X
  BY <1>2, <1>3, <1>7, <1>11, <1>12, KnowsLeave DEF X
<1>14. PICK M : Named(m.code, M) /\ Extends(L, M) /\ M[b] = X
  BY <1>13
<1>15. Turns(Instruction(JumpsOp, z, m.height), M, M[b])
  <2> DEFINE i == Instruction(JumpsOp, z, m.height)
  <2>1. i.arg = 0
    BY DEF Instruction
  <2> HIDE DEF i
  <2> QED BY <2>1 DEF Turns, i
<1>16. JumpsOp \in {"jump", "loop"}
  BY DEF JumpsOp
<1> HIDE DEF z
<1>17. \E N : Named(a.code, N) /\ Extends(M, N) /\ N[Here(a)] = Z
  <2>1. Beneath(M[b], m.height)
    BY <1>13, <1>14
  <2>2. Frame(m) /\ Named(m.code, M)
    BY <1>13, <1>14
  <2> HIDE DEF Z
  <2>3. Flows(Instruction(JumpsOp, z, m.height), M[b], Z)
    BY <1>16, FlowsAway
  <2> QED BY <1>15, <2>1, <2>2, <2>3, NamedEmit
<1>18. PICK N : Named(a.code, N) /\ Extends(M, N) /\ N[Here(a)] = Z
  BY <1>17
<1>19. Extends(L, N)
  BY <1>14, <1>18, ExtendsTransitive
<1>20. e.code = a.code
  <2>1. Frame(a)
    BY <1>13, EmitFrame
  <2> HIDE DEF a
  <2> QED BY <2>1 DEF Frame
<1>21. Ordered(locals)
  BY <1>3 DEF Knows
<1>22. Back(N, locals, b, B.d)
  <2>1. b \in DOMAIN M
    <3>1. Len(m.code) \in Nat
      BY <1>13, FrameLen
    <3> QED BY <1>14, <3>1 DEF Named, Here
  <2>2. b \in DOMAIN N /\ N[b] = M[b]
    BY <1>18, <2>1 DEF Extends
  <2> HIDE DEF b
  <2> QED BY <1>14, <2>2 DEF Back, X
<1> HIDE DEF e, a, b
<1>23. Knows(N, e, locals, depth)
  BY <1>18, <1>20, <1>21 DEF Knows, Here, Z
<1>24. depth \in Int /\ depth <= depth
  BY <1>2
<1>25. Recalled(N, loops, locals, t, depth, depth, n)
  <2>1. Recalled(L, loops, locals, t, depth, depth, n)
    BY <1>3 DEF Memory, n
  <2> QED BY <1>19, <1>24, <2>1, RecallsMore
<1>26. /\ Len(ls) = n /\ \A k \in 1..n : k # n => ls[k] = loops[k]
       /\ ls[n].scopeDepth = loops[n].scopeDepth /\ ls[n].continueDepth = loops[n].continueDepth
       /\ ls[n].continueTarget = loops[n].continueTarget /\ ls[n].breaks = loops[n].breaks \cup {b}
  <2>1. n \in 1..Len(loops) /\ DOMAIN loops = 1..n /\ Len(loops) = n
    BY <1>2, <1>10 DEF n
  <2>2. loops[n] \in Loops
    BY <1>10, <2>1
  <2>3. DOMAIN ls = 1..n
    BY <2>1
  <2>4. Len(ls) = n
    BY <1>10, <2>1
  <2> QED BY <1>2, <2>1, <2>2, <2>4 DEF Loops
<1> HIDE DEF ls
<1>27. Recalled(N, ls, locals, t, depth, depth, n)
  <2>1. ASSUME NEW k \in Int, NEW x, NEW y, k >= 1, k <= n, LoopRecalls(N, locals, loops[k], x, y)
        PROVE  LoopRecalls(N, locals, ls[k], x, y)
    <3>1. CASE k = n
      <4>1. y = B.d
        BY <1>7, <2>1, <3>1 DEF LoopRecalls
      <4> QED BY <1>22, <1>26, <2>1, <3>1, <4>1 DEF LoopRecalls
    <3>2. CASE k # n
      <4>1. ls[k] = loops[k]
        BY <1>2, <1>26, <2>1, <3>2
      <4> QED BY <2>1, <4>1
    <3> QED BY <3>1, <3>2
  <2> QED BY <1>24, <1>25, <2>1, RecallsLoops
<1>28. Recalled(N, ls, locals, t, depth, depth, Len(ls))
  BY <1>26, <1>27
<1> QED BY <1>8, <1>9, <1>23, <1>24, <1>28, Remembered

LEMMA RememberJump == ASSUME NowWorking, Remembering, Plain, Jump PROVE Remembering'
<1>1. (Stating \/ Doing("jump")) /\ (Break \/ Continue) /\ Do(<< >>)
  BY DEF Jump
<1> QED BY <1>1, RememberBreak, RememberContinue

LEMMA RememberWalk ==
  ASSUME NowWorking, nodes \in Nat, Plain, Remembering, Walk
  PROVE  Remembering'
BY RememberCheckStatement, RememberEmitOperator, RememberStatements, RememberExprStmt,
   RememberVarDecl, RememberDefineVariable, RememberBlock, RememberBlockValue, RememberEndScope,
   RememberIf, RememberIfExpr, RememberThen, RememberElse, RememberPatch, RememberWhile,
   RememberWhileBody, RememberFor, RememberForCondition, RememberForExit, RememberForIncrement,
   RememberEndLoop, RememberJump, RememberReturn, RememberFinishReturn, RememberLiteral,
   RememberBinary, RememberAnd, RememberAndRight, RememberBlockExpr, RememberCloseBlockExpr,
   RememberVariable, RememberLambda, RememberFunctionDecl
   DEF Walk

(* Where nothing is known and nothing but statements is left.              *)
LEMMA InitRemembers == Init => Remembering
<1> SUFFICES ASSUME Init PROVE Remembering
  OBVIOUS
<1> DEFINE none == << >>
           it == [do |-> "stmts"]
           L == [t \in 1..1 |-> {}]
           d == 1
           z == 0
<1>1. /\ out.code = << >> /\ todo = <<it>> /\ locals = none /\ loops = none /\ depth = d
  BY DEF Init
<1>2. Len(out.code) = 0 /\ Here(out) = 1 /\ Len(none) = 0 /\ IsSeq(none)
  <2>1. none \in Seq({})
    OBVIOUS
  <2> QED BY <1>1, <2>1 DEF Here, IsSeq
<1>3. DOMAIN L = 1..1 /\ L[1] = {}
  OBVIOUS
<1>4. Held(none, d) = {} /\ Ordered(none)
  <2>1. \A i \in 1..Len(none) : FALSE
    BY <1>2
  <2> HIDE DEF none, d
  <2> QED BY <2>1 DEF Held, Ordered
<1> HIDE DEF L
<1>5. Named(out.code, L)
  <2>1. \A q \in 1..Len(out.code) : FALSE
    BY <1>2
  <2>2. 1..Len(out.code) + 1 = 1..1
    BY <1>2
  <2> QED BY <1>3, <2>1, <2>2 DEF Named
<1>6. Knows(L, out, none, d)
  BY <1>2, <1>3, <1>4, <1>5 DEF Knows
<1>7. d \in Int /\ z \in Int /\ z < d /\ z <= d
  OBVIOUS
<1>8. Recalled(L, none, none, none, d, z, z)
  <2> DEFINE D == [k \in 1..1 |-> d]
             M == [k \in 1..1 |-> z]
             n == Len(none)
  <2>1. D \in [1..1 -> Int] /\ M \in [1..1 -> Int] /\ D[1] = d /\ M[1] = z
    OBVIOUS
  <2>2. n + 1 = 1 /\ (\A k \in 1..n : FALSE) /\ (\A m \in 1..z : FALSE)
        /\ \A j, k \in 1..1 : ~ (j < k)
    BY <1>2
  <2> HIDE DEF D, M, n, none, d, z
  <2>3. RecallAll(L, none, none, none, D, M, z)
    <3>1. 1..n + 1 = 1..1 /\ 1..M[1] = 1..z
      BY <2>1, <2>2
    <3> QED BY <2>2, <3>1 DEF RecallAll, n
  <2>4. 1..Len(none) + 1 = 1..1
    BY <2>2 DEF n
  <2> QED BY <1>2, <2>1, <2>3, <2>4 DEF Recalled
<1>9. Declares(it)
  BY DEF Declares
<1>10. todo = Cons(it, none)
  BY <1>1 DEF Cons
<1> HIDE DEF none, it, d, z
<1>11. Recalled(L, none, none, Cons(it, none), d, z, z)
  BY <1>7, <1>8, <1>9, Recollects
<1>12. Recalled(L, none, none, Cons(it, none), d, d, z)
  BY <1>7, <1>11, RecalledMore
<1>13. Len(loops) = z
  BY <1>1, <1>2 DEF z
<1> QED BY <1>1, <1>6, <1>10, <1>12, <1>13 DEF Remembering

(* Before the first instruction nothing is known.                          *)
LEMMA EndCompilerHolds ==
  ASSUME NowWorking, Remembering, EndCompiler, pc = 1
  PROVE  Holds'
<1> DEFINE op1 == "constant"
           op2 == "return"
           z == 0
           m == Emit(out, op1, z)
           e == Emit(m, op2, z)
           Z == Held(locals, depth)
<1>1. out' = e /\ UNCHANGED <<pc, stack>> /\ KnownOf(out)
  BY AllPatched DEF EndCompiler, machine
<1>2. PICK L : Knows(L, out, locals, depth)
  BY DEF Remembering
<1>3. Frame(out) /\ Beneath(Z, out.height) /\ out.height \in Nat
  BY <1>1, <1>2, KnownBeneath, FrameOf DEF KnownOf, Known
<1>4. Quiet(op1, z) /\ Quiet(op2, z) /\ Effect(op1, z) = 1
  BY ReturnOps DEF Quiet, NameOp, CloseOp, Reads
<1> HIDE DEF op1, op2, z
<1>5. Frame(m) /\ m.height = out.height + 1
  <2> DEFINE f == Effect(op1, z)
  <2>1. Frame(m) /\ m.height = out.height + f
    BY <1>3, EmitFrame
  <2>2. f = 1
    BY <1>4
  <2> HIDE DEF f, m
  <2> QED BY <2>1, <2>2
<1>6. \E M : Knows(M, m, locals, depth) /\ Extends(L, M)
  BY <1>2, <1>3, <1>4, KnowsEmit
<1>7. PICK M : Knows(M, m, locals, depth)
  BY <1>6
<1>8. Beneath(Z, m.height)
  <2>1. \A x \in Z : x[1] \in Nat /\ x[1] < out.height
    BY <1>3 DEF Beneath
  <2>2. \A x \in Z : x[1] < out.height + 1
    <3> HIDE DEF Z
    <3> QED BY <1>3, <2>1
  <2> QED BY <1>5, <2>1, <2>2 DEF Beneath
<1> HIDE DEF m
<1>9. \E N : Knows(N, e, locals, depth) /\ Extends(M, N)
  BY <1>4, <1>5, <1>7, <1>8, KnowsEmit
<1>10. PICK N : Knows(N, e, locals, depth)
  BY <1>9
<1> HIDE DEF e
<1>11. Named(e.code, N) /\ N[1] = {}
  BY <1>10 DEF Knows, Named
<1>12. pc' = 1 /\ out' = e
  BY <1>1
<1>13. True(N, pc', stack')
  BY <1>11, <1>12 DEF True
<1> QED BY <1>11, <1>12, <1>13 DEF Holds

MInv ==
  /\ IInv
  /\ phase = "compile" => Remembering
  /\ phase = "run" => Holds

LEMMA NextMInv == Plain /\ MInv /\ [Next]_vars => MInv'
<1> SUFFICES ASSUME Plain, MInv, [Next]_vars PROVE MInv'
  OBVIOUS
<1>1. IInv /\ IInv'
  BY NextIInv DEF MInv
<1>2. CASE Walk
  <2>1. phase = "compile" /\ phase' = phase
    BY <1>2, WalkCounts, WalkCompiles DEF Counts
  <2>2. NowWorking /\ nodes \in Nat /\ Remembering
    BY <2>1 DEF MInv, IInv
  <2>3. Remembering'
    BY <1>2, <2>2, RememberWalk
  <2> QED BY <1>1, <2>1, <2>3 DEF MInv
<1>3. CASE EndCompiler
  <2>1. phase = "compile" /\ phase' = "run"
    BY <1>3 DEF EndCompiler
  <2>2. NowWorking /\ pc = 1 /\ Remembering
    BY <2>1 DEF MInv, IInv
  <2>3. Holds'
    BY <1>3, <2>2, EndCompilerHolds
  <2> QED BY <1>1, <2>1, <2>3 DEF MInv
<1>4. CASE Execute
  <2>1. phase = "run"
    BY <1>4 DEF Execute, PushValue, MakeClosure, Name, Pop, CloseUpvalue, CloseBlock,
       JumpIfFalse, TakeJump, ReturnValue, At
  <2>2. phase' = "run" \/ phase' = "done"
    <3>1. \A p, s, o : Run(p, s, o) => phase' = phase
      BY DEF Run
    <3> QED BY <1>4, <2>1, <3>1 DEF Execute, PushValue, MakeClosure, Name, Pop, CloseUpvalue,
            CloseBlock, JumpIfFalse, TakeJump, ReturnValue
  <2>3. Running /\ Holds
    BY <2>1 DEF MInv, IInv
  <2>4. phase' = "run" => Holds'
    BY <1>4, <2>3, ExecuteHolds
  <2> QED BY <1>1, <2>2, <2>4 DEF MInv
<1>5. CASE UNCHANGED vars
  <2>1. UNCHANGED <<phase, out, todo, nodes, locals, depth, loops, pc, stack>>
    BY <1>5 DEF vars, compiler, machine
  <2>2. (Remembering => Remembering') /\ (Holds => Holds')
    BY <2>1 DEF Remembering, Holds
  <2> QED BY <1>1, <2>1, <2>2 DEF MInv
<1> QED BY <1>2, <1>3, <1>4, <1>5 DEF Next, Compile, Walk

(* OP_GET_LOCAL reads and OP_CLOSURE captures the variable the source      *)
(* names: at every instruction, on every path, the slot that addLocal took *)
(* from the stack height holds the value of the latest declaration that    *)
(* the compiler put there, whatever was popped by the scopes, breaks and   *)
(* continues between.                                                      *)
THEOREM LocalsStayInTheirSlots == ASSUME Plain PROVE Spec => []LocalsAreInTheirSlots
<1>1. Init => MInv
  BY InitIInv, InitRemembers DEF MInv, Init
<1>2. MInv /\ [Next]_vars => MInv'
  BY NextMInv
<1>3. MInv => LocalsAreInTheirSlots
  BY HoldsReads DEF MInv, IInv, LocalsAreInTheirSlots, Reads
<1> QED BY <1>1, <1>2, <1>3, PTL DEF Spec
=============================================================================
