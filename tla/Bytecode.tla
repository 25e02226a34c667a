------------------------------ MODULE Bytecode ------------------------------
(***************************************************************************)
(* The code of a function (src/src/opcode.c, the emitters of               *)
(* src/src/compiler.c) and the machine that runs it (src/src/vm.c), as far *)
(* as the stack and the jumps go.                                          *)
(*                                                                         *)
(* The compiler counts the height of the stack along the text, and patches *)
(* a jump when it learns where it goes; the machine takes the code along   *)
(* paths the compiler never followed, either way at every conditional      *)
(* jump.  Values are abstracted to the declaration they belong to.         *)
(***************************************************************************)
EXTENDS Integers, Sequences

CONSTANT MaxStack   \* bound: slots of the frame

VARIABLES
  phase,   \* "compile", "run" or "done"
  out,     \* the code, the counted height, whether code here is reachable, no error yet
  pc,      \* the next instruction
  stack,   \* the frame's slots: the declaration of a local, or NONE
  open     \* slots with an open upvalue

machine == <<pc, stack, open>>

NONE == 0

----------------------------------------------------------------------------
(* Emitting code.                                                          *)

(* OpInfo.stackEffect.                                                     *)
Effect(op, arg) ==
  CASE op \in {"constant", "get local", "closure"} -> 1
    [] op \in {"add", "pop", "close upvalue", "return"} -> -1
    [] op = "close block" -> -arg
    [] OTHER -> 0

(* An instruction, with the height that the compiler counted before it.    *)
(* "name" stands for no code: it marks where a local starts to exist.      *)
Emit(o, op, arg) ==
  [o EXCEPT !.code = Append(@, [op |-> op, arg |-> arg, height |-> o.height]),
            !.height = @ + Effect(op, arg),
            !.reachable = @ /\ op \notin {"jump", "loop", "return"}]

(* Each of these drops the top of the stack.                               *)
EmitPops(o, pops) ==
  [o EXCEPT !.code = @ \o [k \in DOMAIN pops |->
                              [op |-> pops[k], arg |-> 0, height |-> o.height - (k - 1)]],
            !.height = @ - Len(pops)]

(* emitJump on the condition, and what both ways do with it first.         *)
EmitTest(o) == Emit(Emit(o, "jump if false", 0), "pop", 0)

Here(o) == Len(o.code) + 1

(* patchJump: the two ways in must agree, or the jump's height counts.     *)
PatchJump(o, p) ==
  LET agreed == IF o.reachable
                  THEN [o EXCEPT !.ok = @ /\ o.height = o.code[p].height]
                  ELSE [o EXCEPT !.height = o.code[p].height, !.reachable = TRUE]
  IN  [agreed EXCEPT !.code[p].arg = Here(o)]

(* endLoop patches the breaks in the order of the text: where nothing else *)
(* comes here, the first one counts.                                       *)
PatchAll(o, ps) ==
  LET first == CHOOSE p \in ps : \A q \in ps : p <= q
      reached == IF o.reachable \/ ps = {} THEN o.height ELSE o.code[first].height
  IN  [o EXCEPT !.code = [i \in DOMAIN @ |-> IF i \in ps THEN [@[i] EXCEPT !.arg = Here(o)] ELSE @[i]],
                !.height = reached,
                !.reachable = @ \/ ps # {},
                !.ok = @ /\ \A p \in ps : o.code[p].height = reached]

----------------------------------------------------------------------------
(* The machine.                                                            *)

At(ops) == phase = "run" /\ out.code[pc].op \in ops
Arg == out.code[pc].arg
Run(p, s, o) ==
  /\ pc' = p /\ stack' = s /\ open' = o
  /\ Len(s) <= MaxStack
  /\ UNCHANGED <<phase, out>>

PushValue == At({"constant", "get local"}) /\ Run(pc + 1, Append(stack, NONE), open)

(* OP_CLOSURE pushes the closure before it captures.                       *)
MakeClosure == At({"closure"}) /\ Run(pc + 1, Append(stack, NONE), open \cup {Arg.slot})

Name == At({"name"}) /\ Run(pc + 1, [stack EXCEPT ![Arg.slot + 1] = Arg.decl], open)

Pop == At({"pop", "add"}) /\ Run(pc + 1, SubSeq(stack, 1, Len(stack) - 1), open)

CloseUpvalue ==
  At({"close upvalue"}) /\ Run(pc + 1, SubSeq(stack, 1, Len(stack) - 1), open \ {Len(stack) - 1})

(* OP_CLOSE_BLOCK_EXPR closes what it drops under the value on top.        *)
CloseBlock ==
  /\ At({"close block"})
  /\ LET kept == Len(stack) - Arg - 1
     IN  Run(pc + 1, Append(SubSeq(stack, 1, kept), NONE), {s \in open : s < kept})

JumpIfFalse == At({"jump if false"}) /\ \E p \in {pc + 1, Arg} : Run(p, stack, open)

TakeJump == At({"jump", "loop"}) /\ Run(Arg, stack, open)

ReturnValue ==
  /\ At({"return"})
  /\ phase' = "done" /\ pc' = pc
  /\ stack' = <<NONE>> /\ open' = {}
  /\ out' = out

Execute ==
  \/ PushValue \/ MakeClosure \/ Name \/ Pop \/ CloseUpvalue \/ CloseBlock
  \/ JumpIfFalse \/ TakeJump \/ ReturnValue

----------------------------------------------------------------------------
(* Properties.                                                             *)

(* The compiler counts heights along the text and the machine runs along   *)
(* the jumps: they agree at every instruction on every path.               *)
HeightsAgree == phase = "run" => Len(stack) = out.code[pc].height

(* A variable that is read or captured is in the slot the compiler gave it *)
(* although operands may lie between the locals.                           *)
LocalsAreInTheirSlots ==
  phase = "run" /\ out.code[pc].op \in {"get local", "closure"} /\ Arg.slot < Len(stack)
    => stack[Arg.slot + 1] = Arg.decl

(* No slot with an open upvalue is popped except by OP_CLOSE_UPVALUE, on   *)
(* whichever path the scope is left: what a break or continue pops with a  *)
(* plain OP_POP has no open upvalue whenever it runs.  Not so where a      *)
(* lambda behind a break captures the variable of the loop, which lives on *)
(* in the next round: compileBreak has emitted OP_POP for it by then.      *)
CapturedSlotsAreClosed == \A s \in open : s < Len(stack)

(* checkStackHeight never fails: the compiler accepts every program of the *)
(* grammar.                                                                *)
NoInternalError == out.ok
=============================================================================
