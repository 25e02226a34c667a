------------------------------ MODULE Upvalues ------------------------------
(***************************************************************************)
(* The value stack, the call frames and the upvalues of the Kirby VM       *)
(* (src/src/vm.c): how a closure keeps a local variable of a frame alive.  *)
(*                                                                         *)
(* While the local's stack slot exists, an ObjUpvalue is OPEN: it points   *)
(* at the slot, and vm.openUpvalues lists the open ones, highest slot      *)
(* first, so that every closure capturing a slot finds the same upvalue.   *)
(* When the slot is given up the upvalue is CLOSED: the value moves into   *)
(* the upvalue.                                                            *)
(*                                                                         *)
(* One action is one instruction, except that OP_CLOSURE takes one step    *)
(* per captured variable ("want" counts the ones to go).  The compiler's   *)
(* side of the contract is the ghost "role": which slots hold declared     *)
(* locals, and which of these the compiler flagged isCaptured, for which   *)
(* it emits OP_CLOSE_UPVALUE instead of OP_POP at the end of the scope.    *)
(* A `break` chooses between the two before it knows the closures further  *)
(* on in the text, and so pops a local it should close: EarlyBreaks says   *)
(* whether the program has a break that does so while the local has an     *)
(* open upvalue.  Module LoopCompiler finds the programs that have one.    *)
(*                                                                         *)
(* Simplifications: jumps and arithmetic are pushes and pops of arbitrary  *)
(* values; one global variable stands for the globals table; upvalue and   *)
(* closure objects are never collected (module Heap models the collector). *)
(***************************************************************************)
EXTENDS Integers, Sequences

CONSTANTS
  Datum,        \* every other value: numbers, strings, instances, natives
  Closure,      \* ObjClosure objects that OP_CLOSURE can make
  Script,       \* the closure interpretFunction makes for a unit's script
  Upvalue,      \* ObjUpvalue objects
  MaxStack,     \* bound: stack slots in use
  MaxFrames,    \* FRAMES_MAX
  MaxCaptures,  \* bound: variables one closure captures
  MaxVariables, \* bound: variables declared in one run
  EarlyBreaks,  \* TRUE: a break may pop a local that a closure captured
  Repl          \* TRUE: a session that goes on after a runtime error

ASSUME UpvaluesAssumption ==
  /\ Script \notin Closure
  /\ Upvalue \cap (Closure \cup {Script}) = {}
  /\ MaxStack \in Nat \ {0}
  /\ MaxFrames \in Nat \ {0}
  /\ MaxCaptures \in Nat
  /\ MaxVariables \in Nat
  /\ EarlyBreaks \in BOOLEAN
  /\ Repl \in BOOLEAN
  /\ Datum # {} /\ Datum \cap (Closure \cup {Script}) = {}

Value == Datum \cup Closure \cup {Script}
Slot == 1..MaxStack
Variable == 1..MaxVariables
Role == {"temp", "local", "captured"}

CLOSED == 0     \* location = &upvalue->closed
NOBODY == 0     \* no variable

VARIABLES
  stack,        \* vm.stack: what every slot holds, also above stackTop
  stackTop,     \* vm.stackTop: number of slots in use
  frames,       \* vm.frames[0..frameCount-1]
  openUpvalues, \* vm.openUpvalues, head first
  location,     \* upvalue->location: a slot, or CLOSED
  closed,       \* upvalue->closed
  upvalues,     \* closure->upvalues
  made,         \* closures and upvalues allocated so far
  global,       \* the value of a global variable
  want,         \* captures OP_CLOSURE still has to make
  status,       \* "idle", "running" or "stopped"
  role,         \* ghost: what the compiler knows of a slot
  variable,     \* ghost: the variable a slot holds, or NOBODY
  variableOf,   \* ghost: the variable an upvalue captured
  declared      \* ghost: variables declared so far

machine == <<stack, stackTop, frames, openUpvalues, location, closed, upvalues,
             made, global, want, status>>
ghosts == <<role, variable, variableOf, declared>>
vars == <<machine, ghosts>>

frame == frames[Len(frames)]
Running == status = "running" /\ want = 0 /\ Len(frames) > 0

(* The slots of the running frame that are not parameters or its callee.   *)
InBody(s) == s > frame.fixed /\ s <= stackTop

(* A new variable lands in slot s.                                         *)
NewVariable(s) ==
  /\ declared < MaxVariables
  /\ declared' = declared + 1
  /\ variable' = [variable EXCEPT ![s] = declared + 1]

(* The slots above top hold no variable any more.                          *)
Forget(top) ==
  /\ role' = [s \in Slot |-> IF s <= top THEN role[s] ELSE "temp"]
  /\ variable' = [s \in Slot |-> IF s <= top THEN variable[s] ELSE NOBODY]

(* pushOnStack of a temporary.                                             *)
Push(x) ==
  /\ stackTop < MaxStack
  /\ stack' = [stack EXCEPT ![stackTop + 1] = x]
  /\ stackTop' = stackTop + 1
  /\ UNCHANGED <<role, variable>>

(* Gives up the slots above newTop and pushes x there, as OP_RETURN, a     *)
(* native call and OP_CLOSE_BLOCK_EXPR do with their result.               *)
Replace(newTop, x) ==
  /\ stackTop' = newTop + 1
  /\ stack' = [stack EXCEPT ![newTop + 1] = x]
  /\ Forget(newTop)

Init ==
  /\ stack = [s \in Slot |-> CHOOSE x \in Datum : TRUE]
  /\ stackTop = 0
  /\ frames = << >>
  /\ openUpvalues = << >>
  /\ location = [u \in Upvalue |-> CLOSED]
  /\ closed = [u \in Upvalue |-> CHOOSE x \in Datum : TRUE]
  /\ upvalues = [c \in Closure \cup {Script} |-> << >>]
  /\ made = {}
  /\ global = CHOOSE x \in Datum : TRUE
  /\ want = 0
  /\ status = "idle"
  /\ role = [s \in Slot |-> "temp"]
  /\ variable = [s \in Slot |-> NOBODY]
  /\ variableOf = [u \in Upvalue |-> NOBODY]
  /\ declared = 0

----------------------------------------------------------------------------
(* closeUpvalues: pops the head of the list while it is at or above last,  *)
(* moving each slot's value into its upvalue.                              *)

(* How many upvalues at the head of the list the while loop takes.         *)
(* Mutant: the loop's `>=` read as `>`.                                     *)
AtOrAboveStrict(last) ==
  CHOOSE n \in 0..Len(openUpvalues) :
    /\ \A i \in 1..n : location[openUpvalues[i]] > last
    /\ n < Len(openUpvalues) => location[openUpvalues[n + 1]] <= last

AtOrAbove(last) ==
  CHOOSE n \in 0..Len(openUpvalues) :
    /\ \A i \in 1..n : location[openUpvalues[i]] >= last
    /\ n < Len(openUpvalues) => location[openUpvalues[n + 1]] < last

(* Mutant: unlinks and closes the upvalues without moving the values.      *)
CloseUpvaluesNoMove(last) ==
  LET n == AtOrAbove(last)
      taken == {openUpvalues[i] : i \in 1..n}
  IN  /\ openUpvalues' = SubSeq(openUpvalues, n + 1, Len(openUpvalues))
      /\ closed' = closed
      /\ location' = [u \in Upvalue |-> IF u \in taken THEN CLOSED ELSE location[u]]

CloseUpvalues(last) ==
  LET n == AtOrAbove(last)
      taken == {openUpvalues[i] : i \in 1..n}
  IN  /\ openUpvalues' = SubSeq(openUpvalues, n + 1, Len(openUpvalues))
      /\ closed' = [u \in Upvalue |-> IF u \in taken THEN stack[location[u]] ELSE closed[u]]
      /\ location' = [u \in Upvalue |-> IF u \in taken THEN CLOSED ELSE location[u]]

(* captureUpvalue: walks past the upvalues above the slot; shares the one  *)
(* at the slot, or links a new one there.                                  *)
(* Mutant: every new upvalue becomes the head of the list.                 *)
AboveNone(s) == 0

Above(s) ==
  CHOOSE n \in 0..Len(openUpvalues) :
    /\ \A i \in 1..n : location[openUpvalues[i]] > s
    /\ n < Len(openUpvalues) => location[openUpvalues[n + 1]] <= s

Insert(u, n) ==
  [i \in 1..Len(openUpvalues) + 1 |->
     IF i <= n THEN openUpvalues[i] ELSE IF i = n + 1 THEN u ELSE openUpvalues[i - 1]]

ShareUpvalue(c, s) ==
  LET n == Above(s)
  IN  /\ n < Len(openUpvalues) /\ location[openUpvalues[n + 1]] = s
      /\ upvalues' = [upvalues EXCEPT ![c] = Append(@, openUpvalues[n + 1])]
      /\ UNCHANGED <<openUpvalues, location, closed, made, variableOf>>

(* Mutant: never looks whether the slot already has an upvalue.            *)
NewUpvalueAlways(c, s, u) ==
  /\ u \notin made
  /\ made' = made \cup {u}
  /\ openUpvalues' = Insert(u, Above(s))
  /\ location' = [location EXCEPT ![u] = s]
  /\ closed' = closed
  /\ upvalues' = [upvalues EXCEPT ![c] = Append(@, u)]
  /\ variableOf' = [variableOf EXCEPT ![u] = variable[s]]

NewUpvalue(c, s, u) ==
  LET n == Above(s)
  IN  /\ ~(n < Len(openUpvalues) /\ location[openUpvalues[n + 1]] = s)
      /\ u \notin made
      /\ made' = made \cup {u}
      /\ openUpvalues' = Insert(u, n)
      /\ location' = [location EXCEPT ![u] = s]
      /\ closed' = closed
      /\ upvalues' = [upvalues EXCEPT ![c] = Append(@, u)]
      /\ variableOf' = [variableOf EXCEPT ![u] = variable[s]]

----------------------------------------------------------------------------
(* Instructions that only move values.                                     *)

(* OP_CONSTANT, OP_NIL, OP_TRUE, OP_FALSE and every operator's result.     *)
PushValue ==
  /\ Running
  /\ \E x \in Datum : Push(x)
  /\ UNCHANGED <<frames, openUpvalues, location, closed, upvalues, made, global,
                 want, status, variableOf, declared>>

(* OP_POP of a temporary.                                                  *)
PopTemporary ==
  /\ Running /\ InBody(stackTop) /\ role[stackTop] = "temp"
  /\ stackTop' = stackTop - 1
  /\ Forget(stackTop - 1)
  /\ UNCHANGED <<stack, frames, openUpvalues, location, closed, upvalues, made,
                 global, want, status, variableOf, declared>>

(* `let x = <the temporary on top>;` in a block: no instruction, the       *)
(* compiler's addLocal gives the slot a name.                              *)
DefineLocal(r) ==
  /\ Running /\ InBody(stackTop) /\ role[stackTop] = "temp"
  /\ NewVariable(stackTop)
  /\ role' = [role EXCEPT ![stackTop] = r]
  /\ UNCHANGED <<machine, variableOf>>

(* A slot the running frame's code can name: a local, a parameter or self. *)
IsLocal(s) == s \in frame.slots..stackTop /\ role[s] # "temp"

GetLocal(s) ==
  /\ Running /\ IsLocal(s)
  /\ Push(stack[s])
  /\ UNCHANGED <<frames, openUpvalues, location, closed, upvalues, made, global,
                 want, status, variableOf, declared>>

SetLocal(s) ==
  /\ Running /\ IsLocal(s) /\ InBody(stackTop) /\ role[stackTop] = "temp"
  /\ stack' = [stack EXCEPT ![s] = stack[stackTop]]
  /\ UNCHANGED <<stackTop, frames, openUpvalues, location, closed, upvalues, made,
                 global, want, status, ghosts>>

GetGlobal ==
  /\ Running
  /\ Push(global)
  /\ UNCHANGED <<frames, openUpvalues, location, closed, upvalues, made, global,
                 want, status, variableOf, declared>>

SetGlobal ==
  /\ Running /\ InBody(stackTop) /\ role[stackTop] = "temp"
  /\ global' = stack[stackTop]
  /\ UNCHANGED <<stack, stackTop, frames, openUpvalues, location, closed, upvalues,
                 made, want, status, ghosts>>

----------------------------------------------------------------------------
(* Closures and upvalues.                                                  *)

(* OP_CLOSURE: a new closure on the stack, as a temporary or, for a `fun`  *)
(* declared in a block, as a local of its own.  n captures follow.         *)
MakeClosure(c, n, r) ==
  /\ Running
  /\ c \notin made
  /\ stackTop < MaxStack
  /\ stack' = [stack EXCEPT ![stackTop + 1] = c]
  /\ stackTop' = stackTop + 1
  /\ role' = [role EXCEPT ![stackTop + 1] = r]
  /\ IF r = "temp"
       THEN UNCHANGED <<variable, declared>>
       ELSE NewVariable(stackTop + 1)
  /\ made' = made \cup {c}
  /\ upvalues' = [upvalues EXCEPT ![c] = << >>]
  /\ want' = n
  /\ UNCHANGED <<frames, openUpvalues, location, closed, global, status, variableOf>>

(* One [isLocal = 1, index] pair of OP_CLOSURE.                            *)
CaptureLocal(s) ==
  /\ status = "running" /\ want > 0
  /\ IsLocal(s) /\ role[s] = "captured"
  /\ LET c == stack[stackTop]
     IN  ShareUpvalue(c, s) \/ \E u \in Upvalue : NewUpvalue(c, s, u)
  /\ want' = want - 1
  /\ UNCHANGED <<stack, stackTop, frames, global, status, role, variable, declared>>

(* One [isLocal = 0, index] pair: the enclosing closure's upvalue.         *)
CaptureEnclosing(i) ==
  /\ status = "running" /\ want > 0
  /\ i \in 1..Len(upvalues[frame.closure])
  /\ LET c == stack[stackTop]
     IN  upvalues' = [upvalues EXCEPT ![c] = Append(@, upvalues[frame.closure][i])]
  /\ want' = want - 1
  /\ UNCHANGED <<stack, stackTop, frames, openUpvalues, location, closed, made,
                 global, status, ghosts>>

(* *upvalue->location                                                      *)
Read(u) == IF location[u] = CLOSED THEN closed[u] ELSE stack[location[u]]

GetUpvalue(i) ==
  /\ Running
  /\ i \in 1..Len(upvalues[frame.closure])
  /\ Push(Read(upvalues[frame.closure][i]))
  /\ UNCHANGED <<frames, openUpvalues, location, closed, upvalues, made, global,
                 want, status, variableOf, declared>>

SetUpvalue(i) ==
  /\ Running /\ InBody(stackTop) /\ role[stackTop] = "temp"
  /\ i \in 1..Len(upvalues[frame.closure])
  /\ LET u == upvalues[frame.closure][i]
     IN  IF location[u] = CLOSED
           THEN closed' = [closed EXCEPT ![u] = stack[stackTop]] /\ stack' = stack
           ELSE stack' = [stack EXCEPT ![location[u]] = stack[stackTop]] /\ closed' = closed
  /\ UNCHANGED <<stackTop, frames, openUpvalues, location, upvalues, made, global,
                 want, status, ghosts>>

----------------------------------------------------------------------------
(* Leaving scopes.                                                         *)

(* Mutant: OP_POP for every local, captured or not.                        *)
EndLocalByPop ==
  /\ Running /\ InBody(stackTop) /\ role[stackTop] # "temp"
  /\ stackTop' = stackTop - 1
  /\ Forget(stackTop - 1)
  /\ UNCHANGED <<stack, frames, openUpvalues, location, closed, upvalues, made,
                 global, want, status, variableOf, declared>>

(* The compiler's endScope, one local at a time from the top:              *)
(* OP_CLOSE_UPVALUE for a captured local, OP_POP for any other.            *)
EndLocal ==
  /\ Running /\ InBody(stackTop) /\ role[stackTop] # "temp"
  /\ IF role[stackTop] = "captured"
       THEN CloseUpvalues(stackTop)
       ELSE UNCHANGED <<openUpvalues, location, closed>>
  /\ stackTop' = stackTop - 1
  /\ Forget(stackTop - 1)
  /\ UNCHANGED <<stack, frames, upvalues, made, global, want, status, variableOf, declared>>

(* The OP_POP of break and continue (emitPopsToDepth) for a local that is  *)
(* captured only by closures compiled after it: no closure of this round   *)
(* has captured the local yet, or, for the variable of a `for` whose body  *)
(* ran before, one of an earlier round has (EarlyBreaks).                  *)
BreakBeforeCapture ==
  /\ Running /\ InBody(stackTop) /\ role[stackTop] = "captured"
  /\ ~EarlyBreaks => \A i \in 1..Len(openUpvalues) : location[openUpvalues[i]] # stackTop
  /\ stackTop' = stackTop - 1
  /\ Forget(stackTop - 1)
  /\ UNCHANGED <<stack, frames, openUpvalues, location, closed, upvalues, made, global,
                 want, status, variableOf, declared>>

(* OP_CLOSE_BLOCK_EXPR: drops the n locals under a block expression's      *)
(* result.                                                                 *)
CloseBlockExpr(n) ==
  /\ Running /\ InBody(stackTop) /\ role[stackTop] = "temp"
  /\ \A s \in stackTop - n..stackTop - 1 : InBody(s) /\ role[s] # "temp"
  /\ CloseUpvalues(stackTop - n)
  /\ Replace(stackTop - 1 - n, stack[stackTop])
  /\ UNCHANGED <<frames, upvalues, made, global, want, status, variableOf, declared>>

----------------------------------------------------------------------------
(* Calls.                                                                  *)

(* interpretFunction: the script of the next unit.                         *)
Interpret ==
  /\ status = "idle"
  /\ stackTop < MaxStack
  /\ status' = "running"
  /\ Push(Script)
  /\ frames' = Append(frames, [closure |-> Script, slots |-> stackTop + 1, fixed |-> stackTop + 1])
  /\ UNCHANGED <<openUpvalues, location, closed, upvalues, made, global, want,
                 variableOf, declared>>

(* The operands of a call: the callee's slot and one per argument.         *)
Operands(callee) ==
  /\ InBody(callee)
  /\ \A s \in callee..stackTop : role[s] = "temp"

(* Mutant: the frame starts one slot too low, under the callee.            *)
EnterFrameTooLow(c, callee, roles) ==
  LET first == IF roles[callee] = "temp" THEN callee + 1 ELSE callee
  IN  /\ Len(frames) < MaxFrames
      /\ frames' = Append(frames, [closure |-> c, slots |-> callee - 1, fixed |-> stackTop])
      /\ \A s \in callee + 1..stackTop : roles[s] # "temp"
      /\ role' = [s \in Slot |-> IF s \in callee..stackTop THEN roles[s] ELSE role[s]]
      /\ declared' = declared + (stackTop + 1 - first)
      /\ declared' <= MaxVariables
      /\ variable' = [s \in Slot |-> IF s \in first..stackTop THEN declared + (s + 1 - first)
                                     ELSE IF s = callee THEN NOBODY ELSE variable[s]]
      /\ UNCHANGED <<stackTop, openUpvalues, location, closed, upvalues, made, global,
                     want, status, variableOf>>

(* call: the new frame starts at the callee's slot.  The arguments become  *)
(* parameters and, in a method, the callee's slot becomes self; roles says *)
(* what the called function's code calls them.                             *)
EnterFrame(c, callee, roles) ==
  LET first == IF roles[callee] = "temp" THEN callee + 1 ELSE callee
  IN  /\ Len(frames) < MaxFrames
      /\ frames' = Append(frames, [closure |-> c, slots |-> callee, fixed |-> stackTop])
      /\ \A s \in callee + 1..stackTop : roles[s] # "temp"
      /\ role' = [s \in Slot |-> IF s \in callee..stackTop THEN roles[s] ELSE role[s]]
      /\ declared' = declared + (stackTop + 1 - first)
      /\ declared' <= MaxVariables
      /\ variable' = [s \in Slot |-> IF s \in first..stackTop THEN declared + (s + 1 - first)
                                     ELSE IF s = callee THEN NOBODY ELSE variable[s]]
      /\ UNCHANGED <<stackTop, openUpvalues, location, closed, upvalues, made, global,
                     want, status, variableOf>>

(* callValue of a closure.                                                 *)
CallClosure(callee, roles) ==
  /\ Running /\ Operands(callee)
  /\ stack[callee] \in Closure
  /\ roles[callee] = "temp"
  /\ EnterFrame(stack[callee], callee, roles)
  /\ stack' = stack

(* callValue of a bound method, and invoke: c is the method found (or the  *)
(* field's value), and x what the callee's slot is overwritten with: the   *)
(* receiver, or the field's value itself.                                  *)
CallMember(callee, c, x, roles) ==
  /\ Running /\ Operands(callee)
  /\ stack[callee] \in Datum
  /\ c \in Closure \cap made
  /\ x = c => roles[callee] = "temp"
  /\ EnterFrame(c, callee, roles)
  /\ stack' = [stack EXCEPT ![callee] = x]

(* callValue of a native: runs to its end and leaves a result.             *)
CallNative(callee, x) ==
  /\ Running /\ Operands(callee)
  /\ stack[callee] \in Datum
  /\ Replace(callee - 1, x)
  /\ UNCHANGED <<frames, openUpvalues, location, closed, upvalues, made, global,
                 want, status, variableOf, declared>>

ReturnToCaller ==
  /\ Running /\ InBody(stackTop) /\ role[stackTop] = "temp"
  /\ Len(frames) > 1
  /\ CloseUpvalues(frame.slots)
  /\ frames' = SubSeq(frames, 1, Len(frames) - 1)
  /\ Replace(frame.slots - 1, stack[stackTop])
  /\ UNCHANGED <<upvalues, made, global, want, status, variableOf, declared>>

(* The script's own OP_RETURN, which the compiler emits once, after every  *)
(* block of the script has ended.                                          *)
ReturnFromScript ==
  /\ Running /\ Len(frames) = 1
  /\ stackTop = frame.slots + 1 /\ role[stackTop] = "temp"
  /\ CloseUpvalues(frame.slots)
  /\ frames' = << >>
  /\ stackTop' = stackTop - 2
  /\ status' = IF Repl THEN "idle" ELSE "stopped"
  /\ Forget(stackTop - 2)
  /\ UNCHANGED <<stack, upvalues, made, global, want, variableOf, declared>>

(* runtimeError: any instruction may fail (a call with the wrong number of *)
(* arguments, of something that is not a function, or past FRAMES_MAX, an  *)
(* index out of bounds ...).  resetStack empties the stack, the frames and *)
(* the list of open upvalues, and touches no upvalue.                      *)
RuntimeError ==
  /\ Running
  /\ stackTop' = 0
  /\ frames' = << >>
  /\ openUpvalues' = << >>
  /\ status' = IF Repl THEN "idle" ELSE "stopped"
  /\ Forget(0)
  /\ UNCHANGED <<stack, location, closed, upvalues, made, global, want, variableOf,
                 declared>>

Next ==
  \/ Interpret \/ PushValue \/ PopTemporary \/ GetGlobal \/ SetGlobal
  \/ \E r \in {"local", "captured"} : DefineLocal(r)
  \/ \E s \in Slot : GetLocal(s) \/ SetLocal(s) \/ CaptureLocal(s)
  \/ \E c \in Closure, n \in 0..MaxCaptures, r \in Role : MakeClosure(c, n, r)
  \/ \E i \in 1..MaxCaptures : CaptureEnclosing(i) \/ GetUpvalue(i) \/ SetUpvalue(i)
  \/ EndLocal \/ BreakBeforeCapture
  \/ \E n \in 0..MaxStack : CloseBlockExpr(n)
  \/ \E callee \in Slot : \E roles \in [callee..stackTop -> Role] :
       \/ CallClosure(callee, roles)
       \/ \E c \in Closure : \E x \in Datum \cup {c} : CallMember(callee, c, x, roles)
  \/ \E callee \in Slot, x \in Datum : CallNative(callee, x)
  \/ ReturnToCaller \/ ReturnFromScript \/ RuntimeError

Spec == Init /\ [][Next]_vars

----------------------------------------------------------------------------
(* Properties.                                                             *)

Frame == [closure : Closure \cup {Script}, slots : Slot, fixed : Slot]

(* Every part of the machine holds a value of its kind: the pointers of    *)
(* the C structures are slots, upvalues and closures that exist.           *)
TypeOK ==
  /\ stack \in [Slot -> Value]
  /\ stackTop \in 0..MaxStack
  /\ frames \in Seq(Frame) /\ Len(frames) <= MaxFrames
  /\ openUpvalues \in Seq(Upvalue)
  /\ location \in [Upvalue -> Slot \cup {CLOSED}]
  /\ closed \in [Upvalue -> Value]
  /\ upvalues \in [Closure \cup {Script} -> Seq(Upvalue)]
  /\ made \subseteq Closure \cup Upvalue
  /\ global \in Value
  /\ want \in 0..MaxCaptures
  /\ status \in {"idle", "running", "stopped"}
  /\ role \in [Slot -> Role]
  /\ variable \in [Slot -> Variable \cup {NOBODY}]
  /\ variableOf \in [Upvalue -> Variable \cup {NOBODY}]
  /\ declared \in 0..MaxVariables

(* The list of open upvalues is strictly descending by slot, which is what *)
(* lets captureUpvalue stop at the first slot not above its own and        *)
(* closeUpvalues stop at the first one below `last`.                       *)
Sorted ==
  \A i, j \in 1..Len(openUpvalues) :
    i < j => location[openUpvalues[i]] > location[openUpvalues[j]]

(* An upvalue that is on the list points at a slot in use that holds the   *)
(* very variable it captured, one the compiler flagged isCaptured: the     *)
(* slot cannot have been given up and reused under it.  A break that pops  *)
(* a captured local breaks this (EarlyBreaks = TRUE).                      *)
OpenUpvaluesPointAtTheirVariable ==
  \A i \in 1..Len(openUpvalues) :
    LET u == openUpvalues[i]
    IN  /\ location[u] \in 1..stackTop
        /\ role[location[u]] = "captured"
        /\ variable[location[u]] = variableOf[u]

(* An upvalue that still points into the stack is on the list, so the end  *)
(* of its slot will find and close it.                                     *)
OpenUpvaluesAreListed == status # "stopped" =>
  \A u \in Upvalue : location[u] # CLOSED =>
    \E i \in 1..Len(openUpvalues) : openUpvalues[i] = u

(* The frames are there exactly while code runs, and an unfinished         *)
(* OP_CLOSURE has its closure on top of the stack.                         *)
ControlState ==
  /\ status = "running" <=> Len(frames) > 0
  /\ want > 0 => status = "running" /\ stackTop \in Slot /\ stack[stackTop] \in Closure

(* A slot holds a variable exactly when it is a local, never above         *)
(* stackTop, and no two slots hold the same one.                           *)
SlotsHoldDistinctVariables ==
  /\ \A s \in Slot : role[s] = "temp" <=> variable[s] = NOBODY
  /\ \A s \in Slot : s > stackTop => variable[s] = NOBODY
  /\ \A s \in Slot : variable[s] <= declared
  /\ \A s, t \in Slot : variable[s] = variable[t] /\ variable[s] # NOBODY => s = t

(* Only upvalues that exist are on the list.                               *)
ListedUpvaluesAreMade ==
  \A i \in 1..Len(openUpvalues) : openUpvalues[i] \in made

(* One upvalue per captured variable; one that left the list outlives the  *)
(* variable's slot.                                                        *)
OneUpvaluePerVariable ==
  /\ \A u \in Upvalue \ made : location[u] = CLOSED /\ variableOf[u] = NOBODY
  /\ \A u \in Upvalue \cap made : variableOf[u] \in 1..declared
  /\ \A u, w \in Upvalue \cap made : variableOf[u] = variableOf[w] => u = w
  /\ \A u \in Upvalue \cap made, s \in Slot :
       variable[s] = variableOf[u] => \E i \in 1..Len(openUpvalues) : openUpvalues[i] = u

(* The value of a variable: its slot's while the slot exists, later its    *)
(* upvalue's.                                                              *)
Holders(v) == {s \in Slot : variable[s] = v}
Capturers(v) == {u \in Upvalue : variableOf[u] = v}
Gone == "gone"
Content(v) ==
  IF Holders(v) # {} THEN stack[CHOOSE s \in Holders(v) : TRUE]
  ELSE IF Capturers(v) # {} THEN Read(CHOOSE u \in Capturers(v) : TRUE)
  ELSE Gone

(* Every closure that captured a variable sees its one current value,      *)
(* whether the variable still lives in a slot or moved into an upvalue,    *)
(* and whoever assigned it last.  It rests on the one above.               *)
ClosuresSeeTheVariable ==
  \A v \in Variable : \A u \in Capturers(v) : Read(u) = Content(v)

(* Frames nest: each starts above the parameters of the one below and      *)
(* inside the stack, so closing from frame->slots up on return never takes *)
(* a caller's local.                                                       *)
FramesNest ==
  /\ \A i \in 1..Len(frames) :
       frames[i].slots <= frames[i].fixed /\ frames[i].fixed <= stackTop
  /\ \A i \in 1..Len(frames) - 1 : frames[i].fixed < frames[i + 1].slots

(* What every program keeps: the parts of the machine fit together.        *)
Structure ==
  /\ TypeOK /\ ControlState /\ FramesNest /\ Sorted
  /\ SlotsHoldDistinctVariables
  /\ ListedUpvaluesAreMade

(* What a program keeps whose breaks close the locals they leave: upvalues *)
(* and slots agree on the variables.                                       *)
Agreement ==
  /\ OpenUpvaluesPointAtTheirVariable
  /\ OneUpvaluePerVariable
  /\ ~Repl => OpenUpvaluesAreListed

(* The inductive invariant of UpvaluesProofs.                              *)
IInv == Structure /\ (~EarlyBreaks => Agreement)

(* The machine implements LexicalVariables: every instruction is one of    *)
(* its steps (a declaration, an assignment to one variable, a capture, the *)
(* end of some scopes) or changes no variable at all.  It does so in a     *)
(* program that stops at its first runtime error and whose breaks pop no   *)
(* captured local.                                                         *)
Live == {variable[s] : s \in Slot} \ {NOBODY}
Captured == {variableOf[u] : u \in Upvalue} \ {NOBODY}

Lexical == INSTANCE LexicalVariables WITH
  Gone <- Gone, Variable <- Variable, Value <- Value,
  live <- Live, captured <- Captured, content <- [v \in Variable |-> Content(v)]

ImplementsLexicalVariables == Lexical!Spec
=============================================================================
