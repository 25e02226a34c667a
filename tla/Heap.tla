-------------------------------- MODULE Heap --------------------------------
(***************************************************************************)
(* The heap of the Kirby VM: the mark-sweep collector (src/src/gc.c), the  *)
(* object constructors (object.c) and the code that calls them (vm.c,      *)
(* native.c, loader.c).                                                    *)
(*                                                                         *)
(* Every call of reallocate that grows may run a collection first, and the *)
(* collector sees only the roots of markVMRoots -- never the pointers in   *)
(* the C variables of the function that is allocating.  So a function with *)
(* several allocations is several steps here, "job" says which one comes   *)
(* next and which pointers it holds meanwhile, and a collection may start  *)
(* at each of them ("armed").  That is the build with DEBUG_STRESS_GC; in  *)
(* an ordinary build the byte counts decide, which only removes behaviours.*)
(*                                                                         *)
(* An object is its type and "kids", the references that blackenObject     *)
(* follows, in the order of the C fields.  Values that are not objects are *)
(* all Nil; so is a field or an upvalue that was never set.                *)
(***************************************************************************)
EXTENDS HeapParameters, Sequences, FiniteSets

HeapValue == Address \cup {Nil}

VARIABLES
  objects,  \* gc->objects: the addresses in use, the newest first
  type,     \* object->type, or "free"
  kids,     \* what blackenObject marks
  text,     \* chars of a string
  strings,  \* keys of gc->strings, which do not keep a string alive
  stack,    \* the value stack up to stackTop
  open,     \* vm.openUpvalues: the open upvalue of a stack slot, or Nil
  location, \* the stack slot an upvalue points at, or 0 for its own `closed`
  global,   \* the value of a global variable
  job,      \* the C function between two allocations
  armed,    \* the next allocation may still collect
  phase,    \* "off", "trace" or "sweep"
  marked,   \* objects with isMarked
  gray,     \* gc->grayStack
  kept      \* objects the sweep has passed and kept

heap == <<objects, type, kids, text, strings>>
upvalues == <<open, location>>
machine == <<stack, upvalues, global>>
collector == <<phase, marked, gray, kept>>
vars == <<heap, machine, job, armed, collector>>

NoJob == [at |-> "none", arg |-> Nil, then |-> "none", obj |-> Nil, held |-> {}]

Elements(s) == {s[i] : i \in DOMAIN s}
Allocated == {o \in Address : type[o] # "free"}
Kids(o) == Elements(kids[o]) \ {Nil}
(* The closures of vm.frames are roots as well, but each is in the first    *)
(* slot of its frame, or is a method of the instance there.                *)
Roots == (Elements(stack) \cup Elements(open) \cup {global}) \ {Nil}

(* The objects the program can still get at: in every set that holds the   *)
(* roots and what its own members refer to.                                *)
Closed(S) == \A o \in S : Kids(o) \subseteq S
Reachable ==
  LET roots == Roots
      closed == {S \in SUBSET Address : roots \subseteq S /\ Closed(S)}
  IN  {o \in Address : \A S \in closed : o \in S}

Top == stack[Len(stack)]
Below == stack[Len(stack) - 1]
Drop(n) == SubSeq(stack, 1, Len(stack) - n)
(* The n values on top are temporaries: no closure captured their slots,   *)
(* and no upvalue that outlived its slot is still in the list for them.    *)
Temporaries(n) ==
  /\ Len(stack) >= n
  /\ Outlived \/ \A s \in Len(stack) - n + 1..Len(stack) : open[s] = Nil

(* What *upvalue->location may be: the value it holds itself, that of its  *)
(* slot, or whatever was left above stackTop, where nothing is marked.     *)
Seen(u) ==
  IF location[u] = 0 THEN {kids[u][1]}
  ELSE IF location[u] \in DOMAIN stack THEN {stack[location[u]]}
  ELSE HeapValue

Is(x, t) == x # Nil /\ type[x] = t

Init ==
  /\ objects = << >>
  /\ type = [o \in Address |-> "free"]
  /\ kids = [o \in Address |-> << >>]
  /\ text = [o \in Address |-> Nil]
  /\ strings = {}
  /\ stack = << >>
  /\ open = [s \in 1..MaxStack |-> Nil]
  /\ location = [o \in Address |-> 0]
  /\ global = Nil
  /\ job = NoJob
  /\ armed = FALSE
  /\ phase = "off" /\ marked = {} /\ gray = {} /\ kept = 0

----------------------------------------------------------------------------
(* collectGarbage, one step per object it visits.                          *)

(* Mutant: the list of open upvalues is not a root.                        *)
StartCollectionNoOpen ==
  /\ phase = "off" /\ armed
  /\ phase' = "trace"
  /\ marked' = (Elements(stack) \cup {global}) \ {Nil}
  /\ gray' = (Elements(stack) \cup {global}) \ {Nil}
  /\ armed' = FALSE
  /\ UNCHANGED <<heap, machine, job, kept>>

StartCollection ==
  /\ phase = "off" /\ armed
  /\ phase' = "trace"
  /\ marked' = Roots /\ gray' = Roots
  /\ armed' = FALSE
  /\ UNCHANGED <<heap, machine, job, kept>>

(* Mutant: an instance does not mark its struct.                           *)
BlackenNoStruct(o) ==
  LET found == IF type[o] = "instance" THEN Kids(o) \ {kids[o][1]} ELSE Kids(o)
  IN  /\ phase = "trace" /\ o \in gray
      /\ marked' = marked \cup found
      /\ gray' = (gray \ {o}) \cup (found \ marked)
      /\ UNCHANGED <<heap, machine, job, armed, phase, kept>>

(* Mutant: markObject puts an object on the gray stack however often.      *)
BlackenAgain(o) ==
  /\ phase = "trace" /\ o \in gray
  /\ marked' = marked \cup Kids(o)
  /\ gray' = (gray \ {o}) \cup Kids(o)
  /\ UNCHANGED <<heap, machine, job, armed, phase, kept>>

(* blackenObject; an open upvalue has Nil in `closed`.                     *)
Blacken(o) ==
  /\ phase = "trace" /\ o \in gray
  /\ marked' = marked \cup Kids(o)
  /\ gray' = (gray \ {o}) \cup (Kids(o) \ marked)
  /\ UNCHANGED <<heap, machine, job, armed, phase, kept>>

(* Mutant: the intern table keeps the names of strings about to be freed.  *)
RemoveWhiteNever ==
  /\ phase = "trace" /\ gray = {}
  /\ phase' = "sweep" /\ kept' = 0
  /\ UNCHANGED <<heap, machine, job, armed, marked, gray>>

(* tableRemoveWhite(&gc->strings), once nothing is gray.                   *)
RemoveWhite ==
  /\ phase = "trace" /\ gray = {}
  /\ strings' = strings \cap marked
  /\ phase' = "sweep" /\ kept' = 0
  /\ UNCHANGED <<objects, type, kids, text, machine, job, armed, marked, gray>>

(* Mutant: survivors stay marked.                                          *)
KeepMarked ==
  /\ phase = "sweep" /\ kept < Len(objects)
  /\ objects[kept + 1] \in marked
  /\ kept' = kept + 1
  /\ UNCHANGED <<heap, machine, job, armed, phase, marked, gray>>

Keep ==
  /\ phase = "sweep" /\ kept < Len(objects)
  /\ objects[kept + 1] \in marked
  /\ marked' = marked \ {objects[kept + 1]}
  /\ kept' = kept + 1
  /\ UNCHANGED <<heap, machine, job, armed, phase, gray>>

(* Mutant: frees the object without unlinking it.                          *)
FreeLinked ==
  /\ phase = "sweep" /\ kept < Len(objects)
  /\ LET o == objects[kept + 1]
     IN  /\ o \notin marked
         /\ type' = [type EXCEPT ![o] = "free"]
         /\ kids' = [kids EXCEPT ![o] = << >>]
         /\ text' = [text EXCEPT ![o] = Nil]
  /\ kept' = kept + 1
  /\ UNCHANGED <<objects, strings, machine, job, armed, phase, marked, gray>>

(* freeObject of the object after the kept ones, unlinked first.           *)
Free ==
  /\ phase = "sweep" /\ kept < Len(objects)
  /\ LET o == objects[kept + 1]
     IN  /\ o \notin marked
         /\ objects' = [i \in 1..Len(objects) - 1 |->
                          IF i <= kept THEN objects[i] ELSE objects[i + 1]]
         /\ type' = [type EXCEPT ![o] = "free"]
         /\ kids' = [kids EXCEPT ![o] = << >>]
         /\ text' = [text EXCEPT ![o] = Nil]
  /\ UNCHANGED <<strings, machine, job, armed, collector>>

EndCollection ==
  /\ phase = "sweep" /\ kept = Len(objects)
  /\ phase' = "off"
  /\ kept' = 0
  /\ UNCHANGED <<heap, machine, job, armed, marked, gray>>

----------------------------------------------------------------------------
(* Steps of the running C function.                                        *)

Idle == phase = "off" /\ job.at = "none"
At(l) == phase = "off" /\ job.at = l

(* Goes on to the allocation l; j.held and j.obj are the pointers that C    *)
(* variables hold meanwhile.                                               *)
Await(l, j) == job' = [j EXCEPT !.at = l] /\ armed' = TRUE
Return == job' = NoJob /\ armed' = FALSE

(* Mutant: links the new object at the tail.                               *)
NewObjectLast(o, t, refs) ==
  /\ type[o] = "free"
  /\ objects' = Append(objects, o)
  /\ type' = [type EXCEPT ![o] = t]
  /\ kids' = [kids EXCEPT ![o] = refs]

(* allocateObject: links the new object at the head of gc->objects.        *)
NewObject(o, t, refs) ==
  /\ type[o] = "free"
  /\ objects' = <<o>> \o objects
  /\ type' = [type EXCEPT ![o] = t]
  /\ kids' = [kids EXCEPT ![o] = refs]

Push(x) == Len(stack) < MaxStack /\ stack' = Append(stack, x)

(* The end of copyString and takeString over the stack st: the string s is *)
(* pushed; or put in place of two operands; or appended to the list or the *)
(* constants below, itself on the stack while that array grows             *)
(* (appendStringCopy, resolveConstsInFunctionsToValues).                   *)
Deliver(s, st, then) ==
  \/ then = "push" /\ stack' = Append(st, s) /\ Return
  \/ then = "replace" /\ stack' = Append(SubSeq(st, 1, Len(st) - 2), s) /\ Return
  \/ then = "append" /\ stack' = Append(st, s) /\ Await("append", [NoJob EXCEPT !.obj = s])

Interned(t) == {s \in strings : text[s] = t}

(* Mutant: copyString that does not look for an interned string.           *)
BeginCopyStringUnseen(t, then, source) ==
  /\ Idle /\ "string" \in Types /\ Len(stack) < MaxStack
  /\ then = "append" => /\ Temporaries(1) /\ Len(stack) > 0
                        /\ Is(Top, "list") \/ Is(Top, "function")
                        /\ Len(kids[Top]) < MaxKids
  /\ Await("copy chars", [NoJob EXCEPT !.arg = t, !.then = then, !.held = source])
  /\ UNCHANGED <<heap, machine, collector>>

(* copyString looks for an interned string before it allocates; source is  *)
(* the string its characters come from, if any.                            *)
BeginCopyString(t, then, source) ==
  /\ Idle /\ "string" \in Types /\ Len(stack) < MaxStack
  /\ then = "append" => /\ Temporaries(1) /\ Len(stack) > 0
                        /\ Is(Top, "list") \/ Is(Top, "function")
                        /\ Len(kids[Top]) < MaxKids
  /\ IF Interned(t) # {}
       THEN \E s \in Interned(t) : Deliver(s, stack, then)
       ELSE /\ Await("copy chars", [NoJob EXCEPT !.arg = t, !.then = then, !.held = source])
            /\ stack' = stack
  /\ UNCHANGED <<heap, upvalues, global, collector>>

CopyChars ==
  /\ At("copy chars")
  /\ Await("string", [job EXCEPT !.held = {}])
  /\ UNCHANGED <<heap, machine, collector>>

(* Mutant: pops the operands before it allocates.                          *)
BeginConcatenatePopped(t) ==
  /\ Idle /\ Temporaries(2)
  /\ Is(Top, "string") /\ Is(Below, "string")
  /\ Await("concat chars", [NoJob EXCEPT !.arg = t, !.then = "push", !.held = {Top, Below}])
  /\ stack' = Drop(2)
  /\ UNCHANGED <<heap, upvalues, global, collector>>

(* concatenate reads both operands after it allocated the characters, and  *)
(* takeString looks for an interned string only then.                      *)
BeginConcatenate(t) ==
  /\ Idle /\ Temporaries(2)
  /\ Is(Top, "string") /\ Is(Below, "string")
  /\ Await("concat chars", [NoJob EXCEPT !.arg = t, !.then = "replace", !.held = {Top, Below}])
  /\ UNCHANGED <<heap, machine, collector>>

ConcatChars ==
  /\ At("concat chars")
  /\ IF Interned(job.arg) # {}
       THEN \E s \in Interned(job.arg) : Deliver(s, stack, "replace")
       ELSE Await("string", [job EXCEPT !.held = {}]) /\ stack' = stack
  /\ UNCHANGED <<heap, upvalues, global, collector>>

(* allocateString: the object, on the stack while the intern table grows.  *)
NewString(o) ==
  /\ At("string") /\ Push(o)
  /\ NewObject(o, "string", << >>)
  /\ text' = [text EXCEPT ![o] = job.arg]
  /\ Await("intern", [job EXCEPT !.obj = o])
  /\ UNCHANGED <<strings, upvalues, global, collector>>

Intern ==
  /\ At("intern")
  /\ strings' = strings \cup {job.obj}
  /\ Deliver(job.obj, Drop(1), job.then)
  /\ UNCHANGED <<objects, type, kids, text, upvalues, global, collector>>

(* writeValueArray, writeValueToListObj and defineMethod: the value on top *)
(* goes into the container below it, which may have to grow.  A method     *)
(* first learns its owner.                                                 *)
BeginAppend ==
  /\ Idle /\ Temporaries(2) /\ Top # Nil /\ Below # Nil
  /\ Len(kids[Below]) < MaxKids
  /\ \/ type[Below] = "list" /\ kids' = kids
     \/ /\ type[Below] = "struct" /\ type[Top] = "closure"
        /\ kids' = [kids EXCEPT ![Top] = [@ EXCEPT ![2] = Below]]
  /\ Await("append", [NoJob EXCEPT !.obj = Top])
  /\ UNCHANGED <<objects, type, text, strings, machine, collector>>

FinishAppend ==
  /\ At("append")
  /\ kids' = [kids EXCEPT ![Below] = Append(@, job.obj)]
  /\ stack' = Drop(1)
  /\ Return
  /\ UNCHANGED <<objects, type, text, strings, upvalues, global, collector>>

(* newList, newFunction: one allocation, nothing to hold.                  *)
BeginEmpty(t) ==
  /\ Idle /\ t \in Types /\ Len(stack) < MaxStack
  /\ Await(t, NoJob)
  /\ UNCHANGED <<heap, machine, collector>>

NewEmpty(o, t) ==
  /\ At(t) /\ Push(o)
  /\ NewObject(o, t, << >>)
  /\ Return
  /\ UNCHANGED <<text, strings, upvalues, global, collector>>

(* OP_STRUCT: the name is a constant of a loaded function.                 *)
BeginStruct(name) ==
  /\ Idle /\ "struct" \in Types /\ Len(stack) < MaxStack
  /\ Is(name, "string")
  /\ \E f \in Reachable : type[f] = "function" /\ name \in Kids(f)
  /\ Await("struct", [NoJob EXCEPT !.held = {name}])
  /\ UNCHANGED <<heap, machine, collector>>

NewStruct(o) ==
  /\ At("struct") /\ Push(o)
  /\ NewObject(o, "struct", [i \in {1} |-> CHOOSE n \in job.held : TRUE])
  /\ Return
  /\ UNCHANGED <<text, strings, upvalues, global, collector>>

(* OP_STRUCT_INIT of a struct with one field: newInstance has the instance *)
(* on the stack while its fields are allocated.                            *)
BeginInstance ==
  /\ Idle /\ "instance" \in Types /\ Temporaries(2) /\ Len(stack) < MaxStack
  /\ Is(Below, "struct")
  /\ Await("instance", [NoJob EXCEPT !.held = {Below}])
  /\ UNCHANGED <<heap, machine, collector>>

(* Mutant: allocates the fields while only a C variable holds the instance. *)
NewInstanceUnrooted(o) ==
  /\ At("instance")
  /\ NewObject(o, "instance", <<Below>>)
  /\ Await("fields", [job EXCEPT !.obj = o])
  /\ UNCHANGED <<text, strings, machine, collector>>

NewInstance(o) ==
  /\ At("instance") /\ Push(o)
  /\ NewObject(o, "instance", <<Below>>)
  /\ Await("fields", [job EXCEPT !.obj = o])
  /\ UNCHANGED <<text, strings, upvalues, global, collector>>

InstanceFields ==
  /\ At("fields")
  /\ kids' = [kids EXCEPT ![job.obj] = Append(@, Below)]
  /\ stack' = Append(Drop(3), job.obj)
  /\ Return
  /\ UNCHANGED <<objects, type, text, strings, upvalues, global, collector>>

(* newArray: the values first, so that nothing runs between the object and *)
(* the moment the caller has it on the stack.                              *)
BeginArray(n) ==
  /\ Idle /\ "array" \in Types /\ Temporaries(n) /\ n <= MaxKids
  /\ Len(stack) - n < MaxStack
  /\ Await("array values", [NoJob EXCEPT !.arg = n])
  /\ UNCHANGED <<heap, machine, collector>>

ArrayValues ==
  /\ At("array values")
  /\ Await("array", job)
  /\ UNCHANGED <<heap, machine, collector>>

NewArray(o) ==
  LET n == job.arg
  IN  /\ At("array")
      /\ NewObject(o, "array", SubSeq(stack, Len(stack) - n + 1, Len(stack)))
      /\ stack' = Append(Drop(n), o)
      /\ Return
      /\ UNCHANGED <<text, strings, upvalues, global, collector>>

(* newBoundMethod: the receiver stays on the stack, its method in the      *)
(* receiver's struct.                                                      *)
BeginBound(m) ==
  /\ Idle /\ "bound" \in Types /\ Temporaries(1) /\ Len(stack) > 0
  /\ Is(Top, "instance") /\ Is(m, "closure") /\ m \in Kids(kids[Top][1])
  /\ Await("bound", [NoJob EXCEPT !.held = {Top, m}, !.arg = m])
  /\ UNCHANGED <<heap, machine, collector>>

NewBound(o) ==
  /\ At("bound")
  /\ NewObject(o, "bound", <<Top, job.arg>>)
  /\ stack' = Append(Drop(1), o)
  /\ Return
  /\ UNCHANGED <<text, strings, upvalues, global, collector>>

(* newClosure: the array of upvalues, then the closure, which has no owner *)
(* yet (its second reference).  The function is on the stack, as in        *)
(* interpretFunction, or a constant of the running one.                    *)
BeginClosure ==
  /\ Idle /\ "closure" \in Types /\ Temporaries(1) /\ Len(stack) > 0
  /\ Is(Top, "function")
  /\ Await("closure upvalues", [NoJob EXCEPT !.held = {Top}])
  /\ UNCHANGED <<heap, machine, collector>>

ClosureUpvalues ==
  /\ At("closure upvalues")
  /\ Await("closure", job)
  /\ UNCHANGED <<heap, machine, collector>>

NewClosure(o) ==
  /\ At("closure")
  /\ NewObject(o, "closure", <<Top, Nil>>)
  /\ stack' = Append(Drop(1), o)
  /\ Return
  /\ UNCHANGED <<text, strings, upvalues, global, collector>>

(* captureUpvalue for the closure on top: the slot's open upvalue, or a    *)
(* new one while the closure waits on the stack.                           *)
BeginCapture(s) ==
  /\ Idle /\ "upvalue" \in Types
  /\ Len(stack) > 0 /\ s \in 1..Len(stack) /\ Is(Top, "closure")
  /\ Len(kids[Top]) < MaxKids
  /\ IF open[s] # Nil
       THEN kids' = [kids EXCEPT ![Top] = Append(@, open[s])] /\ UNCHANGED <<job, armed>>
       ELSE kids' = kids /\ Await("upvalue", [NoJob EXCEPT !.arg = s, !.held = {Top}])
  /\ UNCHANGED <<objects, type, text, strings, machine, collector>>

NewUpvalue(o) ==
  /\ At("upvalue")
  /\ type[o] = "free"
  /\ objects' = <<o>> \o objects
  /\ type' = [type EXCEPT ![o] = "upvalue"]
  /\ kids' = [kids EXCEPT ![o] = <<Nil>>, ![Top] = Append(@, o)]
  /\ open' = [open EXCEPT ![job.arg] = o]
  /\ location' = [location EXCEPT ![o] = job.arg]
  /\ Return
  /\ UNCHANGED <<text, strings, stack, global, collector>>

----------------------------------------------------------------------------
(* Instructions that allocate nothing.                                     *)

Quiet == Idle /\ UNCHANGED <<objects, type, text, strings, job, armed, collector>>

(* OP_POP.  Where no upvalue outlives its slot it is for temporaries and  *)
(* locals that no closure captured; a break may pop a captured one.        *)
Pop ==
  /\ Quiet /\ Temporaries(1) /\ Len(stack) > 0
  /\ stack' = Drop(1)
  /\ UNCHANGED <<kids, upvalues, global>>

(* closeUpvalues: the listed ones from the slot s on take their value over. *)
CloseFrom(s) ==
  LET closing == {open[t] : t \in s..MaxStack} \ {Nil}
  IN  /\ \E shown \in [closing -> UNION {Seen(u) : u \in closing}] :
           /\ \A u \in closing : shown[u] \in Seen(u)
           /\ kids' = [u \in Address |-> IF u \in closing THEN <<shown[u]>> ELSE kids[u]]
      /\ open' = [t \in 1..MaxStack |-> IF t >= s THEN Nil ELSE open[t]]
      /\ location' = [u \in Address |-> IF u \in closing THEN 0 ELSE location[u]]

(* OP_CLOSE_UPVALUE.                                                       *)
CloseUpvalue ==
  /\ Quiet /\ Len(stack) > 0
  /\ CloseFrom(Len(stack))
  /\ stack' = Drop(1)
  /\ global' = global

(* OP_RETURN from a call: the callee, or its receiver, is in slot s.       *)
ReturnFrom(s) ==
  /\ Quiet /\ Temporaries(1) /\ s < Len(stack)
  /\ Is(stack[s], "closure") \/ Is(stack[s], "instance")
  /\ CloseFrom(s)
  /\ stack' = Append(SubSeq(stack, 1, s - 1), Top)
  /\ global' = global

(* OP_GET_UPVALUE in a call of the closure c.                              *)
GetUpvalue(c, i) ==
  /\ Quiet /\ type[c] = "closure" /\ i > 2 /\ i \in DOMAIN kids[c] /\ c \in Reachable
  /\ \E x \in Seen(kids[c][i]) : Push(x)
  /\ UNCHANGED <<kids, upvalues, global>>

(* OP_SET_UPVALUE; what it writes above stackTop is never marked.          *)
SetUpvalue(c, i) ==
  /\ Quiet /\ type[c] = "closure" /\ i > 2 /\ i \in DOMAIN kids[c] /\ c \in Reachable
  /\ Len(stack) > 0
  /\ LET u == kids[c][i]
     IN  /\ kids' = IF location[u] = 0 THEN [kids EXCEPT ![u] = <<Top>>] ELSE kids
         /\ stack' = [s \in DOMAIN stack |-> IF s = location[u] THEN Top ELSE stack[s]]
  /\ UNCHANGED <<upvalues, global>>

(* OP_CONSTANT, of a function that some closure or the stack holds.        *)
Constant(f, x) ==
  /\ Quiet /\ type[f] = "function" /\ x \in Kids(f) /\ f \in Reachable
  /\ Push(x)
  /\ UNCHANGED <<kids, upvalues, global>>

PushNil ==
  /\ Quiet /\ Push(Nil)
  /\ UNCHANGED <<kids, upvalues, global>>

(* OP_GET_INDEX, OP_GET_PROPERTY: an element takes its container's place.  *)
Load(i) ==
  /\ Quiet /\ Temporaries(1) /\ Len(stack) > 0 /\ Top # Nil
  /\ i \in DOMAIN kids[Top]
  /\ \/ type[Top] \in {"list", "array"}
     \/ type[Top] = "instance" /\ i > 1
  /\ stack' = Append(Drop(1), kids[Top][i])
  /\ UNCHANGED <<kids, upvalues, global>>

(* OP_SET_INDEX, OP_SET_PROPERTY.                                          *)
Store(i) ==
  /\ Quiet /\ Temporaries(2) /\ Below # Nil
  /\ i \in DOMAIN kids[Below]
  /\ \/ type[Below] \in {"list", "array"}
     \/ type[Below] = "instance" /\ i > 1
  /\ kids' = [kids EXCEPT ![Below] = [@ EXCEPT ![i] = Top]]
  /\ stack' = Append(Drop(2), Top)
  /\ UNCHANGED <<upvalues, global>>

GetGlobal ==
  /\ Quiet /\ Push(global)
  /\ UNCHANGED <<kids, upvalues, global>>

SetGlobal ==
  /\ Quiet /\ Len(stack) > 0
  /\ global' = Top
  /\ UNCHANGED <<kids, stack, upvalues>>

(* runtimeError: resetStack empties the list of open upvalues, which go on *)
(* pointing at slots that are no longer marked.                            *)
RuntimeError ==
  /\ Quiet /\ Len(stack) > 0
  /\ Outlived \/ \A s \in 1..MaxStack : open[s] = Nil
  /\ stack' = << >>
  /\ open' = [s \in 1..MaxStack |-> Nil]
  /\ UNCHANGED <<kids, location, global>>

Collect ==
  \/ StartCollection \/ RemoveWhite \/ Keep \/ Free \/ EndCollection
  \/ \E o \in Address : Blacken(o)

Mutate ==
  \/ \E t \in Text :
       \/ \E then \in {"push", "append"} :
            \E source \in {{}} \cup {{s} : s \in {s \in Elements(stack) : Is(s, "string")}} :
              BeginCopyString(t, then, source)
       \/ BeginConcatenate(t)
  \/ CopyChars \/ ConcatChars \/ Intern \/ BeginAppend \/ FinishAppend
  \/ \E t \in {"list", "function"} : BeginEmpty(t) \/ \E o \in Address : NewEmpty(o, t)
  \/ BeginInstance \/ InstanceFields \/ ArrayValues \/ BeginClosure \/ ClosureUpvalues
  \/ \E n \in 0..MaxKids : BeginArray(n)
  \/ \E s \in 1..MaxStack : BeginCapture(s)
  \/ \E o \in Address :
       \/ BeginStruct(o) \/ BeginBound(o)
       \/ NewString(o) \/ NewStruct(o) \/ NewInstance(o) \/ NewArray(o) \/ NewBound(o)
       \/ NewClosure(o) \/ NewUpvalue(o)
  \/ Pop \/ CloseUpvalue \/ PushNil \/ GetGlobal \/ SetGlobal \/ RuntimeError
  \/ \E s \in 1..MaxStack : ReturnFrom(s)
  \/ \E i \in 1..MaxKids :
       \/ Load(i) \/ Store(i)
       \/ \E c \in Address : GetUpvalue(c, i) \/ SetUpvalue(c, i)
  \/ \E f, x \in Address : Constant(f, x)

Next == Collect \/ Mutate

Spec == Init /\ [][Next]_vars /\ WF_vars(Collect)

----------------------------------------------------------------------------
(* Properties.                                                             *)

Pointers == (job.held \cup {job.obj}) \ {Nil}

HeapTypeOK ==
  /\ objects \in Seq(Address) /\ Elements(objects) = Allocated
  /\ \A i, j \in DOMAIN objects : objects[i] = objects[j] => i = j
  /\ type \in [Address -> ObjType \cup {"free"}]
  /\ kids \in [Address -> Seq(HeapValue)]
  /\ text \in [Address -> Text \cup {Nil}]
  /\ strings \subseteq Address
  /\ stack \in Seq(HeapValue) /\ Len(stack) <= MaxStack
  /\ open \in [1..MaxStack -> HeapValue]
  /\ global \in HeapValue
  /\ phase \in {"off", "trace", "sweep"}
  /\ gray \subseteq marked /\ marked \subseteq Address
  /\ kept \in 0..Len(objects)

TypeOK == HeapTypeOK /\ location \in [Address -> 0..MaxStack]

(* No reference the program, a C function in mid-flight or the list of     *)
(* open upvalues still holds leads to freed memory, nor does a value that  *)
(* a closure can read through an upvalue, whichever allocation the         *)
(* collection ran at.  (Not so where an upvalue may outlive its slot.)     *)
NoDanglingReference ==
  /\ (Reachable \cup Pointers) \subseteq Allocated
  /\ \A u \in Reachable : type[u] = "upvalue" => Seen(u) \subseteq Allocated \cup {Nil}

(* When nothing is gray any more, the marked objects are the reachable     *)
(* ones: the sweep frees neither too much nor too little.                  *)
MarkedIsReachable == phase = "trace" /\ gray = {} => marked = Reachable

(* After a collection nothing unreachable is left, and no mark.            *)
SweepIsComplete ==
  [][phase = "sweep" /\ phase' = "off" => Allocated' = Reachable' /\ marked' = {}]_vars

(* Equal strings are the same object (valuesEqual compares pointers),      *)
(* except one that allocateString has not yet put in the table.            *)
StringsAreInterned ==
  \A s, t \in Reachable :
    /\ type[s] = "string" /\ type[t] = "string" /\ text[s] = text[t]
    /\ job.at = "intern" => job.obj \notin {s, t}
    => s = t

(* The weak table never names a freed string outside a sweep, so           *)
(* tableFindString compares characters that exist.                         *)
TableNamesLiveStrings == \A s \in strings : type[s] = "string"

(* freeObject of an instance reads instance->struct_->fieldCount: the list *)
(* of objects has every instance before its struct.                        *)
InstancesPrecedeTheirStruct ==
  \A o \in Allocated : type[o] = "instance" =>
    /\ type[kids[o][1]] = "struct"
    /\ \E i, j \in DOMAIN objects : i < j /\ objects[i] = o /\ objects[j] = kids[o][1]

(* A collection, once started, ends.                                       *)
CollectionEnds == phase # "off" ~> phase = "off"
=============================================================================
