----------------------------- MODULE HeapProofs -----------------------------
(***************************************************************************)
(* Proofs about module Heap, for every set of addresses and texts, every   *)
(* size of the stack and of an object: the inductive invariant of the      *)
(* collector and of the code that allocates, and the properties of the     *)
(* runs that follow from it.                                               *)
(*                                                                         *)
(* The argument has four parts.  While no collection runs, what is         *)
(* allocated refers to nothing freed.  While one runs nothing else does,   *)
(* and what it has blackened refers to what it has marked, so that in the  *)
(* end the marked objects are the reachable ones and the sweep frees the   *)
(* rest.  At every allocation the pointers held by C variables are         *)
(* reachable too (JobOK).  And an upvalue that points into the stack       *)
(* points at a slot in use, whose value is a root (SlotsOK), where no      *)
(* upvalue outlives its slot: that is what the theorems assume.            *)
(***************************************************************************)
EXTENDS Heap, TLAPS

USE DEF upvalues

(* A container that an append may be filling.                              *)
IsContainer(x) == x # Nil /\ type[x] \in {"list", "struct", "function"}

(* copyString and takeString can deliver their string: what they need lies *)
(* on the stack, below the n values they pushed themselves.                *)
CanDeliver(n) ==
  /\ job.arg \in Text /\ job.then \in {"push", "replace", "append"}
  /\ job.then = "replace" => Len(stack) - n >= 2
  /\ job.then = "append" => Len(stack) - n >= 1 /\ IsContainer(stack[Len(stack) - n])

(* What a C function relies on at each of its allocations: every pointer   *)
(* it holds is on the value stack, or something on the stack or a loaded   *)
(* function refers to it, so that a collection spares it.                  *)
JobOK ==
  \/ job.at \in {"none", "list", "function"} /\ job.obj = Nil /\ job.held = {}
  \/ /\ job.at = "copy chars" /\ CanDeliver(0) /\ Interned(job.arg) = {}
     /\ job.obj = Nil /\ job.held \subseteq Elements(stack)
  \/ /\ job.at = "concat chars" /\ job.arg \in Text /\ job.then = "replace" /\ Len(stack) >= 2
     /\ job.obj = Nil /\ job.held \subseteq Elements(stack)
  \/ /\ job.at = "string" /\ CanDeliver(0) /\ Interned(job.arg) = {}
     /\ job.obj = Nil /\ job.held = {}
  \/ /\ job.at = "intern" /\ CanDeliver(1) /\ Interned(job.arg) = {}
     /\ Len(stack) >= 1 /\ Is(Top, "string") /\ text[Top] = job.arg
     /\ job.obj = Top /\ job.held = {}
  \/ /\ job.at = "append" /\ Len(stack) >= 2 /\ IsContainer(Below)
     /\ job.obj = Top /\ job.held = {}
  \/ /\ job.at = "struct" /\ job.obj = Nil
     /\ \E n \in Reachable : job.held = {n}
  \/ /\ job.at = "instance" /\ Len(stack) >= 2 /\ Is(Below, "struct")
     /\ job.obj = Nil /\ job.held = {Below}
  \/ /\ job.at = "fields" /\ Len(stack) >= 3 /\ Is(Top, "instance")
     /\ job.obj = Top /\ job.held \subseteq Elements(stack)
  \/ /\ job.at \in {"array values", "array"} /\ job.arg \in 0..Len(stack)
     /\ Len(stack) - job.arg < MaxStack
     /\ job.obj = Nil /\ job.held = {}
  \/ /\ job.at = "bound" /\ Len(stack) >= 1 /\ Top # Nil /\ job.arg \in Reachable
     /\ job.obj = Nil /\ job.held = {Top, job.arg}
  \/ /\ job.at \in {"closure upvalues", "closure"} /\ Len(stack) >= 1 /\ Top # Nil
     /\ job.obj = Nil /\ job.held = {Top}
  \/ /\ job.at = "upvalue" /\ Len(stack) >= 1 /\ Is(Top, "closure")
     /\ job.arg \in 1..Len(stack)
     /\ job.obj = Nil /\ job.held = {Top}

(* The objects that will outlive the collection, if one is under way and   *)
(* has finished marking: others may refer to memory the sweep has freed.   *)
Live == IF phase = "sweep" THEN Reachable ELSE Allocated

(* Nothing that lives refers to freed memory.                              *)
ReferencesOK == Roots \subseteq Live /\ Closed(Live) /\ Live \subseteq Allocated

(* The collector between its steps: the marked objects are reachable, the  *)
(* black ones refer to marked ones only, and the sweep keeps exactly what  *)
(* is reachable.                                                           *)
Passed == {objects[i] : i \in 1..kept}
CollectorOK ==
  /\ phase = "off" => marked = {} /\ gray = {}
  /\ phase = "trace" => /\ Roots \subseteq marked /\ marked \subseteq Reachable
                        /\ \A o \in marked \ gray : Kids(o) \subseteq marked
  /\ phase = "sweep" => /\ gray = {} /\ Passed \cap marked = {}
                        /\ Passed \cup marked = Reachable

(* The intern table: one string per text, and every string that lives is   *)
(* in it, but for one that allocateString is about to add.                 *)
InternTableOK ==
  /\ strings \subseteq Live
  /\ \A s \in strings : type[s] = "string"
  /\ \A s, t \in strings : text[s] = text[t] => s = t
  /\ \A s \in Live : type[s] = "string" => s \in strings \/ (job.at = "intern" /\ s = job.obj)

OpenOK == \A s \in 1..MaxStack : open[s] # Nil => type[open[s]] = "upvalue"

(* An instance has its struct, the first thing blackenObject marks.        *)
InstancesOK == \A o \in Allocated : type[o] = "instance" => 1 \in DOMAIN kids[o]

(* job is a record with these fields.                                      *)
IsJob(j) == j = [at |-> j.at, arg |-> j.arg, then |-> j.then, obj |-> j.obj, held |-> j.held]

(* The state of the heap, and what its steps keep of it and of the job.    *)
HeapOK ==
  /\ HeapTypeOK /\ ReferencesOK /\ CollectorOK /\ InternTableOK /\ OpenOK
  /\ InstancesOK /\ InstancesPrecedeTheirStruct

IInv == HeapOK /\ JobOK /\ IsJob(job)

(* An upvalue has its `closed`, and a closure, after its function and its  *)
(* owner, nothing but upvalues.                                            *)
OnlyUpvalues(refs) == \A i \in DOMAIN refs : i > 2 => Is(refs[i], "upvalue")
UpvaluesOK ==
  \A o \in Live : /\ type[o] = "upvalue" => 1 \in DOMAIN kids[o]
                  /\ type[o] = "closure" => OnlyUpvalues(kids[o])

(* The values on top of the stack that the job is going to take away.      *)
ToDeliver ==
  CASE job.then = "append" -> 1 [] job.then = "replace" -> 2 [] OTHER -> 0
Operands ==
  CASE job.at \in {"copy chars", "string"} -> ToDeliver
    [] job.at = "intern" -> ToDeliver + 1
    [] job.at \in {"concat chars", "append", "instance"} -> 2
    [] job.at = "fields" -> 3
    [] job.at \in {"array values", "array"} -> job.arg
    [] job.at \in {"bound", "closure upvalues", "closure"} -> 1
    [] OTHER -> 0

(* An upvalue that points into the stack is the listed one of its slot,    *)
(* and the slot is in use and no operand of the job: nothing takes it away *)
(* but closeUpvalues.  This is so where no upvalue outlives its slot.      *)
SlotsOK ==
  /\ location \in [Address -> 0..MaxStack]
  /\ \A u \in Address : location[u] # 0 => open[location[u]] = u
  /\ \A s \in 1..MaxStack : open[s] # Nil => s + Operands <= Len(stack)
  /\ job.at = "upvalue" => open[job.arg] = Nil

(* The inductive invariant.                                                *)
Inv == IInv /\ UpvaluesOK /\ SlotsOK

----------------------------------------------------------------------------
(* Sequences.                                                              *)

LEMMA ElementsOfSeq ==
  ASSUME NEW S, NEW s \in Seq(S)
  PROVE  /\ Elements(s) \subseteq S
         /\ \A i \in 1..Len(s) : s[i] \in Elements(s) /\ s[i] \in S
         /\ Len(s) \in Nat /\ DOMAIN s = 1..Len(s)
BY DEF Elements

LEMMA SeqOfElements ==
  ASSUME NEW T, NEW s \in Seq(T), NEW S, Elements(s) \subseteq S
  PROVE  s \in Seq(S)
<1>1. Len(s) \in Nat /\ DOMAIN s = 1..Len(s) /\ \A i \in 1..Len(s) : s[i] \in S
  BY DEF Elements
<1>2. s = [i \in 1..Len(s) |-> s[i]]
  OBVIOUS
<1> QED BY <1>1, <1>2

(* Prefixes, as Drop makes them.                                           *)
LEMMA PrefixOfSeq ==
  ASSUME NEW S, NEW s \in Seq(S), NEW n \in 0..Len(s)
  PROVE  /\ SubSeq(s, 1, n) \in Seq(S) /\ Len(SubSeq(s, 1, n)) = n
         /\ \A i \in 1..n : SubSeq(s, 1, n)[i] = s[i]
OBVIOUS

LEMMA AppendToSeq ==
  ASSUME NEW S, NEW s \in Seq(S), NEW x \in S
  PROVE  /\ Append(s, x) \in Seq(S) /\ Len(Append(s, x)) = Len(s) + 1
         /\ \A i \in 1..Len(s) : Append(s, x)[i] = s[i]
         /\ Append(s, x)[Len(s) + 1] = x
OBVIOUS

----------------------------------------------------------------------------
(* What is reachable.                                                      *)

ReachableFacts ==
  /\ \A S \in SUBSET Address : Roots \subseteq S /\ Closed(S) => Reachable \subseteq S
  /\ Roots \subseteq Reachable /\ Closed(Reachable) /\ Reachable \subseteq Address

LEMMA ReachableIsLeast == HeapTypeOK => ReachableFacts
<1> SUFFICES ASSUME HeapTypeOK PROVE ReachableFacts
  OBVIOUS
<1>1. Roots \subseteq Address
  <2>1. Elements(stack) \subseteq HeapValue
    BY ElementsOfSeq DEF HeapTypeOK
  <2>2. Elements(open) \subseteq HeapValue
    BY DEF HeapTypeOK, Elements
  <2> QED BY <2>1, <2>2 DEF Roots, HeapTypeOK, HeapValue
<1>2. \A o \in Address : Kids(o) \subseteq Address
  BY ElementsOfSeq DEF HeapTypeOK, Kids, HeapValue
<1>3. ASSUME NEW S \in SUBSET Address, Roots \subseteq S, Closed(S)
      PROVE  Reachable \subseteq S
  BY <1>3 DEF Reachable
<1>4. Roots \subseteq Reachable /\ Reachable \subseteq Address
  BY <1>1 DEF Reachable
<1>5. Closed(Reachable)
  <2>1. ASSUME NEW o \in Reachable, NEW k \in Kids(o) PROVE k \in Reachable
    <3>1. o \in Address /\ k \in Address
      BY <1>2, <1>4
    <3>2. ASSUME NEW S \in SUBSET Address, Roots \subseteq S, Closed(S) PROVE k \in S
      <4>1. o \in S
        BY <1>3, <3>2
      <4> QED BY <3>2, <4>1 DEF Closed
    <3> QED BY <3>1, <3>2 DEF Reachable
  <2> QED BY <2>1 DEF Closed
<1> QED BY <1>3, <1>4, <1>5 DEF ReachableFacts

LEMMA ReachableIsLeastNext == HeapTypeOK' => ReachableFacts'
BY ReachableIsLeast, PTL

(* What is reachable stays the same while the roots and the references of  *)
(* the reachable objects do.                                               *)
LEMMA ReachableKept ==
  ASSUME HeapTypeOK, HeapTypeOK', UNCHANGED <<stack, open, global>>,
         \A o \in Reachable : kids'[o] = kids[o]
  PROVE  Reachable' = Reachable
<1>1. ReachableFacts /\ ReachableFacts'
  BY ReachableIsLeast, ReachableIsLeastNext
<1>2. Roots' = Roots
  BY DEF Roots
<1>3. \A o \in Reachable : Kids(o)' = Kids(o)
  BY DEF Kids
<1>4. Reachable' \subseteq Reachable
  <2> DEFINE R == Reachable
  <2>1. Roots' \subseteq R /\ R \in SUBSET Address /\ \A o \in R : Kids(o)' \subseteq R
    BY <1>1, <1>2, <1>3 DEF ReachableFacts, Closed
  <2> HIDE DEF R
  <2>2. Reachable' \subseteq R
    BY <1>1, <2>1 DEF ReachableFacts, Closed
  <2> QED BY <2>2 DEF R
<1>5. Reachable \subseteq Reachable'
  <2>1. Roots \subseteq Reachable' /\ Reachable' \in SUBSET Address
    BY <1>1, <1>2 DEF ReachableFacts
  <2>2. \A o \in Reachable' : Kids(o) \subseteq Reachable'
    BY <1>1, <1>3, <1>4 DEF ReachableFacts, Closed
  <2> QED BY <1>1, <2>1, <2>2 DEF ReachableFacts, Closed
<1> QED BY <1>4, <1>5

(* Before marking is over all that is allocated lives, afterwards all that *)
(* is reachable.                                                           *)
LEMMA ReachableLives ==
  ASSUME HeapTypeOK, ReferencesOK
  PROVE  Reachable \subseteq Live
<1>1. Live \in SUBSET Address
  BY DEF ReferencesOK, Allocated
<1> QED BY <1>1, ReachableIsLeast DEF ReachableFacts, ReferencesOK

(* What lies on the stack, in the global and in open upvalues is reachable. *)
LEMMA RootsReachable ==
  ASSUME HeapTypeOK
  PROVE  /\ \A i \in 1..Len(stack) : stack[i] # Nil => stack[i] \in Reachable
         /\ \A i \in 1..MaxStack : open[i] # Nil => open[i] \in Reachable
         /\ \A x \in Elements(stack) : x # Nil => x \in Reachable
<1>1. Roots \subseteq Reachable
  BY ReachableIsLeast DEF ReachableFacts
<1>2. \A i \in 1..Len(stack) : stack[i] \in Elements(stack)
  BY ElementsOfSeq DEF HeapTypeOK
<1>3. \A i \in 1..MaxStack : open[i] \in Elements(open)
  BY DEF HeapTypeOK, Elements
<1> QED BY <1>1, <1>2, <1>3 DEF Roots

(* The two values on top of the stack.                                     *)
LEMMA TopOfStack ==
  ASSUME HeapTypeOK
  PROVE  /\ Len(stack) \in Nat /\ Len(stack) <= MaxStack /\ MaxStack \in Nat
         /\ Len(stack) >= 1 => /\ Len(stack) \in 1..Len(stack) /\ Top \in HeapValue
                               /\ Top = stack[Len(stack)] /\ Top \in Elements(stack)
                               /\ Top # Nil => Top \in Reachable
         /\ Len(stack) >= 2 => /\ Len(stack) - 1 \in 1..Len(stack) /\ Below \in HeapValue
                               /\ Below = stack[Len(stack) - 1] /\ Below \in Elements(stack)
                               /\ Below # Nil => Below \in Reachable
<1>1. Len(stack) \in Nat /\ Len(stack) <= MaxStack /\ MaxStack \in Nat
  BY HeapAssumption DEF HeapTypeOK
<1>2. \A i \in 1..Len(stack) : /\ stack[i] \in HeapValue /\ stack[i] \in Elements(stack)
                               /\ stack[i] # Nil => stack[i] \in Reachable
  BY ElementsOfSeq, RootsReachable DEF HeapTypeOK
<1> QED BY <1>1, <1>2 DEF Top, Below

LEMMA PointersAreReachable ==
  ASSUME HeapTypeOK, JobOK
  PROVE  Pointers \subseteq Reachable
<1>1. \A x \in Elements(stack) : x # Nil => x \in Reachable
  BY RootsReachable
<1>2. CASE job.at \in {"none", "list", "function", "string", "array values", "array"}
  BY <1>2 DEF JobOK, Pointers
<1>3. CASE job.at \in {"copy chars", "concat chars"}
  BY <1>1, <1>3 DEF JobOK, Pointers
<1>4. CASE job.at \in {"intern", "append", "fields"}
  <2>1. job.obj = Top /\ job.held \subseteq Elements(stack) /\ Len(stack) >= 1
    <3>1. CASE job.at = "intern"
      BY <3>1 DEF JobOK
    <3>2. CASE job.at = "append"
      BY <3>2, TopOfStack DEF JobOK
    <3>3. CASE job.at = "fields"
      BY <3>3, TopOfStack DEF JobOK
    <3> QED BY <1>4, <3>1, <3>2, <3>3
  <2> QED BY <1>1, <2>1, TopOfStack DEF Pointers
<1>5. CASE job.at = "struct"
  BY <1>5 DEF JobOK, Pointers
<1>6. CASE job.at \in {"instance", "bound", "closure upvalues", "closure", "upvalue"}
  BY <1>6, TopOfStack DEF JobOK, Pointers
<1> QED BY <1>2, <1>3, <1>4, <1>5, <1>6 DEF JobOK

----------------------------------------------------------------------------
(* The collector.                                                          *)

(* The waiting C function finds its state as it left it, since a           *)
(* collection spares what it holds and only removes names of strings.      *)
LEMMA CollectorKeepsJob ==
  ASSUME HeapTypeOK, HeapTypeOK', JobOK, UNCHANGED <<stack, open, global, job>>,
         Reachable' = Reachable,
         \A o \in Reachable : type'[o] = type[o] /\ text'[o] = text[o],
         \A s \in strings' : s \in strings /\ text'[s] = text[s]
  PROVE  JobOK'
<1>1. /\ Top' = Top /\ Below' = Below /\ Elements(stack)' = Elements(stack)
      /\ Len(stack) \in Nat
  BY DEF Top, Below, Elements, HeapTypeOK
<1>2. ASSUME Interned(job.arg) = {} PROVE Interned(job.arg)' = {}
  BY <1>2 DEF Interned
<1>3. ASSUME NEW x \in Elements(stack), NEW t
      PROVE  /\ Is(x, t) => Is(x, t)'
             /\ IsContainer(x) => IsContainer(x)'
  <2>1. x # Nil => type'[x] = type[x]
    BY RootsReachable
  <2> QED BY <2>1 DEF Is, IsContainer
<1>4. ASSUME NEW n \in {0, 1}, CanDeliver(n) PROVE CanDeliver(n)'
  <2>1. job.then = "append" => stack[Len(stack) - n] \in Elements(stack)
    BY <1>1, <1>4, ElementsOfSeq DEF CanDeliver, HeapTypeOK
  <2> QED BY <1>1, <1>3, <1>4, <2>1 DEF CanDeliver
<1>5. Len(stack) >= 1 => Top \in Elements(stack)
  BY TopOfStack
<1>6. Len(stack) >= 2 => Below \in Elements(stack)
  BY TopOfStack
<1>7. CASE job.at \in {"none", "list", "function", "array values", "array"}
  BY <1>7 DEF JobOK
<1>8. CASE job.at = "copy chars"
  BY <1>1, <1>2, <1>4, <1>8 DEF JobOK
<1>9. CASE job.at = "concat chars"
  BY <1>1, <1>9 DEF JobOK
<1>10. CASE job.at = "string"
  BY <1>2, <1>4, <1>10 DEF JobOK
<1>11. CASE job.at = "intern"
  <2>1. text'[Top] = text[Top]
    BY <1>5, <1>11, TopOfStack DEF JobOK, Is
  <2> QED BY <1>1, <1>2, <1>3, <1>4, <1>5, <1>11, <2>1 DEF JobOK
<1>12. CASE job.at = "append"
  BY <1>1, <1>3, <1>6, <1>12 DEF JobOK
<1>13. CASE job.at = "struct"
  BY <1>13 DEF JobOK
<1>14. CASE job.at = "instance"
  BY <1>1, <1>3, <1>6, <1>14 DEF JobOK
<1>17. CASE job.at = "fields"
  <2>1. Len(stack) >= 1
    BY <1>17, TopOfStack DEF JobOK
  <2> QED BY <1>1, <1>3, <1>5, <1>17, <2>1 DEF JobOK
<1>15. CASE job.at \in {"bound", "closure upvalues", "closure"}
  BY <1>1, <1>15 DEF JobOK
<1>16. CASE job.at = "upvalue"
  BY <1>1, <1>3, <1>5, <1>16 DEF JobOK
<1> QED BY <1>7, <1>8, <1>9, <1>10, <1>11, <1>12, <1>13, <1>14, <1>15, <1>16, <1>17 DEF JobOK

(* Steps that free nothing and change no reference.                        *)
LEMMA MarkingStep ==
  ASSUME IInv, UNCHANGED <<objects, type, kids, text, machine, job>>,
         strings' \subseteq strings,
         phase' \in {"off", "trace", "sweep"}, gray' \subseteq marked', marked' \subseteq Address,
         kept' \in 0..Len(objects)
  PROVE  /\ HeapTypeOK' /\ JobOK' /\ IsJob(job)' /\ Reachable' = Reachable
         /\ Roots' = Roots /\ Allocated' = Allocated
         /\ \A o \in Address : Kids(o)' = Kids(o)
         /\ OpenOK' /\ InstancesOK' /\ InstancesPrecedeTheirStruct'
<1>1. HeapTypeOK /\ JobOK /\ UNCHANGED <<stack, open, global>>
  BY DEF IInv, HeapOK, machine
<1>2. Allocated' = Allocated /\ Roots' = Roots /\ \A o \in Address : Kids(o)' = Kids(o)
  BY <1>1 DEF Allocated, Roots, Kids
<1>3. HeapTypeOK'
  BY <1>1, <1>2 DEF HeapTypeOK
<1>4. Reachable' = Reachable
  BY <1>1, <1>3, ReachableKept
<1>5. JobOK'
  BY <1>1, <1>3, <1>4, CollectorKeepsJob
<1>6. OpenOK' /\ InstancesOK' /\ InstancesPrecedeTheirStruct' /\ IsJob(job)'
  BY <1>1, <1>2 DEF IInv, HeapOK, OpenOK, InstancesOK, InstancesPrecedeTheirStruct, IsJob
<1> QED BY <1>2, <1>3, <1>4, <1>5, <1>6

LEMMA StartCollectionPreservesIInv == IInv /\ StartCollection => IInv'
<1> SUFFICES ASSUME IInv, StartCollection PROVE IInv'
  OBVIOUS
<1>1. /\ phase = "off" /\ phase' = "trace" /\ marked' = Roots /\ gray' = Roots
      /\ UNCHANGED <<objects, type, kids, text, strings, machine, job, kept>>
      /\ HeapTypeOK
  BY DEF StartCollection, heap, IInv, HeapOK
<1>2. ReachableFacts
  BY <1>1, ReachableIsLeast
<1>3. /\ HeapTypeOK' /\ JobOK' /\ IsJob(job)' /\ Reachable' = Reachable
      /\ Roots' = Roots /\ Allocated' = Allocated
      /\ \A o \in Address : Kids(o)' = Kids(o)
      /\ OpenOK' /\ InstancesOK' /\ InstancesPrecedeTheirStruct'
  <2>1. Roots \subseteq Address /\ kept' \in 0..Len(objects)
    BY <1>1, <1>2 DEF ReachableFacts, HeapTypeOK
  <2> QED BY <1>1, <2>1, MarkingStep
<1>4. ReferencesOK'
  BY <1>1, <1>3 DEF IInv, HeapOK, ReferencesOK, Live, Closed, Allocated
<1>5. CollectorOK'
  BY <1>1, <1>2, <1>3 DEF CollectorOK, ReachableFacts
<1>6. InternTableOK'
  BY <1>1, <1>3 DEF IInv, HeapOK, InternTableOK, Live
<1> QED BY <1>3, <1>4, <1>5, <1>6 DEF IInv, HeapOK

LEMMA BlackenPreservesIInv == ASSUME IInv, NEW o \in Address, Blacken(o) PROVE IInv'
<1>1. /\ phase = "trace" /\ phase' = "trace" /\ o \in gray
      /\ marked' = marked \cup Kids(o)
      /\ gray' = (gray \ {o}) \cup (Kids(o) \ marked)
      /\ UNCHANGED <<objects, type, kids, text, strings, machine, job, kept>>
      /\ HeapTypeOK
  BY DEF Blacken, heap, IInv, HeapOK
<1>2. ReachableFacts
  BY <1>1, ReachableIsLeast
<1>3. /\ Roots \subseteq marked /\ marked \subseteq Reachable /\ gray \subseteq marked
      /\ \A p \in marked \ gray : Kids(p) \subseteq marked
  BY <1>1 DEF IInv, HeapOK, CollectorOK, HeapTypeOK
<1>4. Kids(o) \subseteq Reachable
  BY <1>1, <1>2, <1>3 DEF ReachableFacts, Closed
<1>5. /\ HeapTypeOK' /\ JobOK' /\ IsJob(job)' /\ Reachable' = Reachable
      /\ Roots' = Roots /\ Allocated' = Allocated
      /\ \A p \in Address : Kids(p)' = Kids(p)
      /\ OpenOK' /\ InstancesOK' /\ InstancesPrecedeTheirStruct'
  <2>1. /\ gray' \subseteq marked' /\ marked' \subseteq Address /\ kept' \in 0..Len(objects)
    BY <1>1, <1>2, <1>3, <1>4 DEF ReachableFacts, HeapTypeOK
  <2> QED BY <1>1, <2>1, MarkingStep
<1>6. ReferencesOK'
  BY <1>1, <1>5 DEF IInv, HeapOK, ReferencesOK, Live, Closed, Allocated
<1>7. CollectorOK'
  <2>1. ASSUME NEW p \in marked' \ gray' PROVE Kids(p)' \subseteq marked'
    <3>1. p \in Address
      BY <1>5 DEF HeapTypeOK
    <3>2. Kids(p) \subseteq marked'
      BY <1>1, <1>3
    <3> QED BY <1>5, <3>1, <3>2
  <2> QED BY <1>1, <1>3, <1>4, <1>5, <2>1 DEF CollectorOK
<1>8. InternTableOK'
  BY <1>1, <1>5 DEF IInv, HeapOK, InternTableOK, Live
<1> QED BY <1>5, <1>6, <1>7, <1>8 DEF IInv, HeapOK

(* Once nothing is gray the marked objects are those that are reachable.   *)
LEMMA AllBlack ==
  ASSUME HeapTypeOK, CollectorOK, phase = "trace", gray = {}
  PROVE  marked = Reachable
<1>1. ReachableFacts
  BY ReachableIsLeast
<1>2. marked \in SUBSET Address /\ Roots \subseteq marked /\ Closed(marked)
  BY DEF HeapTypeOK, CollectorOK, Closed
<1> QED BY <1>1, <1>2 DEF ReachableFacts, CollectorOK

LEMMA RemoveWhitePreservesIInv == IInv /\ RemoveWhite => IInv'
<1> SUFFICES ASSUME IInv, RemoveWhite PROVE IInv'
  OBVIOUS
<1>1. /\ phase = "trace" /\ phase' = "sweep" /\ gray = {} /\ kept' = 0
      /\ strings' = strings \cap marked
      /\ UNCHANGED <<objects, type, kids, text, machine, job, marked, gray>>
      /\ HeapTypeOK
  BY DEF RemoveWhite, IInv, HeapOK
<1>2. marked = Reachable /\ ReachableFacts
  BY <1>1, AllBlack, ReachableIsLeast DEF IInv, HeapOK
<1>3. /\ HeapTypeOK' /\ JobOK' /\ IsJob(job)' /\ Reachable' = Reachable
      /\ Roots' = Roots /\ Allocated' = Allocated
      /\ \A o \in Address : Kids(o)' = Kids(o)
      /\ OpenOK' /\ InstancesOK' /\ InstancesPrecedeTheirStruct'
  <2>1. kept' \in 0..Len(objects) /\ marked' \subseteq Address /\ gray' \subseteq marked'
    BY <1>1 DEF HeapTypeOK
  <2> QED BY <1>1, <2>1, MarkingStep
<1>4. Live = Allocated /\ Live' = Reachable /\ Reachable \subseteq Allocated
  BY <1>1, <1>3, ReachableLives DEF Live, IInv, HeapOK
<1>5. ReferencesOK'
  BY <1>2, <1>3, <1>4 DEF ReferencesOK, ReachableFacts, Closed
<1>6. CollectorOK'
  <2>1. Passed' = {}
    BY <1>1 DEF Passed
  <2> QED BY <1>1, <1>2, <1>3, <2>1 DEF CollectorOK
<1>7. InternTableOK'
  BY <1>1, <1>2, <1>4 DEF IInv, HeapOK, InternTableOK
<1> QED BY <1>3, <1>5, <1>6, <1>7 DEF IInv, HeapOK

LEMMA KeepPreservesIInv == IInv /\ Keep => IInv'
<1> SUFFICES ASSUME IInv, Keep PROVE IInv'
  OBVIOUS
<1> DEFINE o == objects[kept + 1]
<1>1. /\ phase = "sweep" /\ phase' = "sweep" /\ kept < Len(objects) /\ o \in marked
      /\ marked' = marked \ {o} /\ kept' = kept + 1
      /\ UNCHANGED <<objects, type, kids, text, strings, machine, job, gray>>
      /\ HeapTypeOK
  BY DEF Keep, heap, IInv, HeapOK
<1>2. /\ gray = {} /\ Passed \cap marked = {} /\ Passed \cup marked = Reachable
  BY <1>1 DEF IInv, HeapOK, CollectorOK
<1>3. Len(objects) \in Nat /\ kept \in Nat
  BY <1>1 DEF HeapTypeOK
<1>4. /\ HeapTypeOK' /\ JobOK' /\ IsJob(job)' /\ Reachable' = Reachable
      /\ Roots' = Roots /\ Allocated' = Allocated
      /\ \A p \in Address : Kids(p)' = Kids(p)
      /\ OpenOK' /\ InstancesOK' /\ InstancesPrecedeTheirStruct'
  <2>1. kept' \in 0..Len(objects) /\ marked' \subseteq Address /\ gray' \subseteq marked'
    BY <1>1, <1>2, <1>3 DEF HeapTypeOK
  <2> QED BY <1>1, <2>1, MarkingStep
<1>5. Passed' = Passed \cup {o}
  BY <1>1, <1>3 DEF Passed
<1>6. CollectorOK'
  BY <1>1, <1>2, <1>4, <1>5 DEF CollectorOK
<1>7. Live' = Live
  BY <1>1, <1>4 DEF Live
<1>8. ReferencesOK'
  BY <1>4, <1>7 DEF IInv, HeapOK, ReferencesOK, Closed, Allocated
<1>9. InternTableOK'
  BY <1>1, <1>7 DEF IInv, HeapOK, InternTableOK
<1> QED BY <1>4, <1>6, <1>8, <1>9 DEF IInv, HeapOK

LEMMA EndCollectionPreservesIInv ==
  ASSUME IInv, EndCollection
  PROVE  IInv' /\ Allocated' = Reachable' /\ marked' = {}
<1>1. /\ phase = "sweep" /\ phase' = "off" /\ kept = Len(objects) /\ kept' = 0
      /\ UNCHANGED <<objects, type, kids, text, strings, machine, job, marked, gray>>
      /\ HeapTypeOK
  BY DEF EndCollection, heap, IInv, HeapOK
<1>2. /\ gray = {} /\ Passed \cap marked = {} /\ Passed \cup marked = Reachable
      /\ Live = Reachable /\ Reachable \subseteq Allocated
  BY <1>1 DEF IInv, HeapOK, CollectorOK, Live, ReferencesOK
<1>3. Passed = Allocated
  <2>1. Elements(objects) = Allocated /\ DOMAIN objects = 1..kept
    BY <1>1, ElementsOfSeq DEF HeapTypeOK
  <2> QED BY <2>1 DEF Passed, Elements
<1>4. marked = {} /\ Reachable = Allocated
  BY <1>2, <1>3
<1>5. /\ HeapTypeOK' /\ JobOK' /\ IsJob(job)' /\ Reachable' = Reachable
      /\ Roots' = Roots /\ Allocated' = Allocated
      /\ \A p \in Address : Kids(p)' = Kids(p)
      /\ OpenOK' /\ InstancesOK' /\ InstancesPrecedeTheirStruct'
  <2>1. kept' \in 0..Len(objects) /\ marked' \subseteq Address /\ gray' \subseteq marked'
    BY <1>1, <1>2, <1>4 DEF HeapTypeOK
  <2> QED BY <1>1, <2>1, MarkingStep
<1>6. CollectorOK'
  BY <1>1, <1>2, <1>4 DEF CollectorOK
<1>7. Live' = Live
  BY <1>1, <1>2, <1>4, <1>5 DEF Live
<1>8. ReferencesOK'
  BY <1>5, <1>7 DEF IInv, HeapOK, ReferencesOK, Closed, Allocated
<1>9. InternTableOK'
  BY <1>1, <1>7 DEF IInv, HeapOK, InternTableOK
<1> QED BY <1>1, <1>4, <1>5, <1>6, <1>8, <1>9 DEF IInv, HeapOK

(* Unlinking the object after the kept ones moves those behind it forward. *)
LEMMA Unlinked ==
  ASSUME HeapTypeOK, kept < Len(objects),
         objects' = [i \in 1..Len(objects) - 1 |->
                       IF i <= kept THEN objects[i] ELSE objects[i + 1]]
  PROVE  /\ objects' \in Seq(Address) /\ Len(objects') = Len(objects) - 1
         /\ DOMAIN objects' = 1..Len(objects) - 1
         /\ \A i \in 1..Len(objects) : i <= kept => i \in DOMAIN objects' /\ objects'[i] = objects[i]
         /\ \A i \in 1..Len(objects) : i > kept + 1 =>
              i - 1 \in DOMAIN objects' /\ objects'[i - 1] = objects[i]
         /\ \A i \in DOMAIN objects' : \E j \in 1..Len(objects) :
              /\ objects'[i] = objects[j] /\ j # kept + 1
              /\ j = IF i <= kept THEN i ELSE i + 1
<1>1. /\ Len(objects) \in Nat /\ kept \in Nat
      /\ \A i \in 1..Len(objects) : objects[i] \in Address
  BY ElementsOfSeq DEF HeapTypeOK
<1>2. /\ objects' \in Seq(Address) /\ Len(objects') = Len(objects) - 1
      /\ DOMAIN objects' = 1..Len(objects) - 1
  BY <1>1
<1> QED BY <1>1, <1>2

LEMMA FreePreservesIInv == IInv /\ Free => IInv'
<1> SUFFICES ASSUME IInv, Free PROVE IInv'
  OBVIOUS
<1>1. /\ phase = "sweep" /\ kept < Len(objects)
      /\ HeapTypeOK /\ ReferencesOK /\ CollectorOK /\ JobOK /\ ReachableFacts
      /\ UNCHANGED <<stack, open, global, strings, job, phase, marked, gray, kept>>
  BY ReachableIsLeast DEF Free, IInv, HeapOK, machine, collector
<1>2. PICK o : /\ o = objects[kept + 1] /\ o \notin marked
               /\ objects' = [i \in 1..Len(objects) - 1 |->
                                IF i <= kept THEN objects[i] ELSE objects[i + 1]]
               /\ type' = [type EXCEPT ![o] = "free"]
               /\ kids' = [kids EXCEPT ![o] = << >>]
               /\ text' = [text EXCEPT ![o] = Nil]
  BY DEF Free
<1>3. /\ Len(objects) \in Nat /\ kept \in Nat /\ kept + 1 \in 1..Len(objects)
      /\ DOMAIN objects = 1..Len(objects)
      /\ \A i \in 1..Len(objects) : objects[i] \in Allocated
      /\ \A p \in Allocated : \E i \in 1..Len(objects) : objects[i] = p
      /\ \A i, j \in 1..Len(objects) : objects[i] = objects[j] => i = j
  BY <1>1, ElementsOfSeq DEF HeapTypeOK, Elements
<1>4. o \in Address /\ o \in Allocated /\ o \notin Passed
  BY <1>2, <1>3 DEF Passed, Allocated
<1>5. o \notin Reachable /\ Live = Reachable /\ Reachable \subseteq Allocated
  BY <1>1, <1>2, <1>4 DEF CollectorOK, Live, ReferencesOK
<1>6. /\ type'[o] = "free" /\ kids'[o] = << >>
      /\ \A p \in Address : p # o => /\ type'[p] = type[p] /\ kids'[p] = kids[p]
                                     /\ text'[p] = text[p]
  BY <1>1, <1>2, <1>4 DEF HeapTypeOK
<1>7. Allocated' = Allocated \ {o}
  BY <1>4, <1>6 DEF Allocated
<1>8. /\ objects' \in Seq(Address) /\ Len(objects') = Len(objects) - 1
      /\ DOMAIN objects' = 1..Len(objects) - 1
      /\ \A i \in 1..Len(objects) : i <= kept => i \in DOMAIN objects' /\ objects'[i] = objects[i]
      /\ \A i \in 1..Len(objects) : i > kept + 1 =>
           i - 1 \in DOMAIN objects' /\ objects'[i - 1] = objects[i]
      /\ \A i \in DOMAIN objects' : \E j \in 1..Len(objects) :
           /\ objects'[i] = objects[j] /\ j # kept + 1
           /\ j = IF i <= kept THEN i ELSE i + 1
  BY <1>1, <1>2, Unlinked
<1>9. HeapTypeOK'
  <2>1. Elements(objects') = Allocated'
    <3>1. ASSUME NEW p \in Elements(objects') PROVE p \in Allocated'
      <4>1. PICK i \in DOMAIN objects' : p = objects'[i]
        BY <3>1 DEF Elements
      <4>2. PICK j \in 1..Len(objects) : p = objects[j] /\ j # kept + 1
        BY <1>8, <4>1
      <4> QED BY <1>2, <1>3, <1>7, <4>2
    <3>2. ASSUME NEW p \in Allocated' PROVE p \in Elements(objects')
      <4>1. PICK i \in 1..Len(objects) : objects[i] = p /\ i # kept + 1
        BY <1>2, <1>3, <1>7
      <4>2. i <= kept \/ i > kept + 1
        BY <1>3, <4>1
      <4> QED BY <1>8, <4>1, <4>2 DEF Elements
    <3> QED BY <3>1, <3>2
  <2>2. \A i, j \in DOMAIN objects' : objects'[i] = objects'[j] => i = j
    <3>1. ASSUME NEW i \in DOMAIN objects', NEW j \in DOMAIN objects', objects'[i] = objects'[j]
          PROVE  i = j
      <4>1. PICK k \in 1..Len(objects) :
              objects'[i] = objects[k] /\ k = IF i <= kept THEN i ELSE i + 1
        BY <1>8
      <4>2. PICK m \in 1..Len(objects) :
              objects'[j] = objects[m] /\ m = IF j <= kept THEN j ELSE j + 1
        BY <1>8
      <4>3. k = m
        BY <1>3, <3>1, <4>1, <4>2
      <4>4. i \in Nat /\ j \in Nat
        BY <1>8
      <4> QED BY <1>3, <4>1, <4>2, <4>3, <4>4
    <3> QED BY <3>1
  <2>3. /\ type' \in [Address -> ObjType \cup {"free"}]
        /\ kids' \in [Address -> Seq(HeapValue)]
        /\ text' \in [Address -> Text \cup {Nil}]
    BY <1>1, <1>2 DEF HeapTypeOK
  <2>4. kept' \in 0..Len(objects')
    BY <1>1, <1>3, <1>8
  <2> QED BY <1>1, <1>8, <2>1, <2>2, <2>3, <2>4 DEF HeapTypeOK
<1>10. Reachable' = Reachable
  BY <1>1, <1>5, <1>6, <1>9, ReachableKept DEF ReachableFacts
<1>11. /\ Roots' = Roots /\ \A p \in Reachable : Kids(p)' = Kids(p)
       /\ Live' = Reachable
  BY <1>1, <1>5, <1>6, <1>10 DEF Roots, Kids, Live, ReachableFacts
<1>12. ReferencesOK'
  BY <1>1, <1>5, <1>7, <1>11 DEF ReferencesOK, ReachableFacts, Closed
<1>13. CollectorOK'
  <2>1. Passed' = Passed
    <3>1. kept' = kept /\ \A i \in 1..kept : objects'[i] = objects[i]
      BY <1>1, <1>3, <1>8
    <3> QED BY <3>1 DEF Passed
  <2> QED BY <1>1, <1>10, <2>1 DEF CollectorOK
<1>14. InternTableOK'
  <2>1. /\ strings \subseteq Reachable
        /\ \A s \in strings : type[s] = "string"
        /\ \A s, t \in strings : text[s] = text[t] => s = t
        /\ \A s \in Reachable : type[s] = "string" => s \in strings \/ (job.at = "intern" /\ s = job.obj)
    BY <1>5 DEF IInv, HeapOK, InternTableOK
  <2>2. \A s \in Reachable : type'[s] = type[s] /\ text'[s] = text[s]
    BY <1>1, <1>5, <1>6 DEF ReachableFacts
  <2> QED BY <1>1, <1>11, <2>1, <2>2 DEF InternTableOK
<1>15. OpenOK'
  <2>1. \A x \in 1..MaxStack : open[x] # Nil => open[x] \in Reachable /\ type[open[x]] = "upvalue"
    BY <1>1, RootsReachable DEF IInv, HeapOK, OpenOK
  <2> QED BY <1>1, <1>5, <1>6, <2>1 DEF OpenOK, ReachableFacts
<1>16. InstancesOK'
  BY <1>6, <1>7 DEF IInv, HeapOK, InstancesOK, Allocated
<1>17. InstancesPrecedeTheirStruct'
  <2>1. ASSUME NEW p \in Allocated', type'[p] = "instance"
        PROVE  /\ type'[kids'[p][1]] = "struct"
               /\ \E i, j \in DOMAIN objects' :
                    i < j /\ objects'[i] = p /\ objects'[j] = kids'[p][1]
    <3> DEFINE st == kids[p][1]
    <3>1. p \in Allocated /\ p # o /\ type[p] = "instance" /\ kids'[p] = kids[p] /\ p \in Address
      BY <1>6, <1>7, <2>1 DEF Allocated
    <3>2. /\ 1 \in DOMAIN kids[p] /\ type[st] = "struct"
          /\ \E i, j \in DOMAIN objects : i < j /\ objects[i] = p /\ objects[j] = st
      BY <3>1 DEF IInv, HeapOK, InstancesOK, InstancesPrecedeTheirStruct
    <3>3. PICK i \in 1..Len(objects), j \in 1..Len(objects) :
            i < j /\ objects[i] = p /\ objects[j] = st
      BY <1>3, <3>2
    <3>4. st # o
      <4>1. SUFFICES ASSUME st = o PROVE FALSE
        OBVIOUS
      <4>2. j = kept + 1
        BY <1>2, <1>3, <3>3, <4>1
      <4>3. i \in 1..kept
        BY <1>3, <3>3, <4>2
      <4>4. p \in Reachable
        BY <1>1, <3>3, <4>3 DEF Passed, CollectorOK
      <4>5. o \in Kids(p)
        BY <1>4, <3>2, <4>1, HeapAssumption DEF Kids, Elements
      <4> QED BY <1>1, <1>5, <4>4, <4>5 DEF ReachableFacts, Closed
    <3>5. st \in Address
      BY <1>3, <3>3 DEF Allocated
    <3>6. i # kept + 1 /\ j # kept + 1
      BY <1>2, <3>1, <3>3, <3>4
    <3>10. type'[st] = "struct" /\ kids'[p][1] = st
      BY <1>6, <3>1, <3>2, <3>4, <3>5
    <3> HIDE DEF st
    <3>7. CASE j <= kept
      <4>1. i <= kept
        BY <1>3, <3>3, <3>7
      <4>2. i \in DOMAIN objects' /\ objects'[i] = p
        BY <1>8, <3>3, <4>1
      <4>3. j \in DOMAIN objects' /\ objects'[j] = st
        BY <1>8, <3>3, <3>7
      <4> QED BY <3>3, <3>10, <4>2, <4>3
    <3>8. CASE i <= kept /\ j > kept + 1
      <4>1. i < j - 1
        BY <1>3, <3>3, <3>8
      <4>2. i \in DOMAIN objects' /\ objects'[i] = p
        BY <1>8, <3>3, <3>8
      <4>3. j - 1 \in DOMAIN objects' /\ objects'[j - 1] = st
        BY <1>8, <3>3, <3>8
      <4> QED BY <3>10, <4>1, <4>2, <4>3
    <3>9. CASE i > kept + 1 /\ j > kept + 1
      <4>1. i - 1 < j - 1
        BY <1>3, <3>3, <3>9
      <4>2. i - 1 \in DOMAIN objects' /\ objects'[i - 1] = p
        BY <1>8, <3>3, <3>9
      <4>3. j - 1 \in DOMAIN objects' /\ objects'[j - 1] = st
        BY <1>8, <3>3, <3>9
      <4> QED BY <3>10, <4>1, <4>2, <4>3
    <3> QED BY <1>3, <3>3, <3>6, <3>7, <3>8, <3>9
  <2> QED BY <2>1 DEF InstancesPrecedeTheirStruct
<1>18. JobOK' /\ IsJob(job)'
  <2>1. \A p \in Reachable : type'[p] = type[p] /\ text'[p] = text[p]
    BY <1>1, <1>5, <1>6 DEF ReachableFacts
  <2>2. \A s \in strings' : s \in strings /\ text'[s] = text[s]
    BY <1>1, <1>5, <2>1 DEF IInv, HeapOK, InternTableOK
  <2>3. JobOK'
    BY <1>1, <1>9, <1>10, <2>1, <2>2, CollectorKeepsJob
  <2> QED BY <1>1, <2>3 DEF IInv, IsJob
<1> QED BY <1>9, <1>12, <1>13, <1>14, <1>15, <1>16, <1>17, <1>18 DEF IInv, HeapOK

LEMMA CollectPreservesIInv == IInv /\ Collect => IInv'
BY StartCollectionPreservesIInv, RemoveWhitePreservesIInv, KeepPreservesIInv,
   FreePreservesIInv, EndCollectionPreservesIInv, BlackenPreservesIInv DEF Collect

----------------------------------------------------------------------------
(* The running program.  No collection is under way, so everything that is *)
(* allocated refers to allocated objects.                                  *)

Safe == Allocated \cup {Nil}

LEMMA OffState ==
  ASSUME IInv, phase = "off"
  PROVE  /\ HeapTypeOK /\ JobOK /\ IsJob(job)
         /\ stack \in Seq(Safe) /\ Len(stack) \in Nat
         /\ \A i \in 1..Len(stack) : stack[i] \in Safe
         /\ \A o \in Allocated : kids[o] \in Seq(Safe)
         /\ open \in [1..MaxStack -> Safe] /\ global \in Safe
         /\ Live = Allocated /\ strings \subseteq Allocated /\ Reachable \subseteq Allocated
         /\ Allocated \subseteq Address /\ Nil \notin Allocated /\ Safe \subseteq HeapValue
<1>1. /\ HeapTypeOK /\ JobOK /\ IsJob(job) /\ ReferencesOK /\ InternTableOK
      /\ Live = Allocated
  BY DEF IInv, HeapOK, Live
<1>2. Allocated \subseteq Address /\ Nil \notin Allocated /\ Safe \subseteq HeapValue
  BY HeapAssumption DEF Allocated, Safe, HeapValue
<1>3. stack \in Seq(Safe)
  <2>1. Elements(stack) \subseteq Safe
    BY <1>1 DEF ReferencesOK, Roots, Safe
  <2> QED BY <1>1, <2>1, SeqOfElements DEF HeapTypeOK
<1>4. ASSUME NEW o \in Allocated PROVE kids[o] \in Seq(Safe)
  <2>1. Elements(kids[o]) \subseteq Safe
    BY <1>1 DEF ReferencesOK, Closed, Kids, Safe
  <2>2. kids[o] \in Seq(HeapValue)
    BY <1>1, <1>2 DEF HeapTypeOK
  <2> QED BY <2>1, <2>2, SeqOfElements
<1>5. open \in [1..MaxStack -> Safe] /\ global \in Safe
  <2>1. \A i \in 1..MaxStack : open[i] \in Elements(open)
    BY <1>1 DEF HeapTypeOK, Elements
  <2> QED BY <1>1, <2>1 DEF ReferencesOK, Roots, Safe, HeapTypeOK
<1>6. strings \subseteq Allocated /\ Reachable \subseteq Allocated
  BY <1>1, ReachableLives DEF InternTableOK
<1> QED BY <1>1, <1>2, <1>3, <1>4, <1>5, <1>6, ElementsOfSeq

LEMMA ReferencesStep ==
  ASSUME IInv, phase = "off", UNCHANGED collector, HeapTypeOK',
         stack' \in Seq(Safe'), open' \in [1..MaxStack -> Safe'], global' \in Safe',
         \A o \in Allocated' : kids'[o] \in Seq(Safe')
  PROVE  ReferencesOK' /\ CollectorOK'
<1>1. phase' = "off" /\ marked' = {} /\ gray' = {}
  BY DEF IInv, HeapOK, CollectorOK, collector
<1>2. Live' = Allocated'
  BY <1>1 DEF Live
<1>3. Roots' \subseteq Allocated'
  <2>1. Elements(stack)' \subseteq Safe'
    BY DEF Elements
  <2>2. Elements(open)' \subseteq Safe'
    BY DEF Elements
  <2> QED BY <2>1, <2>2 DEF Roots, Safe
<1>4. ASSUME NEW o \in Allocated' PROVE Kids(o)' \subseteq Allocated'
  <2>1. Elements(kids[o])' \subseteq Safe'
    BY DEF Elements
  <2> QED BY <2>1 DEF Kids, Safe
<1>5. ReferencesOK'
  BY <1>2, <1>3, <1>4 DEF ReferencesOK, Closed
<1> QED BY <1>1, <1>5 DEF CollectorOK

(* While no string is waiting to be interned, and nothing but another type *)
(* of object appears, the table stays as it is.                            *)
LEMMA InternKept ==
  ASSUME IInv, phase = "off", phase' = "off", job.at # "intern", UNCHANGED <<text, strings>>,
         Allocated \subseteq Allocated',
         \A o \in Allocated : type'[o] = type[o],
         \A o \in Allocated' \ Allocated : type'[o] # "string"
  PROVE  InternTableOK'
<1>1. /\ strings \subseteq Allocated
      /\ \A s \in strings : type[s] = "string"
      /\ \A s, t \in strings : text[s] = text[t] => s = t
      /\ \A s \in Allocated : type[s] = "string" => s \in strings
  BY DEF IInv, HeapOK, InternTableOK, Live
<1>2. Live' = Allocated'
  BY DEF Live
<1> QED BY <1>1, <1>2 DEF InternTableOK

(* A step that makes no object.                                            *)
LEMMA SameObjectsStep ==
  ASSUME IInv, phase = "off", UNCHANGED <<objects, type, text, collector>>,
         strings' \subseteq Address, InternTableOK',
         kids' \in [Address -> Seq(HeapValue)],
         \A o \in Allocated : kids'[o] \in Seq(Safe),
         \A o \in Allocated : type[o] = "instance" =>
           1 \in DOMAIN kids'[o] /\ kids'[o][1] = kids[o][1],
         stack' \in Seq(Safe), Len(stack') <= MaxStack,
         open' \in [1..MaxStack -> Safe], global' \in Safe, OpenOK'
  PROVE  HeapOK'
<1>1. /\ HeapTypeOK /\ InstancesOK /\ InstancesPrecedeTheirStruct /\ Safe \subseteq HeapValue
      /\ UNCHANGED <<phase, marked, gray, kept>>
  BY OffState DEF IInv, HeapOK, collector
<1>2. Allocated' = Allocated /\ Safe' = Safe
  BY DEF Allocated, Safe
<1>3. HeapTypeOK'
  <2>1. stack' \in Seq(HeapValue) /\ open' \in [1..MaxStack -> HeapValue] /\ global' \in HeapValue
    BY <1>1
  <2> QED BY <1>1, <1>2, <2>1 DEF HeapTypeOK
<1>4. ReferencesOK' /\ CollectorOK'
  BY <1>2, <1>3, ReferencesStep
<1>5. InstancesOK' /\ InstancesPrecedeTheirStruct'
  BY <1>1, <1>2 DEF InstancesOK, InstancesPrecedeTheirStruct
<1> QED BY <1>3, <1>4, <1>5 DEF HeapOK

(* One object gets other references; an instance keeps its struct.         *)
LEMMA OneObjectStep ==
  ASSUME IInv, phase = "off", job.at # "intern",
         UNCHANGED <<objects, type, text, strings, collector>>,
         NEW o \in Allocated, NEW q \in Seq(Safe), kids' = [kids EXCEPT ![o] = q],
         type[o] = "instance" => 1 \in DOMAIN q /\ q[1] = kids[o][1],
         stack' \in Seq(Safe), Len(stack') <= MaxStack,
         open' \in [1..MaxStack -> Safe], global' \in Safe, OpenOK'
  PROVE  HeapOK'
<1>1. /\ HeapTypeOK /\ InstancesOK /\ Safe \subseteq HeapValue /\ Allocated \subseteq Address
      /\ \A p \in Allocated : kids[p] \in Seq(Safe)
  BY OffState DEF IInv, HeapOK
<1>2. q \in Seq(HeapValue)
  BY <1>1
<1>3. kids' \in [Address -> Seq(HeapValue)]
  BY <1>1, <1>2 DEF HeapTypeOK
<1>4. kids'[o] = q /\ \A p \in Address : p # o => kids'[p] = kids[p]
  BY <1>1 DEF HeapTypeOK
<1>5. /\ \A p \in Allocated : kids'[p] \in Seq(Safe)
      /\ \A p \in Allocated : type[p] = "instance" =>
           1 \in DOMAIN kids'[p] /\ kids'[p][1] = kids[p][1]
  BY <1>1, <1>4 DEF InstancesOK
<1>6. InternTableOK' /\ strings' \subseteq Address
  <2>1. Allocated' = Allocated /\ phase' = "off"
    BY DEF Allocated, collector
  <2> QED BY <1>1, <2>1, InternKept DEF HeapTypeOK
<1> QED BY <1>3, <1>5, <1>6, SameObjectsStep

(* A step that only moves values between stack and global.                 *)
LEMMA MachineStep ==
  ASSUME IInv, phase = "off", job.at # "intern", UNCHANGED <<heap, collector>>,
         stack' \in Seq(Safe), Len(stack') <= MaxStack,
         open' \in [1..MaxStack -> Safe], global' \in Safe, OpenOK'
  PROVE  HeapOK'
<1>1. /\ HeapTypeOK /\ InstancesOK /\ \A p \in Allocated : kids[p] \in Seq(Safe)
      /\ UNCHANGED <<objects, type, kids, text, strings>>
  BY OffState DEF IInv, HeapOK, heap
<1>2. InternTableOK' /\ strings' \subseteq Address
  <2>1. Allocated' = Allocated /\ phase' = "off"
    BY <1>1 DEF Allocated, collector
  <2> QED BY <1>1, <2>1, InternKept DEF HeapTypeOK
<1> QED BY <1>1, <1>2, SameObjectsStep DEF InstancesOK, HeapTypeOK

(* allocateObject links the object in front, so that the order of the      *)
(* others stays and the new one precedes them all.                         *)
LEMMA NewObjectStep ==
  ASSUME IInv, phase = "off", UNCHANGED collector, NEW o \in Address, NEW t \in ObjType,
         type[o] = "free", objects' = <<o>> \o objects, type' = [type EXCEPT ![o] = t],
         kids' \in [Address -> Seq(HeapValue)], kids'[o] \in Seq(Safe),
         \A p \in Allocated : kids'[p] \in Seq(Safe \cup {o}),
         \A p \in Allocated : type[p] = "instance" =>
           1 \in DOMAIN kids'[p] /\ kids'[p][1] = kids[p][1],
         t = "instance" => /\ 1 \in DOMAIN kids'[o] /\ kids'[o][1] \in Allocated
                           /\ type[kids'[o][1]] = "struct",
         text' \in [Address -> Text \cup {Nil}], strings' = strings,
         stack' \in Seq(Safe \cup {o}), Len(stack') <= MaxStack,
         open' \in [1..MaxStack -> Safe \cup {o}], global' \in Safe, OpenOK', InternTableOK'
  PROVE  HeapOK'
<1> DEFINE L == Len(objects)
<1>1. /\ HeapTypeOK /\ InstancesOK /\ InstancesPrecedeTheirStruct /\ Safe \subseteq HeapValue
      /\ UNCHANGED <<phase, marked, gray, kept>> /\ Allocated \subseteq Address
  BY OffState DEF IInv, HeapOK, collector
<1>2. /\ o \notin Allocated /\ t # "free"
      /\ type'[o] = t /\ \A p \in Address : p # o => type'[p] = type[p]
  BY <1>1 DEF HeapTypeOK, Allocated, ObjType
<1>3. Allocated' = Allocated \cup {o}
  BY <1>2 DEF Allocated
<1>4. Safe' = Safe \cup {o}
  BY <1>3 DEF Safe
<1>5. /\ L \in Nat /\ DOMAIN objects = 1..L /\ Elements(objects) = Allocated
      /\ \A i \in 1..L : objects[i] \in Allocated
      /\ \A i, j \in 1..L : objects[i] = objects[j] => i = j
  <2>1. objects \in Seq(Address) /\ Elements(objects) = Allocated
    BY <1>1 DEF HeapTypeOK
  <2>2. /\ L \in Nat /\ DOMAIN objects = 1..L
        /\ \A i \in 1..L : objects[i] \in Elements(objects)
    BY <2>1, ElementsOfSeq
  <2> QED BY <1>1, <2>1, <2>2 DEF HeapTypeOK
<1>6. /\ objects' \in Seq(Address) /\ Len(objects') = L + 1 /\ DOMAIN objects' = 1..L + 1
      /\ objects'[1] = o
      /\ \A i \in 1..L : objects'[i + 1] = objects[i]
      /\ \A i \in 1..L + 1 : i # 1 => i - 1 \in 1..L /\ objects'[i] = objects[i - 1]
  BY <1>1, <1>5 DEF HeapTypeOK
<1> HIDE DEF L
<1>7. HeapTypeOK'
  <2>1. Elements(objects') = Allocated'
    <3>1. ASSUME NEW p \in Elements(objects') PROVE p \in Allocated'
      <4>1. PICK i \in 1..L + 1 : p = objects'[i]
        BY <1>6, <3>1 DEF Elements
      <4> QED BY <1>3, <1>5, <1>6, <4>1
    <3>2. ASSUME NEW p \in Allocated' PROVE p \in Elements(objects')
      <4>1. CASE p = o
        BY <1>5, <1>6, <4>1 DEF Elements
      <4>2. CASE p \in Allocated
        <5>1. PICK i \in 1..L : objects[i] = p
          BY <1>5, <4>2 DEF Elements
        <5>2. i + 1 \in 1..L + 1 /\ objects'[i + 1] = p
          BY <1>5, <1>6, <5>1
        <5> QED BY <1>6, <5>2 DEF Elements
      <4> QED BY <1>3, <3>2, <4>1, <4>2
    <3> QED BY <3>1, <3>2
  <2>2. ASSUME NEW i \in 1..L + 1, NEW j \in 1..L + 1, objects'[i] = objects'[j]
        PROVE  i = j
    <3>1. CASE i = 1 \/ j = 1
      BY <1>2, <1>5, <1>6, <2>2, <3>1
    <3>2. CASE i # 1 /\ j # 1
      <4>1. i - 1 = j - 1
        BY <1>5, <1>6, <2>2, <3>2
      <4> QED BY <1>5, <4>1
    <3> QED BY <3>1, <3>2
  <2>3. Safe \cup {o} \subseteq HeapValue
    BY <1>1 DEF HeapValue
  <2>4. stack' \in Seq(HeapValue) /\ open' \in [1..MaxStack -> HeapValue] /\ global' \in HeapValue
    BY <1>1, <2>3
  <2>5. type' \in [Address -> ObjType \cup {"free"}]
    BY <1>1 DEF HeapTypeOK
  <2>6. kept' \in 0..Len(objects')
    BY <1>1, <1>5, <1>6 DEF HeapTypeOK, L
  <2>7. strings' \subseteq Address /\ phase' \in {"off", "trace", "sweep"}
        /\ gray' \subseteq marked' /\ marked' \subseteq Address
    BY <1>1 DEF HeapTypeOK
  <2> QED BY <1>6, <2>1, <2>2, <2>4, <2>5, <2>6, <2>7 DEF HeapTypeOK
<1>8. ReferencesOK' /\ CollectorOK'
  <2>1. kids'[o] \in Seq(Safe \cup {o})
    OBVIOUS
  <2>2. \A p \in Allocated' : kids'[p] \in Seq(Safe')
    BY <1>3, <1>4, <2>1
  <2> QED BY <1>4, <1>7, <2>2, ReferencesStep
<1>9. InstancesOK'
  BY <1>2, <1>3, <1>1 DEF InstancesOK
<1>10. InstancesPrecedeTheirStruct'
  <2>1. ASSUME NEW p \in Allocated', type'[p] = "instance"
        PROVE  /\ type'[kids'[p][1]] = "struct"
               /\ \E i, j \in DOMAIN objects' :
                    i < j /\ objects'[i] = p /\ objects'[j] = kids'[p][1]
    <3>1. CASE p = o
      <4> DEFINE st == kids'[o][1]
      <4>1. type[st] = "struct" /\ st \in Allocated
        BY <1>2, <2>1, <3>1
      <4>2. PICK j \in 1..L : objects[j] = st
        BY <1>5, <4>1 DEF Elements
      <4>3. 1 < j + 1 /\ 1 \in 1..L + 1 /\ j + 1 \in 1..L + 1 /\ objects'[j + 1] = st
        BY <1>5, <1>6, <4>2
      <4>4. type'[st] = "struct"
        BY <1>1, <1>2, <4>1
      <4>5. 1 \in DOMAIN objects' /\ j + 1 \in DOMAIN objects' /\ objects'[1] = p
        BY <1>6, <3>1, <4>3
      <4>6. kids'[p][1] = st
        BY <3>1
      <4> HIDE DEF st
      <4> QED BY <4>3, <4>4, <4>5, <4>6
    <3>2. CASE p # o
      <4> DEFINE st == kids[p][1]
      <4>1. p \in Allocated /\ type[p] = "instance" /\ kids'[p][1] = st
        BY <1>1, <1>2, <1>3, <2>1, <3>2
      <4>2. /\ type[st] = "struct"
            /\ \E i, j \in 1..L : i < j /\ objects[i] = p /\ objects[j] = st
        BY <1>1, <1>5, <4>1 DEF InstancesPrecedeTheirStruct
      <4>3. PICK i \in 1..L, j \in 1..L : i < j /\ objects[i] = p /\ objects[j] = st
        BY <4>2
      <4>4. /\ i + 1 < j + 1 /\ i + 1 \in 1..L + 1 /\ j + 1 \in 1..L + 1
            /\ objects'[i + 1] = p /\ objects'[j + 1] = st
        BY SMTT(30), <1>5, <1>6, <4>3
      <4>5. type'[st] = "struct"
        BY <1>1, <1>2, <1>5, <4>2, <4>3
      <4> QED BY <1>6, <4>1, <4>4, <4>5
    <3> QED BY <3>1, <3>2
  <2> QED BY <2>1 DEF InstancesPrecedeTheirStruct
<1> QED BY <1>7, <1>8, <1>9, <1>10 DEF HeapOK

----------------------------------------------------------------------------
(* Going on to the next allocation, or returning.                          *)

LEMMA NextAllocation ==
  ASSUME NEW l, NEW j, IsJob(j), Await(l, j)
  PROVE  /\ IsJob(job)' /\ job'.at = l /\ job'.arg = j.arg /\ job'.then = j.then
         /\ job'.obj = j.obj /\ job'.held = j.held
BY DEF Await, IsJob

LEMMA Returned ==
  ASSUME Return
  PROVE  JobOK' /\ IsJob(job)'
BY DEF Return, NoJob, JobOK, IsJob

(* What a step that only starts or continues a C function leaves as it is. *)
LEMMA WaitingStep ==
  ASSUME IInv, phase = "off", job.at # "intern", UNCHANGED <<heap, machine, collector>>
  PROVE  /\ HeapOK' /\ Reachable' = Reachable
         /\ Top' = Top /\ Below' = Below /\ Elements(stack)' = Elements(stack)
         /\ \A t : Interned(t)' = Interned(t)
         /\ \A x, t : Is(x, t)' = Is(x, t)
         /\ \A x : IsContainer(x)' = IsContainer(x)
<1>1. /\ UNCHANGED <<objects, type, kids, text, strings, stack, open, global>>
      /\ HeapTypeOK /\ OpenOK
  BY DEF heap, machine, IInv, HeapOK
<1>2. HeapOK'
  <2>1. OpenOK' /\ Len(stack') <= MaxStack
    BY <1>1 DEF OpenOK, HeapTypeOK
  <2> QED BY <1>1, <2>1, OffState, MachineStep
<1>3. Reachable' = Reachable
  BY <1>1, <1>2, ReachableKept DEF HeapOK
<1> QED BY <1>1, <1>2, <1>3 DEF Top, Below, Elements, Interned, Is, IsContainer

LEMMA CopyCharsPreservesIInv == IInv /\ CopyChars => IInv'
<1> SUFFICES ASSUME IInv, CopyChars PROVE IInv'
  OBVIOUS
<1>1. /\ phase = "off" /\ job.at = "copy chars" /\ UNCHANGED <<heap, machine, collector>>
      /\ Await("string", [job EXCEPT !.held = {}]) /\ JobOK /\ IsJob(job)
  BY DEF CopyChars, At, IInv
<1>2. /\ IsJob(job)' /\ job'.at = "string" /\ job'.arg = job.arg /\ job'.then = job.then
      /\ job'.obj = job.obj /\ job'.held = {}
  BY <1>1 DEF Await, IsJob
<1>3. CanDeliver(0) /\ Interned(job.arg) = {} /\ job.obj = Nil
  BY <1>1 DEF JobOK
<1>4. CanDeliver(0)' /\ Interned(job.arg)' = {}
  BY <1>1, <1>2, <1>3, WaitingStep DEF CanDeliver, machine, Interned, heap
<1>5. JobOK'
  BY <1>2, <1>3, <1>4 DEF JobOK
<1> QED BY <1>1, <1>2, <1>5, WaitingStep DEF IInv

LEMMA BeginConcatenatePreservesIInv ==
  ASSUME IInv, NEW t \in Text, BeginConcatenate(t)
  PROVE  IInv'
<1>1. /\ phase = "off" /\ job.at = "none" /\ UNCHANGED <<heap, machine, collector>>
      /\ Len(stack) >= 2 /\ HeapTypeOK
      /\ Await("concat chars",
               [NoJob EXCEPT !.arg = t, !.then = "replace", !.held = {Top, Below}])
  BY DEF BeginConcatenate, Idle, Temporaries, IInv, HeapOK
<1>2. /\ IsJob(job)' /\ job'.at = "concat chars" /\ job'.arg = t /\ job'.then = "replace"
      /\ job'.obj = Nil /\ job'.held = {Top, Below}
  BY <1>1 DEF Await, NoJob, IsJob
<1>3. {Top, Below} \subseteq Elements(stack)
  <2>1. HeapTypeOK /\ Len(stack) >= 2
    BY <1>1
  <2>2. Len(stack) >= 1
    BY <2>1, TopOfStack
  <2> QED BY <2>1, <2>2, TopOfStack
<1>4. JobOK'
  BY <1>1, <1>2, <1>3, WaitingStep DEF JobOK, machine
<1> QED BY <1>1, <1>2, <1>4, WaitingStep DEF IInv

LEMMA BeginEmptyPreservesIInv ==
  ASSUME IInv, NEW t \in {"list", "function"}, BeginEmpty(t)
  PROVE  IInv'
<1>1. /\ phase = "off" /\ job.at = "none" /\ UNCHANGED <<heap, machine, collector>>
      /\ Await(t, NoJob)
  BY DEF BeginEmpty, Idle
<1>2. IsJob(job)' /\ job'.at = t /\ job'.obj = Nil /\ job'.held = {}
  BY <1>1 DEF Await, NoJob, IsJob
<1>3. JobOK'
  BY <1>2 DEF JobOK
<1> QED BY <1>1, <1>2, <1>3, WaitingStep DEF IInv

(* The name of a struct is a constant of a function that is reachable.     *)
LEMMA BeginStructPreservesIInv ==
  ASSUME IInv, NEW n \in Address, BeginStruct(n)
  PROVE  IInv'
<1>1. /\ phase = "off" /\ job.at = "none" /\ UNCHANGED <<heap, machine, collector>>
      /\ Await("struct", [NoJob EXCEPT !.held = {n}]) /\ HeapTypeOK
      /\ \E f \in Reachable : n \in Kids(f)
  BY DEF BeginStruct, Idle, IInv, HeapOK
<1>2. IsJob(job)' /\ job'.at = "struct" /\ job'.obj = Nil /\ job'.held = {n}
  BY <1>1 DEF Await, NoJob, IsJob
<1>3. n \in Reachable
  BY <1>1, ReachableIsLeast DEF ReachableFacts, Closed
<1>4. n \in Reachable'
  BY <1>1, <1>3, WaitingStep
<1>5. JobOK'
  BY <1>2, <1>4 DEF JobOK
<1> QED BY <1>1, <1>2, <1>5, WaitingStep DEF IInv

LEMMA BeginInstancePreservesIInv == IInv /\ BeginInstance => IInv'
<1> SUFFICES ASSUME IInv, BeginInstance PROVE IInv'
  OBVIOUS
<1>1. /\ phase = "off" /\ job.at = "none" /\ UNCHANGED <<heap, machine, collector>>
      /\ Await("instance", [NoJob EXCEPT !.held = {Below}])
      /\ Len(stack) >= 2 /\ Is(Below, "struct")
  BY DEF BeginInstance, Idle, Temporaries
<1>2. IsJob(job)' /\ job'.at = "instance" /\ job'.obj = Nil /\ job'.held = {Below}
  BY <1>1 DEF Await, NoJob, IsJob
<1>3. Is(Below, "struct")' /\ job'.held = {Below'} /\ Len(stack') >= 2
  BY <1>1, <1>2, WaitingStep DEF machine, Is
<1>4. JobOK'
  BY <1>2, <1>3 DEF JobOK
<1> QED BY <1>1, <1>2, <1>4, WaitingStep DEF IInv

LEMMA BeginArrayPreservesIInv ==
  ASSUME IInv, NEW n \in 0..MaxKids, BeginArray(n)
  PROVE  IInv'
<1>1. /\ phase = "off" /\ job.at = "none" /\ UNCHANGED <<heap, machine, collector>>
      /\ Await("array values", [NoJob EXCEPT !.arg = n])
      /\ Len(stack) >= n /\ Len(stack) - n < MaxStack /\ Len(stack) \in Nat
  BY OffState DEF BeginArray, Idle, Temporaries
<1>2. /\ IsJob(job)' /\ job'.at = "array values" /\ job'.arg = n
      /\ job'.obj = Nil /\ job'.held = {}
  BY <1>1 DEF Await, NoJob, IsJob
<1>3. n \in 0..Len(stack') /\ Len(stack') - n < MaxStack
  <2>1. Len(stack) >= n /\ Len(stack) - n < MaxStack /\ Len(stack) \in Nat
    BY <1>1
  <2>2. UNCHANGED machine
    BY <1>1
  <2>3. stack' = stack /\ n \in Nat
    BY <2>2, HeapAssumption DEF machine
  <2> QED BY <2>1, <2>3
<1>4. JobOK'
  BY <1>2, <1>3 DEF JobOK
<1> QED BY <1>1, <1>2, <1>4, WaitingStep DEF IInv

LEMMA ArrayValuesPreservesIInv == IInv /\ ArrayValues => IInv'
<1> SUFFICES ASSUME IInv, ArrayValues PROVE IInv'
  OBVIOUS
<1>1. /\ phase = "off" /\ job.at = "array values" /\ UNCHANGED <<heap, machine, collector>>
      /\ Await("array", job) /\ JobOK /\ IsJob(job)
  BY DEF ArrayValues, At, IInv
<1>2. /\ IsJob(job)' /\ job'.at = "array" /\ job'.arg = job.arg
      /\ job'.obj = job.obj /\ job'.held = job.held
  BY <1>1, NextAllocation
<1>3. job.arg \in 0..Len(stack) /\ Len(stack) - job.arg < MaxStack /\ job.obj = Nil /\ job.held = {}
  BY <1>1 DEF JobOK
<1>4. JobOK'
  BY <1>1, <1>2, <1>3 DEF JobOK, machine
<1> QED BY <1>1, <1>2, <1>4, WaitingStep DEF IInv

(* A method is found in the receiver's struct, to which the receiver on    *)
(* the stack refers.                                                       *)
LEMMA BeginBoundPreservesIInv ==
  ASSUME IInv, NEW m \in Address, BeginBound(m)
  PROVE  IInv'
<1>1. /\ phase = "off" /\ job.at = "none" /\ UNCHANGED <<heap, machine, collector>>
      /\ Await("bound", [NoJob EXCEPT !.held = {Top, m}, !.arg = m])
      /\ Len(stack) >= 1 /\ Is(Top, "instance") /\ m \in Kids(kids[Top][1])
      /\ HeapTypeOK /\ InstancesOK /\ InstancesPrecedeTheirStruct
  <2>1. Len(stack) > 0 => Len(stack) >= 1
    BY OffState DEF BeginBound, Idle
  <2> QED BY <2>1 DEF BeginBound, Idle, IInv, HeapOK
<1>2. /\ IsJob(job)' /\ job'.at = "bound" /\ job'.arg = m
      /\ job'.obj = Nil /\ job'.held = {Top, m}
  BY <1>1 DEF Await, NoJob, IsJob
<1>3. Top # Nil /\ Top \in Reachable /\ Top \in Allocated /\ type[Top] = "instance"
  BY <1>1, TopOfStack, OffState DEF Is
<1>4. kids[Top][1] \in Kids(Top)
  <2>1. 1 \in DOMAIN kids[Top] /\ \E j \in DOMAIN objects : objects[j] = kids[Top][1]
    BY <1>1, <1>3 DEF InstancesOK, InstancesPrecedeTheirStruct
  <2>2. kids[Top][1] \in Address /\ kids[Top][1] # Nil
    BY <1>1, <2>1, ElementsOfSeq, HeapAssumption DEF HeapTypeOK
  <2> QED BY <2>1, <2>2 DEF Kids, Elements
<1>5. m \in Reachable
  BY <1>1, <1>3, <1>4, ReachableIsLeast DEF ReachableFacts, Closed
<1>6. m \in Reachable' /\ Top' = Top /\ Len(stack') >= 1
  BY <1>1, <1>5, WaitingStep DEF machine
<1>7. JobOK'
  BY <1>2, <1>3, <1>6 DEF JobOK
<1> QED BY <1>1, <1>2, <1>7, WaitingStep DEF IInv

LEMMA BeginClosurePreservesIInv == IInv /\ BeginClosure => IInv'
<1> SUFFICES ASSUME IInv, BeginClosure PROVE IInv'
  OBVIOUS
<1>1. /\ phase = "off" /\ job.at = "none" /\ UNCHANGED <<heap, machine, collector>>
      /\ Await("closure upvalues", [NoJob EXCEPT !.held = {Top}])
      /\ Len(stack) >= 1 /\ Top # Nil
  <2>1. phase = "off" /\ Len(stack) > 0
    BY DEF BeginClosure, Idle
  <2>2. Len(stack) \in Nat
    BY <2>1, OffState
  <2>3. Len(stack) >= 1
    BY <2>1, <2>2
  <2> QED BY <2>3 DEF BeginClosure, Idle, Is
<1>2. IsJob(job)' /\ job'.at = "closure upvalues" /\ job'.obj = Nil /\ job'.held = {Top}
  BY <1>1 DEF Await, NoJob, IsJob
<1>3. JobOK'
  BY <1>1, <1>2, WaitingStep DEF JobOK, machine
<1> QED BY <1>1, <1>2, <1>3, WaitingStep DEF IInv

LEMMA ClosureUpvaluesPreservesIInv == IInv /\ ClosureUpvalues => IInv'
<1> SUFFICES ASSUME IInv, ClosureUpvalues PROVE IInv'
  OBVIOUS
<1>1. /\ phase = "off" /\ job.at = "closure upvalues" /\ UNCHANGED <<heap, machine, collector>>
      /\ Await("closure", job) /\ JobOK /\ IsJob(job)
  BY DEF ClosureUpvalues, At, IInv
<1>2. /\ IsJob(job)' /\ job'.at = "closure" /\ job'.obj = job.obj /\ job'.held = job.held
  BY <1>1, NextAllocation
<1>3. Len(stack) >= 1 /\ Top # Nil /\ job.obj = Nil /\ job.held = {Top}
  BY <1>1 DEF JobOK
<1>4. JobOK'
  BY <1>1, <1>2, <1>3, WaitingStep DEF JobOK, machine
<1> QED BY <1>1, <1>2, <1>4, WaitingStep DEF IInv

----------------------------------------------------------------------------
(* Strings.                                                                *)

LEMMA Delivery ==
  ASSUME HeapTypeOK, NEW S, NEW s \in S, NEW st \in Seq(S), NEW then, Deliver(s, st, then),
         UNCHANGED type,
         then = "replace" => Len(st) >= 2 /\ Len(st) <= MaxStack,
         then # "replace" => Len(st) < MaxStack,
         then = "append" => Len(st) >= 1 /\ IsContainer(st[Len(st)])
  PROVE  stack' \in Seq(S) /\ Len(stack') <= MaxStack /\ JobOK' /\ IsJob(job)'
<1>1. Len(st) \in Nat /\ MaxStack \in Nat
  BY HeapAssumption
<1>2. CASE then = "push" /\ stack' = Append(st, s) /\ Return
  BY <1>1, <1>2, AppendToSeq, Returned
<1>3. CASE then = "replace" /\ stack' = Append(SubSeq(st, 1, Len(st) - 2), s) /\ Return
  <2> DEFINE base == SubSeq(st, 1, Len(st) - 2)
  <2>1. base \in Seq(S) /\ Len(base) = Len(st) - 2
    <3>1. Len(st) - 2 \in 0..Len(st)
      BY <1>1, <1>3
    <3> QED BY <3>1, PrefixOfSeq
  <2>2. stack' \in Seq(S) /\ Len(stack') = Len(base) + 1
    BY <1>3, <2>1, AppendToSeq
  <2> QED BY <1>1, <1>3, <2>1, <2>2, Returned
<1>4. CASE then = "append" /\ stack' = Append(st, s) /\ Await("append", [NoJob EXCEPT !.obj = s])
  <2>1. /\ IsJob(job)' /\ job'.at = "append" /\ job'.obj = s /\ job'.held = {}
    BY <1>4 DEF Await, NoJob, IsJob
  <2>2. /\ stack' \in Seq(S) /\ Len(stack') = Len(st) + 1
        /\ stack'[Len(st) + 1] = s /\ stack'[Len(st)] = st[Len(st)]
    <3>1. Len(st) \in 1..Len(st)
      BY <1>1, <1>4
    <3> QED BY <1>4, <3>1, AppendToSeq
  <2>3. Len(stack') >= 2 /\ Len(stack') <= MaxStack /\ Len(stack') - 1 = Len(st)
    BY <1>1, <1>4, <2>2
  <2>4. Top' = s /\ Below' = st[Len(st)]
    BY <2>2, <2>3 DEF Top, Below
  <2>5. IsContainer(Below)'
    BY <1>4, <2>4 DEF IsContainer
  <2>6. JobOK'
    BY <2>1, <2>3, <2>4, <2>5 DEF JobOK
  <2> QED BY <2>1, <2>2, <2>3, <2>6
<1> QED BY <1>2, <1>3, <1>4 DEF Deliver

(* An interned string is delivered without any new object.                 *)
LEMMA InternedDelivery ==
  ASSUME IInv, phase = "off", job.at # "intern", UNCHANGED <<heap, open, global, collector>>,
         NEW s \in strings, NEW then, Deliver(s, stack, then),
         then = "replace" => Len(stack) >= 2,
         then # "replace" => Len(stack) < MaxStack,
         then = "append" => Len(stack) >= 1 /\ IsContainer(Top)
  PROVE  IInv'
<1>1. HeapTypeOK /\ OpenOK /\ stack \in Seq(Safe) /\ Len(stack) <= MaxStack /\ s \in Safe
  BY OffState DEF IInv, HeapOK, HeapTypeOK, Safe
<1>2. UNCHANGED type
  BY DEF heap
<1>3. stack' \in Seq(Safe) /\ Len(stack') <= MaxStack /\ JobOK' /\ IsJob(job)'
  BY <1>1, <1>2, Delivery DEF Top
<1>4. OpenOK'
  BY <1>1, <1>2 DEF OpenOK
<1>5. open' \in [1..MaxStack -> Safe] /\ global' \in Safe
  BY OffState
<1> QED BY <1>3, <1>4, <1>5, MachineStep DEF IInv

LEMMA BeginCopyStringPreservesIInv ==
  ASSUME IInv, NEW t \in Text, NEW then \in {"push", "append"},
         NEW source \in {{}} \cup {{s} : s \in {s \in Elements(stack) : Is(s, "string")}},
         BeginCopyString(t, then, source)
  PROVE  IInv'
<1>1. /\ phase = "off" /\ job.at = "none" /\ UNCHANGED <<heap, upvalues, global, collector>>
      /\ HeapTypeOK /\ Len(stack) < MaxStack
  BY DEF BeginCopyString, Idle, IInv, HeapOK
<1>2. then = "append" => Len(stack) >= 1 /\ IsContainer(Top)
  <2>1. then = "append" => Len(stack) > 0 /\ IsContainer(Top)
    BY DEF BeginCopyString, Is, IsContainer
  <2>2. Len(stack) \in Nat
    BY <1>1, TopOfStack
  <2> QED BY <2>1, <2>2
<1>3. CASE Interned(t) # {}
  <2>1. PICK s \in Interned(t) : Deliver(s, stack, then)
    BY <1>3 DEF BeginCopyString
  <2> QED BY <1>1, <1>2, <2>1, InternedDelivery DEF Interned
<1>4. CASE Interned(t) = {}
  <2>1. /\ Await("copy chars", [NoJob EXCEPT !.arg = t, !.then = then, !.held = source])
        /\ stack' = stack
    BY <1>4 DEF BeginCopyString
  <2>2. /\ IsJob(job)' /\ job'.at = "copy chars" /\ job'.arg = t /\ job'.then = then
        /\ job'.obj = Nil /\ job'.held = source
    BY <2>1 DEF Await, NoJob, IsJob
  <2>3. UNCHANGED <<heap, machine, collector>>
    BY <1>1, <2>1 DEF machine
  <2>4. source \subseteq Elements(stack)
    OBVIOUS
  <2>5. HeapOK' /\ Elements(stack)' = Elements(stack) /\ Interned(t)' = {} /\ Top' = Top
        /\ \A x : IsContainer(x)' = IsContainer(x)
    BY <1>1, <1>4, <2>3, WaitingStep
  <2>6. CanDeliver(0)'
    <3>1. Len(stack) \in Nat /\ stack' = stack
      BY <1>1, <2>1, OffState
    <3>2. Len(stack') - 0 = Len(stack)
      BY <3>1
    <3>3. then = "append" => Len(stack') - 0 >= 1 /\ IsContainer(stack[Len(stack) - 0])'
      BY <1>2, <2>5, <3>1, <3>2 DEF Top
    <3> QED BY <2>2, <3>3 DEF CanDeliver
  <2>7. JobOK'
    <3>1. Interned(job.arg)' = {}
      BY <2>2, <2>5 DEF Interned
    <3> QED BY <2>2, <2>4, <2>5, <2>6, <3>1 DEF JobOK
  <2> QED BY <2>2, <2>5, <2>7 DEF IInv
<1> QED BY <1>3, <1>4

LEMMA ConcatCharsPreservesIInv == IInv /\ ConcatChars => IInv'
<1> SUFFICES ASSUME IInv, ConcatChars PROVE IInv'
  OBVIOUS
<1>1. /\ phase = "off" /\ job.at = "concat chars" /\ UNCHANGED <<heap, upvalues, global, collector>>
      /\ JobOK /\ IsJob(job) /\ HeapTypeOK
  BY DEF ConcatChars, At, IInv, HeapOK
<1>2. job.arg \in Text /\ job.then = "replace" /\ Len(stack) >= 2 /\ job.obj = Nil
  BY <1>1 DEF JobOK
<1>3. CASE Interned(job.arg) # {}
  <2>1. PICK s \in Interned(job.arg) : Deliver(s, stack, "replace")
    BY <1>3 DEF ConcatChars
  <2> QED BY <1>1, <1>2, <2>1, InternedDelivery DEF Interned
<1>4. CASE Interned(job.arg) = {}
  <2>1. Await("string", [job EXCEPT !.held = {}]) /\ stack' = stack
    BY <1>4 DEF ConcatChars
  <2>2. /\ IsJob(job)' /\ job'.at = "string" /\ job'.arg = job.arg /\ job'.then = job.then
        /\ job'.obj = job.obj /\ job'.held = {}
    BY <1>1, <2>1 DEF Await, IsJob
  <2>3. UNCHANGED <<heap, machine, collector>>
    BY <1>1, <2>1 DEF machine
  <2>4. HeapOK' /\ Interned(job.arg)' = {}
    <3>1. HeapOK' /\ \A t : Interned(t)' = Interned(t)
      BY <1>1, <2>3, WaitingStep
    <3>2. Interned(job.arg)' = Interned(job.arg)
      BY <2>2, <2>3 DEF Interned, heap
    <3> QED BY <1>4, <3>1, <3>2
  <2>5. Interned(job.arg)' = {} /\ CanDeliver(0)'
    <3>1. Len(stack) \in Nat /\ stack' = stack
      BY <1>1, <2>1, OffState
    <3>2. Len(stack') - 0 >= 2
      BY <1>2, <3>1
    <3> QED BY <1>2, <2>2, <2>4, <3>2 DEF CanDeliver, Interned
  <2>6. JobOK'
    BY <1>2, <2>2, <2>5 DEF JobOK
  <2> QED BY <2>2, <2>4, <2>6 DEF IInv
<1> QED BY <1>3, <1>4

(* What a new object changes for those there were.                         *)
LEMMA NewObjectFacts ==
  ASSUME IInv, phase = "off", NEW o \in Address, NEW t \in ObjType, NEW refs \in Seq(Safe),
         NewObject(o, t, refs)
  PROVE  /\ type[o] = "free" /\ objects' = <<o>> \o objects /\ type' = [type EXCEPT ![o] = t]
         /\ kids' \in [Address -> Seq(HeapValue)] /\ kids'[o] = refs /\ type'[o] = t
         /\ o \notin Allocated
         /\ \A p \in Allocated : /\ type'[p] = type[p] /\ kids'[p] = kids[p]
                                 /\ kids'[p] \in Seq(Safe \cup {o})
         /\ Allocated' = Allocated \cup {o}
         /\ open \in [1..MaxStack -> Safe \cup {o}] /\ stack \in Seq(Safe \cup {o})
         /\ \A i \in 1..Len(stack) : stack[i] # o
<1>1. /\ type[o] = "free" /\ objects' = <<o>> \o objects
      /\ type' = [type EXCEPT ![o] = t] /\ kids' = [kids EXCEPT ![o] = refs]
  BY DEF NewObject
<1>2. /\ HeapTypeOK /\ Safe \subseteq HeapValue /\ Allocated \subseteq Address
      /\ \A p \in Allocated : kids[p] \in Seq(Safe)
      /\ open \in [1..MaxStack -> Safe] /\ stack \in Seq(Safe)
      /\ \A i \in 1..Len(stack) : stack[i] \in Safe
  BY OffState
<1>3. o \notin Allocated /\ o # Nil
  BY <1>1, HeapAssumption DEF Allocated
<1>4. refs \in Seq(HeapValue)
  BY <1>2
<1>5. kids' \in [Address -> Seq(HeapValue)] /\ kids'[o] = refs /\ type'[o] = t
  BY <1>1, <1>2, <1>4 DEF HeapTypeOK
<1>6. \A p \in Address : p # o => type'[p] = type[p] /\ kids'[p] = kids[p]
  BY <1>1, <1>2 DEF HeapTypeOK
<1>7. \A p \in Allocated : /\ type'[p] = type[p] /\ kids'[p] = kids[p]
                           /\ kids'[p] \in Seq(Safe \cup {o})
  <2>1. \A p \in Allocated : kids[p] \in Seq(Safe \cup {o})
    BY <1>2
  <2> QED BY <1>2, <1>3, <1>6, <2>1
<1>8. Allocated' = Allocated \cup {o}
  <2>1. t # "free"
    BY DEF ObjType
  <2> QED BY <1>3, <1>5, <1>6, <2>1 DEF Allocated
<1>9. open \in [1..MaxStack -> Safe \cup {o}] /\ stack \in Seq(Safe \cup {o})
  BY <1>2
<1>10. \A i \in 1..Len(stack) : stack[i] # o
  BY <1>2, <1>3 DEF Safe
<1> QED BY <1>1, <1>3, <1>5, <1>7, <1>8, <1>9, <1>10

LEMMA NewStringPreservesIInv ==
  ASSUME IInv, NEW o \in Address, NewString(o)
  PROVE  IInv'
<1>1. /\ phase = "off" /\ job.at = "string" /\ UNCHANGED <<strings, open, global, collector>>
      /\ Len(stack) < MaxStack /\ stack' = Append(stack, o)
      /\ NewObject(o, "string", << >>) /\ text' = [text EXCEPT ![o] = job.arg]
  BY DEF NewString, At, Push
<1>2. /\ IsJob(job)' /\ job'.at = "intern" /\ job'.arg = job.arg /\ job'.then = job.then
      /\ job'.obj = o /\ job'.held = job.held
  <2>1. Await("intern", [job EXCEPT !.obj = o]) /\ IsJob(job)
    BY DEF NewString, IInv
  <2> QED BY <2>1 DEF Await, IsJob
<1>3. CanDeliver(0) /\ Interned(job.arg) = {} /\ job.held = {} /\ job.arg \in Text
  BY <1>1 DEF IInv, JobOK, CanDeliver
<1>4. /\ HeapTypeOK /\ OpenOK /\ InternTableOK /\ InstancesOK /\ Live = Allocated
      /\ Len(stack) \in Nat /\ open \in [1..MaxStack -> Safe] /\ global \in Safe
      /\ strings \subseteq Allocated /\ MaxStack \in Nat
  BY <1>1, OffState, HeapAssumption DEF IInv, HeapOK
<1>5. /\ type[o] = "free" /\ objects' = <<o>> \o objects /\ type' = [type EXCEPT ![o] = "string"]
      /\ kids' \in [Address -> Seq(HeapValue)] /\ kids'[o] = << >> /\ type'[o] = "string"
      /\ o \notin Allocated
      /\ \A p \in Allocated : /\ type'[p] = type[p] /\ kids'[p] = kids[p]
                              /\ kids'[p] \in Seq(Safe \cup {o})
      /\ Allocated' = Allocated \cup {o}
      /\ open \in [1..MaxStack -> Safe \cup {o}] /\ stack \in Seq(Safe \cup {o})
      /\ \A i \in 1..Len(stack) : stack[i] # o
  <2>1. "string" \in ObjType /\ << >> \in Seq(Safe)
    BY DEF ObjType
  <2> QED BY <1>1, <2>1, NewObjectFacts
<1>6. /\ text' \in [Address -> Text \cup {Nil}] /\ text'[o] = job.arg
      /\ \A p \in Address : p # o => text'[p] = text[p]
  BY <1>1, <1>3, <1>4 DEF HeapTypeOK
<1>7. /\ stack' \in Seq(Safe \cup {o}) /\ Len(stack') = Len(stack) + 1
      /\ \A i \in 1..Len(stack) : stack'[i] = stack[i]
      /\ stack'[Len(stack) + 1] = o
  <2>1. o \in Safe \cup {o}
    OBVIOUS
  <2> QED BY <1>1, <1>5, <2>1, AppendToSeq
<1>8. Len(stack') <= MaxStack /\ Len(stack') >= 1 /\ Len(stack') - 1 = Len(stack)
  BY <1>1, <1>4, <1>7
<1>9. \A s \in strings : s # o /\ text'[s] = text[s] /\ type'[s] = type[s]
  BY <1>4, <1>5, <1>6 DEF Allocated
<1>10. InternTableOK'
  <2>1. Live' = Allocated'
    BY <1>1 DEF Live, collector
  <2>2. \A s \in strings : type[s] = "string"
    BY <1>4 DEF InternTableOK
  <2>3. \A s, t \in strings : text[s] = text[t] => s = t
    BY <1>4 DEF InternTableOK
  <2>4. \A s \in Allocated : type[s] = "string" => s \in strings
    BY <1>1, <1>4 DEF InternTableOK
  <2> QED BY <1>1, <1>2, <1>4, <1>5, <1>9, <2>1, <2>2, <2>3, <2>4 DEF InternTableOK
<1>11. OpenOK'
  <2>1. \A i \in 1..MaxStack : open[i] # Nil => open[i] \in Allocated
    BY <1>4 DEF Safe
  <2> QED BY <1>1, <1>4, <1>5, <2>1 DEF OpenOK
<1>12. HeapOK'
  <2>1. \A p \in Allocated : type[p] = "instance" =>
          1 \in DOMAIN kids'[p] /\ kids'[p][1] = kids[p][1]
    BY <1>4, <1>5 DEF InstancesOK
  <2>2. kids'[o] \in Seq(Safe) /\ "string" \in ObjType
    BY <1>5 DEF ObjType
  <2>3. /\ open' \in [1..MaxStack -> Safe \cup {o}] /\ global' \in Safe /\ strings' = strings
        /\ UNCHANGED collector
    BY <1>1, <1>4, <1>5
  <2> QED BY <1>1, <1>5, <1>6, <1>7, <1>8, <1>10, <1>11, <2>1, <2>2, <2>3, NewObjectStep
<1>13. CanDeliver(1)'
  <2> DEFINE c == stack[Len(stack)]
  <2>1. ASSUME job.then = "append"
        PROVE  /\ Len(stack) >= 1 /\ Len(stack) \in 1..Len(stack)
               /\ c \in Allocated /\ type[c] \in {"list", "struct", "function"}
    <3>1. Len(stack) - 0 = Len(stack)
      BY <1>4
    <3>2. Len(stack) >= 1 /\ IsContainer(c)
      BY <1>3, <2>1, <3>1 DEF CanDeliver
    <3>3. Len(stack) \in 1..Len(stack)
      BY <1>4, <3>2
    <3>4. c \in Safe
      BY <1>1, <3>3, OffState
    <3> QED BY <3>2, <3>3, <3>4 DEF IsContainer, Safe
  <2>2. ASSUME job.then = "append"
        PROVE  Len(stack') - 1 >= 1 /\ IsContainer(stack[Len(stack) - 1])'
    <3>1. stack'[Len(stack') - 1] = c
      BY <1>7, <1>8, <2>1, <2>2
    <3>2. c # Nil /\ type'[c] = type[c]
      BY <1>1, <1>5, <2>1, <2>2, OffState
    <3> QED BY <1>8, <2>1, <2>2, <3>1, <3>2 DEF IsContainer
  <2>3. job.then = "replace" => Len(stack') - 1 >= 2
    <3>1. Len(stack) - 0 = Len(stack)
      BY <1>4
    <3> QED BY <1>3, <1>8, <3>1 DEF CanDeliver
  <2> QED BY <1>2, <1>3, <2>2, <2>3 DEF CanDeliver
<1>14. Interned(job.arg)' = {}
  BY <1>1, <1>2, <1>3, <1>9 DEF Interned
<1>15. JobOK'
  <2>1. Top' = o /\ Is(Top, "string")' /\ text'[Top'] = job'.arg
    BY <1>2, <1>5, <1>6, <1>7, <1>8, HeapAssumption DEF Top, Is
  <2> QED BY <1>2, <1>3, <1>8, <1>13, <1>14, <2>1 DEF JobOK
<1> QED BY <1>2, <1>12, <1>15 DEF IInv

LEMMA InternPreservesIInv == IInv /\ Intern => IInv'
<1> SUFFICES ASSUME IInv, Intern PROVE IInv'
  OBVIOUS
<1> DEFINE st == Drop(1)
<1>1. /\ phase = "off" /\ job.at = "intern" /\ strings' = strings \cup {job.obj}
      /\ Deliver(job.obj, st, job.then)
      /\ UNCHANGED <<objects, type, kids, text, open, global, collector>>
  BY DEF Intern, At
<1>2. /\ HeapTypeOK /\ OpenOK /\ InternTableOK /\ InstancesOK /\ Live = Allocated
      /\ Len(stack) \in Nat /\ open \in [1..MaxStack -> Safe] /\ global \in Safe
      /\ strings \subseteq Allocated /\ stack \in Seq(Safe) /\ Len(stack) <= MaxStack
      /\ Allocated \subseteq Address /\ Reachable \subseteq Allocated
      /\ \A p \in Allocated : kids[p] \in Seq(Safe)
  BY <1>1, OffState DEF IInv, HeapOK, HeapTypeOK
<1>3. /\ CanDeliver(1) /\ Interned(job.arg) = {} /\ Len(stack) >= 1
      /\ Is(Top, "string") /\ text[Top] = job.arg /\ job.obj = Top
  BY <1>1 DEF IInv, JobOK
<1>4. job.obj \in Allocated /\ type[job.obj] = "string" /\ text[job.obj] = job.arg
  BY <1>2, <1>3, TopOfStack DEF Is
<1>5. /\ st \in Seq(Safe) /\ Len(st) = Len(stack) - 1
      /\ \A i \in 1..Len(stack) - 1 : st[i] = stack[i]
  <2>1. Len(stack) - 1 \in 0..Len(stack)
    BY <1>2, <1>3
  <2> QED BY <1>2, <2>1, PrefixOfSeq DEF Drop
<1>6. /\ job.then = "replace" => Len(st) >= 2 /\ Len(st) <= MaxStack
      /\ job.then # "replace" => Len(st) < MaxStack
      /\ job.then = "append" => Len(st) >= 1 /\ IsContainer(st[Len(st)])
  <2>1. MaxStack \in Nat
    BY HeapAssumption
  <2>2. Len(st) <= MaxStack /\ Len(st) < MaxStack
    BY <1>2, <1>3, <1>5, <2>1
  <2>3. ASSUME job.then = "append" PROVE Len(st) >= 1 /\ IsContainer(st[Len(st)])
    <3>1. Len(stack) - 1 >= 1 /\ IsContainer(stack[Len(stack) - 1])
      BY <1>3, <2>3 DEF CanDeliver
    <3>2. Len(stack) - 1 \in 1..Len(stack) - 1
      BY <1>2, <3>1
    <3> QED BY <1>5, <3>1, <3>2
  <2> QED BY <1>3, <1>5, <2>2, <2>3 DEF CanDeliver
<1>7. stack' \in Seq(Safe) /\ Len(stack') <= MaxStack /\ JobOK' /\ IsJob(job)'
  <2>1. job.obj \in Safe
    BY <1>4 DEF Safe
  <2> HIDE DEF st
  <2> QED BY <1>1, <1>2, <1>5, <1>6, <2>1, Delivery
<1>8. InternTableOK' /\ strings' \subseteq Address
  <2>1. Live' = Allocated
    BY <1>1 DEF Live, Allocated, collector
  <2>2. /\ \A s \in strings : type[s] = "string"
        /\ \A s, t \in strings : text[s] = text[t] => s = t
        /\ \A s \in Allocated : type[s] = "string" => s \in strings \/ s = job.obj
    BY <1>2 DEF InternTableOK
  <2>3. \A s \in strings : text[s] # job.arg
    BY <1>3 DEF Interned
  <2>4. UNCHANGED <<type, text>>
    BY <1>1
  <2> QED BY <1>1, <1>2, <1>4, <2>1, <2>2, <2>3, <2>4 DEF InternTableOK
<1>9. OpenOK'
  BY <1>1, <1>2 DEF OpenOK
<1>10. HeapOK'
  <2>1. kids' \in [Address -> Seq(HeapValue)] /\ \A p \in Allocated : kids'[p] \in Seq(Safe)
    BY <1>1, <1>2 DEF HeapTypeOK
  <2>2. \A p \in Allocated : type[p] = "instance" =>
          1 \in DOMAIN kids'[p] /\ kids'[p][1] = kids[p][1]
    BY <1>1, <1>2 DEF InstancesOK
  <2>3. open' \in [1..MaxStack -> Safe] /\ global' \in Safe
    BY <1>1, <1>2
  <2> QED BY <1>1, <1>7, <1>8, <1>9, <2>1, <2>2, <2>3, SameObjectsStep
<1> QED BY <1>7, <1>10 DEF IInv

----------------------------------------------------------------------------
(* Other objects: one that is no string leaves the intern table alone.     *)

LEMMA NewContainerStep ==
  ASSUME IInv, phase = "off", job.at # "intern",
         UNCHANGED <<text, strings, open, global, collector>>,
         NEW o \in Address, NEW t \in ObjType \ {"string"}, NEW refs \in Seq(Safe),
         NewObject(o, t, refs),
         t = "instance" => 1 \in DOMAIN refs /\ Is(refs[1], "struct"),
         stack' \in Seq(Safe \cup {o}), Len(stack') <= MaxStack
  PROVE  HeapOK'
<1>1. /\ type[o] = "free" /\ objects' = <<o>> \o objects /\ type' = [type EXCEPT ![o] = t]
      /\ kids' \in [Address -> Seq(HeapValue)] /\ kids'[o] = refs /\ type'[o] = t
      /\ o \notin Allocated
      /\ \A p \in Allocated : /\ type'[p] = type[p] /\ kids'[p] = kids[p]
                              /\ kids'[p] \in Seq(Safe \cup {o})
      /\ Allocated' = Allocated \cup {o}
      /\ open \in [1..MaxStack -> Safe \cup {o}]
  BY NewObjectFacts
<1>2. HeapTypeOK /\ OpenOK /\ InstancesOK /\ open \in [1..MaxStack -> Safe] /\ global \in Safe
  BY OffState DEF IInv, HeapOK
<1>3. t = "instance" => refs[1] \in Allocated
  <2>1. ASSUME t = "instance" PROVE refs[1] \in Safe /\ refs[1] # Nil
    BY <2>1 DEF Is
  <2> QED BY <2>1 DEF Safe
<1>4. InternTableOK'
  <2>1. phase' = "off" /\ Allocated \subseteq Allocated'
    BY <1>1 DEF collector
  <2>2. \A p \in Allocated' \ Allocated : type'[p] # "string"
    BY <1>1
  <2> QED BY <1>1, <2>1, <2>2, InternKept
<1>5. OpenOK'
  <2>1. \A i \in 1..MaxStack : open[i] # Nil => open[i] \in Allocated
    BY <1>2 DEF Safe
  <2> QED BY <1>1, <1>2, <2>1 DEF OpenOK
<1>6. \A p \in Allocated : type[p] = "instance" =>
        1 \in DOMAIN kids'[p] /\ kids'[p][1] = kids[p][1]
  BY <1>1, <1>2 DEF InstancesOK
<1>7. text' \in [Address -> Text \cup {Nil}]
  BY <1>2 DEF HeapTypeOK
<1>8. t = "instance" => /\ 1 \in DOMAIN kids'[o] /\ kids'[o][1] \in Allocated
                        /\ type[kids'[o][1]] = "struct"
  BY <1>1, <1>3 DEF Is
<1>9. open' \in [1..MaxStack -> Safe \cup {o}] /\ global' \in Safe /\ t \in ObjType
  BY <1>1, <1>2
<1> QED BY <1>1, <1>4, <1>5, <1>6, <1>7, <1>8, <1>9, NewObjectStep

(* The new object takes the place of the n values on top of the stack.     *)
LEMMA OnTop ==
  ASSUME IInv, phase = "off", NEW o \in Address, NEW n \in 0..Len(stack),
         Len(stack) - n < MaxStack, stack' = Append(Drop(n), o)
  PROVE  /\ stack' \in Seq(Safe \cup {o}) /\ Len(stack') <= MaxStack
         /\ Len(stack') = Len(stack) - n + 1 /\ Top' = o
         /\ \A i \in 1..Len(stack) - n : stack'[i] = stack[i]
<1>1. stack \in Seq(Safe) /\ Len(stack) \in Nat /\ MaxStack \in Nat
  BY OffState, HeapAssumption
<1>2. stack \in Seq(Safe \cup {o})
  BY <1>1
<1>3. /\ Len(stack) - n \in 0..Len(stack) /\ Len(stack) - n \in Nat
  BY <1>1
<1>4. /\ Drop(n) \in Seq(Safe \cup {o}) /\ Len(Drop(n)) = Len(stack) - n
      /\ \A i \in 1..Len(stack) - n : Drop(n)[i] = stack[i]
  BY <1>2, <1>3, PrefixOfSeq DEF Drop
<1>5. /\ stack' \in Seq(Safe \cup {o}) /\ Len(stack') = Len(stack) - n + 1
      /\ \A i \in 1..Len(stack) - n : stack'[i] = Drop(n)[i]
      /\ stack'[Len(stack) - n + 1] = o
  <2>1. o \in Safe \cup {o}
    OBVIOUS
  <2> QED BY <1>4, <2>1, AppendToSeq
<1> QED BY <1>1, <1>3, <1>4, <1>5 DEF Top

LEMMA Pushed ==
  ASSUME IInv, phase = "off", NEW o \in Address, Push(o)
  PROVE  /\ stack' \in Seq(Safe \cup {o}) /\ Len(stack') <= MaxStack
         /\ Len(stack') = Len(stack) + 1 /\ Top' = o
         /\ \A i \in 1..Len(stack) : stack'[i] = stack[i]
<1>1. /\ stack \in Seq(Safe) /\ Len(stack) \in Nat /\ MaxStack \in Nat
      /\ Len(stack) < MaxStack /\ stack' = Append(stack, o)
  BY OffState, HeapAssumption DEF Push
<1>2. stack \in Seq(Safe \cup {o}) /\ o \in Safe \cup {o}
  BY <1>1
<1>3. /\ stack' \in Seq(Safe \cup {o}) /\ Len(stack') = Len(stack) + 1
      /\ \A i \in 1..Len(stack) : stack'[i] = stack[i] /\ stack'[Len(stack) + 1] = o
      /\ stack'[Len(stack) + 1] = o
  BY <1>1, <1>2, AppendToSeq
<1> QED BY <1>1, <1>3 DEF Top

LEMMA NewEmptyPreservesIInv ==
  ASSUME IInv, NEW o \in Address, NEW t \in {"list", "function"}, NewEmpty(o, t)
  PROVE  IInv'
<1>1. /\ phase = "off" /\ job.at = t /\ Push(o) /\ NewObject(o, t, << >>) /\ Return
      /\ UNCHANGED <<text, strings, open, global, collector>>
  BY DEF NewEmpty, At
<1>2. t \in ObjType \ {"string"} /\ << >> \in Seq(Safe) /\ t # "instance" /\ job.at # "intern"
  BY <1>1 DEF ObjType
<1>3. stack' \in Seq(Safe \cup {o}) /\ Len(stack') <= MaxStack
  BY <1>1, Pushed
<1>4. HeapOK'
  BY <1>1, <1>2, <1>3, NewContainerStep
<1> QED BY <1>1, <1>4, Returned DEF IInv

LEMMA NewStructPreservesIInv ==
  ASSUME IInv, NEW o \in Address, NewStruct(o)
  PROVE  IInv'
<1> DEFINE refs == [i \in {1} |-> CHOOSE n \in job.held : TRUE]
<1>1. /\ phase = "off" /\ job.at = "struct" /\ Push(o) /\ NewObject(o, "struct", refs) /\ Return
      /\ UNCHANGED <<text, strings, open, global, collector>> /\ JobOK
  BY DEF NewStruct, At, IInv
<1>2. PICK n \in Reachable : job.held = {n}
  BY <1>1 DEF JobOK
<1>3. n \in Safe
  BY <1>1, OffState DEF Safe
<1>4. refs \in Seq(Safe)
  <2>1. refs = [i \in {1} |-> n]
    BY <1>2
  <2>2. refs = <<n>>
    <3>1. [i \in {1} |-> n] = <<n>>
      OBVIOUS
    <3> QED BY <2>1, <3>1
  <2>3. <<n>> \in Seq(Safe)
    BY <1>3
  <2> QED BY <2>2, <2>3
<1>5. "struct" \in ObjType \ {"string"} /\ job.at # "intern"
  BY <1>1 DEF ObjType
<1>6. stack' \in Seq(Safe \cup {o}) /\ Len(stack') <= MaxStack
  BY <1>1, Pushed
<1> HIDE DEF refs
<1>7. HeapOK'
  BY <1>1, <1>4, <1>5, <1>6, NewContainerStep
<1> QED BY <1>1, <1>7, Returned DEF IInv

LEMMA NewInstancePreservesIInv ==
  ASSUME IInv, NEW o \in Address, NewInstance(o)
  PROVE  IInv'
<1>1. /\ phase = "off" /\ job.at = "instance" /\ Push(o) /\ NewObject(o, "instance", <<Below>>)
      /\ UNCHANGED <<text, strings, open, global, collector>>
      /\ JobOK /\ IsJob(job) /\ HeapTypeOK /\ Await("fields", [job EXCEPT !.obj = o])
  BY DEF NewInstance, At, IInv, HeapOK
<1>2. Len(stack) >= 2 /\ Is(Below, "struct") /\ job.held = {Below}
  BY <1>1 DEF JobOK
<1>3. Below \in Safe /\ Len(stack) \in Nat /\ Below \in Elements(stack)
  <2>1. Len(stack) - 1 \in 1..Len(stack) /\ Below = stack[Len(stack) - 1] /\ Len(stack) \in Nat
        /\ Below \in Elements(stack)
    BY <1>1, <1>2, TopOfStack
  <2> QED BY <1>1, <2>1, OffState
<1>4. /\ <<Below>> \in Seq(Safe) /\ 1 \in DOMAIN <<Below>> /\ <<Below>>[1] = Below
      /\ "instance" \in ObjType \ {"string"} /\ job.at # "intern"
  BY <1>1, <1>3 DEF ObjType
<1>5. /\ stack' \in Seq(Safe \cup {o}) /\ Len(stack') <= MaxStack
      /\ Len(stack') = Len(stack) + 1 /\ Top' = o
      /\ \A i \in 1..Len(stack) : stack'[i] = stack[i]
  BY <1>1, Pushed
<1>6. HeapOK'
  BY <1>1, <1>2, <1>4, <1>5, NewContainerStep
<1>7. /\ IsJob(job)' /\ job'.at = "fields" /\ job'.obj = o /\ job'.held = {Below}
  BY <1>1, <1>2 DEF Await, IsJob
<1>8. {Below} \subseteq Elements(stack)' /\ Len(stack') >= 3
  <2>1. Len(stack) - 1 \in 1..Len(stack) /\ Len(stack) - 1 \in 1..Len(stack')
        /\ Len(stack') >= 3
    BY <1>2, <1>3, <1>5
  <2>2. stack'[Len(stack) - 1] = Below /\ DOMAIN stack' = 1..Len(stack')
    BY <1>5, <2>1 DEF Below
  <2> QED BY <2>1, <2>2 DEF Elements
<1>9. Is(Top, "instance")'
  <2>1. type'[o] = "instance"
    BY <1>1, <1>3, <1>4, NewObjectFacts
  <2> QED BY <1>5, <2>1, HeapAssumption DEF Is
<1>10. JobOK'
  BY <1>5, <1>7, <1>8, <1>9 DEF JobOK
<1> QED BY <1>6, <1>7, <1>10 DEF IInv

LEMMA NewArrayPreservesIInv ==
  ASSUME IInv, NEW o \in Address, NewArray(o)
  PROVE  IInv'
<1> DEFINE n == job.arg
           refs == SubSeq(stack, Len(stack) - n + 1, Len(stack))
<1>1. /\ phase = "off" /\ job.at = "array" /\ NewObject(o, "array", refs) /\ Return
      /\ stack' = Append(Drop(n), o)
      /\ UNCHANGED <<text, strings, open, global, collector>> /\ JobOK
  BY DEF NewArray, At, IInv
<1>2. n \in 0..Len(stack) /\ Len(stack) - n < MaxStack
  BY <1>1 DEF JobOK
<1>3. refs \in Seq(Safe)
  <2>1. stack \in Seq(Safe) /\ Len(stack) \in Nat
    BY <1>1, OffState
  <2>2. Len(stack) - n + 1 \in 1..Len(stack) + 1
    BY <1>2, <2>1
  <2> HIDE DEF n
  <2> QED BY <2>1, <2>2
<1>4. "array" \in ObjType \ {"string"} /\ job.at # "intern"
  BY <1>1 DEF ObjType
<1>5. stack' \in Seq(Safe \cup {o}) /\ Len(stack') <= MaxStack
  BY <1>1, <1>2, OnTop
<1> HIDE DEF refs
<1>6. HeapOK'
  BY <1>1, <1>3, <1>4, <1>5, NewContainerStep
<1> QED BY <1>1, <1>6, Returned DEF IInv

LEMMA NewBoundPreservesIInv ==
  ASSUME IInv, NEW o \in Address, NewBound(o)
  PROVE  IInv'
<1>1. /\ phase = "off" /\ job.at = "bound" /\ NewObject(o, "bound", <<Top, job.arg>>) /\ Return
      /\ stack' = Append(Drop(1), o)
      /\ UNCHANGED <<text, strings, open, global, collector>> /\ JobOK /\ HeapTypeOK
  BY DEF NewBound, At, IInv, HeapOK
<1>2. Len(stack) >= 1 /\ Top # Nil /\ job.arg \in Reachable
  BY <1>1 DEF JobOK
<1>3. <<Top, job.arg>> \in Seq(Safe)
  <2>1. Top \in Reachable
    BY <1>1, <1>2, TopOfStack
  <2>2. Top \in Safe /\ job.arg \in Safe
    BY <1>1, <1>2, <2>1, OffState DEF Safe
  <2> QED BY <2>2
<1>4. "bound" \in ObjType \ {"string"} /\ job.at # "intern"
  BY <1>1 DEF ObjType
<1>5. 1 \in 0..Len(stack) /\ Len(stack) - 1 < MaxStack
  BY <1>1, <1>2, TopOfStack
<1>6. stack' \in Seq(Safe \cup {o}) /\ Len(stack') <= MaxStack
  BY <1>1, <1>5, OnTop
<1>7. HeapOK'
  BY <1>1, <1>3, <1>4, <1>6, NewContainerStep
<1> QED BY <1>1, <1>7, Returned DEF IInv

LEMMA NewClosurePreservesIInv ==
  ASSUME IInv, NEW o \in Address, NewClosure(o)
  PROVE  IInv'
<1>1. /\ phase = "off" /\ job.at = "closure" /\ NewObject(o, "closure", <<Top, Nil>>) /\ Return
      /\ stack' = Append(Drop(1), o)
      /\ UNCHANGED <<text, strings, open, global, collector>> /\ JobOK /\ HeapTypeOK
  BY DEF NewClosure, At, IInv, HeapOK
<1>2. Len(stack) >= 1 /\ Top # Nil
  BY <1>1 DEF JobOK
<1>3. <<Top, Nil>> \in Seq(Safe)
  <2>1. Top \in Reachable
    BY <1>1, <1>2, TopOfStack
  <2>2. Top \in Safe /\ Nil \in Safe
    BY <1>1, <2>1, OffState DEF Safe
  <2> QED BY <2>2
<1>4. "closure" \in ObjType \ {"string"} /\ job.at # "intern"
  BY <1>1 DEF ObjType
<1>5. 1 \in 0..Len(stack) /\ Len(stack) - 1 < MaxStack
  BY <1>1, <1>2, TopOfStack
<1>6. stack' \in Seq(Safe \cup {o}) /\ Len(stack') <= MaxStack
  BY <1>1, <1>5, OnTop
<1>7. HeapOK'
  BY <1>1, <1>3, <1>4, <1>6, NewContainerStep
<1> QED BY <1>1, <1>7, Returned DEF IInv

----------------------------------------------------------------------------
(* References stored in objects that exist.                                *)

LEMMA UpdateOfSeq ==
  ASSUME NEW S, NEW s \in Seq(S), NEW i, NEW x \in S
  PROVE  /\ [s EXCEPT ![i] = x] \in Seq(S)
         /\ DOMAIN [s EXCEPT ![i] = x] = DOMAIN s
         /\ \A k \in DOMAIN s : k # i => [s EXCEPT ![i] = x][k] = s[k]
<1> DEFINE q == [s EXCEPT ![i] = x]
<1>1. /\ Len(s) \in Nat /\ DOMAIN s = 1..Len(s) /\ \A k \in 1..Len(s) : s[k] \in S
  BY ElementsOfSeq
<1>2. DOMAIN q = DOMAIN s
  OBVIOUS
<1>3. \A k \in DOMAIN s : q[k] = IF k = i THEN x ELSE s[k]
  OBVIOUS
<1>4. q = [k \in 1..Len(s) |-> q[k]]
  BY <1>1, <1>2
<1>5. \A k \in 1..Len(s) : q[k] \in S
  BY <1>1, <1>3
<1> HIDE DEF q
<1>6. q \in Seq(S)
  BY <1>1, <1>4, <1>5
<1> QED BY <1>2, <1>3, <1>6 DEF q

LEMMA Dropped ==
  ASSUME IInv, phase = "off", NEW n \in 0..Len(stack)
  PROVE  /\ Drop(n) \in Seq(Safe) /\ Len(Drop(n)) = Len(stack) - n
         /\ Len(Drop(n)) <= MaxStack
         /\ \A x \in Safe : n >= 1 => /\ Append(Drop(n), x) \in Seq(Safe)
                                      /\ Len(Append(Drop(n), x)) <= MaxStack
<1>1. stack \in Seq(Safe) /\ Len(stack) \in Nat /\ MaxStack \in Nat /\ Len(stack) <= MaxStack
  BY OffState, HeapAssumption DEF HeapTypeOK
<1>2. Len(stack) - n \in 0..Len(stack)
  BY <1>1
<1>3. Drop(n) \in Seq(Safe) /\ Len(Drop(n)) = Len(stack) - n
  BY <1>1, <1>2, PrefixOfSeq DEF Drop
<1>4. ASSUME NEW x \in Safe
      PROVE  Append(Drop(n), x) \in Seq(Safe) /\ Len(Append(Drop(n), x)) = Len(stack) - n + 1
  BY <1>3, AppendToSeq
<1> QED BY <1>1, <1>3, <1>4

(* What lies on top is no freed object.                                    *)
LEMMA SafeTop ==
  ASSUME IInv, phase = "off"
  PROVE  /\ Len(stack) \in Nat /\ Len(stack) <= MaxStack /\ MaxStack \in Nat
         /\ Len(stack) >= 1 => /\ Top \in Safe /\ Len(stack) \in 1..Len(stack)
                               /\ Top # Nil => Top \in Allocated /\ Top \in Address
                                               /\ kids[Top] \in Seq(Safe)
         /\ Len(stack) >= 2 => /\ Below \in Safe
                               /\ Below # Nil => Below \in Allocated /\ Below \in Address
                                                 /\ kids[Below] \in Seq(Safe)
         /\ open \in [1..MaxStack -> Safe] /\ global \in Safe /\ OpenOK
         /\ stack \in Seq(Safe) /\ InstancesOK
<1>1. /\ HeapTypeOK /\ OpenOK /\ InstancesOK /\ open \in [1..MaxStack -> Safe] /\ global \in Safe
      /\ stack \in Seq(Safe) /\ \A i \in 1..Len(stack) : stack[i] \in Safe
      /\ \A o \in Allocated : kids[o] \in Seq(Safe)
      /\ Allocated \subseteq Address
  BY OffState DEF IInv, HeapOK
<1>2. \A x \in Safe : x # Nil => x \in Allocated
  BY DEF Safe
<1> QED BY <1>1, <1>2, TopOfStack

LEMMA BeginAppendPreservesIInv == IInv /\ BeginAppend => IInv'
<1> SUFFICES ASSUME IInv, BeginAppend PROVE IInv'
  OBVIOUS
<1>1. /\ phase = "off" /\ job.at = "none"
      /\ UNCHANGED <<objects, type, text, strings, machine, collector>>
      /\ UNCHANGED <<stack, open, global>>
      /\ Len(stack) >= 2 /\ Top # Nil /\ Below # Nil
  BY DEF BeginAppend, Idle, Temporaries, machine
<1>2. IsJob(job)' /\ job'.at = "append" /\ job'.obj = Top /\ job'.held = {}
  <2>1. Await("append", [NoJob EXCEPT !.obj = Top])
    BY DEF BeginAppend
  <2> QED BY <2>1 DEF Await, NoJob, IsJob
<1>3. /\ Top \in Safe /\ Top \in Allocated /\ kids[Top] \in Seq(Safe) /\ Below \in Safe
      /\ open \in [1..MaxStack -> Safe] /\ global \in Safe /\ OpenOK
      /\ stack \in Seq(Safe) /\ Len(stack) <= MaxStack
  <2>1. Len(stack) >= 1
    BY <1>1, SafeTop
  <2> QED BY <1>1, <2>1, SafeTop
<1>4. HeapOK'
  <2>1. CASE kids' = kids
    <3>1. UNCHANGED <<heap, machine, collector>>
      BY <1>1, <2>1 DEF heap
    <3> QED BY <1>1, <3>1, WaitingStep
  <2>2. CASE /\ type[Top] = "closure"
             /\ kids' = [kids EXCEPT ![Top] = [@ EXCEPT ![2] = Below]]
    <3> DEFINE q == [kids[Top] EXCEPT ![2] = Below]
    <3>1. q \in Seq(Safe)
      BY <1>3, UpdateOfSeq
    <3>2. kids' = [kids EXCEPT ![Top] = q]
      BY <2>2
    <3>3. OpenOK' /\ stack' \in Seq(Safe) /\ Len(stack') <= MaxStack
          /\ open' \in [1..MaxStack -> Safe] /\ global' \in Safe
      BY <1>1, <1>3 DEF OpenOK
    <3> HIDE DEF q
    <3> QED BY <1>1, <1>3, <2>2, <3>1, <3>2, <3>3, OneObjectStep
  <2> QED BY <2>1, <2>2 DEF BeginAppend
<1>5. IsContainer(Below)' /\ Top' = Top
  <2>1. IsContainer(Below)
    BY <1>1 DEF BeginAppend, IsContainer
  <2> QED BY <1>1, <2>1 DEF IsContainer, Below, Top
<1>6. JobOK'
  BY <1>1, <1>2, <1>5 DEF JobOK
<1> QED BY <1>2, <1>4, <1>6 DEF IInv

LEMMA FinishAppendPreservesIInv == IInv /\ FinishAppend => IInv'
<1> SUFFICES ASSUME IInv, FinishAppend PROVE IInv'
  OBVIOUS
<1>1. /\ phase = "off" /\ job.at = "append" /\ stack' = Drop(1) /\ Return
      /\ kids' = [kids EXCEPT ![Below] = Append(@, job.obj)]
      /\ UNCHANGED <<objects, type, text, strings, open, global, collector>> /\ JobOK
  BY DEF FinishAppend, At, IInv
<1>2. Len(stack) >= 2 /\ IsContainer(Below) /\ job.obj = Top
  BY <1>1 DEF JobOK
<1>3. /\ Top \in Safe /\ Below \in Allocated /\ kids[Below] \in Seq(Safe)
      /\ open \in [1..MaxStack -> Safe] /\ global \in Safe /\ OpenOK
      /\ type[Below] # "instance" /\ 1 \in 0..Len(stack)
  <2>1. Len(stack) >= 1 /\ 1 \in 0..Len(stack)
    BY <1>1, <1>2, SafeTop
  <2> QED BY <1>1, <1>2, <2>1, SafeTop DEF IsContainer
<1> DEFINE q == Append(kids[Below], job.obj)
<1>4. q \in Seq(Safe) /\ kids' = [kids EXCEPT ![Below] = q]
  BY <1>1, <1>2, <1>3, AppendToSeq
<1>5. stack' \in Seq(Safe) /\ Len(stack') <= MaxStack
  BY <1>1, <1>3, Dropped
<1>6. OpenOK' /\ open' \in [1..MaxStack -> Safe] /\ global' \in Safe
  BY <1>1, <1>3 DEF OpenOK
<1> HIDE DEF q
<1>7. HeapOK'
  BY <1>1, <1>3, <1>4, <1>5, <1>6, OneObjectStep
<1> QED BY <1>1, <1>7, Returned DEF IInv

LEMMA InstanceFieldsPreservesIInv == IInv /\ InstanceFields => IInv'
<1> SUFFICES ASSUME IInv, InstanceFields PROVE IInv'
  OBVIOUS
<1>1. /\ phase = "off" /\ job.at = "fields" /\ stack' = Append(Drop(3), job.obj) /\ Return
      /\ kids' = [kids EXCEPT ![job.obj] = Append(@, Below)]
      /\ UNCHANGED <<objects, type, text, strings, open, global, collector>> /\ JobOK
  BY DEF InstanceFields, At, IInv
<1>2. Len(stack) >= 3 /\ Is(Top, "instance") /\ job.obj = Top
  BY <1>1 DEF JobOK
<1>3. /\ Top \in Safe /\ Top \in Allocated /\ kids[Top] \in Seq(Safe) /\ Below \in Safe
      /\ open \in [1..MaxStack -> Safe] /\ global \in Safe /\ OpenOK
      /\ 1 \in DOMAIN kids[Top] /\ 3 \in 0..Len(stack)
  <2>1. Len(stack) >= 1 /\ Len(stack) >= 2 /\ 3 \in 0..Len(stack)
    BY <1>1, <1>2, SafeTop
  <2> QED BY <1>1, <1>2, <2>1, SafeTop DEF Is, InstancesOK
<1> DEFINE q == Append(kids[Top], Below)
<1>4. q \in Seq(Safe) /\ kids' = [kids EXCEPT ![Top] = q] /\ 1 \in DOMAIN q /\ q[1] = kids[Top][1]
  <2>1. 1 \in 1..Len(kids[Top])
    BY <1>3
  <2> QED BY <1>1, <1>2, <1>3, <2>1, AppendToSeq
<1>5. stack' \in Seq(Safe) /\ Len(stack') <= MaxStack
  BY <1>1, <1>2, <1>3, Dropped
<1>6. OpenOK' /\ open' \in [1..MaxStack -> Safe] /\ global' \in Safe
  BY <1>1, <1>3 DEF OpenOK
<1> HIDE DEF q
<1>7. HeapOK'
  BY <1>1, <1>3, <1>4, <1>5, <1>6, OneObjectStep
<1> QED BY <1>1, <1>7, Returned DEF IInv

LEMMA BeginCapturePreservesIInv ==
  ASSUME IInv, NEW s \in 1..MaxStack, BeginCapture(s)
  PROVE  IInv'
<1>1. /\ phase = "off" /\ job.at = "none" /\ JobOK /\ IsJob(job)
      /\ UNCHANGED <<objects, type, text, strings, machine, collector>>
      /\ UNCHANGED <<stack, open, global>>
      /\ Len(stack) > 0 /\ s \in 1..Len(stack) /\ Is(Top, "closure")
  BY DEF BeginCapture, Idle, machine, IInv
<1>2. /\ Top \in Allocated /\ kids[Top] \in Seq(Safe) /\ Top # Nil /\ Len(stack) >= 1
      /\ open \in [1..MaxStack -> Safe] /\ global \in Safe /\ OpenOK
      /\ stack \in Seq(Safe) /\ Len(stack) <= MaxStack
  <2>1. Len(stack) \in Nat
    BY <1>1, SafeTop
  <2>2. Len(stack) >= 1
    BY <1>1, <2>1
  <2> QED BY <1>1, <2>2, SafeTop DEF Is
<1>3. OpenOK' /\ Top' = Top /\ Is(Top, "closure")'
  BY <1>1, <1>2 DEF OpenOK, Top, Is
<1>4. CASE open[s] # Nil
  <2> DEFINE q == Append(kids[Top], open[s])
  <2>1. kids' = [kids EXCEPT ![Top] = q] /\ UNCHANGED <<job, armed>>
    BY <1>4 DEF BeginCapture
  <2>2. q \in Seq(Safe)
    BY <1>2, AppendToSeq
  <2>3. type[Top] # "instance"
    BY <1>1 DEF Is
  <2>4. /\ stack' \in Seq(Safe) /\ Len(stack') <= MaxStack
        /\ open' \in [1..MaxStack -> Safe] /\ global' \in Safe
    BY <1>1, <1>2
  <2> HIDE DEF q
  <2>5. HeapOK'
    BY <1>1, <1>2, <1>3, <2>1, <2>2, <2>3, <2>4, OneObjectStep
  <2>6. JobOK' /\ IsJob(job)'
    BY <1>1, <2>1 DEF JobOK, IsJob
  <2> QED BY <2>5, <2>6 DEF IInv
<1>5. CASE open[s] = Nil
  <2>1. kids' = kids /\ Await("upvalue", [NoJob EXCEPT !.arg = s, !.held = {Top}])
    BY <1>5 DEF BeginCapture
  <2>2. /\ IsJob(job)' /\ job'.at = "upvalue" /\ job'.arg = s /\ job'.obj = Nil
        /\ job'.held = {Top}
    BY <2>1 DEF Await, NoJob, IsJob
  <2>3. UNCHANGED <<heap, machine, collector>>
    BY <1>1, <2>1 DEF heap
  <2>4. HeapOK'
    BY <1>1, <2>3, WaitingStep
  <2>5. JobOK'
    BY <1>1, <1>2, <1>3, <2>2 DEF JobOK
  <2> QED BY <2>2, <2>4, <2>5 DEF IInv
<1> QED BY <1>4, <1>5

LEMMA NewUpvaluePreservesIInv ==
  ASSUME IInv, NEW o \in Address, NewUpvalue(o)
  PROVE  IInv'
<1>1. /\ phase = "off" /\ job.at = "upvalue" /\ Return /\ JobOK /\ HeapTypeOK
      /\ type[o] = "free" /\ objects' = <<o>> \o objects
      /\ type' = [type EXCEPT ![o] = "upvalue"]
      /\ kids' = [kids EXCEPT ![o] = <<Nil>>, ![Top] = Append(@, o)]
      /\ open' = [open EXCEPT ![job.arg] = o]
      /\ UNCHANGED <<text, strings, stack, global, collector>>
  BY DEF NewUpvalue, At, IInv, HeapOK
<1>2. Len(stack) >= 1 /\ Is(Top, "closure") /\ job.arg \in 1..Len(stack)
  BY <1>1 DEF JobOK
<1>3. /\ Top \in Allocated /\ Top \in Address /\ kids[Top] \in Seq(Safe)
      /\ open \in [1..MaxStack -> Safe] /\ global \in Safe /\ OpenOK /\ InstancesOK
      /\ stack \in Seq(Safe) /\ Len(stack) <= MaxStack
      /\ Safe \subseteq HeapValue
      /\ \A p \in Allocated : kids[p] \in Seq(Safe)
  BY <1>1, <1>2, SafeTop, OffState DEF Is
<1>4. o \notin Allocated /\ o # Nil /\ o # Top
  BY <1>1, <1>3, HeapAssumption DEF Allocated
<1> DEFINE q == Append(kids[Top], o)
           S == Safe \cup {o}
<1>5. q \in Seq(S) /\ S \subseteq HeapValue /\ <<Nil>> \in Seq(Safe) /\ Seq(Safe) \subseteq Seq(S)
  <2>1. kids[Top] \in Seq(S) /\ o \in S /\ Nil \in Safe
    BY <1>3 DEF Safe
  <2> QED BY <1>3, <2>1, AppendToSeq DEF HeapValue
<1>6. kids' = [kids EXCEPT ![o] = <<Nil>>, ![Top] = q]
  <2>1. [kids EXCEPT ![o] = <<Nil>>][Top] = kids[Top]
    BY <1>1, <1>3, <1>4 DEF HeapTypeOK
  <2> QED BY <1>1, <2>1
<1> HIDE DEF q
<1>7. /\ kids'[o] = <<Nil>> /\ kids'[Top] = q
      /\ \A p \in Address : p # o /\ p # Top => kids'[p] = kids[p]
  BY <1>1, <1>3, <1>4, <1>6 DEF HeapTypeOK
<1>8. kids' \in [Address -> Seq(HeapValue)]
  <2>1. q \in Seq(HeapValue) /\ <<Nil>> \in Seq(HeapValue)
    BY <1>3, <1>5
  <2> QED BY <1>1, <1>6, <2>1 DEF HeapTypeOK
<1>9. /\ type'[o] = "upvalue" /\ \A p \in Address : p # o => type'[p] = type[p]
      /\ Allocated' = Allocated \cup {o}
  <2>1. type'[o] = "upvalue" /\ \A p \in Address : p # o => type'[p] = type[p]
    BY <1>1 DEF HeapTypeOK
  <2> QED BY <2>1 DEF Allocated
<1>10. \A p \in Allocated : type'[p] = type[p]
  BY <1>4, <1>9 DEF Allocated
<1>11. InternTableOK'
  <2>1. phase' = "off" /\ job.at # "intern"
    BY <1>1 DEF collector
  <2> QED BY <1>1, <1>9, <1>10, <2>1, InternKept
<1>12. OpenOK' /\ open' \in [1..MaxStack -> S]
  <2>1. \A i \in 1..MaxStack : open'[i] = open[i] \/ open'[i] = o
    BY <1>1, <1>3
  <2>2. \A i \in 1..MaxStack : open[i] # Nil => open[i] \in Allocated
    BY <1>3 DEF Safe
  <2>3. open' \in [1..MaxStack -> S]
    BY <1>1, <1>3
  <2> QED BY <1>3, <1>9, <1>10, <2>1, <2>2, <2>3 DEF OpenOK
<1>13. \A p \in Allocated : kids'[p] \in Seq(S)
  <2>1. \A p \in Allocated : p \in Address /\ p # o
    BY <1>4 DEF Allocated
  <2> QED BY <1>3, <1>5, <1>7, <2>1
<1>14. \A p \in Allocated : type[p] = "instance" =>
         1 \in DOMAIN kids'[p] /\ kids'[p][1] = kids[p][1]
  <2>1. type[Top] # "instance" /\ \A p \in Allocated : p \in Address /\ p # o
    BY <1>2, <1>4 DEF Is, Allocated
  <2> QED BY <1>3, <1>7, <2>1 DEF InstancesOK
<1>15. /\ stack' \in Seq(S) /\ Len(stack') <= MaxStack /\ global' \in Safe
       /\ text' \in [Address -> Text \cup {Nil}] /\ "upvalue" \in ObjType
       /\ kids'[o] \in Seq(Safe)
  <2>1. stack \in Seq(S)
    BY <1>3
  <2> QED BY <1>1, <1>3, <1>5, <1>7, <2>1 DEF HeapTypeOK, ObjType
<1>16. HeapOK'
  BY <1>1, <1>8, <1>11, <1>12, <1>13, <1>14, <1>15, NewObjectStep
<1> QED BY <1>1, <1>16, Returned DEF IInv

----------------------------------------------------------------------------
(* Instructions that allocate nothing.                                     *)

LEMMA QuietStep ==
  ASSUME IInv, Quiet
  PROVE  /\ phase = "off" /\ job.at # "intern" /\ JobOK' /\ IsJob(job)'
         /\ UNCHANGED <<objects, type, text, strings, collector>>
BY DEF Quiet, Idle, JobOK, IsJob, IInv

(* Those that write to no object either.                                   *)
LEMMA QuietMachineStep ==
  ASSUME IInv, Quiet, UNCHANGED kids, stack' \in Seq(Safe), Len(stack') <= MaxStack,
         open' = open \/ open' = [s \in 1..MaxStack |-> Nil], global' \in Safe
  PROVE  IInv'
<1>1. /\ phase = "off" /\ job.at # "intern" /\ JobOK' /\ IsJob(job)'
      /\ UNCHANGED <<objects, type, text, strings, collector>>
  BY QuietStep
<1>2. open \in [1..MaxStack -> Safe] /\ OpenOK
  BY <1>1, SafeTop
<1>3. open' \in [1..MaxStack -> Safe] /\ OpenOK'
  BY <1>1, <1>2 DEF OpenOK, Safe
<1>4. UNCHANGED <<heap, collector>>
  BY <1>1 DEF heap
<1> QED BY <1>1, <1>3, <1>4, MachineStep DEF IInv

LEMMA PushStep ==
  ASSUME IInv, Quiet, NEW x \in Safe, Push(x), UNCHANGED <<kids, open, global>>
  PROVE  IInv'
<1>1. /\ stack \in Seq(Safe) /\ Len(stack) \in Nat /\ MaxStack \in Nat /\ global \in Safe
      /\ Len(stack) < MaxStack /\ stack' = Append(stack, x)
  BY QuietStep, SafeTop DEF Push
<1>2. stack' \in Seq(Safe) /\ Len(stack') = Len(stack) + 1
  BY <1>1, AppendToSeq
<1> QED BY <1>1, <1>2, QuietMachineStep

LEMMA PopPreservesIInv == IInv /\ Pop => IInv'
<1> SUFFICES ASSUME IInv, Pop PROVE IInv'
  OBVIOUS
<1>1. Quiet /\ Len(stack) > 0 /\ stack' = Drop(1) /\ UNCHANGED <<kids, open, global>>
  BY DEF Pop
<1>2. /\ Len(stack) \in Nat /\ global \in Safe
  BY <1>1, QuietStep, SafeTop
<1>3. stack' \in Seq(Safe) /\ Len(stack') <= MaxStack
  <2>1. 1 \in 0..Len(stack)
    BY <1>1, <1>2
  <2> QED BY <1>1, <2>1, QuietStep, Dropped
<1> QED BY <1>1, <1>2, <1>3, QuietMachineStep

LEMMA ConstantPreservesIInv ==
  ASSUME IInv, NEW f \in Address, NEW x \in Address, Constant(f, x)
  PROVE  IInv'
<1>1. /\ Quiet /\ Push(x) /\ UNCHANGED <<kids, open, global>>
      /\ x \in Kids(f) /\ f \in Reachable
  BY DEF Constant
<1>2. phase = "off" /\ HeapTypeOK
  BY <1>1, QuietStep DEF IInv, HeapOK
<1>3. x \in Reachable
  BY <1>1, <1>2, ReachableIsLeast DEF ReachableFacts, Closed
<1>4. x \in Safe
  BY <1>2, <1>3, OffState DEF Safe
<1> QED BY <1>1, <1>4, PushStep

LEMMA LoadPreservesIInv ==
  ASSUME IInv, NEW i \in 1..MaxKids, Load(i)
  PROVE  IInv'
<1>1. /\ Quiet /\ Len(stack) > 0 /\ Top # Nil /\ i \in DOMAIN kids[Top]
      /\ stack' = Append(Drop(1), kids[Top][i]) /\ UNCHANGED <<kids, open, global>>
  BY DEF Load
<1>2. phase = "off" /\ Len(stack) >= 1 /\ 1 \in 0..Len(stack)
  <2>1. phase = "off"
    BY <1>1, QuietStep
  <2>2. Len(stack) \in Nat
    BY <2>1, SafeTop
  <2> QED BY <1>1, <2>1, <2>2
<1>3. kids[Top] \in Seq(Safe) /\ global \in Safe
  BY <1>1, <1>2, SafeTop
<1>4. kids[Top][i] \in Safe
  BY <1>1, <1>3
<1>5. stack' \in Seq(Safe) /\ Len(stack') <= MaxStack
  BY <1>1, <1>2, <1>4, Dropped
<1> QED BY <1>1, <1>3, <1>5, QuietMachineStep

LEMMA StorePreservesIInv ==
  ASSUME IInv, NEW i \in 1..MaxKids, Store(i)
  PROVE  IInv'
<1> DEFINE q == [kids[Below] EXCEPT ![i] = Top]
<1>1. /\ Quiet /\ Len(stack) >= 2 /\ Below # Nil
      /\ type[Below] = "instance" => i > 1
      /\ kids' = [kids EXCEPT ![Below] = q]
      /\ stack' = Append(Drop(2), Top) /\ UNCHANGED <<open, global>>
  BY DEF Store, Temporaries
<1>2. /\ phase = "off" /\ job.at # "intern" /\ JobOK' /\ IsJob(job)'
      /\ UNCHANGED <<objects, type, text, strings, collector>>
  BY <1>1, QuietStep
<1>3. Len(stack) >= 1 /\ 2 \in 0..Len(stack)
  <2>1. Len(stack) \in Nat
    BY <1>2, SafeTop
  <2> QED BY <1>1, <2>1
<1>4. /\ Top \in Safe /\ Below \in Allocated /\ kids[Below] \in Seq(Safe)
      /\ open \in [1..MaxStack -> Safe] /\ global \in Safe /\ OpenOK /\ InstancesOK
  BY <1>1, <1>2, <1>3, SafeTop
<1>5. /\ q \in Seq(Safe) /\ DOMAIN q = DOMAIN kids[Below]
      /\ \A k \in DOMAIN kids[Below] : k # i => q[k] = kids[Below][k]
  BY <1>4, UpdateOfSeq
<1> HIDE DEF q
<1>6. type[Below] = "instance" => 1 \in DOMAIN q /\ q[1] = kids[Below][1]
  BY <1>1, <1>4, <1>5 DEF InstancesOK
<1>7. stack' \in Seq(Safe) /\ Len(stack') <= MaxStack
  BY <1>1, <1>2, <1>3, <1>4, Dropped
<1>8. OpenOK' /\ open' \in [1..MaxStack -> Safe] /\ global' \in Safe
  BY <1>1, <1>2, <1>4 DEF OpenOK
<1>9. HeapOK'
  BY <1>1, <1>2, <1>4, <1>5, <1>6, <1>7, <1>8, OneObjectStep
<1> QED BY <1>2, <1>9 DEF IInv

LEMMA SetGlobalPreservesIInv == IInv /\ SetGlobal => IInv'
<1> SUFFICES ASSUME IInv, SetGlobal PROVE IInv'
  OBVIOUS
<1>1. Quiet /\ Len(stack) > 0 /\ global' = Top /\ UNCHANGED <<kids, stack, open>>
  BY DEF SetGlobal
<1>2. phase = "off" /\ Len(stack) \in Nat /\ stack \in Seq(Safe) /\ Len(stack) <= MaxStack
  BY <1>1, QuietStep, SafeTop
<1>3. Len(stack) >= 1
  BY <1>1, <1>2
<1>4. Top \in Safe
  BY <1>2, <1>3, SafeTop
<1> QED BY <1>1, <1>2, <1>4, QuietMachineStep

LEMMA RuntimeErrorPreservesIInv == IInv /\ RuntimeError => IInv'
<1> SUFFICES ASSUME IInv, RuntimeError PROVE IInv'
  OBVIOUS
<1>1. /\ Quiet /\ stack' = << >> /\ open' = [s \in 1..MaxStack |-> Nil]
      /\ UNCHANGED <<kids, global>>
  BY DEF RuntimeError
<1>2. global \in Safe /\ MaxStack \in Nat
  BY <1>1, QuietStep, SafeTop
<1>3. stack' \in Seq(Safe) /\ Len(stack') <= MaxStack
  BY <1>1, <1>2
<1> QED BY <1>1, <1>2, <1>3, QuietMachineStep

LEMMA QuietPreservesIInv ==
  IInv /\ (PushNil \/ GetGlobal) => IInv'
<1> SUFFICES ASSUME IInv, PushNil \/ GetGlobal PROVE IInv'
  OBVIOUS
<1>1. Quiet /\ UNCHANGED <<kids, open, global>> /\ (Push(Nil) \/ Push(global))
  BY DEF PushNil, GetGlobal
<1>2. Nil \in Safe /\ global \in Safe
  BY <1>1, QuietStep, SafeTop DEF Safe
<1> QED BY <1>1, <1>2, PushStep

----------------------------------------------------------------------------
(* Reading, writing and closing upvalues.                                  *)

LEMMA OperandsAreCounted == ASSUME IInv PROVE Operands \in Nat
<1>1. ToDeliver \in Nat
  BY DEF ToDeliver
<1>2. ASSUME job.at \in {"array values", "array"} PROVE job.arg \in Nat
  <2>1. job.arg \in 0..Len(stack)
    BY <1>2 DEF IInv, JobOK
  <2> QED BY <2>1
<1>3. CASE job.at \in {"array values", "array"}
  <2>1. Operands = job.arg
    BY <1>3 DEF Operands
  <2> QED BY <1>2, <1>3, <2>1
<1>4. CASE job.at \in {"copy chars", "string", "intern"}
  <2>1. Operands \in {ToDeliver, ToDeliver + 1}
    BY <1>4 DEF Operands
  <2> QED BY <1>1, <2>1
<1>5. CASE job.at \notin {"array values", "array", "copy chars", "string", "intern"}
  BY <1>5 DEF Operands
<1> QED BY <1>3, <1>4, <1>5

(* What an upvalue shows is on the stack, or a reference of its own.       *)
LEMMA SeenLives ==
  ASSUME Inv, NEW u \in Live, type[u] = "upvalue"
  PROVE  Seen(u) \subseteq Live \cup {Nil}
<1>1. /\ HeapTypeOK /\ ReferencesOK /\ u \in Address /\ 1 \in DOMAIN kids[u]
      /\ location[u] \in 0..MaxStack /\ MaxStack \in Nat
  BY HeapAssumption DEF Inv, IInv, HeapOK, UpvaluesOK, SlotsOK, ReferencesOK, Allocated
<1>2. CASE location[u] = 0
  <2>1. kids[u][1] \in Elements(kids[u])
    BY <1>1 DEF Elements
  <2>2. kids[u][1] \in Live \cup {Nil}
    BY <1>1, <2>1 DEF ReferencesOK, Closed, Kids
  <2> QED BY <1>2, <2>2 DEF Seen
<1>3. CASE location[u] # 0
  <2>1. location[u] \in 1..MaxStack /\ open[location[u]] = u /\ u # Nil
    BY <1>1, <1>3, HeapAssumption DEF Inv, SlotsOK
  <2>2. Operands \in Nat /\ location[u] + Operands <= Len(stack)
    BY <2>1, OperandsAreCounted DEF Inv, SlotsOK
  <2>3. /\ stack \in Seq(HeapValue) /\ Len(stack) \in Nat /\ DOMAIN stack = 1..Len(stack)
    BY <1>1, ElementsOfSeq DEF HeapTypeOK
  <2>4. location[u] \in DOMAIN stack
    BY <2>1, <2>2, <2>3
  <2>5. stack[location[u]] \in Elements(stack)
    BY <2>4 DEF Elements
  <2>6. stack[location[u]] \in Live \cup {Nil}
    BY <1>1, <2>5 DEF ReferencesOK, Roots
  <2> QED BY <1>3, <2>4, <2>6 DEF Seen
<1> QED BY <1>2, <1>3

LEMMA SeenIsSafe ==
  ASSUME Inv, phase = "off", NEW u \in Allocated, type[u] = "upvalue"
  PROVE  Seen(u) \subseteq Safe
<1>1. Live = Allocated
  BY OffState DEF Inv
<1> QED BY <1>1, SeenLives DEF Safe

(* The upvalue that an instruction of the closure c names.                 *)
LEMMA UpvalueOfClosure ==
  ASSUME Inv, phase = "off", NEW c \in Reachable, type[c] = "closure",
         NEW i \in DOMAIN kids[c], i > 2
  PROVE  kids[c][i] \in Allocated /\ type[kids[c][i]] = "upvalue"
<1>1. c \in Allocated /\ Live = Allocated /\ kids[c] \in Seq(Safe)
  BY OffState DEF Inv
<1>2. Is(kids[c][i], "upvalue")
  BY <1>1 DEF Inv, UpvaluesOK, OnlyUpvalues
<1>3. kids[c][i] \in Safe
  BY <1>1
<1> QED BY <1>2, <1>3 DEF Is, Safe

LEMMA GetUpvaluePreservesIInv ==
  ASSUME Inv, NEW c \in Address, NEW i \in 1..MaxKids, GetUpvalue(c, i)
  PROVE  IInv'
<1>1. /\ Quiet /\ type[c] = "closure" /\ i > 2 /\ i \in DOMAIN kids[c] /\ c \in Reachable
      /\ UNCHANGED <<kids, open, global>>
  BY DEF GetUpvalue
<1>2. PICK x \in Seen(kids[c][i]) : Push(x)
  BY DEF GetUpvalue
<1>3. phase = "off" /\ IInv
  BY <1>1, QuietStep DEF Inv
<1>4. kids[c][i] \in Allocated /\ type[kids[c][i]] = "upvalue"
  BY <1>1, <1>3, UpvalueOfClosure
<1>5. x \in Safe
  BY <1>2, <1>3, <1>4, SeenIsSafe
<1> QED BY <1>1, <1>2, <1>3, <1>5, PushStep

(* A slot that is written keeps the stack as high as it was.               *)
LEMMA SlotWritten ==
  ASSUME NEW S, NEW s \in Seq(S), NEW x \in S, NEW l
  PROVE  LET t == [i \in DOMAIN s |-> IF i = l THEN x ELSE s[i]]
         IN  t \in Seq(S) /\ Len(t) = Len(s)
<1> DEFINE t == [i \in DOMAIN s |-> IF i = l THEN x ELSE s[i]]
<1>1. Len(s) \in Nat /\ DOMAIN s = 1..Len(s) /\ \A i \in 1..Len(s) : s[i] \in S
  BY ElementsOfSeq
<1>2. t = [i \in 1..Len(s) |-> t[i]] /\ \A i \in 1..Len(s) : t[i] \in S
  BY <1>1
<1> HIDE DEF t
<1>3. t \in Seq(S) /\ Len(t) = Len(s)
  BY <1>1, <1>2
<1> QED BY <1>3 DEF t

LEMMA SetUpvaluePreservesIInv ==
  ASSUME Inv, NEW c \in Address, NEW i \in 1..MaxKids, SetUpvalue(c, i)
  PROVE  IInv'
<1> DEFINE u == kids[c][i]
<1>1. /\ Quiet /\ type[c] = "closure" /\ i > 2 /\ i \in DOMAIN kids[c] /\ c \in Reachable
      /\ Len(stack) > 0
      /\ kids' = IF location[u] = 0 THEN [kids EXCEPT ![u] = <<Top>>] ELSE kids
      /\ stack' = [s \in DOMAIN stack |-> IF s = location[u] THEN Top ELSE stack[s]]
      /\ UNCHANGED <<open, location, global>>
  BY DEF SetUpvalue
<1>2. /\ phase = "off" /\ job.at # "intern" /\ JobOK' /\ IsJob(job)' /\ IInv
      /\ UNCHANGED <<objects, type, text, strings, collector>>
  BY <1>1, QuietStep DEF Inv
<1>3. u \in Allocated /\ type[u] = "upvalue"
  BY <1>1, <1>2, UpvalueOfClosure
<1>4. /\ Top \in Safe /\ stack \in Seq(Safe) /\ Len(stack) <= MaxStack
      /\ open \in [1..MaxStack -> Safe] /\ global \in Safe /\ OpenOK
  <2>1. Len(stack) \in Nat
    BY <1>2, SafeTop
  <2>2. Len(stack) >= 1
    BY <1>1, <2>1
  <2> QED BY <1>2, <2>2, SafeTop
<1>5. stack' \in Seq(Safe) /\ Len(stack') = Len(stack)
  BY <1>1, <1>4, SlotWritten
<1>6. OpenOK' /\ open' \in [1..MaxStack -> Safe] /\ global' \in Safe /\ Len(stack') <= MaxStack
  BY <1>1, <1>2, <1>4, <1>5 DEF OpenOK
<1> HIDE DEF u
<1>7. CASE location[u] = 0
  <2>1. kids' = [kids EXCEPT ![u] = <<Top>>] /\ <<Top>> \in Seq(Safe)
    BY <1>1, <1>4, <1>7
  <2>2. HeapOK'
    BY <1>2, <1>3, <1>5, <1>6, <2>1, OneObjectStep
  <2> QED BY <1>2, <2>2 DEF IInv
<1>8. CASE location[u] # 0
  <2>1. UNCHANGED <<heap, collector>>
    BY <1>1, <1>2, <1>8 DEF heap
  <2>2. HeapOK'
    BY <1>2, <1>5, <1>6, <2>1, MachineStep
  <2> QED BY <1>2, <2>2 DEF IInv
<1> QED BY <1>7, <1>8

(* What closeUpvalues does to the objects and to its list.                 *)
Closing(s) == {open[t] : t \in s..MaxStack} \ {Nil}

LEMMA Closings ==
  ASSUME Inv, phase = "off", NEW s \in 1..MaxStack, CloseFrom(s)
  PROVE  /\ \A u \in Closing(s) : u \in Allocated /\ type[u] = "upvalue" /\ u \in Address
         /\ \A u \in Address : u \notin Closing(s) => kids'[u] = kids[u]
         /\ \A u \in Closing(s) : kids'[u] \in Seq(Safe) /\ 1 \in DOMAIN kids'[u]
         /\ kids' \in [Address -> Seq(HeapValue)]
         /\ open' = [t \in 1..MaxStack |-> IF t >= s THEN Nil ELSE open[t]]
         /\ location' = [u \in Address |-> IF u \in Closing(s) THEN 0 ELSE location[u]]
<1>1. /\ HeapTypeOK /\ OpenOK /\ open \in [1..MaxStack -> Safe] /\ MaxStack \in Nat
      /\ Safe \subseteq HeapValue /\ Allocated \subseteq Address
  BY OffState, HeapAssumption DEF Inv, IInv, HeapOK
<1>2. ASSUME NEW u \in Closing(s) PROVE u \in Allocated /\ type[u] = "upvalue" /\ u \in Address
  <2>1. PICK t \in s..MaxStack : u = open[t] /\ u # Nil
    BY <1>2 DEF Closing
  <2>2. t \in 1..MaxStack
    BY <1>1, <2>1
  <2> QED BY <1>1, <2>1, <2>2 DEF OpenOK, Safe
<1>3. PICK shown :
        /\ \A u \in Closing(s) : shown[u] \in Seen(u)
        /\ kids' = [u \in Address |-> IF u \in Closing(s) THEN <<shown[u]>> ELSE kids[u]]
  BY DEF CloseFrom, Closing
<1>4. ASSUME NEW u \in Closing(s)
      PROVE  /\ kids'[u] = <<shown[u]>> /\ shown[u] \in Safe
             /\ kids'[u] \in Seq(Safe) /\ 1 \in DOMAIN kids'[u]
  <2>1. kids'[u] = <<shown[u]>>
    BY <1>2, <1>3
  <2>2. shown[u] \in Safe
    BY <1>2, <1>3, SeenIsSafe
  <2> QED BY <2>1, <2>2
<1>5. \A u \in Address : u \notin Closing(s) => kids'[u] = kids[u]
  BY <1>3
<1>6. kids' \in [Address -> Seq(HeapValue)]
  <2>1. ASSUME NEW u \in Address PROVE kids'[u] \in Seq(HeapValue)
    <3>1. CASE u \in Closing(s)
      <4>1. shown[u] \in HeapValue /\ kids'[u] = <<shown[u]>>
        BY <1>1, <1>4, <3>1
      <4> QED BY <4>1
    <3>2. CASE u \notin Closing(s)
      BY <1>1, <1>5, <3>2 DEF HeapTypeOK
    <3> QED BY <3>1, <3>2
  <2>2. kids' = [u \in Address |-> kids'[u]]
    BY <1>3
  <2> QED BY <2>1, <2>2
<1>7. /\ open' = [t \in 1..MaxStack |-> IF t >= s THEN Nil ELSE open[t]]
      /\ location' = [u \in Address |-> IF u \in Closing(s) THEN 0 ELSE location[u]]
  BY DEF CloseFrom, Closing
<1> QED BY <1>2, <1>4, <1>5, <1>6, <1>7

LEMMA CloseFromPreservesIInv ==
  ASSUME Inv, Quiet, NEW s \in 1..MaxStack, CloseFrom(s),
         stack' \in Seq(Safe), Len(stack') <= MaxStack, global' = global
  PROVE  IInv'
<1>1. /\ phase = "off" /\ job.at # "intern" /\ JobOK' /\ IsJob(job)' /\ IInv
      /\ UNCHANGED <<objects, type, text, strings, collector>>
  BY QuietStep DEF Inv
<1>2. /\ HeapTypeOK /\ OpenOK /\ InstancesOK /\ open \in [1..MaxStack -> Safe]
      /\ global \in Safe /\ \A o \in Allocated : kids[o] \in Seq(Safe)
      /\ Nil \in Safe /\ Allocated \subseteq Address
  BY <1>1, OffState DEF IInv, HeapOK, Safe
<1>3. /\ \A u \in Closing(s) : u \in Allocated /\ type[u] = "upvalue" /\ u \in Address
      /\ \A u \in Address : u \notin Closing(s) => kids'[u] = kids[u]
      /\ \A u \in Closing(s) : kids'[u] \in Seq(Safe)
      /\ kids' \in [Address -> Seq(HeapValue)]
      /\ open' = [t \in 1..MaxStack |-> IF t >= s THEN Nil ELSE open[t]]
  BY <1>1, Closings
<1>4. \A o \in Allocated : kids'[o] \in Seq(Safe)
  BY <1>2, <1>3
<1>5. \A o \in Allocated : type[o] = "instance" =>
        1 \in DOMAIN kids'[o] /\ kids'[o][1] = kids[o][1]
  <2>1. ASSUME NEW o \in Allocated, type[o] = "instance" PROVE kids'[o] = kids[o]
    BY <1>2, <1>3, <2>1
  <2> QED BY <1>2, <2>1 DEF InstancesOK
<1>6. open' \in [1..MaxStack -> Safe] /\ OpenOK'
  <2>1. \A t \in 1..MaxStack : open'[t] = Nil \/ open'[t] = open[t]
    BY <1>3
  <2>2. open' \in [1..MaxStack -> Safe]
    BY <1>2, <1>3
  <2> QED BY <1>1, <1>2, <2>1, <2>2 DEF OpenOK
<1>7. InternTableOK' /\ strings' \subseteq Address
  <2>1. Allocated' = Allocated /\ phase' = "off"
    BY <1>1 DEF Allocated, collector
  <2> QED BY <1>1, <1>2, <2>1, InternKept DEF HeapTypeOK
<1>8. HeapOK'
  BY <1>1, <1>2, <1>3, <1>4, <1>5, <1>6, <1>7, SameObjectsStep
<1> QED BY <1>1, <1>8 DEF IInv

LEMMA CloseUpvaluePreservesIInv == ASSUME Inv, CloseUpvalue PROVE IInv'
<1>1. Quiet /\ Len(stack) > 0 /\ CloseFrom(Len(stack)) /\ stack' = Drop(1) /\ global' = global
  BY DEF CloseUpvalue
<1>2. IInv /\ phase = "off"
  BY <1>1, QuietStep DEF Inv
<1>3. Len(stack) \in 1..MaxStack /\ 1 \in 0..Len(stack)
  <2>1. Len(stack) \in Nat /\ Len(stack) <= MaxStack /\ MaxStack \in Nat
    BY <1>2, SafeTop
  <2> QED BY <1>1, <2>1
<1>4. stack' \in Seq(Safe) /\ Len(stack') <= MaxStack
  BY <1>1, <1>2, <1>3, Dropped
<1> QED BY <1>1, <1>3, <1>4, CloseFromPreservesIInv

LEMMA ReturnFromPreservesIInv ==
  ASSUME Inv, NEW s \in 1..MaxStack, ReturnFrom(s)
  PROVE  IInv' /\ s < Len(stack) /\ Len(stack) \in Nat /\ Len(stack') = s
<1>1. /\ Quiet /\ Temporaries(1) /\ s < Len(stack) /\ CloseFrom(s) /\ global' = global
      /\ stack' = Append(SubSeq(stack, 1, s - 1), Top)
  BY DEF ReturnFrom
<1>2. IInv /\ phase = "off"
  BY <1>1, QuietStep DEF Inv
<1>3. /\ Len(stack) \in Nat /\ Len(stack) <= MaxStack /\ MaxStack \in Nat
      /\ stack \in Seq(Safe)
  BY <1>2, SafeTop
<1>4. Len(stack) >= 1 /\ s - 1 \in 0..Len(stack)
  BY <1>1, <1>3
<1>5. Top \in Safe
  BY <1>2, <1>4, SafeTop
<1>6. SubSeq(stack, 1, s - 1) \in Seq(Safe) /\ Len(SubSeq(stack, 1, s - 1)) = s - 1
  BY <1>3, <1>4, PrefixOfSeq
<1>7. stack' \in Seq(Safe) /\ Len(stack') = s - 1 + 1
  BY <1>1, <1>5, <1>6, AppendToSeq
<1>8. Len(stack') = s /\ Len(stack') <= MaxStack
  BY <1>1, <1>3, <1>7
<1>9. IInv'
  BY <1>1, <1>7, <1>8, CloseFromPreservesIInv
<1> QED BY <1>1, <1>3, <1>8, <1>9

(* A collection keeps what it finds alive.                                 *)
LEMMA CollectKeepsLive ==
  ASSUME IInv, Collect
  PROVE  \A o \in Live' : o \in Live /\ type'[o] = type[o] /\ kids'[o] = kids[o]
<1>1. /\ IInv' /\ HeapTypeOK /\ HeapTypeOK' /\ CollectorOK /\ CollectorOK'
      /\ Reachable \subseteq Allocated /\ Live' \subseteq Allocated'
      /\ Live \subseteq Allocated
  <2>1. IInv'
    BY CollectPreservesIInv
  <2> QED BY <2>1, ReachableLives DEF IInv, HeapOK, ReferencesOK
<1>2. ASSUME UNCHANGED <<kids, type, stack, open, global>>
      PROVE  Reachable' = Reachable /\ Allocated' = Allocated
  BY <1>1, <1>2, ReachableKept DEF Allocated
<1>3. CASE StartCollection \/ \E o \in Address : Blacken(o)
  <2>1. UNCHANGED <<kids, type, stack, open, global>> /\ phase # "sweep" /\ phase' # "sweep"
    BY <1>3 DEF StartCollection, Blacken, heap, machine
  <2> QED BY <1>2, <2>1 DEF Live
<1>4. CASE RemoveWhite
  <2>1. UNCHANGED <<kids, type, stack, open, global>> /\ phase # "sweep"
    BY <1>4 DEF RemoveWhite, heap, machine
  <2> QED BY <1>1, <1>2, <2>1 DEF Live
<1>5. CASE Keep
  <2>1. UNCHANGED <<kids, type, stack, open, global, phase>>
    BY <1>5 DEF Keep, heap, machine
  <2> QED BY <1>2, <2>1 DEF Live
<1>6. CASE EndCollection
  <2>1. UNCHANGED <<kids, type, stack, open, global>> /\ phase = "sweep" /\ phase' = "off"
    BY <1>6 DEF EndCollection, heap, machine
  <2>2. Allocated' = Reachable'
    BY <1>6, EndCollectionPreservesIInv
  <2> QED BY <1>2, <2>1, <2>2 DEF Live
<1>7. CASE Free
  <2>1. /\ phase = "sweep" /\ phase' = "sweep" /\ kept < Len(objects)
        /\ UNCHANGED <<marked, kept>>
        /\ objects' = [i \in 1..Len(objects) - 1 |->
                         IF i <= kept THEN objects[i] ELSE objects[i + 1]]
    BY <1>7 DEF Free, collector
  <2>2. PICK o : /\ type' = [type EXCEPT ![o] = "free"]
                 /\ kids' = [kids EXCEPT ![o] = << >>]
    BY <1>7 DEF Free
  <2>3. kept \in Nat /\ Len(objects) \in Nat
    BY <1>1 DEF HeapTypeOK
  <2>4. \A i \in 1..kept : objects'[i] = objects[i]
    BY <1>1, <2>1, <2>3, Unlinked
  <2>5. Reachable' = Reachable
    <3>1. Passed' = Passed
      BY <2>1, <2>4 DEF Passed
    <3> QED BY <1>1, <2>1, <3>1 DEF CollectorOK
  <2>6. \A p \in Allocated' : p \in Address /\ p # o
    BY <1>1, <2>2 DEF Allocated, HeapTypeOK
  <2> QED BY <1>1, <2>1, <2>2, <2>5, <2>6 DEF Live, HeapTypeOK
<1> QED BY <1>3, <1>4, <1>5, <1>6, <1>7 DEF Collect

LEMMA CollectKeepsUpvalues == ASSUME IInv, UpvaluesOK, Collect PROVE UpvaluesOK'
<1>1. \A o \in Live' : o \in Live /\ type'[o] = type[o] /\ kids'[o] = kids[o]
  BY CollectKeepsLive
<1>2. ASSUME NEW c \in Live', type'[c] = "closure" PROVE OnlyUpvalues(kids[c])'
  <2>1. c \in Live /\ type[c] = "closure" /\ kids'[c] = kids[c]
    BY <1>1, <1>2
  <2>2. ASSUME NEW i \in DOMAIN kids[c], i > 2
        PROVE  kids[c][i] # Nil /\ type'[kids[c][i]] = "upvalue"
    <3>1. Is(kids[c][i], "upvalue") /\ kids[c][i] \in Kids(c)'
      BY <2>1, <2>2 DEF UpvaluesOK, OnlyUpvalues, Is, Kids, Elements
    <3>2. kids[c][i] \in Live'
      BY <1>2, <3>1, CollectPreservesIInv DEF IInv, HeapOK, ReferencesOK, Closed
    <3> QED BY <1>1, <2>1, <3>1, <3>2 DEF Is
  <2> QED BY <2>1, <2>2 DEF OnlyUpvalues, Is
<1> QED BY <1>1, <1>2 DEF UpvaluesOK

(* The running program frees nothing, so upvalues stay upvalues; what is   *)
(* left to look at are the closures and upvalues it made or wrote to.      *)
LEMMA UpvaluesKept ==
  ASSUME IInv, UpvaluesOK, phase = "off", phase' = "off",
         \A o \in Allocated : type'[o] = type[o],
         \A o \in Allocated' :
           \/ o \in Allocated /\ kids'[o] = kids[o]
           \/ type'[o] = "upvalue" /\ 1 \in DOMAIN kids'[o]
           \/ type'[o] = "closure" /\ OnlyUpvalues(kids[o])'
           \/ type'[o] \notin {"upvalue", "closure"}
  PROVE  UpvaluesOK'
<1>1. Live' = Allocated' /\ Live = Allocated /\ \A o \in Allocated : kids[o] \in Seq(Safe)
  BY OffState DEF Live
<1>2. ASSUME NEW o \in Allocated, kids'[o] = kids[o], type'[o] = "closure"
      PROVE  OnlyUpvalues(kids[o])'
  <2>1. OnlyUpvalues(kids[o])
    BY <1>1, <1>2 DEF UpvaluesOK
  <2>2. ASSUME NEW i \in DOMAIN kids[o], i > 2
        PROVE  kids[o][i] # Nil /\ type'[kids[o][i]] = "upvalue"
    <3>1. Is(kids[o][i], "upvalue") /\ kids[o][i] \in Safe
      BY <1>1, <2>1, <2>2 DEF OnlyUpvalues
    <3> QED BY <3>1 DEF Is, Safe
  <2> QED BY <1>2, <2>2 DEF OnlyUpvalues, Is
<1> QED BY <1>1, <1>2 DEF UpvaluesOK

(* A step that makes and changes no closure and no upvalue.                *)
LEMMA OthersOnly ==
  ASSUME IInv, UpvaluesOK, phase = "off", phase' = "off", NEW o \in Address,
         \/ UNCHANGED type /\ type[o] \notin {"closure", "upvalue"}
         \/ \E t \in ObjType : /\ type[o] = "free" /\ t \notin {"closure", "upvalue"}
                               /\ type' = [type EXCEPT ![o] = t],
         \A p \in Address : p # o => kids'[p] = kids[p]
  PROVE  UpvaluesOK'
<1>1. HeapTypeOK
  BY DEF IInv, HeapOK
<1>2. /\ type'[o] \notin {"closure", "upvalue"}
      /\ \A p \in Address : p # o => type'[p] = type[p]
  BY <1>1 DEF HeapTypeOK
<1>3. \A p \in Allocated : type'[p] = type[p]
  BY <1>2 DEF Allocated
<1>4. \A p \in Allocated' : p = o \/ (p \in Allocated /\ kids'[p] = kids[p])
  BY <1>2 DEF Allocated
<1> QED BY <1>2, <1>3, <1>4, UpvaluesKept

LEMMA SameKids ==
  ASSUME IInv, UpvaluesOK, phase = "off", phase' = "off", UNCHANGED <<type, kids>>
  PROVE  UpvaluesOK'
BY UpvaluesKept DEF Allocated

(* Steps that write to an object of another kind.                          *)
LEMMA StoresKeepUpvalues ==
  ASSUME Inv, NEW i, FinishAppend \/ InstanceFields \/ Store(i)
  PROVE  UpvaluesOK'
<1>1. IInv /\ UpvaluesOK /\ JobOK /\ HeapTypeOK
  BY DEF Inv, IInv, HeapOK
<1>2. Len(stack) \in Nat
  BY <1>1, TopOfStack
<1>3. CASE FinishAppend
  <2>1. /\ phase = "off" /\ UNCHANGED <<type, collector>> /\ job.at = "append"
        /\ kids' = [kids EXCEPT ![Below] = Append(@, job.obj)]
    BY <1>3 DEF FinishAppend, At
  <2>2. Len(stack) >= 2 /\ Below # Nil /\ type[Below] \notin {"closure", "upvalue"}
    BY <1>1, <2>1 DEF JobOK, IsContainer
  <2>3. Below \in Address
    BY <1>1, <2>2, TopOfStack DEF HeapValue
  <2>4. \A p \in Address : p # Below => kids'[p] = kids[p]
    BY <1>1, <2>1 DEF HeapTypeOK
  <2> QED BY <1>1, <2>1, <2>2, <2>3, <2>4, OthersOnly DEF collector
<1>4. CASE InstanceFields
  <2>1. /\ phase = "off" /\ UNCHANGED <<type, collector>> /\ job.at = "fields"
        /\ kids' = [kids EXCEPT ![job.obj] = Append(@, Below)]
    BY <1>4 DEF InstanceFields, At
  <2>2. Len(stack) >= 3 /\ Top # Nil /\ type[Top] = "instance" /\ job.obj = Top
    BY <1>1, <2>1 DEF JobOK, Is
  <2>3. Len(stack) >= 1
    BY <1>2, <2>2
  <2>4. Top \in Address
    BY <1>1, <2>2, <2>3, TopOfStack DEF HeapValue
  <2>5. \A p \in Address : p # Top => kids'[p] = kids[p]
    BY <1>1, <2>1, <2>2 DEF HeapTypeOK
  <2> QED BY <1>1, <2>1, <2>2, <2>4, <2>5, OthersOnly DEF collector
<1>5. CASE Store(i)
  <2>1. /\ phase = "off" /\ UNCHANGED <<type, collector>> /\ Len(stack) >= 2 /\ Below # Nil
        /\ kids' = [kids EXCEPT ![Below] = [@ EXCEPT ![i] = Top]]
        /\ type[Below] \notin {"closure", "upvalue"}
    BY <1>5 DEF Store, Quiet, Idle, Temporaries
  <2>2. Below \in Address
    BY <1>1, <2>1, TopOfStack DEF HeapValue
  <2>3. \A p \in Address : p # Below => kids'[p] = kids[p]
    BY <1>1, <2>1 DEF HeapTypeOK
  <2> QED BY <1>1, <2>1, <2>2, <2>3, OthersOnly DEF collector
<1> QED BY <1>3, <1>4, <1>5

(* Steps that make an object of another kind.                              *)
LEMMA OtherObjectsKeepUpvalues ==
  ASSUME Inv, NEW o \in Address, NEW t \in {"list", "function"},
         \/ NewString(o) \/ NewEmpty(o, t) \/ NewStruct(o) \/ NewInstance(o) \/ NewArray(o)
         \/ NewBound(o)
  PROVE  UpvaluesOK'
<1>1. IInv /\ UpvaluesOK /\ HeapTypeOK
  BY DEF Inv, IInv, HeapOK
<1>2. PICK u, refs :
        /\ u \in {"string", "list", "function", "struct", "instance", "array", "bound"}
        /\ phase = "off" /\ UNCHANGED collector /\ NewObject(o, u, refs)
  <2>1. CASE NewString(o)
    BY <2>1 DEF NewString, At
  <2>2. CASE NewEmpty(o, t)
    BY <2>2 DEF NewEmpty, At
  <2>3. CASE NewStruct(o)
    BY <2>3 DEF NewStruct, At
  <2>4. CASE NewInstance(o)
    BY <2>4 DEF NewInstance, At
  <2>5. CASE NewArray(o)
    BY <2>5 DEF NewArray, At
  <2>6. CASE NewBound(o)
    BY <2>6 DEF NewBound, At
  <2> QED BY <2>1, <2>2, <2>3, <2>4, <2>5, <2>6
<1>3. /\ type[o] = "free" /\ type' = [type EXCEPT ![o] = u]
      /\ u \in ObjType /\ u \notin {"closure", "upvalue"}
      /\ phase' = "off" /\ \A p \in Address : p # o => kids'[p] = kids[p]
  BY <1>1, <1>2 DEF NewObject, HeapTypeOK, ObjType, collector
<1> QED BY <1>1, <1>2, <1>3, OthersOnly

(* A closure begins with two references; a method learns its owner.        *)
LEMMA NewClosureKeepsUpvalues ==
  ASSUME Inv, NEW o \in Address, NewClosure(o)
  PROVE  UpvaluesOK'
<1>1. /\ IInv /\ UpvaluesOK /\ HeapTypeOK /\ phase = "off" /\ phase' = "off"
      /\ type[o] = "free" /\ type' = [type EXCEPT ![o] = "closure"]
      /\ kids' = [kids EXCEPT ![o] = <<Top, Nil>>]
  BY DEF NewClosure, At, NewObject, Inv, IInv, HeapOK, collector
<1>2. kids'[o] = <<Top, Nil>>
  BY <1>1 DEF HeapTypeOK
<1>3. OnlyUpvalues(kids[o])'
  BY <1>2 DEF OnlyUpvalues
<1>4. type'[o] = "closure" /\ \A p \in Address : p # o => type'[p] = type[p] /\ kids'[p] = kids[p]
  BY <1>1 DEF HeapTypeOK
<1>5. /\ \A p \in Allocated : type'[p] = type[p]
      /\ \A p \in Allocated' : p = o \/ (p \in Allocated /\ kids'[p] = kids[p])
  BY <1>1, <1>4 DEF Allocated
<1> QED BY <1>1, <1>3, <1>4, <1>5, UpvaluesKept

LEMMA BeginAppendKeepsUpvalues == ASSUME Inv, BeginAppend PROVE UpvaluesOK'
<1>1. /\ IInv /\ UpvaluesOK /\ HeapTypeOK /\ phase = "off" /\ phase' = "off"
      /\ UNCHANGED type /\ Len(stack) >= 2 /\ Top # Nil
  BY DEF BeginAppend, Idle, Temporaries, Inv, IInv, HeapOK, collector
<1>2. CASE kids' = kids
  BY <1>1, <1>2, SameKids
<1>3. CASE /\ type[Top] = "closure"
           /\ kids' = [kids EXCEPT ![Top] = [@ EXCEPT ![2] = Below]]
  <2>1. Top \in Allocated /\ kids[Top] \in Seq(Safe) /\ Live = Allocated
    <3>1. Len(stack) >= 1
      BY <1>1, TopOfStack
    <3> QED BY <1>1, <3>1, SafeTop, OffState
  <2>2. /\ kids'[Top] = [kids[Top] EXCEPT ![2] = Below]
        /\ \A p \in Address : p # Top => kids'[p] = kids[p]
    BY <1>1, <1>3, <2>1 DEF HeapTypeOK, Allocated
  <2>3. /\ DOMAIN kids'[Top] = DOMAIN kids[Top]
        /\ \A k \in DOMAIN kids[Top] : k > 2 => kids'[Top][k] = kids[Top][k]
    BY <2>1, <2>2
  <2>4. OnlyUpvalues(kids[Top])
    BY <1>1, <1>3, <2>1 DEF UpvaluesOK
  <2> DEFINE c == Top
  <2>5. /\ c = Top /\ DOMAIN kids'[c] = DOMAIN kids[c] /\ OnlyUpvalues(kids[c])
        /\ \A k \in DOMAIN kids[c] : k > 2 => kids'[c][k] = kids[c][k]
    BY <2>3, <2>4
  <2>6. ASSUME NEW k \in DOMAIN kids'[Top], k > 2
        PROVE  kids'[Top][k] # Nil /\ type'[kids'[Top][k]] = "upvalue"
    BY <1>1, <2>3, <2>4, <2>6 DEF OnlyUpvalues, Is
  <2>7. \A p \in Allocated' :
          \/ p \in Allocated /\ kids'[p] = kids[p]
          \/ type'[p] = "closure" /\ OnlyUpvalues(kids[p])'
    <3>1. Allocated' = Allocated /\ \A p \in Allocated : p \in Address
      BY <1>1 DEF Allocated
    <3>2. ASSUME NEW p \in Allocated', p = Top PROVE OnlyUpvalues(kids[p])'
      BY <2>6, <3>2 DEF OnlyUpvalues, Is
    <3> QED BY <1>1, <1>3, <2>2, <3>1, <3>2
  <2> QED BY <1>1, <2>7, UpvaluesKept
<1> QED BY <1>2, <1>3 DEF BeginAppend

(* captureUpvalue puts an upvalue behind those the closure has.            *)
LEMMA OneMore ==
  ASSUME NEW S, NEW refs \in Seq(S), NEW u \in S
  PROVE  \A i \in DOMAIN Append(refs, u) :
           Append(refs, u)[i] = u \/ (i \in DOMAIN refs /\ Append(refs, u)[i] = refs[i])
<1>1. /\ Len(Append(refs, u)) = Len(refs) + 1 /\ Len(refs) \in Nat
      /\ Append(refs, u) \in Seq(S)
      /\ \A i \in 1..Len(refs) : Append(refs, u)[i] = refs[i]
      /\ Append(refs, u)[Len(refs) + 1] = u
  BY AppendToSeq, ElementsOfSeq
<1>2. DOMAIN Append(refs, u) = 1..Len(refs) + 1 /\ DOMAIN refs = 1..Len(refs)
  BY <1>1, ElementsOfSeq
<1> QED BY <1>1, <1>2

LEMMA BeginCaptureKeepsUpvalues ==
  ASSUME Inv, NEW s \in 1..MaxStack, BeginCapture(s)
  PROVE  UpvaluesOK'
<1>1. /\ IInv /\ UpvaluesOK /\ HeapTypeOK /\ OpenOK /\ phase = "off" /\ phase' = "off"
      /\ UNCHANGED type /\ Len(stack) > 0 /\ Is(Top, "closure")
  BY DEF BeginCapture, Idle, Inv, IInv, HeapOK, collector
<1>2. CASE open[s] = Nil
  BY <1>1, <1>2, SameKids DEF BeginCapture
<1>3. CASE open[s] # Nil
  <2> PICK c : c = Top
    OBVIOUS
  <2> PICK u : u = open[s]
    OBVIOUS
  <2>1. c \in Allocated /\ kids[c] \in Seq(Safe) /\ Live = Allocated /\ u \in Safe
    <3>1. Len(stack) >= 1
      BY <1>1, TopOfStack
    <3> QED BY <1>1, <3>1, SafeTop, OffState DEF Is
  <2>2. type[u] = "upvalue" /\ u # Nil /\ type[c] = "closure"
    BY <1>1, <1>3 DEF OpenOK, Is
  <2>3. kids' = [kids EXCEPT ![c] = Append(@, u)]
    BY <1>3 DEF BeginCapture
  <2>4. kids'[c] = Append(kids[c], u) /\ \A p \in Address : p # c => kids'[p] = kids[p]
    BY <1>1, <2>1, <2>3 DEF HeapTypeOK, Allocated
  <2>5. OnlyUpvalues(kids[c])
    BY <1>1, <2>1, <2>2 DEF UpvaluesOK
  <2>6. ASSUME NEW i \in DOMAIN kids'[c], i > 2
        PROVE  kids'[c][i] # Nil /\ type'[kids'[c][i]] = "upvalue"
    <3>1. kids'[c][i] = u \/ (i \in DOMAIN kids[c] /\ kids'[c][i] = kids[c][i])
      BY <2>1, <2>4, <2>6, OneMore
    <3> QED BY <1>1, <2>2, <2>5, <2>6, <3>1 DEF OnlyUpvalues, Is
  <2>7. OnlyUpvalues(kids[c])'
    BY <2>6 DEF OnlyUpvalues, Is
  <2>8. /\ Allocated' = Allocated /\ type'[c] = "closure"
        /\ \A p \in Allocated : p = c \/ kids'[p] = kids[p]
    BY <1>1, <2>2, <2>4 DEF Allocated
  <2> QED BY <1>1, <2>7, <2>8, UpvaluesKept
<1> QED BY <1>2, <1>3

LEMMA NewUpvalueKeepsUpvalues ==
  ASSUME Inv, NEW o \in Address, NewUpvalue(o)
  PROVE  UpvaluesOK'
<1> PICK c : c = Top
  OBVIOUS
<1>1. /\ IInv /\ UpvaluesOK /\ HeapTypeOK /\ JobOK /\ phase = "off" /\ phase' = "off"
      /\ job.at = "upvalue" /\ type[o] = "free" /\ type' = [type EXCEPT ![o] = "upvalue"]
      /\ kids' = [kids EXCEPT ![o] = <<Nil>>, ![c] = Append(@, o)]
  BY DEF NewUpvalue, At, Inv, IInv, HeapOK, collector
<1>2. Len(stack) >= 1 /\ c # Nil /\ type[c] = "closure"
  BY <1>1 DEF JobOK, Is
<1>3. /\ c \in Allocated /\ c \in Address /\ kids[c] \in Seq(HeapValue) /\ Live = Allocated
  BY <1>1, <1>2, SafeTop, OffState DEF HeapTypeOK
<1>4. c # o
  BY <1>1, <1>2
<1>5. /\ kids'[o] = <<Nil>> /\ kids'[c] = Append(kids[c], o)
      /\ \A p \in Address : p # o /\ p # c => kids'[p] = kids[p]
  BY <1>1, <1>3, <1>4 DEF HeapTypeOK
<1>6. type'[o] = "upvalue" /\ \A p \in Address : p # o => type'[p] = type[p]
  BY <1>1 DEF HeapTypeOK
<1>7. OnlyUpvalues(kids[c])
  BY <1>1, <1>2, <1>3 DEF UpvaluesOK
<1>8. ASSUME NEW i \in DOMAIN kids'[c], i > 2
      PROVE  kids'[c][i] # Nil /\ type'[kids'[c][i]] = "upvalue"
  <2>1. kids'[c][i] = o \/ (i \in DOMAIN kids[c] /\ kids'[c][i] = kids[c][i])
    <3>1. o \in HeapValue
      BY DEF HeapValue
    <3> QED BY <1>3, <1>5, <1>8, <3>1, OneMore
  <2>2. CASE kids'[c][i] = o
    BY <1>6, <2>2, HeapAssumption
  <2>3. CASE i \in DOMAIN kids[c] /\ kids'[c][i] = kids[c][i]
    <3>1. kids[c][i] \in HeapValue /\ kids[c][i] # Nil /\ type[kids[c][i]] = "upvalue"
      BY <1>3, <1>7, <1>8, <2>3 DEF OnlyUpvalues, Is
    <3>2. kids[c][i] \in Address /\ kids[c][i] # o
      BY <1>1, <3>1 DEF HeapValue
    <3> QED BY <1>6, <2>3, <3>1, <3>2
  <2> QED BY <2>1, <2>2, <2>3
<1>9. OnlyUpvalues(kids[c])'
  BY <1>8 DEF OnlyUpvalues, Is
<1>10. /\ \A p \in Allocated : type'[p] = type[p]
       /\ \A p \in Allocated' : p = o \/ p = c \/ (p \in Allocated /\ kids'[p] = kids[p])
  BY <1>1, <1>5, <1>6 DEF Allocated
<1>11. type'[c] = "closure" /\ 1 \in DOMAIN kids'[o]
  BY <1>2, <1>3, <1>4, <1>5, <1>6
<1> QED BY <1>1, <1>6, <1>9, <1>10, <1>11, UpvaluesKept

(* Writing or closing an upvalue leaves it one reference.                  *)
LEMMA WrittenUpvalues ==
  ASSUME Inv, NEW i, NEW s, NEW c,
         CloseUpvalue \/ (s \in 1..MaxStack /\ ReturnFrom(s)) \/ SetUpvalue(c, i)
  PROVE  UpvaluesOK'
<1>1. /\ IInv /\ UpvaluesOK /\ HeapTypeOK /\ phase = "off" /\ phase' = "off"
      /\ UNCHANGED type /\ Allocated' = Allocated /\ \A o \in Allocated : o \in Address
  <2>1. Quiet
    BY DEF CloseUpvalue, ReturnFrom, SetUpvalue
  <2> QED BY <2>1 DEF Quiet, Idle, Inv, IInv, HeapOK, collector, Allocated
<1>2. ASSUME NEW t \in 1..MaxStack, CloseFrom(t) PROVE UpvaluesOK'
  <2>1. /\ \A u \in Closing(t) : type[u] = "upvalue" /\ 1 \in DOMAIN kids'[u]
        /\ \A u \in Address : u \notin Closing(t) => kids'[u] = kids[u]
    BY <1>1, <1>2, Closings
  <2> QED BY <1>1, <2>1, UpvaluesKept
<1>3. CASE CloseUpvalue
  <2>1. Len(stack) \in 1..MaxStack
    BY <1>1, <1>3, TopOfStack DEF CloseUpvalue
  <2> QED BY <1>2, <1>3, <2>1 DEF CloseUpvalue
<1>4. CASE s \in 1..MaxStack /\ ReturnFrom(s)
  BY <1>2, <1>4 DEF ReturnFrom
<1>5. CASE SetUpvalue(c, i)
  <2> DEFINE u == kids[c][i]
  <2>1. u \in Allocated /\ type[u] = "upvalue"
    BY <1>1, <1>5, UpvalueOfClosure DEF SetUpvalue
  <2>2. kids' = IF location[u] = 0 THEN [kids EXCEPT ![u] = <<Top>>] ELSE kids
    BY <1>5 DEF SetUpvalue
  <2> HIDE DEF u
  <2>3. /\ kids'[u] = <<Top>> \/ kids'[u] = kids[u]
        /\ \A p \in Address : p # u => kids'[p] = kids[p]
    BY <1>1, <2>1, <2>2 DEF HeapTypeOK
  <2>4. 1 \in DOMAIN <<Top>>
    OBVIOUS
  <2>5. \A p \in Allocated' :
          \/ p \in Allocated /\ kids'[p] = kids[p]
          \/ type'[p] = "upvalue" /\ 1 \in DOMAIN kids'[p]
    BY <1>1, <2>1, <2>3, <2>4
  <2> QED BY <1>1, <2>5, UpvaluesKept
<1> QED BY <1>3, <1>4, <1>5

----------------------------------------------------------------------------
(* The slots of the stack.                                                 *)

LEMMA Heights ==
  ASSUME IInv, NEW n \in 0..Len(stack), NEW x
  PROVE  /\ Len(stack) \in Nat /\ Len(Drop(n)) = Len(stack) - n
         /\ Len(Append(Drop(n), x)) = Len(stack) - n + 1
         /\ Len(Append(stack, x)) = Len(stack) + 1
<1> DEFINE S == HeapValue \cup {x}
<1>1. stack \in Seq(S) /\ Len(stack) \in Nat /\ Len(stack) - n \in 0..Len(stack) /\ x \in S
  <2>1. stack \in Seq(HeapValue) /\ Len(stack) \in Nat
    BY DEF IInv, HeapOK, HeapTypeOK
  <2> QED BY <2>1
<1> HIDE DEF S
<1>2. Drop(n) \in Seq(S) /\ Len(Drop(n)) = Len(stack) - n
  BY <1>1, PrefixOfSeq DEF Drop
<1>3. /\ Len(Append(Drop(n), x)) = Len(Drop(n)) + 1
      /\ Len(Append(stack, x)) = Len(stack) + 1
  BY <1>1, <1>2, AppendToSeq
<1> QED BY <1>1, <1>2, <1>3

(* The job gives up no more of the stack than its operands.                *)
OperandsOnly ==
  /\ Len(stack') \in Int /\ Operands' \in Int
  /\ Len(stack) - Operands <= Len(stack') - Operands'

(* A step that takes no more than the operands of the job.                 *)
LEMMA OperandsUsed ==
  ASSUME Inv, UNCHANGED <<open, location>>, job'.at # "upvalue",
         OperandsOnly
  PROVE  SlotsOK'
<1>1. Len(stack) \in Nat /\ Operands \in Nat
  BY OperandsAreCounted DEF Inv, IInv, HeapOK, HeapTypeOK
<1>2. ASSUME NEW s \in 1..MaxStack, open[s] # Nil PROVE s + Operands' <= Len(stack')
  <2>1. s + Operands <= Len(stack) /\ s \in Int
    BY <1>2 DEF Inv, SlotsOK
  <2> QED BY <1>1, <2>1 DEF OperandsOnly
<1> QED BY <1>2 DEF Inv, SlotsOK

(* A step that takes no more than temporaries.                             *)
LEMMA TemporariesUsed ==
  ASSUME ~ Outlived, Inv, job.at = "none", UNCHANGED <<open, location>>, job'.at # "upvalue",
         NEW n \in Nat, Temporaries(n),
         NEW h \in Int, h = Len(stack'), NEW k \in Int, k = Operands', Len(stack) - n <= h - k
  PROVE  SlotsOK'
<1>1. /\ Len(stack) \in Nat /\ MaxStack \in Nat
      /\ \A s \in Len(stack) - n + 1..Len(stack) : open[s] = Nil
  BY HeapAssumption DEF Inv, IInv, HeapOK, HeapTypeOK, Temporaries
<1>3. Operands = 0
  BY DEF Operands
<1>2. ASSUME NEW s \in 1..MaxStack, open[s] # Nil PROVE s + k <= h
  <2>1. s + 0 <= Len(stack) /\ s \in Int
    BY <1>1, <1>2, <1>3 DEF Inv, SlotsOK
  <2>2. ~ (s >= Len(stack) - n + 1)
    BY <1>1, <1>2, <2>1
  <2> QED BY <1>1, <2>1, <2>2
<1> QED BY <1>2 DEF Inv, SlotsOK

(* How high the string that Deliver takes in makes the stack st.           *)
LEMMA DeliveredHeight ==
  ASSUME NEW st \in Seq(HeapValue), NEW s, NEW then \in {"push", "replace", "append"},
         then = "replace" => Len(st) >= 2, Deliver(s, st, then)
  PROVE  /\ job'.at # "upvalue" /\ Len(stack') \in Nat
         /\ then = "push" => Len(stack') = Len(st) + 1 /\ Operands' = 0
         /\ then = "replace" => Len(stack') = Len(st) - 1 /\ Operands' = 0
         /\ then = "append" => Len(stack') = Len(st) + 1 /\ Operands' = 2
<1> DEFINE S == HeapValue \cup {s}
<1>1. st \in Seq(S) /\ s \in S /\ Len(st) \in Nat
  OBVIOUS
<1> HIDE DEF S
<1>2. Len(Append(st, s)) = Len(st) + 1
  BY <1>1, AppendToSeq
<1>3. CASE then = "push"
  <2>1. stack' = Append(st, s) /\ job' = NoJob
    BY <1>3 DEF Deliver, Return
  <2>2. Operands' = 0
    BY <2>1 DEF Operands, NoJob
  <2> QED BY <1>1, <1>2, <1>3, <2>1, <2>2 DEF NoJob
<1>4. CASE then = "append"
  <2>1. stack' = Append(st, s) /\ job' = [[NoJob EXCEPT !.obj = s] EXCEPT !.at = "append"]
    BY <1>4 DEF Deliver, Await
  <2>2. job'.at = "append"
    BY <2>1 DEF NoJob
  <2>3. Operands' = 2
    BY <2>2 DEF Operands
  <2> QED BY <1>1, <1>2, <1>4, <2>1, <2>2, <2>3
<1>5. CASE then = "replace"
  <2> DEFINE e == SubSeq(st, 1, Len(st) - 2)
  <2>1. stack' = Append(e, s) /\ job' = NoJob
    BY <1>5 DEF Deliver, Return
  <2>2. Operands' = 0
    BY <2>1 DEF Operands, NoJob
  <2>3. Len(st) - 2 \in 0..Len(st)
    BY <1>1, <1>5
  <2>4. e \in Seq(S) /\ Len(e) = Len(st) - 2
    BY <1>1, <2>3, PrefixOfSeq
  <2> HIDE DEF e
  <2>5. Len(stack') = Len(e) + 1
    BY <1>1, <2>1, <2>4, AppendToSeq
  <2> QED BY <1>1, <1>5, <2>1, <2>2, <2>4, <2>5 DEF NoJob
<1> QED BY <1>3, <1>4, <1>5

(* copyString and takeString.                                              *)
LEMMA CopyingKeepsSlots ==
  ASSUME ~ Outlived, Inv, NEW t, NEW then \in {"push", "append"}, NEW source,
         \/ BeginCopyString(t, then, source) \/ BeginConcatenate(t) \/ CopyChars
         \/ ConcatChars \/ Intern
  PROVE  SlotsOK'
<1>1. /\ IInv /\ JobOK /\ IsJob(job) /\ Len(stack) \in Nat /\ stack \in Seq(HeapValue)
  BY DEF Inv, IInv, HeapOK, HeapTypeOK
<1>2. CASE BeginCopyString(t, then, source)
  <2>1. job.at = "none" /\ UNCHANGED <<open, location>> /\ (then = "append" => Temporaries(1))
    BY <1>2 DEF BeginCopyString, Idle
  <2>2. Temporaries(0)
    BY <1>1 DEF Temporaries
  <2>3. CASE Interned(t) # {}
    <3>1. PICK s \in Interned(t) : Deliver(s, stack, then)
      BY <1>2, <2>3 DEF BeginCopyString
    <3>2. /\ job'.at # "upvalue" /\ Len(stack') = Len(stack) + 1
          /\ then = "push" => Operands' = 0
          /\ then = "append" => Operands' = 2
      BY <1>1, <3>1, DeliveredHeight
    <3>3. CASE then = "push"
      BY <1>1, <2>1, <2>2, <3>2, <3>3, TemporariesUsed
    <3>4. CASE then = "append"
      BY <1>1, <2>1, <3>2, <3>4, TemporariesUsed
    <3> QED BY <3>3, <3>4
  <2>4. CASE Interned(t) = {}
    <3>1. /\ job' = [[NoJob EXCEPT !.arg = t, !.then = then, !.held = source]
                       EXCEPT !.at = "copy chars"]
          /\ stack' = stack
      BY <1>2, <2>4 DEF BeginCopyString, Await
    <3>2. job'.at = "copy chars" /\ job'.then = then
      BY <3>1 DEF NoJob
    <3>3. CASE then = "push"
      <4>1. Operands' = 0
        BY <3>2, <3>3 DEF Operands, ToDeliver
      <4> QED BY <1>1, <2>1, <2>2, <3>1, <3>2, <4>1, TemporariesUsed
    <3>4. CASE then = "append"
      <4>1. Operands' = 1
        BY <3>2, <3>4 DEF Operands, ToDeliver
      <4> QED BY <1>1, <2>1, <3>1, <3>2, <3>4, <4>1, TemporariesUsed
    <3> QED BY <3>3, <3>4
  <2> QED BY <2>3, <2>4
<1>3. CASE BeginConcatenate(t)
  <2>1. /\ job.at = "none" /\ Temporaries(2) /\ UNCHANGED <<stack, open, location>>
        /\ job' = [[NoJob EXCEPT !.arg = t, !.then = "replace", !.held = {Top, Below}]
                     EXCEPT !.at = "concat chars"]
    BY <1>3 DEF BeginConcatenate, Idle, Await, machine
  <2>2. job'.at = "concat chars"
    BY <2>1 DEF NoJob
  <2>3. Operands' = 2
    BY <2>2 DEF Operands
  <2> QED BY <1>1, <2>1, <2>2, <2>3, TemporariesUsed
<1>4. CASE CopyChars
  <2>1. /\ job.at = "copy chars" /\ job'.at = "string" /\ job'.then = job.then
        /\ UNCHANGED <<stack, open, location>>
    BY <1>1, <1>4 DEF CopyChars, At, Await, IsJob, machine
  <2>2. Operands' = Operands
    BY <2>1 DEF Operands, ToDeliver
  <2>3. Operands \in Nat
    BY <1>1, OperandsAreCounted
  <2>4. Len(stack') = Len(stack)
    BY <2>1
  <2>5. OperandsOnly
    BY <1>1, <2>2, <2>3, <2>4 DEF OperandsOnly
  <2> QED BY <2>1, <2>5, OperandsUsed
<1>5. CASE ConcatChars
  <2>1. /\ job.at = "concat chars" /\ job.then = "replace" /\ Len(stack) >= 2
        /\ UNCHANGED <<open, location>>
    BY <1>1, <1>5 DEF ConcatChars, At, JobOK
  <2>2. Operands = 2
    BY <2>1 DEF Operands
  <2>3. CASE Interned(job.arg) # {}
    <3>1. PICK s \in Interned(job.arg) : Deliver(s, stack, "replace")
      BY <1>5, <2>3 DEF ConcatChars
    <3>2. job'.at # "upvalue" /\ Len(stack') = Len(stack) - 1 /\ Operands' = 0
      BY <1>1, <2>1, <3>1, DeliveredHeight
    <3>3. OperandsOnly
      BY <1>1, <2>2, <3>2 DEF OperandsOnly
    <3> QED BY <2>1, <3>2, <3>3, OperandsUsed
  <2>4. CASE Interned(job.arg) = {}
    <3>1. /\ stack' = stack /\ job'.at = "string" /\ job'.then = job.then
      BY <1>1, <1>5, <2>4 DEF ConcatChars, Await, IsJob
    <3>2. Operands' = 2
      BY <2>1, <3>1 DEF Operands, ToDeliver
    <3>3. OperandsOnly
      BY <1>1, <2>2, <3>1, <3>2 DEF OperandsOnly
    <3> QED BY <2>1, <3>1, <3>3, OperandsUsed
  <2> QED BY <2>3, <2>4
<1>6. CASE Intern
  <2>1. /\ job.at = "intern" /\ UNCHANGED <<open, location>>
        /\ Deliver(job.obj, Drop(1), job.then)
    BY <1>6 DEF Intern, At
  <2>2. /\ job.then \in {"push", "replace", "append"} /\ Len(stack) >= 1
        /\ job.then = "replace" => Len(stack) - 1 >= 2
    BY <1>1, <2>1 DEF JobOK, CanDeliver
  <2>3. Len(stack) - 1 \in 0..Len(stack)
    BY <1>1, <2>2
  <2>4. Drop(1) \in Seq(HeapValue) /\ Len(Drop(1)) = Len(stack) - 1
    BY <1>1, <2>3, PrefixOfSeq DEF Drop
  <2>5. /\ job'.at # "upvalue"
        /\ job.then = "push" => Len(stack') = Len(stack) - 1 + 1 /\ Operands' = 0
        /\ job.then = "replace" => Len(stack') = Len(stack) - 1 - 1 /\ Operands' = 0
        /\ job.then = "append" => Len(stack') = Len(stack) - 1 + 1 /\ Operands' = 2
    BY <2>1, <2>2, <2>4, DeliveredHeight
  <2>6. /\ job.then = "push" => Operands = 1
        /\ job.then = "replace" => Operands = 3
        /\ job.then = "append" => Operands = 2
    BY <2>1 DEF Operands, ToDeliver
  <2>7. OperandsOnly
    BY <1>1, <2>2, <2>5, <2>6 DEF OperandsOnly
  <2> QED BY <2>1, <2>5, <2>7, OperandsUsed
<1> QED BY <1>2, <1>3, <1>4, <1>5, <1>6

(* Functions that begin: what they will take away are temporaries.         *)
LEMMA BeginningsKeepSlots ==
  ASSUME ~ Outlived, Inv, NEW t \in {"list", "function"}, NEW n \in 0..MaxKids, NEW o,
         \/ BeginAppend \/ BeginEmpty(t) \/ BeginStruct(o) \/ BeginInstance \/ BeginArray(n)
         \/ BeginBound(o) \/ BeginClosure
  PROVE  SlotsOK'
<1>1. Len(stack) \in Nat
  BY DEF Inv, IInv, HeapOK, HeapTypeOK
<1>2. PICK k \in Nat :
        /\ job.at = "none" /\ UNCHANGED <<stack, open, location>> /\ Temporaries(k)
        /\ Operands' = k /\ job'.at # "upvalue"
  <2>1. CASE BeginAppend
    <3>1. /\ job.at = "none" /\ Temporaries(2) /\ UNCHANGED <<stack, open, location>>
          /\ job'.at = "append"
      BY <2>1 DEF BeginAppend, Idle, Await, NoJob, machine
    <3>2. Operands' = 2
      BY <3>1 DEF Operands
    <3> QED BY <3>1, <3>2
  <2>2. CASE BeginEmpty(t) \/ BeginStruct(o)
    <3>1. /\ job.at = "none" /\ UNCHANGED <<stack, open, location>>
          /\ job'.at \in {"list", "function", "struct"}
      BY <2>2 DEF BeginEmpty, BeginStruct, Idle, Await, NoJob, machine
    <3>2. Operands' = 0
      BY <3>1 DEF Operands
    <3>3. Temporaries(0)
      BY <1>1 DEF Temporaries
    <3> QED BY <3>1, <3>2, <3>3
  <2>3. CASE BeginInstance
    <3>1. /\ job.at = "none" /\ Temporaries(2) /\ UNCHANGED <<stack, open, location>>
          /\ job'.at = "instance"
      BY <2>3 DEF BeginInstance, Idle, Await, NoJob, machine
    <3>2. Operands' = 2
      BY <3>1 DEF Operands
    <3> QED BY <3>1, <3>2
  <2>4. CASE BeginArray(n)
    <3>1. /\ job.at = "none" /\ Temporaries(n) /\ UNCHANGED <<stack, open, location>>
          /\ job'.at = "array values" /\ job'.arg = n
      BY <2>4 DEF BeginArray, Idle, Await, NoJob, machine
    <3>2. Operands' = n
      BY <3>1 DEF Operands
    <3>3. n \in Nat
      OBVIOUS
    <3> QED BY <3>1, <3>2, <3>3
  <2>5. CASE BeginBound(o) \/ BeginClosure
    <3>1. /\ job.at = "none" /\ Temporaries(1) /\ UNCHANGED <<stack, open, location>>
          /\ job'.at \in {"bound", "closure upvalues"}
      BY <2>5 DEF BeginBound, BeginClosure, Idle, Await, NoJob, machine
    <3>2. Operands' = 1
      BY <3>1 DEF Operands
    <3> QED BY <3>1, <3>2
  <2> QED BY <2>1, <2>2, <2>3, <2>4, <2>5
<1>3. Len(stack') = Len(stack)
  BY <1>2
<1> QED BY <1>1, <1>2, <1>3, TemporariesUsed

(* Functions that go on or end.                                            *)
LEMMA EndingsKeepSlots ==
  ASSUME Inv, NEW t \in {"list", "function"}, NEW o,
         \/ NewString(o) \/ FinishAppend \/ NewEmpty(o, t) \/ NewStruct(o) \/ NewInstance(o)
         \/ InstanceFields \/ ArrayValues \/ NewArray(o) \/ NewBound(o) \/ ClosureUpvalues
         \/ NewClosure(o)
  PROVE  SlotsOK'
<1>1. IInv /\ JobOK /\ IsJob(job) /\ Len(stack) \in Nat
  BY DEF Inv, IInv, HeapOK, HeapTypeOK
<1>2. Operands \in Nat
  BY <1>1, OperandsAreCounted
<1>3. CASE NewString(o)
  <2>1. /\ job.at = "string" /\ job'.at = "intern" /\ job'.then = job.then
        /\ stack' = Append(stack, o) /\ UNCHANGED <<open, location>>
    BY <1>1, <1>3 DEF NewString, At, Await, IsJob, Push
  <2>2. Len(stack') = Len(stack) + 1
    BY <1>1, <2>1, Heights
  <2>3. Operands' = Operands + 1
    BY <2>1 DEF Operands, ToDeliver
  <2>4. OperandsOnly
    BY <1>1, <1>2, <2>2, <2>3 DEF OperandsOnly
  <2> QED BY <2>1, <2>4, OperandsUsed
<1>4. CASE FinishAppend
  <2>1. /\ job.at = "append" /\ job' = NoJob /\ stack' = Drop(1) /\ UNCHANGED <<open, location>>
    BY <1>4 DEF FinishAppend, At, Return
  <2>2. Len(stack) >= 2
    BY <1>1, <2>1 DEF JobOK
  <2>3. Operands = 2 /\ Operands' = 0 /\ job'.at # "upvalue"
    BY <2>1 DEF Operands, NoJob
  <2>4. 1 \in 0..Len(stack)
    BY <1>1, <2>2
  <2>5. Len(stack') = Len(stack) - 1
    BY <1>1, <2>1, <2>4, Heights
  <2>6. OperandsOnly
    BY <1>1, <2>3, <2>5 DEF OperandsOnly
  <2> QED BY <2>1, <2>3, <2>6, OperandsUsed
<1>5. CASE NewEmpty(o, t) \/ NewStruct(o)
  <2>1. /\ job.at \in {"list", "function", "struct"} /\ job' = NoJob
        /\ stack' = Append(stack, o) /\ UNCHANGED <<open, location>>
    BY <1>5 DEF NewEmpty, NewStruct, At, Return, Push
  <2>2. Operands = 0 /\ Operands' = 0 /\ job'.at # "upvalue"
    BY <2>1 DEF Operands, NoJob
  <2>3. Len(stack') = Len(stack) + 1
    BY <1>1, <2>1, Heights
  <2>4. OperandsOnly
    BY <1>1, <2>2, <2>3 DEF OperandsOnly
  <2> QED BY <2>1, <2>2, <2>4, OperandsUsed
<1>6. CASE NewInstance(o)
  <2>1. /\ job.at = "instance" /\ job'.at = "fields"
        /\ stack' = Append(stack, o) /\ UNCHANGED <<open, location>>
    BY <1>1, <1>6 DEF NewInstance, At, Await, IsJob, Push
  <2>2. Operands = 2 /\ Operands' = 3 /\ job'.at # "upvalue"
    BY <2>1 DEF Operands
  <2>3. Len(stack') = Len(stack) + 1
    BY <1>1, <2>1, Heights
  <2>4. OperandsOnly
    BY <1>1, <2>2, <2>3 DEF OperandsOnly
  <2> QED BY <2>1, <2>2, <2>4, OperandsUsed
<1>7. CASE InstanceFields
  <2>1. /\ job.at = "fields" /\ job' = NoJob /\ stack' = Append(Drop(3), job.obj)
        /\ UNCHANGED <<open, location>>
    BY <1>7 DEF InstanceFields, At, Return
  <2>2. Len(stack) >= 3
    BY <1>1, <2>1 DEF JobOK
  <2>3. Operands = 3 /\ Operands' = 0 /\ job'.at # "upvalue"
    BY <2>1 DEF Operands, NoJob
  <2>4. 3 \in 0..Len(stack)
    BY <1>1, <2>2
  <2>5. Len(stack') = Len(stack) - 3 + 1
    BY <1>1, <2>1, <2>4, Heights
  <2>6. OperandsOnly
    BY <1>1, <2>3, <2>5 DEF OperandsOnly
  <2> QED BY <2>1, <2>3, <2>6, OperandsUsed
<1>8. CASE ArrayValues \/ ClosureUpvalues
  <2>1. /\ \/ job.at = "array values" /\ job'.at = "array" /\ job'.arg = job.arg
           \/ job.at = "closure upvalues" /\ job'.at = "closure"
        /\ UNCHANGED <<stack, open, location>>
    BY <1>1, <1>8 DEF ArrayValues, ClosureUpvalues, At, Await, IsJob, machine
  <2>2. Operands' = Operands /\ job'.at # "upvalue" /\ Len(stack') = Len(stack)
    BY <2>1 DEF Operands
  <2>3. OperandsOnly
    BY <1>1, <1>2, <2>2 DEF OperandsOnly
  <2> QED BY <2>1, <2>2, <2>3, OperandsUsed
<1>9. CASE NewArray(o)
  <2> DEFINE n == job.arg
  <2>1. /\ job.at = "array" /\ job' = NoJob /\ stack' = Append(Drop(n), o)
        /\ UNCHANGED <<open, location>>
    BY <1>9 DEF NewArray, At, Return
  <2>2. n \in 0..Len(stack)
    BY <1>1, <2>1 DEF JobOK
  <2>3. Operands = n /\ Operands' = 0 /\ job'.at # "upvalue"
    BY <2>1 DEF Operands, NoJob
  <2> HIDE DEF n
  <2>4. Len(stack') = Len(stack) - n + 1
    BY <1>1, <2>1, <2>2, Heights
  <2>5. OperandsOnly
    BY <1>1, <2>2, <2>3, <2>4 DEF OperandsOnly
  <2> QED BY <2>1, <2>3, <2>5, OperandsUsed
<1>10. CASE NewBound(o) \/ NewClosure(o)
  <2>1. /\ job.at \in {"bound", "closure"} /\ job' = NoJob /\ stack' = Append(Drop(1), o)
        /\ UNCHANGED <<open, location>>
    BY <1>10 DEF NewBound, NewClosure, At, Return
  <2>2. Len(stack) >= 1
    BY <1>1, <2>1 DEF JobOK
  <2>3. Operands = 1 /\ Operands' = 0 /\ job'.at # "upvalue"
    BY <2>1 DEF Operands, NoJob
  <2>4. 1 \in 0..Len(stack)
    BY <1>1, <2>2
  <2>5. Len(stack') = Len(stack) - 1 + 1
    BY <1>1, <2>1, <2>4, Heights
  <2>6. OperandsOnly
    BY <1>1, <2>3, <2>5 DEF OperandsOnly
  <2> QED BY <2>1, <2>3, <2>6, OperandsUsed
<1> QED BY <1>3, <1>4, <1>5, <1>6, <1>7, <1>8, <1>9, <1>10

(* captureUpvalue.                                                         *)
LEMMA BeginCaptureKeepsSlots ==
  ASSUME Inv, NEW s \in 1..MaxStack, BeginCapture(s)
  PROVE  SlotsOK'
<1>1. /\ job.at = "none" /\ UNCHANGED <<stack, open, location>> /\ SlotsOK
  BY DEF BeginCapture, Idle, machine, Inv
<1>2. CASE open[s] # Nil
  <2>1. UNCHANGED job
    BY <1>2 DEF BeginCapture
  <2> QED BY <1>1, <2>1 DEF SlotsOK, Operands, ToDeliver
<1>3. CASE open[s] = Nil
  <2>1. job'.at = "upvalue" /\ job'.arg = s
    BY <1>3 DEF BeginCapture, Await, NoJob
  <2>2. Operands = 0 /\ Operands' = 0
    BY <1>1, <2>1 DEF Operands
  <2> QED BY <1>1, <1>3, <2>1, <2>2 DEF SlotsOK
<1> QED BY <1>2, <1>3

LEMMA NewUpvalueKeepsSlots ==
  ASSUME Inv, NEW o \in Address, NewUpvalue(o)
  PROVE  SlotsOK'
<1> PICK l : l = job.arg
  OBVIOUS
<1>1. /\ job.at = "upvalue" /\ job' = NoJob /\ stack' = stack
      /\ open' = [open EXCEPT ![l] = o] /\ location' = [location EXCEPT ![o] = l]
      /\ open[l] = Nil /\ SlotsOK /\ JobOK /\ HeapTypeOK
  BY DEF NewUpvalue, At, Return, Inv, SlotsOK, IInv, HeapOK
<1>2. /\ l \in 1..Len(stack) /\ Len(stack) \in Nat /\ Len(stack) <= MaxStack
      /\ MaxStack \in Nat
  BY <1>1, HeapAssumption DEF JobOK, HeapTypeOK
<1>3. l \in 1..MaxStack /\ l \in 0..MaxStack /\ l # 0
  BY <1>2
<1>4. /\ Operands = 0 /\ Operands' = 0 /\ job'.at # "upvalue"
  BY <1>1 DEF Operands, NoJob
<1>5. /\ open'[l] = o /\ \A s \in 1..MaxStack : s # l => open'[s] = open[s]
      /\ location' \in [Address -> 0..MaxStack] /\ location'[o] = l
      /\ \A u \in Address : u # o => location'[u] = location[u]
  BY <1>1, <1>3 DEF SlotsOK, HeapTypeOK
<1>6. ASSUME NEW u \in Address, location'[u] # 0 PROVE open'[location'[u]] = u
  <2>1. CASE u = o
    BY <1>5, <2>1
  <2>2. CASE u # o
    <3>1. /\ location'[u] = location[u] /\ open[location[u]] = u
          /\ location[u] \in 1..MaxStack
      <4>1. location[u] \in 0..MaxStack /\ location'[u] = location[u]
        BY <1>1, <1>5, <2>2 DEF SlotsOK
      <4> QED BY <1>1, <1>2, <1>6, <4>1 DEF SlotsOK
    <3>2. u # Nil
      BY HeapAssumption
    <3>3. location[u] # l
      BY <1>1, <3>1, <3>2
    <3> QED BY <1>5, <3>1, <3>3
  <2> QED BY <2>1, <2>2
<1>7. ASSUME NEW s \in 1..MaxStack, open'[s] # Nil PROVE s + 0 <= Len(stack)
  <2>1. CASE s = l
    BY <1>2, <2>1
  <2>2. CASE s # l
    <3>1. open[s] # Nil
      BY <1>5, <1>7, <2>2
    <3> QED BY <1>1, <1>4, <3>1 DEF SlotsOK
  <2> QED BY <2>1, <2>2
<1> QED BY <1>1, <1>4, <1>5, <1>6, <1>7 DEF SlotsOK

(* Instructions that allocate nothing: they take temporaries, or close     *)
(* what they take.                                                         *)
LEMMA ClosingKeepsSlots ==
  ASSUME ~ Outlived, Inv, Quiet, NEW s \in 1..MaxStack, CloseFrom(s),
         NEW h \in Int, h = Len(stack'), s - 1 <= h
  PROVE  SlotsOK'
<1>1. /\ phase = "off" /\ job.at = "none" /\ job' = job /\ SlotsOK
      /\ MaxStack \in Nat /\ HeapTypeOK
  BY HeapAssumption DEF Quiet, Idle, Inv, IInv, HeapOK
<1>2. /\ \A u \in Closing(s) : u \in Address
      /\ open' = [t \in 1..MaxStack |-> IF t >= s THEN Nil ELSE open[t]]
      /\ location' = [u \in Address |-> IF u \in Closing(s) THEN 0 ELSE location[u]]
  BY <1>1, Closings
<1>3. location' \in [Address -> 0..MaxStack]
  BY <1>1, <1>2 DEF SlotsOK
<1>4. ASSUME NEW u \in Address, location'[u] # 0 PROVE open'[location'[u]] = u
  <2>1. location'[u] = location[u] /\ u \notin Closing(s)
    BY <1>2, <1>4
  <2>2. location[u] \in 1..MaxStack /\ open[location[u]] = u
    <3>1. location[u] \in 0..MaxStack /\ location[u] # 0
      BY <1>1, <1>4, <2>1 DEF SlotsOK
    <3> QED BY <1>1, <3>1 DEF SlotsOK
  <2>3. u # Nil
    BY HeapAssumption
  <2>4. ~ (location[u] >= s)
    <3> SUFFICES ASSUME location[u] >= s PROVE FALSE
      OBVIOUS
    <3>1. location[u] \in s..MaxStack
      BY <1>1, <2>2
    <3> QED BY <2>1, <2>2, <2>3, <3>1 DEF Closing
  <2> QED BY <1>2, <2>1, <2>2, <2>4
<1>5. Operands' = 0
  BY <1>1 DEF Operands
<1>6. ASSUME NEW t \in 1..MaxStack, open'[t] # Nil PROVE t + 0 <= h
  <2>1. ~ (t >= s)
    BY <1>2, <1>6
  <2> QED BY <1>1, <2>1
<1>7. job'.at # "upvalue"
  BY <1>1
<1> QED BY <1>3, <1>4, <1>5, <1>6, <1>7 DEF SlotsOK

LEMMA QuietKeepsSlots ==
  ASSUME ~ Outlived, Inv, NEW i, NEW c, NEW x,
         \/ Pop \/ PushNil \/ GetGlobal \/ SetGlobal \/ RuntimeError
         \/ Load(i) \/ Store(i) \/ GetUpvalue(c, i) \/ SetUpvalue(c, i) \/ Constant(c, x)
  PROVE  SlotsOK'
<1>1. /\ IInv /\ HeapTypeOK /\ Len(stack) \in Nat /\ MaxStack \in Nat
      /\ stack \in Seq(HeapValue) /\ SlotsOK
  BY HeapAssumption DEF Inv, IInv, HeapOK, HeapTypeOK
<1>2. job.at = "none" /\ job' = job
  BY DEF Pop, PushNil, GetGlobal, SetGlobal, RuntimeError, Load, Store, GetUpvalue, SetUpvalue,
         Constant, Quiet, Idle
<1>3. Operands' = 0 /\ job'.at # "upvalue"
  BY <1>2 DEF Operands
<1>4. Temporaries(0)
  BY <1>1 DEF Temporaries
<1>5. CASE PushNil \/ GetGlobal \/ GetUpvalue(c, i) \/ Constant(c, x)
  <2>1. PICK y : stack' = Append(stack, y) /\ UNCHANGED <<open, location>>
    <3>1. CASE PushNil \/ GetGlobal
      BY <3>1 DEF PushNil, GetGlobal, Push
    <3>2. CASE GetUpvalue(c, i)
      BY <3>2 DEF GetUpvalue, Push
    <3>3. CASE Constant(c, x)
      BY <3>3 DEF Constant, Push
    <3> QED BY <1>5, <3>1, <3>2, <3>3
  <2>2. 0 \in 0..Len(stack)
    BY <1>1
  <2>3. Len(stack') = Len(stack) + 1
    BY <1>1, <2>1, <2>2, Heights
  <2> QED BY <1>1, <1>2, <1>3, <1>4, <2>1, <2>3, TemporariesUsed
<1>6. CASE Pop \/ Load(i)
  <2>1. /\ Temporaries(1) /\ UNCHANGED <<open, location>> /\ Len(stack) > 0
        /\ stack' = Drop(1) \/ stack' = Append(Drop(1), kids[Top][i])
    BY <1>6 DEF Pop, Load
  <2>2. 1 \in 0..Len(stack)
    BY <1>1, <2>1
  <2>3. Len(stack') = Len(stack) - 1 \/ Len(stack') = Len(stack) - 1 + 1
    BY <1>1, <2>1, <2>2, Heights
  <2>4. Len(stack') \in Int /\ Len(stack) - 1 <= Len(stack') - 0
    BY <1>1, <2>1, <2>3
  <2> QED BY <1>2, <1>3, <2>1, <2>4, TemporariesUsed
<1>7. CASE Store(i)
  <2>1. /\ Temporaries(2) /\ UNCHANGED <<open, location>> /\ stack' = Append(Drop(2), Top)
    BY <1>7 DEF Store
  <2>2. Len(stack) >= 2 /\ 2 \in 0..Len(stack)
    BY <1>1, <2>1 DEF Temporaries
  <2>3. Len(stack') = Len(stack) - 2 + 1
    BY <1>1, <2>1, <2>2, Heights
  <2>4. Len(stack') \in Int /\ Len(stack) - 2 <= Len(stack') - 0
    BY <1>1, <2>2, <2>3
  <2> QED BY <1>2, <1>3, <2>1, <2>4, TemporariesUsed
<1>8. CASE SetGlobal \/ SetUpvalue(c, i)
  <2>1. UNCHANGED <<open, location>>
    BY <1>8 DEF SetGlobal, SetUpvalue
  <2>2. Len(stack') = Len(stack)
    <3>1. CASE SetGlobal
      BY <3>1 DEF SetGlobal
    <3>2. CASE SetUpvalue(c, i)
      <4>1. /\ Len(stack) > 0
            /\ stack' = [s \in DOMAIN stack |-> IF s = location[kids[c][i]] THEN Top ELSE stack[s]]
        BY <3>2 DEF SetUpvalue
      <4>2. Len(stack) >= 1
        BY <1>1, <4>1
      <4>3. Top \in HeapValue
        BY <1>1, <4>2, TopOfStack
      <4> QED BY <1>1, <4>1, <4>3, SlotWritten
    <3> QED BY <1>8, <3>1, <3>2
  <2>3. Len(stack') \in Int /\ Len(stack) - 0 <= Len(stack') - 0
    BY <1>1, <2>2
  <2> QED BY <1>2, <1>3, <1>4, <2>1, <2>3, TemporariesUsed
<1>9. CASE RuntimeError
  <2>1. /\ \A s \in 1..MaxStack : open[s] = Nil
        /\ open' = [s \in 1..MaxStack |-> Nil] /\ location' = location
    BY <1>9 DEF RuntimeError
  <2>2. \A u \in Address : location[u] = 0
    <3> SUFFICES ASSUME NEW u \in Address, location[u] # 0 PROVE FALSE
      OBVIOUS
    <3>1. location[u] \in 0..MaxStack /\ open[location[u]] = u
      BY <1>1 DEF SlotsOK
    <3>2. location[u] \in 1..MaxStack
      BY <1>1, <3>1
    <3> QED BY <2>1, <3>1, <3>2, HeapAssumption
  <2> QED BY <1>1, <1>3, <2>1, <2>2 DEF SlotsOK
<1> QED BY <1>5, <1>6, <1>7, <1>8, <1>9

LEMMA ReturningKeepsSlots ==
  ASSUME ~ Outlived, Inv, NEW s, CloseUpvalue \/ (s \in 1..MaxStack /\ ReturnFrom(s))
  PROVE  SlotsOK'
<1>1. IInv /\ Len(stack) \in Nat /\ Len(stack) <= MaxStack /\ MaxStack \in Nat
  BY HeapAssumption DEF Inv, IInv, HeapOK, HeapTypeOK
<1>2. CASE CloseUpvalue
  <2>1. Quiet /\ Len(stack) > 0 /\ CloseFrom(Len(stack)) /\ stack' = Drop(1)
    BY <1>2 DEF CloseUpvalue
  <2>2. Len(stack) \in 1..MaxStack /\ 1 \in 0..Len(stack)
    BY <1>1, <2>1
  <2>3. Len(stack') = Len(stack) - 1
    BY <1>1, <2>1, <2>2, Heights
  <2>4. Len(stack') \in Int /\ Len(stack) - 1 <= Len(stack')
    BY <1>1, <2>3
  <2> QED BY <2>1, <2>2, <2>4, ClosingKeepsSlots
<1>3. CASE s \in 1..MaxStack /\ ReturnFrom(s)
  <2>1. Quiet /\ CloseFrom(s)
    BY <1>3 DEF ReturnFrom
  <2>2. Len(stack') = s
    BY <1>3, ReturnFromPreservesIInv
  <2>3. Len(stack') \in Int /\ s - 1 <= Len(stack')
    BY <2>2
  <2> QED BY <1>3, <2>1, <2>3, ClosingKeepsSlots
<1> QED BY <1>2, <1>3

----------------------------------------------------------------------------
(* The whole specification.                                                *)

(* The running program allocates or moves values only while no collection  *)
(* is under way.                                                           *)
LEMMA ProgramWaits == Mutate => phase = "off"
<1> SUFFICES ASSUME Mutate PROVE phase = "off"
  OBVIOUS
<1> USE DEF Idle, At, Quiet
<1>1. ASSUME NEW t \in Text, NEW then, NEW source, BeginCopyString(t, then, source)
      PROVE  phase = "off"
  BY <1>1 DEF BeginCopyString
<1>2. ASSUME NEW t \in Text, BeginConcatenate(t) PROVE phase = "off"
  BY <1>2 DEF BeginConcatenate
<1>3. CASE CopyChars \/ ConcatChars \/ Intern \/ BeginAppend \/ FinishAppend
  BY <1>3 DEF CopyChars, ConcatChars, Intern, BeginAppend, FinishAppend
<1>4. ASSUME NEW t, BeginEmpty(t) \/ \E o \in Address : NewEmpty(o, t) PROVE phase = "off"
  BY <1>4 DEF BeginEmpty, NewEmpty
<1>5. CASE BeginInstance \/ InstanceFields \/ ArrayValues \/ BeginClosure \/ ClosureUpvalues
  BY <1>5 DEF BeginInstance, InstanceFields, ArrayValues, BeginClosure, ClosureUpvalues
<1>6. CASE \E n \in 0..MaxKids : BeginArray(n)
  BY <1>6 DEF BeginArray
<1>7. CASE \E s \in 1..MaxStack : BeginCapture(s)
  BY <1>7 DEF BeginCapture
<1>8. ASSUME NEW o \in Address,
             \/ BeginStruct(o) \/ BeginBound(o)
             \/ NewString(o) \/ NewStruct(o) \/ NewInstance(o) \/ NewArray(o) \/ NewBound(o)
             \/ NewClosure(o) \/ NewUpvalue(o)
      PROVE  phase = "off"
  BY <1>8 DEF BeginStruct, BeginBound, NewString, NewStruct, NewInstance, NewArray, NewBound,
              NewClosure, NewUpvalue
<1>9. CASE Pop \/ CloseUpvalue \/ PushNil \/ GetGlobal \/ SetGlobal \/ RuntimeError
  BY <1>9 DEF Pop, CloseUpvalue, PushNil, GetGlobal, SetGlobal, RuntimeError
<1>10. ASSUME NEW i \in 1..MaxKids, NEW c \in Address, GetUpvalue(c, i) \/ SetUpvalue(c, i)
       PROVE  phase = "off"
  BY <1>10 DEF GetUpvalue, SetUpvalue
<1>11. CASE \E f, x \in Address : Constant(f, x)
  BY <1>11 DEF Constant
<1>12. CASE \E s \in 1..MaxStack : ReturnFrom(s)
  BY <1>12 DEF ReturnFrom
<1>13. ASSUME NEW i \in 1..MaxKids, Load(i) \/ Store(i) PROVE phase = "off"
  BY <1>13 DEF Load, Store
<1> QED BY <1>1, <1>2, <1>3, <1>4, <1>5, <1>6, <1>7, <1>8, <1>9, <1>10, <1>11, <1>12, <1>13
        DEF Mutate

(* A step of the program that writes to no object.                         *)
LEMMA WritesNothing == ASSUME Inv, phase = "off", UNCHANGED <<type, kids, phase>> PROVE UpvaluesOK'
BY SameKids DEF Inv

LEMMA CopyingKeepsInv ==
  ASSUME ~ Outlived, Inv, NEW t \in Text, NEW then \in {"push", "append"},
         NEW source \in {{}} \cup {{s} : s \in {s \in Elements(stack) : Is(s, "string")}},
         BeginCopyString(t, then, source) \/ BeginConcatenate(t)
  PROVE  Inv'
<1>1. IInv'
  BY BeginCopyStringPreservesIInv, BeginConcatenatePreservesIInv DEF Inv
<1>2. phase = "off" /\ UNCHANGED <<type, kids, phase>>
  BY DEF BeginCopyString, BeginConcatenate, Idle, heap, collector
<1>3. SlotsOK'
  BY CopyingKeepsSlots
<1> QED BY <1>1, <1>2, <1>3, WritesNothing DEF Inv

LEMMA StringsKeepInv ==
  ASSUME ~ Outlived, Inv, CopyChars \/ ConcatChars \/ Intern
  PROVE  Inv'
<1>1. IInv'
  BY CopyCharsPreservesIInv, ConcatCharsPreservesIInv, InternPreservesIInv DEF Inv
<1>2. phase = "off" /\ UNCHANGED <<type, kids, phase>>
  BY DEF CopyChars, ConcatChars, Intern, At, heap, collector
<1>3. SlotsOK'
  <2>1. /\ "push" \in {"push", "append"}
        /\ \/ BeginCopyString(Nil, "push", Nil) \/ BeginConcatenate(Nil)
           \/ CopyChars \/ ConcatChars \/ Intern
    OBVIOUS
  <2> QED BY <2>1, CopyingKeepsSlots
<1> QED BY <1>1, <1>2, <1>3, WritesNothing DEF Inv

LEMMA BeginningsKeepInv ==
  ASSUME ~ Outlived, Inv, NEW t \in {"list", "function"}, NEW n \in 0..MaxKids, NEW o,
         \/ BeginAppend \/ BeginEmpty(t) \/ BeginInstance \/ BeginArray(n) \/ BeginClosure
         \/ o \in Address /\ (BeginStruct(o) \/ BeginBound(o))
  PROVE  Inv'
<1>1. IInv'
  BY BeginAppendPreservesIInv, BeginEmptyPreservesIInv, BeginInstancePreservesIInv,
     BeginArrayPreservesIInv, BeginClosurePreservesIInv, BeginStructPreservesIInv,
     BeginBoundPreservesIInv DEF Inv
<1>2. UpvaluesOK'
  <2>1. CASE BeginAppend
    BY <2>1, BeginAppendKeepsUpvalues
  <2>2. CASE \/ BeginEmpty(t) \/ BeginInstance \/ BeginArray(n) \/ BeginClosure
             \/ BeginStruct(o) \/ BeginBound(o)
    <3>1. phase = "off" /\ UNCHANGED <<type, kids, phase>>
      BY <2>2 DEF BeginEmpty, BeginInstance, BeginArray, BeginClosure, BeginStruct, BeginBound,
                  Idle, heap, collector
    <3> QED BY <3>1, WritesNothing
  <2> QED BY <2>1, <2>2
<1>3. SlotsOK'
  BY BeginningsKeepSlots
<1> QED BY <1>1, <1>2, <1>3 DEF Inv

LEMMA NewObjectsKeepInv ==
  ASSUME ~ Outlived, Inv, NEW t \in {"list", "function"}, NEW o \in Address,
         \/ NewString(o) \/ NewEmpty(o, t) \/ NewStruct(o) \/ NewInstance(o) \/ NewArray(o)
         \/ NewBound(o) \/ NewClosure(o) \/ NewUpvalue(o)
  PROVE  Inv'
<1>1. IInv'
  BY NewStringPreservesIInv, NewEmptyPreservesIInv, NewStructPreservesIInv,
     NewInstancePreservesIInv, NewArrayPreservesIInv, NewBoundPreservesIInv,
     NewClosurePreservesIInv, NewUpvaluePreservesIInv DEF Inv
<1>2. UpvaluesOK'
  BY OtherObjectsKeepUpvalues, NewClosureKeepsUpvalues, NewUpvalueKeepsUpvalues
<1>3. SlotsOK'
  BY EndingsKeepSlots, NewUpvalueKeepsSlots
<1> QED BY <1>1, <1>2, <1>3 DEF Inv

LEMMA EndingsKeepInv ==
  ASSUME ~ Outlived, Inv,
         FinishAppend \/ InstanceFields \/ ArrayValues \/ ClosureUpvalues
  PROVE  Inv'
<1>1. IInv'
  BY FinishAppendPreservesIInv, InstanceFieldsPreservesIInv, ArrayValuesPreservesIInv,
     ClosureUpvaluesPreservesIInv DEF Inv
<1>2. UpvaluesOK'
  <2>1. CASE FinishAppend \/ InstanceFields
    <3>1. FinishAppend \/ InstanceFields \/ Store(1)
      BY <2>1
    <3> QED BY <3>1, StoresKeepUpvalues
  <2>2. CASE ArrayValues \/ ClosureUpvalues
    <3>1. phase = "off" /\ UNCHANGED <<type, kids, phase>>
      BY <2>2 DEF ArrayValues, ClosureUpvalues, At, heap, collector
    <3> QED BY <3>1, WritesNothing
  <2> QED BY <2>1, <2>2
<1>3. SlotsOK'
  <2>1. /\ "list" \in {"list", "function"}
        /\ \/ NewString(Nil) \/ FinishAppend \/ NewEmpty(Nil, "list") \/ NewStruct(Nil)
           \/ NewInstance(Nil) \/ InstanceFields \/ ArrayValues \/ NewArray(Nil)
           \/ NewBound(Nil) \/ ClosureUpvalues \/ NewClosure(Nil)
    OBVIOUS
  <2> QED BY <2>1, EndingsKeepSlots
<1> QED BY <1>1, <1>2, <1>3 DEF Inv

LEMMA CapturesKeepInv ==
  ASSUME Inv, NEW s \in 1..MaxStack, BeginCapture(s)
  PROVE  Inv'
BY BeginCapturePreservesIInv, BeginCaptureKeepsUpvalues, BeginCaptureKeepsSlots DEF Inv

LEMMA QuietKeepsInv ==
  ASSUME ~ Outlived, Inv, NEW i, NEW c, NEW x,
         \/ Pop \/ PushNil \/ GetGlobal \/ SetGlobal \/ RuntimeError
         \/ i \in 1..MaxKids /\ Load(i)
         \/ i \in 1..MaxKids /\ c \in Address /\ GetUpvalue(c, i)
         \/ c \in Address /\ x \in Address /\ Constant(c, x)
  PROVE  Inv'
<1>1. IInv'
  BY PopPreservesIInv, QuietPreservesIInv, SetGlobalPreservesIInv, RuntimeErrorPreservesIInv,
     LoadPreservesIInv, GetUpvaluePreservesIInv, ConstantPreservesIInv DEF Inv
<1>2. phase = "off" /\ UNCHANGED <<type, kids, phase>>
  BY DEF Pop, PushNil, GetGlobal, SetGlobal, RuntimeError, Load, GetUpvalue, Constant,
         Quiet, Idle, collector
<1>3. SlotsOK'
  BY QuietKeepsSlots
<1> QED BY <1>1, <1>2, <1>3, WritesNothing DEF Inv

LEMMA WritesKeepInv ==
  ASSUME ~ Outlived, Inv, NEW i, NEW s, NEW c,
         \/ i \in 1..MaxKids /\ (Store(i) \/ (c \in Address /\ SetUpvalue(c, i)))
         \/ CloseUpvalue
         \/ s \in 1..MaxStack /\ ReturnFrom(s)
  PROVE  Inv'
<1>1. IInv'
  BY StorePreservesIInv, SetUpvaluePreservesIInv, CloseUpvaluePreservesIInv,
     ReturnFromPreservesIInv DEF Inv
<1>2. UpvaluesOK'
  <2>1. CASE Store(i)
    BY <2>1, StoresKeepUpvalues
  <2>2. CASE CloseUpvalue \/ (s \in 1..MaxStack /\ ReturnFrom(s)) \/ SetUpvalue(c, i)
    BY <2>2, WrittenUpvalues
  <2> QED BY <2>1, <2>2
<1>3. SlotsOK'
  <2>1. CASE Store(i) \/ SetUpvalue(c, i)
    <3>1. \/ Pop \/ PushNil \/ GetGlobal \/ SetGlobal \/ RuntimeError
          \/ Load(i) \/ Store(i) \/ GetUpvalue(c, i) \/ SetUpvalue(c, i) \/ Constant(c, Nil)
      BY <2>1
    <3> QED BY <3>1, QuietKeepsSlots
  <2>2. CASE CloseUpvalue \/ (s \in 1..MaxStack /\ ReturnFrom(s))
    BY <2>2, ReturningKeepsSlots
  <2> QED BY <2>1, <2>2
<1> QED BY <1>1, <1>2, <1>3 DEF Inv

LEMMA MutatePreservesInv == ASSUME ~ Outlived, Inv, Mutate PROVE Inv'
<1>1. ASSUME NEW t \in Text, NEW then \in {"push", "append"},
             NEW source \in {{}} \cup {{s} : s \in {s \in Elements(stack) : Is(s, "string")}},
             BeginCopyString(t, then, source)
      PROVE  Inv'
  BY <1>1, CopyingKeepsInv
<1>2. ASSUME NEW t \in Text, BeginConcatenate(t) PROVE Inv'
  <2>1. /\ "push" \in {"push", "append"} /\ {} \in {{}}
        /\ BeginCopyString(t, "push", {}) \/ BeginConcatenate(t)
    BY <1>2
  <2> QED BY <2>1, CopyingKeepsInv
<1>3. CASE CopyChars \/ ConcatChars \/ Intern
  BY <1>3, StringsKeepInv
<1>4. ASSUME NEW t \in {"list", "function"}, NEW n \in 0..MaxKids, NEW o,
             \/ BeginAppend \/ BeginEmpty(t) \/ BeginInstance \/ BeginArray(n) \/ BeginClosure
             \/ o \in Address /\ (BeginStruct(o) \/ BeginBound(o))
      PROVE  Inv'
  BY <1>4, BeginningsKeepInv
<1>5. CASE BeginAppend \/ BeginInstance \/ BeginClosure
  <2>1. /\ "list" \in {"list", "function"} /\ 0 \in 0..MaxKids
        /\ \/ BeginAppend \/ BeginEmpty("list") \/ BeginInstance \/ BeginArray(0)
           \/ BeginClosure \/ (Nil \in Address /\ (BeginStruct(Nil) \/ BeginBound(Nil)))
    <3>1. MaxKids \in Nat
      BY HeapAssumption
    <3> QED BY <1>5, <3>1
  <2> QED BY <1>4, <2>1
<1>6. ASSUME NEW t \in {"list", "function"}, BeginEmpty(t) PROVE Inv'
  <2>1. /\ 0 \in 0..MaxKids
        /\ \/ BeginAppend \/ BeginEmpty(t) \/ BeginInstance \/ BeginArray(0)
           \/ BeginClosure \/ (Nil \in Address /\ (BeginStruct(Nil) \/ BeginBound(Nil)))
    <3>1. MaxKids \in Nat
      BY HeapAssumption
    <3> QED BY <1>6, <3>1
  <2> QED BY <1>4, <2>1
<1>7. ASSUME NEW n \in 0..MaxKids, BeginArray(n) PROVE Inv'
  <2>1. /\ "list" \in {"list", "function"}
        /\ \/ BeginAppend \/ BeginEmpty("list") \/ BeginInstance \/ BeginArray(n)
           \/ BeginClosure \/ (Nil \in Address /\ (BeginStruct(Nil) \/ BeginBound(Nil)))
    BY <1>7
  <2> QED BY <1>4, <2>1
<1>8. ASSUME NEW o \in Address, BeginStruct(o) \/ BeginBound(o) PROVE Inv'
  <2>1. /\ "list" \in {"list", "function"} /\ 0 \in 0..MaxKids
        /\ \/ BeginAppend \/ BeginEmpty("list") \/ BeginInstance \/ BeginArray(0)
           \/ BeginClosure \/ (o \in Address /\ (BeginStruct(o) \/ BeginBound(o)))
    <3>1. MaxKids \in Nat
      BY HeapAssumption
    <3> QED BY <1>8, <3>1
  <2> QED BY <1>4, <2>1
<1>9. ASSUME NEW t \in {"list", "function"}, NEW o \in Address, NewEmpty(o, t) PROVE Inv'
  BY <1>9, NewObjectsKeepInv
<1>10. ASSUME NEW o \in Address,
              \/ NewString(o) \/ NewStruct(o) \/ NewInstance(o) \/ NewArray(o) \/ NewBound(o)
              \/ NewClosure(o) \/ NewUpvalue(o)
       PROVE  Inv'
  <2>1. /\ "list" \in {"list", "function"}
        /\ \/ NewString(o) \/ NewEmpty(o, "list") \/ NewStruct(o) \/ NewInstance(o)
           \/ NewArray(o) \/ NewBound(o) \/ NewClosure(o) \/ NewUpvalue(o)
    BY <1>10
  <2> QED BY <2>1, NewObjectsKeepInv
<1>11. CASE FinishAppend \/ InstanceFields \/ ArrayValues \/ ClosureUpvalues
  BY <1>11, EndingsKeepInv
<1>12. ASSUME NEW s \in 1..MaxStack, BeginCapture(s) PROVE Inv'
  BY <1>12, CapturesKeepInv
<1>13. ASSUME NEW i, NEW c, NEW x,
              \/ Pop \/ PushNil \/ GetGlobal \/ SetGlobal \/ RuntimeError
              \/ i \in 1..MaxKids /\ Load(i)
              \/ i \in 1..MaxKids /\ c \in Address /\ GetUpvalue(c, i)
              \/ c \in Address /\ x \in Address /\ Constant(c, x)
       PROVE  Inv'
  BY <1>13, QuietKeepsInv
<1>14. ASSUME NEW i, NEW s, NEW c,
              \/ i \in 1..MaxKids /\ (Store(i) \/ (c \in Address /\ SetUpvalue(c, i)))
              \/ CloseUpvalue
              \/ s \in 1..MaxStack /\ ReturnFrom(s)
       PROVE  Inv'
  BY <1>14, WritesKeepInv
<1>15. CASE Pop \/ PushNil \/ GetGlobal \/ SetGlobal \/ RuntimeError
  BY <1>13, <1>15
<1>16. CASE CloseUpvalue
  BY <1>14, <1>16
<1>17. ASSUME NEW s \in 1..MaxStack, ReturnFrom(s) PROVE Inv'
  BY <1>14, <1>17
<1>18. ASSUME NEW i \in 1..MaxKids, Load(i) \/ Store(i) PROVE Inv'
  BY <1>13, <1>14, <1>18
<1>19. ASSUME NEW i \in 1..MaxKids, NEW c \in Address, GetUpvalue(c, i) \/ SetUpvalue(c, i)
       PROVE  Inv'
  BY <1>13, <1>14, <1>19
<1>20. ASSUME NEW f \in Address, NEW x \in Address, Constant(f, x) PROVE Inv'
  BY <1>13, <1>20
<1> QED BY <1>1, <1>2, <1>3, <1>5, <1>6, <1>7, <1>8, <1>9, <1>10, <1>11, <1>12, <1>15, <1>16,
           <1>17, <1>18, <1>19, <1>20 DEF Mutate

LEMMA InitIInv == Init => IInv
<1> SUFFICES ASSUME Init PROVE IInv
  OBVIOUS
<1>1. /\ objects = << >> /\ stack = << >> /\ strings = {} /\ global = Nil
      /\ type = [o \in Address |-> "free"] /\ kids = [o \in Address |-> << >>]
      /\ text = [o \in Address |-> Nil] /\ open = [s \in 1..MaxStack |-> Nil]
      /\ job = NoJob /\ phase = "off" /\ marked = {} /\ gray = {} /\ kept = 0
  BY DEF Init
<1>2. Allocated = {} /\ Roots = {} /\ Live = {} /\ Elements(objects) = {}
  BY <1>1 DEF Allocated, Roots, Live, Elements
<1>3. HeapTypeOK
  <2>1. Len(objects) = 0 /\ Len(stack) = 0 /\ MaxStack \in Nat
    BY <1>1, HeapAssumption
  <2>2. /\ objects \in Seq(Address) /\ Elements(objects) = Allocated
        /\ \A i, j \in DOMAIN objects : objects[i] = objects[j] => i = j
        /\ stack \in Seq(HeapValue) /\ Len(stack) <= MaxStack /\ kept \in 0..Len(objects)
    BY <1>1, <1>2, <2>1
  <2>3. /\ type \in [Address -> ObjType \cup {"free"}]
        /\ kids \in [Address -> Seq(HeapValue)]
        /\ text \in [Address -> Text \cup {Nil}]
        /\ open \in [1..MaxStack -> HeapValue] /\ global \in HeapValue
    BY <1>1 DEF HeapValue
  <2>4. strings \subseteq Address /\ phase \in {"off", "trace", "sweep"}
        /\ gray \subseteq marked /\ marked \subseteq Address
    BY <1>1
  <2> QED BY <2>2, <2>3, <2>4 DEF HeapTypeOK
<1>4. ReferencesOK /\ CollectorOK /\ InternTableOK
  BY <1>1, <1>2 DEF ReferencesOK, CollectorOK, InternTableOK, Closed
<1>5. OpenOK /\ InstancesOK /\ InstancesPrecedeTheirStruct
  BY <1>1, <1>2 DEF OpenOK, InstancesOK, InstancesPrecedeTheirStruct
<1>6. JobOK /\ IsJob(job)
  BY <1>1 DEF JobOK, IsJob, NoJob
<1> QED BY <1>3, <1>4, <1>5, <1>6 DEF IInv, HeapOK

LEMMA InitInv == Init => Inv
<1> SUFFICES ASSUME Init PROVE Inv
  OBVIOUS
<1>1. IInv
  BY InitIInv
<1>2. UpvaluesOK
  BY DEF Init, UpvaluesOK, Live, Allocated
<1>3. SlotsOK
  <2>1. /\ open = [s \in 1..MaxStack |-> Nil] /\ location = [o \in Address |-> 0]
        /\ job.at = "none" /\ 0 \in 0..MaxStack
    BY HeapAssumption DEF Init, NoJob
  <2> QED BY <2>1 DEF SlotsOK
<1> QED BY <1>1, <1>2, <1>3 DEF Inv

LEMMA CollectPreservesInv == ASSUME Inv, Collect PROVE Inv'
<1>1. UNCHANGED <<machine, job>>
  BY DEF Collect, StartCollection, RemoveWhite, Keep, Free, EndCollection, Blacken
<1>2. SlotsOK'
  BY <1>1 DEF Inv, SlotsOK, Operands, ToDeliver, machine
<1> QED BY <1>2, CollectPreservesIInv, CollectKeepsUpvalues DEF Inv

LEMMA StutterPreservesInv == ASSUME Inv, UNCHANGED vars PROVE Inv'
<1>1. /\ UNCHANGED <<objects, type, kids, text, strings, machine, job, phase, marked, gray, kept>>
      /\ IInv /\ HeapTypeOK
  BY DEF vars, heap, collector, Inv, IInv, HeapOK
<1>2. /\ HeapTypeOK' /\ JobOK' /\ IsJob(job)' /\ Reachable' = Reachable
      /\ Roots' = Roots /\ Allocated' = Allocated
      /\ \A o \in Address : Kids(o)' = Kids(o)
      /\ OpenOK' /\ InstancesOK' /\ InstancesPrecedeTheirStruct'
  <2>1. phase' \in {"off", "trace", "sweep"} /\ gray' \subseteq marked'
        /\ marked' \subseteq Address /\ kept' \in 0..Len(objects)
    BY <1>1 DEF HeapTypeOK
  <2> QED BY <1>1, <2>1, MarkingStep
<1>3. Live' = Live /\ Live \subseteq Address /\ marked \subseteq Address
  BY <1>1, <1>2 DEF Live, IInv, HeapOK, ReferencesOK, Allocated, HeapTypeOK
<1>4. ReferencesOK'
  BY <1>1, <1>2, <1>3 DEF IInv, HeapOK, ReferencesOK, Closed
<1>5. CollectorOK'
  <2>1. Passed' = Passed
    BY <1>1 DEF Passed
  <2>2. \A o \in marked : Kids(o)' = Kids(o)
    BY <1>2, <1>3
  <2> QED BY <1>1, <1>2, <2>1, <2>2 DEF IInv, HeapOK, CollectorOK
<1>6. InternTableOK'
  BY <1>1, <1>3 DEF IInv, HeapOK, InternTableOK
<1>7. UpvaluesOK'
  BY <1>1, <1>3 DEF Inv, UpvaluesOK, OnlyUpvalues, Is
<1>8. SlotsOK'
  BY <1>1 DEF Inv, SlotsOK, Operands, ToDeliver, machine
<1> QED BY <1>2, <1>4, <1>5, <1>6, <1>7, <1>8 DEF Inv, IInv, HeapOK

LEMMA NextPreservesInv == ASSUME ~ Outlived PROVE Inv /\ [Next]_vars => Inv'
<1> SUFFICES ASSUME Inv, [Next]_vars PROVE Inv'
  OBVIOUS
<1> QED BY CollectPreservesInv, MutatePreservesInv, StutterPreservesInv DEF Next

(* The inductive invariant of the heap, where no upvalue outlives its slot *)
(* (resetStack leaves none behind, and no break gives up a captured local).*)
THEOREM Invariance == ASSUME ~ Outlived PROVE Spec => []Inv
<1>1. Inv /\ [Next]_vars => Inv'
  BY NextPreservesInv
<1> QED BY <1>1, InitInv, PTL DEF Spec

(* The variables of the collector and of the program keep their types, and *)
(* gc->objects lists what is allocated, each object once.                  *)
THEOREM TypeCorrect == ASSUME ~ Outlived PROVE Spec => []TypeOK
<1>1. Inv => TypeOK
  BY DEF Inv, IInv, HeapOK, SlotsOK, TypeOK
<1> QED BY <1>1, Invariance, PTL

(* Where no upvalue outlives its slot, no allocation of object.c, vm.c,    *)
(* native.c or loader.c, with a collection started in it, leaves a C       *)
(* variable, the value stack, a global or an open upvalue that leads to    *)
(* memory freeObject gave back; and what OP_GET_UPVALUE reads, in the      *)
(* upvalue or in the slot it points at, is still there.                    *)
THEOREM NothingDangles == ASSUME ~ Outlived PROVE Spec => []NoDanglingReference
<1>1. Inv => NoDanglingReference
  <2> SUFFICES ASSUME Inv PROVE NoDanglingReference
    OBVIOUS
  <2>1. HeapTypeOK /\ JobOK /\ ReferencesOK
    BY DEF Inv, IInv, HeapOK
  <2>2. Pointers \subseteq Reachable /\ Reachable \subseteq Live /\ Live \subseteq Allocated
    BY <2>1, PointersAreReachable, ReachableLives DEF ReferencesOK
  <2>3. ASSUME NEW u \in Reachable, type[u] = "upvalue"
        PROVE  Seen(u) \subseteq Allocated \cup {Nil}
    BY <2>2, <2>3, SeenLives
  <2> QED BY <2>2, <2>3 DEF NoDanglingReference
<1> QED BY <1>1, Invariance, PTL

(* traceReferences stops with exactly the reachable objects marked.        *)
THEOREM TracingIsExact == ASSUME ~ Outlived PROVE Spec => []MarkedIsReachable
<1>1. Inv => MarkedIsReachable
  BY AllBlack DEF Inv, IInv, HeapOK, MarkedIsReachable
<1> QED BY <1>1, Invariance, PTL

(* tableFindString, for copyString and takeString, compares the characters *)
(* of strings that still exist: tableRemoveWhite drops a name before sweep *)
(* frees its string.                                                       *)
THEOREM TheTableIsAlive == ASSUME ~ Outlived PROVE Spec => []TableNamesLiveStrings
<1>1. Inv => TableNamesLiveStrings
  BY DEF Inv, IInv, HeapOK, InternTableOK, TableNamesLiveStrings
<1> QED BY <1>1, Invariance, PTL

(* Comparing the pointers of two strings compares their characters, as     *)
(* valuesEqual does, although the table is weak and a collection may run   *)
(* between the search for a string and its insertion.                      *)
THEOREM PointersCompareStrings == ASSUME ~ Outlived PROVE Spec => []StringsAreInterned
<1>1. Inv => StringsAreInterned
  <2> SUFFICES ASSUME Inv, NEW s \in Reachable, NEW t \in Reachable,
                      type[s] = "string", type[t] = "string", text[s] = text[t],
                      job.at = "intern" => job.obj \notin {s, t}
               PROVE  s = t
    BY DEF StringsAreInterned
  <2>1. Reachable \subseteq Live
    BY ReachableLives DEF Inv, IInv, HeapOK
  <2>2. s \in strings /\ t \in strings
    BY <2>1 DEF Inv, IInv, HeapOK, InternTableOK
  <2> QED BY <2>2 DEF Inv, IInv, HeapOK, InternTableOK
<1> QED BY <1>1, Invariance, PTL

(* freeObject of an instance finds its struct still there to read the      *)
(* number of fields from: sweep meets every instance before its struct,    *)
(* since allocateObject links at the head and an instance keeps its struct.*)
THEOREM StructsOutliveInstances == ASSUME ~ Outlived PROVE Spec => []InstancesPrecedeTheirStruct
<1>1. Inv => InstancesPrecedeTheirStruct
  BY DEF Inv, IInv, HeapOK
<1> QED BY <1>1, Invariance, PTL

(* A collection leaves what is reachable and nothing else, all unmarked    *)
(* for the next one.                                                       *)
THEOREM SweepingIsExact == ASSUME ~ Outlived PROVE Spec => SweepIsComplete
<1>1. Inv /\ [Next]_vars =>
        [phase = "sweep" /\ phase' = "off" => Allocated' = Reachable' /\ marked' = {}]_vars
  <2> SUFFICES ASSUME Inv, Next, phase = "sweep", phase' = "off"
               PROVE  Allocated' = Reachable' /\ marked' = {}
    OBVIOUS
  <2>1. Collect
    BY ProgramWaits DEF Next
  <2>2. EndCollection
    BY <2>1 DEF Collect, StartCollection, RemoveWhite, Keep, Free, Blacken, collector
  <2> QED BY <2>2, EndCollectionPreservesIInv DEF Inv
<1> QED BY <1>1, Invariance, PTL DEF Spec, SweepIsComplete
=============================================================================
