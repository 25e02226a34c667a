------------------------------ MODULE MCRuntime ------------------------------
(***************************************************************************)
(* The smaller parts of the runtime, one at a time:                        *)
(*   hash table   keys whose hashes collide at capacity 4 and part or meet *)
(*                again at 8                                               *)
(*   natives      MCNatives                                                *)
(*   containers   Heap for a program of lists and arrays, which may        *)
(*                contain themselves: the actions such a program can take  *)
(***************************************************************************)
EXTENDS HashTable, HeapParameters, Sequences, TLC

CONSTANTS
  k1, k2, k3, k4,
  Calls, Digits, Blanks, IntMax

VARIABLES
  part,
  call, reply,
  objects, type, kids, text, strings, stack, open, location, global, job, armed, phase,
  marked, gray, kept

tableVars == vars
callVars == <<call, reply>>
heapVars == <<objects, type, kids, text, strings, stack, open, location, global, job, armed,
              phase, marked, gray, kept>>
runtimeVars == <<part, tableVars, callVars, heapVars>>

MCHash == k1 :> 3 @@ k2 :> 7 @@ k3 :> 3 @@ k4 :> 0

Natives == INSTANCE MCNatives
Containers == INSTANCE Heap

(* The values of the constants do not depend on the constants they are for. *)
Small == INSTANCE MCNatives WITH Calls <- {}, Digits <- {}, Blanks <- {}

MCCalls == Small!MCCalls
MCDigits == Small!MCDigits
MCBlanks == Small!MCBlanks

(* The parts that are not looked at have nothing to do.                    *)
RuntimeInit ==
  /\ part \in {"hash table", "natives", "containers"}
  /\ Init /\ Natives!Init /\ Containers!Init

MutateContainers ==
  \/ Containers!BeginAppend \/ Containers!FinishAppend \/ Containers!BeginEmpty("list")
  \/ Containers!ArrayValues
  \/ \E n \in 0..MaxKids : Containers!BeginArray(n)
  \/ \E o \in Address : Containers!NewEmpty(o, "list") \/ Containers!NewArray(o)
  \/ Containers!Pop \/ Containers!PushNil \/ Containers!RuntimeError
  \/ Containers!GetGlobal \/ Containers!SetGlobal
  \/ \E i \in 1..MaxKids : Containers!Load(i) \/ Containers!Store(i)

RuntimeNext ==
  /\ UNCHANGED part
  /\ \/ part = "hash table" /\ Next /\ UNCHANGED <<callVars, heapVars>>
     \/ part = "natives" /\ Natives!Next /\ UNCHANGED <<tableVars, heapVars>>
     \/ part = "containers" /\ (Containers!Collect \/ MutateContainers)
          /\ UNCHANGED <<tableVars, callVars>>

RuntimeSpec ==
  /\ RuntimeInit /\ [][RuntimeNext]_runtimeVars
  /\ WF_heapVars(part = "containers" /\ Containers!Collect)

(* native.c: what is measured is written, and it is the text or list that  *)
(* the call is for.                                                        *)
NativesDoWhatTheyPromise == Natives!NativesDoWhatTheyPromise

(* A collection of gc.c, once started, ends, also over containers that     *)
(* contain themselves.                                                     *)
CollectionEnds == Containers!CollectionEnds
=============================================================================
