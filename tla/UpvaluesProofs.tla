--------------------------- MODULE UpvaluesProofs ---------------------------
(***************************************************************************)
(* Proofs about module Upvalues, for every number of slots, frames,        *)
(* closures, upvalues and captures: the inductive invariant Structure, the      *)
(* properties of the runs that follow from it, and the refinement of       *)
(* LexicalVariables.                                                       *)
(***************************************************************************)
EXTENDS Upvalues, NaturalLemmas

USE DEF CLOSED, NOBODY

(* What closeUpvalues does to the list: the longest prefix at or above     *)
(* `last` goes; because the list is sorted nothing at or above stays.      *)
LEMMA AtOrAboveProperties ==
  ASSUME TypeOK, Sorted, NEW last \in Slot
  PROVE  /\ AtOrAbove(last) \in 0..Len(openUpvalues)
         /\ \A i \in 1..AtOrAbove(last) : location[openUpvalues[i]] >= last
         /\ \A i \in AtOrAbove(last) + 1..Len(openUpvalues) :
              location[openUpvalues[i]] < last
<1> DEFINE n == AtOrAbove(last)
           S == {i \in 1..Len(openUpvalues) : location[openUpvalues[i]] >= last}
<1>1. Len(openUpvalues) \in Nat
  BY DEF TypeOK
<1>2. \A i \in 1..Len(openUpvalues) : location[openUpvalues[i]] \in Nat
  BY UpvaluesAssumption DEF TypeOK, Slot
<1>3. \E k \in 0..Len(openUpvalues) : /\ \A i \in 1..k : i \in S
                                      /\ k < Len(openUpvalues) => (k + 1) \notin S
  BY <1>1, LongestPrefix
<1>4. \E k \in 0..Len(openUpvalues) :
        /\ \A i \in 1..k : location[openUpvalues[i]] >= last
        /\ k < Len(openUpvalues) => location[openUpvalues[k + 1]] < last
  BY <1>1, <1>2, <1>3 DEF Slot
<1>5. /\ n \in 0..Len(openUpvalues)
      /\ \A i \in 1..n : location[openUpvalues[i]] >= last
      /\ n < Len(openUpvalues) => location[openUpvalues[n + 1]] < last
  BY <1>4 DEF AtOrAbove
<1> HIDE DEF n
<1>6. ASSUME NEW i \in n + 1..Len(openUpvalues)
      PROVE  location[openUpvalues[i]] < last
  <2>1. n + 1 \in 1..Len(openUpvalues) /\ i \in 1..Len(openUpvalues)
    BY <1>1, <1>5
  <2>2. i = n + 1 \/ location[openUpvalues[n + 1]] > location[openUpvalues[i]]
    BY <1>1, <1>5, <2>1 DEF Sorted
  <2> QED BY <1>1, <1>2, <1>5, <2>1, <2>2 DEF Slot
<1> QED BY <1>5, <1>6 DEF n

(* Where captureUpvalue stops walking: everything before is above the      *)
(* slot, everything from there on is not.                                  *)
LEMMA AboveProperties ==
  ASSUME TypeOK, Sorted, NEW s \in Slot
  PROVE  /\ Above(s) \in 0..Len(openUpvalues)
         /\ \A i \in 1..Above(s) : location[openUpvalues[i]] > s
         /\ \A i \in Above(s) + 1..Len(openUpvalues) : location[openUpvalues[i]] <= s
<1> DEFINE n == Above(s)
           S == {i \in 1..Len(openUpvalues) : location[openUpvalues[i]] > s}
<1>1. Len(openUpvalues) \in Nat
  BY DEF TypeOK
<1>2. \A i \in 1..Len(openUpvalues) : location[openUpvalues[i]] \in Nat
  BY UpvaluesAssumption DEF TypeOK, Slot
<1>3. \E k \in 0..Len(openUpvalues) : /\ \A i \in 1..k : i \in S
                                      /\ k < Len(openUpvalues) => (k + 1) \notin S
  BY <1>1, LongestPrefix
<1>4. \E k \in 0..Len(openUpvalues) :
        /\ \A i \in 1..k : location[openUpvalues[i]] > s
        /\ k < Len(openUpvalues) => location[openUpvalues[k + 1]] <= s
  BY <1>1, <1>2, <1>3 DEF Slot
<1>5. /\ n \in 0..Len(openUpvalues)
      /\ \A i \in 1..n : location[openUpvalues[i]] > s
      /\ n < Len(openUpvalues) => location[openUpvalues[n + 1]] <= s
  BY <1>4 DEF Above
<1> HIDE DEF n
<1>6. ASSUME NEW i \in n + 1..Len(openUpvalues)
      PROVE  location[openUpvalues[i]] <= s
  <2>1. n + 1 \in 1..Len(openUpvalues) /\ i \in 1..Len(openUpvalues)
    BY <1>1, <1>5
  <2>2. i = n + 1 \/ location[openUpvalues[n + 1]] > location[openUpvalues[i]]
    BY <1>1, <1>5, <2>1 DEF Sorted
  <2> QED BY <1>1, <1>2, <1>5, <2>1, <2>2 DEF Slot
<1> QED BY <1>5, <1>6 DEF n

(* The step of closeUpvalues, as the proofs below use it.                  *)
LEMMA CloseUpvaluesStep ==
  ASSUME TypeOK, Sorted, NEW last \in Slot, CloseUpvalues(last)
  PROVE  /\ openUpvalues' \in Seq(Upvalue)
         /\ location' \in [Upvalue -> Slot \cup {CLOSED}]
         /\ closed' \in [Upvalue -> Value]
         /\ \E n \in 0..Len(openUpvalues) :
              /\ Len(openUpvalues') = Len(openUpvalues) - n
              /\ \A i \in 1..Len(openUpvalues') : openUpvalues'[i] = openUpvalues[i + n]
         /\ \A i \in 1..Len(openUpvalues') :
              /\ location'[openUpvalues'[i]] = location[openUpvalues'[i]]
              /\ location[openUpvalues'[i]] < last
              /\ \E j \in 1..Len(openUpvalues) : openUpvalues'[i] = openUpvalues[j]
         /\ \A u \in Upvalue : \/ location'[u] = CLOSED
                               \/ location'[u] = location[u]
         /\ \A i \in 1..Len(openUpvalues) :
              \/ location[openUpvalues[i]] >= last /\ location'[openUpvalues[i]] = CLOSED
              \/ \E j \in 1..Len(openUpvalues') : openUpvalues'[j] = openUpvalues[i]
<1> DEFINE n == AtOrAbove(last)
           L == Len(openUpvalues)
           taken == {openUpvalues[i] : i \in 1..n}
<1>1. /\ n \in 0..L
      /\ \A i \in 1..n : location[openUpvalues[i]] >= last
      /\ \A i \in n + 1..L : location[openUpvalues[i]] < last
  BY AtOrAboveProperties
<1>2. /\ openUpvalues' = SubSeq(openUpvalues, n + 1, L)
      /\ closed' = [u \in Upvalue |-> IF u \in taken THEN stack[location[u]] ELSE closed[u]]
      /\ location' = [u \in Upvalue |-> IF u \in taken THEN CLOSED ELSE location[u]]
  BY DEF CloseUpvalues
<1> HIDE DEF n
<1>3. L \in Nat /\ \A i \in 1..L : openUpvalues[i] \in Upvalue
  BY DEF TypeOK
<1>4. /\ openUpvalues' \in Seq(Upvalue)
      /\ Len(openUpvalues') = L - n
      /\ \A i \in 1..L - n : openUpvalues'[i] = openUpvalues[i + n]
  BY <1>1, <1>2, <1>3 DEF TypeOK
<1>5. location' \in [Upvalue -> Slot \cup {CLOSED}]
  BY <1>2 DEF TypeOK
<1>6. ASSUME NEW u \in taken PROVE u \in Upvalue /\ location[u] \in Slot
  BY <1>1, <1>3 DEF TypeOK, Slot
<1>7. closed' \in [Upvalue -> Value]
  BY <1>2, <1>6 DEF TypeOK
<1>8. ASSUME NEW i \in 1..L - n
      PROVE  /\ location'[openUpvalues'[i]] = location[openUpvalues'[i]]
             /\ location[openUpvalues'[i]] < last
             /\ \E j \in 1..L : openUpvalues'[i] = openUpvalues[j]
  <2>1. i + n \in n + 1..L /\ i + n \in 1..L /\ openUpvalues'[i] = openUpvalues[i + n]
    BY <1>1, <1>3, <1>4
  <2>2. location[openUpvalues[i + n]] < last
    BY <1>1, <2>1
  <2>3. openUpvalues[i + n] \notin taken
    BY <1>1, <1>3, <1>6, <2>2 DEF Slot
  <2> QED BY <1>2, <1>3, <2>1, <2>2, <2>3
<1>9. ASSUME NEW i \in 1..L
      PROVE  \/ location[openUpvalues[i]] >= last /\ location'[openUpvalues[i]] = CLOSED
             \/ \E j \in 1..Len(openUpvalues') : openUpvalues'[j] = openUpvalues[i]
  <2>1. CASE i \in 1..n
    BY <1>1, <1>2, <1>3, <2>1
  <2>2. CASE i \notin 1..n
    <3>1. i - n \in 1..L - n /\ openUpvalues'[i - n] = openUpvalues[i]
      BY <1>1, <1>3, <1>4, <2>2
    <3> QED BY <1>4, <3>1
  <2> QED BY <2>1, <2>2
<1>10. \A u \in Upvalue : location'[u] = CLOSED \/ location'[u] = location[u]
  BY <1>2
<1> QED BY <1>1, <1>4, <1>5, <1>7, <1>8, <1>9, <1>10

----------------------------------------------------------------------------
(* What every action but BreakBeforeCapture does to the two halves of the  *)
(* invariant: the structure stays, whatever became of the agreement.       *)
Preserved == Structure' /\ (Agreement => Agreement')

LEMMA InitEstablishes == Init => Structure /\ Agreement
<1> SUFFICES ASSUME Init PROVE Structure /\ Agreement
  OBVIOUS
<1>1. (CHOOSE x \in Datum : TRUE) \in Value
  BY UpvaluesAssumption DEF Value
<1>2. TypeOK
  <2>1. frames \in Seq(Frame) /\ Len(frames) <= MaxFrames /\ openUpvalues \in Seq(Upvalue)
    BY UpvaluesAssumption DEF Init
  <2>2. stack \in [Slot -> Value] /\ closed \in [Upvalue -> Value] /\ global \in Value
    BY <1>1 DEF Init
  <2>3. upvalues \in [Closure \cup {Script} -> Seq(Upvalue)]
    BY DEF Init
  <2>4. stackTop \in 0..MaxStack /\ want \in 0..MaxCaptures /\ declared \in 0..MaxVariables
    BY UpvaluesAssumption DEF Init
  <2>5. location \in [Upvalue -> Slot \cup {CLOSED}] /\ made \subseteq Closure \cup Upvalue
    BY DEF Init
  <2>6. /\ role \in [Slot -> Role]
        /\ variable \in [Slot -> Variable \cup {NOBODY}]
        /\ variableOf \in [Upvalue -> Variable \cup {NOBODY}]
    BY DEF Init, Role
  <2>7. status = "idle"
    BY DEF Init
  <2> QED BY <2>1, <2>2, <2>3, <2>4, <2>5, <2>6, <2>7 DEF TypeOK
<1>3. ControlState /\ FramesNest /\ Sorted /\ OpenUpvaluesPointAtTheirVariable
  BY DEF Init, ControlState, FramesNest, Sorted, OpenUpvaluesPointAtTheirVariable
<1>4. /\ SlotsHoldDistinctVariables /\ OneUpvaluePerVariable /\ OpenUpvaluesAreListed
      /\ ListedUpvaluesAreMade
  BY DEF Init, SlotsHoldDistinctVariables, OneUpvaluePerVariable, OpenUpvaluesAreListed,
         ListedUpvaluesAreMade
<1> QED BY <1>2, <1>3, <1>4 DEF Structure, Agreement

(* The frames' fields are slots of the stack.                              *)
LEMMA FramesAreTyped ==
  ASSUME TypeOK
  PROVE  /\ Len(frames) \in Nat
         /\ \A i \in 1..Len(frames) : /\ frames[i].closure \in Closure \cup {Script}
                                     /\ frames[i].slots \in 1..MaxStack
                                     /\ frames[i].fixed \in 1..MaxStack
<1>1. Len(frames) \in Nat /\ \A i \in 1..Len(frames) : frames[i] \in Frame
  BY DEF TypeOK
<1> QED BY <1>1 DEF Frame, Slot

(* Pushing a temporary disturbs nothing but the slot it fills.             *)
LEMMA PushStep ==
  ASSUME Structure, Running, NEW x \in Value, Push(x),
         UNCHANGED <<frames, openUpvalues, location, closed, upvalues, made, global,
                     want, status, variableOf, declared>>
  PROVE  Preserved
<1>1. TypeOK'
  BY UpvaluesAssumption DEF Structure, TypeOK, Push, Slot
<1>2. ControlState'
  BY DEF Structure, Running, ControlState
<1>b. Sorted'
  BY DEF Structure, Sorted
<1>a. FramesNest'
  <2>1. stackTop \in Nat /\ stackTop' = stackTop + 1 /\ frames' = frames
    BY DEF Structure, TypeOK, Push
  <2>2. \A i \in 1..Len(frames) : frames[i].fixed \in Nat
    BY FramesAreTyped DEF Structure
  <2> QED BY <2>1, <2>2 DEF Structure, FramesNest
<1>3. Agreement => OpenUpvaluesPointAtTheirVariable'
  BY UpvaluesAssumption DEF Structure, Agreement, TypeOK, Push, OpenUpvaluesPointAtTheirVariable,
                            Slot
<1>4. Agreement => OneUpvaluePerVariable' /\ (~Repl => OpenUpvaluesAreListed')
  BY DEF Agreement, Push, OneUpvaluePerVariable, OpenUpvaluesAreListed
<1>5. SlotsHoldDistinctVariables' /\ ListedUpvaluesAreMade'
  BY DEF Structure, TypeOK, Push, SlotsHoldDistinctVariables, ListedUpvaluesAreMade, Slot
<1> QED BY <1>1, <1>2, <1>b, <1>a, <1>3, <1>4, <1>5 DEF Structure, Agreement, Preserved

(* An assignment to a stack slot, to a closed upvalue or to the global     *)
(* leaves the structure alone.                                             *)
LEMMA AssignStep ==
  ASSUME Structure, Running,
         stack' \in [Slot -> Value], closed' \in [Upvalue -> Value], global' \in Value,
         UNCHANGED <<stackTop, frames, openUpvalues, location, upvalues, made,
                     want, status, ghosts>>
  PROVE  Preserved
<1>1. TypeOK' /\ ControlState'
  BY DEF Structure, TypeOK, ControlState, Running, ghosts
<1>2. /\ FramesNest' /\ Sorted'
      /\ SlotsHoldDistinctVariables' /\ ListedUpvaluesAreMade'
  BY DEF Structure, FramesNest, Sorted, SlotsHoldDistinctVariables, ListedUpvaluesAreMade, ghosts
<1>3. Agreement => Agreement'
  BY DEF Agreement, OpenUpvaluesPointAtTheirVariable, OneUpvaluePerVariable,
         OpenUpvaluesAreListed, ghosts
<1> QED BY <1>1, <1>2, <1>3 DEF Structure, Agreement, Preserved

(* Below a frame every frame's parameters lie lower: the contrary would    *)
(* have a nearest counterexample, which the next frame up rules out.       *)
LEMMA FramesAscend ==
  ASSUME TypeOK, FramesNest, NEW j \in 1..Len(frames), NEW i \in 1..j
  PROVE  frames[i].fixed <= frames[j].fixed
<1> DEFINE T == {d \in Nat : d < j /\ ~(frames[j - d].fixed <= frames[j].fixed)}
<1>1. SUFFICES T # {} => FALSE
  <2>1. j - i \in Nat /\ j - i < j /\ j - (j - i) = i
    BY FramesAreTyped
  <2>2. (j - i) \notin T
    BY <1>1
  <2> QED BY <2>1, <2>2
<1>2. HAVE T # {}
<1>3. PICK d \in T : \A m \in T : d <= m
  BY <1>2, LeastNatural
<1>4. j \in Nat /\ j <= Len(frames) /\ frames[j].fixed \in Int
  BY FramesAreTyped
<1>5. d # 0
  <2>1. j - 0 = j
    BY <1>4
  <2> QED BY <1>3, <1>4, <2>1
<1>6. d - 1 \in Nat /\ d - 1 < j /\ d - 1 \notin T
  <2>1. d \in Nat /\ d < j
    BY <1>3
  <2>2. d - 1 \in Nat /\ d - 1 < j /\ ~(d <= d - 1)
    BY <1>4, <1>5, <2>1
  <2>3. d - 1 \notin T
    BY <1>3, <2>2
  <2> QED BY <2>2, <2>3
<1>7. frames[j - (d - 1)].fixed <= frames[j].fixed
  BY <1>6
<1> DEFINE k == j - d
<1>8. k \in 1..Len(frames) - 1 /\ j - (d - 1) = k + 1
  BY <1>3, <1>4, <1>5, FramesAreTyped
<1>9. frames[k].fixed < frames[k + 1].slots /\ frames[k + 1].slots <= frames[k + 1].fixed
  BY <1>8, FramesAreTyped DEF FramesNest
<1>10. ~(frames[k].fixed <= frames[j].fixed)
  BY <1>3
<1>11. frames[k + 1].fixed <= frames[j].fixed
  BY <1>7, <1>8
<1>12. /\ frames[k].fixed \in Int
       /\ frames[k + 1].slots \in Int /\ frames[k + 1].fixed \in Int
  <2>1. k \in 1..Len(frames) /\ k + 1 \in 1..Len(frames)
    BY <1>8, FramesAreTyped
  <2> QED BY <2>1, FramesAreTyped, UpvaluesAssumption
<1> HIDE DEF k
<1> QED BY <1>4, <1>9, <1>10, <1>11, <1>12, SMTT(60)

(* Frames of a smaller stack still nest when the new top is not below the  *)
(* running frame's parameters.                                             *)
LEMMA FramesStayNested ==
  ASSUME TypeOK, FramesNest, Len(frames) > 0, UNCHANGED frames, stackTop' \in Nat,
         frame.fixed <= stackTop'
  PROVE  FramesNest'
<1>1. ASSUME NEW i \in 1..Len(frames) PROVE frames[i].fixed <= stackTop'
  <2>1. Len(frames) \in 1..Len(frames) /\ i \in 1..Len(frames)
    BY FramesAreTyped
  <2>2. frames[i].fixed <= frames[Len(frames)].fixed
    BY <2>1, FramesAscend
  <2> QED BY <2>1, <2>2, FramesAreTyped DEF frame
<1> QED BY <1>1 DEF FramesNest

(* When a frame returns, those below it nest under its own slot.           *)
LEMMA FramesNestAfterReturn ==
  ASSUME TypeOK, FramesNest, Len(frames) > 1, stackTop' = frame.slots,
         frames' = SubSeq(frames, 1, Len(frames) - 1)
  PROVE  FramesNest'
<1> DEFINE k == Len(frames) - 1
<1>1. /\ k \in 1..Len(frames) /\ k \in 1..Len(frames) - 1 /\ k + 1 = Len(frames)
      /\ k \in Nat
  BY FramesAreTyped
<1>2. Len(frames') = k /\ \A i \in 1..k : frames'[i] = frames[i]
  BY <1>1 DEF TypeOK
<1> HIDE DEF k
<1>3. frames[k].fixed < frame.slots
  BY <1>1 DEF FramesNest, frame
<1>4. ASSUME NEW i \in 1..k
      PROVE  frames[i].slots <= frames[i].fixed /\ frames[i].fixed <= frame.slots
  <2>1. i \in 1..Len(frames) /\ frames[i].fixed <= frames[k].fixed
    BY <1>1, FramesAscend
  <2>2. frame.slots \in Int
    BY <1>1, FramesAreTyped DEF frame
  <2> QED BY <1>1, <1>3, <2>1, <2>2, FramesAreTyped DEF FramesNest
<1>5. ASSUME NEW i \in 1..k - 1 PROVE frames[i].fixed < frames[i + 1].slots
  <2>1. i \in 1..Len(frames) - 1
    BY <1>1
  <2> QED BY <2>1 DEF FramesNest
<1>6. \A i \in 1..k - 1 : i \in 1..k /\ i + 1 \in 1..k
  BY <1>1
<1> QED BY <1>2, <1>4, <1>5, <1>6 DEF FramesNest

(* Giving up the slots from `last` up with closeUpvalues(last) keeps the   *)
(* list sorted and every remaining open upvalue on its variable.           *)
LEMMA GiveUpStep ==
  ASSUME Structure, NEW last \in Slot, CloseUpvalues(last), Forget(last - 1),
         stackTop' \in {last - 1, last}, UNCHANGED <<made, variableOf, declared>>,
         status = "running"
  PROVE  /\ Sorted' /\ SlotsHoldDistinctVariables' /\ ListedUpvaluesAreMade'
         /\ Agreement => Agreement'
<1> USE UpvaluesAssumption
<1>1. TypeOK /\ Sorted
  BY DEF Structure
<1>2. PICK n \in 0..Len(openUpvalues) :
        /\ Len(openUpvalues') = Len(openUpvalues) - n
        /\ \A i \in 1..Len(openUpvalues') : openUpvalues'[i] = openUpvalues[i + n]
  BY <1>1, CloseUpvaluesStep
<1>3. /\ \A i \in 1..Len(openUpvalues') :
           /\ location'[openUpvalues'[i]] = location[openUpvalues'[i]]
           /\ location[openUpvalues'[i]] < last
           /\ \E j \in 1..Len(openUpvalues) : openUpvalues'[i] = openUpvalues[j]
      /\ \A u \in Upvalue : location'[u] = CLOSED \/ location'[u] = location[u]
      /\ \A i \in 1..Len(openUpvalues) :
           \/ location[openUpvalues[i]] >= last /\ location'[openUpvalues[i]] = CLOSED
           \/ \E j \in 1..Len(openUpvalues') : openUpvalues'[j] = openUpvalues[i]
      /\ openUpvalues' \in Seq(Upvalue)
  BY <1>1, CloseUpvaluesStep
<1>4. Len(openUpvalues) \in Nat /\ \A i \in 1..Len(openUpvalues) : openUpvalues[i] \in Upvalue
  BY <1>1 DEF TypeOK
<1>5. Sorted'
  <2>1. ASSUME NEW i \in 1..Len(openUpvalues'), NEW j \in 1..Len(openUpvalues'), i < j
        PROVE  location'[openUpvalues'[i]] > location'[openUpvalues'[j]]
    <3>1. /\ i + n \in 1..Len(openUpvalues) /\ j + n \in 1..Len(openUpvalues) /\ i + n < j + n
      BY <1>2, <1>4, <2>1
    <3>2. location[openUpvalues[i + n]] > location[openUpvalues[j + n]]
      BY <1>1, <3>1 DEF Sorted
    <3> QED BY <1>2, <1>3, <3>2
  <2> QED BY <2>1 DEF Sorted
<1>6. ASSUME NEW s \in Slot
      PROVE  /\ s < last => role'[s] = role[s] /\ variable'[s] = variable[s]
             /\ ~(s < last) => role'[s] = "temp" /\ variable'[s] = NOBODY
  BY DEF Forget, Slot
<1>7. Agreement => OpenUpvaluesPointAtTheirVariable'
  <2> HAVE Agreement
  <2>1. ASSUME NEW i \in 1..Len(openUpvalues')
        PROVE  LET u == openUpvalues'[i]
               IN  /\ location'[u] \in 1..stackTop'
                   /\ role'[location'[u]] = "captured"
                   /\ variable'[location'[u]] = variableOf'[u]
    <3> DEFINE u == openUpvalues'[i]
    <3>1. PICK j \in 1..Len(openUpvalues) : u = openUpvalues[j]
      BY <1>3
    <3>2. /\ location[u] \in 1..stackTop /\ role[location[u]] = "captured"
          /\ variable[location[u]] = variableOf[u]
      BY <3>1 DEF Agreement, OpenUpvaluesPointAtTheirVariable
    <3>3. location'[u] = location[u] /\ location[u] < last
      BY <1>3
    <3>4. location[u] \in Slot
      BY <1>1, <3>2 DEF TypeOK, Slot
    <3>5. location[u] \in 1..stackTop'
      BY <3>2, <3>3, <3>4 DEF Slot
    <3> QED BY <1>6, <3>2, <3>3, <3>4, <3>5
  <2> QED BY <2>1 DEF OpenUpvaluesPointAtTheirVariable
<1>8. SlotsHoldDistinctVariables'
  <2>1. \A s \in Slot : s > stackTop' => ~(s < last)
    BY <1>1 DEF TypeOK, Slot
  <2>2. declared \in Nat
    BY <1>1 DEF TypeOK
  <2> QED BY <1>6, <2>1, <2>2 DEF Structure, SlotsHoldDistinctVariables
<1>9. Agreement => OneUpvaluePerVariable'
  <2> HAVE Agreement
  <2>1. ASSUME NEW u \in Upvalue \cap made, NEW s \in Slot, variable'[s] = variableOf'[u]
        PROVE  \E j \in 1..Len(openUpvalues') : openUpvalues'[j] = u
    <3>1. variableOf[u] \in 1..declared /\ declared \in Nat
      BY <1>1 DEF Agreement, OneUpvaluePerVariable, TypeOK
    <3>2. s < last /\ variable[s] = variableOf[u]
      BY <1>6, <2>1, <3>1
    <3>3. PICK i \in 1..Len(openUpvalues) : openUpvalues[i] = u
      BY <3>2 DEF Agreement, OneUpvaluePerVariable
    <3>4. /\ location[u] \in 1..stackTop
          /\ variable[location[u]] = variableOf[u]
      BY <3>3 DEF Agreement, OpenUpvaluesPointAtTheirVariable
    <3>5. location[u] \in Slot
      BY <1>1, <3>4 DEF TypeOK, Slot
    <3>6. location[u] = s
      BY <3>1, <3>2, <3>4, <3>5 DEF Structure, SlotsHoldDistinctVariables
    <3>7. ~(location[openUpvalues[i]] >= last)
      BY <3>2, <3>3, <3>6 DEF Slot
    <3> QED BY <1>3, <3>3, <3>7
  <2>2. \A u \in Upvalue \ made : location'[u] = CLOSED
    BY <1>3 DEF Agreement, OneUpvaluePerVariable
  <2> QED BY <2>1, <2>2 DEF Agreement, OneUpvaluePerVariable
<1>10. Agreement => (~Repl => OpenUpvaluesAreListed')
  BY <1>3 DEF Agreement, OpenUpvaluesAreListed
<1>11. ListedUpvaluesAreMade'
  BY <1>3 DEF Structure, ListedUpvaluesAreMade
<1> QED BY <1>5, <1>7, <1>8, <1>9, <1>10, <1>11 DEF Agreement

(* Popping slots at which no listed upvalue points needs no closing.       *)
LEMMA DropStep ==
  ASSUME Structure, NEW top \in Nat, top < stackTop, Forget(top),
         stackTop' \in {top, top + 1},
         UNCHANGED <<openUpvalues, location, made, variableOf, declared, status>>
  PROVE  /\ Sorted' /\ SlotsHoldDistinctVariables' /\ ListedUpvaluesAreMade'
         /\ /\ Agreement
            /\ \A s \in Slot : top < s /\ s <= stackTop =>
                 \A i \in 1..Len(openUpvalues) : location[openUpvalues[i]] # s
            => Agreement'
<1> USE UpvaluesAssumption
<1>1. /\ stackTop \in Nat /\ stackTop <= MaxStack /\ declared \in Nat
  BY DEF Structure, TypeOK
<1>2. ASSUME NEW s \in Slot
      PROVE  /\ s <= top => role'[s] = role[s] /\ variable'[s] = variable[s]
             /\ ~(s <= top) => role'[s] = "temp" /\ variable'[s] = NOBODY
  BY DEF Forget, Slot
<1>3. Sorted'
  BY DEF Structure, Sorted
<1>4. /\ Agreement
      /\ \A s \in Slot : top < s /\ s <= stackTop =>
           \A i \in 1..Len(openUpvalues) : location[openUpvalues[i]] # s
      => OpenUpvaluesPointAtTheirVariable'
  <2> HAVE /\ Agreement
           /\ \A s \in Slot : top < s /\ s <= stackTop =>
                \A i \in 1..Len(openUpvalues) : location[openUpvalues[i]] # s
  <2>1. ASSUME NEW i \in 1..Len(openUpvalues)
        PROVE  LET u == openUpvalues[i]
               IN  /\ location[u] \in 1..stackTop'
                   /\ role'[location[u]] = "captured"
                   /\ variable'[location[u]] = variableOf[u]
    <3> DEFINE u == openUpvalues[i]
    <3>1. /\ location[u] \in 1..stackTop /\ role[location[u]] = "captured"
          /\ variable[location[u]] = variableOf[u]
      BY DEF Agreement, OpenUpvaluesPointAtTheirVariable
    <3>2. location[u] \in Slot /\ location[u] <= top
      BY <1>1, <3>1 DEF Slot
    <3>3. location[u] \in 1..stackTop'
      BY <3>1, <3>2 DEF Slot
    <3> QED BY <1>2, <3>1, <3>2, <3>3
  <2> QED BY <2>1 DEF OpenUpvaluesPointAtTheirVariable
<1>5. SlotsHoldDistinctVariables'
  <2>1. \A s \in Slot : s > stackTop' => ~(s <= top)
    BY <1>1 DEF Slot
  <2> QED BY <1>1, <1>2, <2>1 DEF Structure, SlotsHoldDistinctVariables
<1>6. Agreement => OneUpvaluePerVariable'
  <2> HAVE Agreement
  <2>1. ASSUME NEW u \in Upvalue \cap made, NEW s \in Slot, variable'[s] = variableOf[u]
        PROVE  variable[s] = variableOf[u]
    BY <1>1, <1>2, <2>1 DEF Agreement, OneUpvaluePerVariable
  <2> QED BY <2>1 DEF Agreement, OneUpvaluePerVariable
<1>7. Agreement => (~Repl => OpenUpvaluesAreListed')
  BY DEF Agreement, OpenUpvaluesAreListed
<1>8. ListedUpvaluesAreMade'
  BY DEF Structure, ListedUpvaluesAreMade
<1> QED BY <1>3, <1>4, <1>5, <1>6, <1>7, <1>8 DEF Agreement

(* A declaration gives slots above every captured one fresh variables.     *)
LEMMA DeclareStep ==
  ASSUME Structure, NEW first \in Nat, NEW last \in Nat, last <= MaxStack,
         stackTop <= stackTop', stackTop' \in Nat, last <= stackTop',
         NEW low \in Slot, low <= first,
         \A s \in Slot : s < low \/ s > last => role'[s] = role[s] /\ variable'[s] = variable[s],
         \A s \in Slot : low <= s /\ s <= last => role[s] = "temp",
         \A s \in Slot : low <= s /\ s < first => role'[s] = "temp" /\ variable'[s] = NOBODY,
         \A s \in Slot : first <= s /\ s <= last =>
             role'[s] # "temp" /\ variable'[s] = declared + (s + 1 - first),
         declared' = declared + (last + 1 - first), first <= last + 1,
         UNCHANGED <<openUpvalues, location, variableOf, status>>,
         made' \cap Upvalue = made \cap Upvalue, made \subseteq made'
  PROVE  /\ Sorted' /\ SlotsHoldDistinctVariables' /\ ListedUpvaluesAreMade'
         /\ Agreement => Agreement'
<1> USE UpvaluesAssumption
<1>1. /\ stackTop \in Nat /\ stackTop <= MaxStack /\ declared \in Nat
      /\ \A s \in Slot : variable[s] \in Nat
  BY DEF Structure, TypeOK, Variable
<1>2. Sorted'
  BY DEF Structure, Sorted
<1>3. Agreement => OpenUpvaluesPointAtTheirVariable'
  <2> HAVE Agreement
  <2>1. ASSUME NEW i \in 1..Len(openUpvalues)
        PROVE  LET u == openUpvalues[i]
               IN  /\ location[u] \in 1..stackTop'
                   /\ role'[location[u]] = "captured"
                   /\ variable'[location[u]] = variableOf[u]
    <3> DEFINE u == openUpvalues[i]
    <3>1. /\ location[u] \in 1..stackTop /\ role[location[u]] = "captured"
          /\ variable[location[u]] = variableOf[u]
      BY DEF Agreement, OpenUpvaluesPointAtTheirVariable
    <3>2. location[u] \in Slot /\ location[u] \in 1..stackTop'
      BY <1>1, <3>1 DEF Slot
    <3>3. location[u] < low \/ location[u] > last
      BY <3>1, <3>2 DEF Slot
    <3> QED BY <3>1, <3>2, <3>3
  <2> QED BY <2>1 DEF OpenUpvaluesPointAtTheirVariable
<1>4. ASSUME NEW s \in Slot
      PROVE  \/ s < low \/ s > last
             \/ low <= s /\ s < first /\ s <= last
             \/ first <= s /\ s <= last
  BY DEF Slot
<1>5. ASSUME NEW s \in Slot
      PROVE  \/ variable'[s] = NOBODY /\ role'[s] = "temp"
             \/ /\ variable'[s] = variable[s] /\ role'[s] = role[s]
                /\ s < low \/ s > last
             \/ /\ variable'[s] = declared + (s + 1 - first) /\ role'[s] # "temp"
                /\ first <= s /\ s <= last
                /\ variable'[s] > declared /\ variable'[s] <= declared'
  BY <1>1, <1>4 DEF Slot
<1>6. declared' \in Nat /\ declared <= declared'
  BY <1>1 DEF Slot
<1>7. SlotsHoldDistinctVariables'
  <2>1. \A s \in Slot : role'[s] = "temp" <=> variable'[s] = NOBODY
    BY <1>1, <1>5 DEF Structure, SlotsHoldDistinctVariables
  <2>2. \A s \in Slot : s > stackTop' => variable'[s] = NOBODY
    BY <1>1, <1>5 DEF Structure, SlotsHoldDistinctVariables, Slot
  <2>3. \A s \in Slot : variable'[s] <= declared'
    BY <1>1, <1>5, <1>6 DEF Structure, SlotsHoldDistinctVariables
  <2>4. ASSUME NEW s \in Slot, NEW t \in Slot, variable'[s] = variable'[t],
               variable'[s] # NOBODY
        PROVE  s = t
    <3>1. variable[s] <= declared /\ variable[t] <= declared
      BY DEF Structure, SlotsHoldDistinctVariables
    <3> QED BY <1>1, <1>5, <2>4, <3>1 DEF Structure, SlotsHoldDistinctVariables, Slot
  <2> QED BY <2>1, <2>2, <2>3, <2>4 DEF SlotsHoldDistinctVariables
<1>8. Agreement => OneUpvaluePerVariable'
  <2> HAVE Agreement
  <2>1. ASSUME NEW u \in Upvalue \cap made, NEW s \in Slot, variable'[s] = variableOf[u]
        PROVE  variable[s] = variableOf[u]
    <3>1. variableOf[u] \in 1..declared
      BY DEF Agreement, OneUpvaluePerVariable
    <3> QED BY <1>1, <1>5, <2>1, <3>1
  <2>2. \A u \in Upvalue \cap made : variableOf[u] \in 1..declared'
    BY <1>1, <1>6 DEF Agreement, OneUpvaluePerVariable
  <2>3. Upvalue \ made' = Upvalue \ made
    OBVIOUS
  <2> QED BY <2>1, <2>2, <2>3 DEF Agreement, OneUpvaluePerVariable
<1>9. Agreement => (~Repl => OpenUpvaluesAreListed')
  BY DEF Agreement, OpenUpvaluesAreListed
<1>10. ListedUpvaluesAreMade'
  BY DEF Structure, ListedUpvaluesAreMade
<1> QED BY <1>2, <1>3, <1>7, <1>8, <1>9, <1>10 DEF Agreement

(* Linking a new upvalue where captureUpvalue stops keeps the list sorted  *)
(* and makes the variable's first upvalue.                                 *)
LEMMA NewUpvalueStep ==
  ASSUME Structure, status = "running", NEW c, NEW s \in Slot, NEW u \in Upvalue, NewUpvalue(c, s, u),
         s <= stackTop, role[s] = "captured",
         UNCHANGED <<stackTop, role, variable, declared, status>>
  PROVE  /\ openUpvalues' \in Seq(Upvalue)
         /\ Sorted' /\ SlotsHoldDistinctVariables' /\ ListedUpvaluesAreMade'
         /\ Agreement => Agreement'
<1> USE UpvaluesAssumption
<1> DEFINE n == Above(s)
           L == Len(openUpvalues)
<1>1. TypeOK /\ Sorted /\ L \in Nat /\ \A i \in 1..L : openUpvalues[i] \in Upvalue
  BY DEF Structure, TypeOK
<1>2. /\ n \in 0..L
      /\ \A i \in 1..n : location[openUpvalues[i]] > s
      /\ \A i \in n + 1..L : location[openUpvalues[i]] <= s
  BY <1>1, AboveProperties
<1>3. /\ ~(n < L /\ location[openUpvalues[n + 1]] = s)
      /\ u \notin made /\ made' = made \cup {u}
      /\ openUpvalues' = Insert(u, n)
      /\ location' = [location EXCEPT ![u] = s]
      /\ variableOf' = [variableOf EXCEPT ![u] = variable[s]]
  BY DEF NewUpvalue
<1> HIDE DEF n
<1>4. /\ Len(openUpvalues') = L + 1
      /\ openUpvalues' \in Seq(Upvalue)
      /\ \A i \in 1..L + 1 :
           openUpvalues'[i] = IF i <= n THEN openUpvalues[i]
                              ELSE IF i = n + 1 THEN u ELSE openUpvalues[i - 1]
  BY <1>1, <1>2, <1>3 DEF Insert
<1>5. \A i \in 1..L : openUpvalues[i] \in made /\ openUpvalues[i] # u
  BY <1>3 DEF Structure, ListedUpvaluesAreMade
<1>6. /\ location'[u] = s /\ variableOf'[u] = variable[s]
      /\ \A w \in Upvalue : w # u => location'[w] = location[w] /\ variableOf'[w] = variableOf[w]
  BY <1>1, <1>3 DEF TypeOK
<1>7. \A i \in 1..L : location[openUpvalues[i]] \in Slot \cup {CLOSED}
  BY <1>1 DEF TypeOK
<1>8. \A i \in n + 1..L : location[openUpvalues[i]] < s
  <2>1. ASSUME NEW i \in n + 1..L PROVE location[openUpvalues[i]] < s
    <3>1. n + 1 \in 1..L /\ i \in 1..L /\ n < L
      BY <1>1, <1>2
    <3>2. location[openUpvalues[n + 1]] < s
      BY <1>2, <1>3, <1>7, <3>1 DEF Slot
    <3>3. i = n + 1 \/ location[openUpvalues[n + 1]] > location[openUpvalues[i]]
      BY <1>1, <1>2, <3>1 DEF Sorted
    <3> QED BY <1>7, <3>1, <3>2, <3>3 DEF Slot
  <2> QED BY <2>1
<1>a. \A k \in 1..L + 1 :
        /\ k <= n => location'[openUpvalues'[k]] > s
        /\ k = n + 1 => location'[openUpvalues'[k]] = s
        /\ k > n + 1 => location'[openUpvalues'[k]] < s
  <2>1. ASSUME NEW k \in 1..L + 1, k <= n PROVE location'[openUpvalues'[k]] > s
    <3>1. k \in 1..n /\ k \in 1..L
      BY <1>1, <1>2, <2>1
    <3> QED BY <1>2, <1>4, <1>5, <1>6, <1>1, <2>1, <3>1
  <2>2. ASSUME NEW k \in 1..L + 1, k = n + 1 PROVE location'[openUpvalues'[k]] = s
    BY <1>1, <1>2, <1>4, <1>6, <2>2
  <2>3. ASSUME NEW k \in 1..L + 1, k > n + 1 PROVE location'[openUpvalues'[k]] < s
    <3>1. k - 1 \in n + 1..L /\ k - 1 \in 1..L
      BY <1>1, <1>2, <2>3
    <3> QED BY <1>1, <1>2, <1>4, <1>5, <1>6, <1>8, <2>3, <3>1
  <2> QED BY <2>1, <2>2, <2>3
<1>b. s \in Int /\ n \in Int /\ \A k \in 1..L + 1 : location'[openUpvalues'[k]] \in Int
  <2>1. \A k \in 1..L + 1 : openUpvalues'[k] \in Upvalue
    BY <1>4
  <2>2. location' \in [Upvalue -> Slot \cup {CLOSED}]
    BY <1>1, <1>3 DEF TypeOK
  <2> QED BY <1>1, <1>2, <2>1, <2>2 DEF Slot
<1>9. Sorted'
  <2>1. ASSUME NEW i \in 1..L + 1, NEW j \in 1..L + 1, i < j
        PROVE  location'[openUpvalues'[i]] > location'[openUpvalues'[j]]
    <3>1. CASE j <= n
      <4>1. i \in 1..L /\ j \in 1..L /\ i <= n
        BY <1>1, <1>2, <2>1, <3>1
      <4> QED BY <1>1, <1>4, <1>5, <1>6, <2>1, <3>1, <4>1 DEF Sorted
    <3>2. CASE i <= n /\ j > n
      BY <1>a, <1>b, <3>2
    <3>3. CASE j > n + 1 /\ i = n + 1
      BY <1>a, <1>b, <3>3
    <3>4. CASE j > n + 1 /\ i > n + 1
      <4>1. i - 1 \in 1..L /\ j - 1 \in 1..L /\ i - 1 < j - 1
        BY <1>1, <1>2, <2>1, <3>4
      <4>2. /\ openUpvalues'[i] = openUpvalues[i - 1]
            /\ openUpvalues'[j] = openUpvalues[j - 1]
        BY <1>1, <1>2, <1>4, <3>4
      <4>3. location[openUpvalues[i - 1]] > location[openUpvalues[j - 1]]
        BY <1>1, <4>1 DEF Sorted
      <4>4. /\ location'[openUpvalues[i - 1]] = location[openUpvalues[i - 1]]
            /\ location'[openUpvalues[j - 1]] = location[openUpvalues[j - 1]]
        BY <1>1, <1>5, <1>6, <4>1
      <4> QED BY <4>2, <4>3, <4>4
    <3> QED BY <1>2, <2>1, <3>1, <3>2, <3>3, <3>4
  <2> QED BY <1>4, <2>1 DEF Sorted
<1>10. \A i \in 1..L + 1 : \/ openUpvalues'[i] = u
                            \/ \E j \in 1..L : openUpvalues'[i] = openUpvalues[j]
  <2>1. ASSUME NEW i \in 1..L + 1
        PROVE  \/ openUpvalues'[i] = u
               \/ \E j \in 1..L : openUpvalues'[i] = openUpvalues[j]
    <3>1. CASE i <= n
      BY <1>1, <1>2, <1>4, <3>1
    <3>2. CASE i > n + 1
      <4>1. i - 1 \in 1..L
        BY <1>1, <1>2, <3>2
      <4> QED BY <1>2, <1>4, <3>2, <4>1
    <3> QED BY <1>2, <1>4, <3>1, <3>2
  <2> QED BY <2>1
<1>11. /\ \E j \in 1..L + 1 : openUpvalues'[j] = u
       /\ \A i \in 1..L : \E j \in 1..L + 1 : openUpvalues'[j] = openUpvalues[i]
  <2>1. n + 1 \in 1..L + 1 /\ openUpvalues'[n + 1] = u
    BY <1>1, <1>2, <1>4
  <2>2. ASSUME NEW i \in 1..L PROVE \E j \in 1..L + 1 : openUpvalues'[j] = openUpvalues[i]
    <3>1. CASE i <= n
      BY <1>1, <1>4, <3>1
    <3>2. CASE i > n
      <4>1. i + 1 \in 1..L + 1 /\ ~(i + 1 <= n) /\ i + 1 # n + 1 /\ (i + 1) - 1 = i
        BY <1>1, <1>2, <3>2
      <4>2. openUpvalues'[i + 1] = openUpvalues[i]
        BY <1>4, <4>1
      <4> QED BY <4>1, <4>2
    <3> QED BY <1>2, <3>1, <3>2
  <2> QED BY <2>1, <2>2
<1>12. Agreement => OpenUpvaluesPointAtTheirVariable'
  <2> HAVE Agreement
  <2>1. s \in 1..stackTop
    BY DEF Slot
  <2>2. \A i \in 1..L : /\ location[openUpvalues[i]] \in 1..stackTop
                        /\ role[location[openUpvalues[i]]] = "captured"
                        /\ variable[location[openUpvalues[i]]] = variableOf[openUpvalues[i]]
    BY DEF Agreement, OpenUpvaluesPointAtTheirVariable
  <2>3. ASSUME NEW i \in 1..L + 1
        PROVE  /\ location'[openUpvalues'[i]] \in 1..stackTop
               /\ role[location'[openUpvalues'[i]]] = "captured"
               /\ variable[location'[openUpvalues'[i]]] = variableOf'[openUpvalues'[i]]
    <3>1. CASE openUpvalues'[i] = u
      BY <1>6, <2>1, <3>1
    <3>2. CASE openUpvalues'[i] # u
      <4>1. PICK j \in 1..L : openUpvalues'[i] = openUpvalues[j]
        BY <1>10, <3>2
      <4>2. /\ location'[openUpvalues[j]] = location[openUpvalues[j]]
            /\ variableOf'[openUpvalues[j]] = variableOf[openUpvalues[j]]
        BY <1>1, <1>5, <1>6
      <4> QED BY <2>2, <4>1, <4>2
    <3> QED BY <3>1, <3>2
  <2> QED BY <1>4, <2>3 DEF OpenUpvaluesPointAtTheirVariable
<1>13. SlotsHoldDistinctVariables'
  BY DEF Structure, SlotsHoldDistinctVariables
<1>14. variable[s] \in 1..declared
  BY <1>1 DEF Structure, SlotsHoldDistinctVariables, TypeOK, Variable
<1>15. ASSUME Agreement, NEW w \in Upvalue \cap made PROVE variableOf[w] # variable[s]
  <2>1. SUFFICES ASSUME variableOf[w] = variable[s] PROVE FALSE
    OBVIOUS
  <2>2. PICK i \in 1..L : openUpvalues[i] = w
    BY <1>15, <2>1 DEF Agreement, OneUpvaluePerVariable
  <2>a. location[w] \in 1..stackTop /\ variable[location[w]] = variableOf[w]
    BY <1>15, <2>2 DEF Agreement, OpenUpvaluesPointAtTheirVariable
  <2>b. location[w] \in Slot
    BY <1>1, <2>a DEF TypeOK, Slot
  <2>3. location[w] = s
    BY <1>14, <2>1, <2>a, <2>b DEF Structure, SlotsHoldDistinctVariables
  <2>4. i \in 1..n \/ i \in n + 1..L
    BY <1>1, <1>2
  <2> QED BY <1>2, <1>8, <2>2, <2>3, <2>4 DEF Slot
<1>16. Agreement => OneUpvaluePerVariable'
  <2> HAVE Agreement
  <2>1. \A w \in Upvalue \ made' : location'[w] = CLOSED /\ variableOf'[w] = NOBODY
    BY <1>3, <1>6 DEF Agreement, OneUpvaluePerVariable
  <2>2. \A w \in Upvalue \cap made' : variableOf'[w] \in 1..declared'
    BY <1>3, <1>6, <1>14 DEF Agreement, OneUpvaluePerVariable
  <2>3. \A v, w \in Upvalue \cap made' : variableOf'[v] = variableOf'[w] => v = w
    BY <1>3, <1>6, <1>15 DEF Agreement, OneUpvaluePerVariable
  <2>4. ASSUME NEW w \in Upvalue \cap made', NEW t \in Slot, variable'[t] = variableOf'[w]
        PROVE  \E i \in 1..Len(openUpvalues') : openUpvalues'[i] = w
    <3>1. CASE w = u
      BY <1>4, <1>11, <3>1
    <3>2. CASE w # u
      <4>1. \E i \in 1..L : openUpvalues[i] = w
        BY <1>3, <1>6, <2>4, <3>2 DEF Agreement, OneUpvaluePerVariable
      <4> QED BY <1>4, <1>11, <4>1
    <3> QED BY <3>1, <3>2
  <2> QED BY <2>1, <2>2, <2>3, <2>4 DEF OneUpvaluePerVariable
<1>17. Agreement => (~Repl => OpenUpvaluesAreListed')
  <2> HAVE Agreement
  <2>1. ASSUME ~Repl, NEW w \in Upvalue, location'[w] # CLOSED
        PROVE  \E i \in 1..Len(openUpvalues') : openUpvalues'[i] = w
    <3>1. CASE w = u
      BY <1>4, <1>11, <3>1
    <3>2. CASE w # u
      BY <1>4, <1>6, <1>11, <2>1, <3>2 DEF Agreement, OpenUpvaluesAreListed
    <3> QED BY <3>1, <3>2
  <2> QED BY <2>1 DEF OpenUpvaluesAreListed
<1>18. ListedUpvaluesAreMade'
  BY <1>3, <1>4, <1>5, <1>10 DEF ListedUpvaluesAreMade
<1> QED BY <1>4, <1>9, <1>12, <1>13, <1>16, <1>17, <1>18 DEF Agreement

----------------------------------------------------------------------------
(* One lemma per action, or per group of actions that move the same state. *)

(* What Running and the invariant say of the state an instruction meets.   *)
LEMMA RunningState ==
  ASSUME Structure, status = "running"
  PROVE  /\ stackTop \in 1..MaxStack /\ stackTop \in Slot
         /\ Len(frames) \in Nat \ {0}
         /\ frame.closure \in Closure \cup {Script}
         /\ frame.slots \in Slot /\ frame.fixed \in Slot
         /\ frame.slots <= frame.fixed /\ frame.fixed <= stackTop
<1>1. Len(frames) \in Nat /\ Len(frames) > 0
  BY FramesAreTyped DEF Structure, ControlState
<1>2. Len(frames) \in 1..Len(frames)
  BY <1>1
<1>3. /\ frame.closure \in Closure \cup {Script}
      /\ frame.slots \in 1..MaxStack /\ frame.fixed \in 1..MaxStack
  BY <1>2, FramesAreTyped DEF Structure, frame
<1>4. frame.slots <= frame.fixed /\ frame.fixed <= stackTop
  BY <1>2 DEF Structure, FramesNest, frame
<1>5. stackTop \in 0..MaxStack
  BY DEF Structure, TypeOK
<1> QED BY <1>1, <1>3, <1>4, <1>5, UpvaluesAssumption DEF Slot

(* Forgetting the variables above a slot keeps the ghosts typed.           *)
LEMMA ForgetTyped ==
  ASSUME TypeOK, NEW top \in Int, Forget(top)
  PROVE  /\ role' \in [Slot -> Role]
         /\ variable' \in [Slot -> Variable \cup {NOBODY}]
BY DEF TypeOK, Forget, Role

LEMMA PushingPreserves ==
  ASSUME Structure, PushValue \/ GetGlobal \/ (\E s \in Slot : GetLocal(s))
                 \/ (\E i \in 1..MaxCaptures : GetUpvalue(i))
  PROVE  Preserved
<1>1. TypeOK
  BY DEF Structure
<1>2. CASE PushValue
  <2>1. PICK x \in Datum : Push(x)
    BY <1>2 DEF PushValue
  <2> QED BY <1>2, <2>1, PushStep DEF PushValue, Value
<1>3. CASE GetGlobal
  BY <1>1, <1>3, PushStep DEF GetGlobal, TypeOK
<1>4. ASSUME NEW s \in Slot, GetLocal(s) PROVE Preserved
  <2>1. stack[s] \in Value
    BY <1>1 DEF TypeOK
  <2> QED BY <1>4, <2>1, PushStep DEF GetLocal
<1>5. ASSUME NEW i \in 1..MaxCaptures, GetUpvalue(i) PROVE Preserved
  <2> DEFINE u == upvalues[frame.closure][i]
  <2>1. frame.closure \in Closure \cup {Script}
    BY <1>5, RunningState DEF GetUpvalue, Running
  <2>2. u \in Upvalue
    BY <1>1, <1>5, <2>1 DEF TypeOK, GetUpvalue
  <2>3. Read(u) \in Value
    BY <1>1, <2>2 DEF TypeOK, Read
  <2> QED BY <1>5, <2>3, PushStep DEF GetUpvalue
<1> QED BY <1>2, <1>3, <1>4, <1>5

LEMMA AssigningPreserves ==
  ASSUME Structure, SetGlobal \/ (\E s \in Slot : SetLocal(s))
                 \/ (\E i \in 1..MaxCaptures : SetUpvalue(i))
  PROVE  Preserved
<1>1. TypeOK /\ stack \in [Slot -> Value] /\ closed \in [Upvalue -> Value] /\ global \in Value
  BY DEF Structure, TypeOK
<1>2. status = "running" => stack[stackTop] \in Value
  BY <1>1, RunningState
<1>3. CASE SetGlobal
  BY <1>1, <1>2, <1>3, AssignStep DEF SetGlobal, Running
<1>4. ASSUME NEW s \in Slot, SetLocal(s) PROVE Preserved
  BY <1>1, <1>2, <1>4, AssignStep DEF SetLocal, Running
<1>5. ASSUME NEW i \in 1..MaxCaptures, SetUpvalue(i) PROVE Preserved
  <2> DEFINE u == upvalues[frame.closure][i]
  <2>1. stack' \in [Slot -> Value] /\ closed' \in [Upvalue -> Value]
    BY <1>1, <1>2, <1>5 DEF SetUpvalue, Running
  <2> QED BY <1>1, <1>5, <2>1, AssignStep DEF SetUpvalue
<1> QED BY <1>3, <1>4, <1>5

LEMMA PopTemporaryPreserves == Structure /\ PopTemporary => Preserved
<1> SUFFICES ASSUME Structure, PopTemporary PROVE Preserved
  OBVIOUS
<1>1. Running /\ Forget(stackTop - 1) /\ stackTop' = stackTop - 1 /\ TypeOK
  BY DEF PopTemporary, Structure
<1>2. /\ stackTop - 1 \in Nat /\ stackTop - 1 \in 0..MaxStack
      /\ stackTop - 1 < stackTop /\ frame.fixed <= stackTop - 1
  BY <1>1, RunningState, UpvaluesAssumption DEF PopTemporary, InBody, Running, Slot
<1>3. TypeOK'
  <2>1. stackTop' \in 0..MaxStack
    BY <1>1, <1>2
  <2> QED BY <1>1, <1>2, <2>1, ForgetTyped DEF PopTemporary, TypeOK
<1>4. ControlState'
  BY <1>1 DEF PopTemporary, Structure, ControlState, Running
<1>5. FramesNest'
  BY <1>1, <1>2, FramesStayNested DEF Structure, PopTemporary, Running
<1>6. Agreement => \A s \in Slot : stackTop - 1 < s /\ s <= stackTop =>
                     \A i \in 1..Len(openUpvalues) : location[openUpvalues[i]] # s
  <2>1. \A s \in Slot : stackTop - 1 < s /\ s <= stackTop => s = stackTop
    BY <1>1, RunningState DEF Slot, Running
  <2>2. role[stackTop] # "captured"
    BY DEF PopTemporary
  <2> QED BY <2>1, <2>2 DEF Agreement, OpenUpvaluesPointAtTheirVariable
<1>7. /\ Sorted' /\ SlotsHoldDistinctVariables' /\ ListedUpvaluesAreMade'
      /\ Agreement => Agreement'
  BY <1>1, <1>2, <1>6, DropStep DEF PopTemporary, Running
<1> QED BY <1>3, <1>4, <1>5, <1>7 DEF Structure, Agreement, Preserved

LEMMA EndLocalPreserves == Structure /\ EndLocal => Preserved
<1> SUFFICES ASSUME Structure, EndLocal PROVE Preserved
  OBVIOUS
<1>1. Running /\ Forget(stackTop - 1) /\ stackTop' = stackTop - 1 /\ TypeOK /\ Sorted
  BY DEF EndLocal, Structure
<1>2. /\ stackTop - 1 \in Nat /\ stackTop - 1 \in 0..MaxStack /\ stackTop \in Slot
      /\ stackTop - 1 < stackTop /\ frame.fixed <= stackTop - 1
  BY <1>1, RunningState, UpvaluesAssumption DEF EndLocal, InBody, Running, Slot
<1>3. /\ openUpvalues' \in Seq(Upvalue)
      /\ location' \in [Upvalue -> Slot \cup {CLOSED}] /\ closed' \in [Upvalue -> Value]
  <2>1. CASE role[stackTop] = "captured"
    BY <1>1, <1>2, <2>1, CloseUpvaluesStep DEF EndLocal
  <2>2. CASE role[stackTop] # "captured"
    BY <1>1, <2>2 DEF EndLocal, TypeOK
  <2> QED BY <2>1, <2>2
<1>4. TypeOK'
  BY <1>1, <1>2, <1>3, ForgetTyped DEF EndLocal, TypeOK
<1>5. ControlState'
  BY <1>1 DEF EndLocal, Structure, ControlState, Running
<1>6. FramesNest'
  BY <1>1, <1>2, FramesStayNested DEF Structure, EndLocal, Running
<1>7. /\ Sorted' /\ SlotsHoldDistinctVariables' /\ ListedUpvaluesAreMade'
      /\ Agreement => Agreement'
  <2>1. CASE role[stackTop] = "captured"
    BY <1>1, <1>2, <2>1, GiveUpStep DEF EndLocal, Running
  <2>2. CASE role[stackTop] # "captured"
    <3>1. \A s \in Slot : stackTop - 1 < s /\ s <= stackTop => s = stackTop
      BY <1>2 DEF Slot
    <3>2. Agreement => \A s \in Slot : stackTop - 1 < s /\ s <= stackTop =>
                         \A i \in 1..Len(openUpvalues) : location[openUpvalues[i]] # s
      BY <2>2, <3>1 DEF Agreement, OpenUpvaluesPointAtTheirVariable
    <3>3. UNCHANGED <<openUpvalues, location, made, variableOf, declared, status>>
      BY <2>2 DEF EndLocal
    <3> QED BY <1>1, <1>2, <3>2, <3>3, DropStep
  <2> QED BY <2>1, <2>2
<1> QED BY <1>4, <1>5, <1>6, <1>7 DEF Structure, Agreement, Preserved

(* A break that pops a captured local keeps the structure, and the         *)
(* agreement too as long as no upvalue is open at the slot.                *)
LEMMA BreakBeforeCapturePreserves ==
  ASSUME Structure, BreakBeforeCapture
  PROVE  Structure' /\ (~EarlyBreaks /\ Agreement => Agreement')
<1>1. /\ Running /\ Forget(stackTop - 1) /\ stackTop' = stackTop - 1 /\ TypeOK
      /\ UNCHANGED <<openUpvalues, location, made, variableOf, declared, status>>
  BY DEF BreakBeforeCapture, Structure
<1>2. /\ stackTop - 1 \in Nat /\ stackTop - 1 \in 0..MaxStack
      /\ stackTop - 1 < stackTop /\ frame.fixed <= stackTop - 1
  BY <1>1, RunningState, UpvaluesAssumption DEF BreakBeforeCapture, InBody, Running, Slot
<1>3. TypeOK'
  <2>1. stackTop' \in 0..MaxStack
    BY <1>1, <1>2
  <2> QED BY <1>1, <1>2, <2>1, ForgetTyped DEF BreakBeforeCapture, TypeOK
<1>4. ControlState'
  BY <1>1 DEF BreakBeforeCapture, Structure, ControlState, Running
<1>5. FramesNest'
  BY <1>1, <1>2, FramesStayNested DEF Structure, BreakBeforeCapture, Running
<1>6. ~EarlyBreaks => \A s \in Slot : stackTop - 1 < s /\ s <= stackTop =>
                        \A i \in 1..Len(openUpvalues) : location[openUpvalues[i]] # s
  <2>1. \A s \in Slot : stackTop - 1 < s /\ s <= stackTop => s = stackTop
    BY <1>1, RunningState DEF Slot, Running
  <2> QED BY <2>1 DEF BreakBeforeCapture
<1>7. /\ Sorted' /\ SlotsHoldDistinctVariables' /\ ListedUpvaluesAreMade'
      /\ ~EarlyBreaks /\ Agreement => Agreement'
  BY <1>1, <1>2, <1>6, DropStep
<1> QED BY <1>3, <1>4, <1>5, <1>7 DEF Structure

LEMMA CloseBlockExprPreserves ==
  ASSUME Structure, NEW n \in 0..MaxStack, CloseBlockExpr(n)
  PROVE  Preserved
<1> DEFINE last == stackTop - n
<1>1. /\ Running /\ CloseUpvalues(last) /\ Replace(last - 1, stack[stackTop])
      /\ \A s \in last..stackTop - 1 : InBody(s)
      /\ TypeOK /\ Sorted /\ InBody(stackTop)
  <2>1. stackTop \in Nat
    BY DEF Structure, TypeOK
  <2>2. stackTop - 1 - n = last - 1
    BY <2>1
  <2> QED BY <2>2 DEF CloseBlockExpr, Structure
<1>2. /\ last \in Slot /\ last <= stackTop /\ last - 1 \in Int /\ frame.fixed < last
      /\ stackTop \in Slot
  <2>1. CASE n = 0
    BY <1>1, <2>1, RunningState DEF InBody, Running, Slot
  <2>2. CASE n # 0
    <3>1. last \in last..stackTop - 1
      BY <1>1, <2>2, RunningState DEF Running
    <3> QED BY <1>1, <3>1, RunningState, UpvaluesAssumption DEF InBody, Running, Slot
  <2> QED BY <2>1, <2>2
<1>3. /\ stackTop' = last /\ Forget(last - 1)
      /\ stack' = [stack EXCEPT ![last] = stack[stackTop]]
  <2>1. (last - 1) + 1 = last
    BY <1>2 DEF Slot
  <2> QED BY <1>1, <2>1 DEF Replace
<1> HIDE DEF last
<1>4. TypeOK'
  <2>1. stack' \in [Slot -> Value]
    BY <1>1, <1>2, <1>3 DEF TypeOK
  <2>2. stackTop' \in 0..MaxStack
    BY <1>2, <1>3 DEF Slot
  <2> QED BY <1>1, <1>2, <1>3, <2>1, <2>2, CloseUpvaluesStep, ForgetTyped DEF CloseBlockExpr, TypeOK
<1>5. ControlState'
  BY <1>1 DEF CloseBlockExpr, Structure, ControlState, Running
<1>6. FramesNest'
  BY <1>1, <1>2, <1>3, RunningState, FramesStayNested DEF Structure, CloseBlockExpr, Slot, Running
<1>7. /\ Sorted' /\ SlotsHoldDistinctVariables' /\ ListedUpvaluesAreMade'
      /\ Agreement => Agreement'
  BY <1>1, <1>2, <1>3, GiveUpStep DEF CloseBlockExpr, Running
<1> QED BY <1>4, <1>5, <1>6, <1>7 DEF Structure, Agreement, Preserved

LEMMA CallNativePreserves ==
  ASSUME Structure, NEW callee \in Slot, NEW x \in Datum, CallNative(callee, x)
  PROVE  Preserved
<1> DEFINE top == callee - 1
<1>1. /\ Running /\ Replace(top, x) /\ TypeOK /\ InBody(callee)
      /\ \A s \in callee..stackTop : role[s] = "temp"
  BY DEF CallNative, Structure, Operands
<1>2. /\ top \in Nat /\ top < stackTop /\ top + 1 = callee /\ stackTop \in Slot
      /\ frame.fixed <= callee /\ callee \in 0..MaxStack /\ callee \in Nat
  BY <1>1, RunningState, UpvaluesAssumption DEF InBody, Running, Slot
<1>3. /\ stackTop' = callee /\ Forget(top) /\ stack' = [stack EXCEPT ![callee] = x]
  BY <1>1, <1>2 DEF Replace
<1> HIDE DEF top
<1>4. TypeOK'
  <2>1. stack' \in [Slot -> Value] /\ stackTop' \in 0..MaxStack
    BY <1>1, <1>2, <1>3 DEF TypeOK, Value
  <2> QED BY <1>1, <1>2, <1>3, <2>1, ForgetTyped DEF CallNative, TypeOK
<1>5. ControlState'
  BY <1>1 DEF CallNative, Structure, ControlState, Running
<1>6. FramesNest'
  BY <1>1, <1>2, <1>3, FramesStayNested DEF Structure, CallNative, Running
<1>7. /\ Sorted' /\ SlotsHoldDistinctVariables' /\ ListedUpvaluesAreMade'
      /\ Agreement => Agreement'
  <2>1. \A s \in Slot : top < s /\ s <= stackTop => role[s] # "captured"
    BY <1>1, <1>2 DEF Slot
  <2>2. Agreement => \A s \in Slot : top < s /\ s <= stackTop =>
                       \A i \in 1..Len(openUpvalues) : location[openUpvalues[i]] # s
    BY <2>1 DEF Agreement, OpenUpvaluesPointAtTheirVariable
  <2> QED BY <1>1, <1>2, <1>3, <2>2, DropStep DEF CallNative
<1> QED BY <1>4, <1>5, <1>6, <1>7 DEF Structure, Agreement, Preserved

LEMMA ReturnToCallerPreserves == Structure /\ ReturnToCaller => Preserved
<1> SUFFICES ASSUME Structure, ReturnToCaller PROVE Preserved
  OBVIOUS
<1> DEFINE last == frame.slots
<1>1. /\ Running /\ CloseUpvalues(last) /\ Replace(last - 1, stack[stackTop])
      /\ TypeOK /\ Sorted /\ Len(frames) > 1
      /\ frames' = SubSeq(frames, 1, Len(frames) - 1)
  BY DEF ReturnToCaller, Structure
<1>2. /\ last \in Slot /\ last <= stackTop /\ last - 1 \in Int /\ stackTop \in Slot
      /\ (last - 1) + 1 = last
  BY <1>1, RunningState DEF Running, Slot
<1>3. /\ stackTop' = last /\ Forget(last - 1)
      /\ stack' = [stack EXCEPT ![last] = stack[stackTop]]
  BY <1>1, <1>2 DEF Replace
<1>4. TypeOK'
  <2>1. stack' \in [Slot -> Value]
    BY <1>1, <1>2, <1>3 DEF TypeOK
  <2>2. stackTop' \in 0..MaxStack
    BY <1>2, <1>3 DEF Slot
  <2>3. frames' \in Seq(Frame) /\ Len(frames') <= MaxFrames
    BY <1>1, UpvaluesAssumption DEF TypeOK
  <2> QED BY <1>1, <1>2, <1>3, <2>1, <2>2, <2>3, CloseUpvaluesStep, ForgetTyped
          DEF ReturnToCaller, TypeOK
<1>5. ControlState'
  <2>1. Len(frames') > 0
    BY <1>1 DEF TypeOK
  <2> QED BY <1>1, <2>1 DEF ReturnToCaller, ControlState, Running
<1>6. FramesNest'
  BY <1>1, <1>3, FramesNestAfterReturn DEF Structure
<1>7. /\ Sorted' /\ SlotsHoldDistinctVariables' /\ ListedUpvaluesAreMade'
      /\ Agreement => Agreement'
  BY <1>1, <1>2, <1>3, GiveUpStep DEF ReturnToCaller, Running
<1> QED BY <1>4, <1>5, <1>6, <1>7 DEF Structure, Agreement, Preserved

LEMMA ReturnFromScriptPreserves == Structure /\ ReturnFromScript => Preserved
<1> SUFFICES ASSUME Structure, ReturnFromScript PROVE Preserved
  OBVIOUS
<1> DEFINE last == frame.slots
<1>1. /\ Running /\ CloseUpvalues(last) /\ Forget(stackTop - 2)
      /\ stackTop = last + 1 /\ stackTop' = stackTop - 2
      /\ TypeOK /\ Sorted /\ frames' = << >>
  BY DEF ReturnFromScript, Structure
<1>2. /\ last \in Slot /\ last - 1 \in Int /\ stackTop - 2 = last - 1
      /\ last - 1 \in 0..MaxStack
  BY <1>1, RunningState, UpvaluesAssumption DEF Running, Slot
<1>3. stackTop' = last - 1 /\ Forget(last - 1)
  BY <1>1, <1>2
<1>4. TypeOK'
  <2>1. frames' \in Seq(Frame) /\ Len(frames') <= MaxFrames
    BY <1>1, UpvaluesAssumption
  <2>2. status' \in {"idle", "running", "stopped"}
    BY DEF ReturnFromScript
  <2> QED BY <1>1, <1>2, <1>3, <2>1, <2>2, CloseUpvaluesStep, ForgetTyped
          DEF ReturnFromScript, TypeOK
<1>5. ControlState' /\ FramesNest'
  BY <1>1 DEF ReturnFromScript, ControlState, FramesNest, Running
<1>6. /\ Sorted' /\ SlotsHoldDistinctVariables' /\ ListedUpvaluesAreMade'
      /\ Agreement => Agreement'
  BY <1>1, <1>2, <1>3, GiveUpStep DEF ReturnFromScript, Running
<1> QED BY <1>4, <1>5, <1>6 DEF Structure, Agreement, Preserved

LEMMA RuntimeErrorPreserves == Structure /\ RuntimeError => Preserved
<1> SUFFICES ASSUME Structure, RuntimeError PROVE Preserved
  OBVIOUS
<1>1. /\ stackTop' = 0 /\ frames' = << >> /\ openUpvalues' = << >> /\ Forget(0)
      /\ status' = IF Repl THEN "idle" ELSE "stopped"
      /\ TypeOK /\ want' = 0
      /\ UNCHANGED <<stack, location, closed, upvalues, made, global, variableOf, declared>>
  BY DEF RuntimeError, Running, Structure
<1>2. TypeOK'
  BY <1>1, ForgetTyped, UpvaluesAssumption DEF TypeOK, RuntimeError
<1>3. /\ ControlState' /\ FramesNest' /\ Sorted' /\ OpenUpvaluesPointAtTheirVariable'
      /\ ListedUpvaluesAreMade'
  BY <1>1 DEF ControlState, FramesNest, Sorted, OpenUpvaluesPointAtTheirVariable,
              ListedUpvaluesAreMade
<1>4. \A s \in Slot : role'[s] = "temp" /\ variable'[s] = NOBODY
  BY <1>1 DEF Forget, Slot
<1>5. SlotsHoldDistinctVariables'
  BY <1>1, <1>4 DEF SlotsHoldDistinctVariables, TypeOK
<1>6. Agreement => OneUpvaluePerVariable'
  BY <1>1, <1>4 DEF Agreement, OneUpvaluePerVariable
<1>7. ~Repl => OpenUpvaluesAreListed'
  BY <1>1 DEF OpenUpvaluesAreListed
<1> QED BY <1>2, <1>3, <1>5, <1>6, <1>7 DEF Structure, Agreement, Preserved

LEMMA InterpretPreserves == Structure /\ Interpret => Preserved
<1> SUFFICES ASSUME Structure, Interpret PROVE Preserved
  OBVIOUS
<1>1. /\ TypeOK /\ Len(frames) = 0 /\ want = 0 /\ stackTop \in Nat /\ stackTop < MaxStack
      /\ MaxStack \in Nat /\ MaxFrames \in Nat \ {0}
  BY UpvaluesAssumption DEF Structure, TypeOK, ControlState, Interpret
<1>2. /\ stack' = [stack EXCEPT ![stackTop + 1] = Script] /\ stackTop' = stackTop + 1
      /\ frames' = <<[closure |-> Script, slots |-> stackTop + 1, fixed |-> stackTop + 1]>>
      /\ UNCHANGED <<role, variable>>
  <2>1. frames = << >>
    BY <1>1 DEF TypeOK
  <2> QED BY <2>1 DEF Interpret, Push
<1>3. TypeOK'
  <2>1. stack' \in [Slot -> Value]
    BY <1>1, <1>2 DEF TypeOK, Value
  <2>3. stackTop' \in 0..MaxStack
    BY <1>1, <1>2
  <2>2. frames' \in Seq(Frame) /\ Len(frames') <= MaxFrames
    BY <1>1, <1>2 DEF Frame, Slot
  <2> QED BY <1>1, <1>2, <2>1, <2>2, <2>3 DEF Interpret, TypeOK
<1>4. ControlState' /\ FramesNest' /\ Sorted'
  BY <1>1, <1>2 DEF Structure, Interpret, ControlState, FramesNest, Sorted
<1>5. SlotsHoldDistinctVariables' /\ ListedUpvaluesAreMade'
  BY <1>1, <1>2 DEF Structure, Interpret, SlotsHoldDistinctVariables, ListedUpvaluesAreMade, Slot
<1>6. Agreement => OpenUpvaluesPointAtTheirVariable'
  BY <1>1, <1>2 DEF Agreement, Interpret, OpenUpvaluesPointAtTheirVariable, Slot
<1>7. Agreement => OneUpvaluePerVariable' /\ (~Repl => OpenUpvaluesAreListed')
  BY <1>2 DEF Agreement, Interpret, OneUpvaluePerVariable, OpenUpvaluesAreListed
<1> QED BY <1>3, <1>4, <1>5, <1>6, <1>7 DEF Structure, Agreement, Preserved

LEMMA DefineLocalPreserves ==
  ASSUME Structure, NEW r \in {"local", "captured"}, DefineLocal(r)
  PROVE  Preserved
<1>1. /\ Running /\ TypeOK /\ role[stackTop] = "temp" /\ declared < MaxVariables
      /\ declared' = declared + 1
      /\ variable' = [variable EXCEPT ![stackTop] = declared + 1]
      /\ role' = [role EXCEPT ![stackTop] = r]
      /\ UNCHANGED <<machine, variableOf>>
  BY DEF DefineLocal, NewVariable, Structure
<1>2. stackTop \in Slot /\ stackTop \in Nat /\ stackTop <= MaxStack /\ declared \in Nat
  BY <1>1, RunningState DEF Running, Slot, TypeOK
<1>3. TypeOK'
  <2>1. declared + 1 \in Variable /\ declared' \in 0..MaxVariables
    BY <1>1, <1>2, UpvaluesAssumption DEF Variable
  <2>2. variable' \in [Slot -> Variable \cup {NOBODY}] /\ role' \in [Slot -> Role]
    BY <1>1, <1>2, <2>1 DEF TypeOK, Role
  <2> QED BY <1>1, <2>1, <2>2 DEF TypeOK, machine
<1>4. ControlState' /\ FramesNest'
  BY <1>1 DEF Structure, ControlState, FramesNest, machine
<1>5. /\ Sorted' /\ SlotsHoldDistinctVariables' /\ ListedUpvaluesAreMade'
      /\ Agreement => Agreement'
  <2>1. /\ stackTop' = stackTop /\ made' = made
        /\ UNCHANGED <<openUpvalues, location, variableOf, status>>
        /\ declared' = declared + (stackTop + 1 - stackTop)
    BY <1>1, <1>2 DEF machine
  <2>2. \A s \in Slot : s < stackTop \/ s > stackTop => role'[s] = role[s] /\ variable'[s] = variable[s]
    BY <1>1, <1>2 DEF TypeOK, Slot
  <2>3. \A s \in Slot : stackTop <= s /\ s <= stackTop =>
          /\ role[s] = "temp" /\ role'[s] # "temp"
          /\ variable'[s] = declared + (s + 1 - stackTop)
    <3>1. \A s \in Slot : stackTop <= s /\ s <= stackTop => s = stackTop
      BY <1>2 DEF Slot
    <3>2. /\ role'[stackTop] # "temp" /\ variable'[stackTop] = declared + 1
          /\ declared + (stackTop + 1 - stackTop) = declared + 1
      BY <1>1, <1>2 DEF TypeOK
    <3> QED BY <1>1, <3>1, <3>2
  <2>4. \A s \in Slot : ~(stackTop <= s /\ s < stackTop)
    BY <1>2 DEF Slot
  <2> QED BY <1>1, <1>2, <2>1, <2>2, <2>3, <2>4, DeclareStep
<1> QED BY <1>3, <1>4, <1>5 DEF Structure, Agreement, Preserved

LEMMA MakeClosurePreserves ==
  ASSUME Structure, NEW c \in Closure, NEW n \in 0..MaxCaptures, NEW r \in Role, MakeClosure(c, n, r)
  PROVE  Preserved
<1> DEFINE top == stackTop + 1
<1>1. /\ Running /\ TypeOK /\ stackTop < MaxStack
      /\ stack' = [stack EXCEPT ![top] = c] /\ stackTop' = top
      /\ role' = [role EXCEPT ![top] = r]
      /\ \/ r = "temp" /\ UNCHANGED <<variable, declared>>
         \/ /\ r # "temp" /\ declared < MaxVariables /\ declared' = declared + 1
            /\ variable' = [variable EXCEPT ![top] = declared + 1]
      /\ made' = made \cup {c}
      /\ upvalues' = [upvalues EXCEPT ![c] = << >>]
      /\ want' = n
      /\ UNCHANGED <<frames, openUpvalues, location, closed, global, status, variableOf>>
  BY DEF MakeClosure, NewVariable, Structure
<1>2. /\ top \in Slot /\ stackTop \in Nat /\ declared \in Nat /\ top <= MaxStack
      /\ MaxStack \in Nat /\ top > stackTop
  BY <1>1, UpvaluesAssumption DEF Slot, TypeOK
<1> HIDE DEF top
<1>3. TypeOK'
  <2>1. /\ stack' \in [Slot -> Value] /\ role' \in [Slot -> Role]
        /\ upvalues' \in [Closure \cup {Script} -> Seq(Upvalue)]
    BY <1>1, <1>2 DEF TypeOK, Value
  <2>2. stackTop' \in 0..MaxStack /\ made' \subseteq Closure \cup Upvalue
    BY <1>1, <1>2 DEF TypeOK, Slot
  <2>3. declared' \in 0..MaxVariables /\ variable' \in [Slot -> Variable \cup {NOBODY}]
    <3>1. CASE r = "temp"
      BY <1>1, <3>1 DEF TypeOK
    <3>2. CASE r # "temp"
      <4>1. declared + 1 \in Variable /\ declared' \in 0..MaxVariables
        BY <1>1, <1>2, <3>2, UpvaluesAssumption DEF Variable
      <4> QED BY <1>1, <1>2, <3>2, <4>1 DEF TypeOK
    <3> QED BY <3>1, <3>2
  <2> QED BY <1>1, <2>1, <2>2, <2>3 DEF TypeOK
<1>4. ControlState'
  BY <1>1, <1>2 DEF Structure, ControlState, Running, TypeOK
<1>5. FramesNest'
  <2>1. frame.fixed <= top
    BY <1>1, <1>2, RunningState DEF Running, Slot
  <2> QED BY <1>1, <1>2, <2>1, FramesStayNested DEF Structure, Running, Slot
<1>6. /\ Sorted' /\ SlotsHoldDistinctVariables' /\ ListedUpvaluesAreMade'
      /\ Agreement => Agreement'
  <2>1. made' \cap Upvalue = made \cap Upvalue /\ made \subseteq made'
    BY <1>1, UpvaluesAssumption
  <2>2. role[top] = "temp" /\ variable[top] = NOBODY
    BY <1>2 DEF Structure, SlotsHoldDistinctVariables
  <2>3. \A s \in Slot : s # top => role'[s] = role[s] /\ variable'[s] = variable[s]
    BY <1>1 DEF TypeOK
  <2>4. CASE r = "temp"
    <3>1. \A s \in Slot : role'[s] = role[s] /\ variable'[s] = variable[s]
      BY <1>1, <1>2, <2>2, <2>3, <2>4 DEF TypeOK
    <3>2. \A s \in Slot : ~(top <= s /\ s <= stackTop) /\ ~(top <= s /\ s < top)
      BY <1>2 DEF Slot
    <3>3. /\ declared' = declared + (stackTop + 1 - top) /\ top <= stackTop + 1
          /\ stackTop <= stackTop' /\ stackTop' \in Nat /\ stackTop <= MaxStack
          /\ top \in Nat /\ top <= top
      BY <1>1, <1>2, <2>4 DEF top, Slot
    <3> QED BY <1>1, <1>2, <2>1, <3>1, <3>2, <3>3, DeclareStep
  <2>5. CASE r # "temp"
    <3>1. \A s \in Slot : s < top \/ s > top => role'[s] = role[s] /\ variable'[s] = variable[s]
      BY <1>2, <2>3 DEF Slot
    <3>2. \A s \in Slot : top <= s /\ s <= top =>
            /\ role[s] = "temp" /\ role'[s] # "temp"
            /\ variable'[s] = declared + (s + 1 - top)
      <4>1. \A s \in Slot : top <= s /\ s <= top => s = top
        BY <1>2 DEF Slot
      <4>2. declared + (top + 1 - top) = declared + 1 /\ role'[top] = r
            /\ variable'[top] = declared + 1
        BY <1>1, <1>2, <2>5 DEF Slot, TypeOK
      <4> QED BY <2>2, <2>5, <4>1, <4>2
    <3>3. /\ declared' = declared + (top + 1 - top) /\ top <= top + 1
          /\ stackTop <= stackTop' /\ stackTop' \in Nat /\ top <= stackTop'
          /\ top \in Nat /\ top <= top
      BY <1>1, <1>2, <2>5 DEF Slot
    <3>4. \A s \in Slot : ~(top <= s /\ s < top)
      BY <1>2 DEF Slot
    <3> QED BY <1>1, <1>2, <2>1, <3>1, <3>2, <3>3, <3>4, DeclareStep
  <2> QED BY <2>4, <2>5
<1> QED BY <1>3, <1>4, <1>5, <1>6 DEF Structure, Agreement, Preserved

LEMMA CaptureLocalPreserves ==
  ASSUME Structure, NEW s \in Slot, CaptureLocal(s)
  PROVE  Preserved
<1> DEFINE c == stack[stackTop]
<1>1. /\ status = "running" /\ want > 0 /\ TypeOK /\ Sorted
      /\ s \in frame.slots..stackTop /\ role[s] = "captured"
      /\ ShareUpvalue(c, s) \/ \E u \in Upvalue : NewUpvalue(c, s, u)
      /\ want' = want - 1
      /\ UNCHANGED <<stack, stackTop, frames, global, status, role, variable, declared>>
  BY DEF CaptureLocal, IsLocal, Structure
<1>2. c \in Closure /\ stackTop \in Slot /\ s <= stackTop /\ want' \in 0..MaxCaptures
  BY <1>1, RunningState, UpvaluesAssumption DEF Structure, ControlState, TypeOK, Slot
<1> HIDE DEF c
<1>3. ControlState' /\ FramesNest'
  BY <1>1, <1>2 DEF Structure, ControlState, FramesNest, c
<1>4. CASE ShareUpvalue(c, s)
  <2>1. /\ UNCHANGED <<openUpvalues, location, closed, made, variableOf>>
        /\ \E u \in Upvalue : upvalues' = [upvalues EXCEPT ![c] = Append(@, u)]
    <3>1. Above(s) \in 0..Len(openUpvalues) /\ Above(s) < Len(openUpvalues)
      BY <1>1, <1>4, AboveProperties DEF ShareUpvalue
    <3>2. openUpvalues[Above(s) + 1] \in Upvalue
      BY <1>1, <3>1 DEF TypeOK
    <3> QED BY <1>4, <3>2 DEF ShareUpvalue
  <2>2. upvalues' \in [Closure \cup {Script} -> Seq(Upvalue)]
    BY <1>1, <1>2, <2>1 DEF TypeOK
  <2>3. TypeOK'
    BY <1>1, <1>2, <2>1, <2>2 DEF TypeOK
  <2>4. Sorted' /\ SlotsHoldDistinctVariables' /\ ListedUpvaluesAreMade'
    BY <1>1, <2>1 DEF Structure, Sorted, SlotsHoldDistinctVariables, ListedUpvaluesAreMade
  <2>5. Agreement => Agreement'
    BY <1>1, <2>1 DEF Agreement, OpenUpvaluesPointAtTheirVariable, OneUpvaluePerVariable,
                      OpenUpvaluesAreListed
  <2> QED BY <1>3, <2>3, <2>4, <2>5 DEF Structure, Preserved
<1>5. ASSUME NEW u \in Upvalue, NewUpvalue(c, s, u) PROVE Preserved
  <2>1. /\ openUpvalues' \in Seq(Upvalue)
        /\ Sorted' /\ SlotsHoldDistinctVariables' /\ ListedUpvaluesAreMade'
        /\ Agreement => Agreement'
    BY <1>1, <1>2, <1>5, NewUpvalueStep
  <2>2. /\ upvalues' \in [Closure \cup {Script} -> Seq(Upvalue)]
        /\ location' \in [Upvalue -> Slot \cup {CLOSED}]
        /\ variableOf' \in [Upvalue -> Variable \cup {NOBODY}]
        /\ closed' = closed /\ made' \subseteq Closure \cup Upvalue
    BY <1>1, <1>2, <1>5 DEF NewUpvalue, TypeOK
  <2>3. TypeOK'
    BY <1>1, <1>2, <2>1, <2>2 DEF TypeOK
  <2> QED BY <1>3, <2>1, <2>3 DEF Structure, Preserved
<1> QED BY <1>1, <1>4, <1>5

LEMMA CaptureEnclosingPreserves ==
  ASSUME Structure, NEW i \in 1..MaxCaptures, CaptureEnclosing(i)
  PROVE  Preserved
<1> DEFINE c == stack[stackTop]
           u == upvalues[frame.closure][i]
<1>1. /\ status = "running" /\ want > 0 /\ TypeOK
      /\ i \in 1..Len(upvalues[frame.closure])
      /\ upvalues' = [upvalues EXCEPT ![c] = Append(@, u)]
      /\ want' = want - 1
      /\ UNCHANGED <<stack, stackTop, frames, openUpvalues, location, closed, made,
                     global, status, ghosts>>
  BY DEF CaptureEnclosing, Structure
<1>2. c \in Closure /\ want' \in 0..MaxCaptures
  BY <1>1, UpvaluesAssumption DEF Structure, ControlState, TypeOK
<1>3. u \in Upvalue
  BY <1>1, RunningState DEF TypeOK
<1>4. TypeOK'
  <2>1. upvalues' \in [Closure \cup {Script} -> Seq(Upvalue)]
    BY <1>1, <1>2, <1>3 DEF TypeOK
  <2> QED BY <1>1, <1>2, <2>1 DEF TypeOK, ghosts
<1>5. ControlState' /\ FramesNest' /\ Sorted'
  BY <1>1, <1>2 DEF Structure, ControlState, FramesNest, Sorted, ghosts
<1>6. SlotsHoldDistinctVariables' /\ ListedUpvaluesAreMade'
  BY <1>1 DEF Structure, SlotsHoldDistinctVariables, ListedUpvaluesAreMade, ghosts
<1>7. Agreement => Agreement'
  BY <1>1 DEF Agreement, OpenUpvaluesPointAtTheirVariable, OneUpvaluePerVariable,
              OpenUpvaluesAreListed, ghosts
<1> QED BY <1>4, <1>5, <1>6, <1>7 DEF Structure, Agreement, Preserved

LEMMA EnterFrameStep ==
  ASSUME Structure, Running, NEW callee \in Slot, Operands(callee),
         NEW c \in Closure, NEW roles \in [callee..stackTop -> Role],
         EnterFrame(c, callee, roles), stack' \in [Slot -> Value]
  PROVE  Preserved
<1> DEFINE first == IF roles[callee] = "temp" THEN callee + 1 ELSE callee
<1>1. /\ TypeOK /\ InBody(callee) /\ \A s \in callee..stackTop : role[s] = "temp"
      /\ Len(frames) < MaxFrames
      /\ frames' = Append(frames, [closure |-> c, slots |-> callee, fixed |-> stackTop])
      /\ \A s \in callee + 1..stackTop : roles[s] # "temp"
      /\ role' = [s \in Slot |-> IF s \in callee..stackTop THEN roles[s] ELSE role[s]]
      /\ declared' = declared + (stackTop + 1 - first)
      /\ declared' <= MaxVariables
      /\ variable' = [s \in Slot |-> IF s \in first..stackTop THEN declared + (s + 1 - first)
                                     ELSE IF s = callee THEN NOBODY ELSE variable[s]]
      /\ UNCHANGED <<stackTop, openUpvalues, location, closed, upvalues, made, global,
                     want, status, variableOf>>
  BY DEF Operands, EnterFrame, Structure
<1>2. /\ callee \in Nat /\ callee <= stackTop /\ stackTop \in Slot /\ stackTop \in Nat
      /\ stackTop <= MaxStack /\ MaxStack \in Nat /\ frame.fixed < callee /\ declared \in Nat
      /\ frame.fixed \in Slot /\ MaxVariables \in Nat
  BY <1>1, RunningState, UpvaluesAssumption DEF Running, InBody, Slot, TypeOK
<1>3. /\ first \in Nat /\ callee <= first /\ first <= stackTop + 1
      /\ roles[callee] = "temp" => first = callee + 1
      /\ roles[callee] # "temp" => first = callee
  BY <1>2
<1> HIDE DEF first
<1>4. declared' \in Nat /\ declared <= declared'
  BY <1>1, <1>2, <1>3
<1>5. ASSUME NEW s \in Slot, first <= s, s <= stackTop
      PROVE  variable'[s] = declared + (s + 1 - first) /\ variable'[s] \in Variable
  <2>1. s \in first..stackTop
    BY <1>2, <1>3, <1>5 DEF Slot
  <2>2. variable'[s] = declared + (s + 1 - first)
    BY <1>1, <2>1
  <2> QED BY <1>1, <1>2, <1>3, <1>5, <2>2 DEF Slot, Variable
<1>6. ASSUME NEW s \in Slot, s < callee \/ s > stackTop
      PROVE  variable'[s] = variable[s] /\ role'[s] = role[s]
  <2>1. s \notin first..stackTop /\ s # callee /\ s \notin callee..stackTop
    BY <1>2, <1>3, <1>6 DEF Slot
  <2> QED BY <1>1, <2>1
<1>7. ASSUME NEW s \in Slot, callee <= s, s < first
      PROVE  variable'[s] = NOBODY /\ role'[s] = "temp"
  <2>1. s = callee /\ roles[callee] = "temp" /\ s \notin first..stackTop /\ s \in callee..stackTop
    BY <1>2, <1>3, <1>7 DEF Slot
  <2> QED BY <1>1, <2>1
<1>8. ASSUME NEW s \in Slot, callee <= s, s <= stackTop
      PROVE  role[s] = "temp" /\ role'[s] = roles[s]
  <2>1. s \in callee..stackTop
    BY <1>2, <1>8 DEF Slot
  <2> QED BY <1>1, <2>1
<1>9. ASSUME NEW s \in Slot, first <= s, s <= stackTop PROVE role'[s] # "temp"
  <2>1. callee <= s /\ s \in Int
    BY <1>2, <1>3, <1>9 DEF Slot
  <2>2. role'[s] = roles[s]
    BY <1>8, <1>9, <2>1
  <2>3. s = callee \/ s \in callee + 1..stackTop
    BY <1>2, <1>9, <2>1
  <2>4. s = callee => roles[callee] # "temp"
    BY <1>2, <1>3, <1>9
  <2> QED BY <1>1, <2>2, <2>3, <2>4
<1>10. TypeOK'
  <2>1. role' \in [Slot -> Role]
    BY <1>1 DEF TypeOK
  <2>2. \A s \in Slot : variable'[s] \in Variable \cup {NOBODY}
    <3>1. ASSUME NEW s \in Slot PROVE variable'[s] \in Variable \cup {NOBODY}
      <4>1. \/ s < callee \/ s > stackTop
            \/ callee <= s /\ s < first
            \/ first <= s /\ s <= stackTop
        BY <1>2, <1>3 DEF Slot
      <4> QED BY <1>1, <1>5, <1>6, <1>7, <4>1 DEF TypeOK
    <3> QED BY <3>1
  <2>3. variable' \in [Slot -> Variable \cup {NOBODY}]
    BY <1>1, <2>2
  <2>4. [closure |-> c, slots |-> callee, fixed |-> stackTop] \in Frame
    BY <1>2 DEF Frame
  <2>5. frames' \in Seq(Frame) /\ Len(frames') <= MaxFrames
    BY <1>1, <2>4, UpvaluesAssumption DEF TypeOK
  <2>6. declared' \in 0..MaxVariables
    BY <1>1, <1>2, <1>4
  <2> QED BY <1>1, <2>1, <2>3, <2>5, <2>6 DEF TypeOK
<1>11. ControlState'
  <2>1. Len(frames') > 0
    BY <1>1 DEF TypeOK
  <2> QED BY <1>1, <2>1 DEF ControlState, Running
<1>12. FramesNest'
  <2> DEFINE L == Len(frames)
  <2>1. /\ L \in Nat /\ L > 0 /\ Len(frames') = L + 1
        /\ \A i \in 1..L : frames'[i] = frames[i]
        /\ frames'[L + 1].slots = callee /\ frames'[L + 1].fixed = stackTop
    BY <1>1 DEF TypeOK, Running
  <2>2. L \in 1..L /\ frames[L].fixed = frame.fixed
    BY <2>1 DEF frame
  <2> HIDE DEF L
  <2>3. ASSUME NEW i \in 1..L + 1
        PROVE  frames'[i].slots <= frames'[i].fixed /\ frames'[i].fixed <= stackTop'
    <3>1. CASE i = L + 1
      BY <1>1, <1>2, <2>1, <3>1
    <3>2. CASE i \in 1..L
      BY <1>1, <2>1, <3>2 DEF Structure, FramesNest, L
    <3> QED BY <2>1, <3>1, <3>2
  <2>4. ASSUME NEW i \in 1..L PROVE frames'[i].fixed < frames'[i + 1].slots
    <3>1. CASE i = L
      BY <1>2, <2>1, <2>2, <3>1
    <3>2. CASE i \in 1..L - 1
      <4>1. i + 1 \in 1..L
        BY <2>1, <3>2
      <4> QED BY <2>1, <3>2, <4>1 DEF Structure, FramesNest, L
    <3> QED BY <2>1, <3>1, <3>2
  <2>5. L = Len(frames') - 1
    BY <2>1
  <2> QED BY <2>1, <2>3, <2>4, <2>5 DEF FramesNest
<1>13. /\ Sorted' /\ SlotsHoldDistinctVariables' /\ ListedUpvaluesAreMade'
       /\ Agreement => Agreement'
  <2>1. /\ stackTop <= stackTop' /\ stackTop' \in Nat /\ made \subseteq made'
        /\ made' \cap Upvalue = made \cap Upvalue
        /\ UNCHANGED <<openUpvalues, location, variableOf, status>>
    BY <1>1, <1>2
  <2>2. \A s \in Slot : first <= s /\ s <= stackTop =>
          role'[s] # "temp" /\ variable'[s] = declared + (s + 1 - first)
    BY <1>5, <1>9
  <2>3. \A s \in Slot : s < callee \/ s > stackTop => role'[s] = role[s] /\ variable'[s] = variable[s]
    BY <1>6
  <2>4. \A s \in Slot : callee <= s /\ s <= stackTop => role[s] = "temp"
    BY <1>8
  <2>5. \A s \in Slot : callee <= s /\ s < first => role'[s] = "temp" /\ variable'[s] = NOBODY
    BY <1>7
  <2>6. declared' = declared + (stackTop + 1 - first)
    BY <1>1
  <2> HIDE DEF Slot
  <2> QED BY <1>2, <1>3, <2>1, <2>2, <2>3, <2>4, <2>5, <2>6, DeclareStep
<1> QED BY <1>10, <1>11, <1>12, <1>13 DEF Structure, Agreement, Preserved

LEMMA CallsPreserve ==
  ASSUME Structure, NEW callee \in Slot, NEW roles \in [callee..stackTop -> Role],
         \/ CallClosure(callee, roles)
         \/ \E c \in Closure : \E x \in Datum \cup {c} : CallMember(callee, c, x, roles)
  PROVE  Preserved
<1>1. stack \in [Slot -> Value]
  BY DEF Structure, TypeOK
<1>2. CASE CallClosure(callee, roles)
  BY <1>1, <1>2, EnterFrameStep DEF CallClosure
<1>3. ASSUME NEW c \in Closure, NEW x \in Datum \cup {c}, CallMember(callee, c, x, roles)
      PROVE  Preserved
  <2>1. stack' \in [Slot -> Value]
    BY <1>1, <1>3 DEF CallMember, Value
  <2> QED BY <1>3, <2>1, EnterFrameStep DEF CallMember
<1> QED BY <1>2, <1>3

(* IInv is inductive: every instruction, call, return and runtime error    *)
(* of the machine preserves it.                                            *)
LEMMA NextPreservesIInv == IInv /\ [Next]_vars => IInv'
<1> SUFFICES ASSUME Structure, [Next]_vars
             PROVE  Structure' /\ (~EarlyBreaks /\ Agreement => Agreement')
  BY DEF IInv
<1> USE DEF Preserved
<1>1. CASE Interpret \/ PopTemporary \/ EndLocal \/ ReturnToCaller \/ ReturnFromScript \/ RuntimeError
  BY <1>1, InterpretPreserves, PopTemporaryPreserves, EndLocalPreserves,
     ReturnToCallerPreserves, ReturnFromScriptPreserves, RuntimeErrorPreserves
<1>0. CASE BreakBeforeCapture
  BY <1>0, BreakBeforeCapturePreserves
<1>2. CASE PushValue \/ GetGlobal \/ \E s \in Slot : GetLocal(s)
  BY <1>2, PushingPreserves
<1>3. CASE SetGlobal \/ \E s \in Slot : SetLocal(s)
  BY <1>3, AssigningPreserves
<1>4. CASE \E r \in {"local", "captured"} : DefineLocal(r)
  BY <1>4, DefineLocalPreserves
<1>5. CASE \E s \in Slot : CaptureLocal(s)
  BY <1>5, CaptureLocalPreserves
<1>6. CASE \E c \in Closure, n \in 0..MaxCaptures, r \in Role : MakeClosure(c, n, r)
  BY <1>6, MakeClosurePreserves
<1>7. CASE \E i \in 1..MaxCaptures : CaptureEnclosing(i) \/ GetUpvalue(i) \/ SetUpvalue(i)
  BY <1>7, CaptureEnclosingPreserves, PushingPreserves, AssigningPreserves
<1>8. CASE \E n \in 0..MaxStack : CloseBlockExpr(n)
  BY <1>8, CloseBlockExprPreserves
<1>9. CASE \E callee \in Slot : \E roles \in [callee..stackTop -> Role] :
             \/ CallClosure(callee, roles)
             \/ \E c \in Closure : \E x \in Datum \cup {c} : CallMember(callee, c, x, roles)
  BY <1>9, CallsPreserve
<1>10. CASE \E callee \in Slot, x \in Datum : CallNative(callee, x)
  BY <1>10, CallNativePreserves
<1>11. CASE UNCHANGED vars
  <2>1. /\ TypeOK' /\ ControlState' /\ FramesNest' /\ Sorted'
        /\ SlotsHoldDistinctVariables' /\ ListedUpvaluesAreMade'
    BY <1>11 DEF Structure, TypeOK, ControlState, FramesNest, Sorted,
                 SlotsHoldDistinctVariables, ListedUpvaluesAreMade, vars, machine, ghosts
  <2>2. Agreement => Agreement'
    BY <1>11 DEF Agreement, OpenUpvaluesPointAtTheirVariable, OneUpvaluePerVariable,
                 OpenUpvaluesAreListed, vars, machine, ghosts
  <2> QED BY <2>1, <2>2 DEF Structure
<1> QED BY <1>0, <1>1, <1>2, <1>3, <1>4, <1>5, <1>6, <1>7, <1>8, <1>9, <1>10, <1>11 DEF Next

(* The inductive invariant holds in every reachable state, for any number  *)
(* of slots, frames, closures and upvalues, in a session or not: the       *)
(* structure in every program, the agreement of upvalues and slots in one  *)
(* whose breaks pop no captured local.                                     *)
THEOREM Invariance == Spec => []IInv
<1>1. Init => IInv
  BY InitEstablishes DEF IInv
<1> QED BY <1>1, NextPreservesIInv, PTL DEF Spec

(* captureUpvalue and closeUpvalues always meet a strictly descending list *)
(* (vm.c: the insertion that keeps vm.openUpvalues ordered by slot), also  *)
(* after a break has left an upvalue on the list whose slot is given up.   *)
THEOREM ListStaysSorted == Spec => []Sorted
<1>1. IInv => Sorted
  BY DEF IInv, Structure
<1> QED BY <1>1, Invariance, PTL

(* In a program whose breaks pop no captured local, no upvalue on          *)
(* vm.openUpvalues ever points at a slot that was given up or that another *)
(* variable has taken over.                                                *)
THEOREM NoDanglingOpenUpvalue == ~EarlyBreaks => (Spec => []OpenUpvaluesPointAtTheirVariable)
<1> SUFFICES ASSUME ~EarlyBreaks PROVE Spec => []OpenUpvaluesPointAtTheirVariable
  OBVIOUS
<1>1. IInv => OpenUpvaluesPointAtTheirVariable
  BY DEF IInv, Agreement
<1> QED BY <1>1, Invariance, PTL

(* The frames of vm.frames nest, so that a return, which closes upvalues   *)
(* from frame->slots up, cannot touch a caller's local.                    *)
THEOREM FramesAlwaysNest == Spec => []FramesNest
<1>1. IInv => FramesNest
  BY DEF IInv, Structure
<1> QED BY <1>1, Invariance, PTL

----------------------------------------------------------------------------
(* What follows speaks of the programs whose breaks pop no captured local. *)
Sound ==
  /\ TypeOK /\ ControlState /\ FramesNest /\ Sorted
  /\ SlotsHoldDistinctVariables /\ ListedUpvaluesAreMade
  /\ OpenUpvaluesPointAtTheirVariable
  /\ OneUpvaluePerVariable
  /\ ~Repl => OpenUpvaluesAreListed

LEMMA SoundFromIInv == ASSUME ~EarlyBreaks PROVE IInv <=> Sound
BY DEF IInv, Structure, Agreement, Sound

LEMMA SoundRunning ==
  ASSUME Sound, status = "running"
  PROVE  /\ stackTop \in 1..MaxStack /\ stackTop \in Slot
         /\ Len(frames) \in Nat \ {0}
         /\ frame.closure \in Closure \cup {Script}
         /\ frame.slots \in Slot /\ frame.fixed \in Slot
         /\ frame.slots <= frame.fixed /\ frame.fixed <= stackTop
<1>1. Structure
  BY DEF Sound, Structure
<1> QED BY <1>1, RunningState

(* A closure that captured a variable reads and writes the one current     *)
(* value of that variable: its slot while it has one, then its upvalue.    *)
LEMMA ClosuresSeeTheVariableFromSound == Sound => ClosuresSeeTheVariable
<1> SUFFICES ASSUME Sound, NEW v \in Variable, NEW u \in Capturers(v)
             PROVE  Read(u) = Content(v)
  BY DEF ClosuresSeeTheVariable
<1>1. u \in Upvalue /\ variableOf[u] = v /\ v # NOBODY
  BY DEF Capturers, Variable
<1>2. u \in made
  BY <1>1 DEF Sound, OneUpvaluePerVariable
<1>3. CASE Holders(v) # {}
  <2> DEFINE s == CHOOSE t \in Holders(v) : TRUE
  <2>1. s \in Slot /\ variable[s] = v
    BY <1>3 DEF Holders
  <2>2. PICK i \in 1..Len(openUpvalues) : openUpvalues[i] = u
    BY <1>1, <1>2, <2>1 DEF Sound, OneUpvaluePerVariable
  <2>3. location[u] \in 1..stackTop /\ variable[location[u]] = v
    BY <1>1, <2>2 DEF Sound, OpenUpvaluesPointAtTheirVariable
  <2>4. location[u] \in Slot /\ location[u] # CLOSED
    BY <1>1, <2>3 DEF Sound, TypeOK
  <2>5. location[u] = s
    BY <1>1, <2>1, <2>3, <2>4 DEF Sound, SlotsHoldDistinctVariables
  <2>6. Content(v) = stack[s]
    BY <1>3, Zenon DEF Content
  <2>7. Read(u) = stack[location[u]]
    BY <2>4 DEF Read
  <2> HIDE DEF s
  <2> QED BY <2>5, <2>6, <2>7
<1>4. CASE Holders(v) = {}
  <2>1. ASSUME NEW t \in Capturers(v) PROVE t = u
    BY <1>1, <1>2, <2>1 DEF Sound, OneUpvaluePerVariable, Capturers
  <2> DEFINE w == CHOOSE t \in Capturers(v) : TRUE
  <2>2. Capturers(v) # {} /\ w = u
    BY <2>1
  <2>3. Content(v) = Read(w)
    BY <1>4, <2>2, Zenon DEF Content
  <2> HIDE DEF w
  <2> QED BY <2>2, <2>3
<1> QED BY <1>3, <1>4

(* Closures and the frame that declared a variable agree on it for ever,   *)
(* in a program whose breaks pop no captured local.                        *)
THEOREM ClosuresAlwaysSeeTheVariable == ~EarlyBreaks => (Spec => []ClosuresSeeTheVariable)
<1> SUFFICES ASSUME ~EarlyBreaks PROVE Spec => []ClosuresSeeTheVariable
  OBVIOUS
<1>1. IInv => ClosuresSeeTheVariable
  BY SoundFromIInv, ClosuresSeeTheVariableFromSound
<1> QED BY <1>1, Invariance, PTL

----------------------------------------------------------------------------
(***************************************************************************)
(* The machine implements the variables of module LexicalVariables in a    *)
(* program that stops at its first runtime error (Repl = FALSE) and whose  *)
(* breaks pop no captured local (EarlyBreaks = FALSE).  In a session it    *)
(* does not: a runtime error forgets the list of open upvalues without     *)
(* closing them (run upvalues_session).  Nor after a break that pops a     *)
(* captured local (run compiler_break_before_capture finds such programs). *)
(*                                                                         *)
(* A step of the machine changes the abstract state through three things:  *)
(* which slots hold variables, what those slots contain, and what reading  *)
(* through an upvalue gives.  Every action is an instance of one of the    *)
(* five step lemmas below, which speak of these three only.                *)
(***************************************************************************)

(* What determines the content of a variable: any slot that holds it, any  *)
(* upvalue that captured it.                                               *)
ContentIsHeld ==
  /\ \A s \in Slot : variable[s] # NOBODY =>
       variable[s] \in Variable /\ Content(variable[s]) = stack[s]
  /\ \A u \in Upvalue : variableOf[u] # NOBODY =>
       variableOf[u] \in Variable /\ Content(variableOf[u]) = Read(u)
  /\ \A v \in Variable : v \notin Live /\ v \notin Captured => Content(v) = Gone

LEMMA ContentOfVariables == Sound => ContentIsHeld
<1> SUFFICES ASSUME Sound PROVE ContentIsHeld
  OBVIOUS
<1>1. ASSUME NEW s \in Slot, variable[s] # NOBODY
      PROVE  variable[s] \in Variable /\ Content(variable[s]) = stack[s]
  <2> DEFINE v == variable[s]
             t == CHOOSE x \in Holders(v) : TRUE
  <2>1. v \in Variable
    BY <1>1 DEF Sound, TypeOK
  <2>2. s \in Holders(v)
    BY DEF Holders
  <2>3. t \in Holders(v)
    BY <2>2
  <2>4. t = s
    BY <1>1, <2>3 DEF Holders, Sound, SlotsHoldDistinctVariables
  <2>5. Content(v) = stack[t]
    BY <2>2, Zenon DEF Content
  <2> HIDE DEF t
  <2> QED BY <2>1, <2>4, <2>5
<1>2. ASSUME NEW u \in Upvalue, variableOf[u] # NOBODY
      PROVE  variableOf[u] \in Variable /\ Content(variableOf[u]) = Read(u)
  <2>1. variableOf[u] \in Variable
    BY <1>2 DEF Sound, TypeOK
  <2>2. u \in Capturers(variableOf[u])
    BY DEF Capturers
  <2> QED BY <2>1, <2>2, ClosuresSeeTheVariableFromSound DEF ClosuresSeeTheVariable
<1>3. ASSUME NEW v \in Variable, v \notin Live, v \notin Captured
      PROVE  Content(v) = Gone
  <2>1. v # NOBODY
    BY DEF Variable
  <2>2. Holders(v) = {} /\ Capturers(v) = {}
    BY <1>3, <2>1 DEF Holders, Capturers, Live, Captured
  <2> QED BY <2>2 DEF Content
<1> QED BY <1>1, <1>2, <1>3 DEF ContentIsHeld

LEMMA ContentOfVariablesNext == Sound' => ContentIsHeld'
BY ContentOfVariables, PTL

(* Until the program stops, an upvalue is closed, or it is on the list and *)
(* points at the slot that holds its variable.                             *)
LEMMA OpenUpvaluesAreHeld ==
  ASSUME Sound, ~Repl, status # "stopped", NEW u \in Upvalue, location[u] # CLOSED
  PROVE  /\ location[u] \in 1..stackTop /\ location[u] \in Slot
         /\ role[location[u]] = "captured"
         /\ variable[location[u]] = variableOf[u] /\ variableOf[u] # NOBODY
<1>1. PICK i \in 1..Len(openUpvalues) : openUpvalues[i] = u
  BY DEF Sound, OpenUpvaluesAreListed
<1>2. /\ location[u] \in 1..stackTop /\ role[location[u]] = "captured"
      /\ variable[location[u]] = variableOf[u]
  BY <1>1 DEF Sound, OpenUpvaluesPointAtTheirVariable
<1>3. location[u] \in Slot
  BY DEF Sound, TypeOK
<1>4. variableOf[u] # NOBODY
  BY <1>2, <1>3 DEF Sound, SlotsHoldDistinctVariables
<1> QED BY <1>2, <1>3, <1>4

(* A variable that is captured and still in its slot is in one the         *)
(* compiler flagged, and its upvalue is open and points there.             *)
LEMMA CapturedVariablesAreFlagged ==
  ASSUME Sound, NEW u \in Upvalue, variableOf[u] # NOBODY,
         NEW s \in Slot, variable[s] = variableOf[u]
  PROVE  location[u] = s /\ role[s] = "captured"
<1>1. u \in made
  BY DEF Sound, OneUpvaluePerVariable
<1>2. PICK i \in 1..Len(openUpvalues) : openUpvalues[i] = u
  BY <1>1 DEF Sound, OneUpvaluePerVariable
<1>3. /\ location[u] \in 1..stackTop /\ role[location[u]] = "captured"
      /\ variable[location[u]] = variableOf[u]
  BY <1>2 DEF Sound, OpenUpvaluesPointAtTheirVariable
<1>4. location[u] \in Slot
  BY <1>3 DEF Sound, TypeOK
<1> QED BY <1>3, <1>4 DEF Sound, SlotsHoldDistinctVariables

----------------------------------------------------------------------------
(* What a step does to the contents of the variables.                      *)

(* A variable found unchanged where it was, or nowhere before and after.   *)
LEMMA ContentKept ==
  ASSUME Sound, Sound', NEW v \in Variable,
         \/ \E s \in Slot : variable[s] = v /\ variable'[s] = v /\ stack'[s] = stack[s]
         \/ \E u \in Upvalue : variableOf[u] = v /\ variableOf'[u] = v /\ Read(u)' = Read(u)
         \/ /\ v \notin Live /\ v \notin Captured
            /\ v \notin Live' /\ v \notin Captured'
  PROVE  Content(v)' = Content(v)
<1>1. ContentIsHeld /\ ContentIsHeld' /\ v # NOBODY
  BY ContentOfVariables, ContentOfVariablesNext DEF Variable
<1>2. CASE \E s \in Slot : variable[s] = v /\ variable'[s] = v /\ stack'[s] = stack[s]
  BY <1>1, <1>2 DEF ContentIsHeld
<1>3. CASE \E u \in Upvalue : variableOf[u] = v /\ variableOf'[u] = v /\ Read(u)' = Read(u)
  BY <1>1, <1>3 DEF ContentIsHeld
<1>4. CASE /\ v \notin Live /\ v \notin Captured
           /\ v \notin Live' /\ v \notin Captured'
  BY <1>1, <1>4 DEF ContentIsHeld
<1> QED BY <1>2, <1>3, <1>4

(* A step that moves no variable, nor what an upvalue reads, is invisible. *)
LEMMA KeepStep ==
  ASSUME Sound, Sound', UNCHANGED <<variable, variableOf>>,
         \A s \in Slot : variable[s] # NOBODY => stack'[s] = stack[s],
         \A u \in Upvalue : variableOf[u] # NOBODY => Read(u)' = Read(u)
  PROVE  UNCHANGED Lexical!lexicalVars
<1>1. Live' = Live /\ Captured' = Captured
  BY DEF Live, Captured
<1>2. ASSUME NEW v \in Variable PROVE Content(v)' = Content(v)
  <2>1. v # NOBODY
    BY DEF Variable
  <2>2. CASE v \in Live
    BY <2>1, <2>2, ContentKept DEF Live
  <2>3. CASE v \in Captured
    BY <2>1, <2>3, ContentKept DEF Captured
  <2> QED BY <1>1, <2>2, <2>3, ContentKept
<1> QED BY <1>1, <1>2 DEF Lexical!lexicalVars

(* Giving up the slots above top leaves the scopes of their variables,     *)
(* provided the upvalues still read what they read.                        *)
LEMMA LeaveStep ==
  ASSUME Sound, Sound', NEW top \in Int, Forget(top), variableOf' = variableOf,
         \A s \in Slot : s <= top /\ variable[s] # NOBODY => stack'[s] = stack[s],
         \A u \in Upvalue : variableOf[u] # NOBODY => Read(u)' = Read(u)
  PROVE  Lexical!Next
<1> DEFINE S == {variable[s] : s \in {t \in Slot : ~(t <= top)}} \ {NOBODY}
<1>1. \A s \in Slot : variable'[s] = IF s <= top THEN variable[s] ELSE NOBODY
  BY DEF Forget
<1>2. S \subseteq Live /\ Captured' = Captured
  BY DEF Live, Captured
<1>3. Live' = Live \ S
  <2>1. ASSUME NEW v \in Live' PROVE v \in Live \ S
    <3>1. PICK s \in Slot : variable'[s] = v /\ v # NOBODY
      BY <2>1 DEF Live
    <3>2. s <= top /\ variable[s] = v
      BY <1>1, <3>1
    <3>3. v \notin S
      BY <3>1, <3>2 DEF Sound, SlotsHoldDistinctVariables
    <3> QED BY <3>1, <3>2, <3>3 DEF Live
  <2>2. ASSUME NEW v \in Live \ S PROVE v \in Live'
    BY <1>1, <2>2 DEF Live
  <2> QED BY <2>1, <2>2
<1>4. ASSUME NEW v \in Variable
      PROVE  Content(v)' = IF v \in S \ Captured THEN Gone ELSE Content(v)
  <2>1. v # NOBODY
    BY DEF Variable
  <2>2. CASE v \in Captured
    BY <2>1, <2>2, ContentKept DEF Captured
  <2>3. CASE v \in S \ Captured
    BY <1>2, <1>3, <2>3, ContentOfVariablesNext DEF ContentIsHeld
  <2>4. CASE v \in Live \ S
    <3>1. PICK s \in Slot : variable[s] = v /\ s <= top
      BY <2>1, <2>4 DEF Live
    <3>2. variable'[s] = v /\ stack'[s] = stack[s]
      BY <1>1, <2>1, <3>1
    <3> QED BY <2>4, <3>1, <3>2, ContentKept
  <2>5. CASE v \notin Live /\ v \notin Captured
    BY <1>2, <1>3, <2>5, ContentKept
  <2> QED BY <2>2, <2>3, <2>4, <2>5
<1> HIDE DEF S
<1>5. Lexical!Leave(S)
  BY <1>2, <1>3, <1>4 DEF Lexical!Leave
<1> QED BY <1>2, <1>5 DEF Lexical!Next

(* Slots that held temporaries get new variables.                          *)
LEMMA BirthStep ==
  ASSUME Sound, Sound', ~Repl, status = "running", variableOf' = variableOf,
         UNCHANGED <<location, closed>>,
         NEW D \in SUBSET Slot,
         \A s \in D : variable[s] = NOBODY,
         \A s \in D : variable'[s] = NOBODY \/ variable'[s] > declared,
         \A s \in Slot \ D : variable'[s] = variable[s] /\ stack'[s] = stack[s]
  PROVE  Lexical!Next
<1> DEFINE S == {variable'[s] : s \in D} \ {NOBODY}
<1>1. declared \in Nat
  BY DEF Sound, TypeOK
<1>2. ASSUME NEW v \in Live \cup Captured PROVE v \in Nat /\ v <= declared
  <2>1. CASE v \in Live
    BY <2>1 DEF Sound, TypeOK, Live, Variable, SlotsHoldDistinctVariables
  <2>2. CASE v \in Captured
    <3>1. PICK u \in Upvalue : variableOf[u] = v /\ v # NOBODY
      BY <2>2 DEF Captured
    <3>2. u \in made
      BY <3>1 DEF Sound, OneUpvaluePerVariable
    <3>3. v \in 1..declared
      BY <3>1, <3>2 DEF Sound, OneUpvaluePerVariable
    <3> QED BY <1>1, <3>3
  <2> QED BY <2>1, <2>2
<1>3. ASSUME NEW v \in S PROVE v \in Variable /\ v > declared
  BY <1>3 DEF Sound, TypeOK
<1>4. S \cap (Live \cup Captured) = {}
  BY <1>1, <1>2, <1>3 DEF Variable
<1>5. Captured' = Captured
  BY DEF Captured
<1>6. Live' = Live \cup S
  <2>1. ASSUME NEW v \in Live' PROVE v \in Live \cup S
    BY <2>1 DEF Live
  <2>2. ASSUME NEW v \in Live PROVE v \in Live'
    <3>1. PICK s \in Slot : variable[s] = v /\ v # NOBODY
      BY <2>2 DEF Live
    <3> QED BY <3>1 DEF Live
  <2>3. ASSUME NEW v \in S PROVE v \in Live'
    BY <2>3 DEF Live
  <2> QED BY <2>1, <2>2, <2>3
<1>7. ASSUME NEW u \in Upvalue, variableOf[u] # NOBODY PROVE Read(u)' = Read(u)
  <2>1. CASE location[u] = CLOSED
    BY <2>1 DEF Read
  <2>2. CASE location[u] # CLOSED
    <3>1. location[u] \in Slot /\ variable[location[u]] # NOBODY
      BY <2>2, OpenUpvaluesAreHeld
    <3>2. location[u] \notin D
      BY <3>1
    <3> QED BY <2>2, <3>1, <3>2 DEF Read
  <2> QED BY <2>1, <2>2
<1>8. ASSUME NEW v \in S PROVE Content(v)' \in Value
  <2>1. PICK s \in Slot : variable'[s] = v /\ v # NOBODY
    BY <1>8
  <2>2. stack'[s] \in Value
    BY DEF Sound, TypeOK
  <2> QED BY <2>1, <2>2, ContentOfVariablesNext DEF ContentIsHeld
<1>9. ASSUME NEW v \in Variable \ S PROVE Content(v)' = Content(v)
  <2>1. v # NOBODY
    BY DEF Variable
  <2>2. CASE v \in Captured
    BY <1>7, <2>1, <2>2, ContentKept DEF Captured
  <2>3. CASE v \in Live
    <3>1. PICK s \in Slot : variable[s] = v
      BY <2>3 DEF Live
    <3>2. variable'[s] = v /\ stack'[s] = stack[s]
      BY <2>1, <3>1
    <3> QED BY <3>1, <3>2, ContentKept
  <2>4. CASE v \notin Live /\ v \notin Captured
    BY <1>5, <1>6, <1>9, <2>4, ContentKept
  <2> QED BY <2>2, <2>3, <2>4
<1> HIDE DEF S
<1>10. Lexical!Declare(S)
  BY <1>3, <1>4, <1>5, <1>6, <1>8, <1>9 DEF Lexical!Declare
<1>11. S \in SUBSET (Variable \ Live)
  BY <1>3, <1>4
<1> QED BY <1>10, <1>11 DEF Lexical!Next

(* An assignment through the slot that holds the variable.                 *)
LEMMA AssignSlotStep ==
  ASSUME Sound, Sound', ~Repl, status = "running", UNCHANGED <<variable, variableOf>>,
         UNCHANGED <<location, closed>>, NEW s \in Slot, variable[s] # NOBODY,
         \A t \in Slot : t # s => stack'[t] = stack[t]
  PROVE  Lexical!Next
<1>0. PICK v \in Variable : v = variable[s]
  BY DEF Sound, TypeOK
<1>1. Live' = Live /\ Captured' = Captured
  BY DEF Live, Captured
<1>2. v \in Live /\ Content(v)' = stack'[s] /\ stack'[s] \in Value
  BY <1>0, ContentOfVariablesNext DEF ContentIsHeld, Live, Sound, TypeOK
<1>3. ASSUME NEW w \in Variable \ {v} PROVE Content(w)' = Content(w)
  <2>1. w # NOBODY
    BY DEF Variable
  <2>2. CASE w \in Live
    <3>1. PICK t \in Slot : variable[t] = w
      BY <2>2 DEF Live
    <3>2. t # s
      BY <1>0, <3>1
    <3> QED BY <3>1, <3>2, ContentKept
  <2>3. CASE w \in Captured
    <3>1. PICK u \in Upvalue : variableOf[u] = w
      BY <2>3 DEF Captured
    <3>2. Read(u)' = Read(u)
      <4>1. CASE location[u] = CLOSED
        BY <4>1 DEF Read
      <4>2. CASE location[u] # CLOSED
        <5>1. location[u] \in Slot /\ location[u] # s
          BY <1>0, <3>1, <4>2, OpenUpvaluesAreHeld
        <5> QED BY <4>2, <5>1 DEF Read
      <4> QED BY <4>1, <4>2
    <3> QED BY <2>1, <3>1, <3>2, ContentKept
  <2>4. CASE w \notin Live /\ w \notin Captured
    BY <1>1, <2>4, ContentKept
  <2> QED BY <2>2, <2>3, <2>4
<1>5. Lexical!Assign(v)
  BY <1>1, <1>2, <1>3 DEF Lexical!Assign
<1> QED BY <1>2, <1>5 DEF Lexical!Next

(* An assignment through a closed upvalue, whose variable left its slot.   *)
LEMMA AssignClosedStep ==
  ASSUME Sound, Sound', UNCHANGED <<variable, variableOf, stack, location>>,
         NEW u \in Upvalue, location[u] = CLOSED, variableOf[u] # NOBODY,
         \A w \in Upvalue : w # u => closed'[w] = closed[w]
  PROVE  Lexical!Next
<1>0. PICK v \in Variable : v = variableOf[u]
  BY DEF Sound, TypeOK
<1>1. Live' = Live /\ Captured' = Captured
  BY DEF Live, Captured
<1>2. /\ v \in Captured /\ v \in Variable
      /\ Content(v)' = Read(u)' /\ Read(u)' = closed'[u] /\ closed'[u] \in Value
  BY <1>0, ContentOfVariablesNext DEF ContentIsHeld, Captured, Sound, TypeOK, Read
<1>3. ASSUME NEW w \in Variable \ {v} PROVE Content(w)' = Content(w)
  <2>1. w # NOBODY
    BY DEF Variable
  <2>2. CASE w \in Live
    BY <2>2, ContentKept DEF Live
  <2>3. CASE w \in Captured
    <3>1. PICK x \in Upvalue : variableOf[x] = w
      BY <2>3 DEF Captured
    <3>2. x # u
      BY <1>0, <3>1
    <3>3. Read(x)' = Read(x)
      BY <3>2 DEF Read
    <3> QED BY <3>1, <3>3, ContentKept
  <2>4. CASE w \notin Live /\ w \notin Captured
    BY <1>1, <2>4, ContentKept
  <2> QED BY <2>2, <2>3, <2>4
<1>5. Lexical!Assign(v)
  BY <1>1, <1>2, <1>3 DEF Lexical!Assign
<1> QED BY <1>2, <1>5 DEF Lexical!Next

(* The first capture of the variable in slot s.                            *)
LEMMA CaptureStep ==
  ASSUME Sound, Sound', UNCHANGED <<variable, stack>>, NEW s \in Slot, variable[s] # NOBODY,
         NEW u \in Upvalue, variableOf[u] = NOBODY,
         variableOf' = [variableOf EXCEPT ![u] = variable[s]],
         \A w \in Upvalue : w # u => Read(w)' = Read(w)
  PROVE  Lexical!Next
<1> DEFINE v == variable[s]
<1>1. Live' = Live /\ v \in Live
  BY DEF Live
<1>2. /\ variableOf'[u] = v
      /\ \A w \in Upvalue : w # u => variableOf'[w] = variableOf[w]
  BY DEF Sound, TypeOK
<1>3. Captured' = Captured \cup {v}
  <2>1. ASSUME NEW w \in Captured' PROVE w \in Captured \cup {v}
    BY <1>2, <2>1 DEF Captured
  <2>2. ASSUME NEW w \in Captured \cup {v} PROVE w \in Captured'
    <3>1. CASE w = v
      BY <1>2, <3>1 DEF Captured
    <3>2. CASE w \in Captured
      <4>1. PICK x \in Upvalue : variableOf[x] = w /\ w # NOBODY
        BY <3>2 DEF Captured
      <4> QED BY <1>2, <4>1 DEF Captured
    <3> QED BY <2>2, <3>1, <3>2
  <2> QED BY <2>1, <2>2
<1>4. ASSUME NEW w \in Variable PROVE Content(w)' = Content(w)
  <2>1. w # NOBODY
    BY DEF Variable
  <2>2. CASE w \in Live
    BY <2>2, ContentKept DEF Live
  <2>3. CASE w \in Captured
    <3>1. PICK x \in Upvalue : variableOf[x] = w
      BY <2>3 DEF Captured
    <3>2. x # u
      BY <2>1, <3>1
    <3> QED BY <1>2, <3>1, <3>2, ContentKept
  <2>4. CASE w \notin Live /\ w \notin Captured
    BY <1>1, <1>3, <2>4, ContentKept
  <2> QED BY <2>2, <2>3, <2>4
<1> HIDE DEF v
<1>5. Lexical!Capture(v)
  BY <1>1, <1>3, <1>4 DEF Lexical!Capture
<1> QED BY <1>1, <1>5 DEF Lexical!Next

(* closeUpvalues moves the value of a slot into its upvalue, so what the   *)
(* upvalue reads stays the same, whatever becomes of the slots from `last` *)
(* up: an upvalue still open afterwards points below `last`.               *)
LEMMA CloseUpvaluesKeepsReads ==
  ASSUME Sound, ~Repl, status # "stopped", NEW last \in Slot, CloseUpvalues(last),
         \A s \in Slot : s < last => stack'[s] = stack[s]
  PROVE  \A u \in Upvalue : Read(u)' = Read(u)
<1> DEFINE n == AtOrAbove(last)
           L == Len(openUpvalues)
           taken == {openUpvalues[i] : i \in 1..n}
<1>1. /\ n \in 0..L
      /\ \A i \in 1..n : location[openUpvalues[i]] >= last
      /\ \A i \in n + 1..L : location[openUpvalues[i]] < last
  BY AtOrAboveProperties DEF Sound
<1>2. /\ closed' = [u \in Upvalue |-> IF u \in taken THEN stack[location[u]] ELSE closed[u]]
      /\ location' = [u \in Upvalue |-> IF u \in taken THEN CLOSED ELSE location[u]]
  BY DEF CloseUpvalues
<1> HIDE DEF n
<1>3. L \in Nat /\ last \in Nat \ {0}
  BY UpvaluesAssumption DEF Sound, TypeOK, Slot
<1> SUFFICES ASSUME NEW u \in Upvalue PROVE Read(u)' = Read(u)
  OBVIOUS
<1>4. CASE u \in taken
  <2>1. location[u] # CLOSED
    BY <1>1, <1>3, <1>4
  <2>2. location'[u] = CLOSED /\ closed'[u] = stack[location[u]]
    BY <1>2, <1>4
  <2> QED BY <2>1, <2>2 DEF Read
<1>5. CASE u \notin taken
  <2>1. location'[u] = location[u] /\ closed'[u] = closed[u]
    BY <1>2, <1>5
  <2>2. CASE location[u] = CLOSED
    BY <2>1, <2>2 DEF Read
  <2>3. CASE location[u] # CLOSED
    <3>1. PICK i \in 1..L : openUpvalues[i] = u
      BY <2>3 DEF Sound, OpenUpvaluesAreListed
    <3>2. i \notin 1..n
      BY <1>5, <3>1
    <3>3. i \in n + 1..L
      BY <1>1, <1>3, <3>2
    <3>4. location[u] < last
      BY <1>1, <3>1, <3>3
    <3>5. location[u] \in Slot
      BY <2>3 DEF Sound, TypeOK
    <3>6. stack'[location[u]] = stack[location[u]]
      BY <3>4, <3>5
    <3> QED BY <2>1, <2>3, <3>6 DEF Read
  <2> QED BY <2>2, <2>3
<1> QED BY <1>4, <1>5

----------------------------------------------------------------------------
(* The actions, each as an instance of a step above.                       *)

(* Slots above stackTop, and temporaries, hold no variable.                *)
LEMMA NoVariableInTemporaries ==
  ASSUME Sound, NEW s \in Slot, s > stackTop \/ role[s] = "temp"
  PROVE  variable[s] = NOBODY
BY DEF Sound, SlotsHoldDistinctVariables

(* While nothing is closed or reopened, writing above stackTop or to       *)
(* temporaries changes no read.                                            *)
LEMMA ReadsKept ==
  ASSUME Sound, ~Repl, status # "stopped", UNCHANGED <<location, closed>>,
         \A s \in Slot : variable[s] # NOBODY => stack'[s] = stack[s]
  PROVE  \A u \in Upvalue : Read(u)' = Read(u)
<1> SUFFICES ASSUME NEW u \in Upvalue PROVE Read(u)' = Read(u)
  OBVIOUS
<1>1. CASE location[u] = CLOSED
  BY <1>1 DEF Read
<1>2. CASE location[u] # CLOSED
  BY <1>2, OpenUpvaluesAreHeld DEF Read
<1> QED BY <1>1, <1>2

LEMMA PushImplements ==
  ASSUME Sound, Sound', ~Repl, status # "stopped", NEW x, Push(x),
         UNCHANGED <<location, closed, variableOf>>
  PROVE  UNCHANGED Lexical!lexicalVars
<1>1. ASSUME NEW s \in Slot, variable[s] # NOBODY PROVE stack'[s] = stack[s]
  <2>1. s # stackTop + 1
    BY <1>1, UpvaluesAssumption DEF Sound, TypeOK, SlotsHoldDistinctVariables, Slot
  <2> QED BY <2>1 DEF Push, Sound, TypeOK
<1> QED BY <1>1, ReadsKept, KeepStep DEF Push

LEMMA CaptureEnclosingImplements ==
  ASSUME Sound, Sound', NEW i \in 1..MaxCaptures, CaptureEnclosing(i)
  PROVE  UNCHANGED Lexical!lexicalVars
<1>1. UNCHANGED <<stack, location, closed, variable, variableOf>>
  BY DEF CaptureEnclosing, ghosts
<1>2. \A u \in Upvalue : Read(u)' = Read(u)
  BY <1>1 DEF Read
<1> QED BY <1>1, <1>2, KeepStep

LEMMA SetGlobalImplements ==
  ASSUME Sound, Sound', SetGlobal
  PROVE  UNCHANGED Lexical!lexicalVars
<1>1. UNCHANGED <<stack, location, closed, variable, variableOf>>
  BY DEF SetGlobal, ghosts
<1>2. \A u \in Upvalue : Read(u)' = Read(u)
  BY <1>1 DEF Read
<1> QED BY <1>1, <1>2, KeepStep

LEMMA SetLocalImplements ==
  ASSUME Sound, Sound', ~Repl, NEW s \in Slot, SetLocal(s)
  PROVE  Lexical!Next
<1>1. /\ status = "running" /\ role[s] # "temp"
      /\ UNCHANGED <<variable, variableOf, location, closed>>
      /\ stack' = [stack EXCEPT ![s] = stack[stackTop]]
  BY DEF SetLocal, IsLocal, Running, ghosts
<1>2. variable[s] # NOBODY
  BY <1>1 DEF Sound, SlotsHoldDistinctVariables
<1>3. \A t \in Slot : t # s => stack'[t] = stack[t]
  BY <1>1 DEF Sound, TypeOK
<1> QED BY <1>1, <1>2, <1>3, AssignSlotStep

(* An assignment through an upvalue is one to its variable, in its slot    *)
(* while it is open; through an upvalue nobody captured yet it would be    *)
(* invisible.                                                              *)
LEMMA SetUpvalueImplements ==
  ASSUME Sound, Sound', ~Repl, NEW i \in 1..MaxCaptures, SetUpvalue(i)
  PROVE  Lexical!Next \/ UNCHANGED Lexical!lexicalVars
<1>1. /\ status = "running" /\ i \in 1..Len(upvalues[frame.closure])
      /\ UNCHANGED <<variable, variableOf, location>>
  BY DEF SetUpvalue, Running, ghosts
<1>2. frame.closure \in Closure \cup {Script}
  BY <1>1, SoundRunning
<1>3. PICK u \in Upvalue : u = upvalues[frame.closure][i]
  BY <1>1, <1>2 DEF Sound, TypeOK
<1>4. CASE location[u] = CLOSED
  <2>1. closed' = [closed EXCEPT ![u] = stack[stackTop]] /\ stack' = stack
    BY <1>3, <1>4 DEF SetUpvalue
  <2>2. \A w \in Upvalue : w # u => closed'[w] = closed[w]
    BY <2>1 DEF Sound, TypeOK
  <2>3. CASE variableOf[u] # NOBODY
    BY <1>1, <1>4, <2>1, <2>2, <2>3, AssignClosedStep
  <2>4. CASE variableOf[u] = NOBODY
    <3>1. \A w \in Upvalue : variableOf[w] # NOBODY => Read(w)' = Read(w)
      BY <1>1, <2>1, <2>2, <2>4 DEF Read
    <3> QED BY <1>1, <2>1, <3>1, KeepStep
  <2> QED BY <2>3, <2>4
<1>5. CASE location[u] # CLOSED
  <2>1. stack' = [stack EXCEPT ![location[u]] = stack[stackTop]] /\ closed' = closed
    BY <1>3, <1>5 DEF SetUpvalue
  <2>2. PICK s \in Slot : s = location[u] /\ variable[s] # NOBODY
    BY <1>1, <1>5, OpenUpvaluesAreHeld
  <2>3. \A t \in Slot : t # s => stack'[t] = stack[t]
    BY <2>1, <2>2 DEF Sound, TypeOK
  <2> QED BY <1>1, <2>1, <2>2, <2>3, AssignSlotStep
<1> QED BY <1>4, <1>5

LEMMA CaptureLocalImplements ==
  ASSUME Sound, Sound', ~Repl, NEW s \in Slot, CaptureLocal(s)
  PROVE  Lexical!Next \/ UNCHANGED Lexical!lexicalVars
<1> DEFINE c == stack[stackTop]
<1>1. /\ status = "running" /\ UNCHANGED <<stack, stackTop, variable>>
      /\ role[s] = "captured"
      /\ ShareUpvalue(c, s) \/ \E u \in Upvalue : NewUpvalue(c, s, u)
  BY DEF CaptureLocal
<1>2. variable[s] # NOBODY
  BY <1>1 DEF Sound, SlotsHoldDistinctVariables
<1>3. CASE ShareUpvalue(c, s)
  <2>1. UNCHANGED <<location, closed, variableOf>>
    BY <1>3 DEF ShareUpvalue
  <2>2. \A u \in Upvalue : Read(u)' = Read(u)
    BY <1>1, <2>1 DEF Read
  <2> QED BY <1>1, <2>1, <2>2, KeepStep
<1>4. ASSUME NEW u \in Upvalue, NewUpvalue(c, s, u) PROVE Lexical!Next
  <2>1. /\ u \notin made /\ location' = [location EXCEPT ![u] = s] /\ closed' = closed
        /\ variableOf' = [variableOf EXCEPT ![u] = variable[s]]
    BY <1>4 DEF NewUpvalue
  <2>2. variableOf[u] = NOBODY
    BY <2>1 DEF Sound, OneUpvaluePerVariable
  <2>3. \A w \in Upvalue : w # u => Read(w)' = Read(w)
    BY <1>1, <2>1 DEF Read, Sound, TypeOK
  <2> QED BY <1>1, <1>2, <2>1, <2>2, <2>3, CaptureStep
<1> QED BY <1>1, <1>3, <1>4

LEMMA DefineLocalImplements ==
  ASSUME Sound, Sound', ~Repl, NEW r \in {"local", "captured"}, DefineLocal(r)
  PROVE  Lexical!Next
<1>1. /\ status = "running" /\ role[stackTop] = "temp"
      /\ variable' = [variable EXCEPT ![stackTop] = declared + 1]
      /\ UNCHANGED <<stack, location, closed, variableOf>>
  BY DEF DefineLocal, NewVariable, Running, machine
<1>2. stackTop \in Slot /\ declared \in Nat
  BY <1>1, SoundRunning DEF Sound, TypeOK
<1>3. \A s \in {stackTop} : variable[s] = NOBODY
  BY <1>1, <1>2, NoVariableInTemporaries
<1>4. \A s \in {stackTop} : variable'[s] = NOBODY \/ variable'[s] > declared
  BY <1>1, <1>2 DEF Sound, TypeOK
<1>5. \A s \in Slot \ {stackTop} : variable'[s] = variable[s] /\ stack'[s] = stack[s]
  BY <1>1 DEF Sound, TypeOK
<1>6. {stackTop} \in SUBSET Slot
  BY <1>2
<1> QED BY <1>1, <1>3, <1>4, <1>5, <1>6, BirthStep

LEMMA MakeClosureImplements ==
  ASSUME Sound, Sound', ~Repl, NEW c \in Closure, NEW n \in 0..MaxCaptures, NEW r \in Role,
         MakeClosure(c, n, r)
  PROVE  Lexical!Next
<1> DEFINE new == stackTop + 1
<1>1. /\ status = "running" /\ stackTop < MaxStack
      /\ stack' = [stack EXCEPT ![new] = c]
      /\ \/ variable' = variable
         \/ variable' = [variable EXCEPT ![new] = declared + 1]
      /\ UNCHANGED <<location, closed, variableOf>>
  BY DEF MakeClosure, NewVariable, Running
<1>2. new \in Slot /\ new > stackTop /\ declared \in Nat
  BY <1>1, SoundRunning, UpvaluesAssumption DEF Sound, TypeOK, Slot
<1> HIDE DEF new
<1>3. \A s \in {new} : variable[s] = NOBODY
  BY <1>2, NoVariableInTemporaries
<1>4. \A s \in {new} : variable'[s] = NOBODY \/ variable'[s] > declared
  BY <1>1, <1>2, <1>3 DEF Sound, TypeOK
<1>5. \A s \in Slot \ {new} : variable'[s] = variable[s] /\ stack'[s] = stack[s]
  BY <1>1 DEF Sound, TypeOK
<1>6. {new} \in SUBSET Slot
  BY <1>2
<1> QED BY <1>1, <1>3, <1>4, <1>5, <1>6, BirthStep

(* A call declares the parameters of the function it enters.               *)
LEMMA EnterFrameImplements ==
  ASSUME Sound, Sound', ~Repl, Running, NEW callee \in Slot, Operands(callee),
         NEW c, NEW roles \in [callee..stackTop -> Role], EnterFrame(c, callee, roles),
         \A s \in Slot : s # callee => stack'[s] = stack[s]
  PROVE  Lexical!Next
<1> DEFINE first == IF roles[callee] = "temp" THEN callee + 1 ELSE callee
           D == callee..stackTop
<1>1. /\ \A s \in callee..stackTop : role[s] = "temp"
      /\ variable' = [s \in Slot |-> IF s \in first..stackTop THEN declared + (s + 1 - first)
                                     ELSE IF s = callee THEN NOBODY ELSE variable[s]]
      /\ UNCHANGED <<location, closed, variableOf>>
      /\ status = "running"
  BY DEF Operands, EnterFrame, Running
<1>2. /\ stackTop \in Nat /\ stackTop <= MaxStack /\ MaxStack \in Nat /\ declared \in Nat
      /\ callee \in Nat /\ callee <= stackTop /\ callee > 0
  BY <1>1, SoundRunning, UpvaluesAssumption DEF Operands, InBody, Slot, Sound, TypeOK
<1>3. first \in {callee, callee + 1}
  OBVIOUS
<1> HIDE DEF first
<1>4. D \in SUBSET Slot
  BY <1>2 DEF Slot
<1>5. \A s \in D : variable[s] = NOBODY
  BY <1>1, <1>4, NoVariableInTemporaries
<1>6. ASSUME NEW s \in D PROVE variable'[s] = NOBODY \/ variable'[s] > declared
  <2>1. s \in Slot
    BY <1>4
  <2>2. CASE s \in first..stackTop
    <3>1. variable'[s] = declared + (s + 1 - first)
      BY <1>1, <2>1, <2>2
    <3> QED BY <1>2, <1>3, <2>2, <3>1
  <2>3. CASE s \notin first..stackTop
    BY <1>1, <1>2, <1>3, <2>1, <2>3
  <2> QED BY <2>2, <2>3
<1>7. ASSUME NEW s \in Slot \ D PROVE variable'[s] = variable[s] /\ stack'[s] = stack[s]
  <2>1. s \notin first..stackTop /\ s # callee
    BY <1>2, <1>3 DEF Slot
  <2> QED BY <1>1, <2>1
<1> HIDE DEF D
<1> QED BY <1>1, <1>4, <1>5, <1>6, <1>7, BirthStep

LEMMA CallsImplement ==
  ASSUME Sound, Sound', ~Repl, NEW callee \in Slot, NEW roles \in [callee..stackTop -> Role],
         \/ CallClosure(callee, roles)
         \/ \E c \in Closure : \E x \in Datum \cup {c} : CallMember(callee, c, x, roles)
  PROVE  Lexical!Next
<1>1. CASE CallClosure(callee, roles)
  BY <1>1, EnterFrameImplements DEF CallClosure
<1>2. ASSUME NEW c \in Closure, NEW x \in Datum \cup {c}, CallMember(callee, c, x, roles)
      PROVE  Lexical!Next
  <2>1. \A s \in Slot : s # callee => stack'[s] = stack[s]
    BY <1>2 DEF CallMember, Sound, TypeOK
  <2> QED BY <1>2, <2>1, EnterFrameImplements DEF CallMember
<1> QED BY <1>1, <1>2

----------------------------------------------------------------------------
(* Leaving scopes.                                                         *)

LEMMA PopTemporaryImplements ==
  ASSUME Sound, Sound', ~Repl, PopTemporary
  PROVE  Lexical!Next
<1>1. /\ status = "running" /\ Forget(stackTop - 1)
      /\ UNCHANGED <<stack, location, closed, variableOf>>
  BY DEF PopTemporary, Running
<1>2. stackTop - 1 \in Int
  BY DEF Sound, TypeOK
<1>3. \A u \in Upvalue : Read(u)' = Read(u)
  BY <1>1, ReadsKept
<1> QED BY <1>1, <1>2, <1>3, LeaveStep

LEMMA CallNativeImplements ==
  ASSUME Sound, Sound', ~Repl, NEW callee \in Slot, NEW x \in Datum, CallNative(callee, x)
  PROVE  Lexical!Next
<1>1. /\ status = "running" /\ Forget(callee - 1) /\ Operands(callee)
      /\ stack' = [stack EXCEPT ![callee - 1 + 1] = x]
      /\ UNCHANGED <<location, closed, variableOf>>
  BY DEF CallNative, Replace, Running
<1>2. /\ callee \in Int /\ callee - 1 + 1 = callee /\ callee - 1 \in Int
      /\ stackTop \in Int /\ callee <= stackTop
  BY <1>1 DEF Slot, Sound, TypeOK, Operands, InBody
<1>3. role[callee] = "temp"
  BY <1>1, <1>2 DEF Operands
<1>4. \A s \in Slot : variable[s] # NOBODY => stack'[s] = stack[s]
  BY <1>1, <1>2, <1>3, NoVariableInTemporaries DEF Sound, TypeOK
<1>5. \A u \in Upvalue : Read(u)' = Read(u)
  BY <1>1, <1>4, ReadsKept
<1> QED BY <1>1, <1>2, <1>4, <1>5, LeaveStep

(* The end of one local: its upvalue, if it has one, is closed.            *)
LEMMA EndLocalImplements ==
  ASSUME Sound, Sound', ~Repl, EndLocal
  PROVE  Lexical!Next
<1>1. /\ status = "running" /\ Forget(stackTop - 1)
      /\ UNCHANGED <<stack, variableOf>>
      /\ IF role[stackTop] = "captured"
           THEN CloseUpvalues(stackTop)
           ELSE UNCHANGED <<openUpvalues, location, closed>>
  BY DEF EndLocal, Running
<1>2. stackTop - 1 \in Int /\ stackTop \in Slot
  BY <1>1, SoundRunning DEF Sound, TypeOK
<1>3. \A u \in Upvalue : Read(u)' = Read(u)
  BY <1>1, <1>2, ReadsKept, CloseUpvaluesKeepsReads
<1> QED BY <1>1, <1>2, <1>3, LeaveStep

(* A break that pops a local without an open upvalue.                      *)
LEMMA BreakBeforeCaptureImplements ==
  ASSUME Sound, Sound', ~Repl, BreakBeforeCapture
  PROVE  Lexical!Next
<1>1. /\ status = "running" /\ Forget(stackTop - 1)
      /\ UNCHANGED <<stack, location, closed, variableOf>>
  BY DEF BreakBeforeCapture, Running
<1>2. stackTop - 1 \in Int
  BY DEF Sound, TypeOK
<1>3. \A u \in Upvalue : Read(u)' = Read(u)
  BY <1>1, ReadsKept
<1> QED BY <1>1, <1>2, <1>3, LeaveStep

(* Slots given up with closeUpvalues, and a result left in the lowest.     *)
LEMMA CloseAndReplaceImplements ==
  ASSUME Sound, Sound', ~Repl, status = "running", NEW last \in Slot, NEW x,
         CloseUpvalues(last), Replace(last - 1, x), variableOf' = variableOf
  PROVE  Lexical!Next
<1>1. /\ last - 1 + 1 = last /\ last - 1 \in Int /\ last \in Int
      /\ \A s \in Slot : s \in Int /\ (s <= last - 1 <=> s < last)
  BY DEF Slot
<1>2. \A s \in Slot : s < last => stack'[s] = stack[s]
  BY <1>1 DEF Replace, Sound, TypeOK
<1>3. \A u \in Upvalue : Read(u)' = Read(u)
  BY <1>2, CloseUpvaluesKeepsReads
<1> QED BY <1>1, <1>2, <1>3, LeaveStep DEF Replace

LEMMA CloseBlockExprImplements ==
  ASSUME Sound, Sound', ~Repl, NEW n \in 0..MaxStack, CloseBlockExpr(n)
  PROVE  Lexical!Next
<1>1. /\ status = "running" /\ CloseUpvalues(stackTop - n)
      /\ Replace(stackTop - 1 - n, stack[stackTop])
      /\ variableOf' = variableOf
      /\ InBody(stackTop)
      /\ \A s \in stackTop - n..stackTop - 1 : InBody(s)
  BY DEF CloseBlockExpr, Running
<1>2. /\ stackTop \in Slot /\ frame.fixed \in Slot /\ n \in Nat
      /\ stackTop - 1 - n = stackTop - n - 1
  BY <1>1, SoundRunning, UpvaluesAssumption DEF Slot
<1>3. stackTop - n \in Slot
  <2>1. CASE n = 0
    BY <1>2, <2>1 DEF Slot
  <2>2. CASE n > 0
    <3>1. stackTop - n \in stackTop - n..stackTop - 1
      BY <1>2, <2>2 DEF Slot
    <3> QED BY <1>1, <1>2, <3>1, UpvaluesAssumption DEF InBody, Slot
  <2> QED BY <1>2, <2>1, <2>2
<1> QED BY <1>1, <1>2, <1>3, CloseAndReplaceImplements

LEMMA ReturnToCallerImplements ==
  ASSUME Sound, Sound', ~Repl, ReturnToCaller
  PROVE  Lexical!Next
<1>1. status = "running"
  BY DEF ReturnToCaller, Running
<1>2. frame.slots \in Slot
  BY <1>1, SoundRunning
<1> QED BY <1>1, <1>2, CloseAndReplaceImplements DEF ReturnToCaller

LEMMA ReturnFromScriptImplements ==
  ASSUME Sound, Sound', ~Repl, ReturnFromScript
  PROVE  Lexical!Next
<1>1. /\ status = "running" /\ Forget(stackTop - 2) /\ CloseUpvalues(frame.slots)
      /\ stackTop = frame.slots + 1 /\ UNCHANGED <<stack, variableOf>>
  BY DEF ReturnFromScript, Running
<1>2. frame.slots \in Slot /\ stackTop - 2 \in Int
  BY <1>1, SoundRunning DEF Slot
<1>3. \A u \in Upvalue : Read(u)' = Read(u)
  BY <1>1, <1>2, CloseUpvaluesKeepsReads
<1> QED BY <1>1, <1>2, <1>3, LeaveStep

(* After the last runtime error the upvalues still point at slots whose    *)
(* values nobody overwrites any more.                                      *)
LEMMA RuntimeErrorImplements ==
  ASSUME Sound, Sound', RuntimeError
  PROVE  Lexical!Next
<1>1. Forget(0) /\ UNCHANGED <<stack, location, closed, variableOf>>
  BY DEF RuntimeError
<1>2. \A u \in Upvalue : Read(u)' = Read(u)
  BY <1>1 DEF Read
<1> QED BY <1>1, <1>2, LeaveStep

----------------------------------------------------------------------------
LEMMA InitImplements == Init => Lexical!Init
<1> SUFFICES ASSUME Init PROVE Lexical!Init
  OBVIOUS
<1>1. Live = {} /\ Captured = {}
  BY DEF Init, Live, Captured
<1>2. Sound
  BY InitEstablishes DEF Structure, Agreement, Sound
<1>3. \A v \in Variable : Content(v) = Gone
  BY <1>1, <1>2, ContentOfVariables DEF ContentIsHeld
<1> QED BY <1>1, <1>3 DEF Lexical!Init

LEMMA NextImplements ==
  ~Repl /\ Sound /\ Sound' /\ [Next]_vars => [Lexical!Next]_(Lexical!lexicalVars)
<1> SUFFICES ASSUME ~Repl, Sound, Sound', [Next]_vars
             PROVE  Lexical!Next \/ UNCHANGED Lexical!lexicalVars
  OBVIOUS
<1>1. CASE Interpret
  BY <1>1, PushImplements DEF Interpret
<1>2. CASE PushValue \/ GetGlobal \/ \E s \in Slot : GetLocal(s)
  BY <1>2, PushImplements DEF PushValue, GetGlobal, GetLocal, Running
<1>3. CASE PopTemporary \/ EndLocal \/ BreakBeforeCapture \/ ReturnToCaller \/ ReturnFromScript \/ RuntimeError
  BY <1>3, PopTemporaryImplements, EndLocalImplements, BreakBeforeCaptureImplements,
     ReturnToCallerImplements, ReturnFromScriptImplements, RuntimeErrorImplements
<1>4. CASE SetGlobal \/ \E s \in Slot : SetLocal(s)
  BY <1>4, SetGlobalImplements, SetLocalImplements
<1>5. CASE \E r \in {"local", "captured"} : DefineLocal(r)
  BY <1>5, DefineLocalImplements
<1>6. CASE \E s \in Slot : CaptureLocal(s)
  BY <1>6, CaptureLocalImplements
<1>7. CASE \E c \in Closure, n \in 0..MaxCaptures, r \in Role : MakeClosure(c, n, r)
  BY <1>7, MakeClosureImplements
<1>8. CASE \E i \in 1..MaxCaptures : CaptureEnclosing(i) \/ SetUpvalue(i)
  BY <1>8, CaptureEnclosingImplements, SetUpvalueImplements
<1>9. CASE \E i \in 1..MaxCaptures : GetUpvalue(i)
  BY <1>9, PushImplements DEF GetUpvalue, Running
<1>10. CASE \E n \in 0..MaxStack : CloseBlockExpr(n)
  BY <1>10, CloseBlockExprImplements
<1>11. CASE \E callee \in Slot : \E roles \in [callee..stackTop -> Role] :
              \/ CallClosure(callee, roles)
              \/ \E c \in Closure : \E x \in Datum \cup {c} : CallMember(callee, c, x, roles)
  BY <1>11, CallsImplement
<1>12. CASE \E callee \in Slot, x \in Datum : CallNative(callee, x)
  BY <1>12, CallNativeImplements
<1>13. CASE UNCHANGED vars
  <2>1. UNCHANGED <<stack, location, closed, variable, variableOf>>
    BY <1>13 DEF vars, machine, ghosts
  <2>2. \A u \in Upvalue : Read(u)' = Read(u)
    BY <2>1 DEF Read
  <2> QED BY <2>1, <2>2, KeepStep
<1> QED BY <1>1, <1>2, <1>3, <1>4, <1>5, <1>6, <1>7, <1>8, <1>9, <1>10, <1>11, <1>12,
           <1>13 DEF Next

(* The stack, the frames and the upvalues of vm.c implement lexical        *)
(* variables: a program that stops at its first runtime error and whose    *)
(* breaks pop no captured local sees each variable keep its value until    *)
(* somebody assigns it, in its slot or in the closures that outlive it.    *)
THEOREM MachineImplementsVariables ==
  ~Repl /\ ~EarlyBreaks => (Spec => ImplementsLexicalVariables)
<1> SUFFICES ASSUME ~Repl, ~EarlyBreaks PROVE Spec => ImplementsLexicalVariables
  OBVIOUS
<1>1. IInv => Sound
  BY SoundFromIInv
<1>2. Sound /\ Sound' /\ [Next]_vars => [Lexical!Next]_(Lexical!lexicalVars)
  BY NextImplements
<1> QED BY <1>1, <1>2, InitImplements, Invariance, PTL
        DEF Spec, ImplementsLexicalVariables, Lexical!Spec
=============================================================================
