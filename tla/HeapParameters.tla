--------------------------- MODULE HeapParameters ---------------------------
(* The constants of Heap.                                                  *)
EXTENDS Integers

CONSTANTS
  Address,   \* the addresses malloc can return; freed ones are reused
  Text,      \* the contents strings can have
  Nil,       \* every value that is not an object
  Types,     \* the types of objects the program makes
  Outlived,  \* an upvalue may stay open when its slot is given up: an error
             \* in a session leaves one, and a break compiled before the capture
  MaxStack,  \* bound: slots of the value stack
  MaxKids    \* bound: references of one object

ObjType == {"string", "function", "closure", "upvalue", "struct", "instance",
            "bound", "list", "array"}

ASSUME HeapAssumption ==
  /\ Nil \notin Address
  /\ Types \subseteq ObjType /\ Outlived \in BOOLEAN
  /\ MaxStack \in Nat /\ MaxKids \in Nat
=============================================================================
