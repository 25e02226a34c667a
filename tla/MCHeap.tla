------------------------------- MODULE MCHeap -------------------------------
(***************************************************************************)
(* Heap over five kinds of program in one run:                             *)
(*   strings   from nothing, strings and lists of them                     *)
(*   closures  from nothing, functions, closures and upvalues, where a     *)
(*             closure captures one variable                               *)
(*   captures  the same, where a closure captures up to two                *)
(*   structs   after loadUnit of a script with one string constant         *)
(*   methods   after that script declared a struct with a method, which    *)
(*             refer to each other                                         *)
(* Each makes objects of its own types only, and a number of them at once; *)
(* only the second and the last use a global variable.                     *)
(***************************************************************************)
EXTENDS Heap, TLC

CONSTANTS code, name, a1, a2, a3, a4, t1, t2
VARIABLE program

Strings == INSTANCE Heap WITH Types <- {"string", "list"}, MaxKids <- 1
Closures == INSTANCE Heap WITH
  Types <- {"function", "closure", "upvalue"}, Text <- {t1}, MaxKids <- 2
Captures == INSTANCE Heap WITH Types <- {"function", "closure", "upvalue"}, Text <- {t1}
Structs == INSTANCE Heap WITH Types <- {"struct", "instance", "closure"}, Text <- {t1}
Methods == INSTANCE Heap WITH Types <- {"instance", "bound"}, Text <- {t1}, MaxKids <- 2

programVars == <<program, vars>>

(* The addresses of what is loaded first; the struct and the method.       *)
Loaded == {code, name}
struct == a3
method == a4

(* Nothing is being done.                                                  *)
AtRest ==
  /\ open = [s \in 1..MaxStack |-> Nil] /\ location = [o \in Address |-> 0]
  /\ global = Nil
  /\ job = NoJob /\ armed = FALSE
  /\ phase = "off" /\ marked = {} /\ gray = {} /\ kept = 0

ScriptLoaded ==
  /\ program = "structs" /\ AtRest
  /\ objects = <<name, code>>
  /\ type = [o \in Address |->
               CASE o = code -> "function" [] o = name -> "string" [] OTHER -> "free"]
  /\ kids = [o \in Address |-> IF o = code THEN <<name>> ELSE << >>]
  /\ text = [o \in Address |-> IF o = name THEN t1 ELSE Nil]
  /\ strings = {name}
  /\ stack = <<code>>

StructDeclared ==
  /\ program = "methods" /\ AtRest
  /\ objects = <<method, struct, name, code>>
  /\ type = [o \in Address |->
               CASE o = code -> "function" [] o = name -> "string"
                 [] o = struct -> "struct" [] o = method -> "closure" [] OTHER -> "free"]
  /\ kids = [o \in Address |->
               CASE o = code -> <<name>> [] o = struct -> <<name, method>>
                 [] o = method -> <<code, struct>> [] OTHER -> << >>]
  /\ text = [o \in Address |-> IF o = name THEN t1 ELSE Nil]
  /\ strings = {name}
  /\ stack = <<struct>>

ProgramInit ==
  \/ program \in {"strings", "closures", "captures"} /\ Init
  \/ ScriptLoaded
  \/ StructDeclared

(* At most n objects at once beside the loaded ones.                       *)
Within(n) ==
  /\ Allocated' \cap Loaded \subseteq Allocated
  /\ Cardinality(Allocated' \ Loaded) <= n

ProgramNext ==
  /\ UNCHANGED program
  /\ \/ program = "strings" /\ Strings!Next /\ Within(3) /\ UNCHANGED global
     \/ program = "closures" /\ Closures!Next /\ Within(4)
     \/ program = "captures" /\ Captures!Next /\ Within(4) /\ UNCHANGED global
     \/ program = "structs" /\ Structs!Next /\ Within(3) /\ UNCHANGED global
     \/ program = "methods" /\ Methods!Next /\ Within(4)

ProgramSpec == ProgramInit /\ [][ProgramNext]_programVars

(* Addresses that malloc has not given out are interchangeable, and so are *)
(* texts.                                                                  *)
Symmetry == Permutations({a1, a2, a3, a4}) \cup Permutations({t1, t2})
=============================================================================
