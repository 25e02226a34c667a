----------------------------- MODULE MCUnitBytes -----------------------------
(* UnitBytes with bytes of 8 values, and three units that between them     *)
(* have every kind of constant, an upvalue, a name, both flags and the     *)
(* limits of the numbers.                                                  *)
EXTENDS UnitBytes

MCMagic == <<1, 2, 3, 4>>
MCVersion == <<7>>
MCNumberKinds == <<[size |-> 8, signed |-> TRUE, float |-> FALSE],
   [size |-> 1, signed |-> TRUE, float |-> FALSE],
   [size |-> 2, signed |-> FALSE, float |-> FALSE],
   [size |-> 8, signed |-> TRUE, float |-> TRUE]>>

Empty == [arity |-> 0, upvalueCount |-> 0, isStatic |-> FALSE, isPublic |-> FALSE, nameOffset |-> 0,
  nameLength |-> -1, code |-> << >>, lines |-> << >>, constants |-> << >>, upvalues |-> << >>]

MCUnits == {
  [arena |-> << >>, functions |-> <<Empty>>],
  [arena |-> <<1, 2, 3>>, functions |-> <<
     [Empty EXCEPT !.code = <<5, 6>>, !.lines = <<1, 2>>,
        !.constants = <<[kind |-> Function, index |-> 1], [kind |-> String, offset |-> 1, length |-> 2]>>],
     [Empty EXCEPT !.arity = 1, !.upvalueCount = 1, !.isPublic = TRUE, !.nameOffset = 0, !.nameLength = 2,
        !.code = <<7>>, !.lines = <<9>>,
        !.constants = <<[kind |-> Bool, value |-> TRUE], [kind |-> Nil]>>,
        !.upvalues = <<[isLocal |-> TRUE, index |-> 3]>>]>>],
  [arena |-> <<4>>, functions |-> <<
     [Empty EXCEPT !.isStatic = TRUE, !.constants = <<
        [kind |-> Number, number |-> 0, payload |-> Base^8 - 2],
        [kind |-> Number, number |-> 1, payload |-> Base^8 - 1],
        [kind |-> Number, number |-> 1, payload |-> 1],
        [kind |-> Number, number |-> 2, payload |-> Base + 1],
        [kind |-> Number, number |-> 3, payload |-> 5]>>]>>]}
=============================================================================
