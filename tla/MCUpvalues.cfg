SPECIFICATION Spec
CONSTANTS
  Datum = {d1}
  Closure = {c1, c2}
  Script = script
  Upvalue = {u1, u2}
  MaxStack = 4
  MaxFrames = 2
  MaxCaptures = 2
  MaxVariables = 2
  EarlyBreaks = FALSE
  Repl = FALSE
SYMMETRY Symmetry
INVARIANTS
  IInv
  OpenUpvaluesPointAtTheirVariable
  ClosuresSeeTheVariable
PROPERTY ImplementsLexicalVariables
CHECK_DEADLOCK FALSE
