SPECIFICATION Spec
CONSTANTS
  Grammar = {"for", "if", "break", "expression", "lambda"}
  MaxNodes = 5
  MaxStack = 8
  Plain = TRUE
  CapturesFirst = FALSE
INVARIANTS
  CapturedSlotsAreClosed
CHECK_DEADLOCK FALSE
