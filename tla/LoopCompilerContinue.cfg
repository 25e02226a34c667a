SPECIFICATION Spec
CONSTANTS
  Grammar = {"var", "block", "while", "continue", "if expression"}
  MaxNodes = 6
  MaxStack = 8
  Plain = FALSE
  CapturesFirst = TRUE
INVARIANTS
  HeightsAgree
CHECK_DEADLOCK FALSE
