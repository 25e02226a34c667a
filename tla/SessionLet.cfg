SPECIFICATION SessionSpec
CONSTANTS
  Var = {x}
  Fun = {f}
  Value <- MCValue
  Unknown = unknown
  Undefined = undefined
  MaxLine = 2
  MaxLines = 2
PROPERTY FixedNamesKeepTheirValue
CHECK_DEADLOCK FALSE
