SPECIFICATION ToolsSpec
CONSTANTS
  p1 = p1
  p2 = p2
  g = g
  h = h
  stdlib = stdlib
  main = main
  other = other
  None = None
  Packager = {p1, p2}
  Pid <- MCPid
  Runner = {r}
  Program = {g, h}
  Unit = {stdlib, main, other}
  Units <- MCUnits
  Attempts = 2
  MaxInodes = 4
  Var = {x}
  Fun = {f}
  Value <- MCValue
  Unknown = unknown
  Undefined = undefined
  MaxLine = 2
  MaxLines = 3
SYMMETRY Interchangeable
INVARIANTS
  TypeOK
  OutputIsWhole
  WritersOwnTheirFile
  RunsWholePrograms
  PlainSessionsAreTyped
PROPERTY FixedNamesChangeInOlderFunctions
