SPECIFICATION ProgramSpec
CONSTANTS
  code = code
  name = name
  a1 = a1
  a2 = a2
  a3 = a3
  a4 = a4
  t1 = t1
  t2 = t2
  Nil = Nil
  Address = {code, name, a1, a2, a3, a4}
  Text = {t1, t2}
  Types = {"string", "function", "closure", "upvalue", "struct", "instance", "bound", "list", "array"}
  Outlived = FALSE
  MaxStack = 3
  MaxKids = 3
SYMMETRY Symmetry
INVARIANTS
  TypeOK
  NoDanglingReference
  MarkedIsReachable
  StringsAreInterned
  TableNamesLiveStrings
  InstancesPrecedeTheirStruct
PROPERTY SweepIsComplete
CHECK_DEADLOCK FALSE
