SPECIFICATION RuntimeSpec
CONSTANTS
  k1 = k1
  k2 = k2
  k3 = k3
  k4 = k4
  Key = {k1, k2, k3, k4}
  Value = {v1, v2}
  Hash <- MCHash
  MinCapacity = 4
  MaxCapacity = 8
  Missing = missing
  Nil = nil
  Address = {a1, a2}
  Text = {t1}
  Types = {"list", "array"}
  Outlived = FALSE
  MaxStack = 2
  MaxKids = 1
  Calls <- MCCalls
  Digits <- MCDigits
  Blanks <- MCBlanks
  IntMax = 7
INVARIANTS
  TypeOK
  ProbingEnds
  OneEntryPerKey
  NativesDoWhatTheyPromise
PROPERTIES
  ImplementsPartialMap
  CollectionEnds
CHECK_DEADLOCK FALSE
