SPECIFICATION Spec
CONSTANTS
  FloatKinds <- MCFloatKinds
  Declarations <- MCDeclarations
  KindMax <- MCKindMax
  KindMin <- MCKindMin
  LargestLiteral = 15
  NativeSignatures <- MCNatives
  Enterable <- MCEnterable
INVARIANTS
  ProgramsAreJudged
CHECK_DEADLOCK FALSE
