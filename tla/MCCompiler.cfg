SPECIFICATION CompilerSpec
CONSTANTS
  Texts <- MCTexts
  Programs <- MCPrograms
  Letters <- MCLetters
  Digits <- MCDigits
  Lower <- MCLower
  Keywords <- MCKeywords
  NumberSuffixes <- MCSuffixes
  MaxInterpDepth = 2
  Files <- MCFiles
  Identifiers <- MCIdentifiers
  Reserved <- MCReserved
  Functions <- MCFunctions
  FloatKinds <- MCFloatKinds
  Declarations <- MCDeclarations
  KindMax <- MCKindMax
  KindMin <- MCKindMin
  LargestLiteral = 15
  NativeSignatures <- MCNatives
  Enterable <- MCEnterable
  MaxNodes = 6
  MaxStack = 8
  WordBits = 6
  IntegerKinds <- MCIntegerKinds
  F64 <- MCF64
  F32 <- MCF32
  MaxExponent = 10
  MaxCount = 3
  Base = 8
  Magic <- MCMagic
  Format = 3
  Version <- MCVersion
  NumberKinds <- MCNumberKinds
  Units <- MCUnits
  StringKey <- MCStrings
  Bytes <- MCBytes
  Hash <- MCHash
  MinCapacity = 4
  MaxCapacity = 16
  NoOffset = none
INVARIANTS
  TextIsReadBack
  ParsingEnds
  TreesMatchTheirTokens
  UnassignedReadsAreReported
  PathsEndAsTheCheckerThinks
  ValuesHaveTheirTypes
  HeightsAgree
  LocalsAreInTheirSlots
  CapturedSlotsAreClosed
  NoInternalError
  ArithmeticIsExactOrRefused
  CastsKeepTheNumber
  DecodeInvertsEncode
  DecodingStaysInside
  OffsetsKeepTheirString
PROPERTY OffsetsAreStable
CHECK_DEADLOCK FALSE
