----------------------------- MODULE MCCompiler -----------------------------
(***************************************************************************)
(* What becomes of a source text, one part of the compiler at a time:      *)
(*   scanner    MCScanner                                                  *)
(*   parser     MCParser                                                   *)
(*   paths      MCControlFlow, definite assignment and return paths        *)
(*   types      MCTypeChecker                                              *)
(*   code       LoopCompiler over three fragments of the language, each    *)
(*              program jumping from statement position only               *)
(*   numbers    MCNumbers, what the code computes with                     *)
(*   names      StringSet, the unit's pool of names and literals: a string *)
(*              that is the prefix of another, two with one hash, and all of *)
(*              them meeting in a small array                                *)
(*   unit       MCUnitBytes, the bytes the compiled unit is stored in      *)
(***************************************************************************)
EXTENDS StringSet, NumberOps, Bytecode

CONSTANTS
  Texts, Programs, Letters, Digits, Lower, Keywords, NumberSuffixes, MaxInterpDepth,
  Files, Identifiers, Reserved,
  Functions,
  FloatKinds, Declarations, KindMax, KindMin, LargestLiteral, NativeSignatures, Enterable,
  MaxNodes,
  Base, Magic, Format, Version, NumberKinds, Units

VARIABLES
  part,
  text, written, scanner, scanned,
  tokens, parser, ast,
  body, checked,
  tenv, venv, entered, verdict, guessed,
  todo, nodes, locals, depth, loops,
  source, bytes, reader, unit, announced, stage

scanning == <<text, written, scanner, scanned>>
parsing == <<tokens, parser, ast>>
paths == <<body, checked>>
typing == <<tenv, venv, entered, verdict, guessed>>
emitting == <<phase, todo, nodes, out, locals, depth, loops, pc, stack, open>>
storing == <<source, bytes, reader, unit, announced, stage>>
interning == <<entries, count, arena, given>>
compilerVars ==
  <<part, scanning, parsing, paths, typing, emitting, computing, interning, storing>>

Characters == INSTANCE MCScanner WITH tokens <- scanned
Text == INSTANCE MCParser
Paths == INSTANCE MCControlFlow
Types == INSTANCE MCTypeChecker
Arithmetic == INSTANCE MCNumbers
Stored == INSTANCE MCUnitBytes

WhileLoops == INSTANCE LoopCompiler WITH
  Grammar <- {"var", "block", "while", "if", "break", "continue", "expression", "lambda"},
  Plain <- TRUE, CapturesFirst <- TRUE
ForLoops == INSTANCE LoopCompiler WITH
  Grammar <- {"for", "block", "var", "break", "continue", "lambda", "if"},
  Plain <- TRUE, CapturesFirst <- TRUE, MaxNodes <- MaxNodes - 1
Operands == INSTANCE LoopCompiler WITH
  Grammar <- {"var", "block expression", "if expression", "binary", "and",
              "variable", "lambda", "fun", "return", "while", "break"},
  Plain <- TRUE, CapturesFirst <- TRUE, MaxNodes <- MaxNodes - 1

(* The values of the constants do not depend on the constants they are for. *)
SmallTexts == INSTANCE MCScanner WITH
  Texts <- {}, Programs <- {}, Letters <- {}, Digits <- {}, Lower <- << >>, Keywords <- {},
  NumberSuffixes <- {}, tokens <- scanned
SmallFiles == INSTANCE MCParser WITH Files <- {}, Identifiers <- {}, Reserved <- {}
SmallFunctions == INSTANCE MCControlFlow WITH Functions <- {}
SmallTypes == INSTANCE MCTypeChecker WITH
  FloatKinds <- {}, Declarations <- << >>, KindMax <- << >>, KindMin <- << >>,
  NativeSignatures <- << >>, Enterable <- << >>
SmallNumbers == INSTANCE MCNumbers WITH IntegerKinds <- {}, F64 <- << >>, F32 <- << >>
SmallUnits == INSTANCE MCUnitBytes WITH Magic <- << >>, Version <- << >>, NumberKinds <- << >>, Units <- {}

MCStrings == {<< >>, <<"a">>, <<"a", "b">>, <<"b">>, <<"b", "a">>, <<"a", "b", "b">>}
MCBytes == [s \in MCStrings |-> s]
MCHash == [s \in MCStrings |->
  CASE s = << >> -> 7 [] s = <<"a">> -> 3 [] s = <<"a", "b">> -> 7 [] s = <<"b">> -> 3
    [] s = <<"b", "a">> -> 15 [] s = <<"a", "b", "b">> -> 0]

MCTexts == SmallTexts!MCTexts
MCPrograms == SmallTexts!MCPrograms
MCLetters == SmallTexts!MCLetters
MCDigits == SmallTexts!MCDigits
MCLower == SmallTexts!MCLower
MCKeywords == SmallTexts!MCKeywords
MCSuffixes == SmallTexts!MCSuffixes
MCFiles == SmallFiles!MCFiles
MCIdentifiers == SmallFiles!MCIdentifiers
MCReserved == SmallFiles!MCReserved
MCFunctions == SmallFunctions!MCFunctions
MCFloatKinds == SmallTypes!MCFloatKinds
MCDeclarations == SmallTypes!MCDeclarations
MCKindMax == SmallTypes!MCKindMax
MCKindMin == SmallTypes!MCKindMin
MCNatives == SmallTypes!MCNatives
MCEnterable == SmallTypes!MCEnterable
MCIntegerKinds == SmallNumbers!MCIntegerKinds
MCF64 == SmallNumbers!MCF64
MCF32 == SmallNumbers!MCF32
MCMagic == SmallUnits!MCMagic
MCVersion == SmallUnits!MCVersion
MCNumberKinds == SmallUnits!MCNumberKinds
MCUnits == SmallUnits!MCUnits

(* The parts that are not looked at have nothing to do.                    *)
NoCharacters == text = << >> /\ written = << >> /\ scanner = << >> /\ scanned = << >>
NoText == tokens = << >> /\ parser = << >> /\ ast = << >>
NoPaths == body = << >> /\ checked = "no"
NoUnit == /\ source = << >> /\ bytes = << >> /\ reader = << >> /\ unit = << >>
          /\ announced = 0 /\ stage = "none"

CompilerInit ==
  /\ part \in {"scanner", "parser", "paths", "types", "while", "for", "operands", "numbers",
              "names", "unit"}
  /\ IF part = "scanner" THEN Characters!Init ELSE NoCharacters
  /\ IF part = "parser" THEN Text!Init ELSE NoText
  /\ IF part = "paths" THEN Paths!Init ELSE NoPaths
  /\ IF part = "unit" THEN Stored!Init ELSE NoUnit
  /\ Types!Init /\ WhileLoops!Init /\ Arithmetic!NumbersInit /\ Init

CompilerNext ==
  /\ UNCHANGED part
  /\ IF part = "scanner" THEN Characters!Next ELSE UNCHANGED scanning
  /\ IF part = "parser" THEN Text!Next ELSE UNCHANGED parsing
  /\ IF part = "paths" THEN Paths!Next ELSE UNCHANGED paths
  /\ IF part = "types" THEN Types!Next ELSE UNCHANGED typing
  /\ CASE part = "while" -> WhileLoops!Next
       [] part = "for" -> ForLoops!Next
       [] part = "operands" -> Operands!Next
       [] OTHER -> UNCHANGED emitting
  /\ IF part = "numbers" THEN Arithmetic!NumbersNext ELSE UNCHANGED computing
  /\ IF part = "names" THEN Next ELSE UNCHANGED interning
  /\ IF part = "unit" THEN Stored!Next ELSE UNCHANGED storing

CompilerSpec == CompilerInit /\ [][CompilerNext]_compilerVars

(* scanner.c cuts a text into the tokens it was written as.                *)
TextIsReadBack == part = "scanner" => Characters!TextIsReadBack

(* Whatever tokens a file has, parse() comes to its end (ParsingEnds of    *)
(* Parser).                                                                *)
ParsingEnds == part = "parser" => Text!ParsingEnds

(* A file that is accepted is the one its tree spells (parser.c).          *)
TreesMatchTheirTokens == part = "parser" => Text!TreesMatchTheirTokens

(* definite_assignment.c reports every read that may come too early.       *)
UnassignedReadsAreReported == part = "paths" => Paths!UnassignedReadsAreReported

(* What typecheck.c takes for a return or a jump on every path is one.     *)
PathsEndAsTheCheckerThinks == part = "paths" => Paths!PathsEndAsTheCheckerThinks

(* What typecheck.c accepts keeps to its types when it runs, up to the     *)
(* guesses that TypeChecker names.                                         *)
ValuesHaveTheirTypes == part = "types" => Types!ValuesHaveTheirTypes

(* unit_bytes.c: only the bytes of a unit are accepted, and give the unit. *)
DecodeInvertsEncode == part = "unit" => Stored!DecodeInvertsEncode

(* unit_bytes.c: damaged bytes lead neither outside them nor to a unit     *)
(* that refers to what it does not have.                                   *)
DecodingStaysInside == part = "unit" => Stored!DecodingStaysInside
=============================================================================
