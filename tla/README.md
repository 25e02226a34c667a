# Kirby: a verification of its virtual machine, compiler and tools

Kirby is a statically typed language with an interpreter written in C
(`src/src`, about 20,000 lines), a standard library written in Kirby
(`src/stdlib`) and a documentation site (`src/book`).  This directory models the
parts of the interpreter whose correctness depends on order, sharing, failure or
a long sequence of legal steps, checks them with TLC on small instances and
proves the most important results with TLAPS for every size.

`PROJECT.json` lists components, runs, mutants, hazards and theorems, and maps
every modelling definition to the lines of source it translates.

## 1. The system

A source text becomes output in these steps:

    source --scanner/lexer--> tokens --parser--> AST
      --typecheck (+ definite assignment)--> accepted AST
      --compiler--> CompiledUnit (constants, bytecode, arena of strings)
      --loader--> ObjFunction on the heap --vm.run()--> effects

`krb run` does this for the standard library and a file, `krb repl` for each line,
`krb build` stops after the compiler and packs runtime and serialised units into
one executable, whose `main` (`runtime.c`) starts at the loader.

Everything runs in one thread.  What interleaves is: the garbage collector with
every function that allocates; several `krb build` processes with each other and
with programs that are being started; and, in a session, the memories of three
phases that no line resets.

### Inventory

| Component | Source | State | Operations | What is hard | What makes it correct |
|---|---|---|---|---|---|
| Value stack, frames, closures, upvalues | `vm.c`, `object.c` | stack, frames, `vm.openUpvalues` (sorted list of open upvalues), upvalue objects | locals, calls, returns, `OP_CLOSURE`, `OP_CLOSE_UPVALUE`, `OP_CLOSE_BLOCK_EXPR`, runtime errors | slots are reused while closures still refer to them; errors leave everything at once | a captured variable is one variable with one value for as long as anyone can see it |
| Garbage collector and heap | `gc.c`, `object.c` | object list, marks, gray stack, weak intern table | `reallocate`, mark, trace, `tableRemoveWhite`, sweep, `freeObject`, all constructors | a collection may start in the middle of any function that allocates | nothing reachable is freed, nothing unreachable stays, equal strings are one object |
| Hash table | `hashtable.c` | entries, tombstones, count | get, set, delete, find string, remove white, growth | tombstones in probe sequences, a collection inside growth | answers as a map; probing ends |
| String arena of a unit | `stringset.c` | slots, arena | add, intern, contains, growth | offsets already handed out while the arena moves | an offset keeps naming its string; membership is exact |
| Bytecode compiler | `compiler.c`, `opcode.c`, `chunk.c` | locals with slots and depths, stack height, pending jumps, loops, enclosing functions | one function per AST node | one pass with backpatching; `break` and `continue` leave scopes the text goes on with; operands lie under the locals of block expressions | heights agree on all paths, locals are in their slots, captured slots are closed |
| Session: REPL and scripts | `main.c`, `typecheck.c`, `compiler.c`, `vm.c` | type environment, set of immutable names, globals | check, compile, run a line | each phase keeps what a failed line did; functions are hoisted | globals have the type the checker takes them for; a `let` keeps its value |
| Packaged programs, runtime | `packaged_program.c`, `runtime.c` | output file, temporary file, trailer | `packagedWrite`, `packagedSelfPath`, `packagedRead` | failures, kills, concurrent builds, an output replaced while it starts | the output is whole at every moment; a program runs all units of one build |
| Definite assignment | `definite_assignment.c` | set of names still without a value along the AST | check statement, expression, function | joins of branches and loops, jumps | a variable is assigned before it is read |
| Type checker | `typecheck.c`, `types.c`, `native_signatures.c` | types, environments; it also rewrites the tree (kinds of literals, lists for arrays, conversions) | infer, check, assignability, generics, return paths | inference meets types that are not known; generic parameters bound in several places | accepted programs do not go wrong; every program is accepted or refused |
| Scanner, lexer, token stream | `scanner.c`, `lexer.c`, `token_stream.c` | position, line, open braces per placeholder | next token | nested string interpolation | every character is in one token or in a gap; what was written is read back |
| Parser, AST | `parser.c`, `ast.c` | token position, panic mode, node arena | recursive descent, precedence climbing | error recovery that must move on | the tree spells the tokens and groups them by level; parsing ends |
| Numbers and casts | `number_ops.c`, `number_kind.c`, `value.c` | none | arithmetic of ten kinds, comparison, casts, array positions | overflow tests made before the operation, limits of floats | exact result or an error |
| Serialised units | `unit_bytes.c`, `compiled_unit.c` | writer, sticky reader | encode, decode | lengths of damaged input | decode inverts encode; reads stay inside |
| Loader | `loader.c` | functions parked on the stack | load unit | constants reachable only through the stack | as for the heap |
| Natives | `native.c`, `native_signatures.c` | none | texts, lists, arrays, files, maths | two passes over one text, empty and overlapping matches, indices at the limits | what is measured is what is written, and what the name promises |
| Interpreter of structs, arrays, privacy | `vm.c` | fields of instances | struct init, get, set, invoke | slots by name, privacy by frame | declared fields only, private ones from inside |
| Standard library | `stdlib.krb` | none | `Date`, `Time` and others | calendar arithmetic | the two directions invert each other |
| Assertions, disassembler, buffers, editor, site, vendored TOML parser | `asserts.c`, `debug.c`, `strbuf.c`, `src/vsc`, `src/book`, `lib` | -- | -- | -- | not modelled: formatting, pure input/output, third-party code |

The interactions that matter: the compiler decides which locals are captured
and emits `OP_CLOSE_UPVALUE` for them, and the machine relies on it; every
constructor relies on the machine's stack as a root; the collector deletes from
the intern table, which may be the very table that is growing; the checker and
the compiler remember names whose values only the machine has; the packager's
file is read by a runtime that was started from an older one.

## 2. Modules

| Module | Stands for | Correspondence |
|---|---|---|
| `LexicalVariables` | what a program may rely on about locals | abstract specification: declare, assign, capture, leave |
| `Upvalues` | stack, frames, closures, upvalues of `run()` | one action per instruction; `OP_CLOSURE` is one step per captured variable. `stack`, `frames`, `openUpvalues`, `location`/`closed` are the C fields; `role`, `variable` are ghosts for what the compiler knows of a slot. `BreakBeforeCapture` is the pop of a captured local that a `break` compiled before the capture leaves behind. Refines `LexicalVariables` |
| `UpvaluesProofs` | -- | theorems about `Upvalues`: the invariant, and the refinement of `LexicalVariables` |
| `NaturalLemmas` | -- | what the proofs need to know about numbers: least and largest element, induction up to a bound, functions given by recursion, remainders, probe sequences |
| `HeapParameters`, `Heap` | `gc.c`, constructors of `object.c` and their callers | an object is a type and `kids`, the references `blackenObject` follows; `location` is the stack slot an open upvalue points at, `open` the list, and `Seen` what reading through an upvalue may give; a function with several allocations is several steps, `job` holding its C variables; a collection may start at each (`armed`) and is itself steps: mark roots, blacken one gray object, remove white, keep or free one object |
| `HeapProofs` | -- | theorems about `Heap` |
| `HashTable` | `hashtable.c` | `entries` with real probe sequences, `count` with tombstones; a `tableSet` that grows is two steps with a collection possible between. Refines `PartialMap` |
| `PartialMap` | what `hashtable.h` promises | abstract specification |
| `HashTableProofs` | -- | theorems about `HashTable`, the refinement of `PartialMap` among them |
| `StringSet` | `stringset.c` | `entries`, `arena`, the offsets given out |
| `Natives` | the text and list functions of `native.c` | one step per call; a reply has the text and `room`, the length that was measured before it was written |
| `Scanner` | `scanner.c`, `lexer.c`, `stringLiteral` of `parser.c` | one step per token; `scanner.braces` is `interpBraces` up to `interpDepth` |
| `Parser` | `parser.c` | one step per top-level declaration; a rule is a sequence of parts that consume, choose, repeat or call, gone through as the C function goes through its statements, errors included; `parser` holds the fields of the C struct and whether a loop consumed nothing (`stuck`) |
| `ControlFlow` | `definite_assignment.c`; `typchkAlwaysYields`, `typchkCheckIfAlwaysReturns` and what says that a path jumps, in `typecheck.c` | the analyses as functions of the tree, and beside them all ways a function can run (`Run`), the reference they are held against |
| `Types` | `types.c` | equality, assignability, binding and substitution of types |
| `TypeChecker` | inference and checking of `typecheck.c`, the rewriting of the tree, and what an accepted program evaluates to | one step enters one declaration or statement: it is checked in `tenv`, and, when accepted, run in `venv`. `guessed` names the places where the checker accepts without comparing |
| `Bytecode` | the emitters of `compiler.c`, the heights of `opcode.c`, and the machine of `vm.c` as far as the stack and the jumps go | `out` is the code with the height the compiler counted before each instruction; one action per instruction; a conditional jump goes either way |
| `LoopCompiler` | the statements, expressions and jumps of `compiler.c` | `todo` is the C stack of the recursive descent; each step chooses the next AST node, so the model compiles every program of a grammar; afterwards the machine of `Bytecode` runs the code along every path |
| `LoopCompilerProofs` | -- | theorems about `LoopCompiler`: what it compiles, and the heights |
| `LoopCompilerSlotsProofs` | -- | on top of it, the theorem about the slots |
| `NumberOps`, `Numbers` | `number_ops.c`, `number_kind.c`; the operators of `vm.c` that call them | `NumberOps` has the kinds, the operations and what is promised of them; in `Numbers` one step asks for an operation and is answered. Integers lie in a payload of `WordBits` bits as in the code; a float is a precision, a largest value and a number of halves |
| `NamesAndNumbersProofs` | -- | theorems about `StringSet`, and about integer arithmetic and casts in `Numbers` |
| `UnitBytes` | `unit_bytes.c` | `unitEncode` as an operator, `unitDecode` as steps (header, each function, end) of a sticky reader |
| `PackagedProgramParameters`, `PackagedProgram` | `packagedWrite`, `packagedRead`, the runtime's `main` | one action per system call that changes or reads the file system; the file system itself (directory, inodes, content as a sequence of pieces) is external |
| `SessionState`, `Session` | the life of a line in `repl`, `typchkCheckProgram`, `compile`, `run` | `types` is `sessionEnv`, `immutable` is `immutableBindings`, `globals` is `vm.globals`; one action per phase and kind of statement. `SessionState` has the constants, the variables and the promises, so that a run can name them beside another module |
| `ToolsProofs` | -- | theorems about `PackagedProgram` and about `Session` |
| `MCHeap` | -- | five kinds of program over `Heap` in one run |
| `MCRuntime` | -- | hash table, natives, and the part of `Heap` that lists and arrays use, one at a time |
| `MCCompiler` | -- | scanner, parser, paths, types, three fragments of the language for `LoopCompiler`, numbers, units and the string set, one at a time |
| `MCTools` | -- | packagers and a session, one at a time |
| `MCUpvalues`, `MCScanner`, `MCParser`, `MCControlFlow`, `MCTypeChecker`, `MCNumbers`, `MCUnitBytes`, `MCNatives`, `MCPackagedProgram`, `MCSession` | -- | the inputs and values of one module |

Components that do not interact share a run: the first state says which of them
is looked at (`part`, `tool`, `program`), and the others have nothing to do.

Each module's header lists its simplifications.  Definitions whose comment begins
with "Mutant:" are faulty variants of the definition after them; no specification
uses them.  They exist to show that each checked property notices the fault.

The sequential modules (`Scanner`, `Parser`, `TypeChecker`, `Numbers`, `Natives`,
...) were compared with the program itself: the scanner's tokens on 39,298 texts,
the parser's verdicts on 26,110 files, the checker's verdicts on 1,027 programs
(eleven of which the checker accepts and the compiler refuses) agree with the C
code in every case.

## 3. Runs

All passing runs are exhaustive.

| Run | Bounds | What it shows |
|---|---|---|
| `upvalues` | 4 slots, 2 frames, 2 closures, 2 upvalues, 2 captures each, 2 variables, 1 datum; a script that ends at its first runtime error and whose breaks pop no local with an open upvalue (`EarlyBreaks = FALSE`) | the inductive invariant `IInv` (types, nested frames, a strictly descending list of open upvalues, one upvalue per variable); an open upvalue points at the variable it was made for; all closures over a variable read the same value; the machine implements `LexicalVariables` |
| `heap` | *strings*: 3 addresses, 2 texts; *closures* and *captures*: 4 addresses, closures of one variable that a global may keep and closures of two; *structs*: 3 addresses beside a loaded script; *methods*: 2 beside a struct whose method refers back to it; 3 stack slots; upvalues are made, read, written, closed one by one and by returns, and none outlives its slot (`Outlived = FALSE`) | no dangling reference in the program, in a C function in mid-flight or behind an open upvalue; marked = reachable when tracing ends; a sweep leaves exactly the reachable objects, unmarked; equal strings are one object; the weak table never names freed memory; an instance is freed before its struct |
| `runtime` | *hash table*: 4 keys with colliding hashes, 2 values, capacities 0, 4, 8; *natives*: texts of up to 5 characters of 2 to 5 kinds, lists of up to 4 items, ints up to 7; *containers*: lists and arrays at 2 addresses | loads and counts are right; every probe ends; a key is where `findEntry` finds it; the table implements `PartialMap`; a native writes as much as it measured, and what it is there for; a collection that starts ends |
| `compiler` | *scanner*: all texts of 3 and 4 characters, long tails of interpolated strings, and programs with placeholders two deep; *parser*: 21,000 files: nineteen programs that show every construct, everything one edit from them, all short expressions; *paths*: 31,000 functions of branches, loops and blocks; *types*: all pairs of declarations from 2,000 forms, number kinds of a few values; *code*: programs of at most 6 AST nodes (5 with `for` and in operand position) beside literals, frames of 8 slots; with `else` branches and all three initializers of a `for`; jumps in statement position (`Plain`) and no capture of a loop variable behind a `break` of its loop (`CapturesFirst`); *numbers*: kinds of 3 and 6 bits, floats of 2 and 4 significant bits, every operand; *unit*: three units, whole, cut off anywhere, extended, any byte changed; *names*: 6 strings, some with equal hashes, one a prefix of another, capacities 0 to 16 | see below |
| `tools` | *package*: 2 packagers with one pid, 1 runner, 2 programs, 2 attempts at a temporary name, 4 files; *session*: 1 variable, 1 function, 3 values of 2 types, 3 lines of up to 2 statements | the output name always stands for a whole program; writers own their files; a started program runs all units of one program in order; for sessions see below |

Run `compiler` follows a text on its way to a number:

* `TextIsReadBack`: tokens and gaps cover a text without overlap, lines are
  counted, and a program that was written out, with strings inside the
  placeholders of strings, comes back as the tokens and texts it was written as.
* `ParsingEnds`, `TreesMatchTheirTokens`: whatever the tokens, no loop of the
  parser stands still; an accepted file is the one its tree spells, with every
  operand at the level the grammar gives it.
* `UnassignedReadsAreReported`, `PathsEndAsTheCheckerThinks`: no path of an
  accepted function reads a variable before it has a value, and what is taken
  for a return or a jump on every path is one.  Both properties name the
  places where the code guesses (see known gaps).
* `ValuesHaveTheirTypes`: an accepted program does not meet an operand it cannot
  work with, every name keeps to its type, and a literal is the number that was
  written, whatever kind it ended up with.
* `HeightsAgree`, `LocalsAreInTheirSlots`, `CapturedSlotsAreClosed`,
  `NoInternalError`: the height the compiler counted is the height the machine
  has, at every instruction on every path; a local is found in its slot; a
  captured slot goes away only through `OP_CLOSE_UPVALUE`; no internal check of
  the compiler fails.
* `ArithmeticIsExactOrRefused`, `CastsKeepTheNumber`: every operation gives the
  exact result or is refused because there is none in its kind; a cast or an index
  keeps the number or is refused.
* `DecodeInvertsEncode`, `DecodingStaysInside`: the bytes of a unit, and no others
  of those tried, are accepted as it; whatever the bytes, the decoder reads
  inside them, allocates no more than they can hold, and accepts no unit that
  refers outside itself.
* `OffsetsKeepTheirString`, `OffsetsAreStable`: the offsets of strings that a unit
  has already been given keep naming them however often the string set grows, the
  same string is never stored twice, and membership is exact.

Seven runs end in a violation, each of a property that a document or a comment of
the repository states (`findings` in `PROJECT.json` quotes it):

| Run | Disagreement |
|---|---|
| `upvalues_session` | `runtimeError` empties the list of open upvalues without closing them.  In the REPL, a closure kept in a global then reads and writes a slot that belongs to a later line.  (`upvalues` checks that nothing else goes wrong, with `Repl = FALSE` and `EarlyBreaks = FALSE`.) |
| `compiler_continue_in_initializer` | `emitPopsToDepth` stops at a local whose initializer is still being compiled (depth -1): `continue` inside an initializer leaves the loop body's other locals on the stack, and the next round reads the old ones |
| `compiler_break_before_capture` | a `break` pops the variable of its `for` loop with `OP_POP` when the lambda that captures it stands behind the break in the text; in the second round the capture has happened, and the upvalue stays open for a slot that the next local takes over (the program in the finding prints that local, without any runtime error) |
| `generic_function_argument` | a function given where a bare type parameter is wanted (`id(h)`) makes the checker follow a NULL type and die, instead of accepting or refusing the program |
| `session_let` | functions are compiled before the `let` whose name they assign, so the immutable binding changes |
| `session_types` | a failed line leaves its declarations with the checker, and a `var` may be declared again with another type while older functions live on: a global of one type passes for another |
| `package_race` | the runtime opens its own file again by name: a build that finishes between `packagedSelfPath` and `packagedRead` makes an old process run the new units.  They are whole, as `tools` shows, but not its own |

What holds of sessions nevertheless, in run `tools`: as long as no name is given
two types and none is used before its declaration, the checker knows the type of
every global, at whichever stage earlier lines failed (`PlainSessionsAreTyped`);
and a `let` or a function, once executed, is never redefined and changes only
through a call of a function that was compiled before it
(`FixedNamesChangeInOlderFunctions`).

### Which programs the promises are about

Three of these disagreements are left out of the runs that pass, each by a constant or
a premise that says which programs are meant, so that the rest can be checked:

* `EarlyBreaks` (`Upvalues`): whether the program has a `break` that pops a local for
  which an upvalue is open.  With `TRUE` the structure of stack, frames and list
  still holds (and is proved), the agreement of slots and closures does not.
* `CapturesFirst` (`LoopCompiler`): the same from the compiler's side.  A `for`
  variable is captured before the first `break` of its loop or not at all.  Run
  `compiler` shows that the compiled code of such programs gives up captured slots
  only through `OP_CLOSE_UPVALUE`; that is `EarlyBreaks = FALSE`.
* `Repl` (`Upvalues`) and `Outlived` (`Heap`): whether anything runs on after a slot
  was lost to its upvalue, be it by such a `break` or by a runtime error in a session.
  In `Heap` with `Outlived = TRUE` TLC finds `NoDanglingReference` violated after eight
  steps: the upvalue's `location` lies above `stackTop`, where nothing is marked, and
  `OP_GET_UPVALUE` reads an object that has been freed.
* `Plain` (`LoopCompiler`): `break` and `continue` stand in statement position.

### Why the bounds are enough

*Upvalues*: the interesting orders need two frames (a callee that captures its
caller's local), two upvalues on the list (insertion before and after), two
closures (sharing), and a slot that is given up and reused; four slots allow all of
them together.  The proofs remove the bounds.
*Heap*: each constructor holds at most two objects outside the stack; addresses
are reused after `free`, so a stale pointer meets a stranger already with one spare
address.  The kinds of program are separated because they only share the
collector, whose behaviour depends on the references and not on the types, apart
from the cases each of them contains.
*Tables*: capacity 4 and 8 in place of 8 and 16 (the code's minimum is a
constant); with four keys the load limit is reached with and without
tombstones, and growth happens in every state below it.
*Natives*: a needle of two characters in a text of five meets overlaps, matches
that touch, and both ends; the largest int is 7 so that repeated texts exceed it.
*Scanner*: `MaxInterpDepth` is 2, so that both the nesting and its limit occur.
*Parser*: each rule occurs in a program, and a deletion, insertion or cut at every
place puts each error report of the rule in panic mode's way.
*Paths*: two nested constructs and a statement after them; more nesting repeats
the same joins.
*Types*: two statements, one that gives a name a type and one that uses it in every
form of expression; kinds have few values so that each literal has kinds that hold
it and kinds that do not.
*Code*: a break or continue through two scopes with a captured local takes five
nodes; the instances contain every combination of two nested constructs with a
jump and a capture.
*Numbers*: two widths, so that kinds are narrower than the payload and as wide;
two precisions, both shorter than the widest integer, so that rounding happens.
`MaxExponent` bounds the power of two of a float and stands for the format's own
exponent limit; it is so large that no rounding meets it (`FloatsAssumption`).
*Unit*: bytes of eight values make two-byte and four-byte fields exceed the data
as soon as one byte changes.
*Package*: with two attempts and one pid, each packager can find its first name
taken by the other or by one that was killed.
*Session*: one line to declare, one to fail or redeclare, one to observe.

Symmetry is used in `upvalues` (closures, upvalues), `heap` (addresses malloc has
not given out yet, texts) and `tools` (packagers), never together
with a liveness property; the values permuted occur in no property by name.

### Fairness

The only liveness property is `CollectionEnds`, under weak fairness of
`Collect`, the steps of a collection, in the containers part of run `runtime`.
`collectGarbage` is one C call that nothing interrupts, and while it runs no
other action is enabled, so its next step is always taken.  That the parser
ends is stated as safety (`ParsingEnds`): each loop consumes something.
Everything else in these modules is safety: the interpreter makes no
promise that a program or a build ends, and packagers may be killed at any
point.  Deadlock is checked in `tools`; the other systems stop by design when
a bounded program has ended.

## 4. Proofs

Eight components have theorems for every value of their constants.  Each proof
module states an inductive invariant `IInv`, which a run of TLC confirmed first
(except for `LoopCompiler`, where it speaks of a plan and of what is known of the
slots, neither of which TLC can search for),
proves `Init => IInv` and `IInv /\ [Next]_vars => IInv'` with one lemma per
action, and derives the properties.  The assumptions are those of the
specification module (`UpvaluesAssumption`, `HeapAssumption`, ...); TLC evaluates
them in the runs.  They say what kind of thing a constant is (bounds are
naturals, sets are apart), and in three places what the C code relies on: the
smallest capacity of a table is at least 2, a packaged program has a unit, and the
largest float of either format exceeds every integer (2^128 against 2^64) and is a
float of that format.

| Module | Theorems | What they say |
|---|---|---|
| `UpvaluesProofs` | `ListStaysSorted`, `FramesAlwaysNest` | every program, scripts and sessions: the list of open upvalues is strictly descending; `OP_RETURN` cannot close a caller's locals |
| | `NoDanglingOpenUpvalue`, `ClosuresAlwaysSeeTheVariable` | without early breaks (`~EarlyBreaks`), scripts and sessions: an upvalue on the list points at a slot that still belongs to its variable; what a closure reads is the variable's one current value |
| | `MachineImplementsVariables` | scripts without early breaks: the machine implements `LexicalVariables` |
| `HeapProofs` | `TypeCorrect`, `NothingDangles`, `TracingIsExact`, `SweepingIsExact`, `PointersCompareStrings`, `TheTableIsAlive`, `StructsOutliveInstances` | all safety properties of run `heap`, wherever a collection starts, as long as no upvalue outlives its slot (`~Outlived`) |
| `HashTableProofs` | `CountIsRight`, `ProbingAlwaysEnds`, `KeysHaveOneEntry`, `TableIsAMap` | all properties of the hash table in run `runtime`, the refinement of `PartialMap` included |
| `ToolsProofs` | `PackagingTypeCorrect`, `WritersAlwaysOwnTheirFile`, `OutputIsAlwaysWhole`, `OnlyWholeProgramsRun` | all properties of packaging in run `tools`, for any number of packagers and runners |
| | `SessionTypeCorrect`, `SessionsAreTyped`, `FixedNamesHold` | the properties of sessions in run `tools`, for lines and sessions of any length |
| `NamesAndNumbersProofs` | `TypeCorrect`, `OffsetsName`, `OffsetsStay` | the properties of the string set in run `compiler` |
| | `ExactOrRefused`, `CastsKeep` | both properties of numbers in run `compiler`, at every width of payloads and kinds and every precision of floats |
| `LoopCompilerProofs`, `LoopCompilerSlotsProofs` | `CompilesEveryPlainProgram`, `HeightsAgreeEverywhere`; `LocalsStayInTheirSlots` | three of the four properties of the code in run `compiler`, for programs of any size that jump from statement position only (`Plain`) |

The safety properties are seldom inductive alone.  What had to be added, and why:

*Upvalues.*  `closeUpvalues` walks the list from its head until it meets an
upvalue below the given slot; that this removes *all* upvalues at or above the
slot needs the list to be sorted, `captureUpvalue` keeps it sorted only because the
same walk finds an existing upvalue of the slot, and a return removes the right
ones only because frames nest and every listed upvalue lies below the stack top.
`IInv` is the conjunction of these facts with the typing and the ghosts: `Structure`
holds of every program, `Agreement` of one without early breaks.  The proof
states first what the two list walks return (`AtOrAboveProperties`,
`AboveProperties`), then what the six ways of changing the stack do to the
invariant, then one lemma per instruction.

*The refinement of `LexicalVariables`* holds for scripts (`~Repl`) whose breaks pop no
captured local (`~EarlyBreaks`).  In a session it fails, as run `upvalues_session`
shows, because a runtime error forgets open upvalues; a `break` that pops a captured
loop variable leaves its upvalue open for a slot that is reused (run
`compiler_break_before_capture`).  The abstract state is determined by three things: which slots hold
variables, what these slots contain, and what reading through an upvalue gives.
Each action is an instance of one of five step lemmas about these three, so that
no proof of an instruction looks into the abstract specification.

*Heap.*  The invariant `Inv` has four parts.  While no collection runs, roots and
allocated objects refer to allocated objects only.  While one runs, the marked
objects are reachable, the roots are marked, and a black object refers to marked
ones; when nothing is gray the marked objects therefore are the reachable ones, and
the sweep may leave references from freed objects to freed objects only (`Live`).
And at every allocation the pointers that the C function holds in variables are on
the stack or referred to from there (`JobOK`), one disjunct for each point at
which an allocation may collect; this is what makes each `push` before an
allocation in `object.c`, `vm.c` and `native.c` necessary.  Beside these, the intern
table has one string per text and every live string but the one being interned; and
instances precede their structs in `gc->objects`, which only adds at its head.  The
fourth part (`UpvaluesOK`, `SlotsOK`) is about upvalues: each listed one points at its own
slot below the stack top, so what it reads is a root.  It holds only as long as no
upvalue outlives its slot, which is the hypothesis of the theorems (`~Outlived`).
The closures of the frames, roots of their own in `vm.c:42`, are on the stack as well
(in the first slot of the frame, or as a method of the instance there) and are not
counted twice.

*Hash table.*  `findEntry` loops until it meets an empty entry.  The tries from
any hash reach every index (`ProbingReaches`), and at most three quarters of the
entries are used, tombstones counted, so one is empty.  On the way to a live entry a
probe for its key meets no empty one (`Probed`): storing and burying turn no entry
into an empty one, so they disturb no other key; that is what tombstones are for.
Rehashing stores the live entries one after the other in a fresh array, and a
collection in between may have buried some.  The refinement maps the entries to the
function from the keys in them to their values.

*String set.*  As for the hash table, but nothing is ever deleted, so what a probe
met once it meets for good.  `Kept` relates the array to the offsets that were
given out (each string's entry once, where a probe meets it before anything free)
and `Placed` relates the offsets to the bytes in the arena, which only grows at its
end.  Equal hashes and prefixes need no care because an entry is compared by
length, hash and bytes.

*Packaged programs.*  What a packager's temporary file contains follows from how far
it has come (`StagesAreWritten`), and a temporary name belongs to one running packager
or to a killed one, since it was opened exclusively; so nobody else writes to the
file between its creation and the rename, which replaces a whole program by a whole
program.  Nothing is promised of a temporary file that is not wanted any more: a
build whose copy buffer cannot be allocated ends without removing it
(`packaged_program.c:54`), and `packagedWrite` ignores a `remove` that fails
(`packaged_program.c:214`).

*Session.*  The three memories are related only while a line goes from one phase
to the next, so the invariant follows each statement.  What the checker has
passed is sound for the types it knows (`Typed`), and stays so in later phases and
lines because types only grow while nobody declares a name twice.  What the compiler
has passed assigns no name that is fixed nor one that an earlier statement
of the line fixes (`Fixing`); functions keep the set of names they were allowed to
assign when they were compiled.

*Numbers.*  Both properties are inductive as they stand, since a request is
answered in one step; the work is in the arithmetic.  Between the limits of a kind
`int64_t` holds every number (`Canonical`), so each test of `signedArithmetic`
computes what it says and none of its own differences or quotients wraps.  The
quotient of a limit is the largest factor that stays below it (`FactorFits`), for
each combination of signs, and the lowest number divided by -1 is the only quotient
that does not fit (`SignedQuotient`).  What passes the tests lies between the
limits, where `truncateRawInteger` changes nothing because the number of values of a
kind divides that of a payload (`PowersDivide`, `TruncationKeeps`).

Casts to a float need that rounding is rounding.  Near a number the floats are the
multiples of its last place, of which the nearest is taken (`NearestMultiple`); a
float that is no such multiple lies below the smallest significand with that
exponent, which is nearer (`NoneIsNearer`).  When the significand is rounded up to a
power of two, the result is a float with the next exponent (`KeptIsRepresentable`).
A larger number is never rounded below a smaller float, so what leaves the range
was out of it (`RoundingIsNearest`), and no integer does, not even on its way to
`f32` through `f64`, because twice a word is a float of both (`IntegerIsRounded`).

*Compiled code.*  `checkStackHeight` compares the height at one place with a height
that was noted at another, with arbitrary code in between; that it never fails
depends on what the whole C stack of the recursive descent still has to do.  The
invariant therefore says that what is left has a *plan* (`Plan`): every item of
`todo` begins at a place (`Places`: so many operands, locals, scopes and loops), and
what it does to the stack leads to the place of the next (`Link`, one line per kind of
item).  Declarations make the number of locals unknown until the scope is closed,
which brings back the locals of before (`Closes`); the locals of a place are those of
its depth or less (`Fits`), so the pops that `endScope` counts by depth are the ones
that the plan needs.  An item that remembers a jump, a target or a height
remembers one that fits its place (`Patchable`, `Landing`, `LoopOf`); and every
unfinished variable, every open loop and every unpatched jump is settled by some
item of the plan or is among the breaks of a loop (`Settles`), so nothing is left
when `todo` is empty.  Of the code itself, `CodeOK` says that the counted heights
agree along the text and along every patched jump; it is preserved by emitting,
patching and abandoning code.  There is one lemma per step of the compiler
(`StepWhileBody`, ...), each of which takes the first item off the plan and puts
others in front, and one per instruction of the machine (`RunPop`, ...).  `Plain`
is needed only for `break` and `continue`, whose pops are right when nothing but
finished locals of the loop is on the stack; without it the property is false
(run `compiler_continue_in_initializer`).

*Slots.*  Equal heights do not say that the slot a local is read from holds that local.
The second invariant, `MInv`, adds what is known of the slots.  `Named(c, L)` gives every
position of the code, the end included, a set of pairs of slot and declaration that are
right whenever the machine comes there: none lies above the stack of that position, an
instruction keeps what it is said to keep (`Flows`), a jump or loop knows at least what
its target asks for (`Turns`), and what is read is known.  While the compiler runs, what
is known at the end of the code is exactly the locals in scope (`Knows`, `Held`).  A
jump is patched, and a loop emitted, long after the position it concerns, so each item
of `todo` that will do so recalls that enough was known there (`Recall`): the position of
a jump knows the locals that are in scope when it will be patched (`Back`), and the head of a
loop asks for no more than those (`Forth`); the same holds for every `break` of an open
loop (`LoopRecalls`).  What an item recalls concerns the locals of its depth, which
declarations made deeper in the meantime do not change; this is why the items carry
a descending list of depths (`RecallAll`).  There is one lemma per step of the compiler
(`RememberForIncrement`, ...), and `ExecuteHolds` takes the machine through one
instruction.

Only model-checked, and why:

* `CollectionEnds` is liveness; the prover has no rule for fairness and `ENABLED`.
* `Scanner`, `Parser`, `ControlFlow`, `Types`, `TypeChecker` and `Natives` are
  recursive over texts and trees.  What a recursive definition computes for every
  input needs induction over data, whose theorems take operators as parameters, and the
  prover loses its SMT solver where a `RECURSIVE` operator is declared.  (Loops
  over a range of numbers can be handled: `NaturalLemmas` derives
  an induction principle for sets of naturals from the least number, and the two rehashing
  loops and the list walks are proved with it.)
* `UnitBytes` decodes by nested recursion as well.
* `CapturedSlotsAreClosed` of `LoopCompiler`: a capture makes the compiler close a local
  at the end of its scope, but code between its declaration and the capture has been
  emitted already, back to the head of an enclosing loop.  What is known of the slots
  at those positions would have to change with every capture, where `Named` only
  grows at the end (section 6).

## 5. Not modelled, and known gaps

Components with status `not_modelled` or `partly` in `PROJECT.json` say why.  The
largest pieces left out: the declarations of structs, impls, traits and aliases in
`typecheck.c` (TypeChecker takes their result as the constant `Declarations`); the
layout of operands and the constant table in `compiler.c`; mathematics, files,
time and the console in `native.c`; argument parsing and project files in
`main.c`; and the vendored TOML parser in `lib`, which is third-party code.

Disagreements between code and documents that no run shows, and limits that
the modelled properties name:

* A `break` in operand position (`1 + { if (c) { break; } 5 }`) is rejected with
  "Internal compiler error: stack height mismatch", although `compiler.c:91` says
  that this means a wrong `OpInfo` entry.  Run `compiler` therefore jumps from
  statement position only (`Plain`).
* A function whose value is only in a block that is discarded passes the path test:
  `fun f(): i64 { { 5 } let y = 1; }` is accepted.  `EveryPathReturns` states
  the document's version and does not hold; `PathsEndAsTheCheckerThinks` names
  the exception.
* The definite assignment analysis guesses in four places: operands that a logical
  operator skips, a `continue` that reaches the increment of a `for`, an inner name
  assigned while an outer one of the same name is pending, and the inside of casts and
  lambdas (`guess` in `ControlFlow`).
* A lambda's own annotations are not compared with the function type it is checked
  against (`typecheck.c:2475`): `let f: fun (string) => string = fun (y: i64): i64 { y + 1 };`
  passes the checker, and `f("a")` stops at run time.  `guessed` marks the place.
* A failed build may leave its temporary file behind (`packaged_program.c:54`, `214`).
* The checker accepts without comparing where a type is not known; `guessed` in
  `TypeChecker` is set at exactly those places.
* A whole number becomes a 32-bit float through a 64-bit one (`number_ops.c:228`):
  `1152921573326323713 as f32` is rounded twice and is not the nearest one
  (`IntegersBecomeTheNearestFloat` in `Numbers`).
* `a <= b` is compiled as "not greater", so a comparison with NaN is true;
  `cuAddConstant` compares floats with `==`, so 0.0 and -0.0 share a constant.
* `if (true) { f(); } (g)();` parses as a call of the `if`, against the comment
  in the parser's statement rule (`IfEndsTheStatement` in `Parser`); the
  comment on `cast_` misdescribes comparisons.
* The loops over arguments, parameters and generic parameters go on after they
  have reported the 255th, into arrays of 256 (`parser.c:749`, `1356`, `1442`);
  `Parser`'s lists stay below the limit.
* A newline escaped by a backslash is not counted in a token's line (the text is
  refused later); a lone `?`, `&` or `|` becomes an error token whose message is the rest
  of the source.
* `joinStrings` adds lengths in an int without the test its neighbours make;
  `NativesDoWhatTheyPromise` compares lengths that fit one.
* `@listSlice` and `@arrSlice` cannot start at 0 and cannot be empty; `@strSlice`
  can.
* `unitDecode` does not compare a function's `upvalueCount` with the number of
  descriptors its code has.
* A function can be replaced by a function that is declared before it in the same
  unit: names of functions are immutable only from their own compilation on.
* A `let` whose line failed at run time can be neither read nor declared again.
* `Date.new` of a time before 1970 yields a negative day (`stdlib.krb:26`).

## 6. Plan

Done: `LexicalVariables`, `Upvalues`, `Heap`, `HashTable`, `PartialMap`,
`StringSet`, `PackagedProgram`, `Session`, `Numbers` and `LoopCompiler`, with proofs;
`Scanner`, `Parser`, `ControlFlow`, `Types`, `TypeChecker`, `UnitBytes` and `Natives`,
model-checked.

To model:

1. `Declarations`: structs, impls, traits and aliases of `typecheck.c` (2773 to
   3656), whose result `TypeChecker` takes as a constant; then structs and impls at
   top level in `Session`.
2. `Operands`: the fields of instructions and their limits; the constant table.
3. `Calendar`: `Date` of `stdlib.krb`.

To prove:

1. `LoopCompiler`: `CapturedSlotsAreClosed` for programs of any size.
