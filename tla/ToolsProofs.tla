----------------------------- MODULE ToolsProofs -----------------------------
(***************************************************************************)
(* Proofs about the two tools that users start, the packager with the      *)
(* programs it builds (PackagedProgram) and the session (Session).         *)
(*                                                                         *)
(* Packaging, for every number of packagers, pids, runners, programs,      *)
(* attempts and files: whatever packagers do at once, fail at or are       *)
(* killed in, the output is whole, and so is what a started program runs.  *)
(*                                                                         *)
(* Two of the promises of a session hold for every set of names and values *)
(* and for lines and sessions of any length: as long as no name has two    *)
(* types or is used before its declaration, the checker knows the type of  *)
(* every global, and a name that a let or a function has fixed changes     *)
(* only in a function that was compiled before.                            *)
(*                                                                         *)
(* The three memories of a session are related only while a line is on its *)
(* way from one to the next, so the invariant follows a statement through  *)
(* the phases.  What the checker has passed is sound for the types it      *)
(* knows, which only grow while doubt is false (Typed).  What the compiler *)
(* has passed neither gives a value to a name that is fixed nor to one     *)
(* that an earlier statement of the line will fix (Fixing).                *)
(***************************************************************************)
EXTENDS PackagedProgram, Session, NaturalLemmas

----------------------------------------------------------------------------
(* Packaging.                                                              *)

(* A packager past "open" has a program and a file, and the file holds what *)
(* its stage says.                                                         *)
StagesAreWritten ==
  \A p \in Packager :
    /\ packager[p].at # "idle" => packager[p].program \in Program
    /\ packager[p].at \in Writing =>
         LET f == file[packager[p].inode]
             units == Units[packager[p].program]
         IN  /\ packager[p].inode # 0
             /\ packager[p].at = "copy" => f.pieces = << >>
             /\ packager[p].at = "payload" => f.pieces = <<RuntimePiece>>
             /\ packager[p].at = "trailer" => f.pieces = <<RuntimePiece>> \o PiecesOf(units)
             /\ packager[p].at \in {"executable", "rename"} =>
                  f.pieces = Whole(packager[p].program)
             /\ packager[p].at = "rename" => f.executable

(* Who was started finds something under the output's name: it is never     *)
(* removed, only replaced.                                                 *)
OutputStays == \A r \in Runner : runner[r].at # "idle" => directory[Output] # 0

(* The inductive invariant.                                                *)
PackagingIInv ==
  /\ TypeOK
  /\ StagesAreWritten
  /\ WritersOwnTheirFile
  /\ OutputIsWhole
  /\ OutputStays
  /\ RunsWholePrograms

----------------------------------------------------------------------------
(* Names of files, and the pieces of a program.                            *)

(* The three kinds of names differ.                                        *)
LEMMA NamesDiffer ==
  /\ Runtime # Output
  /\ \A f \in Temporaries : f # Runtime /\ f # Output
BY DEF Runtime, Output, Temporaries

LEMMA TemporaryIsAName ==
  ASSUME TypeOK, NEW p \in Packager
  PROVE  Temporary(p) \in Temporaries /\ Temporary(p) \in Path
BY DEF TypeOK, Temporary, Temporaries, Path

(* The pieces of the units of a program.                                   *)
LEMMA PiecesAreTyped ==
  ASSUME NEW g \in Program
  PROVE  /\ Units[g] \in Seq(Unit) /\ Len(Units[g]) \in Nat /\ Len(Units[g]) > 0
         /\ PiecesOf(Units[g]) \in Seq(Piece)
         /\ Len(PiecesOf(Units[g])) = Len(Units[g])
         /\ Trailer(Len(Units[g])) \in Piece
         /\ Whole(g) \in Seq(Piece)
<1>1. Units[g] \in Seq(Unit) /\ Len(Units[g]) \in Nat /\ Units[g] # << >>
  BY PackagedProgramAssumption
<1>2. Len(Units[g]) > 0
  BY <1>1
<1>3. \A i \in 1..Len(Units[g]) : UnitPiece(Units[g][i]) \in Piece
  BY <1>1 DEF Piece
<1>4. PiecesOf(Units[g]) \in Seq(Piece) /\ Len(PiecesOf(Units[g])) = Len(Units[g])
  <2>1. PiecesOf(Units[g]) = [i \in 1..Len(Units[g]) |-> UnitPiece(Units[g][i])]
    BY <1>1 DEF PiecesOf
  <2> QED BY <1>1, <1>3, <2>1
<1>5. Trailer(Len(Units[g])) \in Piece /\ RuntimePiece \in Piece
  BY DEF Piece
<1>6. Whole(g) \in Seq(Piece)
  BY <1>4, <1>5 DEF Whole
<1> QED BY <1>1, <1>2, <1>4, <1>5, <1>6

(* A part of the payload is a sequence of pieces, and all of it is all.     *)
LEMMA PartOfPayload ==
  ASSUME NEW g \in Program, NEW n \in 0..Len(Units[g])
  PROVE  /\ PiecesOf(SubSeq(Units[g], 1, n)) \in Seq(Piece)
         /\ n = Len(Units[g]) => SubSeq(Units[g], 1, n) = Units[g]
<1>1. Units[g] \in Seq(Unit) /\ Len(Units[g]) \in Nat
  BY PiecesAreTyped
<1> DEFINE part == SubSeq(Units[g], 1, n)
<1>2. part \in Seq(Unit) /\ Len(part) = n /\ \A i \in 1..n : part[i] = Units[g][i]
  BY <1>1
<1> HIDE DEF part
<1>3. PiecesOf(part) \in Seq(Piece)
  <2>1. PiecesOf(part) = [i \in 1..n |-> UnitPiece(part[i])]
    BY <1>2 DEF PiecesOf
  <2>2. \A i \in 1..n : UnitPiece(part[i]) \in Piece
    BY <1>2 DEF Piece
  <2>3. n \in Nat
    BY <1>1
  <2> QED BY <2>1, <2>2, <2>3
<1>4. n = Len(Units[g]) => part = Units[g]
  BY <1>1, <1>2
<1> QED BY <1>3, <1>4 DEF part

(* packagedRead finds in a whole program the pieces that were put in.      *)
LEMMA WholeIsReadBack ==
  ASSUME NEW g \in Program
  PROVE  PayloadOf(Whole(g)) = PiecesOf(Units[g]) /\ PiecesOf(Units[g]) # << >>
<1> DEFINE u == PiecesOf(Units[g])
           n == Len(Units[g])
           w == Whole(g)
<1>1. u \in Seq(Piece) /\ Len(u) = n /\ n \in Nat /\ n > 0 /\ Trailer(n) \in Piece
      /\ RuntimePiece \in Piece
  BY PiecesAreTyped DEF Piece
<1>2. w = <<RuntimePiece>> \o u \o <<Trailer(n)>>
  BY DEF Whole
<1> HIDE DEF u, n, w
<1>3. /\ w \in Seq(Piece) /\ Len(w) = n + 2 /\ w[n + 2] = Trailer(n)
      /\ \A i \in 1..n : w[i + 1] = u[i]
  BY <1>1, <1>2
<1>4. Last(w) = Trailer(n)
  BY <1>3 DEF Last
<1>5. ReadStatus(w) = "ok"
  <2>1. Last(w)[1] = "trailer" /\ Last(w)[2] = n
    BY <1>4 DEF Trailer
  <2> QED BY <1>1, <1>3, <2>1 DEF ReadStatus
<1>6. PayloadOf(w) = SubSeq(w, 2, n + 1)
  <2>1. Last(w)[2] = n /\ Len(w) - n = 2 /\ Len(w) - 1 = n + 1
    BY <1>1, <1>3, <1>4 DEF Trailer
  <2> QED BY <1>5, <2>1 DEF PayloadOf
<1>7. SubSeq(w, 2, n + 1) = u
  <2>1. SubSeq(w, 2, n + 1) \in Seq(Piece) /\ Len(SubSeq(w, 2, n + 1)) = n
    BY <1>1, <1>3
  <2>2. \A i \in 1..n : SubSeq(w, 2, n + 1)[i] = u[i]
    BY <1>1, <1>3
  <2> QED BY <1>1, <2>1, <2>2
<1>8. u # << >>
  BY <1>1
<1> QED BY <1>6, <1>7, <1>8 DEF u, w

----------------------------------------------------------------------------
(* What the kinds of steps do to the invariant.                            *)

(* Every packager and runner is a record of its type.                      *)
LEMMA ProcessesAreTyped ==
  ASSUME TypeOK
  PROVE  /\ \A p \in Packager :
              /\ packager[p].at \in {"idle", "open"} \cup Writing
              /\ packager[p].program \in Program \cup {None}
              /\ packager[p].attempt \in 0..Attempts - 1
              /\ packager[p].inode \in 0..Len(file)
         /\ \A r \in Runner :
              /\ runner[r].at \in {"idle", "path", "read", "run"}
              /\ runner[r].image \in 0..Len(file)
              /\ runner[r].units \in Seq(Piece)
         /\ Len(file) \in Nat
         /\ \A i \in 1..Len(file) : file[i] \in [pieces : Seq(Piece), executable : BOOLEAN]
<1>1. Len(file) \in Nat /\ \A i \in 1..Len(file) : file[i] \in [pieces : Seq(Piece), executable : BOOLEAN]
  <2> DEFINE Content == [pieces : Seq(Piece), executable : BOOLEAN]
  <2>1. file \in Seq(Content)
    BY DEF TypeOK
  <2> HIDE DEF Content
  <2>2. Len(file) \in Nat /\ \A i \in 1..Len(file) : file[i] \in Content
    BY <2>1
  <2> QED BY <2>2 DEF Content
<1>2. ASSUME NEW p \in Packager
      PROVE  /\ packager[p].at \in {"idle", "open"} \cup Writing
             /\ packager[p].program \in Program \cup {None}
             /\ packager[p].attempt \in 0..Attempts - 1
             /\ packager[p].inode \in 0..Len(file)
  BY DEF TypeOK
<1>3. ASSUME NEW r \in Runner
      PROVE  /\ runner[r].at \in {"idle", "path", "read", "run"}
             /\ runner[r].image \in 0..Len(file)
             /\ runner[r].units \in Seq(Piece)
  BY DEF TypeOK
<1> QED BY <1>1, <1>2, <1>3

(* A write, or chmod: one file changes, and its only writer is the one who *)
(* goes on to the next stage.                                              *)
LEMMA WriteStep ==
  ASSUME PackagingIInv, NEW p \in Packager, packager[p].at \in Writing, NEW l \in Writing,
         NEW e \in [pieces : Seq(Piece), executable : BOOLEAN],
         file' = [file EXCEPT ![packager[p].inode] = e],
         packager' = [packager EXCEPT ![p].at = l],
         UNCHANGED <<directory, runner>>,
         LET g == packager[p].program
         IN  /\ l # "copy"
             /\ l = "payload" => e.pieces = <<RuntimePiece>>
             /\ l = "trailer" => e.pieces = <<RuntimePiece>> \o PiecesOf(Units[g])
             /\ l \in {"executable", "rename"} => e.pieces = Whole(g)
             /\ l = "rename" => e.executable
  PROVE  PackagingIInv'
<1> DEFINE i == packager[p].inode
<1>1. i \in 1..Len(file) /\ Len(file) \in Nat
  BY ProcessesAreTyped DEF PackagingIInv, StagesAreWritten
<1>2. /\ Len(file') = Len(file) /\ file' \in Seq([pieces : Seq(Piece), executable : BOOLEAN])
      /\ file'[i] = e /\ \A j \in 1..Len(file) : j # i => file'[j] = file[j]
  BY <1>1 DEF PackagingIInv, TypeOK
<1>3. \A q \in Packager : /\ packager'[q].program = packager[q].program
                          /\ packager'[q].attempt = packager[q].attempt
                          /\ packager'[q].inode = packager[q].inode
                          /\ packager'[q].at = IF q = p THEN l ELSE packager[q].at
                          /\ packager[q].at \in Writing <=> packager'[q].at \in Writing
  BY ProcessesAreTyped DEF PackagingIInv, TypeOK
<1>4. \A q \in Packager : Temporary(q)' = Temporary(q)
  BY <1>3 DEF Temporary
<1>5. TypeOK'
  <2>1. packager' \in [Packager -> [at : {"idle", "open"} \cup Writing, program : Program \cup {None},
                                    attempt : 0..Attempts - 1, inode : 0..Len(file)]]
    <3> DEFINE Stages == [at : {"idle", "open"} \cup Writing, program : Program \cup {None},
                          attempt : 0..Attempts - 1, inode : 0..Len(file)]
    <3>1. packager \in [Packager -> Stages]
      BY DEF PackagingIInv, TypeOK
    <3>2. packager[p] \in Stages
      BY <3>1
    <3>3. [packager[p] EXCEPT !.at = l] \in Stages
      BY <3>2
    <3> HIDE DEF Stages
    <3>4. packager' \in [Packager -> Stages]
      BY <3>1, <3>3
    <3> QED BY <3>4 DEF Stages
  <2> QED BY <1>2, <2>1 DEF PackagingIInv, TypeOK
<1>6. StagesAreWritten'
  <2> SUFFICES ASSUME NEW q \in Packager
               PROVE  StagesAreWritten!(q)'
    BY DEF StagesAreWritten
  <2>1. CASE q = p
    <3>1. packager[p].at # "idle"
      BY DEF Writing
    <3>2. packager[p].program \in Program
      BY <3>1 DEF PackagingIInv, StagesAreWritten
    <3>3. /\ packager'[p].at = l /\ packager'[p].program = packager[p].program
          /\ packager'[p].inode # 0 /\ file'[packager'[p].inode] = e
      BY <1>1, <1>2, <1>3
    <3> QED BY <2>1, <3>2, <3>3
  <2>2. CASE q # p
    <3>1. packager[q].at \in Writing => packager[q].inode # i /\ packager[q].inode \in 1..Len(file)
      BY <2>2, ProcessesAreTyped DEF PackagingIInv, WritersOwnTheirFile, StagesAreWritten
    <3>2. packager'[q] = packager[q]
      BY <2>2 DEF PackagingIInv, TypeOK
    <3>3. packager[q].at \in Writing => file'[packager[q].inode] = file[packager[q].inode]
      BY <1>2, <3>1
    <3>4. StagesAreWritten!(q)
      BY DEF PackagingIInv, StagesAreWritten
    <3> QED BY <3>2, <3>3, <3>4
  <2> QED BY <2>1, <2>2
<1>7. WritersOwnTheirFile'
  BY <1>3, <1>4 DEF PackagingIInv, WritersOwnTheirFile
<1>8. OutputIsWhole'
  <2>1. i # directory[Output]
    BY DEF PackagingIInv, WritersOwnTheirFile
  <2>2. directory[Output] \in 0..Len(file)
    BY DEF PackagingIInv, TypeOK, Path
  <2> QED BY <1>1, <1>2, <2>1, <2>2 DEF PackagingIInv, OutputIsWhole, Complete
<1>9. OutputStays' /\ RunsWholePrograms'
  BY DEF PackagingIInv, OutputStays, RunsWholePrograms
<1> QED BY <1>5, <1>6, <1>7, <1>8, <1>9 DEF PackagingIInv

(* A packager stops: its temporary file stays under its name, or is        *)
(* removed, or becomes the output.                                         *)
LEMMA ReleaseStep ==
  ASSUME PackagingIInv, NEW p \in Packager, UNCHANGED <<file, runner>>,
         packager' = [packager EXCEPT ![p] = Idle],
         \/ directory' = directory
         \/ /\ packager[p].at \in Writing
            /\ directory' = [directory EXCEPT ![Temporary(p)] = 0]
         \/ /\ packager[p].at = "rename"
            /\ directory' = Moved(p)
  PROVE  PackagingIInv'
<1>1. TypeOK /\ Temporary(p) \in Temporaries /\ Temporary(p) \in Path
  BY TemporaryIsAName DEF PackagingIInv
<1>2. \A q \in Packager : q # p => /\ packager'[q] = packager[q]
                                   /\ Temporary(q)' = Temporary(q)
  BY <1>1 DEF TypeOK, Temporary
<1>3. packager'[p] = Idle /\ Idle.at \notin Writing /\ Idle.at = "idle"
  BY <1>1 DEF TypeOK, Idle, Writing
<1>4. ASSUME NEW q \in Packager, q # p, packager[q].at \in Writing, packager[p].at \in Writing
      PROVE  Temporary(q) # Temporary(p)
  BY <1>4 DEF PackagingIInv, WritersOwnTheirFile
<1>5. /\ directory[Temporary(p)] \in 0..Len(file) /\ Output \in Path /\ Runtime \in Path
      /\ packager[p].at \in Writing => directory[Temporary(p)] = packager[p].inode
  BY <1>1 DEF PackagingIInv, TypeOK, WritersOwnTheirFile, Path
<1>6. /\ directory' \in [Path -> 0..Len(file)]
      /\ directory'[Runtime] = directory[Runtime]
      /\ directory'[Output] = directory[Output] \/ directory'[Output] = packager[p].inode
      /\ \A f \in Temporaries : \/ directory'[f] = directory[f]
                                \/ f = Temporary(p) /\ directory'[f] = 0
  <2>1. Len(file) \in Nat
    BY <1>1 DEF TypeOK
  <2>2. CASE directory' = directory
    BY <1>1, <2>2 DEF TypeOK
  <2>3. CASE directory' = [directory EXCEPT ![Temporary(p)] = 0]
    BY <1>1, <1>5, <2>1, <2>3, NamesDiffer DEF TypeOK
  <2>4. CASE packager[p].at = "rename" /\ directory' = Moved(p)
    <3>1. packager[p].at \in Writing
      BY <2>4 DEF Writing
    <3>2. Temporary(p) # Output /\ Temporary(p) # Runtime
      BY <1>1, NamesDiffer
    <3>3. /\ directory' \in [Path -> 0..Len(file)]
          /\ directory'[Output] = packager[p].inode /\ directory'[Temporary(p)] = 0
          /\ \A f \in Path : f # Output /\ f # Temporary(p) => directory'[f] = directory[f]
      BY <1>1, <1>5, <2>1, <2>4, <3>1, <3>2 DEF TypeOK, Moved
    <3> QED BY <1>5, <3>1, <3>2, <3>3, NamesDiffer DEF Path
  <2> QED BY <2>2, <2>3, <2>4
<1>7. TypeOK'
  <2>1. Idle \in [at : {"idle", "open"} \cup Writing, program : Program \cup {None},
                  attempt : 0..Attempts - 1, inode : 0..Len(file)]
    BY <1>1, PackagedProgramAssumption DEF Idle, TypeOK
  <2>2. packager' \in [Packager -> [at : {"idle", "open"} \cup Writing, program : Program \cup {None},
                                    attempt : 0..Attempts - 1, inode : 0..Len(file)]]
    BY <1>1, <2>1 DEF TypeOK
  <2> QED BY <1>1, <1>6, <2>2 DEF TypeOK
<1>8. StagesAreWritten'
  <2> SUFFICES ASSUME NEW q \in Packager
               PROVE  StagesAreWritten!(q)'
    BY DEF StagesAreWritten
  <2> QED BY <1>2, <1>3 DEF PackagingIInv, StagesAreWritten
<1>9. WritersOwnTheirFile'
  <2> SUFFICES ASSUME NEW q \in Packager, packager'[q].at \in Writing
               PROVE  /\ directory'[Temporary(q)'] = packager'[q].inode
                      /\ packager'[q].inode \notin {directory'[Output], directory'[Runtime]}
                      /\ \A r \in Packager \ {q} :
                           packager'[r].at \in Writing => packager'[r].inode # packager'[q].inode
    BY DEF WritersOwnTheirFile
  <2>1. /\ q # p /\ packager'[q] = packager[q] /\ packager[q].at \in Writing
        /\ Temporary(q)' = Temporary(q) /\ Temporary(q) \in Temporaries
    BY <1>1, <1>2, <1>3, TemporaryIsAName
  <2>2. directory'[Temporary(q)] = directory[Temporary(q)]
    <3>1. CASE packager[p].at \in Writing
      BY <1>4, <1>6, <2>1, <3>1
    <3>2. CASE packager[p].at \notin Writing
      BY <3>2 DEF Writing
    <3> QED BY <3>1, <3>2
  <2>3. packager[q].inode # directory'[Output]
    <3>1. packager[q].inode # directory[Output]
      BY <2>1 DEF PackagingIInv, WritersOwnTheirFile
    <3>2. CASE packager[p].at \in Writing
      BY <1>6, <2>1, <3>1, <3>2 DEF PackagingIInv, WritersOwnTheirFile
    <3>3. CASE packager[p].at \notin Writing
      BY <3>1, <3>3 DEF Writing
    <3> QED BY <3>2, <3>3
  <2>4. \A r \in Packager \ {q} : packager'[r].at \in Writing => packager'[r].inode # packager[q].inode
    BY <1>2, <1>3, <2>1 DEF PackagingIInv, WritersOwnTheirFile
  <2> QED BY <1>6, <2>1, <2>2, <2>3, <2>4 DEF PackagingIInv, WritersOwnTheirFile
<1>10. OutputIsWhole'
  <2>1. CASE directory'[Output] = directory[Output]
    BY <2>1 DEF PackagingIInv, OutputIsWhole, Complete
  <2>2. CASE packager[p].at = "rename" /\ directory' = Moved(p)
    <3>1. directory'[Output] = packager[p].inode
      BY <1>1, <1>5, <2>2, NamesDiffer DEF TypeOK, Moved, Writing
    <3>2. Complete(packager[p].inode)
      BY <2>2 DEF PackagingIInv, StagesAreWritten, Complete, Writing
    <3> QED BY <3>1, <3>2 DEF OutputIsWhole, Complete
  <2>3. CASE directory' = [directory EXCEPT ![Temporary(p)] = 0]
    BY <1>1, <1>5, <2>1, <2>3, NamesDiffer DEF TypeOK
  <2> QED BY <2>1, <2>2, <2>3
<1>11. OutputStays'
  <2>1. directory'[Output] = 0 => directory[Output] = 0
    <3>1. packager[p].at \in Writing => packager[p].inode # 0
      BY DEF PackagingIInv, StagesAreWritten
    <3> QED BY <1>1, <1>5, <1>6, <3>1, NamesDiffer DEF Writing
  <2> QED BY <2>1 DEF PackagingIInv, OutputStays
<1>12. RunsWholePrograms'
  BY DEF PackagingIInv, RunsWholePrograms
<1> QED BY <1>7, <1>8, <1>9, <1>10, <1>11, <1>12 DEF PackagingIInv

(* A packager that has no file yet looks for a name.                       *)
LEMMA SearchStep ==
  ASSUME PackagingIInv, NEW p \in Packager, packager[p].at \in {"idle", "open"},
         NEW e \in [at : {"open"}, program : Program, attempt : 0..Attempts - 1,
                   inode : 0..Len(file)],
         packager' = [packager EXCEPT ![p] = e],
         UNCHANGED <<directory, file, runner>>
  PROVE  PackagingIInv'
<1>1. \A q \in Packager : q # p => /\ packager'[q] = packager[q]
                                   /\ Temporary(q)' = Temporary(q)
  BY DEF PackagingIInv, TypeOK, Temporary
<1>2. /\ packager'[p] = e /\ e.at = "open" /\ e.program \in Program
      /\ packager[p].at \notin Writing /\ e.at \notin Writing
  BY DEF PackagingIInv, TypeOK, Writing
<1>3. TypeOK'
  <2>1. e \in [at : {"idle", "open"} \cup Writing, program : Program \cup {None},
               attempt : 0..Attempts - 1, inode : 0..Len(file)]
    BY ProcessesAreTyped DEF PackagingIInv
  <2>2. packager' \in [Packager -> [at : {"idle", "open"} \cup Writing, program : Program \cup {None},
                                    attempt : 0..Attempts - 1, inode : 0..Len(file)]]
    BY <2>1 DEF PackagingIInv, TypeOK
  <2> QED BY <2>2 DEF PackagingIInv, TypeOK
<1>4. StagesAreWritten'
  <2> SUFFICES ASSUME NEW q \in Packager PROVE StagesAreWritten!(q)'
    BY DEF StagesAreWritten
  <2> QED BY <1>1, <1>2 DEF PackagingIInv, StagesAreWritten
<1>5. WritersOwnTheirFile'
  BY <1>1, <1>2 DEF PackagingIInv, WritersOwnTheirFile
<1>6. OutputIsWhole' /\ OutputStays' /\ RunsWholePrograms'
  BY DEF PackagingIInv, OutputIsWhole, Complete, OutputStays, RunsWholePrograms
<1> QED BY <1>3, <1>4, <1>5, <1>6 DEF PackagingIInv

(* openTemporaryOutput succeeds: the file is new, and so nobody else's.    *)
LEMMA NewInodeStep ==
  ASSUME PackagingIInv, NEW p \in Packager, packager[p].at = "open", directory[Temporary(p)] = 0,
         NewInode(p), Process
  PROVE  PackagingIInv'
<1> DEFINE n == Len(file) + 1
           blank == [pieces |-> << >>, executable |-> FALSE]
<1>1. TypeOK /\ Temporary(p) \in Temporaries /\ Temporary(p) \in Path /\ Len(file) \in Nat
  BY TemporaryIsAName, ProcessesAreTyped DEF PackagingIInv
<1>2. /\ Len(file') = n /\ file'[n] = blank /\ \A i \in 1..Len(file) : file'[i] = file[i]
      /\ file' \in Seq([pieces : Seq(Piece), executable : BOOLEAN])
      /\ Len(file') <= MaxInodes
  <2>1. blank \in [pieces : Seq(Piece), executable : BOOLEAN]
    OBVIOUS
  <2> HIDE DEF blank
  <2> DEFINE Content == [pieces : Seq(Piece), executable : BOOLEAN]
  <2>2. file \in Seq(Content) /\ blank \in Content /\ file' = Append(file, blank)
    BY <1>1, <2>1 DEF TypeOK, NewInode, blank
  <2> HIDE DEF Content
  <2>3. /\ Len(file') = n /\ file'[n] = blank /\ \A i \in 1..Len(file) : file'[i] = file[i]
        /\ file' \in Seq(Content)
    BY <1>1, <2>2
  <2>4. Len(file') <= MaxInodes
    BY <1>1, <2>3, PackagedProgramAssumption DEF NewInode
  <2> QED BY <2>3, <2>4 DEF Content
<1>a. PICK l \in {"copy", "remove"} :
        packager' = [packager EXCEPT ![p].at = l, ![p].inode = n]
  BY DEF NewInode
<1>3. \A q \in Packager : /\ q # p => packager'[q] = packager[q]
                          /\ Temporary(q)' = Temporary(q)
                          /\ packager'[q].program = packager[q].program
                          /\ packager'[q].attempt = packager[q].attempt
  BY <1>1, <1>a DEF TypeOK, Temporary
<1>4. packager'[p].at = l /\ packager'[p].inode = n /\ l \in Writing
  BY <1>1, <1>a DEF TypeOK, Writing
<1>5. /\ directory' \in [Path -> 0..n] /\ directory'[Temporary(p)] = n
      /\ \A f \in Path : f # Temporary(p) => directory'[f] = directory[f]
      /\ Output \in Path /\ Runtime \in Path /\ Output # Temporary(p) /\ Runtime # Temporary(p)
      /\ \A f \in Path : directory[f] \in 0..Len(file)
  BY <1>1, NamesDiffer DEF TypeOK, NewInode, Path
<1> HIDE DEF n
<1>6. n = Len(file) + 1
  BY DEF n
<1>7. TypeOK'
  <2>1. packager' \in [Packager -> [at : {"idle", "open"} \cup Writing, program : Program \cup {None},
                                    attempt : 0..Attempts - 1, inode : 0..n]]
    <3>1. \A q \in Packager : packager[q].inode \in 0..n
      BY <1>1, <1>6, ProcessesAreTyped
    <3>2. [packager[p] EXCEPT !.at = l, !.inode = n]
            \in [at : {"idle", "open"} \cup Writing, program : Program \cup {None},
                 attempt : 0..Attempts - 1, inode : 0..n]
      <4>1. packager[p] \in [at : {"idle", "open"} \cup Writing, program : Program \cup {None},
                             attempt : 0..Attempts - 1, inode : 0..Len(file)]
        BY <1>1 DEF TypeOK
      <4>2. n \in 0..n
        BY <1>1, <1>6
      <4> QED BY <1>4, <4>1, <4>2
    <3>3. packager' = [packager EXCEPT ![p] = [packager[p] EXCEPT !.at = l, !.inode = n]]
      BY <1>a
    <3>4. \A q \in Packager : packager[q] \in [at : {"idle", "open"} \cup Writing,
            program : Program \cup {None}, attempt : 0..Attempts - 1, inode : 0..n]
      BY <1>1, <1>6, <3>1 DEF TypeOK
    <3> QED BY <1>1, <3>2, <3>3, <3>4 DEF TypeOK
  <2>2. runner' \in [Runner -> [at : {"idle", "path", "read", "run"}, image : 0..n, units : Seq(Piece)]]
    <3>1. 0..Len(file) \subseteq 0..n
      BY <1>1, <1>6
    <3> QED BY <1>1, <3>1 DEF TypeOK, Process
  <2> QED BY <1>1, <1>2, <1>5, <2>1, <2>2 DEF TypeOK, Process
<1>8. StagesAreWritten'
  <2> SUFFICES ASSUME NEW q \in Packager PROVE StagesAreWritten!(q)'
    BY DEF StagesAreWritten
  <2>1. CASE q = p
    <3>1. packager[p].program \in Program
      BY DEF PackagingIInv, StagesAreWritten
    <3>2. packager'[p].program = packager[p].program /\ packager'[p].inode # 0
      BY <1>1, <1>3, <1>4, <1>6
    <3>3. file'[packager'[p].inode].pieces = << >>
      BY <1>2, <1>4
    <3> QED BY <1>4, <2>1, <3>1, <3>2, <3>3
  <2>2. CASE q # p
    <3>1. packager[q].at \in Writing => packager[q].inode \in 1..Len(file)
      BY <1>1, ProcessesAreTyped DEF PackagingIInv, StagesAreWritten
    <3>2. packager[q].at \in Writing => file'[packager[q].inode] = file[packager[q].inode]
      BY <1>2, <3>1
    <3>3. packager'[q] = packager[q]
      BY <1>3, <2>2
    <3> QED BY <3>2, <3>3 DEF PackagingIInv, StagesAreWritten
  <2> QED BY <2>1, <2>2
<1>9. WritersOwnTheirFile'
  <2>1. \A q \in Packager : packager[q].at \in Writing =>
          /\ packager[q].inode # n
          /\ directory[Temporary(q)] = packager[q].inode /\ packager[q].inode # 0
          /\ Temporary(q) # Temporary(p) /\ Temporary(q) \in Path
    BY <1>1, <1>6, ProcessesAreTyped, TemporaryIsAName DEF PackagingIInv, WritersOwnTheirFile, StagesAreWritten
  <2>2. packager[p].at \notin Writing /\ n \notin {directory[Output], directory[Runtime]}
    BY <1>1, <1>5, <1>6 DEF Writing
  <2> QED BY <1>3, <1>4, <1>5, <2>1, <2>2 DEF PackagingIInv, WritersOwnTheirFile
<1>10. OutputIsWhole'
  BY <1>1, <1>2, <1>5 DEF PackagingIInv, OutputIsWhole, Complete
<1>11. OutputStays' /\ RunsWholePrograms'
  BY <1>5 DEF PackagingIInv, OutputStays, RunsWholePrograms, Process
<1> QED BY <1>7, <1>8, <1>9, <1>10, <1>11 DEF PackagingIInv

(* A runner goes on; a program that runs is one that the output held.      *)
LEMMA RunnerStep ==
  ASSUME PackagingIInv, NEW r \in Runner, Files,
         NEW e \in [at : {"idle", "path", "read", "run"}, image : 0..Len(file), units : Seq(Piece)],
         runner' = [runner EXCEPT ![r] = e],
         e.at # "idle" => directory[Output] # 0,
         e.at = "run" => \E g \in Program : e.units = PiecesOf(Units[g])
  PROVE  PackagingIInv'
<1>1. \A q \in Runner : runner'[q] = IF q = r THEN e ELSE runner[q]
  BY DEF PackagingIInv, TypeOK
<1>2. TypeOK'
  BY DEF PackagingIInv, TypeOK, Files
<1>3. StagesAreWritten' /\ WritersOwnTheirFile'
  BY DEF PackagingIInv, StagesAreWritten, WritersOwnTheirFile, Files, Temporary
<1>4. OutputIsWhole'
  BY DEF PackagingIInv, OutputIsWhole, Complete, Files
<1>5. OutputStays' /\ RunsWholePrograms'
  BY <1>1 DEF PackagingIInv, OutputStays, RunsWholePrograms, Files
<1> QED BY <1>2, <1>3, <1>4, <1>5 DEF PackagingIInv

----------------------------------------------------------------------------
(* The invariant holds at first and is preserved.                          *)

LEMMA InitPackagingIInv == Init => PackagingIInv
<1> SUFFICES ASSUME Init PROVE PackagingIInv
  OBVIOUS
<1> DEFINE Content == [pieces : Seq(Piece), executable : BOOLEAN]
           runtime == [pieces |-> <<RuntimePiece>>, executable |-> TRUE]
<1>1. runtime \in Content
  <2>1. <<RuntimePiece>> \in Seq(Piece)
    BY DEF Piece
  <2> QED BY <2>1
<1>2. \A p \in Packager : packager[p] = Idle /\ packager[p].at = "idle" /\ "idle" \notin Writing
  BY DEF Init, Idle, Writing
<1>3. \A r \in Runner : runner[r].at = "idle"
  BY DEF Init, Stopped
<1>4. /\ packager \in [Packager -> [at : {"idle", "open"} \cup Writing, program : Program \cup {None},
                                    attempt : 0..Attempts - 1, inode : 0..Len(file)]]
      /\ runner \in [Runner -> [at : {"idle", "path", "read", "run"}, image : 0..Len(file),
                                units : Seq(Piece)]]
  <2>1. Len(file) \in Nat
    BY DEF Init
  <2> QED BY <2>1, PackagedProgramAssumption DEF Init, Idle, Stopped
<1>5. /\ file \in Seq(Content) /\ directory \in [Path -> 0..Len(file)]
      /\ directory[Output] # 0 => Complete(directory[Output])
      /\ \A f \in Temporaries : directory[f] = 0
  <2>1. Output \in Path /\ Runtime \in Path /\ Temporaries \subseteq Path
    BY DEF Path
  <2>2. CASE /\ file = <<runtime>>
             /\ directory = [f \in Path |-> IF f = Runtime THEN 1 ELSE 0]
    BY <1>1, <2>1, <2>2, NamesDiffer
  <2>3. ASSUME NEW g \in Program, file = <<runtime, [pieces |-> Whole(g), executable |-> TRUE]>>,
               directory = [f \in Path |-> CASE f = Runtime -> 1 [] f = Output -> 2 [] OTHER -> 0]
        PROVE  /\ file \in Seq(Content) /\ directory \in [Path -> 0..Len(file)]
               /\ directory[Output] # 0 => Complete(directory[Output])
               /\ \A f \in Temporaries : directory[f] = 0
    <3>1. [pieces |-> Whole(g), executable |-> TRUE] \in Content
      BY PiecesAreTyped
    <3>2. \A f \in Path : directory[f] = IF f = Runtime THEN 1 ELSE IF f = Output THEN 2 ELSE 0
      BY <2>3, NamesDiffer
    <3>3. /\ file \in Seq(Content) /\ Len(file) = 2
          /\ file[2] = [pieces |-> Whole(g), executable |-> TRUE]
      BY <1>1, <2>3, <3>1
    <3>4. Complete(2)
      BY <3>3 DEF Complete
    <3> QED BY <2>1, <2>3, <3>2, <3>3, <3>4, NamesDiffer
  <2>4. CASE \E g \in Program :
               /\ file = <<runtime, [pieces |-> Whole(g), executable |-> TRUE]>>
               /\ directory = [f \in Path |-> CASE f = Runtime -> 1 [] f = Output -> 2 [] OTHER -> 0]
    BY <2>3, <2>4
  <2> QED BY <2>2, <2>4 DEF Init
<1>6. TypeOK
  <2>1. Len(file) \in Nat /\ Len(file) <= 2
    <3>1. \A n : Len(file) = n /\ n \in {1, 2} => n \in Nat /\ n <= 2
      OBVIOUS
    <3>2. Len(file) \in {1, 2}
      BY DEF Init
    <3> QED BY <3>1, <3>2
  <2>2. Len(file) <= MaxInodes
    <3>1. MaxInodes \in Nat /\ MaxInodes >= 2
      BY PackagedProgramAssumption
    <3> QED BY <2>1, <3>1
  <2> QED BY <1>4, <1>5, <2>1, <2>2 DEF TypeOK
<1>7. StagesAreWritten /\ WritersOwnTheirFile /\ OutputStays /\ RunsWholePrograms
  BY <1>2, <1>3 DEF StagesAreWritten, WritersOwnTheirFile, OutputStays, RunsWholePrograms
<1>8. OutputIsWhole
  BY <1>5 DEF OutputIsWhole
<1> QED BY <1>6, <1>7, <1>8 DEF PackagingIInv

LEMMA PackagerPreservesIInv ==
  ASSUME PackagingIInv, NEW p \in Packager,
         \/ \E g \in Program : Start(p, g)
         \/ OpenTemporary(p) \/ CopyRuntime(p) \/ WritePayload(p) \/ WriteTrailer(p)
         \/ MakeExecutable(p) \/ Rename(p) \/ Fail(p) \/ NoMemory(p)
         \/ RemoveTemporary(p) \/ Kill(p)
  PROVE  PackagingIInv'
<1> DEFINE i == packager[p].inode
           f == file[i]
           g == packager[p].program
           Content == [pieces : Seq(Piece), executable : BOOLEAN]
<1>1. packager[p].at \in Writing =>
        /\ g \in Program /\ i \in 1..Len(file) /\ f \in Content
        /\ \A x \in Content : [file EXCEPT ![i] = x] \in Seq(Content)
  <2>1. packager[p].at \in Writing => g \in Program /\ i \in 1..Len(file) /\ "idle" \notin Writing
    BY ProcessesAreTyped DEF PackagingIInv, StagesAreWritten, Writing
  <2> HIDE DEF i, g
  <2>2. file \in Seq(Content)
    BY DEF PackagingIInv, TypeOK
  <2> HIDE DEF Content
  <2> QED BY <2>1, <2>2
<1>2. ASSUME NEW h \in Program, Start(p, h) PROVE PackagingIInv'
  <2> DEFINE e == [Idle EXCEPT !.at = "open", !.program = h]
  <2>1. e \in [at : {"open"}, program : Program, attempt : 0..Attempts - 1, inode : 0..Len(file)]
    <3>1. 0 \in 0..Attempts - 1 /\ 0 \in 0..Len(file)
      BY PackagedProgramAssumption, ProcessesAreTyped DEF PackagingIInv
    <3>2. Idle \in [at : {"idle"}, program : {None}, attempt : 0..Attempts - 1, inode : 0..Len(file)]
      BY <3>1 DEF Idle
    <3> QED BY <3>2
  <2>2. /\ packager[p].at \in {"idle", "open"} /\ packager' = [packager EXCEPT ![p] = e]
        /\ UNCHANGED <<directory, file, runner>>
    BY <1>2 DEF Start, At, Process
  <2> HIDE DEF e
  <2> QED BY <2>1, <2>2, SearchStep
<1>3. CASE OpenTemporary(p)
  <2>1. CASE directory[Temporary(p)] = 0
    BY <1>3, <2>1, NewInodeStep DEF OpenTemporary, At
  <2>2. CASE directory[Temporary(p)] # 0 /\ packager[p].attempt + 1 < Attempts
    <3> DEFINE e == [packager[p] EXCEPT !.attempt = packager[p].attempt + 1]
    <3>1. /\ packager[p].at = "open" /\ packager' = [packager EXCEPT ![p] = e]
          /\ UNCHANGED <<directory, file, runner>>
      BY <1>3, <2>2 DEF OpenTemporary, At, Process
    <3>2. packager[p] \in [at : {"idle", "open"} \cup Writing, program : Program \cup {None},
                            attempt : 0..Attempts - 1, inode : 0..Len(file)]
          /\ packager[p].program \in Program
      BY <3>1 DEF PackagingIInv, TypeOK, StagesAreWritten
    <3>3. e \in [at : {"open"}, program : Program, attempt : 0..Attempts - 1, inode : 0..Len(file)]
      <4>1. packager[p].attempt + 1 \in 0..Attempts - 1
        BY <2>2, <3>2, PackagedProgramAssumption
      <4> QED BY <3>1, <3>2, <4>1
    <3> HIDE DEF e
    <3> QED BY <3>1, <3>3, SearchStep
  <2>3. CASE directory[Temporary(p)] # 0 /\ ~(packager[p].attempt + 1 < Attempts)
    <3>1. /\ packager[p].at \notin Writing /\ packager' = [packager EXCEPT ![p] = Idle]
          /\ UNCHANGED <<directory, file, runner>>
      BY <1>3, <2>3 DEF OpenTemporary, At, Process, GiveUp, Writing
    <3> QED BY <3>1, ReleaseStep DEF PackagingIInv, TypeOK
  <2> QED BY <2>1, <2>2, <2>3
<1>4. CASE CopyRuntime(p)
  <2> DEFINE e == [f EXCEPT !.pieces = f.pieces \o <<RuntimePiece>>]
  <2>1. /\ packager[p].at = "copy" /\ "copy" \in Writing /\ "payload" \in Writing
        /\ file' = [file EXCEPT ![i] = e]
        /\ packager' = [packager EXCEPT ![p].at = "payload"]
        /\ UNCHANGED <<directory, runner>>
    BY <1>4 DEF CopyRuntime, At, Goto, Write, Process, Writing
  <2>2. e \in Content /\ e.pieces = <<RuntimePiece>>
    <3>1. f.pieces = << >>
      BY <2>1 DEF PackagingIInv, StagesAreWritten
    <3>4. <<RuntimePiece>> \in Seq(Piece)
      <4>1. RuntimePiece \in Piece
        BY DEF Piece
      <4> QED BY <4>1
    <3>2. f \in Content
      BY <1>1, <2>1
    <3> HIDE DEF f
    <3>3. f.pieces \o <<RuntimePiece>> = <<RuntimePiece>>
      BY <3>1, <3>4
    <3> QED BY <3>2, <3>3, <3>4
  <2> HIDE DEF e
  <2> QED BY <2>1, <2>2, WriteStep
<1>5. CASE WritePayload(p)
  <2>1. packager[p].at = "payload" /\ {"payload", "trailer", "remove"} \subseteq Writing
    BY <1>5 DEF WritePayload, At, Writing
  <2>2. PICK n \in 0..Len(Units[g]) :
          /\ file' = [file EXCEPT ![i].pieces = @ \o PiecesOf(SubSeq(Units[g], 1, n))]
          /\ packager' = [packager EXCEPT ![p].at = IF n = Len(Units[g]) THEN "trailer" ELSE "remove"]
    BY <1>5 DEF WritePayload, Write, Goto
  <2> DEFINE part == PiecesOf(SubSeq(Units[g], 1, n))
             e == [f EXCEPT !.pieces = f.pieces \o part]
             l == IF n = Len(Units[g]) THEN "trailer" ELSE "remove"
  <2>3. part \in Seq(Piece) /\ (n = Len(Units[g]) => SubSeq(Units[g], 1, n) = Units[g])
    BY <1>1, <2>1, PartOfPayload
  <2>4. f.pieces = <<RuntimePiece>>
    BY <2>1 DEF PackagingIInv, StagesAreWritten
  <2>5. e \in Content /\ e.pieces = <<RuntimePiece>> \o part
    <3>1. f \in Content
      BY <1>1, <2>1
    <3>2. <<RuntimePiece>> \in Seq(Piece)
      BY DEF Piece
    <3> HIDE DEF part, f
    <3>3. f.pieces \o part \in Seq(Piece)
      BY <2>3, <2>4, <3>2
    <3> QED BY <2>4, <3>1, <3>3
  <2>6. l = "trailer" => part = PiecesOf(Units[g])
    BY <2>3
  <2>7. file' = [file EXCEPT ![i] = e] /\ packager' = [packager EXCEPT ![p].at = l]
    BY <2>2
  <2>8. l \in Writing /\ l \notin {"copy", "payload", "executable", "rename"}
    BY <2>1
  <2> HIDE DEF part, e, l
  <2> QED BY <1>5, <2>1, <2>5, <2>6, <2>7, <2>8, WriteStep DEF WritePayload, Process
<1>6. CASE WriteTrailer(p)
  <2> DEFINE e == [f EXCEPT !.pieces = f.pieces \o <<Trailer(Len(Units[g]))>>]
  <2>1. /\ packager[p].at = "trailer" /\ "trailer" \in Writing /\ "executable" \in Writing
        /\ file' = [file EXCEPT ![i] = e]
        /\ packager' = [packager EXCEPT ![p].at = "executable"]
        /\ UNCHANGED <<directory, runner>>
    BY <1>6 DEF WriteTrailer, At, Goto, Write, Process, Writing
  <2>2. e \in Content /\ e.pieces = Whole(g)
    <3>1. f.pieces = <<RuntimePiece>> \o PiecesOf(Units[g])
      BY <2>1 DEF PackagingIInv, StagesAreWritten
    <3>2. e.pieces = Whole(g)
      BY <1>1, <2>1, <3>1 DEF Whole
    <3> QED BY <1>1, <2>1, <3>2, PiecesAreTyped
  <2> HIDE DEF e
  <2> QED BY <2>1, <2>2, WriteStep
<1>7. CASE MakeExecutable(p)
  <2> DEFINE e == [f EXCEPT !.executable = TRUE]
  <2>1. /\ packager[p].at = "executable" /\ "executable" \in Writing /\ "rename" \in Writing
        /\ file' = [file EXCEPT ![i] = e]
        /\ packager' = [packager EXCEPT ![p].at = "rename"]
        /\ UNCHANGED <<directory, runner>>
    BY <1>7 DEF MakeExecutable, At, Goto, Process, Writing
  <2>2. e \in Content /\ e.executable /\ e.pieces = Whole(g)
    <3>1. f.pieces = Whole(g)
      BY <2>1 DEF PackagingIInv, StagesAreWritten
    <3> QED BY <1>1, <2>1, <3>1
  <2> HIDE DEF e
  <2> QED BY <2>1, <2>2, WriteStep
<1>8. CASE Rename(p)
  BY <1>8, ReleaseStep DEF Rename, At, GiveUp, Process, PackagingIInv, TypeOK
<1>9. CASE Fail(p)
  <2>1. CASE packager[p].at = "open"
    <3>1. GiveUp(p) /\ packager[p].at \notin Writing
      BY <1>9, <2>1 DEF Fail, Writing
    <3> QED BY <1>9, <3>1, ReleaseStep DEF Fail, GiveUp, Process, PackagingIInv, TypeOK
  <2>2. CASE packager[p].at # "open"
    <3>1. packager[p].at \in Writing /\ "remove" \in Writing
      BY <1>9, <2>2 DEF Fail, At, Writing
    <3>2. file' = [file EXCEPT ![i] = f]
      <4>1. file \in Seq(Content) /\ i \in 1..Len(file)
        BY <1>1, <3>1 DEF PackagingIInv, TypeOK
      <4>2. file' = file
        BY <1>9 DEF Fail
      <4> HIDE DEF i, Content
      <4> QED BY <4>1, <4>2
    <3>3. packager' = [packager EXCEPT ![p].at = "remove"] /\ UNCHANGED <<directory, runner>>
      BY <1>9, <2>2 DEF Fail, At, Goto, Process
    <3> QED BY <1>1, <3>1, <3>2, <3>3, WriteStep
  <2> QED BY <2>1, <2>2
<1>10. CASE RemoveTemporary(p)
  <2>1. packager[p].at \in Writing
    BY <1>10 DEF RemoveTemporary, At, Writing
  <2> QED BY <1>10, <2>1, ReleaseStep DEF RemoveTemporary, GiveUp, Process, PackagingIInv, TypeOK
<1>11. CASE NoMemory(p) \/ Kill(p)
  BY <1>11, ReleaseStep DEF NoMemory, Kill, GiveUp, Process
<1> QED BY <1>2, <1>3, <1>4, <1>5, <1>6, <1>7, <1>8, <1>9, <1>10, <1>11

LEMMA RunnerPreservesIInv ==
  ASSUME PackagingIInv, NEW r \in Runner, Exec(r) \/ SelfPath(r) \/ ReadAndRun(r) \/ Exit(r)
  PROVE  PackagingIInv'
<1> DEFINE State == [at : {"idle", "path", "read", "run"}, image : 0..Len(file), units : Seq(Piece)]
<1>1. runner[r] \in State /\ directory[Output] \in 0..Len(file) /\ Stopped \in State
      /\ Stopped.at = "idle"
  <2>1. Len(file) \in Nat
    BY ProcessesAreTyped DEF PackagingIInv
  <2> QED BY <2>1 DEF PackagingIInv, TypeOK, Path, Stopped
<1>2. CASE Exec(r)
  <2> DEFINE e == [Stopped EXCEPT !.at = "path", !.image = directory[Output]]
  <2>1. e \in State /\ e.at = "path"
    BY <1>1 DEF Stopped
  <2> HIDE DEF e
  <2>2. directory[Output] # 0 /\ runner' = [runner EXCEPT ![r] = e] /\ Files
    BY <1>2 DEF Exec, e
  <2> QED BY <2>1, <2>2, RunnerStep
<1>3. CASE SelfPath(r)
  <2> DEFINE e == IF directory[Output] = runner[r].image THEN [runner[r] EXCEPT !.at = "read"] ELSE Stopped
  <2>1. e \in State /\ e.at # "run"
    BY <1>1
  <2>2. directory[Output] # 0
    BY <1>3 DEF PackagingIInv, OutputStays, SelfPath, RunnerAt
  <2> HIDE DEF e
  <2>3. runner' = [runner EXCEPT ![r] = e] /\ Files
    BY <1>3 DEF SelfPath, e
  <2> QED BY <2>1, <2>2, <2>3, RunnerStep
<1>4. CASE ReadAndRun(r)
  <2> DEFINE units == PayloadOf(file[directory[Output]].pieces)
             e == IF units = << >> THEN Stopped ELSE [runner[r] EXCEPT !.at = "run", !.units = units]
  <2>1. directory[Output] # 0
    BY <1>4 DEF PackagingIInv, OutputStays, ReadAndRun, RunnerAt
  <2>2. PICK g \in Program : file[directory[Output]].pieces = Whole(g)
    BY <2>1 DEF PackagingIInv, OutputIsWhole, Complete
  <2>3. units = PiecesOf(Units[g]) /\ units # << >> /\ units \in Seq(Piece)
    BY <2>2, WholeIsReadBack, PiecesAreTyped
  <2> HIDE DEF units
  <2>4. e \in State /\ e.units = units
    BY <1>1, <2>3
  <2>5. runner' = [runner EXCEPT ![r] = e] /\ Files
    BY <1>4 DEF ReadAndRun, units
  <2> HIDE DEF e
  <2> QED BY <2>1, <2>3, <2>4, <2>5, RunnerStep
<1>5. CASE Exit(r)
  BY <1>1, <1>5, RunnerStep DEF Exit
<1> QED BY <1>2, <1>3, <1>4, <1>5

LEMMA NextPreservesPackagingIInv == PackagingIInv /\ [Next]_vars => PackagingIInv'
<1> SUFFICES ASSUME PackagingIInv, [Next]_vars PROVE PackagingIInv'
  OBVIOUS
<1>1. CASE UNCHANGED vars
  BY <1>1 DEF vars, PackagingIInv, TypeOK, StagesAreWritten, WritersOwnTheirFile, OutputIsWhole, Complete,
              OutputStays, RunsWholePrograms, Temporary
<1>2. CASE Next
  BY <1>2, PackagerPreservesIInv, RunnerPreservesIInv DEF Next
<1> QED BY <1>1, <1>2

(* The inductive invariant holds in every reachable state.                 *)
THEOREM PackagingInvariance == Spec => []PackagingIInv
BY InitPackagingIInv, NextPreservesPackagingIInv, PTL DEF Spec

(* The directory, its files and the processes keep their types.            *)
THEOREM PackagingTypeCorrect == Spec => []TypeOK
<1>1. PackagingIInv => TypeOK
  BY DEF PackagingIInv
<1> QED BY <1>1, PackagingInvariance, PTL

(* A packager's temporary file is its own until it moves or removes it,    *)
(* even when processes share a pid (openTemporaryOutput).                  *)
THEOREM WritersAlwaysOwnTheirFile == Spec => []WritersOwnTheirFile
<1>1. PackagingIInv => WritersOwnTheirFile
  BY DEF PackagingIInv
<1> QED BY <1>1, PackagingInvariance, PTL

(* The output is a whole executable program at every moment, whatever      *)
(* packagers fail at or are killed in (packagedWrite).                     *)
THEOREM OutputIsAlwaysWhole == Spec => []OutputIsWhole
<1>1. PackagingIInv => OutputIsWhole
  BY DEF PackagingIInv
<1> QED BY <1>1, PackagingInvariance, PTL

(* A started program runs all units of one program, in order (main of      *)
(* runtime.c), although it opens its own file again by name.               *)
THEOREM OnlyWholeProgramsRun == Spec => []RunsWholePrograms
<1>1. PackagingIInv => RunsWholePrograms
  BY DEF PackagingIInv
<1> QED BY <1>1, PackagingInvariance, PTL

----------------------------------------------------------------------------
(* Sessions.                                                               *)

----------------------------------------------------------------------------
(* What the statements of a line look like.                                *)

Known == Type \cup {"unit"}

(* A function once its body is compiled.                                   *)
CompiledFun ==
  {[op |-> "fun", name |-> f, type |-> b.type, body |-> b, free |-> names] :
     f \in Fun, b \in Body, names \in SUBSET Name}

Item == Statement \cup CompiledFun
IsCompiled(s) == s.op = "fun" => s \in CompiledFun

(* The name a statement gives a value, and the name it fixes.              *)
Targets(s) == IF s.op \in {"let", "var", "assign", "fun"} THEN {s.name} ELSE {}
Fixes(s) == IF s.op \in {"let", "fun"} THEN {s.name} ELSE {}

(* A body assigns only what it was allowed to.                             *)
WithinFree(b, free) == b.op = "set" => b.name \in free

----------------------------------------------------------------------------
(* The inductive invariant.                                                *)

Globals(g) ==
  /\ g \in [Name -> Value \cup {UnitValue, Undefined} \cup Closure]
  /\ \A x \in Var : g[x] \in Value \cup {UnitValue, Undefined}
  /\ \A f \in Fun : g[f] \in Closure \cup {Undefined}

Shape ==
  /\ types \in [Name -> Known \cup {Unknown}]
  /\ Globals(globals)
  /\ immutable \in SUBSET Name
  /\ line \in Seq(Item)
  /\ phase \in {"read", "check", "compile", "run"}
  /\ pc \in 1..Len(line) + 1
  /\ bad \in BOOLEAN /\ doubt \in BOOLEAN
  /\ phase = "compile" => \A i \in 1..pc - 1 : IsCompiled(line[i])
  /\ phase = "run" => \A i \in 1..Len(line) : IsCompiled(line[i])

(* What the checker found of a statement, against the types it knows.      *)
TypeOf(t, e) == IF e.from = "literal" THEN e.value.type ELSE t[e.name]

BodySound(t, b) ==
  /\ b.op = "get" => t[b.name] = b.type
  /\ b.op = "set" => t[b.name] = b.value.type

Sound(t, s) ==
  /\ s.op \in {"let", "var"} => t[s.name] = s.type /\ TypeOf(t, s.expr) = s.type
  /\ s.op = "assign" => t[s.name] # Unknown /\ TypeOf(t, s.expr) = t[s.name]
  /\ s.op = "fun" => t[s.name] = s.type /\ BodySound(t, s.body)

GlobalSound(t, g, n) ==
  g[n] # Undefined => g[n].type = t[n] /\ (n \in Fun => BodySound(t, g[n].body))

Typed ==
  /\ \A n \in Name : GlobalSound(types, globals, n)
  /\ phase = "check" => \A i \in 1..Len(line) :
       line[i].op = "fun" => types[line[i].name] = line[i].type
  /\ phase = "check" /\ ~bad => \A i \in 1..pc - 1 : Sound(types, line[i])
  /\ phase \in {"compile", "run"} => \A i \in 1..Len(line) : Sound(types, line[i])

(* What the compiler made sure of, and what became of it at run time.      *)
Closed(s) == s.op = "fun" => WithinFree(s.body, s.free)

Settled(i) ==
  /\ Closed(line[i])
  /\ Targets(line[i]) \cap fixed = {}
  /\ Fixes(line[i]) \subseteq immutable

InOrder(i, j) == i < j => Fixes(line[i]) \cap Targets(line[j]) = {}

FunctionsWithin(g) == \A f \in Fun : g[f] # Undefined => WithinFree(g[f].body, g[f].free)

Fixing ==
  /\ fixed \subseteq immutable
  /\ \A n \in fixed : globals[n] # Undefined
  /\ FunctionsWithin(globals)
  /\ phase = "compile" /\ ~bad =>
       /\ \A i \in 1..pc - 1 : Settled(i)
       /\ \A i, j \in 1..pc - 1 : InOrder(i, j)
  /\ phase = "run" =>
       /\ \A i \in pc..Len(line) : Settled(i)
       /\ \A i, j \in pc..Len(line) : InOrder(i, j)

SessionIInv == Shape /\ (~doubt => Typed) /\ Fixing

----------------------------------------------------------------------------
(* Facts about the data.                                                   *)

LEMMA TypesDiffer ==
  /\ \A x \in Var : x \notin Fun
  /\ \A t \in Known : t # Unknown
  /\ \A v \in Value : v # Undefined /\ v.type \in Type
  /\ UnitValue # Undefined /\ UnitValue.type = "unit"
  /\ \A c \in Closure : c # Undefined
BY SessionAssumption DEF Known, Type, UnitValue

LEMMA BodyFields ==
  ASSUME NEW b \in Body
  PROVE  /\ b.op \in {"get", "set"} /\ b.name \in Var /\ b.type \in Known
         /\ b.op = "get" => b.type \in Type
         /\ b.op = "set" => b.type = "unit" /\ b.value \in Value
<1>1. CASE \E x \in Var, t \in Type : b = [op |-> "get", name |-> x, type |-> t]
  BY <1>1 DEF Known
<1>2. CASE \E x \in Var, v \in Value :
             b = [op |-> "set", name |-> x, type |-> "unit", value |-> v]
  BY <1>2 DEF Known
<1> QED BY <1>1, <1>2 DEF Body

LEMMA ClosureFields ==
  ASSUME NEW c \in Closure
  PROVE  c.body \in Body /\ c.type = c.body.type /\ c.free \in SUBSET Name
BY DEF Closure

LEMMA ClosureIs ==
  ASSUME NEW b \in Body, NEW free \in SUBSET Name
  PROVE  [type |-> b.type, body |-> b, free |-> free] \in Closure
BY DEF Closure

LEMMA CompiledFunIs ==
  ASSUME NEW f \in Fun, NEW b \in Body, NEW free \in SUBSET Name
  PROVE  [op |-> "fun", name |-> f, type |-> b.type, body |-> b, free |-> free] \in CompiledFun
BY DEF CompiledFun

LEMMA ExprFields ==
  ASSUME NEW e \in Expr
  PROVE  /\ e.from \in {"literal", "global", "call"}
         /\ e.from = "literal" => e.value \in Value
         /\ e.from = "global" => e.name \in Var
         /\ e.from = "call" => e.name \in Fun
BY DEF Expr, Literal, Global, Call

LEMMA DeclarationFields ==
  ASSUME NEW s \in Statement
  PROVE  /\ s.op \in {"let", "var", "assign", "fun", "call", "fail"}
         /\ s.op \in {"let", "var"} => s.name \in Var /\ s.type \in Type /\ s.expr \in Expr
         /\ s.op = "assign" => s.name \in Var /\ s.expr \in Expr
         /\ s.op = "fun" => s.name \in Fun /\ s.body \in Body /\ s.type = s.body.type
         /\ s.op = "call" => s.name \in Fun /\ s.expr = Call(s.name)
<1>1. CASE \E o \in {"let", "var"}, x \in Var, t \in Type, e \in Expr :
             s = [op |-> o, name |-> x, type |-> t, expr |-> e]
  BY <1>1
<1>2. CASE \E x \in Var, e \in Expr : s = [op |-> "assign", name |-> x, expr |-> e]
  BY <1>2
<1>3. CASE \E f \in Fun, b \in Body :
             s = [op |-> "fun", name |-> f, type |-> b.type, body |-> b]
  BY <1>3
<1>4. CASE \E f \in Fun : s = [op |-> "call", name |-> f, expr |-> Call(f)]
  BY <1>4
<1>5. CASE s = [op |-> "fail"]
  BY <1>5
<1> QED BY <1>1, <1>2, <1>3, <1>4, <1>5 DEF Statement

LEMMA CompiledFields ==
  ASSUME NEW s \in CompiledFun
  PROVE  /\ s.op = "fun" /\ s.name \in Fun /\ s.body \in Body /\ s.type = s.body.type
         /\ s.free \in SUBSET Name
BY DEF CompiledFun

LEMMA ItemFields ==
  ASSUME NEW s \in Item
  PROVE  /\ s.op \in {"let", "var", "assign", "fun", "call", "fail"}
         /\ s.op \in {"let", "var"} => s.name \in Var /\ s.type \in Type /\ s.expr \in Expr
         /\ s.op = "assign" => s.name \in Var /\ s.expr \in Expr
         /\ s.op = "fun" => s.name \in Fun /\ s.body \in Body /\ s.type = s.body.type
         /\ s.op = "call" => s.name \in Fun /\ s.expr = Call(s.name)
<1>1. CASE s \in Statement
  BY <1>1, DeclarationFields
<1>2. CASE s \in CompiledFun
  BY <1>2, CompiledFields
<1> QED BY <1>1, <1>2 DEF Item

----------------------------------------------------------------------------
(* Hoisting keeps the statements.                                          *)

LEMMA OfKindKeeps ==
  ASSUME NEW D, NEW l, NEW n \in Nat, Len(l) = n, \A i \in 1..n : l[i] \in D, NEW ops
  PROVE  OfKind(l, ops) \in Seq(D)
<1> DEFINE F == [i \in Nat |-> [x \in Seq(D) |->
                   IF i \in 1..n /\ l[i].op \in ops THEN Append(x, l[i]) ELSE x]]
           r == CHOOSE r : r = [i \in 0..Len(l) |->
                  IF i = 0 THEN << >>
                  ELSE IF l[i].op \in ops THEN Append(r[i - 1], l[i]) ELSE r[i - 1]]
<1>1. OfKind(l, ops) = r[n]
  BY DEF OfKind
<1>2. F \in [Nat -> [Seq(D) -> Seq(D)]]
  OBVIOUS
<1> HIDE DEF F, r
<1>3. PICK f \in [0..n -> Seq(D)] : IsRecursion(f, n, << >>, F)
  <2>1. << >> \in Seq(D)
    OBVIOUS
  <2> QED BY <1>2, <2>1, RecursionExists
<1>4. ASSUME NEW i \in 0..n
      PROVE  f[i] = IF i = 0 THEN << >>
                    ELSE IF l[i].op \in ops THEN Append(f[i - 1], l[i]) ELSE f[i - 1]
  <2>1. CASE i = 0
    BY <1>3, <2>1 DEF IsRecursion
  <2>2. CASE i # 0
    <3>1. i \in 1..n /\ i - 1 \in 0..n /\ i \in Nat
      BY <2>2
    <3>2. f[i - 1] \in Seq(D)
      BY <1>3, <3>1
    <3>3. f[i] = F[i][f[i - 1]]
      BY <1>3, <3>1 DEF IsRecursion
    <3>4. F[i][f[i - 1]] = IF l[i].op \in ops THEN Append(f[i - 1], l[i]) ELSE f[i - 1]
      BY <3>1, <3>2 DEF F
    <3> QED BY <2>2, <3>3, <3>4
  <2> QED BY <2>1, <2>2
<1>5. f = [i \in 0..Len(l) |->
             IF i = 0 THEN << >>
             ELSE IF l[i].op \in ops THEN Append(f[i - 1], l[i]) ELSE f[i - 1]]
  <2>1. f = [i \in 0..n |-> f[i]]
    BY <1>3
  <2> QED BY <1>4, <2>1
<1>6. r = [i \in 0..Len(l) |->
             IF i = 0 THEN << >>
             ELSE IF l[i].op \in ops THEN Append(r[i - 1], l[i]) ELSE r[i - 1]]
  BY <1>5 DEF r
<1>7. r[0] \in Seq(D)
  BY <1>6
<1>8. ASSUME NEW i \in 1..n, r[i - 1] \in Seq(D)
      PROVE  r[i] \in Seq(D)
  <2>1. i \in 0..Len(l) /\ i # 0
    OBVIOUS
  <2>2. r[i] = IF l[i].op \in ops THEN Append(r[i - 1], l[i]) ELSE r[i - 1]
    BY <1>6, <2>1
  <2> QED BY <1>8, <2>2
<1>9. \A i \in 0..n : r[i] \in Seq(D)
  BY <1>7, <1>8, StaysInside
<1> QED BY <1>1, <1>9

LEMMA HoistedKeeps ==
  ASSUME NEW D, NEW l \in Seq(Item), \A i \in 1..Len(l) : l[i] \in D
  PROVE  Hoisted(l) \in Seq(D)
<1>1. Len(l) \in Nat
  OBVIOUS
<1>2. /\ OfKind(l, {"fun"}) \in Seq(D)
      /\ OfKind(l, {"let", "var", "assign", "call", "fail"}) \in Seq(D)
  BY <1>1, OfKindKeeps
<1> QED BY <1>2 DEF Hoisted

----------------------------------------------------------------------------
(* What a step works on, and what it does to the globals.                  *)

LEMMA CurrentItem ==
  ASSUME Shape, pc <= Len(line)
  PROVE  pc \in 1..Len(line) /\ Len(line) \in Nat /\ Current \in Item
BY DEF Shape, Current

LEMMA GlobalKinds ==
  ASSUME NEW g, Globals(g), NEW n \in Name, g[n] # Undefined
  PROVE  /\ g[n].type \in Known
         /\ n \in Var => g[n] \in Value \cup {UnitValue}
         /\ n \in Fun => g[n] \in Closure
<1>1. CASE n \in Var
  <2>1. g[n] \in Value \cup {UnitValue}
    BY <1>1 DEF Globals
  <2> QED BY <1>1, <2>1, TypesDiffer DEF Known
<1>2. CASE n \in Fun
  <2>1. g[n] \in Closure
    BY <1>2 DEF Globals
  <2> QED BY <1>2, <2>1, TypesDiffer, ClosureFields, BodyFields
<1> QED BY <1>1, <1>2 DEF Name

LEMMA CalledBody ==
  ASSUME Shape, NEW e \in Expr, e.from = "call", ~Stops(e)
  PROVE  /\ e.name \in Fun /\ globals[e.name] \in Closure /\ globals[e.name] # Undefined
         /\ BodyOf(e) \in Body /\ BodyOf(e).name \in Var
         /\ globals[BodyOf(e).name] \in Value \cup {UnitValue}
<1>1. e.name \in Fun /\ e.name \in Name
  BY ExprFields DEF Name
<1>2. globals[e.name] # Undefined /\ globals[BodyOf(e).name] # Undefined
  BY DEF Stops, BodyOf
<1>3. globals[e.name] \in Closure
  BY <1>1, <1>2, GlobalKinds DEF Shape
<1>4. BodyOf(e) \in Body
  BY <1>3, ClosureFields DEF BodyOf
<1>5. BodyOf(e).name \in Var /\ BodyOf(e).name \in Name
  BY <1>4, BodyFields DEF Name
<1>6. globals[BodyOf(e).name] \in Value \cup {UnitValue}
  BY <1>2, <1>5, GlobalKinds DEF Shape
<1> QED BY <1>1, <1>2, <1>3, <1>4, <1>5, <1>6

(* After(e) differs from globals at most in the variable that the called   *)
(* function assigns.                                                       *)
LEMMA AfterGlobals ==
  ASSUME Shape, NEW e \in Expr, ~Stops(e)
  PROVE  \/ After(e) = globals
         \/ /\ e.from = "call" /\ BodyOf(e).op = "set"
            /\ BodyOf(e).name \in Var /\ BodyOf(e).value \in Value
            /\ After(e) = [globals EXCEPT ![BodyOf(e).name] = BodyOf(e).value]
<1>1. CASE e.from = "call" /\ BodyOf(e).op = "set"
  <2>1. BodyOf(e) \in Body
    BY <1>1, CalledBody
  <2> QED BY <1>1, <2>1, BodyFields DEF After
<1>2. CASE ~(e.from = "call" /\ BodyOf(e).op = "set")
  BY <1>2 DEF After
<1> QED BY <1>1, <1>2

(* A variable gets a value.                                                *)
LEMMA AssignedGlobals ==
  ASSUME NEW g, Globals(g), NEW x \in Var, NEW v \in Value \cup {UnitValue}
  PROVE  Globals([g EXCEPT ![x] = v])
BY TypesDiffer DEF Globals, Name

LEMMA AfterIsGlobals ==
  ASSUME Shape, NEW e \in Expr, ~Stops(e)
  PROVE  Globals(After(e))
<1>1. Globals(globals)
  BY DEF Shape
<1> QED BY <1>1, AfterGlobals, AssignedGlobals

LEMMA ResultValue ==
  ASSUME Shape, NEW e \in Expr, ~Stops(e)
  PROVE  Result(e) \in Value \cup {UnitValue}
<1>1. CASE e.from = "literal"
  <2>1. e.value \in Value
    BY <1>1, ExprFields
  <2> QED BY <1>1, <2>1 DEF Result
<1>2. CASE e.from = "global"
  <2>1. e.name \in Var /\ e.name \in Name /\ globals[e.name] # Undefined
    BY <1>2, ExprFields DEF Name, Stops
  <2>2. globals[e.name] \in Value \cup {UnitValue}
    BY <2>1, GlobalKinds DEF Shape
  <2> QED BY <1>2, <2>2 DEF Result
<1>3. CASE e.from = "call"
  BY <1>3, CalledBody DEF Result
<1> QED BY <1>1, <1>2, <1>3, ExprFields

----------------------------------------------------------------------------
(* The shape of the state.                                                 *)

LEMMA ShapeHolds ==
  ASSUME Shape, [SessionNext]_session
  PROVE  Shape'
<1> USE DEF Shape
<1>0. CASE UNCHANGED session
  BY <1>0 DEF session, Globals
<1>1. ASSUME Dismiss, UNCHANGED <<types, immutable, doubt>>, Globals(globals)' PROVE Shape'
  <2>1. line' \in Seq(Item) /\ pc' \in 1..Len(line') + 1
    BY <1>1 DEF Dismiss
  <2> QED BY <1>1, <2>1 DEF Dismiss
<1>2. ASSUME Step, Running, Globals(globals)', InPhase("run") PROVE Shape'
  <2>1. pc' \in 1..Len(line') + 1
    BY <1>2 DEF Step, InPhase
  <2>2. /\ phase' = "compile" => \A i \in 1..pc' - 1 : IsCompiled(line'[i])
        /\ phase' = "run" => \A i \in 1..Len(line') : IsCompiled(line'[i])
    BY <1>2 DEF Step, InPhase
  <2> QED BY <1>2, <2>1, <2>2 DEF Step, Running
<1>19. ASSUME InPhase("compile"), line' = line, Current.op # "fun", immutable' \in SUBSET Name,
              NEW ok, NEW names, Compiled(ok, names)
       PROVE  Shape'
  <2>1. pc' \in 1..Len(line') + 1 /\ bad' \in BOOLEAN
    BY <1>19 DEF Compiled, InPhase
  <2>2. ASSUME NEW i \in 1..pc' - 1 PROVE IsCompiled(line'[i])
    <3>1. CASE i = pc
      BY <1>19, <3>1 DEF Current, IsCompiled
    <3>2. CASE i # pc
      <4>1. i \in 1..pc - 1
        BY <1>19, <3>2 DEF Compiled
      <4> QED BY <1>19, <4>1 DEF InPhase
    <3> QED BY <3>1, <3>2
  <2>3. Globals(globals)'
    BY <1>19 DEF Compiled, Globals
  <2> QED BY <1>19, <2>1, <2>2, <2>3 DEF Compiled, InPhase
<1>3. CASE Read
  <2>1. PICK n \in 1..MaxLine : line' \in [1..n -> Statement]
    BY <1>3 DEF Read
  <2>2. n \in Nat /\ line' \in Seq(Statement) /\ Len(line') = n
    BY <2>1
  <2>3. line' \in Seq(Item)
    BY <2>2 DEF Item
  <2>4. types' \in [Name -> Known \cup {Unknown}]
    <3>1. ASSUME NEW m \in Name PROVE Signatures(line')[m] \in Known \cup {Unknown}
      <4> DEFINE declaring == {i \in DOMAIN line' : IsFun(line'[i]) /\ line'[i].name = m}
      <4>1. CASE declaring = {}
        BY <4>1 DEF Signatures
      <4>2. CASE declaring # {}
        <5>1. DOMAIN line' = 1..n
          BY <2>1
        <5>2. declaring \in SUBSET (0..n)
          BY <5>1
        <5>3. PICK k \in declaring : \A j \in declaring : j <= k
          BY <2>2, <4>2, <5>2, LargestNatural
        <5> DEFINE c == CHOOSE i \in declaring : \A j \in declaring : j <= i
        <5>4. c \in declaring
          BY <5>3
        <5>5. Signatures(line')[m] = line'[c].type
          BY <4>2 DEF Signatures
        <5>6. line'[c] \in Statement /\ line'[c].op = "fun"
          BY <2>1, <5>1, <5>4 DEF IsFun
        <5> QED BY <5>5, <5>6, DeclarationFields, BodyFields
      <4> QED BY <4>1, <4>2
    <3>2. types' = Signatures(line') /\ Signatures(line') = [m \in Name |-> Signatures(line')[m]]
      <4>1. types' = Signatures(line')
        BY <1>3 DEF Read
      <4>2. \A l : Signatures(l) = [m \in Name |-> Signatures(l)[m]]
        BY DEF Signatures
      <4> QED BY <4>1, <4>2
    <3> QED BY <3>1, <3>2
  <2>5. doubt' \in BOOLEAN /\ bad' \in BOOLEAN /\ phase' = "check" /\ pc' = 1
    BY <1>3 DEF Read
  <2>6. UNCHANGED <<immutable, globals>>
    BY <1>3 DEF Read
  <2> QED BY <2>2, <2>3, <2>4, <2>5, <2>6
<1>4. CASE CheckDeclaration
  <2>1. Current \in Item /\ Current.type \in Known
    BY <1>4, CurrentItem, ItemFields DEF CheckDeclaration, InPhase, Known
  <2>2. types' \in [Name -> Known \cup {Unknown}]
    BY <1>4, <2>1 DEF CheckDeclaration
  <2>3. Checked(Accepts(Current.type, Current.expr),
                /\ Inferred(Current.expr) # Unknown
                /\ types[Current.name] \in {Unknown, Current.type}) /\ InPhase("check")
    BY <1>4 DEF CheckDeclaration
  <2> QED BY <2>2, <2>3 DEF InPhase, Checked
<1>5. CASE CheckAssignment
  BY <1>5 DEF CheckAssignment, InPhase, Checked
<1>6. CASE CheckFunction
  BY <1>6 DEF CheckFunction, InPhase, Checked
<1>7. CASE CheckOther
  BY <1>7 DEF CheckOther, InPhase, Checked
<1>8. CASE EndCheck
  <2>1. CASE bad
    BY <1>1, <1>8, <2>1 DEF EndCheck, memory
  <2>2. CASE ~bad
    <3>1. Hoisted(line) \in Seq(Item)
      BY HoistedKeeps
    <3>2. line' \in Seq(Item) /\ phase' = "compile" /\ pc' = 1 /\ bad' = FALSE
          /\ UNCHANGED <<types, immutable, globals, doubt>>
      BY <1>8, <2>2, <3>1 DEF EndCheck, memory
    <3>3. Globals(globals)'
      BY <3>2 DEF Globals
    <3>4. pc' \in 1..Len(line') + 1 /\ 1..pc' - 1 = {}
      BY <3>2
    <3> QED BY <3>2, <3>3, <3>4
  <2> QED BY <2>1, <2>2
<1>9. CASE CompileDeclaration
  <2>1. Current \in Item /\ Current.name \in Name
    BY <1>9, CurrentItem, ItemFields DEF CompileDeclaration, InPhase, Name
  <2>2. Compiled(Current.name \notin immutable,
                 IF Current.op = "let" THEN {Current.name} ELSE {})
    BY <1>9 DEF CompileDeclaration
  <2> QED BY <1>9, <1>19, <2>1, <2>2 DEF CompileDeclaration, Compiled
<1>10. CASE CompileAssignment
  <2>1. Compiled(Current.name \notin immutable, {})
    BY <1>10 DEF CompileAssignment
  <2> QED BY <1>10, <1>19, <2>1 DEF CompileAssignment, Compiled
<1>11. CASE CompileFunction
  <2>1. pc \in 1..Len(line) /\ Current \in Item /\ Current.op = "fun"
    BY <1>11, CurrentItem DEF CompileFunction, InPhase
  <2>2. Current.name \in Fun /\ Current.body \in Body /\ Current.type = Current.body.type
    BY <2>1, ItemFields
  <2> DEFINE s == [op |-> "fun", name |-> Current.name, type |-> Current.type,
                   body |-> Current.body, free |-> Name \ (immutable \cup {Current.name})]
  <2>3. s \in CompiledFun
    <3>1. Name \ (immutable \cup {Current.name}) \in SUBSET Name
      OBVIOUS
    <3> DEFINE free == Name \ (immutable \cup {Current.name})
    <3> HIDE DEF free
    <3>2. [op |-> "fun", name |-> Current.name, type |-> Current.body.type,
           body |-> Current.body, free |-> free] \in CompiledFun
      BY <2>2, <3>1, CompiledFunIs DEF free
    <3> QED BY <2>2, <3>2 DEF free
  <2>4. line' = [line EXCEPT ![pc] = s]
    BY <1>11 DEF CompileFunction, Current
  <2> HIDE DEF s
  <2>5. line' \in Seq(Item) /\ Len(line') = Len(line)
    BY <2>1, <2>3, <2>4 DEF Item
  <2>6. Current.name \in Name
    BY <2>2 DEF Name
  <2>7. pc' = pc + 1 /\ phase' = "compile" /\ UNCHANGED <<types, globals, doubt>>
        /\ bad' \in BOOLEAN /\ immutable' \in SUBSET Name
    BY <1>11, <2>6 DEF CompileFunction, Compiled, InPhase
  <2>8. ASSUME NEW i \in 1..pc' - 1 PROVE IsCompiled(line'[i])
    <3>1. CASE i = pc
      BY <2>1, <2>3, <2>4, <3>1 DEF IsCompiled
    <3>2. CASE i # pc
      <4>1. i \in 1..pc - 1 /\ line'[i] = line[i] /\ phase = "compile"
        BY <1>11, <2>1, <2>4, <2>7, <3>2 DEF CompileFunction, InPhase
      <4> QED BY <4>1
    <3> QED BY <3>1, <3>2
  <2>9. Globals(globals)'
    BY <2>7 DEF Globals
  <2> QED BY <2>1, <2>5, <2>7, <2>8, <2>9
<1>12. CASE CompileOther
  <2>1. Compiled(TRUE, {})
    BY <1>12 DEF CompileOther
  <2> QED BY <1>12, <1>19, <2>1 DEF CompileOther, Compiled
<1>13. CASE EndCompile
  <2>1. CASE bad
    BY <1>1, <1>13, <2>1 DEF EndCompile, memory
  <2>2. CASE ~bad
    BY <1>13, <2>2 DEF EndCompile, memory
  <2> QED BY <2>1, <2>2
<1>14. CASE RunDeclaration
  <2>1. Current \in Item /\ Current.name \in Var /\ Current.expr \in Expr
    BY <1>14, CurrentItem, ItemFields DEF RunDeclaration, InPhase
  <2>2. Globals([After(Current.expr) EXCEPT ![Current.name] = Result(Current.expr)])
    BY <1>14, <2>1, AfterIsGlobals, ResultValue, AssignedGlobals DEF RunDeclaration
  <2>3. Globals(globals)'
    BY <1>14, <2>2 DEF RunDeclaration, Globals
  <2> QED BY <1>2, <1>14, <2>3 DEF RunDeclaration, InPhase
<1>15. CASE RunAssignment
  <2>1. Current \in Item /\ Current.name \in Var /\ Current.expr \in Expr
    BY <1>15, CurrentItem, ItemFields DEF RunAssignment, InPhase
  <2>2. /\ Globals([After(Current.expr) EXCEPT ![Current.name] = Result(Current.expr)])
        /\ Globals(After(Current.expr))
    BY <1>15, <2>1, AfterIsGlobals, ResultValue, AssignedGlobals DEF RunAssignment
  <2>3. Globals(globals)'
    BY <1>15, <2>2 DEF RunAssignment, Globals
  <2>4. CASE Dismiss
    BY <1>1, <1>15, <2>3, <2>4 DEF RunAssignment, Running
  <2>5. CASE Step
    BY <1>2, <1>15, <2>3, <2>5 DEF RunAssignment, InPhase
  <2> QED BY <1>15, <2>4, <2>5 DEF RunAssignment
<1>16. CASE RunFunction
  <2> DEFINE c == [type |-> Current.type, body |-> Current.body, free |-> Current.free]
  <2>1. pc \in 1..Len(line) /\ Current \in CompiledFun
    BY <1>16, CurrentItem DEF RunFunction, InPhase, IsCompiled, Current
  <2>2. Current.name \in Fun /\ c \in Closure
    <3>1. /\ Current.name \in Fun /\ Current.type = Current.body.type
          /\ Current.body \in Body /\ Current.free \in SUBSET Name
      BY <2>1, CompiledFields
    <3>2. [type |-> Current.body.type, body |-> Current.body, free |-> Current.free] \in Closure
      BY <3>1, ClosureIs
    <3> QED BY <3>1, <3>2
  <2> HIDE DEF c
  <2>3. globals' = [globals EXCEPT ![Current.name] = c]
    BY <1>16 DEF RunFunction, c
  <2>4. Globals(globals)'
    BY <2>2, <2>3, TypesDiffer DEF Globals, Name
  <2> QED BY <1>2, <1>16, <2>4 DEF RunFunction, InPhase
<1>17. CASE RunCall
  <2>1. Current \in Item /\ Current.expr \in Expr
    BY <1>17, CurrentItem, ItemFields DEF RunCall, InPhase, Expr
  <2>2. Globals(globals)'
    BY <1>17, <2>1, AfterIsGlobals DEF RunCall, Globals
  <2> QED BY <1>2, <1>17, <2>2 DEF RunCall, InPhase
<1>18. CASE RuntimeError \/ EndRun
  <2>1. Globals(globals)'
    BY <1>18 DEF RuntimeError, EndRun, memory
  <2> QED BY <1>1, <1>18, <2>1 DEF RuntimeError, EndRun, memory
<1> QED BY <1>0, <1>3, <1>4, <1>5, <1>6, <1>7, <1>8, <1>9, <1>10, <1>11, <1>12, <1>13,
           <1>14, <1>15, <1>16, <1>17, <1>18 DEF SessionNext

----------------------------------------------------------------------------
(* What is sound for some types stays so when the checker learns more.     *)

Grows(t, u) == \A n \in Name : t[n] = Unknown \/ u[n] = t[n]

LEMMA BodySoundGrows ==
  ASSUME NEW t, NEW u, Grows(t, u), NEW b \in Body, BodySound(t, b)
  PROVE  BodySound(u, b)
<1>1. b.name \in Name
  BY BodyFields DEF Name
<1>2. b.op = "get" => b.type # Unknown
  BY BodyFields, TypesDiffer
<1>3. b.op = "set" => b.value.type # Unknown
  BY BodyFields, TypesDiffer DEF Known
<1> QED BY <1>1, <1>2, <1>3 DEF Grows, BodySound

LEMMA SoundGrows ==
  ASSUME NEW t, NEW u, Grows(t, u), NEW s \in Item, Sound(t, s)
  PROVE  Sound(u, s)
<1>1. ASSUME NEW e \in Expr, TypeOf(t, e) # Unknown
      PROVE  TypeOf(u, e) = TypeOf(t, e)
  <2>1. e.from = "literal" \/ e.name \in Name
    BY ExprFields DEF Name
  <2> QED BY <1>1, <2>1 DEF TypeOf, Grows
<1>2. CASE s.op \in {"let", "var"}
  <2>1. s.name \in Name /\ s.type # Unknown /\ s.expr \in Expr
    BY <1>2, ItemFields, TypesDiffer DEF Name, Known
  <2>2. t[s.name] = s.type /\ TypeOf(t, s.expr) = s.type
    BY <1>2 DEF Sound
  <2>3. u[s.name] = s.type /\ TypeOf(u, s.expr) = s.type
    BY <1>1, <2>1, <2>2 DEF Grows
  <2> QED BY <1>2, <2>3 DEF Sound
<1>3. CASE s.op = "assign"
  <2>1. s.name \in Name /\ s.expr \in Expr
    BY <1>3, ItemFields DEF Name
  <2>2. t[s.name] # Unknown /\ TypeOf(t, s.expr) = t[s.name]
    BY <1>3 DEF Sound
  <2>3. u[s.name] = t[s.name] /\ TypeOf(u, s.expr) = t[s.name]
    BY <1>1, <2>1, <2>2 DEF Grows
  <2> QED BY <1>3, <2>2, <2>3 DEF Sound
<1>4. CASE s.op = "fun"
  <2>1. s.name \in Name /\ s.type # Unknown /\ s.body \in Body
    BY <1>4, ItemFields, BodyFields, TypesDiffer DEF Name
  <2>2. t[s.name] = s.type /\ BodySound(t, s.body)
    BY <1>4 DEF Sound
  <2>3. u[s.name] = s.type /\ BodySound(u, s.body)
    BY <2>1, <2>2, BodySoundGrows DEF Grows
  <2> QED BY <1>4, <2>3 DEF Sound
<1>5. CASE s.op \in {"call", "fail"}
  BY <1>5 DEF Sound
<1> QED BY <1>2, <1>3, <1>4, <1>5, ItemFields

AllSound(t, g) == \A n \in Name : GlobalSound(t, g, n)

LEMMA AllSoundGrows ==
  ASSUME NEW t, NEW u, Grows(t, u), NEW g, Globals(g), AllSound(t, g)
  PROVE  AllSound(u, g)
<1> SUFFICES ASSUME NEW n \in Name, g[n] # Undefined
             PROVE  g[n].type = u[n] /\ (n \in Fun => BodySound(u, g[n].body))
  BY DEF AllSound, GlobalSound
<1>1. g[n].type = t[n] /\ (n \in Fun => BodySound(t, g[n].body))
  BY DEF AllSound, GlobalSound
<1>2. g[n].type # Unknown /\ (n \in Fun => g[n].body \in Body)
  BY GlobalKinds, ClosureFields, TypesDiffer
<1> QED BY <1>1, <1>2, BodySoundGrows DEF Grows

LEMMA AssignedSound ==
  ASSUME NEW t, NEW g, Globals(g), AllSound(t, g),
         NEW x \in Var, NEW v \in Value \cup {UnitValue}, v.type = t[x]
  PROVE  AllSound(t, [g EXCEPT ![x] = v])
<1>1. g = [n \in Name |-> g[n]] /\ x \notin Fun
  BY TypesDiffer DEF Globals
<1> QED BY <1>1 DEF AllSound, GlobalSound

LEMMA AfterSound ==
  ASSUME Shape, AllSound(types, globals), NEW e \in Expr, ~Stops(e)
  PROVE  AllSound(types, After(e)) /\ Result(e).type = TypeOf(types, e)
<1>1. Globals(globals)
  BY DEF Shape
<1>2. CASE e.from = "literal"
  BY <1>2 DEF After, Result, TypeOf
<1>3. CASE e.from = "global"
  <2>1. e.name \in Name /\ globals[e.name] # Undefined
    BY <1>3, ExprFields DEF Name, Stops
  <2> QED BY <1>3, <2>1 DEF After, Result, TypeOf, AllSound, GlobalSound
<1>4. CASE e.from = "call"
  <2> DEFINE b == BodyOf(e)
  <2>1. /\ e.name \in Fun /\ e.name \in Name /\ globals[e.name] \in Closure
        /\ globals[e.name] # Undefined
        /\ b \in Body /\ b.name \in Var /\ b.name \in Name
        /\ globals[b.name] \in Value \cup {UnitValue}
    BY <1>4, CalledBody DEF Name
  <2>2. types[e.name] = globals[e.name].type /\ BodySound(types, b)
    BY <2>1 DEF AllSound, GlobalSound, BodyOf
  <2>3. globals[e.name].type = b.type
    BY <2>1, ClosureFields DEF BodyOf
  <2>4. globals[b.name] # Undefined /\ globals[b.name].type = types[b.name]
    BY <2>1, TypesDiffer DEF AllSound, GlobalSound
  <2>5. TypeOf(types, e) = b.type
    BY <1>4, <2>2, <2>3 DEF TypeOf
  <2> HIDE DEF b
  <2>6. CASE b.op = "get"
    <3>1. types[b.name] = b.type
      BY <2>2, <2>6 DEF BodySound
    <3>2. After(e) = globals /\ Result(e) = globals[b.name]
      BY <1>4, <2>6 DEF After, Result, b
    <3> QED BY <2>4, <2>5, <3>1, <3>2
  <2>7. CASE b.op = "set"
    <3>1. types[b.name] = b.value.type /\ b.value \in Value /\ b.type = "unit"
      BY <2>1, <2>2, <2>7, BodyFields DEF BodySound
    <3>2. After(e) = [globals EXCEPT ![b.name] = b.value] /\ Result(e) = UnitValue
      BY <1>4, <2>7 DEF After, Result, b
    <3>3. AllSound(types, After(e))
      <4>1. AllSound(types, globals) /\ b.name \in Var /\ b.value \in Value \cup {UnitValue}
            /\ b.value.type = types[b.name]
        BY <2>1, <3>1
      <4>2. AllSound(types, [globals EXCEPT ![b.name] = b.value])
        BY <1>1, <4>1, AssignedSound
      <4> QED BY <3>2, <4>2
    <3> QED BY <2>5, <3>1, <3>2, <3>3, TypesDiffer
  <2> QED BY <2>1, <2>6, <2>7, BodyFields
<1> QED BY <1>2, <1>3, <1>4, ExprFields

----------------------------------------------------------------------------
(* As long as there is no doubt.                                           *)

LEMMA TypedHolds ==
  ASSUME Shape, Shape', ~doubt => Typed, [SessionNext]_session
  PROVE  ~doubt' => Typed'
<1> SUFFICES ASSUME ~doubt' PROVE Typed'
  OBVIOUS
<1> USE DEF Typed
<1>c. ASSUME ~doubt, Grows(types, types'), globals' = globals
      PROVE  AllSound(types', globals')
  <2>1. Globals(globals) /\ AllSound(types, globals)
    BY <1>c DEF Shape, AllSound
  <2>2. AllSound(types', globals)
    BY <1>c, <2>1, AllSoundGrows
  <2> QED BY <1>c, <2>2
<1>s. types' = types => Grows(types, types')
  BY DEF Grows
<1>d. ASSUME AllSound(types', globals'), Dismiss PROVE Typed'
  BY <1>d DEF AllSound, Dismiss
<1>r. ASSUME AllSound(types', globals'), InPhase("run"), ~doubt, Step, Running PROVE Typed'
  <2>1. /\ phase' = "run" /\ line' = line /\ types' = types
        /\ \A i \in 1..Len(line) : Sound(types, line[i])
    BY <1>r DEF InPhase, Step, Running
  <2> QED BY <1>r, <2>1 DEF AllSound
<1>k. ASSUME InPhase("check"), NEW ok, NEW known, Checked(ok, known), Grows(types, types'),
             ok /\ known => Sound(types', Current)
      PROVE  Typed'
  <2>1. /\ ~doubt /\ known /\ phase' = "check" /\ line' = line /\ pc' = pc + 1
        /\ globals' = globals /\ (~bad' => ~bad /\ ok)
    BY <1>k DEF Checked, InPhase
  <2>2. AllSound(types', globals')
    BY <1>c, <1>k, <2>1
  <2>3. \A i \in 1..Len(line) : line[i] \in Item
    BY DEF Shape
  <2>4. ASSUME NEW i \in 1..Len(line), line[i].op = "fun"
        PROVE  types'[line[i].name] = line[i].type
    <3>1. types[line[i].name] = line[i].type
      BY <1>k, <2>1, <2>4 DEF InPhase
    <3>2. line[i].type # Unknown /\ line[i].name \in Name
      BY <2>3, <2>4, ItemFields, BodyFields, TypesDiffer DEF Name
    <3> QED BY <1>k, <3>1, <3>2 DEF Grows
  <2>5. ASSUME ~bad', NEW i \in 1..pc' - 1 PROVE Sound(types', line[i])
    <3>1. CASE i = pc
      BY <1>k, <2>1, <2>5, <3>1 DEF Current
    <3>2. CASE i # pc
      <4>1. i \in 1..pc - 1 /\ i \in 1..Len(line)
        BY <1>k, <2>1, <3>2 DEF InPhase, Shape
      <4>2. Sound(types, line[i])
        BY <1>k, <2>1, <2>5, <4>1 DEF InPhase
      <4> QED BY <1>k, <2>3, <4>1, <4>2, SoundGrows
    <3> QED BY <3>1, <3>2
  <2> QED BY <2>1, <2>2, <2>4, <2>5 DEF AllSound
<1>0. CASE UNCHANGED session
  <2>1. /\ types' = types /\ globals' = globals /\ line' = line /\ phase' = phase
        /\ pc' = pc /\ bad' = bad /\ doubt' = doubt
    BY <1>0 DEF session
  <2> QED BY <2>1
<1>1. CASE Read
  <2>1. ~doubt /\ types' = Signatures(line') /\ globals' = globals /\ phase' = "check" /\ pc' = 1
    BY <1>1 DEF Read
  <2>2. PICK n \in 1..MaxLine : line' \in [1..n -> Statement]
    BY <1>1 DEF Read
  <2>3. DOMAIN line' = 1..n /\ Len(line') = n /\ n \in Nat
    BY <2>2
  <2>4. ASSUME NEW i \in 1..n, line'[i].op = "fun"
        PROVE  /\ line'[i].name \in Fun /\ line'[i].type # Unknown
               /\ types'[line'[i].name] \in {Unknown, line'[i].type}
               /\ types[line'[i].name] \in {Unknown, line'[i].type}
    <3>1. line'[i] \in Statement
      BY <2>2
    <3>2. line'[i].name \in Fun /\ line'[i].type # Unknown
      BY <2>4, <3>1, DeclarationFields, BodyFields, TypesDiffer
    <3>3. {types[line'[i].name], types'[line'[i].name]} \ {Unknown} = {line'[i].type}
      BY <1>1, <2>3, <2>4 DEF Read, IsFun
    <3> QED BY <3>2, <3>3
  <2>5. ASSUME NEW m \in Name
        PROVE  /\ types[m] = Unknown \/ types'[m] = types[m]
               /\ \A i \in 1..n : line'[i].op = "fun" /\ line'[i].name = m => types'[m] = line'[i].type
    <3> DEFINE declaring == {i \in DOMAIN line' : IsFun(line'[i]) /\ line'[i].name = m}
    <3>1. CASE declaring = {}
      <4>1. types'[m] = types[m]
        BY <2>1, <3>1 DEF Signatures
      <4>2. \A i \in 1..n : ~(line'[i].op = "fun" /\ line'[i].name = m)
        BY <2>3, <3>1 DEF IsFun
      <4> QED BY <4>1, <4>2
    <3>2. CASE declaring # {}
      <4>1. declaring \in SUBSET (0..n)
        BY <2>3
      <4>2. PICK k \in declaring : \A j \in declaring : j <= k
        BY <2>3, <3>2, <4>1, LargestNatural
      <4> DEFINE c == CHOOSE i \in declaring : \A j \in declaring : j <= i
      <4>3. c \in declaring
        BY <4>2
      <4>4. types'[m] = line'[c].type
        BY <2>1, <3>2 DEF Signatures
      <4>5. c \in 1..n /\ line'[c].op = "fun" /\ line'[c].name = m
        BY <2>3, <4>3 DEF IsFun
      <4> HIDE DEF c
      <4>6. types'[m] # Unknown /\ types[m] \in {Unknown, types'[m]}
        BY <2>4, <4>4, <4>5
      <4>7. ASSUME NEW i \in 1..n, line'[i].op = "fun", line'[i].name = m
            PROVE  types'[m] = line'[i].type
        BY <2>4, <4>6, <4>7
      <4> QED BY <4>6, <4>7
    <3> QED BY <3>1, <3>2
  <2>6. AllSound(types', globals')
    BY <1>c, <2>1, <2>5 DEF Grows
  <2>7. \A i \in 1..n : line'[i].op = "fun" => types'[line'[i].name] = line'[i].type
    BY <2>4, <2>5 DEF Name
  <2>8. 1..pc' - 1 = {}
    BY <2>1
  <2> QED BY <2>1, <2>3, <2>6, <2>7, <2>8 DEF AllSound
<1>2. CASE CheckDeclaration
  <2>1. /\ Checked(Accepts(Current.type, Current.expr),
                   /\ Inferred(Current.expr) # Unknown
                   /\ types[Current.name] \in {Unknown, Current.type})
        /\ types' = [types EXCEPT ![Current.name] = Current.type]
        /\ InPhase("check") /\ Current.op \in {"let", "var"} /\ ~doubt
        /\ types[Current.name] \in {Unknown, Current.type}
    BY <1>2 DEF CheckDeclaration, Checked
  <2>2. /\ Current \in Item /\ Current.name \in Name /\ Current.type # Unknown
        /\ Current.expr \in Expr
    BY <2>1, CurrentItem, ItemFields, TypesDiffer DEF InPhase, Name, Known
  <2>3. Grows(types, types') /\ types'[Current.name] = Current.type
    BY <2>1, <2>2 DEF Grows, Shape
  <2>4. ASSUME Accepts(Current.type, Current.expr), Inferred(Current.expr) # Unknown
        PROVE  Sound(types', Current)
    <3>1. TypeOf(types, Current.expr) = Current.type
      BY <2>2, <2>4 DEF Accepts, Inferred, TypeOf
    <3>2. Current.expr.from = "literal" \/ Current.expr.name \in Name
      BY <2>2, ExprFields DEF Name
    <3>3. TypeOf(types', Current.expr) = Current.type
      BY <2>2, <2>3, <3>1, <3>2 DEF TypeOf, Grows
    <3> QED BY <2>1, <2>3, <3>3 DEF Sound
  <2> QED BY <1>k, <2>1, <2>3, <2>4
<1>3. CASE CheckAssignment
  <2>1. /\ Checked(Accepts(types[Current.name], Current.expr),
                   Unknown \notin {types[Current.name], Inferred(Current.expr)})
        /\ types' = types /\ InPhase("check") /\ Current.op = "assign"
    BY <1>3 DEF CheckAssignment
  <2>2. ASSUME Accepts(types[Current.name], Current.expr),
               Unknown \notin {types[Current.name], Inferred(Current.expr)}
        PROVE  Sound(types', Current)
    BY <2>1, <2>2 DEF Accepts, Inferred, TypeOf, Sound
  <2> QED BY <1>k, <1>s, <2>1, <2>2
<1>4. CASE CheckFunction
  <2> DEFINE b == Current.body
             ok == IF b.op = "get" THEN Accepts(types[Current.name], Global(b.name))
                   ELSE Accepts(types[b.name], Literal(b.value))
  <2>1. /\ Checked(ok, types[b.name] # Unknown)
        /\ types' = types /\ InPhase("check") /\ Current.op = "fun" /\ ~doubt
    BY <1>4 DEF CheckFunction, Checked
  <2>2. /\ pc \in 1..Len(line) /\ Current \in Item /\ b \in Body
        /\ Current.type = b.type
    BY <2>1, CurrentItem, ItemFields DEF InPhase
  <2>3. types[Current.name] = b.type
    BY <2>1, <2>2 DEF InPhase, Current
  <2>4. ASSUME ok, types[b.name] # Unknown
        PROVE  Sound(types', Current)
    <3>1. CASE b.op = "get"
      <4>1. Accepts(types[Current.name], Global(b.name))
        BY <2>4, <3>1
      <4>2. Inferred(Global(b.name)) = types[b.name]
        BY DEF Inferred, Global
      <4>3. types[b.name] = b.type
        BY <2>2, <2>3, <2>4, <4>1, <4>2, BodyFields, TypesDiffer DEF Accepts
      <4> QED BY <2>1, <2>2, <2>3, <3>1, <4>3 DEF Sound, BodySound
    <3>2. CASE b.op = "set"
      <4>1. Accepts(types[b.name], Literal(b.value)) /\ b.value \in Value
        BY <2>2, <2>4, <3>2, BodyFields
      <4>2. Inferred(Literal(b.value)) = b.value.type
        BY DEF Inferred, Literal
      <4>3. types[b.name] = b.value.type
        BY <2>4, <4>1, <4>2, TypesDiffer DEF Accepts, Known
      <4> QED BY <2>1, <2>2, <2>3, <3>2, <4>3 DEF Sound, BodySound
    <3> QED BY <2>2, <3>1, <3>2, BodyFields
  <2> HIDE DEF ok, b
  <2> QED BY <1>k, <1>s, <2>1, <2>4
<1>5. CASE CheckOther
  <2>1. /\ Checked(TRUE, Current.op = "call" => types[Current.name] # Unknown)
        /\ types' = types /\ InPhase("check") /\ Current.op \in {"call", "fail"}
    BY <1>5 DEF CheckOther
  <2>2. Sound(types', Current)
    BY <2>1 DEF Sound
  <2> QED BY <1>k, <1>s, <2>1, <2>2
<1>6. CASE EndCheck
  <2>1. ~doubt /\ types' = types /\ globals' = globals
    BY <1>6 DEF EndCheck, memory
  <2>2. AllSound(types', globals')
    BY <1>c, <1>s, <2>1
  <2>3. CASE bad
    BY <1>6, <1>d, <2>2, <2>3 DEF EndCheck
  <2>4. CASE ~bad
    <3>1. phase = "check" /\ pc > Len(line) /\ line' = Hoisted(line) /\ phase' = "compile"
      BY <1>6, <2>4 DEF EndCheck
    <3> DEFINE D == {s \in Item : Sound(types, s)}
    <3>2. line \in Seq(Item) /\ \A i \in 1..Len(line) : line[i] \in D
      BY <2>1, <2>4, <3>1 DEF Shape
    <3> HIDE DEF D
    <3>3. line' \in Seq(D)
      BY <3>1, <3>2, HoistedKeeps
    <3>4. \A i \in 1..Len(line') : line'[i] \in D
      BY <3>3
    <3>5. \A i \in 1..Len(line') : Sound(types', line'[i])
      BY <2>1, <3>4 DEF D
    <3> QED BY <2>2, <3>1, <3>5 DEF AllSound
  <2> QED BY <2>3, <2>4
<1>7. CASE CompileDeclaration \/ CompileAssignment \/ CompileOther
  <2>1. /\ ~doubt /\ types' = types /\ globals' = globals /\ line' = line
        /\ phase = "compile" /\ phase' = "compile"
    BY <1>7 DEF CompileDeclaration, CompileAssignment, CompileOther, Compiled, InPhase
  <2>2. AllSound(types', globals')
    BY <1>c, <1>s, <2>1
  <2>3. \A i \in 1..Len(line) : Sound(types, line[i])
    BY <2>1
  <2> QED BY <2>1, <2>2, <2>3 DEF AllSound
<1>8. CASE CompileFunction
  <2> DEFINE free == Name \ (immutable \cup {Current.name})
             s == [op |-> "fun", name |-> Current.name, type |-> Current.type,
                   body |-> Current.body, free |-> free]
  <2>1. /\ ~doubt /\ types' = types /\ globals' = globals
        /\ line' = [line EXCEPT ![pc] = s] /\ Current.op = "fun"
        /\ phase = "compile" /\ phase' = "compile" /\ pc <= Len(line)
    BY <1>8 DEF CompileFunction, Compiled, InPhase, Current
  <2> HIDE DEF free
  <2>2. AllSound(types', globals')
    BY <1>c, <1>s, <2>1
  <2>3. pc \in 1..Len(line) /\ line \in Seq(Item)
    BY <2>1, CurrentItem DEF Shape
  <2>4. Sound(types, Current)
    BY <2>1, <2>3 DEF Current
  <2>5. s.op = "fun" /\ s.name = Current.name /\ s.type = Current.type /\ s.body = Current.body
    OBVIOUS
  <2> HIDE DEF s
  <2>6. Sound(types, s)
    BY <2>1, <2>4, <2>5 DEF Sound
  <2>7. Len(line') = Len(line)
    BY <2>1, <2>3
  <2>8. ASSUME NEW i \in 1..Len(line) PROVE Sound(types', line'[i])
    BY <2>1, <2>3, <2>6
  <2> QED BY <2>1, <2>2, <2>7, <2>8 DEF AllSound
<1>9. CASE EndCompile
  <2>1. ~doubt /\ types' = types /\ globals' = globals
    BY <1>9 DEF EndCompile, memory
  <2>2. AllSound(types', globals')
    BY <1>c, <1>s, <2>1
  <2>3. CASE bad
    BY <1>9, <1>d, <2>2, <2>3 DEF EndCompile
  <2>4. CASE ~bad
    <3>1. phase = "compile" /\ line' = line /\ phase' = "run"
      BY <1>9, <2>4 DEF EndCompile
    <3>2. \A i \in 1..Len(line) : Sound(types, line[i])
      BY <2>1, <3>1
    <3> QED BY <2>1, <2>2, <3>1, <3>2 DEF AllSound
  <2> QED BY <2>3, <2>4
<1>g. ASSUME InPhase("run"), ~doubt
      PROVE  /\ AllSound(types, globals) /\ Sound(types, Current)
             /\ pc \in 1..Len(line) /\ Current \in Item
  <2>1. pc \in 1..Len(line) /\ Current \in Item
    BY <1>g, CurrentItem DEF InPhase
  <2> QED BY <1>g, <2>1 DEF InPhase, AllSound, Current
<1>10. CASE RunDeclaration
  <2> DEFINE e == Current.expr
  <2>1. /\ InPhase("run") /\ ~doubt /\ Current.op \in {"let", "var"} /\ ~Stops(e)
        /\ globals' = [After(e) EXCEPT ![Current.name] = Result(e)]
        /\ types' = types /\ Step /\ Running
    BY <1>10 DEF RunDeclaration, Running
  <2>2. AllSound(types, globals) /\ Sound(types, Current) /\ Current \in Item
    BY <1>g, <2>1
  <2>3. Current.name \in Var /\ e \in Expr
    BY <2>1, <2>2, ItemFields
  <2>4. AllSound(types, After(e)) /\ Result(e).type = TypeOf(types, e)
    BY <2>1, <2>2, <2>3, AfterSound
  <2>5. Result(e).type = types[Current.name]
    BY <2>1, <2>2, <2>4 DEF Sound
  <2>6. AllSound(types, globals')
    BY <2>1, <2>3, <2>4, <2>5, AfterIsGlobals, ResultValue, AssignedSound
  <2> QED BY <1>r, <2>1, <2>6
<1>11. CASE RunAssignment
  <2> DEFINE e == Current.expr
  <2>1. /\ InPhase("run") /\ ~doubt /\ Current.op = "assign" /\ ~Stops(e)
        /\ types' = types /\ Running
        /\ \/ globals' = After(e) /\ Dismiss
           \/ globals' = [After(e) EXCEPT ![Current.name] = Result(e)] /\ Step
    BY <1>11 DEF RunAssignment, Running
  <2>2. AllSound(types, globals) /\ Sound(types, Current) /\ Current \in Item
    BY <1>g, <2>1
  <2>3. Current.name \in Var /\ e \in Expr
    BY <2>1, <2>2, ItemFields
  <2>4. AllSound(types, After(e)) /\ Result(e).type = TypeOf(types, e)
    BY <2>1, <2>2, <2>3, AfterSound
  <2>5. Result(e).type = types[Current.name]
    BY <2>1, <2>2, <2>4 DEF Sound
  <2>6. AllSound(types, [After(e) EXCEPT ![Current.name] = Result(e)])
    BY <2>1, <2>3, <2>4, <2>5, AfterIsGlobals, ResultValue, AssignedSound
  <2> QED BY <1>d, <1>r, <2>1, <2>4, <2>6
<1>12. CASE RunFunction
  <2> DEFINE c == [type |-> Current.type, body |-> Current.body, free |-> Current.free]
  <2>1. /\ InPhase("run") /\ ~doubt /\ Current.op = "fun"
        /\ globals' = [globals EXCEPT ![Current.name] = c]
        /\ types' = types /\ Step /\ Running
    BY <1>12 DEF RunFunction, Running
  <2>2. c.type = Current.type /\ c.body = Current.body
    OBVIOUS
  <2> HIDE DEF c
  <2>3. AllSound(types, globals) /\ Sound(types, Current) /\ Current \in Item
    BY <1>g, <2>1
  <2>4. types[Current.name] = c.type /\ BodySound(types, c.body)
    BY <2>1, <2>2, <2>3 DEF Sound
  <2>5. globals = [n \in Name |-> globals[n]] /\ Current.name \in Name
    BY <2>1, <2>3, ItemFields DEF Shape, Globals, Name
  <2>6. AllSound(types, globals')
    BY <2>1, <2>3, <2>4, <2>5 DEF AllSound, GlobalSound
  <2> QED BY <1>r, <2>1, <2>6
<1>13. CASE RunCall
  <2>1. /\ InPhase("run") /\ ~doubt /\ Current.op = "call" /\ ~Stops(Current.expr)
        /\ globals' = After(Current.expr) /\ types' = types /\ Step /\ Running
    BY <1>13 DEF RunCall, Running
  <2>2. AllSound(types, globals) /\ Current \in Item
    BY <1>g, <2>1
  <2>3. Current.expr \in Expr
    BY <2>1, <2>2, ItemFields DEF Expr
  <2>4. AllSound(types, globals')
    BY <2>1, <2>2, <2>3, AfterSound
  <2> QED BY <1>r, <2>1, <2>4
<1>14. CASE RuntimeError \/ EndRun
  <2>1. ~doubt /\ types' = types /\ globals' = globals /\ Dismiss
    BY <1>14 DEF RuntimeError, EndRun, memory
  <2> QED BY <1>c, <1>d, <1>s, <2>1
<1> QED BY <1>0, <1>1, <1>2, <1>3, <1>4, <1>5, <1>6, <1>7, <1>8, <1>9, <1>10, <1>11,
           <1>12, <1>13, <1>14 DEF SessionNext

----------------------------------------------------------------------------
(* What is fixed.                                                          *)

LEMMA AfterChanges ==
  ASSUME Shape, Fixing, NEW e \in Expr, ~Stops(e)
  PROVE  /\ \A n \in Name : After(e)[n] # globals[n] =>
               e.from = "call" /\ n \in globals[e.name].free
         /\ \A n \in Name : globals[n] # Undefined => After(e)[n] # Undefined
         /\ FunctionsWithin(After(e))
<1>1. CASE After(e) = globals
  BY <1>1 DEF Fixing
<1>2. CASE After(e) # globals
  <2> DEFINE b == BodyOf(e)
  <2>1. /\ e.from = "call" /\ b.op = "set" /\ b.name \in Var /\ b.value \in Value
        /\ After(e) = [globals EXCEPT ![b.name] = b.value]
    BY <1>2, AfterGlobals
  <2>2. b = globals[e.name].body /\ e.name \in Fun /\ globals[e.name] # Undefined
    BY <2>1, CalledBody DEF BodyOf
  <2> HIDE DEF b
  <2>3. b.name \in globals[e.name].free
    BY <2>1, <2>2 DEF Fixing, FunctionsWithin, WithinFree
  <2>4. globals = [n \in Name |-> globals[n]] /\ b.name \notin Fun /\ b.value # Undefined
    BY <2>1, TypesDiffer DEF Shape, Globals
  <2>5. FunctionsWithin(After(e))
    BY <2>1, <2>4 DEF Fixing, FunctionsWithin, Name
  <2> QED BY <2>1, <2>3, <2>4, <2>5
<1> QED BY <1>1, <1>2

(* The variable that a statement in execution gives a value to.            *)
IsAssigned(h, g, x, v) == h = [g EXCEPT ![x] = v]

LEMMA AssignedChanges ==
  ASSUME NEW g, Globals(g), FunctionsWithin(g), NEW x \in Var,
         NEW v \in Value \cup {UnitValue}, NEW h, IsAssigned(h, g, x, v)
  PROVE  /\ h[x] # Undefined
         /\ \A n \in Name \ {x} : h[n] = g[n]
         /\ FunctionsWithin(h)
<1>1. g = [n \in Name |-> g[n]] /\ x \notin Fun /\ v # Undefined /\ x \in Name
  BY TypesDiffer DEF Globals, Name
<1> QED BY <1>1 DEF FunctionsWithin, Name, IsAssigned

LEMMA FixingHolds ==
  ASSUME Shape, Shape', Fixing, [SessionNext]_session
  PROVE  Fixing'
<1> USE DEF Fixing
<1>d. ASSUME Dismiss, fixed' = fixed, immutable' = immutable,
             \A n \in fixed : globals'[n] # Undefined, FunctionsWithin(globals')
      PROVE  Fixing'
  BY <1>d DEF Dismiss
<1>r. ASSUME InPhase("run"), Step, Running, fixed' \subseteq fixed \cup Fixes(Current),
             \A n \in fixed' : globals'[n] # Undefined, FunctionsWithin(globals')
      PROVE  Fixing'
  <2>1. /\ phase' = "run" /\ line' = line /\ pc' = pc + 1 /\ immutable' = immutable
        /\ pc \in pc..Len(line)
    BY <1>r, CurrentItem DEF InPhase, Step, Running
  <2>2. Settled(pc) /\ \A j \in pc..Len(line) : InOrder(pc, j)
    BY <1>r, <2>1 DEF InPhase
  <2>3. fixed' \subseteq immutable'
    BY <1>r, <2>1, <2>2 DEF Settled, Current
  <2>4. ASSUME NEW i \in pc'..Len(line') PROVE Settled(i)'
    <3>1. i \in pc..Len(line) /\ pc < i
      BY <2>1, CurrentItem, <1>r DEF InPhase
    <3>2. Settled(i) /\ Fixes(line[pc]) \cap Targets(line[i]) = {}
      BY <1>r, <2>2, <3>1 DEF InPhase, InOrder
    <3> QED BY <1>r, <2>1, <3>2 DEF Settled, Current
  <2>5. ASSUME NEW i \in pc'..Len(line'), NEW j \in pc'..Len(line') PROVE InOrder(i, j)'
    <3>1. i \in pc..Len(line) /\ j \in pc..Len(line)
      BY <2>1, CurrentItem, <1>r DEF InPhase
    <3> QED BY <1>r, <2>1, <3>1 DEF InPhase, InOrder
  <2> QED BY <1>r, <2>1, <2>3, <2>4, <2>5
<1>k. ASSUME InPhase("compile"), NEW s, NEW ok, Compiled(ok, Fixes(s)),
             line' = [line EXCEPT ![pc] = s],
             ok => Targets(s) \cap immutable = {} /\ Closed(s)
      PROVE  Fixing'
  <2>1. /\ phase = "compile" /\ phase' = "compile" /\ pc' = pc + 1 /\ fixed' = fixed
        /\ globals' = globals /\ immutable' = immutable \cup Fixes(s)
        /\ (~bad' => ~bad /\ ok) /\ pc \in 1..Len(line) /\ line \in Seq(Item)
    BY <1>k, CurrentItem DEF Compiled, InPhase, Shape
  <2>2. \A i \in 1..pc' - 1 : line'[i] = IF i = pc THEN s ELSE line[i]
    BY <1>k, <2>1
  <2>3. \A i \in 1..pc' - 1 : i # pc => i \in 1..pc - 1
    BY <2>1
  <2>4. ASSUME ~bad', NEW i \in 1..pc' - 1 PROVE Settled(i)'
    <3>1. CASE i = pc
      <4>1. line'[i] = s /\ Targets(s) \cap fixed' = {} /\ Closed(s)
        BY <1>k, <2>1, <2>2, <2>4, <3>1
      <4> QED BY <2>1, <4>1 DEF Settled
    <3>2. CASE i # pc
      <4>1. line'[i] = line[i] /\ Settled(i)
        BY <2>1, <2>2, <2>3, <2>4, <3>2
      <4> QED BY <2>1, <4>1 DEF Settled
    <3> QED BY <3>1, <3>2
  <2>5. ASSUME ~bad', NEW i \in 1..pc' - 1, NEW j \in 1..pc' - 1 PROVE InOrder(i, j)'
    <3> SUFFICES ASSUME i < j PROVE Fixes(line'[i]) \cap Targets(line'[j]) = {}
      BY DEF InOrder
    <3>1. i # pc /\ i \in 1..pc - 1 /\ line'[i] = line[i] /\ Settled(i)
      BY <2>1, <2>2, <2>5
    <3>2. CASE j = pc
      <4>1. line'[j] = s /\ Targets(s) \cap immutable = {}
        BY <1>k, <2>1, <2>2, <2>5, <3>2
      <4> QED BY <3>1, <4>1 DEF Settled
    <3>3. CASE j # pc
      <4>1. line'[j] = line[j] /\ InOrder(i, j)
        BY <2>1, <2>2, <2>3, <2>5, <3>1, <3>3
      <4> QED BY <3>1, <4>1 DEF InOrder
    <3> QED BY <3>2, <3>3
  <2> QED BY <2>1, <2>4, <2>5
<1>u. ASSUME line' = line, InPhase("compile") PROVE line' = [line EXCEPT ![pc] = Current]
  BY <1>u DEF Current, Shape
<1>0. CASE UNCHANGED session
  <2>1. /\ immutable' = immutable /\ globals' = globals /\ line' = line /\ phase' = phase
        /\ pc' = pc /\ bad' = bad /\ fixed' = fixed
    BY <1>0 DEF session
  <2> QED BY <2>1 DEF Settled, InOrder
<1>1. CASE Read
  <2>1. phase' = "check" /\ UNCHANGED <<immutable, globals, fixed>>
    BY <1>1 DEF Read
  <2> QED BY <2>1
<1>2. CASE CheckDeclaration \/ CheckAssignment \/ CheckFunction \/ CheckOther
  <2>1. phase' = "check" /\ UNCHANGED <<immutable, globals, fixed>>
    BY <1>2 DEF CheckDeclaration, CheckAssignment, CheckFunction, CheckOther, Checked, InPhase
  <2> QED BY <2>1
<1>3. CASE EndCheck
  <2>1. UNCHANGED <<immutable, globals, fixed>>
    BY <1>3 DEF EndCheck, memory
  <2>2. CASE bad
    BY <1>3, <1>d, <2>1, <2>2 DEF EndCheck
  <2>3. CASE ~bad
    <3>1. phase' = "compile" /\ 1..pc' - 1 = {}
      BY <1>3, <2>3 DEF EndCheck
    <3> QED BY <2>1, <3>1
  <2> QED BY <2>2, <2>3
<1>4. CASE CompileDeclaration
  <2>1. /\ InPhase("compile") /\ line' = [line EXCEPT ![pc] = Current]
        /\ Compiled(Current.name \notin immutable, IF Current.op = "let" THEN {Current.name} ELSE {})
        /\ Current.op \in {"let", "var"}
    BY <1>4, <1>u DEF CompileDeclaration
  <2>2. /\ Fixes(Current) = IF Current.op = "let" THEN {Current.name} ELSE {}
        /\ Targets(Current) = {Current.name} /\ Closed(Current)
    BY <2>1 DEF Fixes, Targets, Closed
  <2>3. Current.name \notin immutable => Targets(Current) \cap immutable = {} /\ Closed(Current)
    BY <2>2
  <2> QED BY <1>k, <2>1, <2>2, <2>3
<1>5. CASE CompileAssignment
  <2>1. /\ InPhase("compile") /\ line' = [line EXCEPT ![pc] = Current]
        /\ Compiled(Current.name \notin immutable, {}) /\ Current.op = "assign"
    BY <1>5, <1>u DEF CompileAssignment
  <2>2. Fixes(Current) = {} /\ Targets(Current) = {Current.name} /\ Closed(Current)
    BY <2>1 DEF Fixes, Targets, Closed
  <2>3. Current.name \notin immutable => Targets(Current) \cap immutable = {} /\ Closed(Current)
    BY <2>2
  <2> QED BY <1>k, <2>1, <2>2, <2>3
<1>6. CASE CompileFunction
  <2> DEFINE known == immutable \cup {Current.name}
             free == Name \ known
             s == [op |-> "fun", name |-> Current.name, type |-> Current.type,
                   body |-> Current.body, free |-> free]
             ok == /\ Current.name \notin immutable
                   /\ Current.body.op = "set" => Current.body.name \notin known
  <2>1. /\ InPhase("compile") /\ line' = [line EXCEPT ![pc] = s] /\ Compiled(ok, {Current.name})
        /\ Current.op = "fun"
    BY <1>6 DEF CompileFunction, Current
  <2>2. Current.body \in Body
    BY <2>1, CurrentItem, ItemFields DEF InPhase
  <2>3. ok => (Current.body.op = "set" => Current.body.name \in free)
    BY <2>2, BodyFields DEF Name
  <2>4. ok => Current.name \notin immutable
    OBVIOUS
  <2> HIDE DEF ok, free
  <2>5. s.op = "fun" /\ s.name = Current.name /\ s.body = Current.body /\ s.free = free
    OBVIOUS
  <2> HIDE DEF s
  <2>6. Fixes(s) = {Current.name} /\ Targets(s) = {Current.name}
    BY <2>5 DEF Fixes, Targets
  <2>7. ok => Targets(s) \cap immutable = {} /\ Closed(s)
    BY <2>3, <2>4, <2>5, <2>6 DEF Closed, WithinFree
  <2> QED BY <1>k, <2>1, <2>6, <2>7
<1>7. CASE CompileOther
  <2>1. /\ InPhase("compile") /\ line' = [line EXCEPT ![pc] = Current]
        /\ Compiled(TRUE, {}) /\ Current.op \in {"call", "fail"}
    BY <1>7, <1>u DEF CompileOther
  <2>2. Fixes(Current) = {} /\ Targets(Current) = {} /\ Closed(Current)
    BY <2>1 DEF Fixes, Targets, Closed
  <2>3. TRUE => Targets(Current) \cap immutable = {} /\ Closed(Current)
    BY <2>2
  <2> QED BY <1>k, <2>1, <2>2, <2>3
<1>8. CASE EndCompile
  <2>1. UNCHANGED <<immutable, globals, fixed>>
    BY <1>8 DEF EndCompile, memory
  <2>2. CASE bad
    BY <1>8, <1>d, <2>1, <2>2 DEF EndCompile
  <2>3. CASE ~bad
    <3>1. phase = "compile" /\ phase' = "run" /\ pc' = 1 /\ line' = line /\ pc > Len(line)
      BY <1>8, <2>3 DEF EndCompile
    <3>2. pc' .. Len(line') \subseteq 1..pc - 1
      BY <3>1 DEF Shape
    <3>3. \A i \in pc'..Len(line') : Settled(i) /\ \A j \in pc'..Len(line') : InOrder(i, j)
      BY <2>3, <3>1, <3>2
    <3> QED BY <2>1, <3>1, <3>3 DEF Settled, InOrder
  <2> QED BY <2>2, <2>3
<1>9. CASE RunDeclaration
  <2> DEFINE e == Current.expr
             g == After(e)
  <2>1. /\ InPhase("run") /\ Current.op \in {"let", "var"} /\ ~Stops(e)
        /\ globals' = [g EXCEPT ![Current.name] = Result(e)]
        /\ fixed' = IF Current.op = "let" THEN fixed \cup {Current.name} ELSE fixed
        /\ Step /\ Running
    BY <1>9 DEF RunDeclaration
  <2>2. Current.name \in Var /\ e \in Expr
    BY <2>1, CurrentItem, ItemFields DEF InPhase
  <2>3. /\ Globals(g) /\ FunctionsWithin(g) /\ Result(e) \in Value \cup {UnitValue}
        /\ \A n \in Name : globals[n] # Undefined => g[n] # Undefined
    BY <2>1, <2>2, AfterIsGlobals, AfterChanges, ResultValue
  <2> HIDE DEF g
  <2>4. /\ globals'[Current.name] # Undefined /\ FunctionsWithin(globals')
        /\ \A n \in Name \ {Current.name} : globals'[n] = g[n]
    <3>1. IsAssigned(globals', g, Current.name, Result(e))
      BY <2>1 DEF IsAssigned
    <3> QED BY <2>2, <2>3, <3>1, AssignedChanges
  <2>5. fixed \subseteq Name
    BY DEF Shape
  <2>6. \A n \in fixed' : globals'[n] # Undefined
    BY <2>1, <2>3, <2>4, <2>5
  <2>7. fixed' \subseteq fixed \cup Fixes(Current)
    BY <2>1 DEF Fixes
  <2> QED BY <1>r, <2>1, <2>4, <2>6, <2>7
<1>10. CASE RunAssignment
  <2> DEFINE e == Current.expr
             g == After(e)
  <2>1. /\ InPhase("run") /\ Current.op = "assign" /\ ~Stops(e) /\ fixed' = fixed /\ Running
        /\ \/ globals' = g /\ Dismiss
           \/ globals' = [g EXCEPT ![Current.name] = Result(e)] /\ Step
    BY <1>10 DEF RunAssignment
  <2>2. Current.name \in Var /\ e \in Expr
    BY <2>1, CurrentItem, ItemFields DEF InPhase
  <2>3. /\ Globals(g) /\ FunctionsWithin(g) /\ Result(e) \in Value \cup {UnitValue}
        /\ \A n \in Name : globals[n] # Undefined => g[n] # Undefined
    BY <2>1, <2>2, AfterIsGlobals, AfterChanges, ResultValue
  <2> HIDE DEF g
  <2>4. fixed \subseteq Name
    BY DEF Shape
  <2>5. CASE globals' = g /\ Dismiss
    BY <1>d, <2>1, <2>3, <2>4, <2>5 DEF Running
  <2>6. CASE globals' = [g EXCEPT ![Current.name] = Result(e)] /\ Step
    <3>1. /\ globals'[Current.name] # Undefined /\ FunctionsWithin(globals')
          /\ \A n \in Name \ {Current.name} : globals'[n] = g[n]
      <4>1. IsAssigned(globals', g, Current.name, Result(e))
        BY <2>6 DEF IsAssigned
      <4> QED BY <2>2, <2>3, <4>1, AssignedChanges
    <3>2. \A n \in fixed' : globals'[n] # Undefined
      BY <2>1, <2>3, <2>4, <3>1
    <3> QED BY <1>r, <2>1, <2>6, <3>1, <3>2
  <2> QED BY <2>1, <2>5, <2>6
<1>11. CASE RunFunction
  <2> DEFINE c == [type |-> Current.type, body |-> Current.body, free |-> Current.free]
  <2>1. /\ InPhase("run") /\ Current.op = "fun" /\ globals' = [globals EXCEPT ![Current.name] = c]
        /\ fixed' = fixed \cup {Current.name} /\ Step /\ Running
    BY <1>11 DEF RunFunction
  <2>2. /\ pc \in pc..Len(line) /\ Current \in CompiledFun /\ Settled(pc)
    BY <2>1, CurrentItem DEF InPhase, Shape, IsCompiled, Current
  <2>3. c.body = Current.body /\ c.free = Current.free
    OBVIOUS
  <2>4. c \in Closure /\ Current.name \in Fun /\ Current.name \in Name
    BY <2>2, CompiledFields, ClosureIs DEF Name
  <2> HIDE DEF c
  <2>5. WithinFree(c.body, c.free) /\ c # Undefined
    BY <2>1, <2>2, <2>3, <2>4, TypesDiffer DEF Settled, Closed, Current
  <2>6. globals = [n \in Name |-> globals[n]]
    BY DEF Shape, Globals
  <2>7. FunctionsWithin(globals') /\ \A n \in fixed' : globals'[n] # Undefined
    <3>1. FunctionsWithin(globals')
      BY <2>1, <2>4, <2>5, <2>6 DEF FunctionsWithin, Name
    <3>2. fixed \subseteq Name
      BY DEF Shape
    <3> QED BY <2>1, <2>4, <2>5, <2>6, <3>1, <3>2
  <2>8. fixed' \subseteq fixed \cup Fixes(Current)
    BY <2>1 DEF Fixes
  <2> QED BY <1>r, <2>1, <2>7, <2>8
<1>12. CASE RunCall
  <2>1. /\ InPhase("run") /\ Current.op = "call" /\ ~Stops(Current.expr)
        /\ globals' = After(Current.expr) /\ fixed' = fixed /\ Step /\ Running
    BY <1>12 DEF RunCall
  <2>2. Current.expr \in Expr
    BY <2>1, CurrentItem, ItemFields DEF InPhase, Expr
  <2>3. FunctionsWithin(globals') /\ \A n \in Name : globals[n] # Undefined => globals'[n] # Undefined
    BY <2>1, <2>2, AfterChanges
  <2>4. fixed \subseteq Name
    BY DEF Shape
  <2> QED BY <1>r, <2>1, <2>3, <2>4
<1>13. CASE RuntimeError \/ EndRun
  BY <1>13, <1>d DEF RuntimeError, EndRun, memory
<1> QED BY <1>0, <1>1, <1>2, <1>3, <1>4, <1>5, <1>6, <1>7, <1>8, <1>9, <1>10, <1>11,
           <1>12, <1>13 DEF SessionNext

----------------------------------------------------------------------------
(* The invariant and what follows from it.                                 *)

LEMMA SessionInitially == SessionInit => SessionIInv
<1> SUFFICES ASSUME SessionInit PROVE SessionIInv
  OBVIOUS
<1>1. Shape
  <2>1. \A n \in Name : globals[n] = Undefined
    BY DEF SessionInit
  <2>2. Globals(globals)
    BY <2>1 DEF SessionInit, Globals, Name
  <2>3. types \in [Name -> Known \cup {Unknown}] /\ line = << >> /\ immutable = {}
    BY DEF SessionInit
  <2>4. line \in Seq(Item) /\ 1 \in 1..Len(line) + 1
    BY <2>3
  <2> QED BY <2>2, <2>3, <2>4 DEF SessionInit, Shape
<1>2. Typed
  BY DEF SessionInit, Typed, GlobalSound
<1>3. Fixing
  BY DEF SessionInit, Fixing, FunctionsWithin, Name
<1> QED BY <1>1, <1>2, <1>3 DEF SessionIInv

LEMMA SessionStepKeeps == SessionIInv /\ [SessionNext]_session => SessionIInv'
BY ShapeHolds, TypedHolds, FixingHolds DEF SessionIInv

(* What relates the three memories of a session: the inductive invariant.  *)
THEOREM SessionInvariance == SessionSpec => []SessionIInv
BY SessionInitially, SessionStepKeeps, PTL DEF SessionSpec

(* The variables of a session keep their types; a global that is fixed has *)
(* a value, and no function is forgotten by immutableBindings.             *)
THEOREM SessionTypeCorrect == SessionSpec => []SessionTypeOK
<1>1. SessionIInv => SessionTypeOK
  BY DEF SessionIInv, Shape, Known, Globals, Fixing, SessionTypeOK
<1> QED BY <1>1, SessionInvariance, PTL

(* As long as nobody gives a name a second type or uses one before its     *)
(* declaration, the checker knows the type of every global, whatever line  *)
(* failed and wherever it did.                                             *)
THEOREM SessionsAreTyped == SessionSpec => []PlainSessionsAreTyped
<1>1. SessionIInv => PlainSessionsAreTyped
  BY DEF SessionIInv, Typed, GlobalSound, PlainSessionsAreTyped
<1> QED BY <1>1, SessionInvariance, PTL

LEMMA FixedStep ==
  ASSUME SessionIInv, [SessionNext]_session, NEW n \in fixed, globals'[n] # globals[n]
  PROVE  Current.expr.from = "call" /\ n \in globals[Current.expr.name].free
<1>1. Shape /\ Fixing /\ n \in Name /\ globals[n] # Undefined
  BY DEF SessionIInv, Fixing, Shape
<1>2. ASSUME InPhase("run") PROVE Targets(Current) \cap fixed = {} /\ Current \in Item
  <2>1. pc \in pc..Len(line) /\ Current \in Item
    BY <1>1, <1>2, CurrentItem DEF InPhase
  <2>2. Settled(pc)
    BY <1>1, <1>2, <2>1 DEF InPhase, Fixing
  <2> QED BY <2>1, <2>2 DEF Settled, Current
<1>3. ASSUME NEW e \in Expr, ~Stops(e), After(e)[n] # globals[n], e = Current.expr
      PROVE  Current.expr.from = "call" /\ n \in globals[Current.expr.name].free
  BY <1>1, <1>3, AfterChanges
<1>4. CASE RunDeclaration \/ RunAssignment
  <2> DEFINE e == Current.expr
  <2>1. /\ InPhase("run") /\ Current.op \in {"let", "var", "assign"} /\ ~Stops(e)
        /\ \/ globals' = After(e)
           \/ globals' = [After(e) EXCEPT ![Current.name] = Result(e)]
    BY <1>4 DEF RunDeclaration, RunAssignment
  <2>2. Current.name # n /\ e \in Expr
    BY <1>2, <2>1, ItemFields DEF Targets
  <2>3. After(e)[n] # globals[n]
    <3> DEFINE g == After(e)
    <3>1. Globals(g)
      BY <1>1, <2>1, <2>2, AfterIsGlobals
    <3> HIDE DEF g
    <3>2. g = [m \in Name |-> g[m]]
      BY <3>1 DEF Globals
    <3>3. globals'[n] = g[n]
      BY <1>1, <2>1, <2>2, <3>2 DEF g
    <3> QED BY <3>3 DEF g
  <2> QED BY <1>3, <2>1, <2>2, <2>3
<1>5. CASE RunFunction
  <2>1. InPhase("run") /\ Current.op = "fun"
    BY <1>5 DEF RunFunction
  <2>2. Current.name # n
    BY <1>2, <2>1 DEF Targets
  <2>3. globals = [m \in Name |-> globals[m]]
    BY <1>1 DEF Shape, Globals
  <2>4. globals'[n] = globals[n]
    BY <1>1, <1>5, <2>2, <2>3 DEF RunFunction
  <2> QED BY <2>4
<1>6. CASE RunCall
  <2>1. /\ InPhase("run") /\ Current.op = "call" /\ ~Stops(Current.expr)
        /\ globals' = After(Current.expr)
    BY <1>6 DEF RunCall
  <2>2. Current.expr \in Expr
    BY <1>2, <2>1, ItemFields DEF Expr
  <2> QED BY <1>3, <2>1, <2>2
<1>7. CASE ~(RunDeclaration \/ RunAssignment \/ RunFunction \/ RunCall)
  <2>1. globals' = globals
    BY <1>7 DEF SessionNext, session, memory, Read, CheckDeclaration, CheckAssignment, CheckFunction,
       CheckOther, Checked, EndCheck, CompileDeclaration, CompileAssignment, CompileFunction,
       CompileOther, Compiled, EndCompile, RuntimeError, EndRun
  <2> QED BY <2>1
<1> QED BY <1>4, <1>5, <1>6, <1>7

(* A name that a let or a function has fixed changes only in a call of a   *)
(* function that was compiled before the name was fixed.                   *)
THEOREM FixedNamesHold == SessionSpec => FixedNamesChangeInOlderFunctions
<1>1. SessionIInv /\ [SessionNext]_session => [\A n \in fixed : globals'[n] # globals[n] =>
                                  /\ Current.expr.from = "call"
                                  /\ n \in globals[Current.expr.name].free]_session
  BY FixedStep
<1> QED BY <1>1, SessionInvariance, PTL DEF SessionSpec, FixedNamesChangeInOlderFunctions
=============================================================================
