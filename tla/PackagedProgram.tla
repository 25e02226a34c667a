--------------------------- MODULE PackagedProgram ---------------------------
(***************************************************************************)
(* Packaged programs: packagedWrite builds one file from the runtime, the  *)
(* compiled units and a trailer, and the runtime in that file finds the    *)
(* units again when it is started (src/src/packaged_program.c, runtime.c). *)
(*                                                                         *)
(* Several packagers may write the same output at once, may fail at any    *)
(* system call, the removal of what they wrote included, and may be killed *)
(* between two; the output may be started at any moment.  The file system  *)
(* (external) is a directory of names for inodes; a file's content is the  *)
(* sequence of the pieces written to it.                                   *)
(***************************************************************************)
EXTENDS PackagedProgramParameters, FiniteSets, SequencesExt

VARIABLES
  directory,  \* the inode of a path, or 0
  file,       \* the pieces and the execute permission of an inode
  packager,   \* state of a process in packagedWrite
  runner      \* state of a process in main of runtime.c

vars == <<directory, file, packager, runner>>

Runtime == <<"runtime">>
Output == <<"output">>
Temporary(p) == <<"temporary", Pid[p], packager[p].attempt>>
Temporaries == {<<"temporary", Pid[p], a>> : p \in Packager, a \in 0..Attempts - 1}
Path == {Runtime, Output} \cup Temporaries

RuntimePiece == <<"runtime">>
UnitPiece(u) == <<"unit", u>>
Trailer(n) == <<"trailer", n>>
PiecesOf(units) == [i \in DOMAIN units |-> UnitPiece(units[i])]
Whole(g) == <<RuntimePiece>> \o PiecesOf(Units[g]) \o <<Trailer(Len(Units[g]))>>
Complete(inode) ==
  /\ file[inode].executable
  /\ \E g \in Program : file[inode].pieces = Whole(g)

Idle == [at |-> "idle", program |-> None, attempt |-> 0, inode |-> 0]
Stopped == [at |-> "idle", image |-> 0, units |-> << >>]

(* The installation has the runtime; the output may be there already.      *)
Init ==
  /\ \/ /\ file = <<[pieces |-> <<RuntimePiece>>, executable |-> TRUE]>>
        /\ directory = [f \in Path |-> IF f = Runtime THEN 1 ELSE 0]
     \/ \E g \in Program :
          /\ file = <<[pieces |-> <<RuntimePiece>>, executable |-> TRUE],
                      [pieces |-> Whole(g), executable |-> TRUE]>>
          /\ directory = [f \in Path |-> CASE f = Runtime -> 1 [] f = Output -> 2 [] OTHER -> 0]
  /\ packager = [p \in Packager |-> Idle]
  /\ runner = [r \in Runner |-> Stopped]

----------------------------------------------------------------------------
(* packagedWrite.                                                          *)

At(p, l) == packager[p].at = l
Goto(p, l) == packager' = [packager EXCEPT ![p].at = l]
GiveUp(p) == packager' = [packager EXCEPT ![p] = Idle]
Process == UNCHANGED runner

(* krb build -o output.  A failure before the temporary file exists, such  *)
(* as the output being the runtime itself, changes nothing.                *)
Start(p, g) ==
  /\ At(p, "idle")
  /\ directory[Output] # directory[Runtime]
  /\ packager' = [packager EXCEPT ![p] = [Idle EXCEPT !.at = "open", !.program = g]]
  /\ UNCHANGED <<directory, file>> /\ Process

(* The file is created; fdopen may still fail, and then it is removed.     *)
NewInode(p) ==
  /\ Len(file) < MaxInodes
  /\ file' = Append(file, [pieces |-> << >>, executable |-> FALSE])
  /\ directory' = [directory EXCEPT ![Temporary(p)] = Len(file) + 1]
  /\ \E l \in {"copy", "remove"} :
       packager' = [packager EXCEPT ![p].at = l, ![p].inode = Len(file) + 1]

(* Mutant: without O_EXCL, a file that is already there is overwritten.    *)
OpenOverwriting(p) ==
  /\ At(p, "open") /\ Process
  /\ \/ directory[Temporary(p)] = 0 /\ NewInode(p)
     \/ /\ directory[Temporary(p)] # 0
        /\ file' = [file EXCEPT ![directory[Temporary(p)]].pieces = << >>]
        /\ packager' = [packager EXCEPT ![p].at = "copy",
                                         ![p].inode = directory[Temporary(p)]]
        /\ UNCHANGED directory

(* Mutant: one name more than there are.                                   *)
OpenOneTooMany(p) ==
  /\ At(p, "open") /\ Process
  /\ \/ directory[Temporary(p)] = 0 /\ NewInode(p)
     \/ /\ directory[Temporary(p)] # 0
        /\ packager' = [packager EXCEPT ![p].attempt = @ + 1]
        /\ UNCHANGED <<directory, file>>

(* openTemporaryOutput: O_EXCL, and the next name when this one is taken.  *)
OpenTemporary(p) ==
  /\ At(p, "open") /\ Process
  /\ \/ directory[Temporary(p)] = 0 /\ NewInode(p)
     \/ /\ directory[Temporary(p)] # 0
        /\ IF packager[p].attempt + 1 < Attempts
             THEN packager' = [packager EXCEPT ![p].attempt = @ + 1] ELSE GiveUp(p)
        /\ UNCHANGED <<directory, file>>

Write(p, pieces) == file' = [file EXCEPT ![packager[p].inode].pieces = @ \o pieces]

(* copyStream, the payload and writeTrailer; a failed write leaves a part  *)
(* of what it was given.                                                   *)
CopyRuntime(p) ==
  /\ At(p, "copy") /\ Write(p, <<RuntimePiece>>) /\ Goto(p, "payload")
  /\ UNCHANGED directory /\ Process

WritePayload(p) ==
  /\ At(p, "payload")
  /\ LET units == Units[packager[p].program]
     IN  \E n \in 0..Len(units) :
           /\ Write(p, PiecesOf(SubSeq(units, 1, n)))
           /\ Goto(p, IF n = Len(units) THEN "trailer" ELSE "remove")
  /\ UNCHANGED directory /\ Process

WriteTrailer(p) ==
  /\ At(p, "trailer") /\ Write(p, <<Trailer(Len(Units[packager[p].program]))>>)
  /\ Goto(p, "executable")
  /\ UNCHANGED directory /\ Process

MakeExecutable(p) ==
  /\ At(p, "executable")
  /\ file' = [file EXCEPT ![packager[p].inode].executable = TRUE]
  /\ Goto(p, "rename")
  /\ UNCHANGED directory /\ Process

(* rename gives the output's name to what the temporary name stands for.   *)
Moved(p) == [directory EXCEPT ![Output] = directory[Temporary(p)], ![Temporary(p)] = 0]

(* Mutant: the file is moved before makeExecutable.                        *)
RenameFirst(p) ==
  /\ At(p, "executable") /\ directory' = Moved(p) /\ GiveUp(p)
  /\ UNCHANGED file /\ Process

(* rename replaces the output, whatever it was by now, in one step.        *)
Rename(p) ==
  /\ At(p, "rename") /\ directory' = Moved(p) /\ GiveUp(p)
  /\ UNCHANGED file /\ Process

(* A system call fails: everything after the open leads to remove.         *)
Fail(p) ==
  /\ \/ packager[p].at \in {"copy", "payload", "trailer", "executable", "rename"} /\ Goto(p, "remove")
     \/ At(p, "open") /\ GiveUp(p)
  /\ UNCHANGED <<directory, file>> /\ Process

(* copyStream has no memory for its chunk and exits: no one removes.       *)
NoMemory(p) ==
  /\ At(p, "copy") /\ GiveUp(p)
  /\ UNCHANGED <<directory, file>> /\ Process

(* remove(), whose result nobody looks at.                                 *)
RemoveTemporary(p) ==
  /\ At(p, "remove") /\ GiveUp(p)
  /\ directory' \in {directory, [directory EXCEPT ![Temporary(p)] = 0]}
  /\ UNCHANGED file /\ Process

(* The process is killed; another one may have its pid later.              *)
Kill(p) ==
  /\ ~At(p, "idle") /\ GiveUp(p)
  /\ UNCHANGED <<directory, file>> /\ Process

----------------------------------------------------------------------------
(* main of runtime.c.                                                      *)

RunnerAt(r, l) == runner[r].at = l
Files == UNCHANGED <<directory, file, packager>>

(* The system starts the file; it keeps that inode while it runs.          *)
Exec(r) ==
  /\ RunnerAt(r, "idle") /\ directory[Output] # 0
  /\ file[directory[Output]].executable
  /\ runner' = [runner EXCEPT ![r] = [Stopped EXCEPT !.at = "path", !.image = directory[Output]]]
  /\ Files

(* packagedSelfPath: /proc/self/exe names the output as long as the output *)
(* is the file that was started; then it names a file that is not there    *)
(* and packagedRead fails.                                                 *)
SelfPath(r) ==
  /\ RunnerAt(r, "path")
  /\ runner' = [runner EXCEPT ![r] =
       IF directory[Output] = runner[r].image THEN [runner[r] EXCEPT !.at = "read"] ELSE Stopped]
  /\ Files

(* packagedRead: the trailer at the end says how much payload precedes it. *)
ReadStatus(pieces) ==
  IF Len(pieces) = 0 \/ Last(pieces)[1] # "trailer" THEN "no program"
  ELSE IF Last(pieces)[2] > Len(pieces) - 1 THEN "damaged"
  ELSE "ok"

(* Mutant: the payload is looked for from the start of the file.           *)
PayloadFromStart(pieces) ==
  IF ReadStatus(pieces) # "ok" THEN << >> ELSE SubSeq(pieces, 1, Last(pieces)[2])

PayloadOf(pieces) ==
  IF ReadStatus(pieces) # "ok" THEN << >>
  ELSE SubSeq(pieces, Len(pieces) - Last(pieces)[2], Len(pieces) - 1)

(* readPayload opens the path anew; decodeUnits decodes every unit before  *)
(* any runs, and stops the process when there is none.                     *)
ReadAndRun(r) ==
  /\ RunnerAt(r, "read")
  /\ LET units == PayloadOf(file[directory[Output]].pieces)
     IN  runner' = [runner EXCEPT ![r] =
           IF units = << >> THEN Stopped ELSE [runner[r] EXCEPT !.at = "run", !.units = units]]
  /\ Files

Exit(r) ==
  /\ RunnerAt(r, "run")
  /\ runner' = [runner EXCEPT ![r] = Stopped]
  /\ Files

Next ==
  \/ \E p \in Packager :
       \/ \E g \in Program : Start(p, g)
       \/ OpenTemporary(p) \/ CopyRuntime(p) \/ WritePayload(p) \/ WriteTrailer(p) \/ MakeExecutable(p)
       \/ Rename(p) \/ Fail(p) \/ NoMemory(p) \/ RemoveTemporary(p) \/ Kill(p)
  \/ \E r \in Runner : Exec(r) \/ SelfPath(r) \/ ReadAndRun(r) \/ Exit(r)

Spec == Init /\ [][Next]_vars

----------------------------------------------------------------------------
(* Properties.                                                             *)

Writing == {"copy", "payload", "trailer", "executable", "rename", "remove"}
Piece == {RuntimePiece} \cup {UnitPiece(u) : u \in Unit}
         \cup {Trailer(Len(Units[g])) : g \in Program}

(* State of a directory, its files and the processes.                      *)
TypeOK ==
  /\ directory \in [Path -> 0..Len(file)]
  /\ file \in Seq([pieces : Seq(Piece), executable : BOOLEAN])
  /\ Len(file) <= MaxInodes
  /\ packager \in [Packager -> [at : {"idle", "open"} \cup Writing, program : Program \cup {None},
                                 attempt : 0..Attempts - 1, inode : 0..Len(file)]]
  /\ runner \in [Runner -> [at : {"idle", "path", "read", "run"}, image : 0..Len(file),
                             units : Seq(Piece)]]

(* Whoever looks at the output, at any moment and after any failure or     *)
(* kill, sees a complete program that can be started (openTemporaryOutput, *)
(* "a failure never touches an output that already exists").               *)
OutputIsWhole == directory[Output] # 0 => Complete(directory[Output])

(* A packager owns the file it writes: its temporary name stands for that  *)
(* file until it moves or removes it, nobody else writes to it, and it is  *)
(* neither the runtime nor the output, even when two packagers have one    *)
(* pid or one was killed before.                                           *)
WritersOwnTheirFile ==
  \A p \in Packager : packager[p].at \in Writing =>
    /\ directory[Temporary(p)] = packager[p].inode
    /\ packager[p].inode \notin {directory[Output], directory[Runtime]}
    /\ \A q \in Packager \ {p} :
         packager[q].at \in Writing => packager[q].inode # packager[p].inode

(* A started program runs all units of one program in their order, never   *)
(* a part and never a mixture, whatever packagers do in the meantime.      *)
RunsWholePrograms ==
  \A r \in Runner : runner[r].at = "run" =>
    \E g \in Program : runner[r].units = PiecesOf(Units[g])

(* A started program runs the units of the file it was started from        *)
(* (runtime.c: "This reads them from its own file").                       *)
RunsItsOwnUnits ==
  \A r \in Runner : runner[r].at = "run" =>
    runner[r].units = PayloadOf(file[runner[r].image].pieces)
=============================================================================
