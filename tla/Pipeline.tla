-------------------------------- MODULE Pipeline --------------------------------
(***************************************************************************)
(* Laboratory 5, zad1: an interpreter runs the lines of a file, each a      *)
(* pipeline of programs, one after the other.  The file is read through a   *)
(* buffer that takes all of it, and its offset is shared with the children: *)
(* one that cannot exec() calls exit(), which moves the offset back by what *)
(* is unread in its buffer, the lines after its own, from wherever it is.   *)
(* All lines are equally long: otherwise the offset may come to be within   *)
(* a line.                                                                  *)
(*                                                                          *)
(* A program copies its input ("cat"), takes one item of it ("head"), finds *)
(* nothing in it and fails ("grep"), or does not exist ("missing"); the     *)
(* first one of a line makes its items.  Which ends of a pipe are open, and *)
(* where, follows from where the processes are.  The declarations, the      *)
(* first lines of the file, from which the others are put together before   *)
(* any runs, are only skipped; a failing pipe() and what is printed are     *)
(* left out.                                                                *)
(***************************************************************************)
EXTENDS Integers, Sequences

CONSTANTS Pipelines,       \* the lines that a file may have: sequences of programs
          NoLines,         \* lines in the file
          NoDeclarations,  \* lines before them
          Items,           \* items that the first program of a line makes
          Capacity,        \* items that fit in a pipe
          MaxRuns          \* bound: lines run, those run again included

VARIABLES
  file,         \* the lines
  buffered,     \* the lines in the buffer are buffered .. NoLines
  offset,       \* the next line to be read into the buffer, a declaration if it is below 1
  runs,         \* the lines that were run, in order
  interpreter,  \* "next", "fork", "wait" or "done"
  part,         \* the program it forks or waits for
  process,      \* run -> program -> "none", "new", "runs", "ok", "failed" or "killed"
  held,         \* run -> program -> it has an item to write
  taken,        \* run -> program -> items it has read or made
  pipe          \* run -> program -> items in the pipe it writes to

vars == <<file, buffered, offset, runs, interpreter, part, process, held, taken, pipe>>
processVars == <<process, held, taken, pipe>>
interpreterVars == <<buffered, runs, interpreter, part>>

MaxParts == 3
Runs == 1 .. MaxRuns
All(value) == [r \in Runs |-> [k \in 1 .. MaxParts |-> value]]

(* Mutant: the file is not rewound after its lines were counted and read once (fseek). *)
InitWithoutRewind ==
  /\ file \in [1 .. NoLines -> Pipelines]
  /\ buffered = NoLines + 1 /\ offset = NoLines + 1 /\ runs = <<>>
  /\ interpreter = "next" /\ part = 0
  /\ process = All("none") /\ held = All(FALSE) /\ taken = All(0) /\ pipe = All(0)

Init ==
  /\ file \in [1 .. NoLines -> Pipelines]
  /\ buffered = NoLines + 1 /\ offset = 1 - NoDeclarations /\ runs = <<>>
  /\ interpreter = "next" /\ part = 0
  /\ process = All("none") /\ held = All(FALSE) /\ taken = All(0) /\ pipe = All(0)

This == Len(runs)
Parts(r) == IF r <= This THEN Len(file[runs[r]]) ELSE 0
Program(r, k) == file[runs[r]][k]
Exists(r, k) == k \in 1 .. Parts(r) /\ process[r][k] \in {"new", "runs"}

-------------------------------------------------------------------------------
(* The interpreter *)

(* getline: the buffer is filled when it is empty. *)
NextLine == IF buffered <= NoLines THEN buffered ELSE IF offset < 1 THEN 1 ELSE offset
exec_commands ==
  /\ interpreter = "next"
  /\ LET line == NextLine IN
       IF line > NoLines
       THEN interpreter' = "done" /\ UNCHANGED <<buffered, offset, runs, part>>
       ELSE /\ This < MaxRuns /\ runs' = Append(runs, line)
            /\ buffered' = line + 1
            /\ offset' = IF buffered <= NoLines THEN offset ELSE NoLines + 1
            /\ interpreter' = "fork" /\ part' = 1
  /\ UNCHANGED <<file, processVars>>

(* A child that is forked takes over the pipe before it; the interpreter closes that pipe. *)
exec_command_line ==
  /\ interpreter = "fork"
  /\ \/ /\ process' = [process EXCEPT ![This][part] = "new"]
        /\ IF part < Parts(This) THEN part' = part + 1 /\ UNCHANGED interpreter
                                 ELSE part' = 1 /\ interpreter' = "wait"
     \/ interpreter' = "next" /\ UNCHANGED <<process, part>>  \* fork failed
  /\ UNCHANGED <<file, buffered, offset, runs, held, taken, pipe>>

(* The wait is over when all have ended, or one has failed. *)
check_processes_status ==
  /\ interpreter = "wait" /\ ~Exists(This, part)
  /\ IF process[This][part] # "failed" /\ part < Parts(This)
     THEN part' = part + 1 /\ UNCHANGED interpreter
     ELSE interpreter' = "next" /\ UNCHANGED part
  /\ UNCHANGED <<file, buffered, offset, runs, processVars>>

-------------------------------------------------------------------------------
(* A child *)

InterpreterHolds(r, k) == r = This /\ interpreter = "fork" /\ part = k + 1

(* Mutant: the child keeps the end of the pipe that is written to (prev_fd[WRITE_FD]). *)
HasWriterOfItsOwn(r, k) ==
  Exists(r, k) \/ InterpreterHolds(r, k) \/ Exists(r, k + 1)
HasWriter(r, k) ==
  Exists(r, k) \/ InterpreterHolds(r, k) \/ (Exists(r, k + 1) /\ process[r][k + 1] = "new")
HasReader(r, k) ==
  Exists(r, k + 1) \/ InterpreterHolds(r, k) \/ (Exists(r, k) /\ process[r][k] = "new")

Becomes(r, k, state) == process' = [process EXCEPT ![r][k] = state]

(* exit() of a child: lseek by what is unread, from where the offset is; not before the file. *)
MovedBack(unread) == IF offset - unread < 1 - NoDeclarations THEN offset ELSE offset - unread

Exec(r, k) ==
  /\ Exists(r, k) /\ process[r][k] = "new"
  /\ IF Program(r, k) = "missing"
     THEN Becomes(r, k, "failed") /\ offset' = MovedBack(NoLines - runs[r])
     ELSE Becomes(r, k, "runs") /\ UNCHANGED offset
  /\ UNCHANGED <<file, interpreterVars, held, taken, pipe>>

Working(r, k) == Exists(r, k) /\ process[r][k] = "runs"
Full(r, k) == k < Parts(r) /\ pipe[r][k] = Capacity
Satisfied(r, k) == \/ Program(r, k) = "head" /\ taken[r][k] = 1
                   \/ k = 1 /\ (taken[r][k] = Items \/ Program(r, k) = "grep")
CanRead(r, k) == ~held[r][k] /\ ~Satisfied(r, k) /\ (k > 1 => pipe[r][k - 1] > 0)
AtEnd(r, k) == ~held[r][k] /\ (Satisfied(r, k) \/ (k > 1 /\ pipe[r][k - 1] = 0 /\ ~HasWriter(r, k - 1)))

Read(r, k) ==
  /\ Working(r, k) /\ CanRead(r, k)
  /\ pipe' = IF k = 1 THEN pipe ELSE [pipe EXCEPT ![r][k - 1] = @ - 1]
  /\ taken' = [taken EXCEPT ![r][k] = IF Program(r, k) = "grep" THEN @ ELSE @ + 1]
  /\ held' = [held EXCEPT ![r][k] = Program(r, k) # "grep"]
  /\ UNCHANGED <<file, interpreterVars, offset, process>>

(* Writing to a pipe that nobody reads ends a program (SIGPIPE); the last one prints. *)
Write(r, k) ==
  /\ Working(r, k) /\ held[r][k] /\ held' = [held EXCEPT ![r][k] = FALSE]
  /\ IF k < Parts(r) /\ ~HasReader(r, k)
     THEN Becomes(r, k, "killed") /\ UNCHANGED pipe
     ELSE /\ ~Full(r, k) /\ UNCHANGED process
          /\ pipe' = IF k < Parts(r) THEN [pipe EXCEPT ![r][k] = @ + 1] ELSE pipe
  /\ UNCHANGED <<file, interpreterVars, offset, taken>>

Exit(r, k) ==
  /\ Working(r, k) /\ AtEnd(r, k)
  /\ Becomes(r, k, IF Program(r, k) = "grep" THEN "failed" ELSE "ok")
  /\ UNCHANGED <<file, interpreterVars, offset, held, taken, pipe>>

Child(r, k) == Exec(r, k) \/ Read(r, k) \/ Write(r, k) \/ Exit(r, k)

Next == \/ exec_commands \/ exec_command_line \/ check_processes_status
        \/ \E r \in Runs, k \in 1 .. MaxParts : Child(r, k)

Spec == Init /\ [][Next]_vars

-------------------------------------------------------------------------------
Waits(r, k) ==
  Working(r, k) /\ IF held[r][k] THEN Full(r, k) /\ HasReader(r, k)
                                 ELSE ~CanRead(r, k) /\ ~AtEnd(r, k)

(* Whenever the interpreter waits, or has ended, some program that still runs can go on: no   *)
(* pipe is kept open by somebody who will never write to it or read it (exec_command_line,    *)
(* the close() calls of both sides), whichever programs fail, end early or cannot be started. *)
ProgramsGoOn ==
  interpreter \in {"wait", "done"} /\ (\E r \in Runs, k \in 1 .. MaxParts : Exists(r, k)) =>
    \E r \in Runs, k \in 1 .. MaxParts : Exists(r, k) /\ ~Waits(r, k)

Missing(n, k) == k \in DOMAIN file[n] /\ file[n][k] = "missing"
NoneMissing == \A n \in 1 .. NoLines, k \in 1 .. MaxParts : ~Missing(n, k)
OnlyMissing(i, j) ==
  \A n \in 1 .. NoLines, k \in 1 .. MaxParts : Missing(n, k) <=> n = i /\ k = j

(* All lines in order, and then those after one of them again. *)
RunAgainAfter(i) ==
  runs = [r \in 1 .. NoLines + NoLines - i |-> IF r <= NoLines THEN r ELSE r - NoLines + i]

(* Every line is run, in the order of the file, before any is run again, and none is if every *)
(* program exists.  If one program is missing, the lines after its own are run again at most  *)
(* once (exit of the child in exec_command_line).  Of more nothing is promised: the offset is *)
(* moved for each of them.                                                                    *)
LinesRunInOrder ==
  interpreter = "done" =>
    /\ This >= NoLines /\ \A n \in 1 .. NoLines : runs[n] = n
    /\ NoneMissing => This = NoLines
    /\ \A i \in 1 .. NoLines, j \in 1 .. MaxParts :
         OnlyMissing(i, j) => This = NoLines \/ RunAgainAfter(i)

-------------------------------------------------------------------------------
(* The inductive invariant *)

States == {"none", "new", "runs", "ok", "failed", "killed"}
EachPart(S) == [Runs -> [1 .. MaxParts -> S]]

TypeOK ==
  /\ file \in [1 .. NoLines -> Pipelines]
  /\ buffered \in 1 .. NoLines + 1 /\ offset \in 1 - NoDeclarations .. NoLines + 1
  /\ runs \in Seq(1 .. NoLines) /\ This <= MaxRuns
  /\ interpreter \in {"next", "fork", "wait", "done"}
  /\ interpreter \in {"fork", "wait"} => runs # <<>> /\ part \in 1 .. Parts(This)
  /\ process \in EachPart(States) /\ held \in EachPart(BOOLEAN)
  /\ taken \in EachPart(Nat) /\ pipe \in EachPart(Nat)

(* The buffer holds what is after the line that was run last, in the beginning the whole file. *)
FirstPass ==
  /\ buffered = IF runs = <<>> THEN NoLines + 1 ELSE runs[This] + 1
  /\ runs = <<>> => offset < 1 \/ offset = 1
  /\ \A r \in 1 .. This : r <= NoLines => runs[r] = r
  /\ interpreter = "done" => This >= NoLines

(* A program is started once. *)
Unforked ==
  \A r \in Runs, k \in 1 .. MaxParts :
    r > This \/ (r = This /\ interpreter = "fork" /\ k >= part) => process[r][k] = "none"

(* Nobody moves the offset back while every program exists, and a single missing one does once. *)
Straight == NoneMissing => This <= NoLines /\ (runs # <<>> => offset = NoLines + 1)
Started(n, k) == process[n][k] \in {"runs", "ok", "failed", "killed"}
MovedOnce ==
  \A i \in 1 .. NoLines, j \in 1 .. MaxParts : OnlyMissing(i, j) =>
    /\ \A r \in 1 .. This : r > NoLines => runs[r] = r - NoLines + i
    /\ runs # <<>> =>
         offset = IF This <= NoLines /\ i \in Runs /\ Started(i, j) THEN i + 1 ELSE NoLines + 1
    /\ This > NoLines => Started(i, j)
    /\ interpreter = "done" => This = NoLines \/ This = NoLines + NoLines - i

IInv == TypeOK /\ FirstPass /\ Unforked /\ Straight /\ MovedOnce
================================================================================
