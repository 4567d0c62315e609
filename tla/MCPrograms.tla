------------------------------- MODULE MCPrograms -------------------------------
(***************************************************************************)
(* The programs of the laboratories that have nothing to do with each other *)
(* and few states, model-checked together: which of them runs is chosen in  *)
(* the beginning and does not change.  The threads of ImageNegative have    *)
(* variables of their own, the other programs use v1, v2, ... in the order  *)
(* in which their modules declare them.                                     *)
(***************************************************************************)
EXTENDS ImageNegative, Sequences

CONSTANTS Clients, MaxClients, ServerLimit, ClientLimit, MaxMsgs,  \* ChatPosix
          MaxSignals,                                              \* SignalsBurst, SignalsConfirmed
          Producers, Consumers, MaxChunks, MaxNewlines,            \* Fifo
          Pipelines, NoLines, NoDeclarations, Items, Capacity, MaxRuns,  \* Pipeline
          MaxProcesses,                                            \* Integral
          Entries, Root, MaxDepth                                  \* FileSearch

ASSUME Bounds == /\ MaxClients \in Nat /\ MaxSignals \in Nat /\ MaxChunks \in Nat
                 /\ NoLines \in Nat /\ NoDeclarations \in Nat /\ Items \in Nat /\ MaxRuns \in Nat /\ MaxProcesses \in Nat
                 /\ MaxDepth \in Nat
ASSUME SomeRoom == Capacity \in Nat \ {0}
ASSUME ShortLines == \A line \in Pipelines : line \in Seq(STRING) /\ Len(line) \in 1 .. 3
ASSUME SlotsAreNoClients == "free" \notin Clients /\ "failed" \notin Clients
ASSUME RealProducers == Producers \subseteq Nat \ {0} /\ IsFiniteSet(Consumers)

VARIABLES program, v1, v2, v3, v4, v5, v6, v7, v8, v9, v10, v11

Posix == INSTANCE ChatPosix WITH
  CLIENT_QUEUES <- v1, server <- v2, work <- v3, server_queue <- v4, queue <- v5, exists <- v6,
  id <- v7, parent <- v8, child <- v9, out <- v10, typed <- v11
Burst == INSTANCE SignalsBurst WITH
  mode <- v1, signals_count <- v2, sender <- v3, unsent <- v4, pending <- v5, received <- v6,
  catcher <- v7, blocked <- v8, mode_set <- v9, unanswered <- v10, exit_code <- v11
Confirmed == INSTANCE SignalsConfirmed WITH
  signals_count <- v1, at <- v2, masked <- v3, pending <- v4, sent <- v5, received <- v6,
  early <- v7
ManyToMany == INSTANCE Fifo WITH
  text <- v1, producer <- v2, written <- v3, fifo <- v4, consumer <- v5, got <- v6,
  copy <- v7, results <- v8, disturbed <- v9
Interpreter == INSTANCE Pipeline WITH
  file <- v1, buffered <- v2, offset <- v3, runs <- v4, interpreter <- v5, part <- v6,
  process <- v7, held <- v8, taken <- v9, pipe <- v10
Area == INSTANCE Integral WITH
  no_processes <- v1, parent <- v2, i <- v3, child <- v4, reaped <- v5, directory <- v6,
  files <- v7, added <- v8
Search == INSTANCE FileSearch WITH
  max_depth <- v1, terminal <- v2, unreadable <- v3, process <- v4, remaining <- v5,
  next <- v6, pids <- v7, reaped <- v8, buffer <- v9, output <- v10

(* Directories make a tree, which a search does not leave: links are not followed. *)
ASSUME RealTree == Search!IsTree

-------------------------------------------------------------------------------
(* The images, pipelines and directories of the instance *)

(* Images whose colours rise by a step from row to row and by another from column *)
(* to column: every colour, equal and different, in any order of the columns.     *)
Colour == 0 .. MAX_POSSIBLE_COLOR
Stripes == {[p \in Cells |-> (a + b * p[1] + c * p[2]) % (MAX_POSSIBLE_COLOR + 1)] :
              a \in Colour, b \in Colour, c \in Colour}

Lines == {<<"cat">>, <<"cat", "head">>, <<"cat", "grep", "cat">>, <<"cat", "cat", "head">>,
          <<"grep", "missing">>, <<"cat", "missing">>, <<"missing", "missing">>}

Tree == [top |-> <<"a", "left", "b", "right">>, left |-> <<"c", "deep">>,
         right |-> <<"d">>, deep |-> <<"e">>]

-------------------------------------------------------------------------------
(* The image is not computed while another program runs. *)
NoImage ==
  /\ no_threads = 1 /\ method = "block" /\ source_image = [p \in Cells |-> 0]
  /\ result_image = source_image /\ new_M = 0 /\ created = 0 /\ joined = 0
  /\ left = [t \in Threads |-> {}] /\ compared = [t \in Threads |-> None] /\ main = "failed"

(* The variables from one on, which a program with fewer does not use. *)
From11 == v11 = None
From10 == v10 = None /\ From11
From9 == v9 = None /\ From10
From8 == v8 = None /\ From9
From1 == /\ v1 = None /\ v2 = None /\ v3 = None /\ v4 = None /\ v5 = None /\ v6 = None /\ v7 = None
         /\ From8

ProgramsInit ==
  \/ program = "image" /\ Init /\ From1
  \/ program = "chat" /\ NoImage /\ Posix!Init
  \/ program = "burst" /\ NoImage /\ Burst!Init
  \/ program = "confirmed" /\ NoImage /\ Confirmed!Init /\ From8
  \/ program = "fifo" /\ NoImage /\ ManyToMany!Init /\ From10
  \/ program = "pipeline" /\ NoImage /\ Interpreter!Init /\ From11
  \/ program = "integral" /\ NoImage /\ Area!Init /\ From9
  \/ program = "search" /\ NoImage /\ Search!Init /\ From11

ProgramsNext ==
  /\ UNCHANGED program
  /\ \/ /\ program = "image" /\ Next
        /\ UNCHANGED <<v1, v2, v3, v4, v5, v6, v7, v8, v9, v10, v11>>
     \/ program = "chat" /\ Posix!Next /\ UNCHANGED vars
     \/ program = "burst" /\ Burst!Next /\ UNCHANGED vars
     \/ program = "confirmed" /\ Confirmed!Next /\ UNCHANGED <<vars, v8, v9, v10, v11>>
     \/ program = "fifo" /\ ManyToMany!Next /\ UNCHANGED <<vars, v10, v11>>
     \/ program = "pipeline" /\ Interpreter!Next /\ UNCHANGED <<vars, v11>>
     \/ program = "integral" /\ Area!Next /\ UNCHANGED <<vars, v9, v10, v11>>
     \/ program = "search" /\ Search!Next /\ UNCHANGED <<vars, v11>>

programVars == <<program, vars, v1, v2, v3, v4, v5, v6, v7, v8, v9, v10, v11>>
ProgramsSpec == ProgramsInit /\ [][ProgramsNext]_programVars

-------------------------------------------------------------------------------
(* Lab 6, zad2: no client loses its place in the server's table to another one's STOP. *)
ChatKeepsItsPlace == program = "chat" => Posix!KeepsItsPlace

(* Lab 6, zad2: a child of a client that waits for the list is not forgotten. *)
ListIsComing == program = "chat" => Posix!ListIsComing

(* Lab 4, zad3a: queued signals are all counted, and as many are sent back. *)
SendsBackWhatItCounted == program = "burst" => Burst!SendsBackWhatItCounted

(* Lab 4, zad3b: the exchange of signals and confirmations comes to its end on both sides,  *)
(* and what was sent and received agrees, but for an answer that is faster than the sender. *)
EndsInAgreement == program = "confirmed" => Confirmed!EndsInAgreement

(* Lab 5, zad3: every chunk of a producer is in exactly one place on its way to the results, *)
(* and there in the producer's line as long as no newline was read that moves the lines.      *)
NothingIsLost == program = "fifo" => ManyToMany!NothingIsLost

(* Lab 5, zad1: no end of a pipe that was left open keeps the programs of a line waiting. *)
ProgramsGoOn == program = "pipeline" => Interpreter!ProgramsGoOn

(* Lab 5, zad1: the lines of the file are run in order, once if their programs exist, and the *)
(* lines after it at most once again if one program is missing.                               *)
LinesRunInOrder == program = "pipeline" => Interpreter!LinesRunInOrder

(* Lab 3, zad2: an integral that is printed is the sum of all parts, read after they were written. *)
ResultIsWhole == program = "integral" => Area!ResultIsWhole

(* Lab 3, zad3: a search that succeeds has put out all files, and nobody searches any more, *)
(* but in and below directories whose process was killed.                                    *)
EveryFileIsListed == program = "search" => Search!EveryFileIsListed
================================================================================
