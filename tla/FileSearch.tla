------------------------------- MODULE FileSearch -------------------------------
(***************************************************************************)
(* Laboratory 3, zad3: a string is searched for in the files of a directory *)
(* tree, down to a depth, by one process for every directory.  A process    *)
(* prints a line for each file, forks a child for each subdirectory, and at *)
(* the end waits for its children.  Unless the output is a terminal, lines  *)
(* stay in a buffer until the process ends, and a child starts with a copy  *)
(* of that buffer.                                                          *)
(*                                                                          *)
(* The process of a directory has the name of the directory.  Whether a     *)
(* file has the string is left out.                                         *)
(***************************************************************************)
EXTENDS Integers, Sequences, FiniteSets

CONSTANTS Entries,  \* directory -> what is in it, in the order of readdir
          Root,     \* start_path
          MaxDepth  \* bound: max_depth asked for

Dirs == DOMAIN Entries
Inside(d) == {Entries[d][n] : n \in DOMAIN Entries[d]}
Files == (UNION {Inside(d) : d \in Dirs}) \ Dirs

VARIABLES
  max_depth, terminal, unreadable,  \* the input; unreadable files and directories
  process,    \* directory -> "none", "search", "wait", "ok", "failed" or "killed"
  remaining,  \* directory -> remaining_depth
  next,       \* directory -> the entry it comes to
  pids,       \* directory -> the children it has to wait for; AnyChild for one that was not forked
  reaped,     \* the processes that were waited for
  buffer,     \* directory -> file -> its lines in the buffer
  output      \* file -> lines that were put out

vars == <<max_depth, terminal, unreadable, process, remaining, next, pids, reaped, buffer, output>>
input == <<max_depth, terminal, unreadable>>

AnyChild == "any"
NoOutput == [f \in Files |-> 0]

(* What is searched is a tree: every entry is in one directory, once, and links are not followed. *)
IsTree ==
  /\ IsFiniteSet(Dirs) /\ Root \in Dirs /\ AnyChild \notin Dirs
  /\ \A d \in Dirs : Entries[d] \in Seq(STRING) /\ Root \notin Inside(d)
  /\ \A d, e \in Dirs : \A n \in DOMAIN Entries[d], k \in DOMAIN Entries[e] :
       Entries[d][n] = Entries[e][k] => d = e /\ n = k
  /\ \A d \in Dirs \ {Root} : \E e \in Dirs : d \in Inside(e)
  /\ \E level \in [Dirs -> 0 .. Cardinality(Dirs)] :
       level[Root] = 0 /\ \A d, e \in Dirs : e \in Inside(d) => level[e] = level[d] + 1

Init ==
  /\ max_depth \in 0 .. MaxDepth /\ terminal \in BOOLEAN
  /\ \E e \in Dirs \cup Files : unreadable \in {{}, {e}}
  /\ process = [d \in Dirs |-> IF d = Root THEN "search" ELSE "none"]
  /\ remaining = [d \in Dirs |-> IF d = Root THEN max_depth ELSE 0]
  /\ next = [d \in Dirs |-> 1] /\ pids = [d \in Dirs |-> <<>>] /\ reaped = {}
  /\ buffer = [d \in Dirs |-> NoOutput] /\ output = NoOutput

-------------------------------------------------------------------------------
(* exit: what is in the buffer is put out. *)
Exit(d, state) ==
  /\ process' = [process EXCEPT ![d] = state]
  /\ output' = [f \in Files |-> output[f] + buffer[d][f]]
  /\ UNCHANGED <<input, remaining, next, pids, buffer>>

Searches(d) == process[d] = "search"
HasMore(d) == next[d] <= Len(Entries[d])
Entry(d) == Entries[d][next[d]]

TooDeep(d) == Searches(d) /\ remaining[d] <= 0 /\ Exit(d, "ok") /\ UNCHANGED reaped

(* A directory or file that cannot be opened ends the search, and no child is waited for. *)
Error(d) ==
  /\ Searches(d) /\ remaining[d] > 0
  /\ d \in unreadable \/ (HasMore(d) /\ Entry(d) \in Files \cap unreadable)
  /\ Exit(d, "failed") /\ UNCHANGED reaped

Visits(d) ==
  /\ Searches(d) /\ remaining[d] > 0 /\ d \notin unreadable /\ HasMore(d)
  /\ next' = [next EXCEPT ![d] = @ + 1] /\ UNCHANGED <<input, reaped>>

search_str_in_file(d) ==
  /\ Visits(d) /\ Entry(d) \in Files \ unreadable
  /\ IF terminal THEN output' = [output EXCEPT ![Entry(d)] = @ + 1] /\ UNCHANGED buffer
                 ELSE buffer' = [buffer EXCEPT ![d][Entry(d)] = @ + 1] /\ UNCHANGED output
  /\ UNCHANGED <<process, remaining, pids>>

Fork(d) ==
  /\ Visits(d) /\ Entry(d) \in Dirs
  /\ \/ /\ process' = [process EXCEPT ![Entry(d)] = "search"]
        /\ remaining' = [remaining EXCEPT ![Entry(d)] = remaining[d] - 1]
        /\ buffer' = [buffer EXCEPT ![Entry(d)] = buffer[d]]
        /\ pids' = [pids EXCEPT ![d] = Append(@, Entry(d))]
     \/ pids' = [pids EXCEPT ![d] = Append(@, AnyChild)] /\ UNCHANGED <<process, remaining, buffer>>
  /\ UNCHANGED output

closedir(d) ==
  /\ Searches(d) /\ remaining[d] > 0 /\ d \notin unreadable /\ ~HasMore(d)
  /\ process' = [process EXCEPT ![d] = "wait"]
  /\ UNCHANGED <<input, remaining, next, pids, reaped, buffer, output>>

(* A process that is killed puts out nothing more. *)
Killed(d) ==
  /\ process[d] \in {"search", "wait"}
  /\ process' = [process EXCEPT ![d] = "killed"]
  /\ UNCHANGED <<input, remaining, next, pids, reaped, buffer, output>>

(* Mutant: the children are not waited for. *)
check_children_statusNot(d) == process[d] = "wait" /\ Exit(d, "ok") /\ UNCHANGED reaped

(* A child that was not forked has the pid -1, for which waitpid waits for any child.  One *)
(* that was killed has not exited, and passes like one that ended well.                    *)
check_children_status(d) ==
  /\ process[d] = "wait"
  /\ IF pids[d] = <<>> THEN Exit(d, "ok") /\ UNCHANGED reaped
     ELSE LET children == {e \in Inside(d) \cap Dirs : process[e] # "none"} \ reaped
              waited == IF Head(pids[d]) = AnyChild THEN children ELSE {Head(pids[d])} \cap children
          IN \/ waited = {} /\ Exit(d, "failed") /\ UNCHANGED reaped
             \/ \E e \in waited :
                  /\ process[e] \in {"ok", "failed", "killed"} /\ reaped' = reaped \cup {e}
                  /\ IF process[e] = "failed" THEN Exit(d, "failed")
                     ELSE /\ pids' = [pids EXCEPT ![d] = Tail(@)]
                          /\ UNCHANGED <<input, process, remaining, next, buffer, output>>

Next == \E d \in Dirs : \/ TooDeep(d) \/ Error(d) \/ search_str_in_file(d) \/ Fork(d)
                        \/ closedir(d) \/ check_children_status(d) \/ Killed(d)

Spec == Init /\ [][Next]_vars

-------------------------------------------------------------------------------
Parent(d) == CHOOSE e \in Dirs : d \in Inside(e)
Level[d \in Dirs] == IF d = Root THEN 0 ELSE Level[Parent(d)] + 1
Reached == (UNION {Inside(d) : d \in {e \in Dirs : Level[e] < max_depth}}) \cap Files

(* The directories of which no process was killed, nor one above. *)
Unharmed ==
  UNION {part \in SUBSET Dirs :
           \A d \in part : process[d] # "killed" /\ (d = Root \/ Parent(d) \in part)}

(* A search that succeeds has put out every file down to the depth asked for, none below it,  *)
(* and every process has ended by then, except for what is in or below a directory whose      *)
(* process was killed, which is not noticed (check_children_status).  On a terminal each file  *)
(* has one line, elsewhere it may have more, of buffers that were copied (search_files_recur). *)
EveryFileIsListed ==
  process[Root] = "ok" =>
    /\ \A d \in Unharmed : \A f \in Inside(d) \cap Reached : output[f] >= 1
    /\ \A f \in Files \ Reached : output[f] = 0
    /\ terminal => \A f \in Files : output[f] <= 1
    /\ \A d \in Unharmed : process[d] \notin {"search", "wait"}
-------------------------------------------------------------------------------
(* The inductive invariant *)

Visited(d) == {n \in DOMAIN Entries[d] : n < next[d]}
VisitedDirs(d) == {n \in Visited(d) : Entries[d][n] \in Dirs}
WaitedFor(d) == {n \in VisitedDirs(d) : Entries[d][n] \in reaped}

TypeOK ==
  /\ max_depth \in Nat /\ terminal \in BOOLEAN
  /\ process \in [Dirs -> {"none", "search", "wait", "ok", "failed", "killed"}] /\ remaining \in [Dirs -> Int]
  /\ next \in [Dirs -> Nat \ {0}] /\ pids \in [Dirs -> Seq(Dirs \cup {AnyChild})] /\ reaped \subseteq Dirs
  /\ \A d \in reaped : process[d] \in {"ok", "failed", "killed"}
  /\ buffer \in [Dirs -> [Files -> Nat]] /\ output \in [Files -> Nat]

(* A process comes from that of the directory above, which has then passed its entry, and *)
(* goes past an entry of its own only within the depth asked for.                          *)
Begun(d) ==
  /\ process[d] # "none" => remaining[d] = max_depth - Level[d]
  /\ next[d] > 1 => process[d] # "none" /\ remaining[d] > 0
  /\ \A n \in DOMAIN Entries[d] :
       Entries[d][n] \in Dirs /\ process[Entries[d][n]] # "none" => n < next[d]

(* It ends well when it has passed all entries and waited as often as it forked, which is *)
(* for each of its children only if none was missing; none of those has failed.             *)
Ended(d) ==
  /\ process[d] \in {"wait", "ok"} /\ remaining[d] > 0 => next[d] > Len(Entries[d])
  /\ process[d] = "ok" => pids[d] = <<>>
  /\ process[d] \notin {"failed", "killed"} =>
       /\ Len(pids[d]) + Cardinality(WaitedFor(d)) = Cardinality(VisitedDirs(d))
       /\ \A n \in WaitedFor(d) : process[Entries[d][n]] \in {"ok", "killed"}

(* A line is put out or in the buffer of its process until that ends, if it is not killed; *)
(* nobody has a line of a file that was not visited.                                       *)
Written(d) ==
  \A n \in DOMAIN Entries[d] :
    LET f == Entries[d][n] IN
    f \in Files =>
      IF n < next[d]
      THEN \/ output[f] >= 1 \/ process[d] = "killed"
           \/ process[d] \in {"search", "wait"} /\ buffer[d][f] >= 1
      ELSE output[f] = 0 /\ \A e \in Dirs : buffer[e][f] = 0

OnTerminal == terminal => (\A d \in Dirs : buffer[d] = NoOutput) /\ \A f \in Files : output[f] <= 1

IInv ==
  /\ TypeOK /\ process[Root] # "none" /\ OnTerminal
  /\ \A d \in Dirs : Begun(d) /\ Ended(d) /\ Written(d)
===============================================================================
