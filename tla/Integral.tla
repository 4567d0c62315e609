-------------------------------- MODULE Integral --------------------------------
(***************************************************************************)
(* Laboratory 3, zad2: an integral is computed in parts by child processes, *)
(* each writing its part to a file of its own in a temporary directory; the *)
(* parent waits for them, adds the files up and removes them.               *)
(*                                                                          *)
(* fork may fail, a child may fail or be killed, and what it writes may not *)
(* come to its file, which nobody looks at.  The area of a part is left     *)
(* out, but for whether it has been added.                                  *)
(***************************************************************************)
EXTENDS Integers, FiniteSets

CONSTANT MaxProcesses  \* bound: processes asked for

VARIABLES
  no_processes,
  parent,     \* "mkdir", "fork", "wait", "add", "rmdir", "give up", "ended" (with a result) or "failed"
  i,          \* the part the parent forks, waits for or adds
  child,      \* part -> "none", "unborn" (fork failed), "new", "writes", "closed", "ok",
              \* "failed" or "killed"
  reaped,     \* the parts whose child has been waited for
  directory,  \* the temporary directory exists
  files,      \* part -> "none", "empty" or "written"
  added       \* the parts added up

vars == <<no_processes, parent, i, child, reaped, directory, files, added>>
childVars == <<child, files>>

Parts == 1 .. no_processes

Init ==
  /\ no_processes \in 1 .. MaxProcesses /\ directory \in BOOLEAN
  /\ parent = "mkdir" /\ i = 1 /\ reaped = {} /\ added = {}
  /\ child = [p \in Parts |-> "none"] /\ files = [p \in Parts |-> "none"]

-------------------------------------------------------------------------------
(* integrate_async *)

mkdir ==
  /\ parent = "mkdir" /\ directory' = TRUE
  /\ parent' = IF directory THEN "failed" ELSE "fork"
  /\ UNCHANGED <<no_processes, i, childVars, reaped, added>>

(* i after a step of a loop over the parts, with the next thing to do behind it *)
Loops(next) == IF i < no_processes THEN i' = i + 1 /\ UNCHANGED parent
                                   ELSE i' = 1 /\ parent' = next

Fork ==
  /\ parent = "fork" /\ Loops("wait")
  /\ \E state \in {"new", "unborn"} : child' = [child EXCEPT ![i] = state]
  /\ UNCHANGED <<no_processes, reaped, directory, files, added>>

Unreaped == {p \in Parts : child[p] \notin {"none", "unborn"}} \ reaped
Ended(p) == child[p] \in {"ok", "failed", "killed"}

(* Mutant: the children are not waited for. *)
check_children_statusNot ==
  /\ parent = "wait" /\ parent' = "add"
  /\ UNCHANGED <<no_processes, i, childVars, reaped, directory, added>>

(* The pid of a child that could not be forked is -1: waitpid waits for any.  Only exit codes *)
(* are looked at.                                                                              *)
check_children_status ==
  /\ parent = "wait"
  /\ LET waited == IF child[i] = "unborn" THEN Unreaped ELSE {i} \cap Unreaped
     IN \/ waited = {} /\ parent' = "failed" /\ UNCHANGED <<i, reaped>>
        \/ \E p \in waited :
             /\ Ended(p) /\ reaped' = reaped \cup {p}
             /\ IF child[p] = "failed" THEN parent' = "failed" /\ UNCHANGED i ELSE Loops("add")
  /\ UNCHANGED <<no_processes, childVars, directory, added>>

(* A file that is missing or empty ends the sum, but the directory is removed if it can be. *)
get_total_area ==
  /\ parent = "add"
  /\ IF files[i] = "written"
     THEN /\ added' = added \cup {i} /\ files' = [files EXCEPT ![i] = "none"] /\ Loops("rmdir")
     ELSE parent' = "give up" /\ UNCHANGED <<i, files, added>>
  /\ UNCHANGED <<no_processes, child, reaped, directory>>

rmdir ==
  /\ parent \in {"rmdir", "give up"} /\ UNCHANGED <<no_processes, i, childVars, reaped, added>>
  /\ directory' = \E p \in Parts : files[p] # "none"
  /\ parent' = IF parent = "rmdir" /\ ~directory' THEN "ended" ELSE "failed"

-------------------------------------------------------------------------------
(* A child: write_part_result.  What fprintf writes is in the file after fclose. *)

Becomes(p, state, file) ==
  /\ child' = [child EXCEPT ![p] = state] /\ files' = [files EXCEPT ![p] = file]
  /\ UNCHANGED <<no_processes, parent, i, reaped, directory, added>>

OpenPart(p) == child[p] = "new" /\ (Becomes(p, "writes", "empty") \/ Becomes(p, "failed", files[p]))
ClosePart(p) == child[p] = "writes" /\ \E file \in {"written", "empty"} : Becomes(p, "closed", file)
Exit(p) == child[p] = "closed" /\ Becomes(p, "ok", files[p])
Killed(p) == child[p] \in {"new", "writes", "closed"} /\ Becomes(p, "killed", files[p])

Next ==
  \/ mkdir \/ Fork \/ check_children_status \/ get_total_area \/ rmdir
  \/ \E p \in Parts : OpenPart(p) \/ ClosePart(p) \/ Exit(p) \/ Killed(p)

Spec == Init /\ [][Next]_vars

-------------------------------------------------------------------------------
(* Nobody will write this part any more, and it is neither in its file nor added. *)
Missing(p) == child[p] \notin {"new", "writes"} /\ files[p] # "written" /\ p \notin added

(* A result is the sum of every part, nothing is left behind by then and nobody works any more; *)
(* and there is a result unless the directory was there or a part is missing for good: no part  *)
(* is read before it is written (check_children_status), and a child that is killed with its    *)
(* part in its file does no harm.                                                               *)
ResultIsWhole ==
  /\ parent = "ended" => /\ added = Parts /\ ~directory
                         /\ \A p \in Parts : Ended(p) /\ files[p] = "none"
  /\ parent = "failed" => \E p \in Parts : Missing(p)

-------------------------------------------------------------------------------
(* The inductive invariant from which ResultIsWhole follows. *)

TypeOK ==
  /\ no_processes \in Nat \ {0} /\ i \in Parts /\ directory \in BOOLEAN
  /\ parent \in {"mkdir", "fork", "wait", "add", "rmdir", "give up", "ended", "failed"}
  /\ child \in [Parts -> {"none", "unborn", "new", "writes", "closed", "ok", "failed", "killed"}]
  /\ files \in [Parts -> {"none", "empty", "written"}]
  /\ reaped \subseteq Parts /\ added \subseteq Parts

(* The parts are forked in their order. *)
Forking ==
  /\ parent = "mkdir" => i = 1 /\ \A p \in Parts : child[p] = "none"
  /\ parent = "fork" => \A p \in Parts : child[p] = "none" <=> p >= i
  /\ parent \in {"wait", "add", "rmdir", "give up", "ended"} => \A p \in Parts : child[p] # "none"

(* Only a child that has closed its file leaves it with its part, until that is added. *)
Files ==
  \A p \in Parts :
    /\ files[p] = "written" \/ p \in added => child[p] \in {"closed", "ok", "killed"}
    /\ p \in added => files[p] = "none"

(* Whom the parent has waited for: in order, but for those a wait for any child has taken. *)
Waiting ==
  /\ \A p \in reaped : Ended(p)
  /\ parent \in {"mkdir", "fork"} => reaped = {}
  /\ parent = "wait" => reaped = 1 .. i - 1 \/ \E p \in Parts : child[p] = "unborn"
  /\ parent \in {"add", "rmdir", "ended"} => reaped = Parts \/ \E p \in Parts : child[p] = "unborn"

(* What has been added. *)
Adding ==
  /\ parent \in {"mkdir", "fork", "wait"} => added = {}
  /\ parent = "add" => added = 1 .. i - 1
  /\ parent \in {"rmdir", "ended"} => added = Parts

(* How it ends. *)
Ending ==
  /\ parent = "ended" => ~directory
  /\ parent \in {"give up", "failed"} => \E p \in Parts : Missing(p)

IInv == TypeOK /\ Forking /\ Files /\ Waiting /\ Adding /\ Ending
================================================================================
