----------------------------- MODULE PizzeriaMain -----------------------------
(***************************************************************************)
(* Opening and closing the pizzeria of laboratory 7, zad1 (main.c): main    *)
(* creates the semaphore set and the shared memory, employs the workers and *)
(* waits for them; SIGINT or the end of all workers makes it remove what it *)
(* created.  The IPC objects outlive the processes: what a main that was    *)
(* killed, or interrupted while it removed them, leaves behind, the next    *)
(* one finds under the same keys.                                           *)
(***************************************************************************)
EXTENDS PizzeriaSysV

CONSTANTS NoChefs, NoDeliverers,   \* the two arguments of main
          MaxRuns,                 \* bound: how often main is started
          MaxKills                 \* bound: how often everybody gets SIGKILL

ASSUME Arguments == /\ NoChefs \in 0 .. Cardinality(Chefs)
                    /\ NoDeliverers \in 0 .. Cardinality(Deliverers)
ASSUME Bounds == MaxRuns \in Nat /\ MaxKills \in Nat

VARIABLES
  main,                \* where main is; "off" when no main runs
  sem_id, shm_id,      \* whether main has the ids (they are not -1)
  set, segment,        \* whether the keys lead to a semaphore set, a segment
  life,                \* per worker: the state of its process
  employed,            \* the children of the running main
  pending,             \* the processes with a SIGINT they have not handled
  blocked,             \* whether main's exit_handler runs inside its sigint_handler
  cut_short,           \* history: a SIGINT ended exit_handler before it had removed the
                       \* segment, and no main has removed it since
  runs, kills          \* counted for the bounds

idVars == <<sem_id, shm_id>>
ipcVars == <<set, segment>>
exitVars == <<blocked, cut_short>>
countVars == <<runs, kills>>
mainVars == <<main, idVars, ipcVars, life, employed, pending, exitVars, countVars>>
allVars == <<vars, mainVars>>

(* What the processes of W know is gone, or no longer matters. *)
Forget(W) ==
  /\ pc' = [w \in Workers |-> IF w \notin W THEN pc[w]
                              ELSE IF w \in Chefs THEN "prepare" ELSE "wait"]
  /\ pizza_type' = [w \in Workers |-> IF w \in W THEN Empty ELSE pizza_type[w]]
  /\ table_idx' = [w \in Workers |-> IF w \in W THEN 0 ELSE table_idx[w]]
  /\ oven_idx' = [c \in Chefs |-> IF c \in W THEN 0 ELSE oven_idx[c]]

Alive == {"starting", "working", "cut_off"}
Living == {w \in Workers : life[w] \in Alive}

MainInit ==
  /\ Init
  /\ main = "off" /\ sem_id = FALSE /\ shm_id = FALSE
  /\ set = FALSE /\ segment = FALSE
  /\ life = [w \in Workers |-> "unborn"]
  /\ employed = {} /\ pending = {}
  /\ blocked = FALSE /\ cut_short = FALSE
  /\ runs = 0 /\ kills = 0

-----------------------------------------------------------------------------
(* main *)

Start ==
  /\ main = "off" /\ runs < MaxRuns
  /\ main' = "semaphores" /\ runs' = runs + 1
  /\ UNCHANGED <<vars, idVars, ipcVars, life, employed, pending, exitVars, kills>>

(* semget finds the set of the key or creates one; in both cases its values *)
(* are set.                                                                 *)
OpenSemaphoreSet ==
  /\ main = "semaphores"
  /\ \/ /\ sem' = InitializeSemaphores /\ set' = TRUE /\ sem_id' = TRUE
        /\ main' = "memory"
     \/ UNCHANGED <<sem, set, sem_id>> /\ main' = "return"    \* semget fails
  /\ UNCHANGED <<memoryVars, shm_id, segment, life, employed, pending, exitVars, countVars>>

(* A new segment is all zeros; clear_pizzeria empties the slots of a new or *)
(* an old one, and leaves the counters as they are.                         *)
ClearPizzeria ==
  /\ oven_slots' = [i \in OvenSlots |-> Empty]
  /\ table_slots' = [i \in TableSlots |-> Empty]
  /\ no_oven_pizzas' = IF segment THEN no_oven_pizzas ELSE 0
  /\ no_table_pizzas' = IF segment THEN no_table_pizzas ELSE 0

OpenMemory ==
  /\ main = "memory"
  /\ \/ /\ ClearPizzeria /\ segment' = TRUE /\ shm_id' = TRUE
        /\ main' = "employ"
     \/ /\ UNCHANGED <<ovenVars, tableVars, segment, shm_id>>   \* shmget fails
        /\ main' = "return"
  /\ UNCHANGED <<pizza_type, oven_idx, table_idx, pc, sem, sem_id, set, life,
                 employed, pending, exitVars, countVars>>

(* Chefs first, then deliverers; a fork that fails makes main return, and   *)
(* the workers employed so far go on.                                       *)
Employ(w) ==
  /\ main = "employ" /\ life[w] \in {"unborn", "ended"}
  /\ IF w \in Chefs THEN Cardinality(employed \cap Chefs) < NoChefs
     ELSE /\ Cardinality(employed \cap Chefs) = NoChefs
          /\ Cardinality(employed \cap Deliverers) < NoDeliverers
  /\ \/ /\ life' = [life EXCEPT ![w] = "starting"]
        /\ employed' = employed \cup {w} /\ UNCHANGED main
     \/ main' = "return" /\ UNCHANGED <<life, employed>>        \* fork fails
  /\ UNCHANGED <<vars, idVars, ipcVars, pending, exitVars, countVars>>

(* wait(NULL) for as many workers as were employed. *)
WaitUntilPizzeriaCloses ==
  /\ main = "employ"
  /\ Cardinality(employed) = NoChefs + NoDeliverers
  /\ employed \cap Living = {}
  /\ main' = "return"
  /\ UNCHANGED <<vars, idVars, ipcVars, life, employed, pending, exitVars, countVars>>

(* Mutants: exit_handler removes one of the two only. *)
KeepSemaphores == UNCHANGED <<set, sem, life, pizza_type, oven_idx, table_idx, pc>>
KeepMemory == UNCHANGED <<segment, ovenVars, tableVars>>

RemoveMemory ==
  /\ segment' = FALSE
  /\ no_oven_pizzas' = 0 /\ no_table_pizzas' = 0
  /\ oven_slots' = [i \in OvenSlots |-> Empty]
  /\ table_slots' = [i \in TableSlots |-> Empty]

(* The workers of the removed set: their next semop fails.  The values of   *)
(* the set and the memory they may still write to are never seen again.     *)
RemoveSemaphores ==
  LET working == {w \in Workers : life[w] = "working"}
  IN  /\ set' = FALSE /\ sem' = [s \in SemIds |-> 0]
      /\ life' = [w \in Workers |-> IF w \in working THEN "cut_off" ELSE life[w]]
      /\ Forget(working)

(* exit runs exit_handler, after main returns or from the SIGINT handler,   *)
(* which has SIGINT blocked.  The arrays of pids are NULL, so it signals    *)
(* nobody.                                                                  *)
Exit ==
  /\ main' = "exit"
  /\ \/ main = "return" /\ blocked' = FALSE /\ UNCHANGED pending
     \/ /\ main \in {"semaphores", "memory", "employ", "return"} /\ "main" \in pending
        /\ blocked' = TRUE /\ pending' = pending \ {"main"}
  /\ UNCHANGED <<vars, idVars, ipcVars, life, employed, cut_short, countVars>>

(* The process ends, and what it knew with it. *)
Ends ==
  /\ main' = "off" /\ blocked' = FALSE
  /\ sem_id' = FALSE /\ shm_id' = FALSE /\ employed' = {}

(* When one of the objects was not created, the other is not removed.       *)
RemoveNothing ==
  /\ main = "exit" /\ ~(sem_id /\ shm_id)
  /\ Ends /\ pending' = pending \ {"main"}
  /\ UNCHANGED <<vars, ipcVars, life, cut_short, countVars>>

RemoveSet ==
  /\ main = "exit" /\ sem_id /\ shm_id
  /\ main' = "removing"
  /\ RemoveSemaphores
  /\ UNCHANGED <<ovenVars, tableVars, segment, idVars, employed, pending, exitVars, countVars>>

RemoveSegment ==
  /\ main = "removing"
  /\ RemoveMemory /\ cut_short' = FALSE
  /\ Ends /\ pending' = pending \ {"main"}
  /\ UNCHANGED <<pizza_type, oven_idx, table_idx, pc, sem, set, life, countVars>>

(* The second exit, of a SIGINT during the first, does not run exit_handler *)
(* again: what it has not removed yet stays.                                *)
Interrupted ==
  /\ main \in {"exit", "removing"} /\ sem_id /\ shm_id
  /\ "main" \in pending /\ ~blocked
  /\ Ends /\ pending' = pending \ {"main"} /\ cut_short' = TRUE
  /\ UNCHANGED <<vars, ipcVars, life, countVars>>

ExitHandler == Exit \/ RemoveNothing \/ RemoveSet \/ RemoveSegment \/ Interrupted

Main ==
  \/ OpenSemaphoreSet \/ OpenMemory
  \/ \E w \in Workers : Employ(w)
  \/ WaitUntilPizzeriaCloses \/ ExitHandler

-----------------------------------------------------------------------------
(* The workers' processes *)

(* load_pizzeria_data fails when the set or the segment is not there. *)
LoadPizzeriaData(w) ==
  /\ life[w] = "starting"
  /\ life' = [life EXCEPT ![w] = IF set /\ segment THEN "working" ELSE "ended"]
  /\ UNCHANGED <<vars, main, idVars, ipcVars, employed, pending, exitVars, countVars>>

(* A worker ends when its semop fails with EIDRM, after a "should never     *)
(* happen" branch, or in its SIGINT handler, wherever it is.  There is no   *)
(* SEM_UNDO: what it took from the semaphores stays taken.                  *)
WorkerEnds(w) ==
  /\ \/ life[w] = "cut_off"
     \/ life[w] = "working" /\ pc[w] = "exited"
     \/ life[w] \in Alive /\ w \in pending
  /\ life' = [life EXCEPT ![w] = "ended"]
  /\ pending' = pending \ {w}
  /\ Forget({w})
  /\ UNCHANGED <<ovenVars, tableVars, sem, main, idVars, ipcVars, employed, exitVars, countVars>>

Works(w) ==
  /\ life[w] = "working"
  /\ \/ w \in Chefs /\ Chef(w)
     \/ w \in Deliverers /\ Deliverer(w)
  /\ UNCHANGED mainVars

Worker(w) == Works(w) \/ LoadPizzeriaData(w) \/ WorkerEnds(w)

-----------------------------------------------------------------------------
(* The user *)

(* Ctrl+C: SIGINT to main and to every worker. *)
CtrlC ==
  /\ main # "off" /\ pending = {}
  /\ pending' = {"main"} \cup Living
  /\ UNCHANGED <<vars, main, idVars, ipcVars, life, employed, exitVars, countVars>>

(* kill -INT of main alone. *)
InterruptMain ==
  /\ main # "off" /\ pending = {}
  /\ pending' = {"main"}
  /\ UNCHANGED <<vars, main, idVars, ipcVars, life, employed, exitVars, countVars>>

(* SIGKILL of main and all workers: no handler runs, nothing is removed. *)
KillAll ==
  /\ main # "off" /\ kills < MaxKills
  /\ kills' = kills + 1 /\ pending' = {} /\ Ends
  /\ life' = [w \in Workers |-> IF w \in Living THEN "ended" ELSE life[w]]
  /\ Forget(Living)
  /\ UNCHANGED <<ovenVars, tableVars, sem, ipcVars, cut_short, runs>>

-----------------------------------------------------------------------------

Idle == /\ main = "off" /\ runs = MaxRuns /\ Living = {}
        /\ UNCHANGED allVars

MainNext ==
  \/ Start \/ Main
  \/ \E w \in Workers : Worker(w)
  \/ CtrlC \/ InterruptMain
  \/ Idle

MainSpec == MainInit /\ [][MainNext]_allVars

MainFairness == WF_allVars(Main) /\ \A w \in Workers : WF_allVars(Worker(w))

FairMainSpec == MainSpec /\ MainFairness

(* The same with a main that may also be killed. *)
CrashNext == MainNext \/ KillAll
CrashSpec == MainInit /\ [][CrashNext]_allVars

-----------------------------------------------------------------------------

(* main.c:109 clear_pizzeria resets the slots only.  The counters agree     *)
(* with the empty slots of a pizzeria that opens all the same, whatever was *)
(* interrupted or failed in the runs before: no counter survives an exit,   *)
(* unless a SIGINT ends exit_handler between its first line and :94.        *)
OpensClean ==
  [][main = "memory" /\ main' = "employ" /\ ~cut_short
       => no_oven_pizzas' = 0 /\ no_table_pizzas' = 0]_allVars

(* With workers dying anywhere, main closing under them and another main    *)
(* opening, those at work still enter the memory one at a time.  Only an    *)
(* exit_handler cut short can leave a semaphore set with workers to a main  *)
(* that sets its values anew under them (main.c:125).                       *)
OneInMemory ==
  ~cut_short =>
    \A v, w \in Workers :
      life[v] = "working" /\ life[w] = "working" /\ InMemory(v) /\ InMemory(w) => v = w

(* main.c:74-84 signals nobody (the pid arrays are NULL), and a worker that *)
(* dies in the memory keeps the lock for ever; when the pizzeria closes for *)
(* good everybody goes home all the same, as removing the set wakes them.   *)
(* Those go on whose main was interrupted before it removed the set.        *)
EverybodyGoesHome ==
  <>[](main = "off" /\ ~(cut_short /\ set)) => <>[](Living = {})
-----------------------------------------------------------------------------
(* The inductive invariant behind OneInMemory and OpensClean: while workers *)
(* are at work, the main that employed them, or a later one whose objects a *)
(* slow worker has found, has created both objects and not removed them.    *)

PcOf(w) == IF w \in Chefs THEN "prepare" ELSE "wait"

MainTypeOK ==
  /\ main \in {"off", "semaphores", "memory", "employ", "return", "exit", "removing"}
  /\ sem_id \in BOOLEAN /\ shm_id \in BOOLEAN /\ set \in BOOLEAN /\ segment \in BOOLEAN
  /\ cut_short \in BOOLEAN
  /\ life \in [Workers -> Alive \cup {"unborn", "ended"}]
  /\ pc \in [Workers -> ChefPc \cup DelivererPc]
  /\ sem \in [SemIds -> Nat]

(* main has both objects and will remove them. *)
IsOpen == main \in {"employ", "return", "exit"} /\ sem_id /\ shm_id

IdsOfThisRun ==
  /\ main \in {"off", "semaphores"} => ~sem_id
  /\ main \in {"off", "semaphores", "memory"} => ~shm_id
  /\ main = "memory" => sem_id
  /\ main \in {"employ", "removing"} => sem_id /\ shm_id

(* Who is not at work is at the beginning; nobody is at work once the set   *)
(* is removed.                                                              *)
AtHome ==
  /\ \A w \in Workers : life[w] # "working" => pc[w] = PcOf(w)
  /\ main = "removing" => ~set /\ \A w \in Workers : life[w] # "working"

AtWork ==
  \A w \in Workers :
    /\ life[w] = "working" => set /\ segment /\ IsOpen
    /\ life[w] = "starting" /\ segment => IsOpen \/ main = "removing"

LockIsTaken ==
  /\ set => sem["MEMORY_LOCK"] \in {0, 1}
  /\ \A w \in Workers : life[w] = "working" /\ InMemory(w) => sem["MEMORY_LOCK"] = 0

Opened ==
  /\ MainTypeOK /\ IdsOfThisRun /\ AtHome
  /\ ~cut_short => AtWork /\ LockIsTaken
  /\ OneInMemory

(* What only a pizzeria that is never killed keeps. *)
NothingLeftBehind == segment => IsOpen \/ main = "removing" \/ cut_short
=============================================================================
