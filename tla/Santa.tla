-------------------------------- MODULE Santa --------------------------------
(***************************************************************************)
(* Laboratory 9: Santa Claus, the reindeer and the elves, threads over six  *)
(* mutexes and four condition variables.                                    *)
(*                                                                          *)
(* A step runs from one pthread call that may wait to the next.  The counts *)
(* are read under mutexes other than the ones they are written under, and   *)
(* pthread_cond_wait is not in a loop in two places: a thread that comes    *)
(* late to a broadcast waits for the next one, and one that wakes without   *)
(* any, as POSIX allows, takes it for one.                                  *)
(***************************************************************************)
EXTENDS Integers, FiniteSets

CONSTANTS Elves, Reindeer, Santa,
          MaxElves,        \* max_elves_waiting_for_help
          MaxDeliveries,   \* max_deliveries_count
          MaxWakeups,      \* bound on wakeups below
          Nobody           \* holds a free mutex

ASSUME ThreadsAreDistinct == /\ Elves \cap Reindeer = {}
                             /\ Santa \notin Elves \cup Reindeer
                             /\ Nobody \notin Elves \cup Reindeer \cup {Santa}
ASSUME ThreadsAreFinite == IsFiniteSet(Elves) /\ IsFiniteSet(Reindeer)
ASSUME Limits == /\ MaxElves \in 1 .. Cardinality(Elves)
                 /\ MaxDeliveries \in Nat \ {0}
                 /\ MaxWakeups \in Nat

Threads == Elves \cup Reindeer \cup {Santa}
TotalReindeer == Cardinality(Reindeer)

Mutexes == {"elves_wait", "elves_problem", "started", "delivery",
            "reindeer_wait", "santa_sleep"}

VARIABLES
  holder,      \* who holds each mutex
  asleep,      \* the threads in pthread_cond_wait that nothing has woken yet
  elves_count, elves_ids,      \* elves_waiting_for_help_count, _ids
  reindeer_count,              \* reindeer_waining_count
  deliveries,
  pc,
  woken,       \* history: the elves whose wait for Santa ended without his broadcast,
               \* since he last solved problems
  wakeups      \* history: how often a reindeer's did, since the last delivery

history == <<woken, wakeups>>
vars == <<holder, asleep, elves_count, elves_ids, reindeer_count, deliveries, pc, history>>

Init ==
  /\ holder = [m \in Mutexes |-> Nobody]
  /\ asleep = {}
  /\ elves_count = 0
  /\ elves_ids = [i \in 0 .. MaxElves - 1 |-> Nobody]
  /\ reindeer_count = 0
  /\ deliveries = 0
  /\ pc = [t \in Threads |-> IF t \in Elves THEN "work"
                             ELSE IF t \in Reindeer THEN "rest" ELSE "sleep"]
  /\ woken = {}
  /\ wakeups = 0

-----------------------------------------------------------------------------
(* The threads of one process: none goes on after exit(EXIT_SUCCESS). *)

Goto(t, from, to) ==
  /\ pc[Santa] # "exited"
  /\ pc[t] = from /\ t \notin asleep
  /\ pc' = [pc EXCEPT ![t] = to]

Free(m) == holder[m] = Nobody
Take(m, t) == Free(m) /\ holder' = [holder EXCEPT ![m] = t]
Give(M) == holder' = [m \in Mutexes |-> IF m \in M THEN Nobody ELSE holder[m]]

(* pthread_cond_broadcast on the condition the threads at place wait for. *)
Broadcast(place) == asleep' = {t \in asleep : pc[t] # place}

(* pthread_cond_wait may return although nobody has signalled: at the waits *)
(* in a loop the thread looks again, at elf.c:74 and reindeer.c:60 it goes  *)
(* on.  The reindeer do so at most MaxWakeups times between deliveries.     *)
WakeSpuriously(t) ==
  /\ pc[Santa] # "exited"
  /\ t \in asleep
  /\ asleep' = asleep \ {t}
  /\ woken' = IF pc[t] = "helped" THEN woken \cup {t} ELSE woken
  /\ IF pc[t] = "delivering"
     THEN wakeups < MaxWakeups /\ wakeups' = wakeups + 1
     ELSE UNCHANGED wakeups
  /\ UNCHANGED <<holder, elves_count, elves_ids, reindeer_count, deliveries, pc>>

-----------------------------------------------------------------------------
(* elf.c *)

(* Under elves_wait: a full group makes the elf queue, with the mutex held  *)
(* until it waits.  An elf woken from the queue looks again.                *)
LookAtGroup(e, from) ==
  /\ Free("elves_wait")
  /\ \/ /\ elves_count = MaxElves
        /\ Goto(e, from, "queue") /\ Take("elves_wait", e)
     \/ /\ elves_count # MaxElves
        /\ Goto(e, from, "report") /\ UNCHANGED holder
  /\ UNCHANGED <<asleep, elves_count, elves_ids, reindeer_count, deliveries, history>>

Queue(e) ==
  /\ Goto(e, "queue", "queued")
  /\ Free("started")
  /\ Give({"elves_wait"})
  /\ asleep' = asleep \cup {e}
  /\ UNCHANGED <<elves_count, elves_ids, reindeer_count, deliveries, history>>

WaitUntilCanReportProblem(e) ==
  LookAtGroup(e, "work") \/ Queue(e) \/ LookAtGroup(e, "queued")

(* Mutant: the elf trusts what it saw before it waited for the mutex. *)
ReportWithoutLooking(e) ==
  /\ Free("elves_problem")
  /\ elves_ids' = [elves_ids EXCEPT ![elves_count] = e]
  /\ elves_count' = elves_count + 1
  /\ IF elves_count + 1 = MaxElves
     THEN Goto(e, "report", "wake_santa") /\ Take("elves_problem", e)
     ELSE Goto(e, "report", "reported") /\ UNCHANGED holder
  /\ UNCHANGED <<asleep, reindeer_count, deliveries, history>>

(* Under elves_problem: the elf joins the group if there is room; if not,   *)
(* it goes on as if it had.  The one that completes the group wakes Santa   *)
(* before it leaves the mutex.                                              *)
ReportProblem(e) ==
  /\ Free("elves_problem")
  /\ IF elves_count < MaxElves
     THEN /\ elves_ids' = [elves_ids EXCEPT ![elves_count] = e]
          /\ elves_count' = elves_count + 1
     ELSE UNCHANGED <<elves_ids, elves_count>>
  /\ IF elves_count + 1 = MaxElves
     THEN Goto(e, "report", "wake_santa") /\ Take("elves_problem", e)
     ELSE Goto(e, "report", "reported") /\ UNCHANGED holder
  /\ UNCHANGED <<asleep, reindeer_count, deliveries, history>>

(* Mutant: the broadcast is sent without santa_sleep_mutex. *)
ElfWakesSantaWithoutLock(e) ==
  /\ Goto(e, "wake_santa", "reported")
  /\ Broadcast("sleeping")
  /\ Give({"elves_problem"})
  /\ UNCHANGED <<elves_count, elves_ids, reindeer_count, deliveries, history>>

ElfWakesSanta(e) ==
  /\ Goto(e, "wake_santa", "reported")
  /\ Free("santa_sleep")
  /\ Broadcast("sleeping")
  /\ Give({"elves_problem"})
  /\ UNCHANGED <<elves_count, elves_ids, reindeer_count, deliveries, history>>

(* Mutant: the elf waits for a limited time only. *)
WaitForSomeTime(e) ==
  /\ Free("started")
  /\ \/ Goto(e, "reported", "work") \/ Goto(e, "helped", "work")
  /\ UNCHANGED <<holder, asleep, elves_count, elves_ids, reindeer_count, deliveries, history>>

(* The wait at :74 tests nothing: whatever ends it, the elf goes to work. *)
WaitUntilSantaStartsSolvingProblem(e) ==
  /\ Free("started")
  /\ \/ Goto(e, "reported", "helped") /\ asleep' = asleep \cup {e}
     \/ Goto(e, "helped", "work") /\ UNCHANGED asleep
  /\ UNCHANGED <<holder, elves_count, elves_ids, reindeer_count, deliveries, history>>

Elf(e) ==
  \/ WaitUntilCanReportProblem(e)
  \/ ReportProblem(e) \/ ElfWakesSanta(e)
  \/ WaitUntilSantaStartsSolvingProblem(e)

-----------------------------------------------------------------------------
(* reindeer.c *)

ReturnToTheNorthPole(r) ==
  /\ Free("reindeer_wait")
  /\ reindeer_count' = reindeer_count + 1
  /\ IF reindeer_count + 1 = TotalReindeer
     THEN Goto(r, "rest", "wake_santa") /\ Take("reindeer_wait", r)
     ELSE Goto(r, "rest", "at_pole") /\ UNCHANGED holder
  /\ UNCHANGED <<asleep, elves_count, elves_ids, deliveries, history>>

ReindeerWakesSanta(r) ==
  /\ Goto(r, "wake_santa", "at_pole")
  /\ Free("santa_sleep")
  /\ Broadcast("sleeping")
  /\ Give({"reindeer_wait"})
  /\ UNCHANGED <<elves_count, elves_ids, reindeer_count, deliveries, history>>

(* Mutant: a reindeer does not wait for the presents to be delivered. *)
DeliverWithoutSanta(r) ==
  /\ Free("delivery")
  /\ Goto(r, "at_pole", "rest") \/ Goto(r, "delivering", "rest")
  /\ UNCHANGED <<holder, asleep, elves_count, elves_ids, reindeer_count, deliveries, history>>

(* The wait at :60 tests nothing either. *)
DeliverPresentsWithSanta(r) ==
  /\ Free("delivery")
  /\ \/ Goto(r, "at_pole", "delivering") /\ asleep' = asleep \cup {r}
     \/ Goto(r, "delivering", "rest") /\ UNCHANGED asleep
  /\ UNCHANGED <<holder, elves_count, elves_ids, reindeer_count, deliveries, history>>

ReindeerThread(r) ==
  \/ ReturnToTheNorthPole(r) \/ ReindeerWakesSanta(r)
  \/ DeliverPresentsWithSanta(r)

-----------------------------------------------------------------------------
(* santa.c *)

(* santa_sleep reads the two counts one after the other, under a mutex that *)
(* neither is written under.                                                *)
LockSleep(from) ==
  /\ Goto(Santa, from, "look_elves")
  /\ Take("santa_sleep", Santa)
  /\ UNCHANGED <<asleep, elves_count, elves_ids, reindeer_count, deliveries, history>>

LookForElves ==
  /\ IF elves_count < MaxElves
     THEN Goto(Santa, "look_elves", "look_reindeer") /\ UNCHANGED holder
     ELSE Goto(Santa, "look_elves", "awake") /\ Give({"santa_sleep"})
  /\ UNCHANGED <<asleep, elves_count, elves_ids, reindeer_count, deliveries, history>>

LookForReindeer ==
  /\ Give({"santa_sleep"})
  /\ IF reindeer_count < TotalReindeer
     THEN Goto(Santa, "look_reindeer", "sleeping") /\ asleep' = asleep \cup {Santa}
     ELSE Goto(Santa, "look_reindeer", "awake") /\ UNCHANGED asleep
  /\ UNCHANGED <<elves_count, elves_ids, reindeer_count, deliveries, history>>

SantaSleep ==
  LockSleep("sleep") \/ LookForElves \/ LookForReindeer \/ LockSleep("sleeping")

CheckReindeer ==
  /\ Free("delivery")
  /\ IF reindeer_count = TotalReindeer
     THEN Goto(Santa, "awake", "deliver") /\ Take("delivery", Santa)
     ELSE Goto(Santa, "awake", "help") /\ UNCHANGED holder
  /\ UNCHANGED <<asleep, elves_count, elves_ids, reindeer_count, deliveries, history>>

DeliverPresents ==
  /\ Goto(Santa, "deliver", IF deliveries + 1 = MaxDeliveries THEN "exited" ELSE "help")
  /\ Free("reindeer_wait")
  /\ deliveries' = deliveries + 1
  /\ reindeer_count' = 0
  /\ wakeups' = 0
  /\ Broadcast("delivering")
  /\ Give({"delivery"})
  /\ UNCHANGED <<elves_count, elves_ids, woken>>

LockSleepToHelp ==
  /\ Goto(Santa, "help", "check_elves")
  /\ Take("santa_sleep", Santa)
  /\ UNCHANGED <<asleep, elves_count, elves_ids, reindeer_count, deliveries, history>>

CheckElves ==
  /\ Free("elves_problem")
  /\ IF elves_count = MaxElves
     THEN Goto(Santa, "check_elves", "solve") /\ Take("elves_problem", Santa)
     ELSE Goto(Santa, "check_elves", "sleep") /\ Give({"santa_sleep"})
  /\ UNCHANGED <<asleep, elves_count, elves_ids, reindeer_count, deliveries, history>>

(* Mutant: the count is reset when Santa starts, not when he is done. *)
StartSolvingAndClear ==
  /\ Goto(Santa, "solve", "solving")
  /\ Free("started")
  /\ elves_count' = 0
  /\ Broadcast("helped")
  /\ UNCHANGED <<holder, elves_ids, reindeer_count, deliveries, history>>

StartSolving ==
  /\ Goto(Santa, "solve", "solving")
  /\ Free("started")
  /\ Broadcast("helped")
  /\ UNCHANGED <<holder, elves_count, elves_ids, reindeer_count, deliveries, history>>

FinishSolving ==
  /\ Goto(Santa, "solving", "sleep")
  /\ Free("elves_wait")
  /\ elves_count' = 0
  /\ woken' = {}
  /\ Broadcast("queued")
  /\ Give({"elves_problem", "santa_sleep"})
  /\ UNCHANGED <<elves_ids, reindeer_count, deliveries, wakeups>>

SantaThread ==
  \/ SantaSleep
  \/ CheckReindeer \/ DeliverPresents
  \/ LockSleepToHelp \/ CheckElves \/ StartSolving \/ FinishSolving

-----------------------------------------------------------------------------

Next ==
  \/ SantaThread
  \/ \E e \in Elves : Elf(e)
  \/ \E r \in Reindeer : ReindeerThread(r)
  \/ \E t \in Threads : WakeSpuriously(t)

Spec == Init /\ [][Next]_vars

(* Every thread that can go on again and again does, and gets every mutex   *)
(* that becomes free again and again: more than pthreads promises.          *)
Fairness == /\ SF_vars(SantaThread)
            /\ \A e \in Elves : SF_vars(Elf(e))
            /\ \A r \in Reindeer : SF_vars(ReindeerThread(r))

FairSpec == Spec /\ Fairness

-----------------------------------------------------------------------------

ElfPc == {"work", "queue", "queued", "report", "wake_santa", "reported", "helped"}
ReindeerPc == {"rest", "wake_santa", "at_pole", "delivering"}
SantaPc == {"sleep", "look_elves", "look_reindeer", "sleeping", "awake", "deliver",
            "help", "check_elves", "solve", "solving", "exited"}

(* README.md:48 and elf.c:51: no more than MaxElves elves are counted as    *)
(* waiting for Santa, so that the ids fit the array; an elf that finds no   *)
(* room any more at :51 waits for him all the same, uncounted.  There are   *)
(* more reindeer counted than there are by one for each that woke before    *)
(* the delivery; only threads that wait on a condition variable are asleep. *)
TypeOK ==
  /\ holder \in [Mutexes -> Threads \cup {Nobody}]
  /\ elves_count \in 0 .. MaxElves
  /\ elves_ids \in [0 .. MaxElves - 1 -> Elves \cup {Nobody}]
  /\ wakeups \in 0 .. MaxWakeups
  /\ reindeer_count \in 0 .. TotalReindeer + wakeups
  /\ deliveries \in 0 .. MaxDeliveries
  /\ woken \subseteq Elves
  /\ pc \in [Threads -> ElfPc \cup ReindeerPc \cup SantaPc]
  /\ \A e \in Elves : pc[e] \in ElfPc
  /\ \A r \in Reindeer : pc[r] \in ReindeerPc
  /\ pc[Santa] \in SantaPc
  /\ asleep \subseteq {t \in Threads : pc[t] \in {"queued", "helped", "delivering", "sleeping"}}

(* README.md:47: it never happens that Santa sleeps although all reindeer   *)
(* or enough elves wait for him.  santa_sleep reads the counts without the  *)
(* mutexes they change under (santa.c:55), and still no call is missed: if  *)
(* he sleeps on, the one who completed the group is about to wake him, even *)
(* when reindeer are counted twice and the count passes the number of them. *)
SantaHearsTheCall ==
  Santa \in asleep =>
    /\ elves_count = MaxElves => \E e \in Elves : pc[e] = "wake_santa"
    /\ reindeer_count >= TotalReindeer => \E r \in Reindeer : pc[r] = "wake_santa"

Group == {i \in 0 .. MaxElves - 1 : i < elves_count}

(* README.md:8: Santa is woken for three elves, not for one that was        *)
(* counted twice.  An elf that is counted stays with the group until Santa  *)
(* starts on it; the one that does not and may be counted again is an elf   *)
(* whose wait at elf.c:74 ended with no broadcast since Santa last helped.  *)
NoElfCountedTwice ==
  /\ \A i, j \in Group : elves_ids[i] = elves_ids[j] => i = j \/ elves_ids[i] \in woken
  /\ pc[Santa] # "solving" =>
       \A i \in Group : \/ elves_ids[i] \in woken
                        \/ pc[elves_ids[i]] \in {"wake_santa", "reported", "helped"}

OnHoliday == {r \in Reindeer : pc[r] = "rest"}

(* README.md:41: presents are delivered by all the reindeer: while Santa    *)
(* delivers none is on holiday, not even one that missed an earlier         *)
(* broadcast and was never counted again; for each wait at reindeer.c:60    *)
(* that ended with no broadcast since the last delivery, one may be.        *)
DeliversWithAll ==
  pc[Santa] = "deliver" => Cardinality(OnHoliday) <= wakeups

(* README.md:10: while Santa solves the problems of a group, no other elf   *)
(* reports one: the group he read stays as it is until he is done.          *)
GroupStaysAsItIs ==
  [][pc[Santa] \in {"solve", "solving"} /\ pc'[Santa] \in {"solve", "solving"}
       => UNCHANGED <<elves_count, elves_ids>>]_vars

(* README.md:45: Santa delivers presents three times, then all threads end. *)
SantaFinishes == <>(pc[Santa] = "exited")
=============================================================================
