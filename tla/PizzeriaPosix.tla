---------------------------- MODULE PizzeriaPosix ----------------------------
(***************************************************************************)
(* The pizzeria of laboratory 7, zad2: the same workers over five POSIX     *)
(* semaphores.  sem_wait and sem_post act on one semaphore each, so a chef  *)
(* or deliverer makes in several steps, at any of which others may run,     *)
(* what zad1 makes in one semop.                                            *)
(***************************************************************************)
EXTENDS PizzeriaMemory

VARIABLE sem    \* the named semaphores

vars == <<memoryVars, sem>>

SemIds == {"AVAILABLE_PLACES_IN_OVEN", "AVAILABLE_PLACES_ON_THE_TABLE",
           "NO_WAITING_PIZZAS", "NO_PIZZAS_IN_DELIVERY", "MEMORY_LOCK"}

OpenSemaphores ==
  [s \in SemIds |-> CASE s = "AVAILABLE_PLACES_IN_OVEN" -> OvenCapacity
                      [] s = "AVAILABLE_PLACES_ON_THE_TABLE" -> TableCapacity
                      [] s = "MEMORY_LOCK" -> 1
                      [] OTHER -> 0]

Init == MemoryInit /\ sem = OpenSemaphores

(* sem_wait(s), or sem_post(s), by worker w, and nothing else. *)
SemWait(w, from, s, to) ==
  /\ Goto(w, from, to)
  /\ sem[s] > 0
  /\ sem' = [sem EXCEPT ![s] = @ - 1]
  /\ UNCHANGED <<ovenVars, tableVars, oven_idx, table_idx>>

SemPost(w, from, s, to) ==
  /\ Goto(w, from, to)
  /\ sem' = [sem EXCEPT ![s] = @ + 1]
  /\ UNCHANGED <<ovenVars, tableVars, pizza_type, oven_idx, table_idx>>

-----------------------------------------------------------------------------
(* chef.c *)

(* Mutant: the lock is taken before the place in the oven. *)
PutPizzaInOvenLockFirst(c) ==
  \/ /\ SemWait(c, "put_in_oven", "MEMORY_LOCK", "put_lock")
     /\ UNCHANGED pizza_type
  \/ /\ SemWait(c, "put_lock", "AVAILABLE_PLACES_IN_OVEN", "find_oven_slot")
     /\ UNCHANGED pizza_type
  \/ FindOvenSlot(c) /\ UNCHANGED sem
  \/ StoreInOven(c) /\ UNCHANGED sem
  \/ SemPost(c, "put_unlock", "MEMORY_LOCK", "bake")

PutPizzaInOven(c) ==
  \/ /\ SemWait(c, "put_in_oven", "AVAILABLE_PLACES_IN_OVEN", "put_lock")
     /\ UNCHANGED pizza_type
  \/ /\ SemWait(c, "put_lock", "MEMORY_LOCK", "find_oven_slot")
     /\ UNCHANGED pizza_type
  \/ FindOvenSlot(c) /\ UNCHANGED sem
  \/ StoreInOven(c) /\ UNCHANGED sem
  \/ SemPost(c, "put_unlock", "MEMORY_LOCK", "bake")

TakeOutAndPutOnTheTable(c) ==
  \/ /\ SemWait(c, "bake", "AVAILABLE_PLACES_ON_THE_TABLE", "take_lock")
     /\ UNCHANGED pizza_type
  \/ /\ SemWait(c, "take_lock", "MEMORY_LOCK", "post_oven")
     /\ UNCHANGED pizza_type
  \/ SemPost(c, "post_oven", "AVAILABLE_PLACES_IN_OVEN", "post_waiting")
  \/ SemPost(c, "post_waiting", "NO_WAITING_PIZZAS", "take_out")
  \/ TakeOutOfOven(c) /\ UNCHANGED sem
  \/ FindTableSlot(c) /\ UNCHANGED sem
  \/ StoreOnTable(c) /\ UNCHANGED sem
  \/ SemPost(c, "take_unlock", "MEMORY_LOCK", "prepare")

Chef(c) ==
  \/ PreparePizza(c) /\ UNCHANGED sem
  \/ PutPizzaInOven(c)
  \/ TakeOutAndPutOnTheTable(c)

-----------------------------------------------------------------------------
(* deliverer.c *)

(* Mutant: the place on the table is not given back. *)
GetPizzaKeepingPlace(d) ==
  \/ /\ SemWait(d, "wait", "NO_WAITING_PIZZAS", "get_lock")
     /\ UNCHANGED pizza_type
  \/ /\ SemWait(d, "get_lock", "MEMORY_LOCK", "post_delivery")
     /\ UNCHANGED pizza_type
  \/ SemPost(d, "post_delivery", "NO_PIZZAS_IN_DELIVERY", "look_on_table")
  \/ LookOnTable(d) /\ UNCHANGED sem
  \/ TakeFromTable(d) /\ UNCHANGED sem
  \/ SemPost(d, "get_unlock", "MEMORY_LOCK", "travel")

GetPizzaFromTheTable(d) ==
  \/ /\ SemWait(d, "wait", "NO_WAITING_PIZZAS", "get_lock")
     /\ UNCHANGED pizza_type
  \/ /\ SemWait(d, "get_lock", "MEMORY_LOCK", "post_table")
     /\ UNCHANGED pizza_type
  \/ SemPost(d, "post_table", "AVAILABLE_PLACES_ON_THE_TABLE", "post_delivery")
  \/ SemPost(d, "post_delivery", "NO_PIZZAS_IN_DELIVERY", "look_on_table")
  \/ LookOnTable(d) /\ UNCHANGED sem
  \/ TakeFromTable(d) /\ UNCHANGED sem
  \/ SemPost(d, "get_unlock", "MEMORY_LOCK", "travel")

FinishDelivery(d) ==
  /\ SemWait(d, "travel", "NO_PIZZAS_IN_DELIVERY", "wait")
  /\ pizza_type' = [pizza_type EXCEPT ![d] = Empty]

Deliverer(d) == GetPizzaFromTheTable(d) \/ FinishDelivery(d)

-----------------------------------------------------------------------------

Next == (\E c \in Chefs : Chef(c)) \/ (\E d \in Deliverers : Deliverer(d))

Spec == Init /\ [][Next]_vars

(* A worker that can go on does; nothing is assumed of a sem_wait that is   *)
(* only possible from time to time.                                         *)
Fairness == /\ \A c \in Chefs : WF_vars(Chef(c))
            /\ \A d \in Deliverers : WF_vars(Deliverer(d))

FairSpec == Spec /\ Fairness

-----------------------------------------------------------------------------

InMemory(w) ==
  \/ pc[w] \in ChefInMemory \cup {"post_oven", "post_waiting"}
  \/ pc[w] \in DelivererInMemory \cup {"post_table", "post_delivery"}

At(S) == {w \in Workers : pc[w] \in S}

(* The semaphores and the counters account for every place and pizza when   *)
(* nobody is in the memory: a place may be reserved by a worker that waits  *)
(* for the lock, and a waiting pizza be claimed by one.                     *)
CountersAgree ==
  (\A w \in Workers : ~InMemory(w)) =>
    /\ no_oven_pizzas = Cardinality(Occupied(oven_slots))
    /\ no_table_pizzas = Cardinality(Occupied(table_slots))
    /\ sem["AVAILABLE_PLACES_IN_OVEN"] + Cardinality(At({"put_lock"}))
         = OvenCapacity - no_oven_pizzas
    /\ sem["AVAILABLE_PLACES_ON_THE_TABLE"] + Cardinality(At({"take_lock"}))
         = TableCapacity - no_table_pizzas
    /\ sem["NO_WAITING_PIZZAS"] + Cardinality(At({"get_lock"})) = no_table_pizzas

(* README.md:64: with POSIX semaphores the order of the operations matters. *)
(* The order the code uses never makes everyone wait for everyone: pizzas   *)
(* are delivered again and again.                                           *)
KeepsDelivering == []<><<\E d \in Deliverers : FinishDelivery(d)>>_vars
=============================================================================
