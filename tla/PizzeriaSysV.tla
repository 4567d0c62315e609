---------------------------- MODULE PizzeriaSysV ----------------------------
(***************************************************************************)
(* The pizzeria of laboratory 7, zad1: chefs and deliverers over one System *)
(* V semaphore set.  A semop call applies all its operations at once or     *)
(* waits; the workers run for ever, and main only waits for them.           *)
(***************************************************************************)
EXTENDS PizzeriaMemory

VARIABLE sem    \* the semaphore set: one value per member of enum sem_ids

vars == <<memoryVars, sem>>

SemIds == {"AVAILABLE_PLACES_IN_OVEN", "AVAILABLE_PLACES_ON_THE_TABLE",
           "NO_WAITING_PIZZAS", "NO_PIZZAS_IN_DELIVERY", "MEMORY_LOCK"}

(* semop(sem_id, ops, n), where ops takes 1 from each semaphore of down and  *)
(* gives 1 to each of up: waits until all of it can be done, then does it.  *)
SemOp(down, up) ==
  /\ \A s \in down : sem[s] > 0
  /\ sem' = [s \in SemIds |-> IF s \in down THEN sem[s] - 1
                             ELSE IF s \in up THEN sem[s] + 1 ELSE sem[s]]

InitializeSemaphores ==
  [s \in SemIds |-> CASE s = "AVAILABLE_PLACES_IN_OVEN" -> OvenCapacity
                      [] s = "AVAILABLE_PLACES_ON_THE_TABLE" -> TableCapacity
                      [] s = "MEMORY_LOCK" -> 1
                      [] OTHER -> 0]

Init == MemoryInit /\ sem = InitializeSemaphores

-----------------------------------------------------------------------------
(* chef.c *)

(* Mutant: lock_memory_options left out of the semop. *)
ReserveOvenWithoutLock(c) ==
  /\ Goto(c, "put_in_oven", "find_oven_slot")
  /\ SemOp({"AVAILABLE_PLACES_IN_OVEN"}, {})
  /\ UNCHANGED <<ovenVars, tableVars, pizza_type, oven_idx, table_idx>>

LockAndReserveOven(c) ==
  /\ Goto(c, "put_in_oven", "find_oven_slot")
  /\ SemOp({"MEMORY_LOCK", "AVAILABLE_PLACES_IN_OVEN"}, {})
  /\ UNCHANGED <<ovenVars, tableVars, pizza_type, oven_idx, table_idx>>

PutUnlock(c) ==
  /\ Goto(c, "put_unlock", "bake")
  /\ SemOp({}, {"MEMORY_LOCK"})
  /\ UNCHANGED <<ovenVars, tableVars, pizza_type, oven_idx, table_idx>>

(* Mutant: add_pizza_to_waiting_options left out of the semop. *)
MoveToTableWithoutNotice(c) ==
  /\ Goto(c, "bake", "take_out")
  /\ SemOp({"MEMORY_LOCK", "AVAILABLE_PLACES_ON_THE_TABLE"},
           {"AVAILABLE_PLACES_IN_OVEN"})
  /\ UNCHANGED <<ovenVars, tableVars, pizza_type, oven_idx, table_idx>>

LockAndMoveToTable(c) ==
  /\ Goto(c, "bake", "take_out")
  /\ SemOp({"MEMORY_LOCK", "AVAILABLE_PLACES_ON_THE_TABLE"},
           {"AVAILABLE_PLACES_IN_OVEN", "NO_WAITING_PIZZAS"})
  /\ UNCHANGED <<ovenVars, tableVars, pizza_type, oven_idx, table_idx>>

TakeUnlock(c) ==
  /\ Goto(c, "take_unlock", "prepare")
  /\ SemOp({}, {"MEMORY_LOCK"})
  /\ UNCHANGED <<ovenVars, tableVars, pizza_type, oven_idx, table_idx>>

Chef(c) ==
  \/ PreparePizza(c) /\ UNCHANGED sem
  \/ LockAndReserveOven(c)
  \/ PutUnlock(c)
  \/ LockAndMoveToTable(c)
  \/ TakeUnlock(c)
  \/ ChefMemoryStep(c) /\ UNCHANGED sem

-----------------------------------------------------------------------------
(* deliverer.c *)

(* Mutant: get_pizza_from_the_table_options left out of the semop. *)
StartDeliveryKeepingPlace(d) ==
  /\ Goto(d, "wait", "look_on_table")
  /\ SemOp({"MEMORY_LOCK", "NO_WAITING_PIZZAS"}, {"NO_PIZZAS_IN_DELIVERY"})
  /\ UNCHANGED <<ovenVars, tableVars, pizza_type, oven_idx, table_idx>>

LockAndStartDelivery(d) ==
  /\ Goto(d, "wait", "look_on_table")
  /\ SemOp({"MEMORY_LOCK", "NO_WAITING_PIZZAS"},
           {"AVAILABLE_PLACES_ON_THE_TABLE", "NO_PIZZAS_IN_DELIVERY"})
  /\ UNCHANGED <<ovenVars, tableVars, pizza_type, oven_idx, table_idx>>

GetUnlock(d) ==
  /\ Goto(d, "get_unlock", "travel")
  /\ SemOp({}, {"MEMORY_LOCK"})
  /\ UNCHANGED <<ovenVars, tableVars, pizza_type, oven_idx, table_idx>>

(* Mutant: pizza_type is not reset to -1. *)
FinishDeliveryKeepingPizza(d) ==
  /\ Goto(d, "travel", "wait")
  /\ SemOp({"NO_PIZZAS_IN_DELIVERY"}, {})
  /\ UNCHANGED <<ovenVars, tableVars, pizza_type, oven_idx, table_idx>>

FinishDelivery(d) ==
  /\ Goto(d, "travel", "wait")
  /\ SemOp({"NO_PIZZAS_IN_DELIVERY"}, {})
  /\ pizza_type' = [pizza_type EXCEPT ![d] = Empty]
  /\ UNCHANGED <<ovenVars, tableVars, oven_idx, table_idx>>

Deliverer(d) ==
  \/ LockAndStartDelivery(d)
  \/ GetUnlock(d)
  \/ FinishDelivery(d)
  \/ DelivererMemoryStep(d) /\ UNCHANGED sem

-----------------------------------------------------------------------------

Next == (\E c \in Chefs : Chef(c)) \/ (\E d \in Deliverers : Deliverer(d))

Spec == Init /\ [][Next]_vars

(* Every worker that can go on does: its sleeps are finite and a semop that *)
(* stays possible is granted.  Nothing is assumed of a semop that is only   *)
(* possible from time to time.                                              *)
Fairness == /\ \A c \in Chefs : WF_vars(Chef(c))
            /\ \A d \in Deliverers : WF_vars(Deliverer(d))

FairSpec == Spec /\ Fairness

-----------------------------------------------------------------------------

ChefPc == ChefInMemory \cup {"prepare", "put_in_oven", "bake", "exited"}
DelivererPc == DelivererInMemory \cup {"wait", "travel"}

(* Every variable has the type the C declarations give it. *)
TypeOK ==
  /\ no_oven_pizzas \in Int /\ no_table_pizzas \in Int
  /\ oven_slots \in [OvenSlots -> PizzaOrEmpty]
  /\ table_slots \in [TableSlots -> PizzaOrEmpty]
  /\ pizza_type \in [Workers -> PizzaOrEmpty]
  /\ oven_idx \in [Chefs -> OvenSlots \cup {-1}]
  /\ table_idx \in [Workers -> TableSlots \cup {-1}]
  /\ pc \in [Workers -> ChefPc \cup DelivererPc]
  /\ \A c \in Chefs : pc[c] \in ChefPc
  /\ \A d \in Deliverers : pc[d] \in DelivererPc
  /\ sem \in [SemIds -> Nat]

InMemory(w) == pc[w] \in ChefInMemory \cup DelivererInMemory

(* README.md:51: no array is modified by several processes at once.  At     *)
(* most one worker is between the semop that takes MEMORY_LOCK and the one  *)
(* that gives it back, and the lock is taken exactly when one is.           *)
MutualExclusion ==
  /\ \A v, w \in Workers : InMemory(v) /\ InMemory(w) => v = w
  /\ sem["MEMORY_LOCK"] = IF \E w \in Workers : InMemory(w) THEN 0 ELSE 1

(* chef.c:124: oven_idx, chosen before the memory was unlocked for the      *)
(* 4-5 seconds of baking, still leads to the chef's own pizza afterwards.   *)
OvenIndexStaysValid ==
  \A c \in Chefs : pc[c] \in {"put_unlock", "bake", "take_out"} =>
    /\ oven_idx[c] \in OvenSlots
    /\ oven_slots[oven_idx[c]] = pizza_type[c]
    /\ pizza_type[c] # Empty

(* The counters printed and tested by the workers count the occupied slots, *)
(* and the semaphores the free and the taken places, whenever nobody is in  *)
(* the memory.                                                              *)
CountersAgree ==
  (\A w \in Workers : ~InMemory(w)) =>
    /\ no_oven_pizzas = Cardinality(Occupied(oven_slots))
    /\ no_table_pizzas = Cardinality(Occupied(table_slots))
    /\ sem["AVAILABLE_PLACES_IN_OVEN"] = OvenCapacity - no_oven_pizzas
    /\ sem["AVAILABLE_PLACES_ON_THE_TABLE"] = TableCapacity - no_table_pizzas
    /\ sem["NO_WAITING_PIZZAS"] = no_table_pizzas

(* deliverer.c:100 decrements what :55 incremented: finish_delivery never   *)
(* waits, so no deliverer is stuck with a delivered pizza.                  *)
FinishNeverBlocks ==
  \A d \in Deliverers : pc[d] = "travel" => sem["NO_PIZZAS_IN_DELIVERY"] > 0

(* The pizzeria does not seize up: pizzas are delivered again and again.    *)
KeepsDelivering == []<><<\E d \in Deliverers : FinishDelivery(d)>>_vars

-----------------------------------------------------------------------------
(* The inductive invariant behind the properties above: who is in memory,   *)
(* what is in whose hands, and which worker accounts for each unit of each  *)
(* semaphore and each occupied slot.                                        *)

ReservedPc == {"find_oven_slot", "store_in_oven", "put_unlock", "bake"}
BakingPc == {"put_unlock", "bake", "take_out"}
MovingPc == {"take_out", "find_table_slot", "store_on_table"}
GettingPc == {"look_on_table", "take_from_table"}
DeliveringPc == {"look_on_table", "take_from_table", "get_unlock", "travel"}

AtPc(W, P) == {w \in W : pc[w] \in P}
Reserved == AtPc(Chefs, ReservedPc)
Baking == AtPc(Chefs, BakingPc)
Moving == AtPc(Chefs, MovingPc)
Getting == AtPc(Deliverers, GettingPc)
Delivering == AtPc(Deliverers, DeliveringPc)

Hands ==
  /\ \A c \in Chefs : pc[c] \notin {"prepare", "take_unlock"} => pizza_type[c] \in PizzaTypes
  /\ \A d \in Deliverers : IF pc[d] \in {"get_unlock", "travel"}
                            THEN pizza_type[d] \in PizzaTypes ELSE pizza_type[d] = Empty

OvenAccount ==
  /\ sem["AVAILABLE_PLACES_IN_OVEN"] + Cardinality(Reserved) = OvenCapacity
  /\ no_oven_pizzas = Cardinality(Baking)

OvenOwners ==
  /\ \A c \in Baking : /\ oven_idx[c] \in OvenSlots
                        /\ oven_slots[oven_idx[c]] = pizza_type[c]
  /\ \A b, c \in Baking : oven_idx[b] = oven_idx[c] => b = c
  /\ \A i \in OvenSlots : oven_slots[i] # Empty => \E c \in Baking : oven_idx[c] = i
  /\ \A c \in AtPc(Chefs, {"store_in_oven", "find_table_slot", "store_on_table"}) :
        oven_idx[c] \in OvenSlots /\ oven_slots[oven_idx[c]] = Empty

TableAccount ==
  LET held == Cardinality(Moving) - Cardinality(Getting)
  IN  /\ no_table_pizzas = Cardinality(Occupied(table_slots))
      /\ sem["AVAILABLE_PLACES_ON_THE_TABLE"] = TableCapacity - no_table_pizzas - held
      /\ sem["NO_WAITING_PIZZAS"] = no_table_pizzas + held

TableOwners ==
  /\ \A c \in AtPc(Chefs, {"store_on_table"}) :
        table_idx[c] \in TableSlots /\ table_slots[table_idx[c]] = Empty
  /\ \A d \in AtPc(Deliverers, {"take_from_table"}) :
        table_idx[d] \in TableSlots /\ table_slots[table_idx[d]] # Empty

DeliveryAccount == sem["NO_PIZZAS_IN_DELIVERY"] = Cardinality(Delivering)

Accounts ==
  /\ TypeOK /\ MutualExclusion /\ Hands
  /\ AtPc(Chefs, {"exited"}) = {}
  /\ OvenAccount /\ OvenOwners
  /\ TableAccount /\ TableOwners
  /\ DeliveryAccount

=============================================================================
