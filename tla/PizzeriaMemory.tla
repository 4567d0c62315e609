--------------------------- MODULE PizzeriaMemory ---------------------------
(***************************************************************************)
(* The shared memory of the pizzeria (struct Pizzeria) and what chefs and   *)
(* deliverers do to it while they are supposed to hold the memory lock.     *)
(* The code of the two versions (zad1: System V, zad2: POSIX) is the same   *)
(* here; PizzeriaSysV and PizzeriaPosix add the semaphores, which differ.   *)
(*                                                                          *)
(* A read of the shared arrays and the write that depends on it are steps   *)
(* of their own: two processes in here at once would overwrite each other.  *)
(***************************************************************************)
EXTENDS Integers, FiniteSets, FiniteSetsExt

CONSTANTS Chefs, Deliverers,   \* the worker processes
          OvenCapacity,        \* OVEN_CAPACITY
          TableCapacity,       \* TABLE_CAPACITY
          PizzaTypes,          \* what choose_pizza_type may return
          Empty                \* the -1 that marks an empty slot

ASSUME WorkersAreDistinct == Chefs \cap Deliverers = {}
ASSUME WorkersAreFinite == IsFiniteSet(Chefs) /\ IsFiniteSet(Deliverers)
ASSUME Capacities == OvenCapacity \in Nat \ {0} /\ TableCapacity \in Nat \ {0}
ASSUME EmptyIsNoPizza == Empty \notin PizzaTypes

Workers == Chefs \cup Deliverers
OvenSlots == 0 .. OvenCapacity - 1
TableSlots == 0 .. TableCapacity - 1
PizzaOrEmpty == PizzaTypes \cup {Empty}

VARIABLES
  no_oven_pizzas, oven_slots,     \* struct Pizzeria
  no_table_pizzas, table_slots,
  pizza_type,                     \* per worker: the pizza in its hands or mind
  oven_idx, table_idx,            \* per worker: the slots it has chosen
  pc                              \* per worker: where it is

ovenVars == <<no_oven_pizzas, oven_slots>>
tableVars == <<no_table_pizzas, table_slots>>
memoryVars == <<no_oven_pizzas, oven_slots, no_table_pizzas, table_slots,
                pizza_type, oven_idx, table_idx, pc>>

(* Where a worker is between taking and releasing the memory lock, as far   *)
(* as the code shared by the two versions goes.                             *)
ChefInMemory == {"find_oven_slot", "store_in_oven", "put_unlock",
                 "take_out", "find_table_slot", "store_on_table", "take_unlock"}
DelivererInMemory == {"look_on_table", "take_from_table", "get_unlock"}

-----------------------------------------------------------------------------

MemoryInit ==
  /\ no_oven_pizzas = 0
  /\ oven_slots = [i \in OvenSlots |-> Empty]
  /\ no_table_pizzas = 0
  /\ table_slots = [i \in TableSlots |-> Empty]
  /\ pizza_type = [w \in Workers |-> Empty]
  /\ oven_idx = [c \in Chefs |-> 0]
  /\ table_idx = [w \in Workers |-> 0]
  /\ pc = [w \in Workers |-> IF w \in Chefs THEN "prepare" ELSE "wait"]

Goto(w, from, to) ==
  /\ pc[w] = from
  /\ pc' = [pc EXCEPT ![w] = to]

(* Mutant: the loop stops one short of the end. *)
FindEmptySlotStopsShort(arr) ==
  LET free == {i \in DOMAIN arr : arr[i] = Empty /\ i + 1 \in DOMAIN arr}
  IN  IF free = {} THEN -1 ELSE Min(free)

(* The first index of arr that holds no pizza, or -1. *)
FindEmptySlot(arr) ==
  LET free == {i \in DOMAIN arr : arr[i] = Empty}
  IN  IF free = {} THEN -1 ELSE Min(free)

(* The first index of arr that holds a pizza, or -1 when the loop falls     *)
(* through.                                                                 *)
FindPizza(arr) ==
  LET taken == {i \in DOMAIN arr : arr[i] # Empty}
  IN  IF taken = {} THEN -1 ELSE Min(taken)

PreparePizza(c) ==
  /\ Goto(c, "prepare", "put_in_oven")
  /\ \E t \in PizzaTypes : pizza_type' = [pizza_type EXCEPT ![c] = t]
  /\ UNCHANGED <<ovenVars, tableVars, oven_idx, table_idx>>

FindOvenSlot(c) ==
  /\ Goto(c, "find_oven_slot",
          IF no_oven_pizzas = OvenCapacity THEN "exited" ELSE "store_in_oven")
  /\ oven_idx' = IF no_oven_pizzas = OvenCapacity THEN oven_idx
                 ELSE [oven_idx EXCEPT ![c] = FindEmptySlot(oven_slots)]
  /\ UNCHANGED <<ovenVars, tableVars, pizza_type, table_idx>>

StoreInOven(c) ==
  /\ Goto(c, "store_in_oven", "put_unlock")
  /\ oven_slots' = [oven_slots EXCEPT ![oven_idx[c]] = pizza_type[c]]
  /\ no_oven_pizzas' = no_oven_pizzas + 1
  /\ UNCHANGED <<tableVars, pizza_type, oven_idx, table_idx>>

TakeOutOfOven(c) ==
  /\ Goto(c, "take_out", "find_table_slot")
  /\ pizza_type' = [pizza_type EXCEPT ![c] = oven_slots[oven_idx[c]]]
  /\ oven_slots' = [oven_slots EXCEPT ![oven_idx[c]] = Empty]
  /\ no_oven_pizzas' = no_oven_pizzas - 1
  /\ UNCHANGED <<tableVars, oven_idx, table_idx>>

FindTableSlot(c) ==
  /\ Goto(c, "find_table_slot",
          IF no_table_pizzas = TableCapacity THEN "exited" ELSE "store_on_table")
  /\ table_idx' = IF no_table_pizzas = TableCapacity THEN table_idx
                  ELSE [table_idx EXCEPT ![c] = FindEmptySlot(table_slots)]
  /\ UNCHANGED <<ovenVars, tableVars, pizza_type, oven_idx>>

StoreOnTable(c) ==
  /\ Goto(c, "store_on_table", "take_unlock")
  /\ table_slots' = [table_slots EXCEPT ![table_idx[c]] = pizza_type[c]]
  /\ no_table_pizzas' = no_table_pizzas + 1
  /\ UNCHANGED <<ovenVars, pizza_type, oven_idx, table_idx>>

(* The loop over the table stops at the first pizza; with none, the         *)
(* deliverer goes on with the pizza_type it has.                            *)
LookOnTable(d) ==
  /\ Goto(d, "look_on_table",
          IF FindPizza(table_slots) = -1 THEN "get_unlock" ELSE "take_from_table")
  /\ table_idx' = [table_idx EXCEPT ![d] = FindPizza(table_slots)]
  /\ UNCHANGED <<ovenVars, tableVars, pizza_type, oven_idx>>

(* Mutant: the slot is not marked empty. *)
TakeFromTableAndLeaveIt(d) ==
  /\ Goto(d, "take_from_table", "get_unlock")
  /\ pizza_type' = [pizza_type EXCEPT ![d] = table_slots[table_idx[d]]]
  /\ no_table_pizzas' = no_table_pizzas - 1
  /\ UNCHANGED <<ovenVars, table_slots, oven_idx, table_idx>>

TakeFromTable(d) ==
  /\ Goto(d, "take_from_table", "get_unlock")
  /\ pizza_type' = [pizza_type EXCEPT ![d] = table_slots[table_idx[d]]]
  /\ table_slots' = [table_slots EXCEPT ![table_idx[d]] = Empty]
  /\ no_table_pizzas' = no_table_pizzas - 1
  /\ UNCHANGED <<ovenVars, oven_idx, table_idx>>

ChefMemoryStep(c) ==
  \/ FindOvenSlot(c) \/ StoreInOven(c)
  \/ TakeOutOfOven(c) \/ FindTableSlot(c) \/ StoreOnTable(c)

DelivererMemoryStep(d) == LookOnTable(d) \/ TakeFromTable(d)
-----------------------------------------------------------------------------
(* What both versions promise of the memory. *)

(* zad1/chef.c:78 and :130 "This error should never happen": no chef finds  *)
(* a counter at the capacity after its semaphores reserved it a place, and  *)
(* the slot it stores into exists (find_empty_slot did not return -1) and   *)
(* is empty.  In zad2 the place in the oven is even given back (:141)       *)
(* before the slot is emptied (:149).                                       *)
NeverOverfull ==
  \A c \in Chefs :
    /\ pc[c] # "exited"
    /\ pc[c] = "store_in_oven" => /\ oven_idx[c] \in OvenSlots
                                  /\ oven_slots[oven_idx[c]] = Empty
    /\ pc[c] = "store_on_table" => /\ table_idx[c] \in TableSlots
                                   /\ table_slots[table_idx[c]] = Empty

(* zad1/deliverer.c:66-73 falls through without a pizza when the table is   *)
(* empty; no deliverer ever leaves without one.                             *)
DelivererHasPizza ==
  \A d \in Deliverers : pc[d] \in {"get_unlock", "travel"} => pizza_type[d] # Empty

Occupied(arr) == {i \in DOMAIN arr : arr[i] # Empty}

(* Refinement.  A pizza moves from the oven to the table when it is stored  *)
(* there; until then the chef that carries it still has it in the oven, and *)
(* a deliverer has it when it takes it off the table.                       *)

Carrying(c, i) == pc[c] \in {"find_table_slot", "store_on_table"} /\ oven_idx[c] = i

OvenContents ==
  [i \in OvenSlots |->
     IF \E c \in Chefs : Carrying(c, i)
     THEN pizza_type[CHOOSE c \in Chefs : Carrying(c, i)]
     ELSE oven_slots[i]]

DelivererBags == [d \in Deliverers |-> pizza_type[d]]

Flow == INSTANCE PizzaFlow WITH oven <- OvenContents, table <- table_slots,
                                bag <- DelivererBags

(* The workers, however they interleave, only move pizzas one at a time     *)
(* from an oven slot to a free table slot, from there to a deliverer with   *)
(* an empty bag, and to the client.                                         *)
ImplementsFlow == Flow!Spec
=============================================================================
