------------------------- MODULE PizzeriaSysV_proofs -------------------------
(***************************************************************************)
(* Proofs about PizzeriaSysV for any number of chefs and deliverers, any    *)
(* capacities and any pizzas, and, at the end, about PizzeriaMain for any   *)
(* number of starts and kills.                                              *)
(***************************************************************************)
EXTENDS PizzeriaMain, CommonLemmas

-----------------------------------------------------------------------------
(* What a semop leaves: a legal semaphore set, and each semaphore one up,   *)
(* one down or as it was.                                                   *)
LEMMA SemOpEffect ==
  ASSUME sem \in [SemIds -> Nat], NEW down \in SUBSET SemIds,
         NEW up \in SUBSET SemIds, SemOp(down, up)
  PROVE  /\ sem' \in [SemIds -> Nat]
         /\ \A s \in down : sem[s] > 0 /\ sem'[s] = sem[s] - 1
         /\ \A s \in up \ down : sem'[s] = sem[s] + 1
         /\ \A s \in SemIds \ (up \cup down) : sem'[s] = sem[s]
BY DEF SemOp

(* find_empty_slot returns an empty slot if there is one, else -1.          *)
LEMMA FindEmptySlotFinds ==
  ASSUME NEW arr, DOMAIN arr \subseteq Nat
  PROVE  IF \E i \in DOMAIN arr : arr[i] = Empty
         THEN FindEmptySlot(arr) \in DOMAIN arr /\ arr[FindEmptySlot(arr)] = Empty
         ELSE FindEmptySlot(arr) = -1
<1> DEFINE free == {i \in DOMAIN arr : arr[i] = Empty}
<1>1. free \in SUBSET Nat
  OBVIOUS
<1>2. free # {} => Min(free) \in free
  BY <1>1, MinIsElement
<1> QED
  BY <1>2 DEF FindEmptySlot

(* The loop over the table stops at a pizza if there is one.                *)
LEMMA FindPizzaFinds ==
  ASSUME NEW arr, DOMAIN arr \subseteq Nat
  PROVE  IF \E i \in DOMAIN arr : arr[i] # Empty
         THEN FindPizza(arr) \in DOMAIN arr /\ arr[FindPizza(arr)] # Empty
         ELSE FindPizza(arr) = -1
<1> DEFINE taken == {i \in DOMAIN arr : arr[i] # Empty}
<1>1. taken \in SUBSET Nat
  OBVIOUS
<1>2. taken # {} => Min(taken) \in taken
  BY <1>1, MinIsElement
<1> QED
  BY <1>2 DEF FindPizza

(* One worker moves from one place in its code to another.                  *)
LEMMA AtPcStep ==
  ASSUME NEW W, IsFiniteSet(W), W \subseteq Workers, NEW P,
         NEW w \in Workers, NEW to, DOMAIN pc = Workers, pc' = [pc EXCEPT ![w] = to]
  PROVE  /\ IsFiniteSet(AtPc(W, P)) /\ IsFiniteSet(AtPc(W, P)')
         /\ Cardinality(AtPc(W, P)) \in Nat /\ Cardinality(AtPc(W, P)') \in Nat
         /\ Cardinality(AtPc(W, P)') = Cardinality(AtPc(W, P))
                + (IF w \in W /\ to \in P THEN 1 ELSE 0)
                - (IF w \in W /\ pc[w] \in P THEN 1 ELSE 0)
<1>1. AtPc(W, P)' = {v \in W : pc'[v] \in P}
  BY DEF AtPc
<1>2. AtPc(W, P)' \ {w} = AtPc(W, P) \ {w}
  BY <1>1 DEF AtPc
<1>3. IsFiniteSet(AtPc(W, P))
  BY FS_Subset DEF AtPc
<1>4. /\ w \in AtPc(W, P)' <=> w \in W /\ to \in P
      /\ w \in AtPc(W, P) <=> w \in W /\ pc[w] \in P
  BY <1>1 DEF AtPc
<1> QED
  BY <1>2, <1>3, <1>4, CountStep


-----------------------------------------------------------------------------
(* A chef let through by the semop finds room in the oven (chef.c:77-82):   *)
(* the other chefs with a pizza in the oven hold other reserved places.     *)
LEMMA OvenHasRoom ==
  ASSUME Accounts, NEW c \in Chefs, pc[c] = "find_oven_slot"
  PROVE  no_oven_pizzas # OvenCapacity /\ \E i \in OvenSlots : oven_slots[i] = Empty
<1>1. Baking \subseteq Reserved \ {c} /\ c \in Reserved
  BY DEF Accounts, MutualExclusion, InMemory, ChefInMemory, Baking, Reserved, AtPc, BakingPc, ReservedPc, Workers
<1>2. IsFiniteSet(Reserved) /\ IsFiniteSet(Baking)
  BY WorkersAreFinite, FS_Subset DEF Reserved, Baking, AtPc, BakingPc
<1>3. /\ IsFiniteSet(Reserved \ {c})
      /\ Cardinality(Reserved \ {c}) = Cardinality(Reserved) - 1
  BY <1>1, <1>2, FS_RemoveElement
<1>4. Cardinality(Baking) =< Cardinality(Reserved \ {c})
  BY <1>1, <1>3, FS_Subset
<1>5. Cardinality(Baking) \in Nat /\ Cardinality(Reserved) \in Nat
  BY <1>2, FS_CardinalityType
<1>6. Cardinality(Baking) < OvenCapacity
  BY <1>3, <1>4, <1>5, Capacities DEF Accounts, OvenAccount, TypeOK, SemIds
<1>7. ASSUME \A i \in OvenSlots : oven_slots[i] # Empty
      PROVE  FALSE
  <2> DEFINE f == [b \in Baking |-> oven_idx[b]]
  <2>1. f \in Surjection(Baking, OvenSlots)
    BY <1>7 DEF Accounts, OvenOwners, Surjection
  <2>2. Cardinality(OvenSlots) =< Cardinality(Baking)
    BY <1>2, <2>1, FS_Surjection
  <2>3. Cardinality(OvenSlots) = OvenCapacity
    BY FS_Interval, Capacities DEF OvenSlots
  <2> QED
    BY <1>5, <1>6, <2>2, <2>3, Capacities
<1>8. no_oven_pizzas # OvenCapacity
  BY <1>5, <1>6, Capacities DEF Accounts, OvenAccount
<1> QED
  BY <1>7, <1>8

(* The slots of the table that are taken are finitely many, and all of them *)
(* only if they are as many as the table has.                               *)
LEMMA TableOccupied ==
  ASSUME TypeOK
  PROVE  /\ IsFiniteSet(Occupied(table_slots)) /\ Cardinality(Occupied(table_slots)) \in Nat
         /\ Cardinality(Occupied(table_slots)) = 0
              => \A i \in TableSlots : table_slots[i] = Empty
         /\ Cardinality(Occupied(table_slots)) < TableCapacity
              => \E i \in TableSlots : table_slots[i] = Empty
<1>1. Occupied(table_slots) = {i \in TableSlots : table_slots[i] # Empty}
  BY DEF TypeOK, Occupied
<1>2. IsFiniteSet(TableSlots) /\ Cardinality(TableSlots) = TableCapacity
  BY FS_Interval, Capacities DEF TableSlots
<1>3. IsFiniteSet(Occupied(table_slots)) /\ Cardinality(Occupied(table_slots)) \in Nat
  BY <1>1, <1>2, FS_Subset, FS_CardinalityType
<1>4. Cardinality(Occupied(table_slots)) = 0 => Occupied(table_slots) = {}
  BY <1>3, FS_EmptySet
<1>5. Occupied(table_slots) = TableSlots => Cardinality(Occupied(table_slots)) = TableCapacity
  BY <1>2
<1>6. Cardinality(Occupied(table_slots)) < TableCapacity => Occupied(table_slots) # TableSlots
  BY <1>3, <1>5, Capacities
<1> QED
  BY <1>1, <1>3, <1>4, <1>6

(* Only the worker in memory can be between the semop and the table.        *)
LEMMA OneAtTheTable ==
  ASSUME Accounts, NEW w \in Workers, InMemory(w)
  PROVE  /\ Cardinality(Moving) = IF w \in Moving THEN 1 ELSE 0
         /\ Cardinality(Getting) = IF w \in Getting THEN 1 ELSE 0
<1>1. Moving = (IF w \in Moving THEN {w} ELSE {}) /\ Getting = (IF w \in Getting THEN {w} ELSE {})
  BY DEF Accounts, MutualExclusion, InMemory, ChefInMemory, DelivererInMemory,
         Moving, Getting, AtPc, MovingPc, GettingPc, Workers
<1> QED
  BY <1>1, FS_EmptySet, FS_Singleton

(* A chef on its way to the table finds room there (chef.c:129-134).        *)
LEMMA TableHasRoom ==
  ASSUME Accounts, NEW c \in Chefs, pc[c] = "find_table_slot"
  PROVE  no_table_pizzas # TableCapacity /\ \E i \in TableSlots : table_slots[i] = Empty
<1>1. c \in Workers /\ InMemory(c) /\ c \in Moving /\ c \notin Getting
  BY WorkersAreDistinct DEF Workers, InMemory, ChefInMemory, Moving, Getting, AtPc, MovingPc, GettingPc
<1>2. Cardinality(Moving) = 1 /\ Cardinality(Getting) = 0
  BY <1>1, OneAtTheTable
<1>3. /\ sem["AVAILABLE_PLACES_ON_THE_TABLE"] \in Nat
      /\ sem["AVAILABLE_PLACES_ON_THE_TABLE"] = TableCapacity - no_table_pizzas - 1
      /\ no_table_pizzas = Cardinality(Occupied(table_slots))
      /\ no_table_pizzas \in Int
  BY <1>2 DEF Accounts, TableAccount, TypeOK, SemIds
<1>4. no_table_pizzas < TableCapacity
  BY <1>3, Capacities
<1> QED
  BY <1>3, <1>4, TableOccupied, Capacities DEF Accounts

(* A deliverer let through by the semop finds a pizza (deliverer.c:66-73).  *)
LEMMA TableHasPizza ==
  ASSUME Accounts, NEW d \in Deliverers, pc[d] = "look_on_table"
  PROVE  \E i \in TableSlots : table_slots[i] # Empty
<1>1. d \in Workers /\ InMemory(d) /\ d \notin Moving /\ d \in Getting
  BY WorkersAreDistinct DEF Workers, InMemory, DelivererInMemory, Moving, Getting, AtPc, MovingPc, GettingPc
<1>2. Cardinality(Moving) = 0 /\ Cardinality(Getting) = 1
  BY <1>1, OneAtTheTable
<1>3. /\ sem["NO_WAITING_PIZZAS"] \in Nat
      /\ sem["NO_WAITING_PIZZAS"] = no_table_pizzas - 1
      /\ no_table_pizzas = Cardinality(Occupied(table_slots))
      /\ no_table_pizzas \in Int
  BY <1>2 DEF Accounts, TableAccount, TypeOK, SemIds
<1>4. Occupied(table_slots) # {}
  BY <1>3, FS_EmptySet
<1> QED
  BY <1>4 DEF Occupied, Accounts, TypeOK

(* So none of the two "should never happen" exits is taken.                 *)
LEMMA NoExit ==
  ASSUME Accounts, NEW c \in Chefs
  PROVE  /\ FindOvenSlot(c) => Goto(c, "find_oven_slot", "store_in_oven")
         /\ FindTableSlot(c) => Goto(c, "find_table_slot", "store_on_table")
BY OvenHasRoom, TableHasRoom DEF FindOvenSlot, FindTableSlot, Goto


(* Every step keeps the types. *)
LEMMA TypeStep == Accounts /\ [Next]_vars => TypeOK'
<1> SUFFICES ASSUME Accounts, [Next]_vars
             PROVE  TypeOK'
  OBVIOUS
<1> USE DEF Accounts, TypeOK, Goto, ovenVars, tableVars, Workers, ChefPc, DelivererPc,
            ChefInMemory, DelivererInMemory
<1>1. ASSUME NEW c \in Chefs, PreparePizza(c), UNCHANGED sem
     PROVE  TypeOK'
  BY <1>1 DEF PreparePizza, PizzaOrEmpty
<1>2. ASSUME NEW c \in Chefs, LockAndReserveOven(c)
     PROVE  TypeOK'
  <2>1. sem' \in [SemIds -> Nat]
    BY <1>2, SemOpEffect DEF LockAndReserveOven, SemIds
  <2> QED
    BY <1>2, <2>1 DEF LockAndReserveOven
<1>3. ASSUME NEW c \in Chefs, FindOvenSlot(c), UNCHANGED sem
     PROVE  TypeOK'
  <2>1. FindEmptySlot(oven_slots) \in OvenSlots \cup {-1}
    BY FindEmptySlotFinds, Capacities DEF OvenSlots
  <2> QED
    BY <1>3, <2>1 DEF FindOvenSlot
<1>4. ASSUME NEW c \in Chefs, StoreInOven(c), UNCHANGED sem
     PROVE  TypeOK'
  <2>1. oven_idx[c] \in OvenSlots /\ pizza_type[c] \in PizzaOrEmpty
    BY <1>4 DEF StoreInOven, OvenOwners, AtPc
  <2> QED
    BY <1>4, <2>1 DEF StoreInOven
<1>5. ASSUME NEW c \in Chefs, PutUnlock(c)
     PROVE  TypeOK'
  <2>1. sem' \in [SemIds -> Nat]
    BY <1>5, SemOpEffect DEF PutUnlock, SemIds
  <2> QED
    BY <1>5, <2>1 DEF PutUnlock
<1>6. ASSUME NEW c \in Chefs, LockAndMoveToTable(c)
     PROVE  TypeOK'
  <2>1. sem' \in [SemIds -> Nat]
    BY <1>6, SemOpEffect DEF LockAndMoveToTable, SemIds
  <2> QED
    BY <1>6, <2>1 DEF LockAndMoveToTable
<1>7. ASSUME NEW c \in Chefs, TakeOutOfOven(c), UNCHANGED sem
     PROVE  TypeOK'
  <2>1. oven_idx[c] \in OvenSlots /\ oven_slots[oven_idx[c]] \in PizzaOrEmpty
    BY <1>7 DEF TakeOutOfOven, OvenOwners, Baking, AtPc, BakingPc
  <2> QED
    BY <1>7, <2>1 DEF TakeOutOfOven, PizzaOrEmpty
<1>8. ASSUME NEW c \in Chefs, FindTableSlot(c), UNCHANGED sem
     PROVE  TypeOK'
  <2>1. FindEmptySlot(table_slots) \in TableSlots \cup {-1}
    BY FindEmptySlotFinds, Capacities DEF TableSlots
  <2> QED
    BY <1>8, <2>1 DEF FindTableSlot
<1>9. ASSUME NEW c \in Chefs, StoreOnTable(c), UNCHANGED sem
     PROVE  TypeOK'
  <2>1. table_idx[c] \in TableSlots /\ pizza_type[c] \in PizzaOrEmpty
    BY <1>9 DEF StoreOnTable, TableOwners, AtPc
  <2> QED
    BY <1>9, <2>1 DEF StoreOnTable
<1>10. ASSUME NEW c \in Chefs, TakeUnlock(c)
     PROVE  TypeOK'
  <2>1. sem' \in [SemIds -> Nat]
    BY <1>10, SemOpEffect DEF TakeUnlock, SemIds
  <2> QED
    BY <1>10, <2>1 DEF TakeUnlock
<1>11. ASSUME NEW d \in Deliverers, LockAndStartDelivery(d)
     PROVE  TypeOK'
  <2>1. sem' \in [SemIds -> Nat]
    BY <1>11, SemOpEffect DEF LockAndStartDelivery, SemIds
  <2> QED
    BY <1>11, <2>1 DEF LockAndStartDelivery
<1>12. ASSUME NEW d \in Deliverers, LookOnTable(d), UNCHANGED sem
     PROVE  TypeOK'
  <2>1. FindPizza(table_slots) \in TableSlots \cup {-1}
    BY FindPizzaFinds, Capacities DEF TableSlots
  <2> QED
    BY <1>12, <2>1 DEF LookOnTable
<1>13. ASSUME NEW d \in Deliverers, TakeFromTable(d), UNCHANGED sem
     PROVE  TypeOK'
  <2>1. table_idx[d] \in TableSlots /\ table_slots[table_idx[d]] \in PizzaOrEmpty
    BY <1>13 DEF TakeFromTable, TableOwners, AtPc
  <2> QED
    BY <1>13, <2>1 DEF TakeFromTable, PizzaOrEmpty
<1>14. ASSUME NEW d \in Deliverers, GetUnlock(d)
     PROVE  TypeOK'
  <2>1. sem' \in [SemIds -> Nat]
    BY <1>14, SemOpEffect DEF GetUnlock, SemIds
  <2> QED
    BY <1>14, <2>1 DEF GetUnlock
<1>15. ASSUME NEW d \in Deliverers, FinishDelivery(d)
     PROVE  TypeOK'
  <2>1. sem' \in [SemIds -> Nat]
    BY <1>15, SemOpEffect DEF FinishDelivery, SemIds
  <2> QED
    BY <1>15, <2>1 DEF FinishDelivery, PizzaOrEmpty
<1>16. CASE UNCHANGED vars
  BY <1>16 DEF vars, memoryVars
<1> QED
  BY <1>1, <1>2, <1>3, <1>4, <1>5, <1>6, <1>7, <1>8, <1>9, <1>10, <1>11, <1>12, <1>13, <1>14, <1>15, <1>16
     DEF Next, Chef, Deliverer, ChefMemoryStep, DelivererMemoryStep


(* Nobody comes in or goes out, and the lock stays as it is.                *)
LEMMA MutexFrame ==
  ASSUME MutualExclusion, sem' = sem, \A v \in Workers : InMemory(v)' <=> InMemory(v)
  PROVE  MutualExclusion'
BY DEF MutualExclusion

(* Every step keeps the memory lock with the one worker that took it.       *)
LEMMA MutexStep == Accounts /\ [Next]_vars => MutualExclusion'
<1> SUFFICES ASSUME Accounts, [Next]_vars
             PROVE  MutualExclusion'
  OBVIOUS
<1> USE DEF Accounts, TypeOK, Goto, Workers, ChefInMemory, DelivererInMemory
<1>1. ASSUME NEW c \in Chefs, PreparePizza(c), UNCHANGED sem
     PROVE  MutualExclusion'
  <2>1. \A v \in Workers : InMemory(v)' <=> InMemory(v)
    BY <1>1 DEF PreparePizza, InMemory
  <2> QED
    BY <1>1, <2>1, MutexFrame
<1>2. ASSUME NEW c \in Chefs, LockAndReserveOven(c)
     PROVE  MutualExclusion'
  <2>1. /\ sem["MEMORY_LOCK"] > 0 /\ sem'["MEMORY_LOCK"] = sem["MEMORY_LOCK"] - 1
    BY <1>2, SemOpEffect, ZenonT(60) DEF LockAndReserveOven, SemIds
  <2>2. (\A v \in Workers : ~InMemory(v)) /\ sem["MEMORY_LOCK"] = 1
    BY <2>1 DEF MutualExclusion
  <2>3. \A v \in Workers : InMemory(v)' <=> v = c
    BY <1>2, <2>2 DEF LockAndReserveOven, InMemory
  <2> QED
    BY <2>1, <2>2, <2>3 DEF MutualExclusion
<1>3. ASSUME NEW c \in Chefs, FindOvenSlot(c), UNCHANGED sem
     PROVE  MutualExclusion'
  <2>1. \A v \in Workers : InMemory(v)' <=> InMemory(v)
    BY <1>3, NoExit DEF FindOvenSlot, InMemory
  <2> QED
    BY <1>3, <2>1, MutexFrame
<1>4. ASSUME NEW c \in Chefs, StoreInOven(c), UNCHANGED sem
     PROVE  MutualExclusion'
  <2>1. \A v \in Workers : InMemory(v)' <=> InMemory(v)
    BY <1>4 DEF StoreInOven, InMemory
  <2> QED
    BY <1>4, <2>1, MutexFrame
<1>5. ASSUME NEW c \in Chefs, PutUnlock(c)
     PROVE  MutualExclusion'
  <2>1. sem'["MEMORY_LOCK"] = sem["MEMORY_LOCK"] + 1
    BY <1>5, SemOpEffect, ZenonT(60) DEF PutUnlock, SemIds
  <2>2. InMemory(c)
    BY <1>5 DEF PutUnlock, InMemory
  <2>3. sem["MEMORY_LOCK"] = 0 /\ \A v \in Workers : InMemory(v) => v = c
    BY <2>2 DEF MutualExclusion
  <2>4. \A v \in Workers : ~InMemory(v)'
    BY <1>5, <2>3 DEF PutUnlock, InMemory
  <2> QED
    BY <2>1, <2>3, <2>4 DEF MutualExclusion
<1>6. ASSUME NEW c \in Chefs, LockAndMoveToTable(c)
     PROVE  MutualExclusion'
  <2>1. /\ sem["MEMORY_LOCK"] > 0 /\ sem'["MEMORY_LOCK"] = sem["MEMORY_LOCK"] - 1
    BY <1>6, SemOpEffect, ZenonT(60) DEF LockAndMoveToTable, SemIds
  <2>2. (\A v \in Workers : ~InMemory(v)) /\ sem["MEMORY_LOCK"] = 1
    BY <2>1 DEF MutualExclusion
  <2>3. \A v \in Workers : InMemory(v)' <=> v = c
    BY <1>6, <2>2 DEF LockAndMoveToTable, InMemory
  <2> QED
    BY <2>1, <2>2, <2>3 DEF MutualExclusion
<1>7. ASSUME NEW c \in Chefs, TakeOutOfOven(c), UNCHANGED sem
     PROVE  MutualExclusion'
  <2>1. \A v \in Workers : InMemory(v)' <=> InMemory(v)
    BY <1>7 DEF TakeOutOfOven, InMemory
  <2> QED
    BY <1>7, <2>1, MutexFrame
<1>8. ASSUME NEW c \in Chefs, FindTableSlot(c), UNCHANGED sem
     PROVE  MutualExclusion'
  <2>1. \A v \in Workers : InMemory(v)' <=> InMemory(v)
    BY <1>8, NoExit DEF FindTableSlot, InMemory
  <2> QED
    BY <1>8, <2>1, MutexFrame
<1>9. ASSUME NEW c \in Chefs, StoreOnTable(c), UNCHANGED sem
     PROVE  MutualExclusion'
  <2>1. \A v \in Workers : InMemory(v)' <=> InMemory(v)
    BY <1>9 DEF StoreOnTable, InMemory
  <2> QED
    BY <1>9, <2>1, MutexFrame
<1>10. ASSUME NEW c \in Chefs, TakeUnlock(c)
     PROVE  MutualExclusion'
  <2>1. sem'["MEMORY_LOCK"] = sem["MEMORY_LOCK"] + 1
    BY <1>10, SemOpEffect, ZenonT(60) DEF TakeUnlock, SemIds
  <2>2. InMemory(c)
    BY <1>10 DEF TakeUnlock, InMemory
  <2>3. sem["MEMORY_LOCK"] = 0 /\ \A v \in Workers : InMemory(v) => v = c
    BY <2>2 DEF MutualExclusion
  <2>4. \A v \in Workers : ~InMemory(v)'
    BY <1>10, <2>3 DEF TakeUnlock, InMemory
  <2> QED
    BY <2>1, <2>3, <2>4 DEF MutualExclusion
<1>11. ASSUME NEW d \in Deliverers, LockAndStartDelivery(d)
     PROVE  MutualExclusion'
  <2>1. /\ sem["MEMORY_LOCK"] > 0 /\ sem'["MEMORY_LOCK"] = sem["MEMORY_LOCK"] - 1
    BY <1>11, SemOpEffect, ZenonT(60) DEF LockAndStartDelivery, SemIds
  <2>2. (\A v \in Workers : ~InMemory(v)) /\ sem["MEMORY_LOCK"] = 1
    BY <2>1 DEF MutualExclusion
  <2>3. \A v \in Workers : InMemory(v)' <=> v = d
    BY <1>11, <2>2 DEF LockAndStartDelivery, InMemory
  <2> QED
    BY <2>1, <2>2, <2>3 DEF MutualExclusion
<1>12. ASSUME NEW d \in Deliverers, LookOnTable(d), UNCHANGED sem
     PROVE  MutualExclusion'
  <2>1. \A v \in Workers : InMemory(v)' <=> InMemory(v)
    BY <1>12 DEF LookOnTable, InMemory
  <2> QED
    BY <1>12, <2>1, MutexFrame
<1>13. ASSUME NEW d \in Deliverers, TakeFromTable(d), UNCHANGED sem
     PROVE  MutualExclusion'
  <2>1. \A v \in Workers : InMemory(v)' <=> InMemory(v)
    BY <1>13 DEF TakeFromTable, InMemory
  <2> QED
    BY <1>13, <2>1, MutexFrame
<1>14. ASSUME NEW d \in Deliverers, GetUnlock(d)
     PROVE  MutualExclusion'
  <2>1. sem'["MEMORY_LOCK"] = sem["MEMORY_LOCK"] + 1
    BY <1>14, SemOpEffect DEF GetUnlock, SemIds
  <2>2. InMemory(d)
    BY <1>14 DEF GetUnlock, InMemory
  <2>3. sem["MEMORY_LOCK"] = 0 /\ \A v \in Workers : InMemory(v) => v = d
    BY <2>2 DEF MutualExclusion
  <2>4. \A v \in Workers : ~InMemory(v)'
    BY <1>14, <2>3 DEF GetUnlock, InMemory
  <2> QED
    BY <2>1, <2>3, <2>4 DEF MutualExclusion
<1>15. ASSUME NEW d \in Deliverers, FinishDelivery(d)
     PROVE  MutualExclusion'
  <2>0. pc[d] = "travel" /\ pc' = [pc EXCEPT ![d] = "wait"]
    BY <1>15 DEF FinishDelivery
  <2>1. \A v \in Workers : InMemory(v)' <=> InMemory(v)
    BY <2>0 DEF InMemory
  <2>2. sem'["MEMORY_LOCK"] = sem["MEMORY_LOCK"]
    BY <1>15 DEF FinishDelivery, SemOp, SemIds
  <2> QED
    BY <2>1, <2>2 DEF MutualExclusion
<1>16. CASE UNCHANGED vars
  BY <1>16, MutexFrame DEF vars, memoryVars, InMemory
<1> QED
  BY <1>1, <1>2, <1>3, <1>4, <1>5, <1>6, <1>7, <1>8, <1>9, <1>10, <1>11, <1>12, <1>13, <1>14, <1>15, <1>16
     DEF Next, Chef, Deliverer, ChefMemoryStep, DelivererMemoryStep


(* By how much AtPc(W, P) grows when w goes to "to".                         *)
Delta(w, W, P, to) == (IF w \in W /\ to \in P THEN 1 ELSE 0)
                        - (IF w \in W /\ pc[w] \in P THEN 1 ELSE 0)

(* The effect of a move on the sets of workers that Accounts counts.        *)
LEMMA CountsStep ==
  ASSUME TypeOK, NEW w \in Workers, NEW to, pc' = [pc EXCEPT ![w] = to]
  PROVE  /\ Cardinality(Reserved) \in Nat
         /\ Cardinality(Reserved') = Cardinality(Reserved) + Delta(w, Chefs, ReservedPc, to)
         /\ Cardinality(Baking) \in Nat
         /\ Cardinality(Baking') = Cardinality(Baking) + Delta(w, Chefs, BakingPc, to)
         /\ Cardinality(Moving) \in Nat
         /\ Cardinality(Moving') = Cardinality(Moving) + Delta(w, Chefs, MovingPc, to)
         /\ Cardinality(Getting) \in Nat
         /\ Cardinality(Getting') = Cardinality(Getting) + Delta(w, Deliverers, GettingPc, to)
         /\ Cardinality(Delivering) \in Nat
         /\ Cardinality(Delivering') = Cardinality(Delivering) + Delta(w, Deliverers, DeliveringPc, to)
<1> USE WorkersAreFinite DEF Workers, TypeOK, Delta
<1>1. /\ Cardinality(Reserved) \in Nat
      /\ Cardinality(Reserved') = Cardinality(Reserved) + Delta(w, Chefs, ReservedPc, to)
  BY AtPcStep DEF Reserved
<1>2. /\ Cardinality(Baking) \in Nat
      /\ Cardinality(Baking') = Cardinality(Baking) + Delta(w, Chefs, BakingPc, to)
  BY AtPcStep DEF Baking
<1>3. /\ Cardinality(Moving) \in Nat
      /\ Cardinality(Moving') = Cardinality(Moving) + Delta(w, Chefs, MovingPc, to)
  BY AtPcStep DEF Moving
<1>4. /\ Cardinality(Getting) \in Nat
      /\ Cardinality(Getting') = Cardinality(Getting) + Delta(w, Deliverers, GettingPc, to)
  BY AtPcStep DEF Getting
<1>5. /\ Cardinality(Delivering) \in Nat
      /\ Cardinality(Delivering') = Cardinality(Delivering) + Delta(w, Deliverers, DeliveringPc, to)
  BY AtPcStep DEF Delivering
<1> QED
  BY <1>1, <1>2, <1>3, <1>4, <1>5

(* The loop over the table always stops at a pizza.                         *)
LEMMA LookFinds ==
  ASSUME Accounts, NEW d \in Deliverers, LookOnTable(d)
  PROVE  /\ Goto(d, "look_on_table", "take_from_table")
         /\ FindPizza(table_slots) \in TableSlots
         /\ table_slots[FindPizza(table_slots)] # Empty
<1>1. DOMAIN table_slots = TableSlots /\ TableSlots \subseteq Nat
  BY Capacities DEF Accounts, TypeOK, TableSlots
<1>2. \E i \in DOMAIN table_slots : table_slots[i] # Empty
  BY <1>1, TableHasPizza DEF LookOnTable, Goto
<1>3. FindPizza(table_slots) \in TableSlots /\ table_slots[FindPizza(table_slots)] # Empty
  BY <1>1, <1>2, FindPizzaFinds
<1>4. FindPizza(table_slots) # -1
  BY <1>1, <1>3
<1> QED
  BY <1>3, <1>4 DEF LookOnTable, Goto

(* Every step keeps the oven's places and the chefs that hold them in step.  *)
LEMMA OvenAccountStep == Accounts /\ [Next]_vars => OvenAccount'
<1> SUFFICES ASSUME Accounts, [Next]_vars
             PROVE  OvenAccount'
  OBVIOUS
<1> USE DEF Goto, ovenVars, tableVars, Workers
<1>0. TypeOK /\ sem \in [SemIds -> Nat] /\ OvenAccount
  BY DEF Accounts, TypeOK
<1>1. ASSUME NEW c \in Chefs, PreparePizza(c), UNCHANGED sem
     PROVE  OvenAccount'
  <2>1. pc[c] = "prepare" /\ pc' = [pc EXCEPT ![c] = "put_in_oven"]
    BY <1>1 DEF PreparePizza
  <2>2. /\ sem'["AVAILABLE_PLACES_IN_OVEN"] = sem["AVAILABLE_PLACES_IN_OVEN"]
    BY <1>0, <1>1 DEF PreparePizza, SemOp, SemIds
  <2>3. /\ Cardinality(Reserved) \in Nat
        /\ Cardinality(Reserved') = Cardinality(Reserved) + Delta(c, Chefs, ReservedPc, "put_in_oven")
        /\ Cardinality(Baking) \in Nat
        /\ Cardinality(Baking') = Cardinality(Baking) + Delta(c, Chefs, BakingPc, "put_in_oven")
    BY <1>0, <2>1, CountsStep
  <2>4. /\ Delta(c, Chefs, ReservedPc, "put_in_oven") = 0
        /\ Delta(c, Chefs, BakingPc, "put_in_oven") = 0
    BY <2>1, WorkersAreDistinct DEF Delta, ReservedPc, BakingPc
  <2> QED
    BY <1>0, <1>1, <2>2, <2>3, <2>4 DEF PreparePizza, OvenAccount, SemIds
<1>2. ASSUME NEW c \in Chefs, LockAndReserveOven(c)
     PROVE  OvenAccount'
  <2>1. pc[c] = "put_in_oven" /\ pc' = [pc EXCEPT ![c] = "find_oven_slot"]
    BY <1>2 DEF LockAndReserveOven
  <2>2. /\ sem'["AVAILABLE_PLACES_IN_OVEN"] = sem["AVAILABLE_PLACES_IN_OVEN"] - 1
    BY <1>0, <1>2 DEF LockAndReserveOven, SemOp, SemIds
  <2>3. /\ Cardinality(Reserved) \in Nat
        /\ Cardinality(Reserved') = Cardinality(Reserved) + Delta(c, Chefs, ReservedPc, "find_oven_slot")
        /\ Cardinality(Baking) \in Nat
        /\ Cardinality(Baking') = Cardinality(Baking) + Delta(c, Chefs, BakingPc, "find_oven_slot")
    BY <1>0, <2>1, CountsStep
  <2>4. /\ Delta(c, Chefs, ReservedPc, "find_oven_slot") = 1
        /\ Delta(c, Chefs, BakingPc, "find_oven_slot") = 0
    BY <2>1, WorkersAreDistinct DEF Delta, ReservedPc, BakingPc
  <2> QED
    BY <1>0, <1>2, <2>2, <2>3, <2>4 DEF LockAndReserveOven, OvenAccount, SemIds
<1>3. ASSUME NEW c \in Chefs, FindOvenSlot(c), UNCHANGED sem
     PROVE  OvenAccount'
  <2>1. pc[c] = "find_oven_slot" /\ pc' = [pc EXCEPT ![c] = "store_in_oven"]
    BY <1>3, NoExit DEF FindOvenSlot
  <2>2. /\ sem'["AVAILABLE_PLACES_IN_OVEN"] = sem["AVAILABLE_PLACES_IN_OVEN"]
    BY <1>0, <1>3 DEF FindOvenSlot, SemOp, SemIds
  <2>3. /\ Cardinality(Reserved) \in Nat
        /\ Cardinality(Reserved') = Cardinality(Reserved) + Delta(c, Chefs, ReservedPc, "store_in_oven")
        /\ Cardinality(Baking) \in Nat
        /\ Cardinality(Baking') = Cardinality(Baking) + Delta(c, Chefs, BakingPc, "store_in_oven")
    BY <1>0, <2>1, CountsStep
  <2>4. /\ Delta(c, Chefs, ReservedPc, "store_in_oven") = 0
        /\ Delta(c, Chefs, BakingPc, "store_in_oven") = 0
    BY <2>1, WorkersAreDistinct DEF Delta, ReservedPc, BakingPc
  <2> QED
    BY <1>0, <1>3, <2>2, <2>3, <2>4 DEF FindOvenSlot, OvenAccount, SemIds
<1>4. ASSUME NEW c \in Chefs, StoreInOven(c), UNCHANGED sem
     PROVE  OvenAccount'
  <2>1. pc[c] = "store_in_oven" /\ pc' = [pc EXCEPT ![c] = "put_unlock"]
    BY <1>4 DEF StoreInOven
  <2>2. /\ sem'["AVAILABLE_PLACES_IN_OVEN"] = sem["AVAILABLE_PLACES_IN_OVEN"]
    BY <1>0, <1>4 DEF StoreInOven, SemOp, SemIds
  <2>3. /\ Cardinality(Reserved) \in Nat
        /\ Cardinality(Reserved') = Cardinality(Reserved) + Delta(c, Chefs, ReservedPc, "put_unlock")
        /\ Cardinality(Baking) \in Nat
        /\ Cardinality(Baking') = Cardinality(Baking) + Delta(c, Chefs, BakingPc, "put_unlock")
    BY <1>0, <2>1, CountsStep
  <2>4. /\ Delta(c, Chefs, ReservedPc, "put_unlock") = 0
        /\ Delta(c, Chefs, BakingPc, "put_unlock") = 1
    BY <2>1, WorkersAreDistinct DEF Delta, ReservedPc, BakingPc
  <2> QED
    BY <1>0, <1>4, <2>2, <2>3, <2>4 DEF StoreInOven, OvenAccount, SemIds
<1>5. ASSUME NEW c \in Chefs, PutUnlock(c)
     PROVE  OvenAccount'
  <2>1. pc[c] = "put_unlock" /\ pc' = [pc EXCEPT ![c] = "bake"]
    BY <1>5 DEF PutUnlock
  <2>2. /\ sem'["AVAILABLE_PLACES_IN_OVEN"] = sem["AVAILABLE_PLACES_IN_OVEN"]
    BY <1>0, <1>5 DEF PutUnlock, SemOp, SemIds
  <2>3. /\ Cardinality(Reserved) \in Nat
        /\ Cardinality(Reserved') = Cardinality(Reserved) + Delta(c, Chefs, ReservedPc, "bake")
        /\ Cardinality(Baking) \in Nat
        /\ Cardinality(Baking') = Cardinality(Baking) + Delta(c, Chefs, BakingPc, "bake")
    BY <1>0, <2>1, CountsStep
  <2>4. /\ Delta(c, Chefs, ReservedPc, "bake") = 0
        /\ Delta(c, Chefs, BakingPc, "bake") = 0
    BY <2>1, WorkersAreDistinct DEF Delta, ReservedPc, BakingPc
  <2> QED
    BY <1>0, <1>5, <2>2, <2>3, <2>4 DEF PutUnlock, OvenAccount, SemIds
<1>6. ASSUME NEW c \in Chefs, LockAndMoveToTable(c)
     PROVE  OvenAccount'
  <2>1. pc[c] = "bake" /\ pc' = [pc EXCEPT ![c] = "take_out"]
    BY <1>6 DEF LockAndMoveToTable
  <2>2. /\ sem'["AVAILABLE_PLACES_IN_OVEN"] = sem["AVAILABLE_PLACES_IN_OVEN"] + 1
    BY <1>0, <1>6 DEF LockAndMoveToTable, SemOp, SemIds
  <2>3. /\ Cardinality(Reserved) \in Nat
        /\ Cardinality(Reserved') = Cardinality(Reserved) + Delta(c, Chefs, ReservedPc, "take_out")
        /\ Cardinality(Baking) \in Nat
        /\ Cardinality(Baking') = Cardinality(Baking) + Delta(c, Chefs, BakingPc, "take_out")
    BY <1>0, <2>1, CountsStep
  <2>4. /\ Delta(c, Chefs, ReservedPc, "take_out") = -1
        /\ Delta(c, Chefs, BakingPc, "take_out") = 0
    BY <2>1, WorkersAreDistinct DEF Delta, ReservedPc, BakingPc
  <2> QED
    BY <1>0, <1>6, <2>2, <2>3, <2>4 DEF LockAndMoveToTable, OvenAccount, SemIds
<1>7. ASSUME NEW c \in Chefs, TakeOutOfOven(c), UNCHANGED sem
     PROVE  OvenAccount'
  <2>1. pc[c] = "take_out" /\ pc' = [pc EXCEPT ![c] = "find_table_slot"]
    BY <1>7 DEF TakeOutOfOven
  <2>2. /\ sem'["AVAILABLE_PLACES_IN_OVEN"] = sem["AVAILABLE_PLACES_IN_OVEN"]
    BY <1>0, <1>7 DEF TakeOutOfOven, SemOp, SemIds
  <2>3. /\ Cardinality(Reserved) \in Nat
        /\ Cardinality(Reserved') = Cardinality(Reserved) + Delta(c, Chefs, ReservedPc, "find_table_slot")
        /\ Cardinality(Baking) \in Nat
        /\ Cardinality(Baking') = Cardinality(Baking) + Delta(c, Chefs, BakingPc, "find_table_slot")
    BY <1>0, <2>1, CountsStep
  <2>4. /\ Delta(c, Chefs, ReservedPc, "find_table_slot") = 0
        /\ Delta(c, Chefs, BakingPc, "find_table_slot") = -1
    BY <2>1, WorkersAreDistinct DEF Delta, ReservedPc, BakingPc
  <2> QED
    BY <1>0, <1>7, <2>2, <2>3, <2>4 DEF TakeOutOfOven, OvenAccount, SemIds
<1>8. ASSUME NEW c \in Chefs, FindTableSlot(c), UNCHANGED sem
     PROVE  OvenAccount'
  <2>1. pc[c] = "find_table_slot" /\ pc' = [pc EXCEPT ![c] = "store_on_table"]
    BY <1>8, NoExit DEF FindTableSlot
  <2>2. /\ sem'["AVAILABLE_PLACES_IN_OVEN"] = sem["AVAILABLE_PLACES_IN_OVEN"]
    BY <1>0, <1>8 DEF FindTableSlot, SemOp, SemIds
  <2>3. /\ Cardinality(Reserved) \in Nat
        /\ Cardinality(Reserved') = Cardinality(Reserved) + Delta(c, Chefs, ReservedPc, "store_on_table")
        /\ Cardinality(Baking) \in Nat
        /\ Cardinality(Baking') = Cardinality(Baking) + Delta(c, Chefs, BakingPc, "store_on_table")
    BY <1>0, <2>1, CountsStep
  <2>4. /\ Delta(c, Chefs, ReservedPc, "store_on_table") = 0
        /\ Delta(c, Chefs, BakingPc, "store_on_table") = 0
    BY <2>1, WorkersAreDistinct DEF Delta, ReservedPc, BakingPc
  <2> QED
    BY <1>0, <1>8, <2>2, <2>3, <2>4 DEF FindTableSlot, OvenAccount, SemIds
<1>9. ASSUME NEW c \in Chefs, StoreOnTable(c), UNCHANGED sem
     PROVE  OvenAccount'
  <2>1. pc[c] = "store_on_table" /\ pc' = [pc EXCEPT ![c] = "take_unlock"]
    BY <1>9 DEF StoreOnTable
  <2>2. /\ sem'["AVAILABLE_PLACES_IN_OVEN"] = sem["AVAILABLE_PLACES_IN_OVEN"]
    BY <1>0, <1>9 DEF StoreOnTable, SemOp, SemIds
  <2>3. /\ Cardinality(Reserved) \in Nat
        /\ Cardinality(Reserved') = Cardinality(Reserved) + Delta(c, Chefs, ReservedPc, "take_unlock")
        /\ Cardinality(Baking) \in Nat
        /\ Cardinality(Baking') = Cardinality(Baking) + Delta(c, Chefs, BakingPc, "take_unlock")
    BY <1>0, <2>1, CountsStep
  <2>4. /\ Delta(c, Chefs, ReservedPc, "take_unlock") = 0
        /\ Delta(c, Chefs, BakingPc, "take_unlock") = 0
    BY <2>1, WorkersAreDistinct DEF Delta, ReservedPc, BakingPc
  <2> QED
    BY <1>0, <1>9, <2>2, <2>3, <2>4 DEF StoreOnTable, OvenAccount, SemIds
<1>10. ASSUME NEW c \in Chefs, TakeUnlock(c)
     PROVE  OvenAccount'
  <2>1. pc[c] = "take_unlock" /\ pc' = [pc EXCEPT ![c] = "prepare"]
    BY <1>10 DEF TakeUnlock
  <2>2. /\ sem'["AVAILABLE_PLACES_IN_OVEN"] = sem["AVAILABLE_PLACES_IN_OVEN"]
    BY <1>0, <1>10 DEF TakeUnlock, SemOp, SemIds
  <2>3. /\ Cardinality(Reserved) \in Nat
        /\ Cardinality(Reserved') = Cardinality(Reserved) + Delta(c, Chefs, ReservedPc, "prepare")
        /\ Cardinality(Baking) \in Nat
        /\ Cardinality(Baking') = Cardinality(Baking) + Delta(c, Chefs, BakingPc, "prepare")
    BY <1>0, <2>1, CountsStep
  <2>4. /\ Delta(c, Chefs, ReservedPc, "prepare") = 0
        /\ Delta(c, Chefs, BakingPc, "prepare") = 0
    BY <2>1, WorkersAreDistinct DEF Delta, ReservedPc, BakingPc
  <2> QED
    BY <1>0, <1>10, <2>2, <2>3, <2>4 DEF TakeUnlock, OvenAccount, SemIds
<1>11. ASSUME NEW d \in Deliverers, LockAndStartDelivery(d)
     PROVE  OvenAccount'
  <2>1. pc[d] = "wait" /\ pc' = [pc EXCEPT ![d] = "look_on_table"]
    BY <1>11 DEF LockAndStartDelivery
  <2>2. /\ sem'["AVAILABLE_PLACES_IN_OVEN"] = sem["AVAILABLE_PLACES_IN_OVEN"]
    BY <1>0, <1>11 DEF LockAndStartDelivery, SemOp, SemIds
  <2>3. /\ Cardinality(Reserved) \in Nat
        /\ Cardinality(Reserved') = Cardinality(Reserved) + Delta(d, Chefs, ReservedPc, "look_on_table")
        /\ Cardinality(Baking) \in Nat
        /\ Cardinality(Baking') = Cardinality(Baking) + Delta(d, Chefs, BakingPc, "look_on_table")
    BY <1>0, <2>1, CountsStep
  <2>4. /\ Delta(d, Chefs, ReservedPc, "look_on_table") = 0
        /\ Delta(d, Chefs, BakingPc, "look_on_table") = 0
    BY <2>1, WorkersAreDistinct DEF Delta, ReservedPc, BakingPc
  <2> QED
    BY <1>0, <1>11, <2>2, <2>3, <2>4 DEF LockAndStartDelivery, OvenAccount, SemIds
<1>12. ASSUME NEW d \in Deliverers, LookOnTable(d), UNCHANGED sem
     PROVE  OvenAccount'
  <2>1. pc[d] = "look_on_table" /\ pc' = [pc EXCEPT ![d] = "take_from_table"]
    BY <1>12, LookFinds DEF LookOnTable
  <2>2. /\ sem'["AVAILABLE_PLACES_IN_OVEN"] = sem["AVAILABLE_PLACES_IN_OVEN"]
    BY <1>0, <1>12 DEF LookOnTable, SemOp, SemIds
  <2>3. /\ Cardinality(Reserved) \in Nat
        /\ Cardinality(Reserved') = Cardinality(Reserved) + Delta(d, Chefs, ReservedPc, "take_from_table")
        /\ Cardinality(Baking) \in Nat
        /\ Cardinality(Baking') = Cardinality(Baking) + Delta(d, Chefs, BakingPc, "take_from_table")
    BY <1>0, <2>1, CountsStep
  <2>4. /\ Delta(d, Chefs, ReservedPc, "take_from_table") = 0
        /\ Delta(d, Chefs, BakingPc, "take_from_table") = 0
    BY <2>1, WorkersAreDistinct DEF Delta, ReservedPc, BakingPc
  <2> QED
    BY <1>0, <1>12, <2>2, <2>3, <2>4 DEF LookOnTable, OvenAccount, SemIds
<1>13. ASSUME NEW d \in Deliverers, TakeFromTable(d), UNCHANGED sem
     PROVE  OvenAccount'
  <2>1. pc[d] = "take_from_table" /\ pc' = [pc EXCEPT ![d] = "get_unlock"]
    BY <1>13 DEF TakeFromTable
  <2>2. /\ sem'["AVAILABLE_PLACES_IN_OVEN"] = sem["AVAILABLE_PLACES_IN_OVEN"]
    BY <1>0, <1>13 DEF TakeFromTable, SemOp, SemIds
  <2>3. /\ Cardinality(Reserved) \in Nat
        /\ Cardinality(Reserved') = Cardinality(Reserved) + Delta(d, Chefs, ReservedPc, "get_unlock")
        /\ Cardinality(Baking) \in Nat
        /\ Cardinality(Baking') = Cardinality(Baking) + Delta(d, Chefs, BakingPc, "get_unlock")
    BY <1>0, <2>1, CountsStep
  <2>4. /\ Delta(d, Chefs, ReservedPc, "get_unlock") = 0
        /\ Delta(d, Chefs, BakingPc, "get_unlock") = 0
    BY <2>1, WorkersAreDistinct DEF Delta, ReservedPc, BakingPc
  <2> QED
    BY <1>0, <1>13, <2>2, <2>3, <2>4 DEF TakeFromTable, OvenAccount, SemIds
<1>14. ASSUME NEW d \in Deliverers, GetUnlock(d)
     PROVE  OvenAccount'
  <2>1. pc[d] = "get_unlock" /\ pc' = [pc EXCEPT ![d] = "travel"]
    BY <1>14 DEF GetUnlock
  <2>2. /\ sem'["AVAILABLE_PLACES_IN_OVEN"] = sem["AVAILABLE_PLACES_IN_OVEN"]
    BY <1>0, <1>14 DEF GetUnlock, SemOp, SemIds
  <2>3. /\ Cardinality(Reserved) \in Nat
        /\ Cardinality(Reserved') = Cardinality(Reserved) + Delta(d, Chefs, ReservedPc, "travel")
        /\ Cardinality(Baking) \in Nat
        /\ Cardinality(Baking') = Cardinality(Baking) + Delta(d, Chefs, BakingPc, "travel")
    BY <1>0, <2>1, CountsStep
  <2>4. /\ Delta(d, Chefs, ReservedPc, "travel") = 0
        /\ Delta(d, Chefs, BakingPc, "travel") = 0
    BY <2>1, WorkersAreDistinct DEF Delta, ReservedPc, BakingPc
  <2> QED
    BY <1>0, <1>14, <2>2, <2>3, <2>4 DEF GetUnlock, OvenAccount, SemIds
<1>15. ASSUME NEW d \in Deliverers, FinishDelivery(d)
     PROVE  OvenAccount'
  <2>1. pc[d] = "travel" /\ pc' = [pc EXCEPT ![d] = "wait"]
    BY <1>15 DEF FinishDelivery
  <2>2. /\ sem'["AVAILABLE_PLACES_IN_OVEN"] = sem["AVAILABLE_PLACES_IN_OVEN"]
    BY <1>0, <1>15 DEF FinishDelivery, SemOp, SemIds
  <2>3. /\ Cardinality(Reserved) \in Nat
        /\ Cardinality(Reserved') = Cardinality(Reserved) + Delta(d, Chefs, ReservedPc, "wait")
        /\ Cardinality(Baking) \in Nat
        /\ Cardinality(Baking') = Cardinality(Baking) + Delta(d, Chefs, BakingPc, "wait")
    BY <1>0, <2>1, CountsStep
  <2>4. /\ Delta(d, Chefs, ReservedPc, "wait") = 0
        /\ Delta(d, Chefs, BakingPc, "wait") = 0
    BY <2>1, WorkersAreDistinct DEF Delta, ReservedPc, BakingPc
  <2> QED
    BY <1>0, <1>15, <2>2, <2>3, <2>4 DEF FinishDelivery, OvenAccount, SemIds
<1>16. CASE UNCHANGED vars
  BY <1>0, <1>16 DEF vars, memoryVars, OvenAccount, Reserved, Baking, AtPc
<1> QED
  BY <1>1, <1>2, <1>3, <1>4, <1>5, <1>6, <1>7, <1>8, <1>9, <1>10, <1>11, <1>12, <1>13, <1>14, <1>15, <1>16
     DEF Next, Chef, Deliverer, ChefMemoryStep, DelivererMemoryStep


(* Every step keeps the deliveries and the deliverers that make them in step. *)
LEMMA DeliveryAccountStep == Accounts /\ [Next]_vars => DeliveryAccount'
<1> SUFFICES ASSUME Accounts, [Next]_vars
             PROVE  DeliveryAccount'
  OBVIOUS
<1> USE DEF Goto, ovenVars, tableVars, Workers
<1>0. TypeOK /\ sem \in [SemIds -> Nat] /\ DeliveryAccount
  BY DEF Accounts, TypeOK
<1>1. ASSUME NEW c \in Chefs, PreparePizza(c), UNCHANGED sem
     PROVE  DeliveryAccount'
  <2>1. pc[c] = "prepare" /\ pc' = [pc EXCEPT ![c] = "put_in_oven"]
    BY <1>1 DEF PreparePizza
  <2>2. /\ sem'["NO_PIZZAS_IN_DELIVERY"] = sem["NO_PIZZAS_IN_DELIVERY"]
    BY <1>0, <1>1 DEF PreparePizza, SemOp, SemIds
  <2>3. /\ Cardinality(Delivering) \in Nat
        /\ Cardinality(Delivering') = Cardinality(Delivering) + Delta(c, Deliverers, DeliveringPc, "put_in_oven")
    BY <1>0, <2>1, CountsStep
  <2>4. /\ Delta(c, Deliverers, DeliveringPc, "put_in_oven") = 0
    BY <2>1, WorkersAreDistinct DEF Delta, DeliveringPc
  <2> QED
    BY <1>0, <1>1, <2>2, <2>3, <2>4 DEF PreparePizza, DeliveryAccount, SemIds
<1>2. ASSUME NEW c \in Chefs, LockAndReserveOven(c)
     PROVE  DeliveryAccount'
  <2>1. pc[c] = "put_in_oven" /\ pc' = [pc EXCEPT ![c] = "find_oven_slot"]
    BY <1>2 DEF LockAndReserveOven
  <2>2. /\ sem'["NO_PIZZAS_IN_DELIVERY"] = sem["NO_PIZZAS_IN_DELIVERY"]
    BY <1>0, <1>2 DEF LockAndReserveOven, SemOp, SemIds
  <2>3. /\ Cardinality(Delivering) \in Nat
        /\ Cardinality(Delivering') = Cardinality(Delivering) + Delta(c, Deliverers, DeliveringPc, "find_oven_slot")
    BY <1>0, <2>1, CountsStep
  <2>4. /\ Delta(c, Deliverers, DeliveringPc, "find_oven_slot") = 0
    BY <2>1, WorkersAreDistinct DEF Delta, DeliveringPc
  <2> QED
    BY <1>0, <1>2, <2>2, <2>3, <2>4 DEF LockAndReserveOven, DeliveryAccount, SemIds
<1>3. ASSUME NEW c \in Chefs, FindOvenSlot(c), UNCHANGED sem
     PROVE  DeliveryAccount'
  <2>1. pc[c] = "find_oven_slot" /\ pc' = [pc EXCEPT ![c] = "store_in_oven"]
    BY <1>3, NoExit DEF FindOvenSlot
  <2>2. /\ sem'["NO_PIZZAS_IN_DELIVERY"] = sem["NO_PIZZAS_IN_DELIVERY"]
    BY <1>0, <1>3 DEF FindOvenSlot, SemOp, SemIds
  <2>3. /\ Cardinality(Delivering) \in Nat
        /\ Cardinality(Delivering') = Cardinality(Delivering) + Delta(c, Deliverers, DeliveringPc, "store_in_oven")
    BY <1>0, <2>1, CountsStep
  <2>4. /\ Delta(c, Deliverers, DeliveringPc, "store_in_oven") = 0
    BY <2>1, WorkersAreDistinct DEF Delta, DeliveringPc
  <2> QED
    BY <1>0, <1>3, <2>2, <2>3, <2>4 DEF FindOvenSlot, DeliveryAccount, SemIds
<1>4. ASSUME NEW c \in Chefs, StoreInOven(c), UNCHANGED sem
     PROVE  DeliveryAccount'
  <2>1. pc[c] = "store_in_oven" /\ pc' = [pc EXCEPT ![c] = "put_unlock"]
    BY <1>4 DEF StoreInOven
  <2>2. /\ sem'["NO_PIZZAS_IN_DELIVERY"] = sem["NO_PIZZAS_IN_DELIVERY"]
    BY <1>0, <1>4 DEF StoreInOven, SemOp, SemIds
  <2>3. /\ Cardinality(Delivering) \in Nat
        /\ Cardinality(Delivering') = Cardinality(Delivering) + Delta(c, Deliverers, DeliveringPc, "put_unlock")
    BY <1>0, <2>1, CountsStep
  <2>4. /\ Delta(c, Deliverers, DeliveringPc, "put_unlock") = 0
    BY <2>1, WorkersAreDistinct DEF Delta, DeliveringPc
  <2> QED
    BY <1>0, <1>4, <2>2, <2>3, <2>4 DEF StoreInOven, DeliveryAccount, SemIds
<1>5. ASSUME NEW c \in Chefs, PutUnlock(c)
     PROVE  DeliveryAccount'
  <2>1. pc[c] = "put_unlock" /\ pc' = [pc EXCEPT ![c] = "bake"]
    BY <1>5 DEF PutUnlock
  <2>2. /\ sem'["NO_PIZZAS_IN_DELIVERY"] = sem["NO_PIZZAS_IN_DELIVERY"]
    BY <1>0, <1>5 DEF PutUnlock, SemOp, SemIds
  <2>3. /\ Cardinality(Delivering) \in Nat
        /\ Cardinality(Delivering') = Cardinality(Delivering) + Delta(c, Deliverers, DeliveringPc, "bake")
    BY <1>0, <2>1, CountsStep
  <2>4. /\ Delta(c, Deliverers, DeliveringPc, "bake") = 0
    BY <2>1, WorkersAreDistinct DEF Delta, DeliveringPc
  <2> QED
    BY <1>0, <1>5, <2>2, <2>3, <2>4 DEF PutUnlock, DeliveryAccount, SemIds
<1>6. ASSUME NEW c \in Chefs, LockAndMoveToTable(c)
     PROVE  DeliveryAccount'
  <2>1. pc[c] = "bake" /\ pc' = [pc EXCEPT ![c] = "take_out"]
    BY <1>6 DEF LockAndMoveToTable
  <2>2. /\ sem'["NO_PIZZAS_IN_DELIVERY"] = sem["NO_PIZZAS_IN_DELIVERY"]
    BY <1>0, <1>6 DEF LockAndMoveToTable, SemOp, SemIds
  <2>3. /\ Cardinality(Delivering) \in Nat
        /\ Cardinality(Delivering') = Cardinality(Delivering) + Delta(c, Deliverers, DeliveringPc, "take_out")
    BY <1>0, <2>1, CountsStep
  <2>4. /\ Delta(c, Deliverers, DeliveringPc, "take_out") = 0
    BY <2>1, WorkersAreDistinct DEF Delta, DeliveringPc
  <2> QED
    BY <1>0, <1>6, <2>2, <2>3, <2>4 DEF LockAndMoveToTable, DeliveryAccount, SemIds
<1>7. ASSUME NEW c \in Chefs, TakeOutOfOven(c), UNCHANGED sem
     PROVE  DeliveryAccount'
  <2>1. pc[c] = "take_out" /\ pc' = [pc EXCEPT ![c] = "find_table_slot"]
    BY <1>7 DEF TakeOutOfOven
  <2>2. /\ sem'["NO_PIZZAS_IN_DELIVERY"] = sem["NO_PIZZAS_IN_DELIVERY"]
    BY <1>0, <1>7 DEF TakeOutOfOven, SemOp, SemIds
  <2>3. /\ Cardinality(Delivering) \in Nat
        /\ Cardinality(Delivering') = Cardinality(Delivering) + Delta(c, Deliverers, DeliveringPc, "find_table_slot")
    BY <1>0, <2>1, CountsStep
  <2>4. /\ Delta(c, Deliverers, DeliveringPc, "find_table_slot") = 0
    BY <2>1, WorkersAreDistinct DEF Delta, DeliveringPc
  <2> QED
    BY <1>0, <1>7, <2>2, <2>3, <2>4 DEF TakeOutOfOven, DeliveryAccount, SemIds
<1>8. ASSUME NEW c \in Chefs, FindTableSlot(c), UNCHANGED sem
     PROVE  DeliveryAccount'
  <2>1. pc[c] = "find_table_slot" /\ pc' = [pc EXCEPT ![c] = "store_on_table"]
    BY <1>8, NoExit DEF FindTableSlot
  <2>2. /\ sem'["NO_PIZZAS_IN_DELIVERY"] = sem["NO_PIZZAS_IN_DELIVERY"]
    BY <1>0, <1>8 DEF FindTableSlot, SemOp, SemIds
  <2>3. /\ Cardinality(Delivering) \in Nat
        /\ Cardinality(Delivering') = Cardinality(Delivering) + Delta(c, Deliverers, DeliveringPc, "store_on_table")
    BY <1>0, <2>1, CountsStep
  <2>4. /\ Delta(c, Deliverers, DeliveringPc, "store_on_table") = 0
    BY <2>1, WorkersAreDistinct DEF Delta, DeliveringPc
  <2> QED
    BY <1>0, <1>8, <2>2, <2>3, <2>4 DEF FindTableSlot, DeliveryAccount, SemIds
<1>9. ASSUME NEW c \in Chefs, StoreOnTable(c), UNCHANGED sem
     PROVE  DeliveryAccount'
  <2>1. pc[c] = "store_on_table" /\ pc' = [pc EXCEPT ![c] = "take_unlock"]
    BY <1>9 DEF StoreOnTable
  <2>2. /\ sem'["NO_PIZZAS_IN_DELIVERY"] = sem["NO_PIZZAS_IN_DELIVERY"]
    BY <1>0, <1>9 DEF StoreOnTable, SemOp, SemIds
  <2>3. /\ Cardinality(Delivering) \in Nat
        /\ Cardinality(Delivering') = Cardinality(Delivering) + Delta(c, Deliverers, DeliveringPc, "take_unlock")
    BY <1>0, <2>1, CountsStep
  <2>4. /\ Delta(c, Deliverers, DeliveringPc, "take_unlock") = 0
    BY <2>1, WorkersAreDistinct DEF Delta, DeliveringPc
  <2> QED
    BY <1>0, <1>9, <2>2, <2>3, <2>4 DEF StoreOnTable, DeliveryAccount, SemIds
<1>10. ASSUME NEW c \in Chefs, TakeUnlock(c)
     PROVE  DeliveryAccount'
  <2>1. pc[c] = "take_unlock" /\ pc' = [pc EXCEPT ![c] = "prepare"]
    BY <1>10 DEF TakeUnlock
  <2>2. /\ sem'["NO_PIZZAS_IN_DELIVERY"] = sem["NO_PIZZAS_IN_DELIVERY"]
    BY <1>0, <1>10 DEF TakeUnlock, SemOp, SemIds
  <2>3. /\ Cardinality(Delivering) \in Nat
        /\ Cardinality(Delivering') = Cardinality(Delivering) + Delta(c, Deliverers, DeliveringPc, "prepare")
    BY <1>0, <2>1, CountsStep
  <2>4. /\ Delta(c, Deliverers, DeliveringPc, "prepare") = 0
    BY <2>1, WorkersAreDistinct DEF Delta, DeliveringPc
  <2> QED
    BY <1>0, <1>10, <2>2, <2>3, <2>4 DEF TakeUnlock, DeliveryAccount, SemIds
<1>11. ASSUME NEW d \in Deliverers, LockAndStartDelivery(d)
     PROVE  DeliveryAccount'
  <2>1. pc[d] = "wait" /\ pc' = [pc EXCEPT ![d] = "look_on_table"]
    BY <1>11 DEF LockAndStartDelivery
  <2>2. /\ sem'["NO_PIZZAS_IN_DELIVERY"] = sem["NO_PIZZAS_IN_DELIVERY"] + 1
    BY <1>0, <1>11 DEF LockAndStartDelivery, SemOp, SemIds
  <2>3. /\ Cardinality(Delivering) \in Nat
        /\ Cardinality(Delivering') = Cardinality(Delivering) + Delta(d, Deliverers, DeliveringPc, "look_on_table")
    BY <1>0, <2>1, CountsStep
  <2>4. /\ Delta(d, Deliverers, DeliveringPc, "look_on_table") = 1
    BY <2>1, WorkersAreDistinct DEF Delta, DeliveringPc
  <2> QED
    BY <1>0, <1>11, <2>2, <2>3, <2>4 DEF LockAndStartDelivery, DeliveryAccount, SemIds
<1>12. ASSUME NEW d \in Deliverers, LookOnTable(d), UNCHANGED sem
     PROVE  DeliveryAccount'
  <2>1. pc[d] = "look_on_table" /\ pc' = [pc EXCEPT ![d] = "take_from_table"]
    BY <1>12, LookFinds DEF LookOnTable
  <2>2. /\ sem'["NO_PIZZAS_IN_DELIVERY"] = sem["NO_PIZZAS_IN_DELIVERY"]
    BY <1>0, <1>12 DEF LookOnTable, SemOp, SemIds
  <2>3. /\ Cardinality(Delivering) \in Nat
        /\ Cardinality(Delivering') = Cardinality(Delivering) + Delta(d, Deliverers, DeliveringPc, "take_from_table")
    BY <1>0, <2>1, CountsStep
  <2>4. /\ Delta(d, Deliverers, DeliveringPc, "take_from_table") = 0
    BY <2>1, WorkersAreDistinct DEF Delta, DeliveringPc
  <2> QED
    BY <1>0, <1>12, <2>2, <2>3, <2>4 DEF LookOnTable, DeliveryAccount, SemIds
<1>13. ASSUME NEW d \in Deliverers, TakeFromTable(d), UNCHANGED sem
     PROVE  DeliveryAccount'
  <2>1. pc[d] = "take_from_table" /\ pc' = [pc EXCEPT ![d] = "get_unlock"]
    BY <1>13 DEF TakeFromTable
  <2>2. /\ sem'["NO_PIZZAS_IN_DELIVERY"] = sem["NO_PIZZAS_IN_DELIVERY"]
    BY <1>0, <1>13 DEF TakeFromTable, SemOp, SemIds
  <2>3. /\ Cardinality(Delivering) \in Nat
        /\ Cardinality(Delivering') = Cardinality(Delivering) + Delta(d, Deliverers, DeliveringPc, "get_unlock")
    BY <1>0, <2>1, CountsStep
  <2>4. /\ Delta(d, Deliverers, DeliveringPc, "get_unlock") = 0
    BY <2>1, WorkersAreDistinct DEF Delta, DeliveringPc
  <2> QED
    BY <1>0, <1>13, <2>2, <2>3, <2>4 DEF TakeFromTable, DeliveryAccount, SemIds
<1>14. ASSUME NEW d \in Deliverers, GetUnlock(d)
     PROVE  DeliveryAccount'
  <2>1. pc[d] = "get_unlock" /\ pc' = [pc EXCEPT ![d] = "travel"]
    BY <1>14 DEF GetUnlock
  <2>2. /\ sem'["NO_PIZZAS_IN_DELIVERY"] = sem["NO_PIZZAS_IN_DELIVERY"]
    BY <1>0, <1>14 DEF GetUnlock, SemOp, SemIds
  <2>3. /\ Cardinality(Delivering) \in Nat
        /\ Cardinality(Delivering') = Cardinality(Delivering) + Delta(d, Deliverers, DeliveringPc, "travel")
    BY <1>0, <2>1, CountsStep
  <2>4. /\ Delta(d, Deliverers, DeliveringPc, "travel") = 0
    BY <2>1, WorkersAreDistinct DEF Delta, DeliveringPc
  <2> QED
    BY <1>0, <1>14, <2>2, <2>3, <2>4 DEF GetUnlock, DeliveryAccount, SemIds
<1>15. ASSUME NEW d \in Deliverers, FinishDelivery(d)
     PROVE  DeliveryAccount'
  <2>1. pc[d] = "travel" /\ pc' = [pc EXCEPT ![d] = "wait"]
    BY <1>15 DEF FinishDelivery
  <2>2. /\ sem'["NO_PIZZAS_IN_DELIVERY"] = sem["NO_PIZZAS_IN_DELIVERY"] - 1
    BY <1>0, <1>15 DEF FinishDelivery, SemOp, SemIds
  <2>3. /\ Cardinality(Delivering) \in Nat
        /\ Cardinality(Delivering') = Cardinality(Delivering) + Delta(d, Deliverers, DeliveringPc, "wait")
    BY <1>0, <2>1, CountsStep
  <2>4. /\ Delta(d, Deliverers, DeliveringPc, "wait") = -1
    BY <2>1, WorkersAreDistinct DEF Delta, DeliveringPc
  <2> QED
    BY <1>0, <1>15, <2>2, <2>3, <2>4 DEF FinishDelivery, DeliveryAccount, SemIds
<1>16. CASE UNCHANGED vars
  BY <1>0, <1>16 DEF vars, memoryVars, DeliveryAccount, Delivering, AtPc
<1> QED
  BY <1>1, <1>2, <1>3, <1>4, <1>5, <1>6, <1>7, <1>8, <1>9, <1>10, <1>11, <1>12, <1>13, <1>14, <1>15, <1>16
     DEF Next, Chef, Deliverer, ChefMemoryStep, DelivererMemoryStep


(* Every step leaves each worker with the pizza it should have.             *)
LEMMA HandsStep == Accounts /\ [Next]_vars => Hands'
<1> SUFFICES ASSUME Accounts, [Next]_vars
             PROVE  Hands'
  OBVIOUS
<1> USE WorkersAreDistinct, EmptyIsNoPizza
        DEF Accounts, TypeOK, Goto, ovenVars, tableVars, Workers, ChefPc, DelivererPc,
            ChefInMemory, DelivererInMemory, Hands
<1>1. ASSUME NEW c \in Chefs, PreparePizza(c), UNCHANGED sem
     PROVE  Hands'
  BY <1>1 DEF PreparePizza
<1>2. ASSUME NEW c \in Chefs, LockAndReserveOven(c)
     PROVE  Hands'
  BY <1>2 DEF LockAndReserveOven
<1>3. ASSUME NEW c \in Chefs, FindOvenSlot(c), UNCHANGED sem
     PROVE  Hands'
  BY <1>3, NoExit DEF FindOvenSlot
<1>4. ASSUME NEW c \in Chefs, StoreInOven(c), UNCHANGED sem
     PROVE  Hands'
  BY <1>4 DEF StoreInOven
<1>5. ASSUME NEW c \in Chefs, PutUnlock(c)
     PROVE  Hands'
  BY <1>5 DEF PutUnlock
<1>6. ASSUME NEW c \in Chefs, LockAndMoveToTable(c)
     PROVE  Hands'
  BY <1>6 DEF LockAndMoveToTable
<1>7. ASSUME NEW c \in Chefs, TakeOutOfOven(c), UNCHANGED sem
     PROVE  Hands'
  <2>1. oven_slots[oven_idx[c]] = pizza_type[c] /\ pizza_type[c] \in PizzaTypes
    BY <1>7 DEF TakeOutOfOven, OvenOwners, Baking, AtPc, BakingPc
  <2> QED
    BY <1>7, <2>1 DEF TakeOutOfOven
<1>8. ASSUME NEW c \in Chefs, FindTableSlot(c), UNCHANGED sem
     PROVE  Hands'
  BY <1>8, NoExit DEF FindTableSlot
<1>9. ASSUME NEW c \in Chefs, StoreOnTable(c), UNCHANGED sem
     PROVE  Hands'
  BY <1>9 DEF StoreOnTable
<1>10. ASSUME NEW c \in Chefs, TakeUnlock(c)
     PROVE  Hands'
  BY <1>10 DEF TakeUnlock
<1>11. ASSUME NEW d \in Deliverers, LockAndStartDelivery(d)
     PROVE  Hands'
  BY <1>11 DEF LockAndStartDelivery
<1>12. ASSUME NEW d \in Deliverers, LookOnTable(d), UNCHANGED sem
     PROVE  Hands'
  BY <1>12, LookFinds, ZenonT(60) DEF LookOnTable
<1>13. ASSUME NEW d \in Deliverers, TakeFromTable(d), UNCHANGED sem
     PROVE  Hands'
  <2>1. table_slots[table_idx[d]] \in PizzaTypes
    BY <1>13 DEF TakeFromTable, TableOwners, AtPc, PizzaOrEmpty
  <2> QED
    BY <1>13, <2>1 DEF TakeFromTable
<1>14. ASSUME NEW d \in Deliverers, GetUnlock(d)
     PROVE  Hands'
  BY <1>14 DEF GetUnlock
<1>15. ASSUME NEW d \in Deliverers, FinishDelivery(d)
     PROVE  Hands'
  BY <1>15 DEF FinishDelivery
<1>16. CASE UNCHANGED vars
  BY <1>16 DEF vars, memoryVars
<1> QED
  BY <1>1, <1>2, <1>3, <1>4, <1>5, <1>6, <1>7, <1>8, <1>9, <1>10, <1>11, <1>12, <1>13, <1>14, <1>15, <1>16
     DEF Next, Chef, Deliverer, ChefMemoryStep, DelivererMemoryStep


(* Every step keeps each pizza in the oven with the chef that put it there.   *)
LEMMA OvenOwnersStep == Accounts /\ [Next]_vars => OvenOwners'
<1> SUFFICES ASSUME Accounts, [Next]_vars
             PROVE  OvenOwners'
  OBVIOUS
<1> USE DEF Goto, ovenVars, tableVars, Workers, OvenOwners, Baking, BakingPc, AtPc
<1>0. /\ OvenOwners /\ Hands /\ MutualExclusion
      /\ oven_slots \in [OvenSlots -> PizzaOrEmpty] /\ oven_idx \in [Chefs -> OvenSlots \cup {-1}]
      /\ pizza_type \in [Workers -> PizzaOrEmpty] /\ DOMAIN pc = Workers
  BY DEF Accounts, TypeOK
<1>1. ASSUME NEW c \in Chefs, PreparePizza(c), UNCHANGED sem
     PROVE  OvenOwners'
  BY <1>0, <1>1 DEF PreparePizza
<1>2. ASSUME NEW c \in Chefs, LockAndReserveOven(c)
     PROVE  OvenOwners'
  BY <1>0, <1>2 DEF LockAndReserveOven
<1>3. ASSUME NEW c \in Chefs, FindOvenSlot(c), UNCHANGED sem
     PROVE  OvenOwners'
  <2>1. Goto(c, "find_oven_slot", "store_in_oven")
    BY <1>3, NoExit
  <2>2. FindEmptySlot(oven_slots) \in OvenSlots /\ oven_slots[FindEmptySlot(oven_slots)] = Empty
    <3>1. DOMAIN oven_slots = OvenSlots /\ OvenSlots \subseteq Nat
      BY <1>0, Capacities DEF OvenSlots
    <3>2. \E i \in DOMAIN oven_slots : oven_slots[i] = Empty
      BY <1>3, <3>1, OvenHasRoom DEF FindOvenSlot
    <3> QED
      BY <3>1, <3>2, FindEmptySlotFinds
  <2>3. no_oven_pizzas # OvenCapacity
    BY <1>3, OvenHasRoom DEF FindOvenSlot
  <2> QED
    BY <1>0, <1>3, <2>1, <2>2, <2>3 DEF FindOvenSlot
<1>4. ASSUME NEW c \in Chefs, StoreInOven(c), UNCHANGED sem
     PROVE  OvenOwners'
  <2>1. /\ oven_idx[c] \in OvenSlots /\ oven_slots[oven_idx[c]] = Empty
        /\ pizza_type[c] \in PizzaTypes
    BY <1>0, <1>4 DEF StoreInOven, Hands
  <2>2. \A b \in Chefs : pc[b] \in BakingPc => oven_idx[b] # oven_idx[c]
    BY <1>0, <2>1, EmptyIsNoPizza DEF Hands
  <2>3. \A b \in Chefs \ {c} : pc[b] \notin {"store_in_oven", "find_table_slot", "store_on_table"}
    BY <1>0, <1>4 DEF StoreInOven, MutualExclusion, InMemory, ChefInMemory
  <2> QED
    BY <1>0, <1>4, <2>1, <2>2, <2>3 DEF StoreInOven
<1>5. ASSUME NEW c \in Chefs, PutUnlock(c)
     PROVE  OvenOwners'
  BY <1>0, <1>5 DEF PutUnlock
<1>6. ASSUME NEW c \in Chefs, LockAndMoveToTable(c)
     PROVE  OvenOwners'
  BY <1>0, <1>6 DEF LockAndMoveToTable
<1>7. ASSUME NEW c \in Chefs, TakeOutOfOven(c), UNCHANGED sem
     PROVE  OvenOwners'
  <2>1. oven_idx[c] \in OvenSlots /\ c \in Baking
    BY <1>0, <1>7 DEF TakeOutOfOven
  <2>2. \A b \in Chefs \ {c} : pc[b] \in BakingPc => oven_idx[b] # oven_idx[c]
    BY <1>0, <2>1
  <2>3. \A b \in Chefs \ {c} : pc[b] \notin {"store_in_oven", "find_table_slot", "store_on_table"}
    BY <1>0, <1>7 DEF TakeOutOfOven, MutualExclusion, InMemory, ChefInMemory
  <2> QED
    BY <1>0, <1>7, <2>1, <2>2, <2>3 DEF TakeOutOfOven
<1>8. ASSUME NEW c \in Chefs, FindTableSlot(c), UNCHANGED sem
     PROVE  OvenOwners'
  BY <1>0, <1>8, NoExit DEF FindTableSlot
<1>9. ASSUME NEW c \in Chefs, StoreOnTable(c), UNCHANGED sem
     PROVE  OvenOwners'
  BY <1>0, <1>9 DEF StoreOnTable
<1>10. ASSUME NEW c \in Chefs, TakeUnlock(c)
     PROVE  OvenOwners'
  BY <1>0, <1>10 DEF TakeUnlock
<1>11. ASSUME NEW d \in Deliverers, LockAndStartDelivery(d)
     PROVE  OvenOwners'
  <2>1. /\ \A c \in Chefs : pc'[c] = pc[c] /\ pizza_type'[c] = pizza_type[c]
        /\ UNCHANGED <<oven_slots, oven_idx>>
    BY <1>0, <1>11, WorkersAreDistinct DEF LockAndStartDelivery
  <2> QED
    BY <1>0, <2>1
<1>12. ASSUME NEW d \in Deliverers, LookOnTable(d), UNCHANGED sem
     PROVE  OvenOwners'
  <2>1. /\ \A c \in Chefs : pc'[c] = pc[c] /\ pizza_type'[c] = pizza_type[c]
        /\ UNCHANGED <<oven_slots, oven_idx>>
    BY <1>0, <1>12, WorkersAreDistinct DEF LookOnTable
  <2> QED
    BY <1>0, <2>1
<1>13. ASSUME NEW d \in Deliverers, TakeFromTable(d), UNCHANGED sem
     PROVE  OvenOwners'
  <2>1. /\ \A c \in Chefs : pc'[c] = pc[c] /\ pizza_type'[c] = pizza_type[c]
        /\ UNCHANGED <<oven_slots, oven_idx>>
    BY <1>0, <1>13, WorkersAreDistinct DEF TakeFromTable
  <2> QED
    BY <1>0, <2>1
<1>14. ASSUME NEW d \in Deliverers, GetUnlock(d)
     PROVE  OvenOwners'
  <2>1. /\ \A c \in Chefs : pc'[c] = pc[c] /\ pizza_type'[c] = pizza_type[c]
        /\ UNCHANGED <<oven_slots, oven_idx>>
    BY <1>0, <1>14, WorkersAreDistinct DEF GetUnlock
  <2> QED
    BY <1>0, <2>1
<1>15. ASSUME NEW d \in Deliverers, FinishDelivery(d)
     PROVE  OvenOwners'
  <2>1. /\ \A c \in Chefs : pc'[c] = pc[c] /\ pizza_type'[c] = pizza_type[c]
        /\ UNCHANGED <<oven_slots, oven_idx>>
    BY <1>0, <1>15, WorkersAreDistinct DEF FinishDelivery
  <2> QED
    BY <1>0, <2>1
<1>16. CASE UNCHANGED vars
  BY <1>0, <1>16 DEF vars, memoryVars
<1> QED
  BY <1>1, <1>2, <1>3, <1>4, <1>5, <1>6, <1>7, <1>8, <1>9, <1>10, <1>11, <1>12, <1>13, <1>14, <1>15, <1>16
     DEF Next, Chef, Deliverer, ChefMemoryStep, DelivererMemoryStep


(* Every step keeps the table's places, its pizzas and its counter in step.    *)
LEMMA TableAccountStep == Accounts /\ [Next]_vars => TableAccount'
<1> SUFFICES ASSUME Accounts, [Next]_vars
             PROVE  TableAccount'
  OBVIOUS
<1> USE DEF Goto, ovenVars, tableVars, Workers
<1>0. /\ TypeOK /\ sem \in [SemIds -> Nat] /\ TableAccount /\ TableOwners /\ Hands
      /\ table_slots \in [TableSlots -> PizzaOrEmpty] /\ no_table_pizzas \in Int
      /\ IsFiniteSet(Occupied(table_slots)) /\ Cardinality(Occupied(table_slots)) \in Nat
  BY TableOccupied DEF Accounts, TypeOK
<1>1. ASSUME NEW c \in Chefs, PreparePizza(c), UNCHANGED sem
     PROVE  TableAccount'
  <2>1. pc[c] = "prepare" /\ pc' = [pc EXCEPT ![c] = "put_in_oven"]
    BY <1>1 DEF PreparePizza
  <2>2. /\ sem'["AVAILABLE_PLACES_ON_THE_TABLE"] = sem["AVAILABLE_PLACES_ON_THE_TABLE"]
        /\ sem'["NO_WAITING_PIZZAS"] = sem["NO_WAITING_PIZZAS"]
    BY <1>0, <1>1 DEF PreparePizza, SemOp, SemIds
  <2>3. /\ Cardinality(Moving) \in Nat
        /\ Cardinality(Moving') = Cardinality(Moving) + Delta(c, Chefs, MovingPc, "put_in_oven")
        /\ Cardinality(Getting) \in Nat
        /\ Cardinality(Getting') = Cardinality(Getting) + Delta(c, Deliverers, GettingPc, "put_in_oven")
    BY <1>0, <2>1, CountsStep
  <2>4. /\ Delta(c, Chefs, MovingPc, "put_in_oven") = 0
        /\ Delta(c, Deliverers, GettingPc, "put_in_oven") = 0
    BY <2>1, WorkersAreDistinct DEF Delta, MovingPc, GettingPc
  <2>5. UNCHANGED <<no_table_pizzas, table_slots>>
    BY <1>1 DEF PreparePizza
  <2> QED
    BY <1>0, <2>2, <2>3, <2>4, <2>5, Capacities DEF TableAccount, SemIds
<1>2. ASSUME NEW c \in Chefs, LockAndReserveOven(c)
     PROVE  TableAccount'
  <2>1. pc[c] = "put_in_oven" /\ pc' = [pc EXCEPT ![c] = "find_oven_slot"]
    BY <1>2 DEF LockAndReserveOven
  <2>2. /\ sem'["AVAILABLE_PLACES_ON_THE_TABLE"] = sem["AVAILABLE_PLACES_ON_THE_TABLE"]
        /\ sem'["NO_WAITING_PIZZAS"] = sem["NO_WAITING_PIZZAS"]
    BY <1>0, <1>2 DEF LockAndReserveOven, SemOp, SemIds
  <2>3. /\ Cardinality(Moving) \in Nat
        /\ Cardinality(Moving') = Cardinality(Moving) + Delta(c, Chefs, MovingPc, "find_oven_slot")
        /\ Cardinality(Getting) \in Nat
        /\ Cardinality(Getting') = Cardinality(Getting) + Delta(c, Deliverers, GettingPc, "find_oven_slot")
    BY <1>0, <2>1, CountsStep
  <2>4. /\ Delta(c, Chefs, MovingPc, "find_oven_slot") = 0
        /\ Delta(c, Deliverers, GettingPc, "find_oven_slot") = 0
    BY <2>1, WorkersAreDistinct DEF Delta, MovingPc, GettingPc
  <2>5. UNCHANGED <<no_table_pizzas, table_slots>>
    BY <1>2 DEF LockAndReserveOven
  <2> QED
    BY <1>0, <2>2, <2>3, <2>4, <2>5, Capacities DEF TableAccount, SemIds
<1>3. ASSUME NEW c \in Chefs, FindOvenSlot(c), UNCHANGED sem
     PROVE  TableAccount'
  <2>1. pc[c] = "find_oven_slot" /\ pc' = [pc EXCEPT ![c] = "store_in_oven"]
    BY <1>3, NoExit DEF FindOvenSlot
  <2>2. /\ sem'["AVAILABLE_PLACES_ON_THE_TABLE"] = sem["AVAILABLE_PLACES_ON_THE_TABLE"]
        /\ sem'["NO_WAITING_PIZZAS"] = sem["NO_WAITING_PIZZAS"]
    BY <1>0, <1>3 DEF FindOvenSlot, SemOp, SemIds
  <2>3. /\ Cardinality(Moving) \in Nat
        /\ Cardinality(Moving') = Cardinality(Moving) + Delta(c, Chefs, MovingPc, "store_in_oven")
        /\ Cardinality(Getting) \in Nat
        /\ Cardinality(Getting') = Cardinality(Getting) + Delta(c, Deliverers, GettingPc, "store_in_oven")
    BY <1>0, <2>1, CountsStep
  <2>4. /\ Delta(c, Chefs, MovingPc, "store_in_oven") = 0
        /\ Delta(c, Deliverers, GettingPc, "store_in_oven") = 0
    BY <2>1, WorkersAreDistinct DEF Delta, MovingPc, GettingPc
  <2>5. UNCHANGED <<no_table_pizzas, table_slots>>
    BY <1>3 DEF FindOvenSlot
  <2> QED
    BY <1>0, <2>2, <2>3, <2>4, <2>5, Capacities DEF TableAccount, SemIds
<1>4. ASSUME NEW c \in Chefs, StoreInOven(c), UNCHANGED sem
     PROVE  TableAccount'
  <2>1. pc[c] = "store_in_oven" /\ pc' = [pc EXCEPT ![c] = "put_unlock"]
    BY <1>4 DEF StoreInOven
  <2>2. /\ sem'["AVAILABLE_PLACES_ON_THE_TABLE"] = sem["AVAILABLE_PLACES_ON_THE_TABLE"]
        /\ sem'["NO_WAITING_PIZZAS"] = sem["NO_WAITING_PIZZAS"]
    BY <1>0, <1>4 DEF StoreInOven, SemOp, SemIds
  <2>3. /\ Cardinality(Moving) \in Nat
        /\ Cardinality(Moving') = Cardinality(Moving) + Delta(c, Chefs, MovingPc, "put_unlock")
        /\ Cardinality(Getting) \in Nat
        /\ Cardinality(Getting') = Cardinality(Getting) + Delta(c, Deliverers, GettingPc, "put_unlock")
    BY <1>0, <2>1, CountsStep
  <2>4. /\ Delta(c, Chefs, MovingPc, "put_unlock") = 0
        /\ Delta(c, Deliverers, GettingPc, "put_unlock") = 0
    BY <2>1, WorkersAreDistinct DEF Delta, MovingPc, GettingPc
  <2>5. UNCHANGED <<no_table_pizzas, table_slots>>
    BY <1>4 DEF StoreInOven
  <2> QED
    BY <1>0, <2>2, <2>3, <2>4, <2>5, Capacities DEF TableAccount, SemIds
<1>5. ASSUME NEW c \in Chefs, PutUnlock(c)
     PROVE  TableAccount'
  <2>1. pc[c] = "put_unlock" /\ pc' = [pc EXCEPT ![c] = "bake"]
    BY <1>5 DEF PutUnlock
  <2>2. /\ sem'["AVAILABLE_PLACES_ON_THE_TABLE"] = sem["AVAILABLE_PLACES_ON_THE_TABLE"]
        /\ sem'["NO_WAITING_PIZZAS"] = sem["NO_WAITING_PIZZAS"]
    BY <1>0, <1>5 DEF PutUnlock, SemOp, SemIds
  <2>3. /\ Cardinality(Moving) \in Nat
        /\ Cardinality(Moving') = Cardinality(Moving) + Delta(c, Chefs, MovingPc, "bake")
        /\ Cardinality(Getting) \in Nat
        /\ Cardinality(Getting') = Cardinality(Getting) + Delta(c, Deliverers, GettingPc, "bake")
    BY <1>0, <2>1, CountsStep
  <2>4. /\ Delta(c, Chefs, MovingPc, "bake") = 0
        /\ Delta(c, Deliverers, GettingPc, "bake") = 0
    BY <2>1, WorkersAreDistinct DEF Delta, MovingPc, GettingPc
  <2>5. UNCHANGED <<no_table_pizzas, table_slots>>
    BY <1>5 DEF PutUnlock
  <2> QED
    BY <1>0, <2>2, <2>3, <2>4, <2>5, Capacities DEF TableAccount, SemIds
<1>6. ASSUME NEW c \in Chefs, LockAndMoveToTable(c)
     PROVE  TableAccount'
  <2>1. pc[c] = "bake" /\ pc' = [pc EXCEPT ![c] = "take_out"]
    BY <1>6 DEF LockAndMoveToTable
  <2>2. /\ sem'["AVAILABLE_PLACES_ON_THE_TABLE"] = sem["AVAILABLE_PLACES_ON_THE_TABLE"] - 1
        /\ sem'["NO_WAITING_PIZZAS"] = sem["NO_WAITING_PIZZAS"] + 1
    BY <1>0, <1>6 DEF LockAndMoveToTable, SemOp, SemIds
  <2>3. /\ Cardinality(Moving) \in Nat
        /\ Cardinality(Moving') = Cardinality(Moving) + Delta(c, Chefs, MovingPc, "take_out")
        /\ Cardinality(Getting) \in Nat
        /\ Cardinality(Getting') = Cardinality(Getting) + Delta(c, Deliverers, GettingPc, "take_out")
    BY <1>0, <2>1, CountsStep
  <2>4. /\ Delta(c, Chefs, MovingPc, "take_out") = 1
        /\ Delta(c, Deliverers, GettingPc, "take_out") = 0
    BY <2>1, WorkersAreDistinct DEF Delta, MovingPc, GettingPc
  <2>5. UNCHANGED <<no_table_pizzas, table_slots>>
    BY <1>6 DEF LockAndMoveToTable
  <2> QED
    BY <1>0, <2>2, <2>3, <2>4, <2>5, Capacities DEF TableAccount, SemIds
<1>7. ASSUME NEW c \in Chefs, TakeOutOfOven(c), UNCHANGED sem
     PROVE  TableAccount'
  <2>1. pc[c] = "take_out" /\ pc' = [pc EXCEPT ![c] = "find_table_slot"]
    BY <1>7 DEF TakeOutOfOven
  <2>2. /\ sem'["AVAILABLE_PLACES_ON_THE_TABLE"] = sem["AVAILABLE_PLACES_ON_THE_TABLE"]
        /\ sem'["NO_WAITING_PIZZAS"] = sem["NO_WAITING_PIZZAS"]
    BY <1>0, <1>7 DEF TakeOutOfOven, SemOp, SemIds
  <2>3. /\ Cardinality(Moving) \in Nat
        /\ Cardinality(Moving') = Cardinality(Moving) + Delta(c, Chefs, MovingPc, "find_table_slot")
        /\ Cardinality(Getting) \in Nat
        /\ Cardinality(Getting') = Cardinality(Getting) + Delta(c, Deliverers, GettingPc, "find_table_slot")
    BY <1>0, <2>1, CountsStep
  <2>4. /\ Delta(c, Chefs, MovingPc, "find_table_slot") = 0
        /\ Delta(c, Deliverers, GettingPc, "find_table_slot") = 0
    BY <2>1, WorkersAreDistinct DEF Delta, MovingPc, GettingPc
  <2>5. UNCHANGED <<no_table_pizzas, table_slots>>
    BY <1>7 DEF TakeOutOfOven
  <2> QED
    BY <1>0, <2>2, <2>3, <2>4, <2>5, Capacities DEF TableAccount, SemIds
<1>8. ASSUME NEW c \in Chefs, FindTableSlot(c), UNCHANGED sem
     PROVE  TableAccount'
  <2>1. pc[c] = "find_table_slot" /\ pc' = [pc EXCEPT ![c] = "store_on_table"]
    BY <1>8, NoExit DEF FindTableSlot
  <2>2. /\ sem'["AVAILABLE_PLACES_ON_THE_TABLE"] = sem["AVAILABLE_PLACES_ON_THE_TABLE"]
        /\ sem'["NO_WAITING_PIZZAS"] = sem["NO_WAITING_PIZZAS"]
    BY <1>0, <1>8 DEF FindTableSlot, SemOp, SemIds
  <2>3. /\ Cardinality(Moving) \in Nat
        /\ Cardinality(Moving') = Cardinality(Moving) + Delta(c, Chefs, MovingPc, "store_on_table")
        /\ Cardinality(Getting) \in Nat
        /\ Cardinality(Getting') = Cardinality(Getting) + Delta(c, Deliverers, GettingPc, "store_on_table")
    BY <1>0, <2>1, CountsStep
  <2>4. /\ Delta(c, Chefs, MovingPc, "store_on_table") = 0
        /\ Delta(c, Deliverers, GettingPc, "store_on_table") = 0
    BY <2>1, WorkersAreDistinct DEF Delta, MovingPc, GettingPc
  <2>5. UNCHANGED <<no_table_pizzas, table_slots>>
    BY <1>8 DEF FindTableSlot
  <2> QED
    BY <1>0, <2>2, <2>3, <2>4, <2>5, Capacities DEF TableAccount, SemIds
<1>9. ASSUME NEW c \in Chefs, StoreOnTable(c), UNCHANGED sem
     PROVE  TableAccount'
  <2>1. pc[c] = "store_on_table" /\ pc' = [pc EXCEPT ![c] = "take_unlock"]
    BY <1>9 DEF StoreOnTable
  <2>2. /\ sem'["AVAILABLE_PLACES_ON_THE_TABLE"] = sem["AVAILABLE_PLACES_ON_THE_TABLE"]
        /\ sem'["NO_WAITING_PIZZAS"] = sem["NO_WAITING_PIZZAS"]
    BY <1>0, <1>9 DEF StoreOnTable, SemOp, SemIds
  <2>3. /\ Cardinality(Moving) \in Nat
        /\ Cardinality(Moving') = Cardinality(Moving) + Delta(c, Chefs, MovingPc, "take_unlock")
        /\ Cardinality(Getting) \in Nat
        /\ Cardinality(Getting') = Cardinality(Getting) + Delta(c, Deliverers, GettingPc, "take_unlock")
    BY <1>0, <2>1, CountsStep
  <2>4. /\ Delta(c, Chefs, MovingPc, "take_unlock") = -1
        /\ Delta(c, Deliverers, GettingPc, "take_unlock") = 0
    BY <2>1, WorkersAreDistinct DEF Delta, MovingPc, GettingPc
  <2>5. /\ no_table_pizzas' = no_table_pizzas + 1
        /\ Cardinality(Occupied(table_slots')) = Cardinality(Occupied(table_slots)) + 1
    <3>1. /\ table_idx[c] \in TableSlots /\ table_slots[table_idx[c]] = Empty
          /\ pizza_type[c] \in PizzaTypes
      BY <1>0, <1>9 DEF StoreOnTable, TableOwners, AtPc, Hands
    <3>2. /\ Occupied(table_slots') \ {table_idx[c]} = Occupied(table_slots) \ {table_idx[c]}
          /\ table_idx[c] \in Occupied(table_slots') /\ table_idx[c] \notin Occupied(table_slots)
      BY <1>0, <1>9, <3>1, EmptyIsNoPizza DEF StoreOnTable, Occupied
    <3>3. Cardinality(Occupied(table_slots')) = Cardinality(Occupied(table_slots)) + 1
      BY <1>0, <3>2, CountStep
    <3> QED
      BY <1>9, <3>3 DEF StoreOnTable
  <2> QED
    BY <1>0, <2>2, <2>3, <2>4, <2>5, Capacities DEF TableAccount, SemIds
<1>10. ASSUME NEW c \in Chefs, TakeUnlock(c)
     PROVE  TableAccount'
  <2>1. pc[c] = "take_unlock" /\ pc' = [pc EXCEPT ![c] = "prepare"]
    BY <1>10 DEF TakeUnlock
  <2>2. /\ sem'["AVAILABLE_PLACES_ON_THE_TABLE"] = sem["AVAILABLE_PLACES_ON_THE_TABLE"]
        /\ sem'["NO_WAITING_PIZZAS"] = sem["NO_WAITING_PIZZAS"]
    BY <1>0, <1>10 DEF TakeUnlock, SemOp, SemIds
  <2>3. /\ Cardinality(Moving) \in Nat
        /\ Cardinality(Moving') = Cardinality(Moving) + Delta(c, Chefs, MovingPc, "prepare")
        /\ Cardinality(Getting) \in Nat
        /\ Cardinality(Getting') = Cardinality(Getting) + Delta(c, Deliverers, GettingPc, "prepare")
    BY <1>0, <2>1, CountsStep
  <2>4. /\ Delta(c, Chefs, MovingPc, "prepare") = 0
        /\ Delta(c, Deliverers, GettingPc, "prepare") = 0
    BY <2>1, WorkersAreDistinct DEF Delta, MovingPc, GettingPc
  <2>5. UNCHANGED <<no_table_pizzas, table_slots>>
    BY <1>10 DEF TakeUnlock
  <2> QED
    BY <1>0, <2>2, <2>3, <2>4, <2>5, Capacities DEF TableAccount, SemIds
<1>11. ASSUME NEW d \in Deliverers, LockAndStartDelivery(d)
     PROVE  TableAccount'
  <2>1. pc[d] = "wait" /\ pc' = [pc EXCEPT ![d] = "look_on_table"]
    BY <1>11 DEF LockAndStartDelivery
  <2>2. /\ sem'["AVAILABLE_PLACES_ON_THE_TABLE"] = sem["AVAILABLE_PLACES_ON_THE_TABLE"] + 1
        /\ sem'["NO_WAITING_PIZZAS"] = sem["NO_WAITING_PIZZAS"] - 1
    BY <1>0, <1>11 DEF LockAndStartDelivery, SemOp, SemIds
  <2>3. /\ Cardinality(Moving) \in Nat
        /\ Cardinality(Moving') = Cardinality(Moving) + Delta(d, Chefs, MovingPc, "look_on_table")
        /\ Cardinality(Getting) \in Nat
        /\ Cardinality(Getting') = Cardinality(Getting) + Delta(d, Deliverers, GettingPc, "look_on_table")
    BY <1>0, <2>1, CountsStep
  <2>4. /\ Delta(d, Chefs, MovingPc, "look_on_table") = 0
        /\ Delta(d, Deliverers, GettingPc, "look_on_table") = 1
    BY <2>1, WorkersAreDistinct DEF Delta, MovingPc, GettingPc
  <2>5. UNCHANGED <<no_table_pizzas, table_slots>>
    BY <1>11 DEF LockAndStartDelivery
  <2> QED
    BY <1>0, <2>2, <2>3, <2>4, <2>5, Capacities DEF TableAccount, SemIds
<1>12. ASSUME NEW d \in Deliverers, LookOnTable(d), UNCHANGED sem
     PROVE  TableAccount'
  <2>1. pc[d] = "look_on_table" /\ pc' = [pc EXCEPT ![d] = "take_from_table"]
    BY <1>12, LookFinds DEF LookOnTable
  <2>2. /\ sem'["AVAILABLE_PLACES_ON_THE_TABLE"] = sem["AVAILABLE_PLACES_ON_THE_TABLE"]
        /\ sem'["NO_WAITING_PIZZAS"] = sem["NO_WAITING_PIZZAS"]
    BY <1>0, <1>12 DEF LookOnTable, SemOp, SemIds
  <2>3. /\ Cardinality(Moving) \in Nat
        /\ Cardinality(Moving') = Cardinality(Moving) + Delta(d, Chefs, MovingPc, "take_from_table")
        /\ Cardinality(Getting) \in Nat
        /\ Cardinality(Getting') = Cardinality(Getting) + Delta(d, Deliverers, GettingPc, "take_from_table")
    BY <1>0, <2>1, CountsStep
  <2>4. /\ Delta(d, Chefs, MovingPc, "take_from_table") = 0
        /\ Delta(d, Deliverers, GettingPc, "take_from_table") = 0
    BY <2>1, WorkersAreDistinct DEF Delta, MovingPc, GettingPc
  <2>5. UNCHANGED <<no_table_pizzas, table_slots>>
    BY <1>12 DEF LookOnTable
  <2> QED
    BY <1>0, <2>2, <2>3, <2>4, <2>5, Capacities DEF TableAccount, SemIds
<1>13. ASSUME NEW d \in Deliverers, TakeFromTable(d), UNCHANGED sem
     PROVE  TableAccount'
  <2>1. pc[d] = "take_from_table" /\ pc' = [pc EXCEPT ![d] = "get_unlock"]
    BY <1>13 DEF TakeFromTable
  <2>2. /\ sem'["AVAILABLE_PLACES_ON_THE_TABLE"] = sem["AVAILABLE_PLACES_ON_THE_TABLE"]
        /\ sem'["NO_WAITING_PIZZAS"] = sem["NO_WAITING_PIZZAS"]
    BY <1>0, <1>13 DEF TakeFromTable, SemOp, SemIds
  <2>3. /\ Cardinality(Moving) \in Nat
        /\ Cardinality(Moving') = Cardinality(Moving) + Delta(d, Chefs, MovingPc, "get_unlock")
        /\ Cardinality(Getting) \in Nat
        /\ Cardinality(Getting') = Cardinality(Getting) + Delta(d, Deliverers, GettingPc, "get_unlock")
    BY <1>0, <2>1, CountsStep
  <2>4. /\ Delta(d, Chefs, MovingPc, "get_unlock") = 0
        /\ Delta(d, Deliverers, GettingPc, "get_unlock") = -1
    BY <2>1, WorkersAreDistinct DEF Delta, MovingPc, GettingPc
  <2>5. /\ no_table_pizzas' = no_table_pizzas - 1
        /\ Cardinality(Occupied(table_slots')) = Cardinality(Occupied(table_slots)) - 1
    <3>1. table_idx[d] \in TableSlots /\ table_slots[table_idx[d]] # Empty
      BY <1>0, <1>13 DEF TakeFromTable, TableOwners, AtPc
    <3>2. /\ Occupied(table_slots') \ {table_idx[d]} = Occupied(table_slots) \ {table_idx[d]}
          /\ table_idx[d] \notin Occupied(table_slots') /\ table_idx[d] \in Occupied(table_slots)
      BY <1>0, <1>13, <3>1 DEF TakeFromTable, Occupied
    <3>3. Cardinality(Occupied(table_slots')) = Cardinality(Occupied(table_slots)) - 1
      BY <1>0, <3>2, CountStep
    <3> QED
      BY <1>13, <3>3 DEF TakeFromTable
  <2> QED
    BY <1>0, <2>2, <2>3, <2>4, <2>5, Capacities DEF TableAccount, SemIds
<1>14. ASSUME NEW d \in Deliverers, GetUnlock(d)
     PROVE  TableAccount'
  <2>1. pc[d] = "get_unlock" /\ pc' = [pc EXCEPT ![d] = "travel"]
    BY <1>14 DEF GetUnlock
  <2>2. /\ sem'["AVAILABLE_PLACES_ON_THE_TABLE"] = sem["AVAILABLE_PLACES_ON_THE_TABLE"]
        /\ sem'["NO_WAITING_PIZZAS"] = sem["NO_WAITING_PIZZAS"]
    BY <1>0, <1>14 DEF GetUnlock, SemOp, SemIds
  <2>3. /\ Cardinality(Moving) \in Nat
        /\ Cardinality(Moving') = Cardinality(Moving) + Delta(d, Chefs, MovingPc, "travel")
        /\ Cardinality(Getting) \in Nat
        /\ Cardinality(Getting') = Cardinality(Getting) + Delta(d, Deliverers, GettingPc, "travel")
    BY <1>0, <2>1, CountsStep
  <2>4. /\ Delta(d, Chefs, MovingPc, "travel") = 0
        /\ Delta(d, Deliverers, GettingPc, "travel") = 0
    BY <2>1, WorkersAreDistinct DEF Delta, MovingPc, GettingPc
  <2>5. UNCHANGED <<no_table_pizzas, table_slots>>
    BY <1>14 DEF GetUnlock
  <2> QED
    BY <1>0, <2>2, <2>3, <2>4, <2>5, Capacities DEF TableAccount, SemIds
<1>15. ASSUME NEW d \in Deliverers, FinishDelivery(d)
     PROVE  TableAccount'
  <2>1. pc[d] = "travel" /\ pc' = [pc EXCEPT ![d] = "wait"]
    BY <1>15 DEF FinishDelivery
  <2>2. /\ sem'["AVAILABLE_PLACES_ON_THE_TABLE"] = sem["AVAILABLE_PLACES_ON_THE_TABLE"]
        /\ sem'["NO_WAITING_PIZZAS"] = sem["NO_WAITING_PIZZAS"]
    BY <1>0, <1>15 DEF FinishDelivery, SemOp, SemIds
  <2>3. /\ Cardinality(Moving) \in Nat
        /\ Cardinality(Moving') = Cardinality(Moving) + Delta(d, Chefs, MovingPc, "wait")
        /\ Cardinality(Getting) \in Nat
        /\ Cardinality(Getting') = Cardinality(Getting) + Delta(d, Deliverers, GettingPc, "wait")
    BY <1>0, <2>1, CountsStep
  <2>4. /\ Delta(d, Chefs, MovingPc, "wait") = 0
        /\ Delta(d, Deliverers, GettingPc, "wait") = 0
    BY <2>1, WorkersAreDistinct DEF Delta, MovingPc, GettingPc
  <2>5. UNCHANGED <<no_table_pizzas, table_slots>>
    BY <1>15 DEF FinishDelivery
  <2> QED
    BY <1>0, <2>2, <2>3, <2>4, <2>5, Capacities DEF TableAccount, SemIds
<1>16. CASE UNCHANGED vars
  BY <1>0, <1>16 DEF vars, memoryVars, TableAccount, Moving, Getting, AtPc, Occupied
<1> QED
  BY <1>1, <1>2, <1>3, <1>4, <1>5, <1>6, <1>7, <1>8, <1>9, <1>10, <1>11, <1>12, <1>13, <1>14, <1>15, <1>16
     DEF Next, Chef, Deliverer, ChefMemoryStep, DelivererMemoryStep


(* Every step keeps the slot chosen on the table empty for its chef, or full   *)
(* for its deliverer.                                                       *)
LEMMA TableOwnersStep == Accounts /\ [Next]_vars => TableOwners'
<1> SUFFICES ASSUME Accounts, [Next]_vars
             PROVE  TableOwners'
  OBVIOUS
<1> USE DEF Goto, ovenVars, tableVars, Workers, TableOwners, AtPc
<1>0. /\ TableOwners /\ MutualExclusion
      /\ table_slots \in [TableSlots -> PizzaOrEmpty] /\ table_idx \in [Workers -> TableSlots \cup {-1}]
      /\ DOMAIN pc = Workers
  BY DEF Accounts, TypeOK
<1>1. ASSUME NEW c \in Chefs, PreparePizza(c), UNCHANGED sem
     PROVE  TableOwners'
  BY <1>0, <1>1, WorkersAreDistinct DEF PreparePizza
<1>2. ASSUME NEW c \in Chefs, LockAndReserveOven(c)
     PROVE  TableOwners'
  BY <1>0, <1>2, WorkersAreDistinct DEF LockAndReserveOven
<1>3. ASSUME NEW c \in Chefs, FindOvenSlot(c), UNCHANGED sem
     PROVE  TableOwners'
  BY <1>0, <1>3, NoExit DEF FindOvenSlot
<1>4. ASSUME NEW c \in Chefs, StoreInOven(c), UNCHANGED sem
     PROVE  TableOwners'
  BY <1>0, <1>4, WorkersAreDistinct DEF StoreInOven
<1>5. ASSUME NEW c \in Chefs, PutUnlock(c)
     PROVE  TableOwners'
  BY <1>0, <1>5, WorkersAreDistinct DEF PutUnlock
<1>6. ASSUME NEW c \in Chefs, LockAndMoveToTable(c)
     PROVE  TableOwners'
  BY <1>0, <1>6, WorkersAreDistinct DEF LockAndMoveToTable
<1>7. ASSUME NEW c \in Chefs, TakeOutOfOven(c), UNCHANGED sem
     PROVE  TableOwners'
  BY <1>0, <1>7, WorkersAreDistinct DEF TakeOutOfOven
<1>8. ASSUME NEW c \in Chefs, FindTableSlot(c), UNCHANGED sem
     PROVE  TableOwners'
  <2>1. Goto(c, "find_table_slot", "store_on_table")
    BY <1>8, NoExit
  <2>2. FindEmptySlot(table_slots) \in TableSlots /\ table_slots[FindEmptySlot(table_slots)] = Empty
    <3>1. DOMAIN table_slots = TableSlots /\ TableSlots \subseteq Nat
      BY <1>0, Capacities DEF TableSlots
    <3>2. \E i \in DOMAIN table_slots : table_slots[i] = Empty
      BY <1>8, <3>1, TableHasRoom DEF FindTableSlot
    <3> QED
      BY <3>1, <3>2, FindEmptySlotFinds
  <2>3. no_table_pizzas # TableCapacity
    BY <1>8, TableHasRoom DEF FindTableSlot
  <2> QED
    BY <1>0, <1>8, <2>1, <2>2, <2>3, WorkersAreDistinct DEF FindTableSlot
<1>9. ASSUME NEW c \in Chefs, StoreOnTable(c), UNCHANGED sem
     PROVE  TableOwners'
  <2>1. \A w \in Workers \ {c} : pc[w] \notin {"store_on_table", "take_from_table"}
    BY <1>0, <1>9 DEF StoreOnTable, MutualExclusion, InMemory, ChefInMemory, DelivererInMemory
  <2> QED
    BY <1>0, <1>9, <2>1, WorkersAreDistinct DEF StoreOnTable
<1>10. ASSUME NEW c \in Chefs, TakeUnlock(c)
     PROVE  TableOwners'
  BY <1>0, <1>10, WorkersAreDistinct DEF TakeUnlock
<1>11. ASSUME NEW d \in Deliverers, LockAndStartDelivery(d)
     PROVE  TableOwners'
  BY <1>0, <1>11, WorkersAreDistinct DEF LockAndStartDelivery
<1>12. ASSUME NEW d \in Deliverers, LookOnTable(d), UNCHANGED sem
     PROVE  TableOwners'
  BY <1>0, <1>12, LookFinds, WorkersAreDistinct DEF LookOnTable
<1>13. ASSUME NEW d \in Deliverers, TakeFromTable(d), UNCHANGED sem
     PROVE  TableOwners'
  <2>1. \A w \in Workers \ {d} : pc[w] \notin {"store_on_table", "take_from_table"}
    BY <1>0, <1>13 DEF TakeFromTable, MutualExclusion, InMemory, ChefInMemory, DelivererInMemory
  <2> QED
    BY <1>0, <1>13, <2>1, WorkersAreDistinct DEF TakeFromTable
<1>14. ASSUME NEW d \in Deliverers, GetUnlock(d)
     PROVE  TableOwners'
  BY <1>0, <1>14, WorkersAreDistinct DEF GetUnlock
<1>15. ASSUME NEW d \in Deliverers, FinishDelivery(d)
     PROVE  TableOwners'
  BY <1>0, <1>15, WorkersAreDistinct DEF FinishDelivery
<1>16. CASE UNCHANGED vars
  BY <1>0, <1>16 DEF vars, memoryVars
<1> QED
  BY <1>1, <1>2, <1>3, <1>4, <1>5, <1>6, <1>7, <1>8, <1>9, <1>10, <1>11, <1>12, <1>13, <1>14, <1>15, <1>16
     DEF Next, Chef, Deliverer, ChefMemoryStep, DelivererMemoryStep


-----------------------------------------------------------------------------

(* The pizzeria opens with everything accounted for.                        *)
LEMMA InitAccounts == Init => Accounts
<1> SUFFICES ASSUME Init
             PROVE  Accounts
  OBVIOUS
<1> USE DEF Init, MemoryInit, Workers
<1>1. 0 \in OvenSlots /\ 0 \in TableSlots
  BY Capacities DEF OvenSlots, TableSlots
<1>2. /\ sem \in [SemIds -> Nat]
      /\ sem["AVAILABLE_PLACES_IN_OVEN"] = OvenCapacity
      /\ sem["AVAILABLE_PLACES_ON_THE_TABLE"] = TableCapacity
      /\ sem["NO_WAITING_PIZZAS"] = 0 /\ sem["NO_PIZZAS_IN_DELIVERY"] = 0
      /\ sem["MEMORY_LOCK"] = 1
  BY Capacities DEF InitializeSemaphores, SemIds
<1>3. TypeOK
  BY <1>1, <1>2, WorkersAreDistinct
     DEF TypeOK, PizzaOrEmpty, ChefPc, DelivererPc, ChefInMemory, DelivererInMemory
<1>4. MutualExclusion
  BY <1>2, WorkersAreDistinct DEF MutualExclusion, InMemory, ChefInMemory, DelivererInMemory
<1>5. Hands
  BY WorkersAreDistinct DEF Hands
<1>6. /\ Reserved = {} /\ Baking = {} /\ Moving = {} /\ Getting = {} /\ Delivering = {}
      /\ AtPc(Chefs, {"exited"}) = {} /\ Occupied(table_slots) = {}
  BY WorkersAreDistinct
     DEF Reserved, Baking, Moving, Getting, Delivering, AtPc, Occupied,
         ReservedPc, BakingPc, MovingPc, GettingPc, DeliveringPc
<1>7. OvenAccount /\ TableAccount /\ DeliveryAccount
  <2>1. /\ Cardinality(Reserved) = 0 /\ Cardinality(Baking) = 0 /\ Cardinality(Moving) = 0
        /\ Cardinality(Getting) = 0 /\ Cardinality(Delivering) = 0
        /\ Cardinality(Occupied(table_slots)) = 0
    BY <1>6, FS_EmptySet
  <2>2. no_oven_pizzas = 0 /\ no_table_pizzas = 0
    OBVIOUS
  <2> QED
    BY <1>2, <2>1, <2>2, Capacities DEF OvenAccount, TableAccount, DeliveryAccount
<1>8. OvenOwners /\ TableOwners
  BY <1>6, WorkersAreDistinct DEF OvenOwners, TableOwners, AtPc
<1> QED
  BY <1>3, <1>4, <1>5, <1>6, <1>7, <1>8 DEF Accounts

(* No chef takes a "should never happen" exit.                              *)
LEMMA NoExitStep == Accounts /\ [Next]_vars => AtPc(Chefs, {"exited"})' = {}
<1> SUFFICES ASSUME Accounts, [Next]_vars
             PROVE  AtPc(Chefs, {"exited"})' = {}
  OBVIOUS
<1>1. AtPc(Chefs, {"exited"}) = {} /\ DOMAIN pc = Workers
  BY DEF Accounts, TypeOK
<1>2. ASSUME NEW c \in Chefs, Chef(c)
      PROVE  pc'[c] # "exited" /\ \A v \in Workers \ {c} : pc'[v] = pc[v]
  BY <1>1, <1>2, NoExit
     DEF Chef, ChefMemoryStep, Workers, Goto, PreparePizza, LockAndReserveOven, PutUnlock,
         LockAndMoveToTable, TakeUnlock, FindOvenSlot, StoreInOven, TakeOutOfOven,
         FindTableSlot, StoreOnTable
<1>3. ASSUME NEW d \in Deliverers, Deliverer(d)
      PROVE  \A v \in Workers \ {d} : pc'[v] = pc[v]
  BY <1>1, <1>3
     DEF Deliverer, DelivererMemoryStep, Workers, Goto, LockAndStartDelivery, GetUnlock,
         FinishDelivery, LookOnTable, TakeFromTable
<1>4. CASE UNCHANGED vars
  BY <1>1, <1>4 DEF vars, memoryVars, AtPc
<1> QED
  BY <1>1, <1>2, <1>3, <1>4, WorkersAreDistinct DEF Next, AtPc, Workers

(* The inductive invariant: whatever the numbers of chefs and deliverers,   *)
(* the capacities and the interleaving, every unit of every semaphore and   *)
(* every taken slot is accounted for.                                       *)
THEOREM AccountsInvariant == Spec => []Accounts
<1>1. Accounts /\ [Next]_vars => Accounts'
  BY TypeStep, MutexStep, HandsStep, NoExitStep, OvenAccountStep, OvenOwnersStep,
     TableAccountStep, TableOwnersStep, DeliveryAccountStep DEF Accounts
<1> QED
  BY InitAccounts, <1>1, PTL DEF Spec

(* All variables keep their types.                                          *)
THEOREM TypeCorrect == Spec => []TypeOK
<1>1. Accounts => TypeOK
  BY DEF Accounts
<1> QED
  BY <1>1, AccountsInvariant, PTL

(* At most one worker is ever in the shared memory.                         *)
THEOREM MemoryIsExclusive == Spec => []MutualExclusion
<1>1. Accounts => MutualExclusion
  BY DEF Accounts
<1> QED
  BY <1>1, AccountsInvariant, PTL

(* What the comments of chef.c say should never happen never does, and no   *)
(* chef writes outside the arrays or over another pizza.                    *)
THEOREM NeverOverfullAlways == Spec => []NeverOverfull
<1>1. Accounts => NeverOverfull
  BY DEF Accounts, NeverOverfull, OvenOwners, TableOwners, AtPc
<1> QED
  BY <1>1, AccountsInvariant, PTL

(* A chef finds its own pizza where it left it.                             *)
THEOREM OvenIndexAlwaysValid == Spec => []OvenIndexStaysValid
<1>1. Accounts => OvenIndexStaysValid
  BY EmptyIsNoPizza DEF Accounts, OvenIndexStaysValid, OvenOwners, Hands, Baking, BakingPc, AtPc
<1> QED
  BY <1>1, AccountsInvariant, PTL

(* No deliverer leaves without a pizza.                                     *)
THEOREM DelivererAlwaysHasPizza == Spec => []DelivererHasPizza
<1>1. Accounts => DelivererHasPizza
  BY EmptyIsNoPizza DEF Accounts, DelivererHasPizza, Hands
<1> QED
  BY <1>1, AccountsInvariant, PTL

(* finish_delivery never waits.                                             *)
THEOREM FinishIsImmediate == Spec => []FinishNeverBlocks
<1>1. Accounts => FinishNeverBlocks
  <2> SUFFICES ASSUME Accounts, NEW d \in Deliverers, pc[d] = "travel"
               PROVE  sem["NO_PIZZAS_IN_DELIVERY"] > 0
    BY DEF FinishNeverBlocks
  <2>1. d \in Delivering
    BY DEF Delivering, AtPc, DeliveringPc
  <2>2. IsFiniteSet(Delivering) /\ Cardinality(Delivering) \in Nat
    BY WorkersAreFinite, FS_Subset, FS_CardinalityType DEF Delivering, AtPc
  <2>3. Cardinality(Delivering) # 0
    BY <2>1, <2>2, FS_EmptySet
  <2> QED
    BY <2>2, <2>3 DEF Accounts, DeliveryAccount
<1> QED
  BY <1>1, AccountsInvariant, PTL

(* The pizzas in the oven are as many as the chefs that wait for them.      *)
LEMMA OvenOccupied ==
  ASSUME Accounts
  PROVE  no_oven_pizzas = Cardinality(Occupied(oven_slots))
<1> DEFINE f == [b \in Baking |-> oven_idx[b]]
<1>1. Occupied(oven_slots) = {i \in OvenSlots : oven_slots[i] # Empty}
  BY DEF Accounts, TypeOK, Occupied
<1>2. \A b \in Baking : oven_idx[b] \in Occupied(oven_slots)
  BY <1>1, EmptyIsNoPizza DEF Accounts, OvenOwners, Hands, Baking, BakingPc, AtPc
<1>3. f \in Bijection(Baking, Occupied(oven_slots))
  BY <1>1, <1>2 DEF Accounts, OvenOwners, Bijection, Injection, Surjection, IsInjective
<1>4. IsFiniteSet(Baking)
  BY WorkersAreFinite, FS_Subset DEF Baking, AtPc
<1>5. ExistsBijection(Baking, Occupied(oven_slots))
  BY <1>3 DEF ExistsBijection
<1>6. Cardinality(Occupied(oven_slots)) = Cardinality(Baking)
  BY <1>4, <1>5, FS_Bijection
<1> QED
  BY <1>6 DEF Accounts, OvenAccount

(* Counters, slots and semaphores agree whenever nobody is in the memory.   *)
THEOREM CountersAlwaysAgree == Spec => []CountersAgree
<1>1. Accounts => CountersAgree
  <2> SUFFICES ASSUME Accounts, \A w \in Workers : ~InMemory(w)
               PROVE  /\ no_oven_pizzas = Cardinality(Occupied(oven_slots))
                      /\ no_table_pizzas = Cardinality(Occupied(table_slots))
                      /\ sem["AVAILABLE_PLACES_IN_OVEN"] = OvenCapacity - no_oven_pizzas
                      /\ sem["AVAILABLE_PLACES_ON_THE_TABLE"] = TableCapacity - no_table_pizzas
                      /\ sem["NO_WAITING_PIZZAS"] = no_table_pizzas
    BY DEF CountersAgree
  <2>1. Reserved = Baking /\ Moving = {} /\ Getting = {}
    BY DEF Accounts, TypeOK, InMemory, ChefInMemory, DelivererInMemory, Workers, AtPc,
           Reserved, Baking, Moving, Getting, ReservedPc, BakingPc, MovingPc, GettingPc
  <2>2. Cardinality(Baking) \in Nat /\ Cardinality({}) = 0
    BY WorkersAreFinite, FS_Subset, FS_CardinalityType, FS_EmptySet DEF Baking, AtPc
  <2>3. sem \in [SemIds -> Nat] /\ no_table_pizzas \in Int
    BY DEF Accounts, TypeOK
  <2> QED
    BY <2>1, <2>2, <2>3, OvenOccupied, Capacities
       DEF Accounts, OvenAccount, TableAccount, SemIds
<1> QED
  BY <1>1, AccountsInvariant, PTL


-----------------------------------------------------------------------------
(* Refinement.                                                              *)

(* With nobody carrying a pizza to the table, the abstract oven is the      *)
(* array; with somebody, the slot it emptied still counts as full.          *)
LEMMA OvenContentsNow ==
  ASSUME Accounts
  PROVE  /\ (\A c \in Chefs : pc[c] \notin {"find_table_slot", "store_on_table"})
              => OvenContents = oven_slots
         /\ \A c \in Chefs : pc[c] \in {"find_table_slot", "store_on_table"}
              => OvenContents = [oven_slots EXCEPT ![oven_idx[c]] = pizza_type[c]]
<1>1. oven_slots \in [OvenSlots -> PizzaOrEmpty]
  BY DEF Accounts, TypeOK
<1>2. ASSUME \A c \in Chefs : pc[c] \notin {"find_table_slot", "store_on_table"}
      PROVE  OvenContents = oven_slots
  BY <1>1, <1>2 DEF OvenContents, Carrying
<1>3. ASSUME NEW c \in Chefs, pc[c] \in {"find_table_slot", "store_on_table"}
      PROVE  OvenContents = [oven_slots EXCEPT ![oven_idx[c]] = pizza_type[c]]
  <2>1. \A b \in Chefs : pc[b] \in {"find_table_slot", "store_on_table"} => b = c
    BY <1>3 DEF Accounts, MutualExclusion, InMemory, ChefInMemory, Workers
  <2>2. \A b \in Chefs, i \in OvenSlots : Carrying(b, i) <=> b = c /\ i = oven_idx[c]
    BY <1>3, <2>1 DEF Carrying
  <2>3. \A i \in OvenSlots : i = oven_idx[c] => (CHOOSE b \in Chefs : Carrying(b, i)) = c
    BY <2>2
  <2> QED
    BY <1>1, <2>2, <2>3 DEF OvenContents
<1> QED
  BY <1>2, <1>3

(* The same after a step.                                                   *)
LEMMA OvenContentsNext ==
  ASSUME Accounts'
  PROVE  /\ (\A c \in Chefs : pc'[c] \notin {"find_table_slot", "store_on_table"})
              => OvenContents' = oven_slots'
         /\ \A c \in Chefs : pc'[c] \in {"find_table_slot", "store_on_table"}
              => OvenContents' = [oven_slots' EXCEPT ![oven_idx'[c]] = pizza_type'[c]]
<1>1. oven_slots' \in [OvenSlots -> PizzaOrEmpty]
  BY DEF Accounts, TypeOK
<1>2. ASSUME \A c \in Chefs : pc'[c] \notin {"find_table_slot", "store_on_table"}
      PROVE  OvenContents' = oven_slots'
  BY <1>1, <1>2 DEF OvenContents, Carrying
<1>3. ASSUME NEW c \in Chefs, pc'[c] \in {"find_table_slot", "store_on_table"}
      PROVE  OvenContents' = [oven_slots' EXCEPT ![oven_idx'[c]] = pizza_type'[c]]
  <2>1. \A b \in Chefs : pc'[b] \in {"find_table_slot", "store_on_table"} => b = c
    BY <1>3 DEF Accounts, MutualExclusion, InMemory, ChefInMemory, Workers
  <2>2. \A b \in Chefs, i \in OvenSlots : Carrying(b, i)' <=> b = c /\ i = oven_idx'[c]
    BY <1>3, <2>1 DEF Carrying
  <2>3. \A i \in OvenSlots : i = oven_idx'[c] => (CHOOSE b \in Chefs : Carrying(b, i)') = c
    BY <2>2
  <2> QED
    BY <1>1, <2>2, <2>3 DEF OvenContents
<1> QED
  BY <1>2, <1>3

(* Every step is a step of PizzaFlow, or leaves its state as it is.          *)
LEMMA FlowStep == Accounts /\ Accounts' /\ [Next]_vars => [Flow!Next]_(Flow!flowVars)
<1> SUFFICES ASSUME Accounts, Accounts', [Next]_vars
             PROVE  [Flow!Next]_(Flow!flowVars)
  OBVIOUS
<1> USE DEF Goto, ovenVars, tableVars, Workers
<1>0. /\ OvenOwners /\ TableOwners /\ Hands /\ MutualExclusion /\ Accounts /\ Accounts'
      /\ oven_slots \in [OvenSlots -> PizzaOrEmpty] /\ oven_idx \in [Chefs -> OvenSlots \cup {-1}]
      /\ table_slots \in [TableSlots -> PizzaOrEmpty]
      /\ pizza_type \in [Workers -> PizzaOrEmpty] /\ DOMAIN pc = Workers
  BY DEF Accounts, TypeOK
<1>1. ASSUME NEW c \in Chefs, PreparePizza(c), UNCHANGED sem
     PROVE  [Flow!Next]_(Flow!flowVars)
  <2>1. /\ \A b \in Chefs : pc'[b] \in {"find_table_slot", "store_on_table"}
                             <=> pc[b] \in {"find_table_slot", "store_on_table"}
        /\ UNCHANGED <<oven_slots, oven_idx, table_slots>>
        /\ \A b \in Chefs : pc[b] \in {"find_table_slot", "store_on_table"}
                             => pizza_type'[b] = pizza_type[b]
    BY <1>0, <1>1, NoExit, LookFinds, WorkersAreDistinct DEF PreparePizza
  <2>2. OvenContents' = OvenContents
    BY <1>0, <2>1, OvenContentsNow, OvenContentsNext
  <2> QED
    BY <1>0, <1>1, <2>1, <2>2, WorkersAreDistinct DEF PreparePizza, DelivererBags, Flow!flowVars
<1>2. ASSUME NEW c \in Chefs, LockAndReserveOven(c)
     PROVE  [Flow!Next]_(Flow!flowVars)
  <2>1. /\ \A b \in Chefs : pc'[b] \in {"find_table_slot", "store_on_table"}
                             <=> pc[b] \in {"find_table_slot", "store_on_table"}
        /\ UNCHANGED <<oven_slots, oven_idx, table_slots>>
        /\ \A b \in Chefs : pc[b] \in {"find_table_slot", "store_on_table"}
                             => pizza_type'[b] = pizza_type[b]
    BY <1>0, <1>2, NoExit, LookFinds, WorkersAreDistinct DEF LockAndReserveOven
  <2>2. OvenContents' = OvenContents
    BY <1>0, <2>1, OvenContentsNow, OvenContentsNext
  <2> QED
    BY <1>0, <1>2, <2>1, <2>2, WorkersAreDistinct DEF LockAndReserveOven, DelivererBags, Flow!flowVars
<1>3. ASSUME NEW c \in Chefs, FindOvenSlot(c), UNCHANGED sem
     PROVE  [Flow!Next]_(Flow!flowVars)
  <2>1. /\ pc[c] = "find_oven_slot"
        /\ \A b \in Chefs : b # c => pc'[b] = pc[b]
        /\ pc'[c] \in {"exited", "store_in_oven"}
    BY <1>0, <1>3 DEF FindOvenSlot
  <2>2. /\ \A b \in Chefs : pc[b] \notin {"find_table_slot", "store_on_table"}
        /\ \A b \in Chefs : pc'[b] \notin {"find_table_slot", "store_on_table"}
    BY <1>0, <2>1 DEF MutualExclusion, InMemory, ChefInMemory, DelivererInMemory
  <2>3. OvenContents = oven_slots /\ OvenContents' = oven_slots'
    BY <1>0, <2>2, OvenContentsNow, OvenContentsNext
  <2> QED
    BY <1>3, <2>3 DEF FindOvenSlot, DelivererBags, Flow!flowVars
<1>4. ASSUME NEW c \in Chefs, StoreInOven(c), UNCHANGED sem
     PROVE  [Flow!Next]_(Flow!flowVars)
  <2>1. /\ \A b \in Chefs : pc[b] \notin {"find_table_slot", "store_on_table"}
        /\ \A b \in Chefs : pc'[b] \notin {"find_table_slot", "store_on_table"}
    BY <1>0, <1>4 DEF StoreInOven, MutualExclusion, InMemory, ChefInMemory, DelivererInMemory
  <2>2. OvenContents = oven_slots /\ OvenContents' = oven_slots'
    BY <1>0, <2>1, OvenContentsNow, OvenContentsNext
  <2>3. /\ oven_idx[c] \in OvenSlots /\ oven_slots[oven_idx[c]] = Empty
        /\ pizza_type[c] \in PizzaTypes
    BY <1>0, <1>4 DEF StoreInOven, OvenOwners, AtPc, Hands
  <2>4. Flow!Bake(oven_idx[c], pizza_type[c])
    BY <1>0, <1>4, <2>2, <2>3, WorkersAreDistinct DEF StoreInOven, DelivererBags, Flow!Bake
  <2> QED
    BY <2>3, <2>4 DEF Flow!Next
<1>5. ASSUME NEW c \in Chefs, PutUnlock(c)
     PROVE  [Flow!Next]_(Flow!flowVars)
  <2>1. /\ \A b \in Chefs : pc'[b] \in {"find_table_slot", "store_on_table"}
                             <=> pc[b] \in {"find_table_slot", "store_on_table"}
        /\ UNCHANGED <<oven_slots, oven_idx, table_slots>>
        /\ \A b \in Chefs : pc[b] \in {"find_table_slot", "store_on_table"}
                             => pizza_type'[b] = pizza_type[b]
    BY <1>0, <1>5, NoExit, LookFinds, WorkersAreDistinct DEF PutUnlock
  <2>2. OvenContents' = OvenContents
    BY <1>0, <2>1, OvenContentsNow, OvenContentsNext
  <2> QED
    BY <1>0, <1>5, <2>1, <2>2, WorkersAreDistinct DEF PutUnlock, DelivererBags, Flow!flowVars
<1>6. ASSUME NEW c \in Chefs, LockAndMoveToTable(c)
     PROVE  [Flow!Next]_(Flow!flowVars)
  <2>1. /\ \A b \in Chefs : pc'[b] \in {"find_table_slot", "store_on_table"}
                             <=> pc[b] \in {"find_table_slot", "store_on_table"}
        /\ UNCHANGED <<oven_slots, oven_idx, table_slots>>
        /\ \A b \in Chefs : pc[b] \in {"find_table_slot", "store_on_table"}
                             => pizza_type'[b] = pizza_type[b]
    BY <1>0, <1>6, NoExit, LookFinds, WorkersAreDistinct DEF LockAndMoveToTable
  <2>2. OvenContents' = OvenContents
    BY <1>0, <2>1, OvenContentsNow, OvenContentsNext
  <2> QED
    BY <1>0, <1>6, <2>1, <2>2, WorkersAreDistinct DEF LockAndMoveToTable, DelivererBags, Flow!flowVars
<1>7. ASSUME NEW c \in Chefs, TakeOutOfOven(c), UNCHANGED sem
     PROVE  [Flow!Next]_(Flow!flowVars)
  <2>1. /\ \A b \in Chefs : pc[b] \notin {"find_table_slot", "store_on_table"}
        /\ pc'[c] = "find_table_slot"
    BY <1>0, <1>7 DEF TakeOutOfOven, MutualExclusion, InMemory, ChefInMemory
  <2>2. /\ OvenContents = oven_slots
        /\ OvenContents' = [oven_slots' EXCEPT ![oven_idx'[c]] = pizza_type'[c]]
    BY <1>0, <2>1, OvenContentsNow, OvenContentsNext
  <2>3. OvenContents' = OvenContents
    <3>1. oven_idx[c] \in OvenSlots
      BY <1>0, <1>7 DEF TakeOutOfOven, OvenOwners, Baking, BakingPc, AtPc
    <3> QED
      BY <1>0, <1>7, <2>2, <3>1 DEF TakeOutOfOven
  <2> QED
    BY <1>0, <1>7, <2>3, WorkersAreDistinct DEF TakeOutOfOven, DelivererBags, Flow!flowVars
<1>8. ASSUME NEW c \in Chefs, FindTableSlot(c), UNCHANGED sem
     PROVE  [Flow!Next]_(Flow!flowVars)
  <2>1. /\ \A b \in Chefs : pc'[b] \in {"find_table_slot", "store_on_table"}
                             <=> pc[b] \in {"find_table_slot", "store_on_table"}
        /\ UNCHANGED <<oven_slots, oven_idx, table_slots>>
        /\ \A b \in Chefs : pc[b] \in {"find_table_slot", "store_on_table"}
                             => pizza_type'[b] = pizza_type[b]
    BY <1>0, <1>8, NoExit, LookFinds, WorkersAreDistinct DEF FindTableSlot
  <2>2. OvenContents' = OvenContents
    BY <1>0, <2>1, OvenContentsNow, OvenContentsNext
  <2> QED
    BY <1>0, <1>8, <2>1, <2>2, WorkersAreDistinct DEF FindTableSlot, DelivererBags, Flow!flowVars
<1>9. ASSUME NEW c \in Chefs, StoreOnTable(c), UNCHANGED sem
     PROVE  [Flow!Next]_(Flow!flowVars)
  <2>1. \A b \in Chefs : pc'[b] \notin {"find_table_slot", "store_on_table"}
    BY <1>0, <1>9 DEF StoreOnTable, MutualExclusion, InMemory, ChefInMemory
  <2>2. /\ OvenContents = [oven_slots EXCEPT ![oven_idx[c]] = pizza_type[c]]
        /\ OvenContents' = oven_slots
    BY <1>0, <1>9, <2>1, OvenContentsNow, OvenContentsNext DEF StoreOnTable
  <2>3. /\ oven_idx[c] \in OvenSlots /\ oven_slots[oven_idx[c]] = Empty
        /\ table_idx[c] \in TableSlots /\ table_slots[table_idx[c]] = Empty
        /\ pizza_type[c] \in PizzaTypes
    BY <1>0, <1>9 DEF StoreOnTable, OvenOwners, TableOwners, AtPc, Hands
  <2>4. OvenContents' = [OvenContents EXCEPT ![oven_idx[c]] = Empty]
    BY <1>0, <2>2, <2>3
  <2>5. OvenContents[oven_idx[c]] = pizza_type[c]
    BY <1>0, <2>2, <2>3
  <2>6. Flow!Serve(oven_idx[c], table_idx[c])
    BY <1>0, <1>9, <2>3, <2>4, <2>5, WorkersAreDistinct, EmptyIsNoPizza
       DEF StoreOnTable, DelivererBags, Flow!Serve
  <2> QED
    BY <2>3, <2>6 DEF Flow!Next
<1>10. ASSUME NEW c \in Chefs, TakeUnlock(c)
     PROVE  [Flow!Next]_(Flow!flowVars)
  <2>1. /\ \A b \in Chefs : pc'[b] \in {"find_table_slot", "store_on_table"}
                             <=> pc[b] \in {"find_table_slot", "store_on_table"}
        /\ UNCHANGED <<oven_slots, oven_idx, table_slots>>
        /\ \A b \in Chefs : pc[b] \in {"find_table_slot", "store_on_table"}
                             => pizza_type'[b] = pizza_type[b]
    BY <1>0, <1>10, NoExit, LookFinds, WorkersAreDistinct DEF TakeUnlock
  <2>2. OvenContents' = OvenContents
    BY <1>0, <2>1, OvenContentsNow, OvenContentsNext
  <2> QED
    BY <1>0, <1>10, <2>1, <2>2, WorkersAreDistinct DEF TakeUnlock, DelivererBags, Flow!flowVars
<1>11. ASSUME NEW d \in Deliverers, LockAndStartDelivery(d)
     PROVE  [Flow!Next]_(Flow!flowVars)
  <2>1. /\ \A b \in Chefs : pc'[b] \in {"find_table_slot", "store_on_table"}
                             <=> pc[b] \in {"find_table_slot", "store_on_table"}
        /\ UNCHANGED <<oven_slots, oven_idx, table_slots>>
        /\ \A b \in Chefs : pc[b] \in {"find_table_slot", "store_on_table"}
                             => pizza_type'[b] = pizza_type[b]
    BY <1>0, <1>11, NoExit, LookFinds, WorkersAreDistinct DEF LockAndStartDelivery
  <2>2. OvenContents' = OvenContents
    BY <1>0, <2>1, OvenContentsNow, OvenContentsNext
  <2> QED
    BY <1>0, <1>11, <2>1, <2>2, WorkersAreDistinct DEF LockAndStartDelivery, DelivererBags, Flow!flowVars
<1>12. ASSUME NEW d \in Deliverers, LookOnTable(d), UNCHANGED sem
     PROVE  [Flow!Next]_(Flow!flowVars)
  <2>1. /\ \A b \in Chefs : pc'[b] \in {"find_table_slot", "store_on_table"}
                             <=> pc[b] \in {"find_table_slot", "store_on_table"}
        /\ UNCHANGED <<oven_slots, oven_idx, table_slots>>
        /\ \A b \in Chefs : pc[b] \in {"find_table_slot", "store_on_table"}
                             => pizza_type'[b] = pizza_type[b]
    BY <1>0, <1>12, NoExit, LookFinds, WorkersAreDistinct DEF LookOnTable
  <2>2. OvenContents' = OvenContents
    BY <1>0, <2>1, OvenContentsNow, OvenContentsNext
  <2> QED
    BY <1>0, <1>12, <2>1, <2>2, WorkersAreDistinct DEF LookOnTable, DelivererBags, Flow!flowVars
<1>13. ASSUME NEW d \in Deliverers, TakeFromTable(d), UNCHANGED sem
     PROVE  [Flow!Next]_(Flow!flowVars)
  <2>1. /\ \A b \in Chefs : pc'[b] \in {"find_table_slot", "store_on_table"}
                             <=> pc[b] \in {"find_table_slot", "store_on_table"}
        /\ UNCHANGED <<oven_slots, oven_idx>>
        /\ \A b \in Chefs : pc[b] \in {"find_table_slot", "store_on_table"}
                             => pizza_type'[b] = pizza_type[b]
    BY <1>0, <1>13, NoExit, LookFinds, WorkersAreDistinct DEF TakeFromTable
  <2>2. OvenContents' = OvenContents
    BY <1>0, <2>1, OvenContentsNow, OvenContentsNext
  <2>3. /\ table_idx[d] \in TableSlots /\ table_slots[table_idx[d]] # Empty
        /\ pizza_type[d] = Empty
    BY <1>0, <1>13 DEF TakeFromTable, TableOwners, AtPc, Hands
  <2>4. Flow!PickUp(table_idx[d], d)
    BY <1>0, <1>13, <2>2, <2>3 DEF TakeFromTable, DelivererBags, Flow!PickUp
  <2> QED
    BY <2>3, <2>4 DEF Flow!Next
<1>14. ASSUME NEW d \in Deliverers, GetUnlock(d)
     PROVE  [Flow!Next]_(Flow!flowVars)
  <2>1. /\ \A b \in Chefs : pc'[b] \in {"find_table_slot", "store_on_table"}
                             <=> pc[b] \in {"find_table_slot", "store_on_table"}
        /\ UNCHANGED <<oven_slots, oven_idx, table_slots>>
        /\ \A b \in Chefs : pc[b] \in {"find_table_slot", "store_on_table"}
                             => pizza_type'[b] = pizza_type[b]
    BY <1>0, <1>14, NoExit, LookFinds, WorkersAreDistinct DEF GetUnlock
  <2>2. OvenContents' = OvenContents
    BY <1>0, <2>1, OvenContentsNow, OvenContentsNext
  <2> QED
    BY <1>0, <1>14, <2>1, <2>2, WorkersAreDistinct DEF GetUnlock, DelivererBags, Flow!flowVars
<1>15. ASSUME NEW d \in Deliverers, FinishDelivery(d)
     PROVE  [Flow!Next]_(Flow!flowVars)
  <2>1. /\ \A b \in Chefs : pc'[b] \in {"find_table_slot", "store_on_table"}
                             <=> pc[b] \in {"find_table_slot", "store_on_table"}
        /\ UNCHANGED <<oven_slots, oven_idx, table_slots>>
        /\ \A b \in Chefs : pc[b] \in {"find_table_slot", "store_on_table"}
                             => pizza_type'[b] = pizza_type[b]
    BY <1>0, <1>15, NoExit, LookFinds, WorkersAreDistinct DEF FinishDelivery
  <2>2. OvenContents' = OvenContents
    BY <1>0, <2>1, OvenContentsNow, OvenContentsNext
  <2>3. pizza_type[d] # Empty
    BY <1>0, <1>15, EmptyIsNoPizza DEF FinishDelivery, Hands
  <2>4. Flow!Deliver(d)
    BY <1>0, <1>15, <2>1, <2>2, <2>3 DEF FinishDelivery, DelivererBags, Flow!Deliver
  <2> QED
    BY <2>4 DEF Flow!Next
<1>16. CASE UNCHANGED vars
  BY <1>0, <1>16 DEF vars, memoryVars, OvenContents, Carrying, DelivererBags, Flow!flowVars
<1> QED
  BY <1>1, <1>2, <1>3, <1>4, <1>5, <1>6, <1>7, <1>8, <1>9, <1>10, <1>11, <1>12, <1>13, <1>14, <1>15, <1>16
     DEF Next, Chef, Deliverer, ChefMemoryStep, DelivererMemoryStep


(* The System V pizzeria implements PizzaFlow: no pizza is lost, duplicated *)
(* or overwritten, whatever the workers, the capacities and the             *)
(* interleaving.                                                            *)
THEOREM SysVImplementsFlow == Spec => ImplementsFlow
<1>1. Init => Flow!Init
  <2> SUFFICES ASSUME Init
               PROVE  Flow!Init
    OBVIOUS
  <2>1. OvenContents = oven_slots
    BY InitAccounts, OvenContentsNow, WorkersAreDistinct DEF Init, MemoryInit, Workers
  <2> QED
    BY <2>1 DEF Init, MemoryInit, Workers, DelivererBags, Flow!Init
<1>2. Spec => []Accounts
  BY AccountsInvariant
<1> QED
  BY <1>1, <1>2, FlowStep, PTL DEF Spec, ImplementsFlow, Flow!Spec

-----------------------------------------------------------------------------
(* Opening and closing (PizzeriaMain), for any number of runs and kills.    *)

(* What a step of a worker does to where it is and to the lock: it takes    *)
(* the lock when it enters, gives it back when it leaves, and may leave     *)
(* without giving it back, by a "should never happen" branch.               *)
LEMMA WorkerAndLock ==
  ASSUME NEW w \in Workers, pc \in [Workers -> ChefPc \cup DelivererPc], sem \in [SemIds -> Nat],
         (w \in Chefs /\ Chef(w)) \/ (w \in Deliverers /\ Deliverer(w))
  PROVE  \E to \in ChefPc \cup DelivererPc :
           LET inside(p) == p \in ChefInMemory \cup DelivererInMemory
               lock == sem["MEMORY_LOCK"]
               lockNext == sem'["MEMORY_LOCK"]
           IN  /\ pc' = [pc EXCEPT ![w] = to] /\ sem' \in [SemIds -> Nat]
               /\ \/ ~inside(pc[w]) /\ lock > 0 /\ lockNext = lock - 1
                  \/ inside(pc[w]) /\ ~inside(to) /\ lockNext = lock + 1
                  \/ inside(pc[w]) /\ lockNext = lock
                  \/ ~inside(to) /\ lockNext = lock
<1> USE DEF ChefPc, DelivererPc, ChefInMemory, DelivererInMemory, Goto
<1>1. CASE w \in Chefs /\ PreparePizza(w) /\ UNCHANGED sem
  BY <1>1 DEF PreparePizza
<1>2. CASE w \in Chefs /\ ChefMemoryStep(w) /\ UNCHANGED sem
  <2>1. PICK to \in {"store_in_oven", "put_unlock", "find_table_slot", "store_on_table",
                     "take_unlock", "exited"} : pc' = [pc EXCEPT ![w] = to]
    BY <1>2 DEF ChefMemoryStep, FindOvenSlot, StoreInOven, TakeOutOfOven, FindTableSlot, StoreOnTable
  <2>2. pc[w] \in {"find_oven_slot", "store_in_oven", "take_out", "find_table_slot", "store_on_table"}
    BY <1>2 DEF ChefMemoryStep, FindOvenSlot, StoreInOven, TakeOutOfOven, FindTableSlot, StoreOnTable
  <2> QED
    BY <1>2, <2>1, <2>2
<1>3. CASE w \in Deliverers /\ DelivererMemoryStep(w) /\ UNCHANGED sem
  <2>1. PICK to \in {"take_from_table", "get_unlock"} : pc' = [pc EXCEPT ![w] = to]
    BY <1>3 DEF DelivererMemoryStep, LookOnTable, TakeFromTable
  <2>2. pc[w] \in {"look_on_table", "take_from_table"}
    BY <1>3 DEF DelivererMemoryStep, LookOnTable, TakeFromTable
  <2> QED
    BY <1>3, <2>1, <2>2
<1>4. CASE w \in Chefs /\ LockAndReserveOven(w)
  BY <1>4 DEF LockAndReserveOven, SemOp, SemIds
<1>5. CASE w \in Chefs /\ LockAndMoveToTable(w)
  BY <1>5 DEF LockAndMoveToTable, SemOp, SemIds
<1>6. CASE w \in Chefs /\ PutUnlock(w)
  BY <1>6 DEF PutUnlock, SemOp, SemIds
<1>7. CASE w \in Chefs /\ TakeUnlock(w)
  BY <1>7 DEF TakeUnlock, SemOp, SemIds
<1>8. CASE w \in Deliverers /\ LockAndStartDelivery(w)
  BY <1>8 DEF LockAndStartDelivery, SemOp, SemIds
<1>9. CASE w \in Deliverers /\ GetUnlock(w)
  BY <1>9 DEF GetUnlock, SemOp, SemIds
<1>10. CASE w \in Deliverers /\ FinishDelivery(w)
  BY <1>10 DEF FinishDelivery, SemOp, SemIds
<1> QED
  BY <1>1, <1>2, <1>3, <1>4, <1>5, <1>6, <1>7, <1>8, <1>9, <1>10 DEF Chef, Deliverer

(* A step of a worker at work.                                              *)
LEMMA OpenedWorks ==
  ASSUME Opened, NEW w \in Workers, Works(w)
  PROVE  Opened'
<1>1. /\ life[w] = "working" /\ UNCHANGED mainVars
      /\ (w \in Chefs /\ Chef(w)) \/ (w \in Deliverers /\ Deliverer(w))
  BY DEF Works
<1>2. pc \in [Workers -> ChefPc \cup DelivererPc] /\ sem \in [SemIds -> Nat]
  BY DEF Opened, MainTypeOK
<1> DEFINE lock == sem["MEMORY_LOCK"]
           inside(p) == p \in ChefInMemory \cup DelivererInMemory
<1>3. PICK to \in ChefPc \cup DelivererPc :
           /\ pc' = [pc EXCEPT ![w] = to] /\ sem' \in [SemIds -> Nat]
           /\ \/ ~inside(pc[w]) /\ lock > 0 /\ sem'["MEMORY_LOCK"] = lock - 1
              \/ inside(pc[w]) /\ ~inside(to) /\ sem'["MEMORY_LOCK"] = lock + 1
              \/ inside(pc[w]) /\ sem'["MEMORY_LOCK"] = lock
              \/ ~inside(to) /\ sem'["MEMORY_LOCK"] = lock
  BY <1>1, <1>2, WorkerAndLock
<1>4. /\ UNCHANGED <<main, sem_id, shm_id, set, segment, life, cut_short>>
      /\ pc'[w] = to /\ \A v \in Workers : v # w => pc'[v] = pc[v]
  BY <1>1, <1>2, <1>3 DEF mainVars, idVars, ipcVars, exitVars
<1>5. MainTypeOK' /\ IdsOfThisRun'
  BY <1>2, <1>3, <1>4 DEF Opened, MainTypeOK, IdsOfThisRun
<1>6. AtHome'
  BY <1>1, <1>4 DEF Opened, AtHome, PcOf
<1>7. ASSUME ~cut_short
      PROVE  AtWork' /\ LockIsTaken' /\ OneInMemory'
  <2>1. AtWork'
    BY <1>4, <1>7 DEF Opened, AtWork, IsOpen
  <2>2. set /\ lock \in {0, 1}
    BY <1>1, <1>7 DEF Opened, AtWork, LockIsTaken
  <2>3. /\ inside(pc[w]) => lock = 0
        /\ \A v \in Workers : life[v] = "working" /\ inside(pc[v]) => lock = 0 /\ (inside(pc[w]) => v = w)
        /\ \A u, v \in Workers : life[u] = "working" /\ life[v] = "working" /\ inside(pc[u]) /\ inside(pc[v]) => u = v
    BY <1>1, <1>7 DEF Opened, LockIsTaken, OneInMemory, InMemory
  <2>4. sem'["MEMORY_LOCK"] \in {0, 1}
    BY <1>3, <2>2, <2>3
  <2>5. \A v \in Workers : life[v] = "working" /\ inside(pc'[v]) =>
            sem'["MEMORY_LOCK"] = 0 /\ \A u \in Workers : life[u] = "working" /\ inside(pc'[u]) => u = v
    <3> SUFFICES ASSUME NEW v \in Workers, life[v] = "working", inside(pc'[v])
                 PROVE  sem'["MEMORY_LOCK"] = 0 /\ \A u \in Workers : life[u] = "working" /\ inside(pc'[u]) => u = v
      OBVIOUS
    <3>1. CASE ~inside(pc[w]) /\ lock > 0 /\ sem'["MEMORY_LOCK"] = lock - 1
      <4>1. \A u \in Workers : life[u] = "working" => ~inside(pc[u])
        BY <2>2, <2>3, <3>1
      <4>2. v = w /\ \A u \in Workers : life[u] = "working" /\ inside(pc'[u]) => u = w
        BY <1>4, <4>1
      <4> QED
        BY <2>2, <3>1, <4>2
    <3>2. CASE inside(pc[w])
      <4>1. \A u \in Workers : life[u] = "working" /\ inside(pc'[u]) => u = w
        BY <1>4, <2>3, <3>2
      <4>2. inside(to) /\ lock = 0
        BY <1>4, <2>3, <3>2, <4>1
      <4> QED
        BY <2>2, <1>3, <3>2, <4>1, <4>2
    <3>3. CASE ~inside(pc[w]) /\ ~inside(to) /\ sem'["MEMORY_LOCK"] = lock
      <4>1. v # w /\ inside(pc[v]) /\ sem'["MEMORY_LOCK"] = 0
        BY <1>4, <2>3, <3>3
      <4>2. \A u \in Workers : life[u] = "working" /\ inside(pc'[u]) => u # w /\ inside(pc[u])
        BY <1>4, <3>3
      <4> QED
        BY <2>3, <4>1, <4>2
    <3> QED
      BY <1>3, <3>1, <3>2, <3>3
  <2> QED
    BY <1>4, <2>1, <2>4, <2>5 DEF LockIsTaken, OneInMemory, InMemory
<1>8. cut_short => OneInMemory'
  BY <1>4 DEF OneInMemory
<1> QED
  BY <1>4, <1>5, <1>6, <1>7, <1>8 DEF Opened

(* What Forget leaves of the workers it is about.                           *)
LEMMA Forgotten ==
  ASSUME NEW W \in SUBSET Workers, Forget(W), pc \in [Workers -> ChefPc \cup DelivererPc]
  PROVE  /\ pc' \in [Workers -> ChefPc \cup DelivererPc]
         /\ \A w \in W : pc'[w] = PcOf(w)
         /\ \A w \in Workers \ W : pc'[w] = pc[w]
BY DEF Forget, PcOf, ChefPc, DelivererPc

(* Nobody begins in the memory.                                             *)
LEMMA OutsideFirst == \A w : PcOf(w) \notin ChefInMemory \cup DelivererInMemory
BY DEF PcOf, ChefInMemory, DelivererInMemory

(* A step after which the objects, the semaphores and those at work are as  *)
(* before keeps what is said of them, as long as main does not give up      *)
(* objects that it has to remove.                                           *)
LEMMA OpenedSame ==
  ASSUME Opened, MainTypeOK', IdsOfThisRun', AtHome',
         UNCHANGED <<sem, set, segment, cut_short>>,
         \A w \in Workers : /\ life'[w] = "working" => life[w] = "working" /\ pc'[w] = pc[w]
                            /\ life'[w] = "starting" => life[w] = "starting" \/ IsOpen',
         \/ IsOpen => IsOpen'
         \/ \A w \in Workers : life'[w] \notin {"working", "starting"},
         main # "removing"
  PROVE  Opened'
<1>1. ASSUME ~cut_short
      PROVE  AtWork' /\ LockIsTaken'
  BY <1>1 DEF Opened, AtWork, LockIsTaken, InMemory
<1>2. OneInMemory'
  BY DEF Opened, OneInMemory, InMemory
<1> QED
  BY <1>1, <1>2 DEF Opened

LEMMA OpenedStarts ==
  ASSUME Opened, Start
  PROVE  Opened'
<1>1. /\ main = "off" /\ main' = "semaphores"
      /\ UNCHANGED <<pc, sem, set, segment, life, sem_id, shm_id, cut_short>>
  BY DEF Start, vars, memoryVars, ipcVars, idVars, exitVars
<1>2. MainTypeOK' /\ IdsOfThisRun' /\ AtHome'
  BY <1>1 DEF Opened, MainTypeOK, IdsOfThisRun, AtHome
<1>3. ~IsOpen
  BY <1>1 DEF IsOpen
<1> QED
  BY <1>1, <1>2, <1>3, OpenedSame

(* Nobody is at work yet when the semaphores get their values, unless an    *)
(* exit_handler was cut short.                                              *)
LEMMA OpenedSemaphores ==
  ASSUME Opened, OpenSemaphoreSet
  PROVE  Opened'
<1>1. /\ main = "semaphores" /\ UNCHANGED <<pc, shm_id, segment, life, cut_short>>
      /\ \/ sem' = InitializeSemaphores /\ set' = TRUE /\ sem_id' = TRUE /\ main' = "memory"
         \/ UNCHANGED <<sem, set, sem_id>> /\ main' = "return"
  BY DEF OpenSemaphoreSet, memoryVars, exitVars
<1>2. ~shm_id /\ ~sem_id
  BY <1>1 DEF Opened, IdsOfThisRun
<1>3. InitializeSemaphores \in [SemIds -> Nat] /\ InitializeSemaphores["MEMORY_LOCK"] = 1
  BY Capacities DEF InitializeSemaphores, SemIds
<1>4. MainTypeOK' /\ IdsOfThisRun' /\ AtHome'
  BY <1>1, <1>2, <1>3 DEF Opened, MainTypeOK, IdsOfThisRun, AtHome
<1>5. ASSUME ~cut_short
      PROVE  AtWork' /\ LockIsTaken' /\ OneInMemory'
  <2>1. \A w \in Workers : life[w] # "working" /\ (life[w] = "starting" => ~segment)
    BY <1>1, <1>5 DEF Opened, AtWork, IsOpen
  <2>2. set' => sem'["MEMORY_LOCK"] \in {0, 1}
    BY <1>1, <1>3, <1>5 DEF Opened, LockIsTaken
  <2> QED
    BY <1>1, <2>1, <2>2 DEF AtWork, LockIsTaken, OneInMemory
<1> QED
  BY <1>1, <1>4, <1>5 DEF Opened, OneInMemory

LEMMA OpenedMemory ==
  ASSUME Opened, OpenMemory
  PROVE  Opened'
<1>1. /\ main = "memory" /\ UNCHANGED <<pc, sem, sem_id, set, life, cut_short>>
      /\ \/ segment' = TRUE /\ shm_id' = TRUE /\ main' = "employ"
         \/ UNCHANGED <<segment, shm_id>> /\ main' = "return"
  BY DEF OpenMemory, exitVars
<1>2. ~shm_id /\ sem_id
  BY <1>1 DEF Opened, IdsOfThisRun
<1>3. MainTypeOK' /\ IdsOfThisRun' /\ AtHome'
  BY <1>1, <1>2 DEF Opened, MainTypeOK, IdsOfThisRun, AtHome
<1>4. ASSUME ~cut_short
      PROVE  AtWork' /\ LockIsTaken' /\ OneInMemory'
  <2>1. \A w \in Workers : life[w] # "working" /\ (life[w] = "starting" => ~segment)
    BY <1>1, <1>4 DEF Opened, AtWork, IsOpen
  <2>2. AtWork'
    BY <1>1, <1>2, <2>1 DEF AtWork, IsOpen
  <2>3. LockIsTaken' /\ OneInMemory'
    BY <1>1, <1>4, <2>1 DEF Opened, LockIsTaken, OneInMemory
  <2> QED
    BY <2>2, <2>3
<1> QED
  BY <1>1, <1>3, <1>4 DEF Opened, OneInMemory

LEMMA OpenedEmploys ==
  ASSUME Opened, NEW w \in Workers, Employ(w)
  PROVE  Opened'
<1>1. /\ main = "employ" /\ life[w] \in {"unborn", "ended"}
      /\ UNCHANGED <<pc, sem, sem_id, shm_id, set, segment, cut_short>>
      /\ \/ life' = [life EXCEPT ![w] = "starting"] /\ main' = main
         \/ UNCHANGED life /\ main' = "return"
  BY DEF Employ, vars, memoryVars, idVars, ipcVars, exitVars
<1>2. sem_id /\ shm_id
  BY <1>1 DEF Opened, IdsOfThisRun
<1>3. MainTypeOK' /\ IdsOfThisRun'
  BY <1>1, <1>2 DEF Opened, MainTypeOK, IdsOfThisRun, Alive
<1>4. /\ \A v \in Workers : life'[v] = "working" => life[v] = "working"
      /\ \A v \in Workers : life'[v] # "working" => life[v] # "working"
  BY <1>1 DEF Opened, MainTypeOK
<1>5. AtHome'
  BY <1>1, <1>4 DEF Opened, AtHome, PcOf
<1>6. IsOpen'
  BY <1>1, <1>2 DEF IsOpen
<1> QED
  BY <1>1, <1>3, <1>4, <1>5, <1>6, OpenedSame

LEMMA OpenedWaits ==
  ASSUME Opened, WaitUntilPizzeriaCloses
  PROVE  Opened'
<1>1. /\ main = "employ" /\ main' = "return"
      /\ UNCHANGED <<pc, sem, sem_id, shm_id, set, segment, life, cut_short>>
  BY DEF WaitUntilPizzeriaCloses, vars, memoryVars, idVars, ipcVars, exitVars
<1>2. MainTypeOK' /\ IdsOfThisRun' /\ AtHome' /\ (IsOpen => IsOpen')
  BY <1>1 DEF Opened, MainTypeOK, IdsOfThisRun, AtHome, IsOpen
<1> QED
  BY <1>1, <1>2, OpenedSame

(* A worker that finds set and segment is at its beginning.                 *)
LEMMA OpenedLoads ==
  ASSUME Opened, NEW w \in Workers, LoadPizzeriaData(w)
  PROVE  Opened'
<1>1. /\ life[w] = "starting"
      /\ life' = [life EXCEPT ![w] = IF set /\ segment THEN "working" ELSE "ended"]
      /\ UNCHANGED <<pc, sem, main, sem_id, shm_id, set, segment, cut_short>>
  BY DEF LoadPizzeriaData, vars, memoryVars, idVars, ipcVars, exitVars
<1>2. pc[w] = PcOf(w) /\ ~InMemory(w)
  BY <1>1, OutsideFirst DEF Opened, AtHome, InMemory
<1>3. /\ life'[w] = IF set /\ segment THEN "working" ELSE "ended"
      /\ \A v \in Workers : v # w => life'[v] = life[v]
  BY <1>1 DEF Opened, MainTypeOK
<1>4. MainTypeOK' /\ IdsOfThisRun'
  BY <1>1 DEF Opened, MainTypeOK, IdsOfThisRun, Alive
<1>5. AtHome'
  BY <1>1, <1>2, <1>3 DEF Opened, AtHome, PcOf
<1>6. ASSUME ~cut_short
      PROVE  AtWork' /\ LockIsTaken' /\ OneInMemory'
  <2>1. set /\ segment => IsOpen
    BY <1>1, <1>6 DEF Opened, AtWork, AtHome
  <2>2. AtWork'
    BY <1>1, <1>3, <1>6, <2>1 DEF Opened, AtWork, IsOpen
  <2>3. LockIsTaken' /\ OneInMemory'
    BY <1>1, <1>2, <1>3, <1>6 DEF Opened, LockIsTaken, OneInMemory, InMemory
  <2> QED
    BY <2>2, <2>3
<1> QED
  BY <1>1, <1>4, <1>5, <1>6 DEF Opened, OneInMemory

(* exit_handler begins: main keeps what it has to remove.                   *)
LEMMA OpenedExit ==
  ASSUME Opened, Exit
  PROVE  Opened'
<1>1. /\ main \in {"semaphores", "memory", "employ", "return"} /\ main' = "exit"
      /\ UNCHANGED <<pc, sem, sem_id, shm_id, set, segment, life, cut_short>>
  BY DEF Exit, vars, memoryVars, idVars, ipcVars
<1>2. MainTypeOK' /\ IdsOfThisRun' /\ AtHome' /\ (IsOpen => IsOpen')
  BY <1>1 DEF Opened, MainTypeOK, IdsOfThisRun, AtHome, IsOpen
<1> QED
  BY <1>1, <1>2, OpenedSame

(* It has not created both objects: nobody is at work.                      *)
LEMMA OpenedRemoveNothing ==
  ASSUME Opened, RemoveNothing
  PROVE  Opened'
<1>1. /\ main = "exit" /\ ~(sem_id /\ shm_id) /\ main' = "off" /\ ~sem_id' /\ ~shm_id'
      /\ sem_id' \in BOOLEAN /\ shm_id' \in BOOLEAN
      /\ UNCHANGED <<pc, sem, set, segment, life, cut_short>>
  BY DEF RemoveNothing, Ends, vars, memoryVars, ipcVars
<1>2. MainTypeOK' /\ IdsOfThisRun' /\ AtHome' /\ ~IsOpen
  BY <1>1 DEF Opened, MainTypeOK, IdsOfThisRun, AtHome, IsOpen
<1> QED
  BY <1>1, <1>2, OpenedSame

(* Removing the set sends home whoever is at work.                          *)
LEMMA OpenedRemoveSet ==
  ASSUME Opened, RemoveSet
  PROVE  Opened'
<1> DEFINE W == {w \in Workers : life[w] = "working"}
<1>1. /\ main' = "removing" /\ sem_id /\ shm_id /\ set' = FALSE /\ Forget(W)
      /\ sem' = [s \in SemIds |-> 0]
      /\ life' = [w \in Workers |-> IF w \in W THEN "cut_off" ELSE life[w]]
      /\ UNCHANGED <<sem_id, shm_id, segment, cut_short>>
  BY DEF RemoveSet, RemoveSemaphores, idVars, exitVars
<1>2. /\ pc' \in [Workers -> ChefPc \cup DelivererPc]
      /\ \A w \in W : pc'[w] = PcOf(w)
      /\ \A w \in Workers \ W : pc'[w] = pc[w]
  BY <1>1, Forgotten DEF Opened, MainTypeOK
<1>3. \A w \in Workers : life'[w] # "working"
  BY <1>1
<1>4. MainTypeOK' /\ IdsOfThisRun'
  BY <1>1, <1>2 DEF Opened, MainTypeOK, IdsOfThisRun, Alive
<1>5. AtHome'
  BY <1>1, <1>2, <1>3 DEF Opened, AtHome, PcOf
<1>6. AtWork' /\ LockIsTaken' /\ OneInMemory'
  BY <1>1, <1>3 DEF AtWork, LockIsTaken, OneInMemory
<1> QED
  BY <1>4, <1>5, <1>6 DEF Opened

(* With the segment gone too, nothing an earlier main has left remains.     *)
LEMMA OpenedRemoveSegment ==
  ASSUME Opened, RemoveSegment
  PROVE  Opened'
<1>1. /\ main = "removing" /\ main' = "off" /\ segment' = FALSE /\ cut_short' = FALSE
      /\ sem_id' = FALSE /\ shm_id' = FALSE /\ UNCHANGED <<pc, sem, set, life>>
  BY DEF RemoveSegment, RemoveMemory, Ends
<1>2. ~set /\ \A w \in Workers : life[w] # "working"
  BY <1>1 DEF Opened, AtHome
<1>3. MainTypeOK' /\ IdsOfThisRun' /\ AtHome'
  BY <1>1 DEF Opened, MainTypeOK, IdsOfThisRun, AtHome
<1>4. AtWork' /\ LockIsTaken' /\ OneInMemory'
  BY <1>1, <1>2 DEF AtWork, LockIsTaken, OneInMemory
<1> QED
  BY <1>3, <1>4 DEF Opened

LEMMA OpenedInterrupted ==
  ASSUME Opened, Interrupted
  PROVE  Opened'
<1>1. /\ main' = "off" /\ cut_short' = TRUE /\ sem_id' = FALSE /\ shm_id' = FALSE
      /\ UNCHANGED <<pc, sem, set, segment, life>>
  BY DEF Interrupted, Ends, vars, memoryVars, ipcVars
<1>2. MainTypeOK' /\ IdsOfThisRun' /\ AtHome'
  BY <1>1 DEF Opened, MainTypeOK, IdsOfThisRun, AtHome
<1> QED
  BY <1>1, <1>2 DEF Opened, OneInMemory

(* Workers that end, while the objects stay as they are.                    *)
LEMMA OpenedEnds ==
  ASSUME Opened, NEW W \in SUBSET Workers, Forget(W), UNCHANGED <<sem, set, segment, cut_short>>,
         life' \in [Workers -> Alive \cup {"unborn", "ended"}],
         \A w \in Workers : \/ w \notin W /\ life'[w] = life[w]
                            \/ w \in W /\ life'[w] = "ended",
         \/ UNCHANGED <<main, sem_id, shm_id>>
         \/ /\ main' = "off" /\ sem_id' = FALSE /\ shm_id' = FALSE
            /\ \A w \in Workers : life'[w] \notin {"working", "starting"}
  PROVE  Opened'
<1>1. /\ pc' \in [Workers -> ChefPc \cup DelivererPc]
      /\ \A w \in W : pc'[w] = PcOf(w)
      /\ \A w \in Workers \ W : pc'[w] = pc[w]
  BY Forgotten DEF Opened, MainTypeOK
<1>2. MainTypeOK' /\ IdsOfThisRun'
  <2>1. /\ main' \in {"off", "semaphores", "memory", "employ", "return", "exit", "removing"}
        /\ sem_id' \in BOOLEAN /\ shm_id' \in BOOLEAN
    BY DEF Opened, MainTypeOK
  <2>2. sem' \in [SemIds -> Nat] /\ set' \in BOOLEAN /\ segment' \in BOOLEAN /\ cut_short' \in BOOLEAN
    BY DEF Opened, MainTypeOK
  <2>3. MainTypeOK'
    BY <1>1, <2>1, <2>2 DEF MainTypeOK
  <2>4. IdsOfThisRun'
    BY DEF Opened, IdsOfThisRun
  <2> QED
    BY <2>3, <2>4
<1>3. \A w \in Workers : /\ life'[w] = "working" => life[w] = "working" /\ pc'[w] = pc[w]
                         /\ life'[w] = "starting" => life[w] = "starting"
  <2> SUFFICES ASSUME NEW w \in Workers
               PROVE  /\ life'[w] = "working" => life[w] = "working" /\ pc'[w] = pc[w]
                      /\ life'[w] = "starting" => life[w] = "starting"
    OBVIOUS
  <2>1. CASE w \in W
    <3>1. life'[w] = "ended"
      BY <2>1
    <3> QED
      BY <3>1
  <2>2. CASE w \notin W
    <3>1. life'[w] = life[w] /\ pc'[w] = pc[w]
      BY <2>2, <1>1
    <3> QED
      BY <3>1
  <2> QED
    BY <2>1, <2>2
<1>4. AtHome'
  BY <1>1, <1>3 DEF Opened, AtHome, PcOf
<1>5. ASSUME ~cut_short
      PROVE  AtWork' /\ LockIsTaken'
  BY <1>3, <1>5 DEF Opened, AtWork, IsOpen, LockIsTaken, InMemory
<1>6. OneInMemory'
  BY <1>3 DEF Opened, OneInMemory, InMemory
<1> QED
  BY <1>2, <1>4, <1>5, <1>6 DEF Opened

LEMMA OpenedWorkerEnds ==
  ASSUME Opened, NEW w \in Workers, WorkerEnds(w)
  PROVE  Opened'
<1>1. /\ life' = [life EXCEPT ![w] = "ended"] /\ Forget({w})
      /\ UNCHANGED <<sem, main, sem_id, shm_id, set, segment, cut_short>>
  BY DEF WorkerEnds, idVars, ipcVars, exitVars
<1>2. /\ life' \in [Workers -> Alive \cup {"unborn", "ended"}]
      /\ \A v \in Workers : \/ v \notin {w} /\ life'[v] = life[v]
                            \/ v \in {w} /\ life'[v] = "ended"
  BY <1>1 DEF Opened, MainTypeOK
<1> QED
  BY <1>1, <1>2, OpenedEnds

LEMMA OpenedKilled ==
  ASSUME Opened, KillAll
  PROVE  Opened'
<1>1. /\ main' = "off" /\ Forget(Living) /\ sem_id' = FALSE /\ shm_id' = FALSE
      /\ life' = [w \in Workers |-> IF w \in Living THEN "ended" ELSE life[w]]
      /\ UNCHANGED <<sem, set, segment, cut_short>>
  BY DEF KillAll, Ends, ipcVars
<1>2. Living \in SUBSET Workers /\ \A w \in Workers : w \in Living <=> life[w] \in Alive
  BY DEF Living
<1>3. /\ life' \in [Workers -> Alive \cup {"unborn", "ended"}]
      /\ \A v \in Workers : \/ v \notin Living /\ life'[v] = life[v]
                            \/ v \in Living /\ life'[v] = "ended"
      /\ \A v \in Workers : life'[v] \notin {"working", "starting"}
  BY <1>1, <1>2 DEF Opened, MainTypeOK, Alive
<1> QED
  BY <1>1, <1>2, <1>3, OpenedEnds

LEMMA MainBegins == MainInit => Opened /\ ~segment
<1> SUFFICES ASSUME MainInit PROVE Opened /\ ~segment
  OBVIOUS
<1>1. /\ main = "off" /\ sem_id = FALSE /\ shm_id = FALSE /\ set = FALSE /\ segment = FALSE
      /\ cut_short = FALSE /\ life = [w \in Workers |-> "unborn"] /\ sem = InitializeSemaphores
      /\ pc = [w \in Workers |-> PcOf(w)]
  BY DEF MainInit, Init, MemoryInit, PcOf
<1>2. InitializeSemaphores \in [SemIds -> Nat]
  BY Capacities DEF InitializeSemaphores, SemIds
<1>3. MainTypeOK /\ IdsOfThisRun
  BY <1>1, <1>2 DEF MainTypeOK, IdsOfThisRun, PcOf, ChefPc, DelivererPc, Alive
<1>4. AtHome /\ AtWork /\ LockIsTaken /\ OneInMemory
  BY <1>1 DEF AtHome, AtWork, LockIsTaken, OneInMemory, PcOf
<1> QED
  BY <1>1, <1>3, <1>4 DEF Opened

LEMMA OpenedStep == Opened /\ [CrashNext]_allVars => Opened'
<1> SUFFICES ASSUME Opened, [CrashNext]_allVars
             PROVE  Opened'
  OBVIOUS
<1>1. ASSUME NEW w \in Workers, Worker(w) PROVE Opened'
  BY <1>1, OpenedWorks, OpenedLoads, OpenedWorkerEnds DEF Worker
<1>2. CASE Main
  BY <1>2, OpenedSemaphores, OpenedMemory, OpenedEmploys, OpenedWaits, OpenedExit, OpenedRemoveNothing,
     OpenedRemoveSet, OpenedRemoveSegment, OpenedInterrupted DEF Main, ExitHandler
<1>3. CASE CtrlC \/ InterruptMain \/ UNCHANGED allVars
  <2>1. UNCHANGED <<pc, sem, main, sem_id, shm_id, set, segment, life, cut_short>>
    BY <1>3 DEF CtrlC, InterruptMain, allVars, mainVars, vars, memoryVars, idVars, ipcVars, exitVars
  <2> QED
    BY <2>1 DEF Opened, MainTypeOK, IdsOfThisRun, AtHome, AtWork, IsOpen, LockIsTaken, OneInMemory, InMemory
<1> QED
  BY <1>1, <1>2, <1>3, OpenedStarts, OpenedKilled DEF CrashNext, MainNext, Idle

(* Whoever dies where, SIGKILL included, and however often main starts:     *)
(* at most one worker at work is between taking MEMORY_LOCK and giving it   *)
(* back, until a SIGINT ends an exit_handler that has not removed both      *)
(* objects, and again once a later one has.                                 *)
THEOREM OneInMemoryAlways == CrashSpec => []OneInMemory
<1>1. Opened => OneInMemory
  BY DEF Opened
<1> QED
  BY <1>1, MainBegins, OpenedStep, PTL DEF CrashSpec

(* Without SIGKILL no segment is found that a former main has left, except  *)
(* by an exit_handler that was cut short.                                   *)
LEMMA NothingLeftBehindStep == Opened /\ NothingLeftBehind /\ [MainNext]_allVars => NothingLeftBehind'
<1> SUFFICES ASSUME Opened, NothingLeftBehind, [MainNext]_allVars, segment', ~cut_short'
             PROVE  IsOpen' \/ main' = "removing"
  BY DEF NothingLeftBehind
<1>1. CASE Start
  BY <1>1 DEF Start, ipcVars, exitVars, NothingLeftBehind, IsOpen
<1>2. CASE OpenSemaphoreSet
  BY <1>2 DEF OpenSemaphoreSet, exitVars, NothingLeftBehind, IsOpen
<1>3. CASE OpenMemory
  BY <1>3 DEF OpenMemory, exitVars, NothingLeftBehind, IsOpen, Opened, IdsOfThisRun
<1>4. ASSUME NEW w \in Workers, Employ(w) PROVE IsOpen'
  BY <1>4 DEF Employ, idVars, ipcVars, exitVars, NothingLeftBehind, IsOpen
<1>5. CASE WaitUntilPizzeriaCloses
  BY <1>5 DEF WaitUntilPizzeriaCloses, idVars, ipcVars, exitVars, NothingLeftBehind, IsOpen
<1>6. CASE ExitHandler
  BY <1>6 DEF ExitHandler, Exit, RemoveNothing, RemoveSet, RemoveSegment, Interrupted, RemoveMemory, Ends,
     idVars, ipcVars, NothingLeftBehind, IsOpen
<1>7. CASE (\E w \in Workers : Worker(w)) \/ CtrlC \/ InterruptMain \/ UNCHANGED allVars
  <2>1. UNCHANGED <<main, sem_id, shm_id, segment, cut_short>>
    BY <1>7 DEF Worker, Works, LoadPizzeriaData, WorkerEnds, CtrlC, InterruptMain, allVars, mainVars,
                idVars, ipcVars, exitVars
  <2> QED
    BY <2>1 DEF NothingLeftBehind, IsOpen
<1> QED
  BY <1>1, <1>2, <1>3, <1>4, <1>5, <1>6, <1>7 DEF MainNext, Main, Idle

(* clear_pizzeria, which does not touch the counters, leaves a pizzeria     *)
(* whose counters agree with its empty slots, however the runs before       *)
(* ended, except by SIGKILL or by a SIGINT during exit_handler after which  *)
(* no main has removed the segment.                                         *)
THEOREM AlwaysOpensClean == MainSpec => OpensClean
<1> DEFINE Clean == main = "memory" /\ main' = "employ" /\ ~cut_short
                      => no_oven_pizzas' = 0 /\ no_table_pizzas' = 0
<1>1. NothingLeftBehind /\ [MainNext]_allVars => Clean
  <2> SUFFICES ASSUME NothingLeftBehind, [MainNext]_allVars, main = "memory", main' = "employ", ~cut_short
               PROVE  no_oven_pizzas' = 0 /\ no_table_pizzas' = 0
    OBVIOUS
  <2>1. OpenMemory
    BY DEF MainNext, Main, Worker, Works, LoadPizzeriaData, WorkerEnds, Start, OpenSemaphoreSet, Employ,
           WaitUntilPizzeriaCloses, ExitHandler, Exit, RemoveNothing, RemoveSet, RemoveSegment, Interrupted,
           Ends, CtrlC, InterruptMain, Idle, allVars, mainVars
  <2>2. ~segment
    BY DEF NothingLeftBehind, IsOpen
  <2> QED
    BY <2>1, <2>2 DEF OpenMemory, ClearPizzeria
<1>2. [MainNext]_allVars => [CrashNext]_allVars
  BY DEF CrashNext
<1>3. ~segment => NothingLeftBehind
  BY DEF NothingLeftBehind
<1> QED
  BY <1>1, <1>2, <1>3, MainBegins, OpenedStep, NothingLeftBehindStep, PTL DEF MainSpec, OpensClean

=============================================================================
