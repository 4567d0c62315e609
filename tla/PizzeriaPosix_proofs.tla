------------------------ MODULE PizzeriaPosix_proofs ------------------------
(***************************************************************************)
(* Proofs about PizzeriaPosix for any number of chefs and deliverers, any   *)
(* capacities and any pizzas.                                               *)
(***************************************************************************)
EXTENDS PizzeriaPosix, CommonLemmas

-----------------------------------------------------------------------------
(* The inductive invariant.                                                 *)

ChefPc == ChefInMemory \cup {"prepare", "put_in_oven", "put_lock", "bake", "take_lock",
                             "post_oven", "post_waiting"}
DelivererPc == DelivererInMemory \cup {"wait", "get_lock", "post_table", "post_delivery", "travel"}
MemoryPc == ChefInMemory \cup DelivererInMemory
              \cup {"post_oven", "post_waiting", "post_table", "post_delivery"}

(* No worker is ever at "exited": no chef takes the branch that should      *)
(* never be taken.                                                          *)
TypeOK ==
  /\ no_oven_pizzas \in Int /\ no_table_pizzas \in Int
  /\ oven_slots \in [OvenSlots -> PizzaOrEmpty]
  /\ table_slots \in [TableSlots -> PizzaOrEmpty]
  /\ pizza_type \in [Workers -> PizzaOrEmpty]
  /\ oven_idx \in [Chefs -> OvenSlots]
  /\ table_idx \in [Workers -> TableSlots]
  /\ pc \in [Workers -> ChefPc \cup DelivererPc]
  /\ \A c \in Chefs : pc[c] \in ChefPc
  /\ \A d \in Deliverers : pc[d] \in DelivererPc
  /\ sem \in [SemIds -> Nat]

(* The workers by what they have waited for and not posted, posted and not  *)
(* done, done and not posted.                                               *)
PlaceInOven == {"put_lock", "find_oven_slot", "store_in_oven", "put_unlock", "bake",
                "take_lock", "post_oven"}
PizzaInOven == {"put_unlock", "bake", "take_lock", "post_oven", "post_waiting", "take_out"}
PlaceOnTable == {"take_lock", "post_oven", "post_waiting", "take_out", "find_table_slot",
                 "store_on_table"}
Announced == {"take_out", "find_table_slot", "store_on_table"}
Claimed == {"get_lock", "post_table", "post_delivery", "look_on_table", "take_from_table"}
PlaceGivenBack == {"post_delivery", "look_on_table", "take_from_table"}
InDelivery == {"look_on_table", "take_from_table", "get_unlock", "travel"}

Count(S) == Cardinality(At(S))

(* Every unit of every semaphore is accounted for.  As the semaphores are   *)
(* posted before the memory is changed, a counter and its semaphore differ  *)
(* by the workers between the two.                                          *)
Balance ==
  /\ sem["MEMORY_LOCK"] + Count(MemoryPc) = 1
  /\ sem["AVAILABLE_PLACES_IN_OVEN"] + Count(PlaceInOven) = OvenCapacity
  /\ no_oven_pizzas = Count(PizzaInOven)
  /\ sem["AVAILABLE_PLACES_ON_THE_TABLE"] + Count(PlaceOnTable)
       = TableCapacity - no_table_pizzas + Count(PlaceGivenBack)
  /\ sem["NO_WAITING_PIZZAS"] + Count(Claimed) = no_table_pizzas + Count(Announced)
  /\ sem["NO_PIZZAS_IN_DELIVERY"] = Count(InDelivery)

Hands ==
  /\ \A c \in Chefs : pc[c] # "prepare" => pizza_type[c] \in PizzaTypes
  /\ \A d \in Deliverers : IF pc[d] \in {"get_unlock", "travel"}
                            THEN pizza_type[d] \in PizzaTypes ELSE pizza_type[d] = Empty

(* The taken slots of the oven and the chefs whose pizza is in it are       *)
(* paired.                                                                  *)
OvenOwners ==
  /\ \A c \in Chefs : pc[c] \in PizzaInOven => oven_slots[oven_idx[c]] = pizza_type[c]
  /\ \A b, c \in Chefs : pc[b] \in PizzaInOven /\ pc[c] \in PizzaInOven
                           /\ oven_idx[b] = oven_idx[c] => b = c
  /\ \A i \in OvenSlots : oven_slots[i] # Empty
       => \E c \in Chefs : pc[c] \in PizzaInOven /\ oven_idx[c] = i
  /\ \A c \in Chefs : pc[c] \in {"store_in_oven", "find_table_slot", "store_on_table"}
       => oven_slots[oven_idx[c]] = Empty

TableOwners ==
  /\ no_table_pizzas = Cardinality(Occupied(table_slots))
  /\ \A c \in Chefs : pc[c] = "store_on_table" => table_slots[table_idx[c]] = Empty
  /\ \A d \in Deliverers : pc[d] = "take_from_table" => table_slots[table_idx[d]] # Empty

IInv == TypeOK /\ Balance /\ Hands /\ OvenOwners /\ TableOwners

-----------------------------------------------------------------------------
(* Counting workers.                                                        *)

(* The workers at some places are finitely many. *)
LEMMA CountIsNat ==
  ASSUME NEW S
  PROVE  IsFiniteSet(At(S)) /\ Count(S) \in Nat
BY WorkersAreFinite, FS_Union, FS_Subset, FS_CardinalityType DEF At, Count, Workers

(* A worker that is there is counted. *)
LEMMA CountsHere ==
  ASSUME NEW S, NEW w \in Workers, pc[w] \in S
  PROVE  Count(S) >= 1
<1>1. At(S) # {}
  BY DEF At
<1>2. Count(S) # 0
  BY <1>1, CountIsNat, FS_EmptySet DEF Count
<1> QED
  BY <1>2, CountIsNat

(* Nobody is counted where nobody is. *)
LEMMA CountsNobody ==
  ASSUME NEW S, \A w \in Workers : pc[w] \notin S
  PROVE  Count(S) = 0
<1>1. At(S) = {}
  BY DEF At
<1> QED
  BY <1>1, FS_EmptySet DEF Count

(* One worker moves from one place in its code to another. *)
LEMMA CountMoves ==
  ASSUME NEW S, NEW w \in Workers, NEW to, DOMAIN pc = Workers, pc' = [pc EXCEPT ![w] = to]
  PROVE  /\ Count(S) \in Nat /\ Count(S)' \in Nat
         /\ Count(S)' = Count(S) + (IF to \in S THEN 1 ELSE 0)
                                 - (IF pc[w] \in S THEN 1 ELSE 0)
<1>1. At(S)' = {v \in Workers : pc'[v] \in S}
  BY DEF At
<1>2. At(S)' \ {w} = At(S) \ {w}
  BY <1>1 DEF At
<1>3. IsFiniteSet(At(S))
  BY CountIsNat
<1>4. /\ w \in At(S)' <=> to \in S
      /\ w \in At(S) <=> pc[w] \in S
  BY <1>1 DEF At
<1> DEFINE Now == At(S)
           Next1 == At(S)'
<1>5. /\ Cardinality(Next1) \in Nat /\ Cardinality(Now) \in Nat
      /\ Cardinality(Next1) = Cardinality(Now) + (IF w \in Next1 THEN 1 ELSE 0)
                                               - (IF w \in Now THEN 1 ELSE 0)
  <2> HIDE DEF Now, Next1
  <2>1. IsFiniteSet(Now) /\ Next1 \ {w} = Now \ {w}
    BY <1>2, <1>3 DEF Now, Next1
  <2> QED
    BY <2>1, CountStep
<1> QED
  BY <1>4, <1>5 DEF Count

(* With two workers somewhere the count is at least two. *)
LEMMA CountsBoth ==
  ASSUME NEW S, NEW v \in Workers, NEW w \in Workers, v # w, pc[v] \in S, pc[w] \in S
  PROVE  Count(S) >= 2
<1>1. {v, w} \subseteq At(S)
  BY DEF At
<1>2. IsFiniteSet({v, w}) /\ Cardinality({v, w}) = 2
  <2>1. IsFiniteSet({w}) /\ Cardinality({w}) = 1
    BY FS_Singleton
  <2>2. v \notin {w} /\ {v, w} = {w} \cup {v}
    OBVIOUS
  <2>3. IsFiniteSet({w} \cup {v}) /\ Cardinality({w} \cup {v}) = 1 + 1
    <3> DEFINE one == {w}
    <3>1. IsFiniteSet(one) /\ Cardinality(one) = 1 /\ v \notin one
      BY <2>1, <2>2
    <3> HIDE DEF one
    <3>2. IsFiniteSet(one \cup {v}) /\ Cardinality(one \cup {v}) = Cardinality(one) + 1
      BY <3>1, FS_AddElement
    <3> QED
      BY <3>1, <3>2 DEF one
  <2> QED
    BY <2>2, <2>3
<1> QED
  BY <1>1, <1>2, CountIsNat, FS_Subset DEF Count

-----------------------------------------------------------------------------
(* What the counts say.                                                     *)

(* MEMORY_LOCK lets one worker at a time into the memory. *)
LEMMA OneInMemory ==
  ASSUME TypeOK, Balance
  PROVE  \A v, w \in Workers : pc[v] \in MemoryPc /\ pc[w] \in MemoryPc => v = w
<1> SUFFICES ASSUME NEW v \in Workers, NEW w \in Workers,
                    pc[v] \in MemoryPc, pc[w] \in MemoryPc, v # w
             PROVE  FALSE
  OBVIOUS
<1>1. Count(MemoryPc) >= 2
  BY CountsBoth
<1>2. sem["MEMORY_LOCK"] \in Nat /\ sem["MEMORY_LOCK"] + Count(MemoryPc) = 1
  BY DEF TypeOK, SemIds, Balance
<1> QED
  BY <1>1, <1>2, CountIsNat

(* A chef that looks for a slot in the oven finds one: the pizzas in the    *)
(* oven belong to other chefs, who hold other places.                       *)
LEMMA OvenHasRoom ==
  ASSUME IInv, NEW c \in Chefs, pc[c] = "find_oven_slot"
  PROVE  no_oven_pizzas # OvenCapacity /\ \E i \in OvenSlots : oven_slots[i] = Empty
<1> DEFINE full == At(PizzaInOven)
           held == At(PlaceInOven)
<1>1. c \in Workers /\ pc[c] \in MemoryPc /\ c \in held /\ TypeOK /\ Balance /\ OvenOwners
  BY DEF IInv, Workers, MemoryPc, ChefInMemory, PlaceInOven, At
<1>2. \A w \in Workers : pc[w] \notin {"post_waiting", "take_out"}
  BY <1>1, OneInMemory DEF MemoryPc, ChefInMemory
<1>3. full \subseteq held \ {c}
  BY <1>2 DEF At, PizzaInOven, PlaceInOven
<1>4. IsFiniteSet(full) /\ IsFiniteSet(held) /\ Cardinality(full) \in Nat /\ Cardinality(held) \in Nat
  BY CountIsNat DEF Count
<1>5. IsFiniteSet(held \ {c}) /\ Cardinality(held \ {c}) = Cardinality(held) - 1
  BY <1>1, <1>4, FS_RemoveElement
<1>6. Cardinality(full) =< Cardinality(held) - 1
  BY <1>3, <1>5, FS_Subset
<1>7. /\ sem["AVAILABLE_PLACES_IN_OVEN"] \in Nat /\ no_oven_pizzas = Cardinality(full)
      /\ sem["AVAILABLE_PLACES_IN_OVEN"] + Cardinality(held) = OvenCapacity
  BY <1>1 DEF TypeOK, SemIds, Balance, Count
<1>8. Cardinality(full) < OvenCapacity
  BY <1>4, <1>6, <1>7, Capacities
<1>9. ASSUME \A i \in OvenSlots : oven_slots[i] # Empty
      PROVE  FALSE
  <2>1. \A w \in full : w \in Chefs /\ oven_idx[w] \in OvenSlots
    BY <1>1, WorkersAreDistinct DEF At, TypeOK, Workers, PizzaInOven, DelivererPc, DelivererInMemory
  <2>2. \A i \in OvenSlots : \E w \in full : oven_idx[w] = i
    BY <1>1, <1>9 DEF OvenOwners, At, Workers
  <2>3. [w \in full |-> oven_idx[w]] \in Surjection(full, OvenSlots)
    BY <2>1, <2>2 DEF Surjection
  <2>4. Cardinality(OvenSlots) =< Cardinality(full)
    BY <1>4, <2>3, FS_Surjection
  <2>5. Cardinality(OvenSlots) = OvenCapacity
    BY FS_Interval, Capacities DEF OvenSlots
  <2> QED
    BY <1>4, <1>8, <2>4, <2>5, Capacities
<1> QED
  BY <1>4, <1>7, <1>8, <1>9, Capacities

(* The taken slots of the table are finitely many, and all of them only if  *)
(* they are as many as the table has.                                       *)
LEMMA TableOccupied ==
  ASSUME TypeOK
  PROVE  /\ Occupied(table_slots) = {i \in TableSlots : table_slots[i] # Empty}
         /\ IsFiniteSet(Occupied(table_slots)) /\ Cardinality(Occupied(table_slots)) \in Nat
         /\ Cardinality(Occupied(table_slots)) < TableCapacity
              => \E i \in TableSlots : table_slots[i] = Empty
<1>1. Occupied(table_slots) = {i \in TableSlots : table_slots[i] # Empty}
  BY DEF TypeOK, Occupied
<1>2. IsFiniteSet(TableSlots) /\ Cardinality(TableSlots) = TableCapacity
  BY FS_Interval, Capacities DEF TableSlots
<1>3. IsFiniteSet(Occupied(table_slots)) /\ Cardinality(Occupied(table_slots)) \in Nat
  BY <1>1, <1>2, FS_Subset, FS_CardinalityType
<1>4. Cardinality(Occupied(table_slots)) < TableCapacity => Occupied(table_slots) # TableSlots
  BY <1>2, <1>3, Capacities
<1> QED
  BY <1>1, <1>3, <1>4

(* A chef that looks for a slot on the table finds one. *)
LEMMA TableHasRoom ==
  ASSUME IInv, NEW c \in Chefs, pc[c] = "find_table_slot"
  PROVE  no_table_pizzas # TableCapacity /\ \E i \in TableSlots : table_slots[i] = Empty
<1>1. c \in Workers /\ pc[c] \in MemoryPc /\ pc[c] \in PlaceOnTable /\ TypeOK /\ Balance
  BY DEF IInv, Workers, MemoryPc, ChefInMemory, PlaceOnTable
<1>2. \A w \in Workers : pc[w] \notin PlaceGivenBack
  BY <1>1, OneInMemory DEF MemoryPc, DelivererInMemory, PlaceGivenBack
<1>3. Count(PlaceGivenBack) = 0 /\ Count(PlaceOnTable) >= 1 /\ Count(PlaceOnTable) \in Nat
  BY <1>1, <1>2, CountsNobody, CountsHere, CountIsNat
<1>4. /\ sem["AVAILABLE_PLACES_ON_THE_TABLE"] \in Nat /\ no_table_pizzas \in Int
      /\ sem["AVAILABLE_PLACES_ON_THE_TABLE"] + Count(PlaceOnTable)
           = TableCapacity - no_table_pizzas + Count(PlaceGivenBack)
  BY <1>1 DEF TypeOK, SemIds, Balance
<1>5. no_table_pizzas < TableCapacity
  BY <1>3, <1>4, Capacities
<1> QED
  BY <1>1, <1>4, <1>5, TableOccupied, Capacities DEF IInv, TableOwners

(* A deliverer that looks for a pizza on the table finds one. *)
LEMMA TableHasPizza ==
  ASSUME IInv, NEW d \in Deliverers, pc[d] = "look_on_table"
  PROVE  \E i \in TableSlots : table_slots[i] # Empty
<1>1. d \in Workers /\ pc[d] \in MemoryPc /\ pc[d] \in Claimed /\ TypeOK /\ Balance
  BY DEF IInv, Workers, MemoryPc, DelivererInMemory, Claimed
<1>2. \A w \in Workers : pc[w] \notin Announced
  BY <1>1, OneInMemory DEF MemoryPc, ChefInMemory, Announced
<1>3. Count(Announced) = 0 /\ Count(Claimed) >= 1 /\ Count(Claimed) \in Nat
  BY <1>1, <1>2, CountsNobody, CountsHere, CountIsNat
<1>4. /\ sem["NO_WAITING_PIZZAS"] \in Nat /\ no_table_pizzas \in Int
      /\ sem["NO_WAITING_PIZZAS"] + Count(Claimed) = no_table_pizzas + Count(Announced)
  BY <1>1 DEF TypeOK, SemIds, Balance
<1>5. no_table_pizzas # 0
  BY <1>3, <1>4
<1>6. Occupied(table_slots) # {}
  BY <1>5, FS_EmptySet DEF IInv, TableOwners
<1> QED
  BY <1>1, <1>6, TableOccupied

-----------------------------------------------------------------------------
(* The steps, with the branches that are never taken left out.              *)

(* find_empty_slot returns an empty slot if there is one. *)
LEMMA FindEmptySlotFinds ==
  ASSUME NEW arr, DOMAIN arr \subseteq Nat, \E i \in DOMAIN arr : arr[i] = Empty
  PROVE  FindEmptySlot(arr) \in DOMAIN arr /\ arr[FindEmptySlot(arr)] = Empty
<1> DEFINE free == {i \in DOMAIN arr : arr[i] = Empty}
<1>1. free \in SUBSET Nat /\ free # {}
  OBVIOUS
<1>2. Min(free) \in free
  BY <1>1, MinIsElement
<1> QED
  BY <1>1, <1>2 DEF FindEmptySlot

(* The loop over the table stops at a pizza if there is one. *)
LEMMA FindPizzaFinds ==
  ASSUME NEW arr, DOMAIN arr \subseteq Nat, \E i \in DOMAIN arr : arr[i] # Empty
  PROVE  FindPizza(arr) \in DOMAIN arr /\ arr[FindPizza(arr)] # Empty
<1> DEFINE taken == {i \in DOMAIN arr : arr[i] # Empty}
<1>1. taken \in SUBSET Nat /\ taken # {}
  OBVIOUS
<1>2. Min(taken) \in taken
  BY <1>1, MinIsElement
<1> QED
  BY <1>1, <1>2 DEF FindPizza

(* sem_wait or sem_post by w on its way from one place to the next. *)
Waits(w, from, s, to) ==
  Goto(w, from, to) /\ sem[s] > 0 /\ sem' = [sem EXCEPT ![s] = @ - 1]
Posts(w, from, s, to) ==
  Goto(w, from, to) /\ sem' = [sem EXCEPT ![s] = @ + 1]

ChefWaitsOrPosts(c) ==
  /\ \/ Waits(c, "put_in_oven", "AVAILABLE_PLACES_IN_OVEN", "put_lock")
     \/ Waits(c, "put_lock", "MEMORY_LOCK", "find_oven_slot")
     \/ Posts(c, "put_unlock", "MEMORY_LOCK", "bake")
     \/ Waits(c, "bake", "AVAILABLE_PLACES_ON_THE_TABLE", "take_lock")
     \/ Waits(c, "take_lock", "MEMORY_LOCK", "post_oven")
     \/ Posts(c, "post_oven", "AVAILABLE_PLACES_IN_OVEN", "post_waiting")
     \/ Posts(c, "post_waiting", "NO_WAITING_PIZZAS", "take_out")
     \/ Posts(c, "take_unlock", "MEMORY_LOCK", "prepare")
  /\ UNCHANGED <<ovenVars, tableVars, pizza_type, oven_idx, table_idx>>

DelivererWaitsOrPosts(d) ==
  /\ \/ Waits(d, "wait", "NO_WAITING_PIZZAS", "get_lock")
     \/ Waits(d, "get_lock", "MEMORY_LOCK", "post_table")
     \/ Posts(d, "post_table", "AVAILABLE_PLACES_ON_THE_TABLE", "post_delivery")
     \/ Posts(d, "post_delivery", "NO_PIZZAS_IN_DELIVERY", "look_on_table")
     \/ Posts(d, "get_unlock", "MEMORY_LOCK", "travel")
  /\ UNCHANGED <<ovenVars, tableVars, pizza_type, oven_idx, table_idx>>

ChoosesOvenSlot(c) ==
  \E i \in OvenSlots :
    /\ oven_slots[i] = Empty
    /\ Goto(c, "find_oven_slot", "store_in_oven") /\ oven_idx' = [oven_idx EXCEPT ![c] = i]
    /\ UNCHANGED <<ovenVars, tableVars, pizza_type, table_idx, sem>>

ChoosesTableSlot(c) ==
  \E i \in TableSlots :
    /\ table_slots[i] = Empty
    /\ Goto(c, "find_table_slot", "store_on_table") /\ table_idx' = [table_idx EXCEPT ![c] = i]
    /\ UNCHANGED <<ovenVars, tableVars, pizza_type, oven_idx, sem>>

ChoosesPizza(d) ==
  \E i \in TableSlots :
    /\ table_slots[i] # Empty
    /\ Goto(d, "look_on_table", "take_from_table") /\ table_idx' = [table_idx EXCEPT ![d] = i]
    /\ UNCHANGED <<ovenVars, tableVars, pizza_type, oven_idx, sem>>

(* A step of a chef, which is let through to slots that exist. *)
LEMMA ChefCases ==
  ASSUME IInv, NEW c \in Chefs, Chef(c)
  PROVE  \/ PreparePizza(c) /\ UNCHANGED sem
         \/ ChefWaitsOrPosts(c)
         \/ ChoosesOvenSlot(c)
         \/ StoreInOven(c) /\ UNCHANGED sem
         \/ TakeOutOfOven(c) /\ UNCHANGED sem
         \/ ChoosesTableSlot(c)
         \/ StoreOnTable(c) /\ UNCHANGED sem
<1>1. CASE FindOvenSlot(c) /\ UNCHANGED sem
  <2>1. no_oven_pizzas # OvenCapacity /\ \E i \in OvenSlots : oven_slots[i] = Empty
    BY <1>1, OvenHasRoom DEF FindOvenSlot, Goto
  <2>2. DOMAIN oven_slots = OvenSlots /\ OvenSlots \subseteq Nat
    BY Capacities DEF IInv, TypeOK, OvenSlots
  <2>3. FindEmptySlot(oven_slots) \in OvenSlots /\ oven_slots[FindEmptySlot(oven_slots)] = Empty
    BY <2>1, <2>2, FindEmptySlotFinds
  <2> QED
    BY <1>1, <2>1, <2>3 DEF FindOvenSlot, ChoosesOvenSlot
<1>2. CASE FindTableSlot(c) /\ UNCHANGED sem
  <2>1. no_table_pizzas # TableCapacity /\ \E i \in TableSlots : table_slots[i] = Empty
    BY <1>2, TableHasRoom DEF FindTableSlot, Goto
  <2>2. DOMAIN table_slots = TableSlots /\ TableSlots \subseteq Nat
    BY Capacities DEF IInv, TypeOK, TableSlots
  <2>3. FindEmptySlot(table_slots) \in TableSlots /\ table_slots[FindEmptySlot(table_slots)] = Empty
    BY <2>1, <2>2, FindEmptySlotFinds
  <2> QED
    BY <1>2, <2>1, <2>3 DEF FindTableSlot, ChoosesTableSlot
<1>3. CASE /\ Chef(c) /\ ~(FindOvenSlot(c) /\ UNCHANGED sem)
           /\ ~(FindTableSlot(c) /\ UNCHANGED sem)
  BY <1>3 DEF Chef, PutPizzaInOven, TakeOutAndPutOnTheTable, SemWait, SemPost,
              ChefWaitsOrPosts, Waits, Posts
<1> QED
  BY <1>1, <1>2, <1>3

(* A step of a deliverer, which finds a pizza on the table. *)
LEMMA DelivererCases ==
  ASSUME IInv, NEW d \in Deliverers, Deliverer(d)
  PROVE  \/ DelivererWaitsOrPosts(d)
         \/ ChoosesPizza(d)
         \/ TakeFromTable(d) /\ UNCHANGED sem
         \/ FinishDelivery(d)
<1>1. CASE LookOnTable(d) /\ UNCHANGED sem
  <2>1. \E i \in TableSlots : table_slots[i] # Empty
    BY <1>1, TableHasPizza DEF LookOnTable, Goto
  <2>2. DOMAIN table_slots = TableSlots /\ TableSlots \subseteq Nat /\ -1 \notin TableSlots
    BY Capacities DEF IInv, TypeOK, TableSlots
  <2>3. FindPizza(table_slots) \in TableSlots /\ table_slots[FindPizza(table_slots)] # Empty
    BY <2>1, <2>2, FindPizzaFinds
  <2> QED
    BY <1>1, <2>2, <2>3 DEF LookOnTable, ChoosesPizza
<1>2. CASE Deliverer(d) /\ ~(LookOnTable(d) /\ UNCHANGED sem)
  BY <1>2 DEF Deliverer, GetPizzaFromTheTable, SemWait, SemPost, DelivererWaitsOrPosts,
              Waits, Posts
<1> QED
  BY <1>1, <1>2

-----------------------------------------------------------------------------
(* Types and balance.                                                       *)

(* What a sem_wait or sem_post leaves of the types. *)
LEMMA SemTypes ==
  ASSUME TypeOK, NEW w, NEW from, NEW s \in SemIds, NEW to,
         Waits(w, from, s, to) \/ Posts(w, from, s, to)
  PROVE  sem' \in [SemIds -> Nat]
BY DEF TypeOK, Waits, Posts

(* Every step keeps the types. *)
LEMMA TypeStep == IInv /\ [Next]_vars => TypeOK'
<1> SUFFICES ASSUME IInv, [Next]_vars
             PROVE  TypeOK'
  OBVIOUS
<1>0. TypeOK /\ Hands /\ \A w \in Workers : w \in Chefs \/ w \in Deliverers
  BY DEF IInv, Workers
<1> USE DEF Goto, ovenVars, tableVars
<1>1. ASSUME NEW c \in Chefs, Chef(c)
      PROVE  TypeOK'
  <2>1. c \in Workers /\ c \notin Deliverers
    BY WorkersAreDistinct DEF Workers
  <2>2. CASE PreparePizza(c) /\ UNCHANGED sem
    BY <1>0, <2>1, <2>2 DEF PreparePizza, TypeOK, PizzaOrEmpty, ChefPc
  <2>3. CASE ChefWaitsOrPosts(c)
    <3>1. sem' \in [SemIds -> Nat]
      BY <1>0, <2>3, SemTypes DEF ChefWaitsOrPosts, SemIds
    <3>2. \E to \in ChefPc : pc' = [pc EXCEPT ![c] = to]
      BY <2>3 DEF ChefWaitsOrPosts, Waits, Posts, ChefPc, ChefInMemory
    <3> QED
      BY <1>0, <2>1, <2>3, <3>1, <3>2 DEF ChefWaitsOrPosts, TypeOK
  <2>4. CASE ChoosesOvenSlot(c)
    BY <1>0, <2>1, <2>4 DEF ChoosesOvenSlot, TypeOK, ChefPc, ChefInMemory
  <2>5. CASE StoreInOven(c) /\ UNCHANGED sem
    BY <1>0, <2>1, <2>5 DEF StoreInOven, TypeOK, ChefPc, ChefInMemory
  <2>6. CASE TakeOutOfOven(c) /\ UNCHANGED sem
    BY <1>0, <2>1, <2>6 DEF TakeOutOfOven, TypeOK, ChefPc, ChefInMemory, PizzaOrEmpty
  <2>7. CASE ChoosesTableSlot(c)
    BY <1>0, <2>1, <2>7 DEF ChoosesTableSlot, TypeOK, ChefPc, ChefInMemory
  <2>8. CASE StoreOnTable(c) /\ UNCHANGED sem
    BY <1>0, <2>1, <2>8 DEF StoreOnTable, TypeOK, ChefPc, ChefInMemory
  <2> QED
    BY <1>1, <2>2, <2>3, <2>4, <2>5, <2>6, <2>7, <2>8, ChefCases
<1>2. ASSUME NEW d \in Deliverers, Deliverer(d)
      PROVE  TypeOK'
  <2>1. d \in Workers /\ d \notin Chefs
    BY WorkersAreDistinct DEF Workers
  <2>2. CASE DelivererWaitsOrPosts(d)
    <3>1. sem' \in [SemIds -> Nat]
      BY <1>0, <2>2, SemTypes DEF DelivererWaitsOrPosts, SemIds
    <3>2. \E to \in DelivererPc : pc' = [pc EXCEPT ![d] = to]
      BY <2>2 DEF DelivererWaitsOrPosts, Waits, Posts, DelivererPc, DelivererInMemory
    <3> QED
      BY <1>0, <2>1, <2>2, <3>1, <3>2 DEF DelivererWaitsOrPosts, TypeOK
  <2>3. CASE ChoosesPizza(d)
    BY <1>0, <2>1, <2>3 DEF ChoosesPizza, TypeOK, DelivererPc, DelivererInMemory
  <2>4. CASE TakeFromTable(d) /\ UNCHANGED sem
    BY <1>0, <2>1, <2>4 DEF TakeFromTable, TypeOK, DelivererPc, DelivererInMemory, PizzaOrEmpty
  <2>5. CASE FinishDelivery(d)
    <3>1. sem' \in [SemIds -> Nat]
      BY <1>0, <2>5 DEF FinishDelivery, SemWait, SemIds, TypeOK
    <3> QED
      BY <1>0, <2>1, <2>5, <3>1 DEF FinishDelivery, SemWait, TypeOK, DelivererPc, PizzaOrEmpty
  <2> QED
    BY <1>2, <2>2, <2>3, <2>4, <2>5, DelivererCases
<1>3. CASE UNCHANGED vars
  BY <1>0, <1>3 DEF vars, memoryVars, TypeOK
<1> QED
  BY <1>1, <1>2, <1>3 DEF Next
(* How far a worker's move changes a count. *)
Change(S, from, to) == (IF to \in S THEN 1 ELSE 0) - (IF from \in S THEN 1 ELSE 0)

(* The counts of Balance after a worker's step. *)
LEMMA CountsAfter ==
  ASSUME TypeOK, NEW w \in Workers, NEW from, NEW to, Goto(w, from, to)
  PROVE  /\ Count(MemoryPc)' = Count(MemoryPc) + Change(MemoryPc, from, to)
         /\ Count(PlaceInOven)' = Count(PlaceInOven) + Change(PlaceInOven, from, to)
         /\ Count(PizzaInOven)' = Count(PizzaInOven) + Change(PizzaInOven, from, to)
         /\ Count(PlaceOnTable)' = Count(PlaceOnTable) + Change(PlaceOnTable, from, to)
         /\ Count(PlaceGivenBack)' = Count(PlaceGivenBack) + Change(PlaceGivenBack, from, to)
         /\ Count(Claimed)' = Count(Claimed) + Change(Claimed, from, to)
         /\ Count(Announced)' = Count(Announced) + Change(Announced, from, to)
         /\ Count(InDelivery)' = Count(InDelivery) + Change(InDelivery, from, to)
<1>1. DOMAIN pc = Workers /\ pc[w] = from /\ pc' = [pc EXCEPT ![w] = to]
  BY DEF TypeOK, Goto
<1>2. ASSUME NEW S
      PROVE  Count(S)' = Count(S) + Change(S, from, to)
  BY <1>1, CountMoves DEF Change
<1> QED
  BY <1>2

(* Every step keeps the balance of the semaphores. *)
LEMMA BalanceStep == IInv /\ [Next]_vars => Balance'
<1> SUFFICES ASSUME IInv, [Next]_vars
             PROVE  Balance'
  OBVIOUS
<1>0. /\ TypeOK /\ Balance /\ no_oven_pizzas \in Int /\ no_table_pizzas \in Int
      /\ sem \in [SemIds -> Nat] /\ OvenCapacity \in Int /\ TableCapacity \in Int
  BY Capacities DEF IInv, TypeOK
<1>counts. /\ Count(MemoryPc) \in Nat /\ Count(PlaceInOven) \in Nat /\ Count(PizzaInOven) \in Nat
      /\ Count(PlaceOnTable) \in Nat /\ Count(PlaceGivenBack) \in Nat
      /\ Count(Claimed) \in Nat /\ Count(Announced) \in Nat /\ Count(InDelivery) \in Nat
  BY CountIsNat
<1> USE DEF ovenVars, tableVars, Change, MemoryPc, PlaceInOven, PizzaInOven, PlaceOnTable,
            PlaceGivenBack, Claimed, Announced, InDelivery, ChefInMemory, DelivererInMemory
<1>1. ASSUME NEW c \in Chefs, Chef(c)
      PROVE  Balance'
  <2>1. c \in Workers
    BY DEF Workers
  <2>2. CASE ChefWaitsOrPosts(c)
    <3>1. CASE Waits(c, "put_in_oven", "AVAILABLE_PLACES_IN_OVEN", "put_lock")
      <4>1. Goto(c, "put_in_oven", "put_lock")
        BY <3>1 DEF Waits, ChefWaitsOrPosts
      <4> QED
        BY <1>0, <1>counts, <2>2, <3>1, <4>1, <2>1, CountsAfter DEF Waits, ChefWaitsOrPosts, Balance, SemIds
    <3>2. CASE Waits(c, "put_lock", "MEMORY_LOCK", "find_oven_slot")
      <4>1. Goto(c, "put_lock", "find_oven_slot")
        BY <3>2 DEF Waits, ChefWaitsOrPosts
      <4> QED
        BY <1>0, <1>counts, <2>2, <3>2, <4>1, <2>1, CountsAfter DEF Waits, ChefWaitsOrPosts, Balance, SemIds
    <3>3. CASE Posts(c, "put_unlock", "MEMORY_LOCK", "bake")
      <4>1. Goto(c, "put_unlock", "bake")
        BY <3>3 DEF Posts, ChefWaitsOrPosts
      <4> QED
        BY <1>0, <1>counts, <2>2, <3>3, <4>1, <2>1, CountsAfter DEF Posts, ChefWaitsOrPosts, Balance, SemIds
    <3>4. CASE Waits(c, "bake", "AVAILABLE_PLACES_ON_THE_TABLE", "take_lock")
      <4>1. Goto(c, "bake", "take_lock")
        BY <3>4 DEF Waits, ChefWaitsOrPosts
      <4> QED
        BY <1>0, <1>counts, <2>2, <3>4, <4>1, <2>1, CountsAfter DEF Waits, ChefWaitsOrPosts, Balance, SemIds
    <3>5. CASE Waits(c, "take_lock", "MEMORY_LOCK", "post_oven")
      <4>1. Goto(c, "take_lock", "post_oven")
        BY <3>5 DEF Waits, ChefWaitsOrPosts
      <4> QED
        BY <1>0, <1>counts, <2>2, <3>5, <4>1, <2>1, CountsAfter DEF Waits, ChefWaitsOrPosts, Balance, SemIds
    <3>6. CASE Posts(c, "post_oven", "AVAILABLE_PLACES_IN_OVEN", "post_waiting")
      <4>1. Goto(c, "post_oven", "post_waiting")
        BY <3>6 DEF Posts, ChefWaitsOrPosts
      <4> QED
        BY <1>0, <1>counts, <2>2, <3>6, <4>1, <2>1, CountsAfter DEF Posts, ChefWaitsOrPosts, Balance, SemIds
    <3>7. CASE Posts(c, "post_waiting", "NO_WAITING_PIZZAS", "take_out")
      <4>1. Goto(c, "post_waiting", "take_out")
        BY <3>7 DEF Posts, ChefWaitsOrPosts
      <4> QED
        BY <1>0, <1>counts, <2>2, <3>7, <4>1, <2>1, CountsAfter DEF Posts, ChefWaitsOrPosts, Balance, SemIds
    <3>8. CASE Posts(c, "take_unlock", "MEMORY_LOCK", "prepare")
      <4>1. Goto(c, "take_unlock", "prepare")
        BY <3>8 DEF Posts, ChefWaitsOrPosts
      <4> QED
        BY <1>0, <1>counts, <2>2, <3>8, <4>1, <2>1, CountsAfter DEF Posts, ChefWaitsOrPosts, Balance, SemIds
    <3> QED
      BY <2>2, <3>1, <3>2, <3>3, <3>4, <3>5, <3>6, <3>7, <3>8 DEF ChefWaitsOrPosts
  <2>3. CASE PreparePizza(c) /\ UNCHANGED sem
    <3>1. Goto(c, "prepare", "put_in_oven")
      BY <2>3 DEF PreparePizza
    <3> QED
      BY <1>0, <1>counts, <2>3, <3>1, <2>1, CountsAfter DEF PreparePizza, Balance, SemIds
  <2>4. CASE ChoosesOvenSlot(c)
    <3>1. Goto(c, "find_oven_slot", "store_in_oven")
      BY <2>4 DEF ChoosesOvenSlot
    <3> QED
      BY <1>0, <1>counts, <2>4, <3>1, <2>1, CountsAfter DEF ChoosesOvenSlot, Balance, SemIds
  <2>5. CASE StoreInOven(c) /\ UNCHANGED sem
    <3>1. Goto(c, "store_in_oven", "put_unlock")
      BY <2>5 DEF StoreInOven
    <3> QED
      BY <1>0, <1>counts, <2>5, <3>1, <2>1, CountsAfter DEF StoreInOven, Balance, SemIds
  <2>6. CASE TakeOutOfOven(c) /\ UNCHANGED sem
    <3>1. Goto(c, "take_out", "find_table_slot")
      BY <2>6 DEF TakeOutOfOven
    <3> QED
      BY <1>0, <1>counts, <2>6, <3>1, <2>1, CountsAfter DEF TakeOutOfOven, Balance, SemIds
  <2>7. CASE ChoosesTableSlot(c)
    <3>1. Goto(c, "find_table_slot", "store_on_table")
      BY <2>7 DEF ChoosesTableSlot
    <3>2. sem' = sem /\ no_oven_pizzas' = no_oven_pizzas /\ no_table_pizzas' = no_table_pizzas
      BY <2>7 DEF ChoosesTableSlot
    <3> QED
      BY <1>0, <1>counts, <3>1, <3>2, <2>1, CountsAfter DEF Balance, SemIds
  <2>8. CASE StoreOnTable(c) /\ UNCHANGED sem
    <3>1. Goto(c, "store_on_table", "take_unlock")
      BY <2>8 DEF StoreOnTable
    <3>2. sem' = sem /\ no_oven_pizzas' = no_oven_pizzas /\ no_table_pizzas' = no_table_pizzas + 1
      BY <2>8 DEF StoreOnTable
    <3> QED
      BY <1>0, <1>counts, <3>1, <3>2, <2>1, CountsAfter DEF Balance, SemIds
  <2> QED
    BY <1>1, <2>2, <2>3, <2>4, <2>5, <2>6, <2>7, <2>8, ChefCases
<1>2. ASSUME NEW d \in Deliverers, Deliverer(d)
      PROVE  Balance'
  <2>1. d \in Workers
    BY DEF Workers
  <2>2. CASE DelivererWaitsOrPosts(d)
    <3>1. CASE Waits(d, "wait", "NO_WAITING_PIZZAS", "get_lock")
      <4>1. Goto(d, "wait", "get_lock")
        BY <3>1 DEF Waits, DelivererWaitsOrPosts
      <4> QED
        BY <1>0, <1>counts, <2>2, <3>1, <4>1, <2>1, CountsAfter DEF Waits, DelivererWaitsOrPosts, Balance, SemIds
    <3>2. CASE Waits(d, "get_lock", "MEMORY_LOCK", "post_table")
      <4>1. Goto(d, "get_lock", "post_table")
        BY <3>2 DEF Waits, DelivererWaitsOrPosts
      <4> QED
        BY <1>0, <1>counts, <2>2, <3>2, <4>1, <2>1, CountsAfter DEF Waits, DelivererWaitsOrPosts, Balance, SemIds
    <3>3. CASE Posts(d, "post_table", "AVAILABLE_PLACES_ON_THE_TABLE", "post_delivery")
      <4>1. Goto(d, "post_table", "post_delivery")
        BY <3>3 DEF Posts, DelivererWaitsOrPosts
      <4> QED
        BY <1>0, <1>counts, <2>2, <3>3, <4>1, <2>1, CountsAfter DEF Posts, DelivererWaitsOrPosts, Balance, SemIds
    <3>4. CASE Posts(d, "post_delivery", "NO_PIZZAS_IN_DELIVERY", "look_on_table")
      <4>1. Goto(d, "post_delivery", "look_on_table")
        BY <3>4 DEF Posts, DelivererWaitsOrPosts
      <4> QED
        BY <1>0, <1>counts, <2>2, <3>4, <4>1, <2>1, CountsAfter DEF Posts, DelivererWaitsOrPosts, Balance, SemIds
    <3>5. CASE Posts(d, "get_unlock", "MEMORY_LOCK", "travel")
      <4>1. Goto(d, "get_unlock", "travel")
        BY <3>5 DEF Posts, DelivererWaitsOrPosts
      <4> QED
        BY <1>0, <1>counts, <2>2, <3>5, <4>1, <2>1, CountsAfter DEF Posts, DelivererWaitsOrPosts, Balance, SemIds
    <3> QED
      BY <2>2, <3>1, <3>2, <3>3, <3>4, <3>5 DEF DelivererWaitsOrPosts
  <2>3. CASE ChoosesPizza(d)
    <3>1. Goto(d, "look_on_table", "take_from_table")
      BY <2>3 DEF ChoosesPizza
    <3> QED
      BY <1>0, <1>counts, <2>3, <3>1, <2>1, CountsAfter DEF ChoosesPizza, Balance, SemIds
  <2>4. CASE TakeFromTable(d) /\ UNCHANGED sem
    <3>1. Goto(d, "take_from_table", "get_unlock")
      BY <2>4 DEF TakeFromTable
    <3> QED
      BY <1>0, <1>counts, <2>4, <3>1, <2>1, CountsAfter DEF TakeFromTable, Balance, SemIds
  <2>5. CASE FinishDelivery(d)
    <3>1. Goto(d, "travel", "wait")
      BY <2>5 DEF FinishDelivery, SemWait
    <3> QED
      BY <1>0, <1>counts, <2>5, <3>1, <2>1, CountsAfter DEF FinishDelivery, SemWait, Balance, SemIds
  <2> QED
    BY <1>2, <2>2, <2>3, <2>4, <2>5, DelivererCases
<1>3. CASE UNCHANGED vars
  BY <1>0, <1>3 DEF vars, memoryVars, Balance, Count, At
<1> QED
  BY <1>1, <1>2, <1>3 DEF Next
-----------------------------------------------------------------------------
(* Hands and slots.                                                         *)

(* Every step keeps what is in whose hands. *)
LEMMA HandsStep == IInv /\ [Next]_vars => Hands'
<1> SUFFICES ASSUME IInv, [Next]_vars
             PROVE  Hands'
  OBVIOUS
<1>0. /\ Hands /\ OvenOwners /\ TableOwners /\ DOMAIN pc = Workers
      /\ pizza_type \in [Workers -> PizzaOrEmpty] /\ table_slots \in [TableSlots -> PizzaOrEmpty]
      /\ table_idx \in [Workers -> TableSlots]
      /\ Chefs \subseteq Workers /\ Deliverers \subseteq Workers /\ Chefs \cap Deliverers = {}
  BY WorkersAreDistinct DEF IInv, TypeOK, Workers
<1> USE DEF Goto, Hands
<1>1. ASSUME NEW c \in Chefs, Chef(c)
      PROVE  Hands'
  <2>1. CASE PreparePizza(c) /\ UNCHANGED sem
    BY <1>0, <2>1 DEF PreparePizza
  <2>2. CASE ChefWaitsOrPosts(c)
    BY <1>0, <2>2 DEF ChefWaitsOrPosts, Waits, Posts
  <2>3. CASE ChoosesOvenSlot(c)
    BY <1>0, <2>3 DEF ChoosesOvenSlot
  <2>4. CASE StoreInOven(c) /\ UNCHANGED sem
    BY <1>0, <2>4 DEF StoreInOven
  <2>5. CASE TakeOutOfOven(c) /\ UNCHANGED sem
    <3>1. oven_slots[oven_idx[c]] \in PizzaTypes
      BY <1>0, <2>5 DEF TakeOutOfOven, OvenOwners, PizzaInOven
    <3> QED
      BY <1>0, <2>5, <3>1 DEF TakeOutOfOven
  <2>6. CASE ChoosesTableSlot(c)
    BY <1>0, <2>6 DEF ChoosesTableSlot
  <2>7. CASE StoreOnTable(c) /\ UNCHANGED sem
    BY <1>0, <2>7 DEF StoreOnTable
  <2> QED
    BY <1>1, <2>1, <2>2, <2>3, <2>4, <2>5, <2>6, <2>7, ChefCases
<1>2. ASSUME NEW d \in Deliverers, Deliverer(d)
      PROVE  Hands'
  <2>1. CASE DelivererWaitsOrPosts(d)
    BY <1>0, <2>1 DEF DelivererWaitsOrPosts, Waits, Posts
  <2>2. CASE ChoosesPizza(d)
    BY <1>0, <2>2 DEF ChoosesPizza
  <2>3. CASE TakeFromTable(d) /\ UNCHANGED sem
    <3>1. table_slots[table_idx[d]] \in PizzaTypes
      BY <1>0, <2>3 DEF TakeFromTable, TableOwners, PizzaOrEmpty
    <3> QED
      BY <1>0, <2>3, <3>1 DEF TakeFromTable
  <2>4. CASE FinishDelivery(d)
    BY <1>0, <2>4 DEF FinishDelivery, SemWait
  <2> QED
    BY <1>2, <2>1, <2>2, <2>3, <2>4, DelivererCases
<1>3. CASE UNCHANGED vars
  BY <1>0, <1>3 DEF vars, memoryVars
<1> QED
  BY <1>1, <1>2, <1>3 DEF Next

(* The places where a chef has an oven slot of its own that is empty. *)
HasEmptySlot == {"store_in_oven", "find_table_slot", "store_on_table"}

(* Steps that leave the oven alone. *)
LEMMA OvenFrame ==
  ASSUME OvenOwners, UNCHANGED <<oven_slots, oven_idx>>,
         \A c \in Chefs : /\ pc'[c] \in PizzaInOven <=> pc[c] \in PizzaInOven
                          /\ pc'[c] \in HasEmptySlot => pc[c] \in HasEmptySlot
                          /\ pc[c] \in PizzaInOven => pizza_type'[c] = pizza_type[c]
  PROVE  OvenOwners'
BY DEF OvenOwners, HasEmptySlot

(* Every step keeps the slots of the oven with their chefs. *)
LEMMA OvenOwnersStep == IInv /\ [Next]_vars => OvenOwners'
<1> SUFFICES ASSUME IInv, [Next]_vars
             PROVE  OvenOwners'
  OBVIOUS
<1>0. /\ OvenOwners /\ Hands /\ DOMAIN pc = Workers /\ DOMAIN pizza_type = Workers
      /\ oven_slots \in [OvenSlots -> PizzaOrEmpty] /\ oven_idx \in [Chefs -> OvenSlots]
      /\ Chefs \subseteq Workers /\ Deliverers \subseteq Workers /\ Chefs \cap Deliverers = {}
  BY WorkersAreDistinct DEF IInv, TypeOK, Workers
<1>one. \A b, c \in Chefs : pc[b] \in HasEmptySlot /\ pc[c] \in MemoryPc => b = c
  BY <1>0, OneInMemory DEF IInv, HasEmptySlot, MemoryPc, ChefInMemory
<1> USE DEF Goto, ovenVars, tableVars
<1>1. ASSUME NEW c \in Chefs, Chef(c)
      PROVE  OvenOwners'
  <2>1. CASE PreparePizza(c) /\ UNCHANGED sem
    BY <1>0, <2>1, OvenFrame DEF PreparePizza, PizzaInOven, HasEmptySlot
  <2>2. CASE ChefWaitsOrPosts(c)
    BY <1>0, <2>2, OvenFrame DEF ChefWaitsOrPosts, Waits, Posts, PizzaInOven, HasEmptySlot
  <2>3. CASE ChoosesOvenSlot(c)
    BY <1>0, <2>3 DEF ChoosesOvenSlot, OvenOwners, PizzaInOven
  <2>4. CASE StoreInOven(c) /\ UNCHANGED sem
    <3>1. /\ pc[c] = "store_in_oven" /\ pc' = [pc EXCEPT ![c] = "put_unlock"]
          /\ oven_slots' = [oven_slots EXCEPT ![oven_idx[c]] = pizza_type[c]]
          /\ UNCHANGED <<pizza_type, oven_idx>>
      BY <2>4 DEF StoreInOven
    <3>2. /\ oven_idx[c] \in OvenSlots /\ oven_slots[oven_idx[c]] = Empty
          /\ pizza_type[c] \in PizzaTypes
      BY <1>0, <3>1 DEF OvenOwners, Hands
    <3>3. \A b \in Chefs : pc[b] \in PizzaInOven => oven_idx[b] # oven_idx[c]
      BY <1>0, <3>2, EmptyIsNoPizza DEF Hands, OvenOwners, PizzaInOven
    <3>4. \A b \in Chefs \ {c} : pc[b] \notin HasEmptySlot
      BY <1>one, <3>1 DEF MemoryPc, ChefInMemory
    <3>5. \A b \in Chefs : pc'[b] \in PizzaInOven <=> b = c \/ pc[b] \in PizzaInOven
      BY <1>0, <3>1 DEF PizzaInOven
    <3>6. \A b \in Chefs : pc'[b] \notin HasEmptySlot
      BY <1>0, <3>1, <3>4 DEF HasEmptySlot
    <3> QED
      BY <1>0, <3>1, <3>2, <3>3, <3>5, <3>6 DEF OvenOwners, HasEmptySlot
  <2>5. CASE TakeOutOfOven(c) /\ UNCHANGED sem
    <3>1. /\ pc[c] = "take_out" /\ pc' = [pc EXCEPT ![c] = "find_table_slot"]
          /\ oven_slots' = [oven_slots EXCEPT ![oven_idx[c]] = Empty]
          /\ pizza_type' = [pizza_type EXCEPT ![c] = oven_slots[oven_idx[c]]]
          /\ UNCHANGED oven_idx
      BY <2>5 DEF TakeOutOfOven
    <3>2. oven_idx[c] \in OvenSlots /\ pc[c] \in PizzaInOven
      BY <1>0, <3>1 DEF PizzaInOven
    <3>3. \A b \in Chefs \ {c} : pc[b] \in PizzaInOven => oven_idx[b] # oven_idx[c]
      BY <1>0, <3>2 DEF OvenOwners
    <3>4. \A b \in Chefs \ {c} : pc[b] \notin HasEmptySlot
      BY <1>one, <3>1 DEF MemoryPc, ChefInMemory
    <3>5. \A b \in Chefs : pc'[b] \in PizzaInOven <=> b # c /\ pc[b] \in PizzaInOven
      BY <1>0, <3>1 DEF PizzaInOven
    <3>6. \A b \in Chefs : pc'[b] \in HasEmptySlot => b = c
      BY <1>0, <3>1, <3>4
    <3> QED
      BY <1>0, <3>1, <3>2, <3>3, <3>5, <3>6 DEF OvenOwners, HasEmptySlot
  <2>6. CASE ChoosesTableSlot(c)
    BY <1>0, <2>6, OvenFrame DEF ChoosesTableSlot, PizzaInOven, HasEmptySlot
  <2>7. CASE StoreOnTable(c) /\ UNCHANGED sem
    BY <1>0, <2>7, OvenFrame DEF StoreOnTable, PizzaInOven, HasEmptySlot
  <2> QED
    BY <1>1, <2>1, <2>2, <2>3, <2>4, <2>5, <2>6, <2>7, ChefCases
<1>2. ASSUME NEW d \in Deliverers, Deliverer(d)
      PROVE  OvenOwners'
  <2>1. /\ \A c \in Chefs : pc'[c] = pc[c] /\ pizza_type'[c] = pizza_type[c]
        /\ UNCHANGED <<oven_slots, oven_idx>>
    <3>1. CASE DelivererWaitsOrPosts(d)
      BY <1>0, <3>1 DEF DelivererWaitsOrPosts, Waits, Posts
    <3>2. CASE ChoosesPizza(d)
      BY <1>0, <3>2 DEF ChoosesPizza
    <3>3. CASE TakeFromTable(d) /\ UNCHANGED sem
      BY <1>0, <3>3 DEF TakeFromTable
    <3>4. CASE FinishDelivery(d)
      BY <1>0, <3>4 DEF FinishDelivery, SemWait
    <3> QED
      BY <1>2, <3>1, <3>2, <3>3, <3>4, DelivererCases
  <2> QED
    BY <1>0, <2>1, OvenFrame
<1>3. CASE UNCHANGED vars
  BY <1>0, <1>3, OvenFrame DEF vars, memoryVars
<1> QED
  BY <1>1, <1>2, <1>3 DEF Next

(* Steps that leave the table alone. *)
LEMMA TableFrame ==
  ASSUME TableOwners, UNCHANGED <<table_slots, no_table_pizzas>>,
         \A w \in Workers : pc'[w] \in {"store_on_table", "take_from_table"}
                              => pc'[w] = pc[w] /\ table_idx'[w] = table_idx[w]
  PROVE  TableOwners'
BY DEF TableOwners, Workers, Occupied

(* The number of taken slots when one is filled or emptied. *)
LEMMA OccupiedAfter ==
  ASSUME TypeOK, NEW i \in TableSlots, NEW t, table_slots' = [table_slots EXCEPT ![i] = t]
  PROVE  /\ table_slots[i] = Empty /\ t # Empty
              => Cardinality(Occupied(table_slots')) = Cardinality(Occupied(table_slots)) + 1
         /\ table_slots[i] # Empty /\ t = Empty
              => Cardinality(Occupied(table_slots')) = Cardinality(Occupied(table_slots)) - 1
<1> DEFINE now == Occupied(table_slots)
           then == Occupied(table_slots')
<1>1. now = {j \in TableSlots : table_slots[j] # Empty} /\ IsFiniteSet(now)
  BY TableOccupied
<1>2. then = {j \in TableSlots : table_slots'[j] # Empty}
  BY DEF TypeOK, Occupied
<1>3. /\ i \in now <=> table_slots[i] # Empty
      /\ i \in then <=> t # Empty
      /\ then \ {i} = now \ {i}
  BY <1>1, <1>2 DEF TypeOK
<1> HIDE DEF now, then
<1>4. /\ Cardinality(now) \in Nat /\ Cardinality(then) \in Nat
      /\ Cardinality(then) = Cardinality(now) + (IF i \in then THEN 1 ELSE 0)
                                              - (IF i \in now THEN 1 ELSE 0)
  BY <1>1, <1>3, CountStep
<1> QED
  BY <1>3, <1>4 DEF now, then

(* Every step keeps the chosen slots of the table, and its count. *)
LEMMA TableOwnersStep == IInv /\ [Next]_vars => TableOwners'
<1> SUFFICES ASSUME IInv, [Next]_vars
             PROVE  TableOwners'
  OBVIOUS
<1>0. /\ TypeOK /\ TableOwners /\ Hands /\ DOMAIN pc = Workers
      /\ table_slots \in [TableSlots -> PizzaOrEmpty] /\ table_idx \in [Workers -> TableSlots]
      /\ Chefs \subseteq Workers /\ Deliverers \subseteq Workers /\ Chefs \cap Deliverers = {}
  BY WorkersAreDistinct DEF IInv, TypeOK, Workers
<1> DEFINE AtSlot(v) == pc[v] \in {"store_on_table", "take_from_table"}
<1>one. \A v, w \in Workers : AtSlot(v) /\ AtSlot(w) => v = w
  BY OneInMemory DEF IInv, MemoryPc, ChefInMemory, DelivererInMemory
<1> USE DEF Goto, ovenVars, tableVars
<1>1. ASSUME NEW c \in Chefs, Chef(c)
      PROVE  TableOwners'
  <2>1. CASE PreparePizza(c) /\ UNCHANGED sem
    BY <1>0, <2>1, TableFrame DEF PreparePizza
  <2>2. CASE ChefWaitsOrPosts(c)
    BY <1>0, <2>2, TableFrame DEF ChefWaitsOrPosts, Waits, Posts
  <2>3. CASE ChoosesOvenSlot(c)
    BY <1>0, <2>3, TableFrame DEF ChoosesOvenSlot
  <2>4. CASE StoreInOven(c) /\ UNCHANGED sem
    BY <1>0, <2>4, TableFrame DEF StoreInOven
  <2>5. CASE TakeOutOfOven(c) /\ UNCHANGED sem
    BY <1>0, <2>5, TableFrame DEF TakeOutOfOven
  <2>6. CASE ChoosesTableSlot(c)
    BY <1>0, <2>6 DEF ChoosesTableSlot, TableOwners
  <2>7. CASE StoreOnTable(c) /\ UNCHANGED sem
    <3>1. /\ pc[c] = "store_on_table" /\ pc' = [pc EXCEPT ![c] = "take_unlock"]
          /\ table_slots' = [table_slots EXCEPT ![table_idx[c]] = pizza_type[c]]
          /\ no_table_pizzas' = no_table_pizzas + 1
      BY <2>7 DEF StoreOnTable
    <3>2. /\ table_idx[c] \in TableSlots /\ table_slots[table_idx[c]] = Empty
          /\ pizza_type[c] # Empty
      BY <1>0, <3>1, EmptyIsNoPizza DEF TableOwners, Hands
    <3>3. no_table_pizzas' = Cardinality(Occupied(table_slots'))
      BY <1>0, <3>1, <3>2, OccupiedAfter DEF TableOwners
    <3>4. \A w \in Workers : pc'[w] \notin {"store_on_table", "take_from_table"}
      BY <1>0, <1>one, <3>1
    <3> QED
      BY <1>0, <3>3, <3>4 DEF TableOwners, Occupied
  <2> QED
    BY <1>1, <2>1, <2>2, <2>3, <2>4, <2>5, <2>6, <2>7, ChefCases
<1>2. ASSUME NEW d \in Deliverers, Deliverer(d)
      PROVE  TableOwners'
  <2>1. CASE DelivererWaitsOrPosts(d)
    BY <1>0, <2>1, TableFrame DEF DelivererWaitsOrPosts, Waits, Posts
  <2>2. CASE ChoosesPizza(d)
    BY <1>0, <2>2 DEF ChoosesPizza, TableOwners
  <2>3. CASE TakeFromTable(d) /\ UNCHANGED sem
    <3>1. /\ pc[d] = "take_from_table" /\ pc' = [pc EXCEPT ![d] = "get_unlock"]
          /\ table_slots' = [table_slots EXCEPT ![table_idx[d]] = Empty]
          /\ no_table_pizzas' = no_table_pizzas - 1
      BY <2>3 DEF TakeFromTable
    <3>2. table_idx[d] \in TableSlots /\ table_slots[table_idx[d]] # Empty
      BY <1>0, <3>1 DEF TableOwners
    <3>3. no_table_pizzas' = Cardinality(Occupied(table_slots'))
      BY <1>0, <3>1, <3>2, OccupiedAfter DEF TableOwners
    <3>4. \A w \in Workers : pc'[w] \notin {"store_on_table", "take_from_table"}
      BY <1>0, <1>one, <3>1
    <3> QED
      BY <1>0, <3>3, <3>4 DEF TableOwners, Occupied
  <2>4. CASE FinishDelivery(d)
    BY <1>0, <2>4, TableFrame DEF FinishDelivery, SemWait
  <2> QED
    BY <1>2, <2>1, <2>2, <2>3, <2>4, DelivererCases
<1>3. CASE UNCHANGED vars
  BY <1>0, <1>3, TableFrame DEF vars, memoryVars
<1> QED
  BY <1>1, <1>2, <1>3 DEF Next
-----------------------------------------------------------------------------
(* The pizzeria opens with everything accounted for.                        *)
LEMMA InitIInv == Init => IInv
<1> SUFFICES ASSUME Init
             PROVE  IInv
  OBVIOUS
<1>1. 0 \in OvenSlots /\ 0 \in TableSlots
  BY Capacities DEF OvenSlots, TableSlots
<1>2. /\ sem \in [SemIds -> Nat]
      /\ sem["AVAILABLE_PLACES_IN_OVEN"] = OvenCapacity
      /\ sem["AVAILABLE_PLACES_ON_THE_TABLE"] = TableCapacity
      /\ sem["NO_WAITING_PIZZAS"] = 0 /\ sem["NO_PIZZAS_IN_DELIVERY"] = 0
      /\ sem["MEMORY_LOCK"] = 1
  BY Capacities DEF Init, OpenSemaphores, SemIds
<1>3. /\ \A c \in Chefs : pc[c] = "prepare" /\ pizza_type[c] = Empty
      /\ \A d \in Deliverers : pc[d] = "wait" /\ pizza_type[d] = Empty
      /\ no_oven_pizzas = 0 /\ no_table_pizzas = 0
  BY WorkersAreDistinct DEF Init, MemoryInit, Workers
<1>4. TypeOK
  BY <1>1, <1>2, WorkersAreDistinct
     DEF Init, MemoryInit, Workers, TypeOK, PizzaOrEmpty, ChefPc, DelivererPc
<1>5. Balance
  <2>1. \A w \in Workers : pc[w] \in {"prepare", "wait"}
    BY <1>3 DEF Workers
  <2>2. /\ Count(MemoryPc) = 0 /\ Count(PlaceInOven) = 0 /\ Count(PizzaInOven) = 0
        /\ Count(PlaceOnTable) = 0 /\ Count(PlaceGivenBack) = 0
        /\ Count(Claimed) = 0 /\ Count(Announced) = 0 /\ Count(InDelivery) = 0
    BY <2>1, CountsNobody
       DEF MemoryPc, PlaceInOven, PizzaInOven, PlaceOnTable, PlaceGivenBack, Claimed, Announced,
           InDelivery, ChefInMemory, DelivererInMemory
  <2> QED
    BY <1>2, <1>3, <2>2, Capacities DEF Balance
<1>6. Hands
  BY <1>3 DEF Hands
<1>7. OvenOwners
  BY <1>3 DEF OvenOwners, PizzaInOven, Init, MemoryInit
<1>8. TableOwners
  <2>1. Occupied(table_slots) = {}
    BY DEF Init, MemoryInit, Occupied
  <2> QED
    BY <1>3, <2>1, FS_EmptySet DEF TableOwners
<1> QED
  BY <1>4, <1>5, <1>6, <1>7, <1>8 DEF IInv

(* The inductive invariant: the types, the balance of the semaphores, what  *)
(* is in whose hands, and whose the taken slots are.                        *)
THEOREM Invariance == Spec => []IInv
<1>1. IInv /\ [Next]_vars => IInv'
  BY TypeStep, BalanceStep, HandsStep, OvenOwnersStep, TableOwnersStep DEF IInv
<1> QED
  BY InitIInv, <1>1, PTL DEF Spec

(* All variables keep their types: no semaphore goes below zero, no slot    *)
(* outside the arrays is chosen, and no chef leaves through the branch for  *)
(* a full oven or table.                                                    *)
THEOREM TypeCorrect == Spec => []TypeOK
<1>1. IInv => TypeOK
  BY DEF IInv
<1> QED
  BY <1>1, Invariance, PTL

(* At most one worker is between taking and releasing MEMORY_LOCK.          *)
MutualExclusion == \A v, w \in Workers : InMemory(v) /\ InMemory(w) => v = w

(* No array is modified by several workers at once. *)
THEOREM MemoryIsExclusive == Spec => []MutualExclusion
<1>1. IInv => MutualExclusion
  <2>1. \A w \in Workers : InMemory(w) => pc[w] \in MemoryPc
    BY DEF InMemory, MemoryPc
  <2> QED
    BY <2>1, OneInMemory DEF IInv, MutualExclusion
<1> QED
  BY <1>1, Invariance, PTL

(* No chef writes outside the arrays or over another pizza, although the    *)
(* places are posted before the slots are emptied.                          *)
THEOREM NeverOverfullAlways == Spec => []NeverOverfull
<1>1. IInv => NeverOverfull
  BY DEF IInv, TypeOK, ChefPc, ChefInMemory, OvenOwners, TableOwners, NeverOverfull, Workers
<1> QED
  BY <1>1, Invariance, PTL

(* No deliverer leaves without a pizza.                                     *)
THEOREM DelivererAlwaysHasPizza == Spec => []DelivererHasPizza
<1>1. IInv => DelivererHasPizza
  BY EmptyIsNoPizza DEF IInv, Hands, DelivererHasPizza
<1> QED
  BY <1>1, Invariance, PTL

-----------------------------------------------------------------------------
(* Counters, slots and semaphores.                                          *)

(* The pizzas in the oven are as many as the chefs that wait for them. *)
LEMMA OvenOccupied ==
  ASSUME IInv
  PROVE  no_oven_pizzas = Cardinality(Occupied(oven_slots))
<1> DEFINE full == At(PizzaInOven)
           f == [w \in full |-> oven_idx[w]]
<1>1. TypeOK /\ OvenOwners /\ Hands
  BY DEF IInv
<1>2. Occupied(oven_slots) = {i \in OvenSlots : oven_slots[i] # Empty}
  BY <1>1 DEF TypeOK, Occupied
<1>3. \A w \in full : w \in Chefs /\ pc[w] \in PizzaInOven
  BY <1>1 DEF At, TypeOK, Workers, PizzaInOven, DelivererPc, DelivererInMemory
<1>4. \A w \in full : oven_idx[w] \in Occupied(oven_slots)
  BY <1>1, <1>2, <1>3, EmptyIsNoPizza DEF TypeOK, OvenOwners, Hands, PizzaInOven
<1>5. \A i \in Occupied(oven_slots) : \E w \in full : oven_idx[w] = i
  BY <1>1, <1>2 DEF OvenOwners, At, Workers
<1>6. \A v, w \in full : oven_idx[v] = oven_idx[w] => v = w
  BY <1>1, <1>3 DEF OvenOwners
<1>7. f \in Bijection(full, Occupied(oven_slots))
  <2> HIDE DEF full
  <2> QED
    BY <1>4, <1>5, <1>6 DEF Bijection, Injection, Surjection, IsInjective
<1>8. ExistsBijection(full, Occupied(oven_slots))
  BY <1>7 DEF ExistsBijection
<1>9. Cardinality(Occupied(oven_slots)) = Cardinality(full)
  BY <1>8, CountIsNat, FS_Bijection
<1> QED
  BY <1>9 DEF IInv, Balance, Count

(* The semaphores and the counters account for every place and pizza when   *)
(* nobody is in the memory.                                                 *)
THEOREM CountersAlwaysAgree == Spec => []CountersAgree
<1>1. IInv => CountersAgree
  <2> SUFFICES ASSUME IInv, \A w \in Workers : ~InMemory(w)
               PROVE  /\ no_oven_pizzas = Cardinality(Occupied(oven_slots))
                      /\ no_table_pizzas = Cardinality(Occupied(table_slots))
                      /\ sem["AVAILABLE_PLACES_IN_OVEN"] + Cardinality(At({"put_lock"}))
                           = OvenCapacity - no_oven_pizzas
                      /\ sem["AVAILABLE_PLACES_ON_THE_TABLE"] + Cardinality(At({"take_lock"}))
                           = TableCapacity - no_table_pizzas
                      /\ sem["NO_WAITING_PIZZAS"] + Cardinality(At({"get_lock"})) = no_table_pizzas
    BY DEF CountersAgree
  <2>1. \A w \in Workers : pc[w] \notin MemoryPc
    BY DEF InMemory, MemoryPc
  <2> USE DEF MemoryPc, ChefInMemory, DelivererInMemory
  <2>2. At(PlaceOnTable) = At({"take_lock"}) /\ At(Claimed) = At({"get_lock"})
    BY <2>1 DEF At, PlaceOnTable, Claimed
  <2>3. Count(PlaceGivenBack) = 0 /\ Count(Announced) = 0
    BY <2>1, CountsNobody DEF PlaceGivenBack, Announced
  <2>4. At(PlaceInOven) = At({"put_lock"}) \cup At(PizzaInOven)
        /\ At({"put_lock"}) \cap At(PizzaInOven) = {}
    BY <2>1 DEF At, PlaceInOven, PizzaInOven
  <2>5. Count(PlaceInOven) = Count({"put_lock"}) + Count(PizzaInOven)
    <3> DEFINE S == At({"put_lock"})
               T == At(PizzaInOven)
    <3>1. IsFiniteSet(S) /\ IsFiniteSet(T) /\ Cardinality(S) \in Nat /\ Cardinality(T) \in Nat
      BY CountIsNat DEF Count
    <3>2. Cardinality(S \cap T) = 0
      BY <2>4, FS_EmptySet
    <3>3. Cardinality(S \cup T) = Cardinality(S) + Cardinality(T) - Cardinality(S \cap T)
      <4> HIDE DEF S, T
      <4> QED
        BY <3>1, FS_Union
    <3> QED
      BY <2>4, <3>1, <3>2, <3>3 DEF Count
  <2>6. /\ Count({"put_lock"}) \in Nat /\ Count(PizzaInOven) \in Nat
        /\ Count(PlaceOnTable) \in Nat /\ Count(Claimed) \in Nat
        /\ sem["AVAILABLE_PLACES_IN_OVEN"] \in Nat /\ sem["AVAILABLE_PLACES_ON_THE_TABLE"] \in Nat
        /\ sem["NO_WAITING_PIZZAS"] \in Nat /\ no_table_pizzas \in Int
    BY CountIsNat DEF IInv, TypeOK, SemIds
  <2>7. Balance /\ TableOwners
    BY DEF IInv
  <2>8. /\ Cardinality(At({"put_lock"})) = Count({"put_lock"})
        /\ Cardinality(At({"take_lock"})) = Count(PlaceOnTable)
        /\ Cardinality(At({"get_lock"})) = Count(Claimed)
    BY <2>2 DEF Count
  <2> HIDE DEF MemoryPc
  <2> QED
    BY <2>3, <2>5, <2>6, <2>7, <2>8, OvenOccupied, Capacities DEF Balance, TableOwners
<1> QED
  BY <1>1, Invariance, PTL
-----------------------------------------------------------------------------
(* Refinement.                                                              *)

Carries(c) == pc[c] \in {"find_table_slot", "store_on_table"}

(* With nobody carrying a pizza to the table, the abstract oven is the      *)
(* array; with somebody, the slot it emptied still counts as full.          *)
OvenContentsFit ==
  /\ (\A c \in Chefs : ~Carries(c)) => OvenContents = oven_slots
  /\ \A c \in Chefs : Carries(c)
       => /\ OvenContents = [oven_slots EXCEPT ![oven_idx[c]] = pizza_type[c]]
          /\ \A b \in Chefs : Carries(b) => b = c

(* The invariant determines the abstract oven. *)
LEMMA OvenContentsNow == IInv => OvenContentsFit
<1> SUFFICES ASSUME IInv
             PROVE  OvenContentsFit
  OBVIOUS
<1>1. oven_slots \in [OvenSlots -> PizzaOrEmpty]
  BY DEF IInv, TypeOK
<1>2. ASSUME \A c \in Chefs : ~Carries(c)
      PROVE  OvenContents = oven_slots
  BY <1>1, <1>2 DEF OvenContents, Carrying, Carries
<1>3. ASSUME NEW c \in Chefs, Carries(c)
      PROVE  /\ OvenContents = [oven_slots EXCEPT ![oven_idx[c]] = pizza_type[c]]
             /\ \A b \in Chefs : Carries(b) => b = c
  <2>1. \A b \in Chefs : Carries(b) => b \in Workers /\ pc[b] \in MemoryPc
    BY DEF Carries, Workers, MemoryPc, ChefInMemory
  <2>2. \A b \in Chefs : Carries(b) => b = c
    BY <1>3, <2>1, OneInMemory DEF IInv
  <2>3. \A b \in Chefs, i \in OvenSlots : Carrying(b, i) <=> b = c /\ i = oven_idx[c]
    BY <1>3, <2>2 DEF Carrying, Carries
  <2>4. \A i \in OvenSlots : i = oven_idx[c] => (CHOOSE b \in Chefs : Carrying(b, i)) = c
    BY <2>3
  <2> QED
    BY <1>1, <2>2, <2>3, <2>4 DEF OvenContents
<1> QED
  BY <1>2, <1>3 DEF OvenContentsFit

(* A step that leaves the arrays alone, and those who carry a pizza with    *)
(* theirs, leaves the abstract oven alone. *)
LEMMA OvenContentsFrame ==
  ASSUME OvenContentsFit, OvenContentsFit', UNCHANGED <<oven_slots, oven_idx>>,
         \A c \in Chefs : /\ pc'[c] \in {"find_table_slot", "store_on_table"} <=> Carries(c)
                          /\ Carries(c) => pizza_type'[c] = pizza_type[c]
  PROVE  OvenContents' = OvenContents
<1>1. CASE \A c \in Chefs : ~Carries(c)
  BY <1>1 DEF OvenContentsFit, Carries
<1>2. CASE \E c \in Chefs : Carries(c)
  <2>1. PICK c \in Chefs : Carries(c)
    BY <1>2
  <2>2. OvenContents = [oven_slots EXCEPT ![oven_idx[c]] = pizza_type[c]]
    BY <2>1 DEF OvenContentsFit
  <2>3. OvenContents' = [oven_slots' EXCEPT ![oven_idx'[c]] = pizza_type'[c]]
    BY <2>1 DEF OvenContentsFit, Carries
  <2> QED
    BY <2>1, <2>2, <2>3
<1> QED
  BY <1>1, <1>2

(* Every step is a step of PizzaFlow, or leaves its state as it is.         *)
LEMMA FlowStep ==
  IInv /\ OvenContentsFit /\ OvenContentsFit' /\ [Next]_vars => [Flow!Next]_(Flow!flowVars)
<1> SUFFICES ASSUME IInv, OvenContentsFit, OvenContentsFit', [Next]_vars
             PROVE  [Flow!Next]_(Flow!flowVars)
  OBVIOUS
<1>0. /\ Hands /\ OvenOwners /\ TableOwners /\ DOMAIN pc = Workers /\ DOMAIN pizza_type = Workers
      /\ oven_slots \in [OvenSlots -> PizzaOrEmpty] /\ oven_idx \in [Chefs -> OvenSlots]
      /\ table_slots \in [TableSlots -> PizzaOrEmpty] /\ table_idx \in [Workers -> TableSlots]
      /\ Chefs \subseteq Workers /\ Deliverers \subseteq Workers /\ Chefs \cap Deliverers = {}
  BY WorkersAreDistinct DEF IInv, TypeOK, Workers
<1> USE DEF Goto, ovenVars, tableVars
<1>1. ASSUME NEW c \in Chefs, Chef(c)
      PROVE  [Flow!Next]_(Flow!flowVars)
  <2> DEFINE Quiet == /\ UNCHANGED <<oven_slots, oven_idx, table_slots>>
                      /\ \A b \in Chefs : /\ pc'[b] \in {"find_table_slot", "store_on_table"}
                                               <=> Carries(b)
                                          /\ Carries(b) => pizza_type'[b] = pizza_type[b]
                      /\ \A d \in Deliverers : pizza_type'[d] = pizza_type[d]
  <2>quiet. Quiet => UNCHANGED Flow!flowVars
    BY OvenContentsFrame DEF DelivererBags, Flow!flowVars
  <2>1. CASE PreparePizza(c) /\ UNCHANGED sem
    <3>1. Quiet
      BY <1>0, <2>1 DEF PreparePizza, Carries
    <3> QED
      BY <2>quiet, <3>1
  <2>2. CASE ChefWaitsOrPosts(c)
    <3>1. Quiet
      BY <1>0, <2>2 DEF ChefWaitsOrPosts, Waits, Posts, Carries
    <3> QED
      BY <2>quiet, <3>1
  <2>3. CASE ChoosesOvenSlot(c)
    <3>1. pc[c] = "find_oven_slot" /\ c \in Workers /\ pc[c] \in MemoryPc
      BY <1>0, <2>3 DEF ChoosesOvenSlot, MemoryPc, ChefInMemory
    <3>2. \A b \in Chefs : ~Carries(b)
      BY <1>0, <3>1, OneInMemory DEF IInv, Carries, MemoryPc, ChefInMemory
    <3>3. \A b \in Chefs : ~Carries(b)'
      BY <1>0, <2>3, <3>2 DEF ChoosesOvenSlot, Carries
    <3>4. OvenContents = oven_slots /\ OvenContents' = oven_slots'
      BY <3>2, <3>3 DEF OvenContentsFit
    <3> QED
      BY <2>3, <3>4 DEF ChoosesOvenSlot, DelivererBags, Flow!flowVars
  <2>4. CASE StoreInOven(c) /\ UNCHANGED sem
    <3>1. pc[c] = "store_in_oven" /\ c \in Workers /\ pc[c] \in MemoryPc
      BY <1>0, <2>4 DEF StoreInOven, MemoryPc, ChefInMemory
    <3>2. \A b \in Chefs : ~Carries(b)
      BY <1>0, <3>1, OneInMemory DEF IInv, Carries, MemoryPc, ChefInMemory
    <3>3. \A b \in Chefs : ~Carries(b)'
      BY <1>0, <2>4, <3>2 DEF StoreInOven, Carries
    <3>4. OvenContents = oven_slots /\ OvenContents' = oven_slots'
      BY <3>2, <3>3 DEF OvenContentsFit
    <3>5. /\ oven_idx[c] \in OvenSlots /\ oven_slots[oven_idx[c]] = Empty
          /\ pizza_type[c] \in PizzaTypes
      BY <1>0, <3>1 DEF OvenOwners, Hands
    <3>6. Flow!Bake(oven_idx[c], pizza_type[c])
      BY <1>0, <2>4, <3>4, <3>5 DEF StoreInOven, DelivererBags, Flow!Bake
    <3> QED
      BY <3>5, <3>6 DEF Flow!Next
  <2>5. CASE TakeOutOfOven(c) /\ UNCHANGED sem
    <3>1. pc[c] = "take_out" /\ c \in Workers /\ pc[c] \in MemoryPc /\ pc[c] \in PizzaInOven
      BY <1>0, <2>5 DEF TakeOutOfOven, MemoryPc, ChefInMemory, PizzaInOven
    <3>2. \A b \in Chefs : ~Carries(b)
      BY <1>0, <3>1, OneInMemory DEF IInv, Carries, MemoryPc, ChefInMemory
    <3>3. Carries(c)'
      BY <1>0, <2>5 DEF TakeOutOfOven, Carries
    <3>4. /\ OvenContents = oven_slots
          /\ OvenContents' = [oven_slots' EXCEPT ![oven_idx'[c]] = pizza_type'[c]]
      BY <3>2, <3>3 DEF OvenContentsFit
    <3>5. OvenContents' = OvenContents
      BY <1>0, <2>5, <3>1, <3>4 DEF TakeOutOfOven
    <3> QED
      BY <1>0, <2>5, <3>5 DEF TakeOutOfOven, DelivererBags, Flow!flowVars
  <2>6. CASE ChoosesTableSlot(c)
    <3>1. Quiet
      BY <1>0, <2>6 DEF ChoosesTableSlot, Carries
    <3> QED
      BY <2>quiet, <3>1
  <2>7. CASE StoreOnTable(c) /\ UNCHANGED sem
    <3>1. pc[c] = "store_on_table" /\ Carries(c)
      BY <2>7 DEF StoreOnTable, Carries
    <3>2. \A b \in Chefs : ~Carries(b)'
      BY <1>0, <2>7, <3>1 DEF StoreOnTable, Carries, OvenContentsFit
    <3>3. /\ OvenContents = [oven_slots EXCEPT ![oven_idx[c]] = pizza_type[c]]
          /\ OvenContents' = oven_slots
      BY <2>7, <3>1, <3>2 DEF StoreOnTable, OvenContentsFit
    <3>4. /\ oven_idx[c] \in OvenSlots /\ oven_slots[oven_idx[c]] = Empty
          /\ table_idx[c] \in TableSlots /\ table_slots[table_idx[c]] = Empty
          /\ pizza_type[c] \in PizzaTypes
      BY <1>0, <3>1 DEF OvenOwners, TableOwners, Hands
    <3>5. /\ OvenContents' = [OvenContents EXCEPT ![oven_idx[c]] = Empty]
          /\ OvenContents[oven_idx[c]] = pizza_type[c]
      BY <1>0, <3>3, <3>4
    <3>6. Flow!Serve(oven_idx[c], table_idx[c])
      BY <1>0, <2>7, <3>4, <3>5, EmptyIsNoPizza DEF StoreOnTable, DelivererBags, Flow!Serve
    <3> QED
      BY <3>4, <3>6 DEF Flow!Next
  <2> QED
    BY <1>1, <2>1, <2>2, <2>3, <2>4, <2>5, <2>6, <2>7, ChefCases
<1>2. ASSUME NEW d \in Deliverers, Deliverer(d)
      PROVE  [Flow!Next]_(Flow!flowVars)
  <2>1. OvenContents' = OvenContents
    <3>1. /\ \A c \in Chefs : pc'[c] = pc[c] /\ pizza_type'[c] = pizza_type[c]
          /\ UNCHANGED <<oven_slots, oven_idx>>
      <4>1. CASE DelivererWaitsOrPosts(d)
        BY <1>0, <4>1 DEF DelivererWaitsOrPosts, Waits, Posts
      <4>2. CASE ChoosesPizza(d)
        BY <1>0, <4>2 DEF ChoosesPizza
      <4>3. CASE TakeFromTable(d) /\ UNCHANGED sem
        BY <1>0, <4>3 DEF TakeFromTable
      <4>4. CASE FinishDelivery(d)
        BY <1>0, <4>4 DEF FinishDelivery, SemWait
      <4> QED
        BY <1>2, <4>1, <4>2, <4>3, <4>4, DelivererCases
    <3> QED
      BY <3>1, OvenContentsFrame DEF Carries
  <2>2. CASE DelivererWaitsOrPosts(d)
    BY <2>1, <2>2 DEF DelivererWaitsOrPosts, DelivererBags, Flow!flowVars
  <2>3. CASE ChoosesPizza(d)
    BY <2>1, <2>3 DEF ChoosesPizza, DelivererBags, Flow!flowVars
  <2>4. CASE TakeFromTable(d) /\ UNCHANGED sem
    <3>1. /\ table_idx[d] \in TableSlots /\ table_slots[table_idx[d]] # Empty
          /\ pizza_type[d] = Empty
      BY <1>0, <2>4 DEF TakeFromTable, TableOwners, Hands
    <3>2. Flow!PickUp(table_idx[d], d)
      BY <1>0, <2>1, <2>4, <3>1 DEF TakeFromTable, DelivererBags, Flow!PickUp
    <3> QED
      BY <3>1, <3>2 DEF Flow!Next
  <2>5. CASE FinishDelivery(d)
    <3>1. pizza_type[d] # Empty
      BY <1>0, <2>5, EmptyIsNoPizza DEF FinishDelivery, SemWait, Hands
    <3>2. Flow!Deliver(d)
      BY <1>0, <2>1, <2>5, <3>1 DEF FinishDelivery, SemWait, DelivererBags, Flow!Deliver
    <3> QED
      BY <3>2 DEF Flow!Next
  <2> QED
    BY <1>2, <2>2, <2>3, <2>4, <2>5, DelivererCases
<1>3. CASE UNCHANGED vars
  BY <1>3 DEF vars, memoryVars, OvenContents, Carrying, DelivererBags, Flow!flowVars
<1> QED
  BY <1>1, <1>2, <1>3 DEF Next

(* The POSIX pizzeria implements PizzaFlow too: giving a place back before  *)
(* the pizza is out of it loses, duplicates and overwrites none, whatever   *)
(* the workers, the capacities and the interleaving.                        *)
THEOREM PosixImplementsFlow == Spec => ImplementsFlow
<1>1. Init => Flow!Init
  <2> SUFFICES ASSUME Init
               PROVE  Flow!Init
    OBVIOUS
  <2>1. OvenContents = oven_slots
    BY InitIInv, OvenContentsNow, WorkersAreDistinct
       DEF Init, MemoryInit, Workers, OvenContentsFit, Carries
  <2> QED
    BY <2>1 DEF Init, MemoryInit, Workers, DelivererBags, Flow!Init
<1> QED
  BY <1>1, Invariance, OvenContentsNow, FlowStep, PTL DEF Spec, ImplementsFlow, Flow!Spec
=============================================================================
