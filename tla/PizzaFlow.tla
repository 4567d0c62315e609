------------------------------ MODULE PizzaFlow ------------------------------
(***************************************************************************)
(* What the pizzeria of laboratory 7 promises, whatever its semaphores do:  *)
(* a pizza is put into an empty slot of the oven, moves as it is to an      *)
(* empty slot of the table, is picked up by one deliverer, who carries one  *)
(* pizza at a time, and is delivered.  No pizza is lost, duplicated or      *)
(* overwritten, and no slot outside the two arrays is used.                 *)
(***************************************************************************)
CONSTANTS OvenSlots,    \* indices of Pizzeria.oven_slots
          TableSlots,   \* indices of Pizzeria.table_slots
          Deliverers,
          PizzaTypes,
          Empty         \* the -1 of a slot or hand that holds no pizza

VARIABLES oven, table, bag

flowVars == <<oven, table, bag>>

Init ==
  /\ oven = [i \in OvenSlots |-> Empty]
  /\ table = [i \in TableSlots |-> Empty]
  /\ bag = [d \in Deliverers |-> Empty]

Bake(i, t) ==
  /\ oven[i] = Empty
  /\ oven' = [oven EXCEPT ![i] = t]
  /\ UNCHANGED <<table, bag>>

Serve(i, j) ==
  /\ oven[i] # Empty
  /\ table[j] = Empty
  /\ oven' = [oven EXCEPT ![i] = Empty]
  /\ table' = [table EXCEPT ![j] = oven[i]]
  /\ UNCHANGED bag

PickUp(j, d) ==
  /\ table[j] # Empty
  /\ bag[d] = Empty
  /\ table' = [table EXCEPT ![j] = Empty]
  /\ bag' = [bag EXCEPT ![d] = table[j]]
  /\ UNCHANGED oven

Deliver(d) ==
  /\ bag[d] # Empty
  /\ bag' = [bag EXCEPT ![d] = Empty]
  /\ UNCHANGED <<oven, table>>

Next ==
  \/ \E i \in OvenSlots, t \in PizzaTypes : Bake(i, t)
  \/ \E i \in OvenSlots, j \in TableSlots : Serve(i, j)
  \/ \E j \in TableSlots, d \in Deliverers : PickUp(j, d)
  \/ \E d \in Deliverers : Deliver(d)

Spec == Init /\ [][Next]_flowVars
=============================================================================
