---------------------------- MODULE MCPizzeriaMain ----------------------------
(***************************************************************************)
(* PizzeriaMain for TLC, with a bound on what follows an interrupted        *)
(* exit_handler.                                                            *)
(***************************************************************************)
EXTENDS PizzeriaMain

(* Bound: when a chef has found no slot for its pizza, or two workers are   *)
(* in the memory at once, the pizzeria is not followed further: a chef may  *)
(* store beyond the array, and the counters may go up and down without end. *)
(* Both happen only after an exit_handler was cut short.                    *)
Followed ==
  cut_short =>
    /\ \A v, w \in Workers : InMemory(v) /\ InMemory(w) => v = w
    /\ \A c \in Chefs : oven_idx[c] \in OvenSlots /\ table_idx[c] \in TableSlots
=============================================================================
