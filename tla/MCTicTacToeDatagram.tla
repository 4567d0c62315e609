------------------------- MODULE MCTicTacToeDatagram -------------------------
EXTENDS TicTacToeDatagram

(* Bound: while a ping or an answer is on its way, some client has not come. *)
PingsWhileTwo ==
  \/ \E c \in Clients : client[c] = "off"
  \/ \A c \in Local : PingsOnTheirWay(c) = 0
==============================================================================
