----------------------------- MODULE MCTicTacToe -----------------------------
(* The clients over TCP are alike: they have the same nickname. *)
EXTENDS TicTacToe

Alike == Permutations(Clients \ Local)

(* Bound: while a ping or an answer is on its way, some client has not come. *)
PingsWhileTwo ==
  \/ \E c \in Clients : client[c] = "off"
  \/ \A c \in Clients : pings[c] = 0 /\ ~ Contains(stream[c], "PING")
=============================================================================
