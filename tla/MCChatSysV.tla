------------------------------ MODULE MCChatSysV ------------------------------
(***************************************************************************)
(* ChatSysV for TLC.  A symmetry set is not sound for liveness; the clients *)
(* are symmetric all the same, so that it is enough to look at the          *)
(* behaviours in which a given client is the first to send INIT, if it      *)
(* sends it at all.                                                         *)
(***************************************************************************)
EXTENDS ChatSysV

First == CHOOSE c \in Clients : TRUE

(* Fairness makes First go on, so that nobody waits for it without end. *)
FirstIsFirst ==
  parent[First] \in {"start", "send"} /\ id[First] = NoId
    => \A c \in Clients \ {First} : parent[c]' # "await INIT"
===============================================================================
