------------------------------- MODULE ChatPosix -------------------------------
(***************************************************************************)
(* Laboratory 6, zad2: the chat over POSIX message queues.  Here the parent *)
(* of a client shows what arrives and its child types the commands.  A      *)
(* queue that is unlinked lives on while somebody has it open, so nobody is *)
(* woken by it, and the number of a type is its priority, highest first.    *)
(*                                                                          *)
(* Steps, names and what is left out are those of ChatSysV.  The "-"        *)
(* between the fields of a message is also skipped in front of a field.     *)
(***************************************************************************)
EXTENDS Integers, Sequences, FiniteSets, SequencesExt

CONSTANTS Clients, MaxClients, ServerLimit, ClientLimit, MaxMsgs

Ids == 0 .. MaxClients - 1
NoId == -1
Free == "free"
Failed == "failed"  \* -1, what a failing mq_open leaves in the table

msg_type == [STOP |-> 1, LIST |-> 2, ALL |-> 3, ONE |-> 4, INIT |-> 5]

VARIABLES
  CLIENT_QUEUES, server,  \* as in ChatSysV
  work,            \* the type of what the server sends, and the places it has still to send it to
  server_queue,    \* as in ChatSysV
  queue,           \* client -> the messages in its queue
  exists,          \* client -> the name of its queue is not unlinked
  id,              \* client -> ID
  parent, child,   \* client -> where its two processes are
  out,             \* client -> the message it is sending: INIT, or its child's
  typed            \* commands typed so far

vars == <<CLIENT_QUEUES, server, work, server_queue, queue, exists, id, parent, child, out, typed>>
serverVars == <<CLIENT_QUEUES, server, work>>
processVars == <<id, parent, child, out, typed>>

(* What parse_msg makes of a sender: "-1" loses its sign. *)
Parsed(i) == IF i = NoId THEN 1 ELSE i
Msg(type, c, sender, receiver) ==
  [type |-> type, from |-> c, sender |-> Parsed(sender), receiver |-> receiver]
Hello(c) == Msg("INIT", c, 0, 0)
Reply(type, i) == [type |-> type, id |-> IF type = "STOP" THEN 0 ELSE i]
Nothing == [type |-> "none", to |-> {}]

Init ==
  /\ CLIENT_QUEUES = [i \in Ids |-> Free]
  /\ server = "listen" /\ work = Nothing /\ server_queue = <<>>
  /\ queue = [c \in Clients |-> <<>>] /\ exists = [c \in Clients |-> FALSE]
  /\ id = [c \in Clients |-> NoId]
  /\ parent = [c \in Clients |-> "start"] /\ child = [c \in Clients |-> "none"]
  /\ out = [c \in Clients |-> Hello(c)]
  /\ typed = 0

(* mq_receive: the oldest message of the highest priority. *)
Priority(m) == msg_type[m.type]
First(q) == CHOOSE n \in DOMAIN q : \A k \in DOMAIN q :
              Priority(q[n]) > Priority(q[k]) \/ (Priority(q[n]) = Priority(q[k]) /\ n <= k)

-------------------------------------------------------------------------------
(* The server *)

Taken == {i \in Ids : CLIENT_QUEUES[i] # Free}

exit_handler(table) ==
  server' = "closing" /\ work' = [type |-> "STOP", to |-> {i \in Ids : table[i] # Free}]

(* An error of a handler ends listen, and so the server. *)
EndsListening == exit_handler(CLIENT_QUEUES) /\ UNCHANGED CLIENT_QUEUES

Sends(type, places) == server' = "send" /\ work' = [type |-> type, to |-> places]

(* mq_open returns -1, not 0, when it fails: the table keeps it and the send fails. *)
init_client(c) ==
  LET i == Min(Ids \ Taken)
      table == [CLIENT_QUEUES EXCEPT ![i] = IF exists[c] THEN c ELSE Failed]
  IN IF Taken = Ids THEN EndsListening
     ELSE /\ CLIENT_QUEUES' = table
          /\ IF exists[c] THEN Sends("INIT", {i}) ELSE exit_handler(table)

stop_client(i) ==
  IF i \in Taken
  THEN CLIENT_QUEUES' = [CLIENT_QUEUES EXCEPT ![i] = Free] /\ server' = "send" /\ work' = Nothing
  ELSE EndsListening

send_to_one(i) ==
  IF i \in Taken THEN Sends("ONE", {i}) /\ UNCHANGED CLIENT_QUEUES ELSE EndsListening

send_to_all(sender) == Sends("ONE", Taken \ {sender}) /\ UNCHANGED CLIENT_QUEUES

list_all_active_clients(sender) ==
  IF sender \in Taken THEN Sends("LIST", {sender}) /\ UNCHANGED CLIENT_QUEUES ELSE EndsListening

receive_msg ==
  LET m == server_queue[First(server_queue)] IN
  /\ server = "listen" /\ server_queue # <<>>
  /\ server_queue' = RemoveAt(server_queue, First(server_queue))
  /\ \/ m.type = "INIT" /\ init_client(m.from)
     \/ m.type = "STOP" /\ stop_client(m.sender)
     \/ m.type = "ALL" /\ send_to_all(m.sender)
     \/ m.type = "ONE" /\ send_to_one(m.receiver)
     \/ m.type = "LIST" /\ list_all_active_clients(m.sender)
  /\ UNCHANGED <<queue, exists, processVars>>

(* One mq_send: it waits while the queue is full, whether or not anybody reads it. *)
ServerSends ==
  /\ server \in {"send", "closing"} /\ work.to # {}
  /\ LET i == Min(work.to)  c == CLIENT_QUEUES[i] IN
       /\ IF c = Failed THEN UNCHANGED queue
          ELSE /\ Len(queue[c]) < ClientLimit
               /\ queue' = [queue EXCEPT ![c] = Append(@, Reply(work.type, i))]
       /\ work' = [work EXCEPT !.to = @ \ {i}]
  /\ UNCHANGED <<CLIENT_QUEUES, server, server_queue, exists, processVars>>

ServerSent ==
  /\ work.to = {}
  /\ \/ server = "send" /\ server' = "listen"
     \/ server = "closing" /\ server' = "down"
  /\ UNCHANGED <<CLIENT_QUEUES, work, server_queue, queue, exists, processVars>>

sigint_handler ==
  /\ server \in {"listen", "send"} /\ EndsListening
  /\ UNCHANGED <<server_queue, queue, exists, processVars>>

-------------------------------------------------------------------------------
(* A client: the parent *)

Posted(c, m) == Len(server_queue) < ServerLimit /\ server_queue' = Append(server_queue, m)

setup_queues(c) ==
  /\ parent[c] = "start"
  /\ exists' = [exists EXCEPT ![c] = TRUE] /\ parent' = [parent EXCEPT ![c] = "send"]
  /\ UNCHANGED <<serverVars, server_queue, queue, id, child, out, typed>>

send_INIT(c) ==
  /\ parent[c] = "send" /\ Posted(c, Hello(c))
  /\ parent' = [parent EXCEPT ![c] = "await INIT"]
  /\ UNCHANGED <<serverVars, queue, exists, id, child, out, typed>>

Takes(c) == queue' = [queue EXCEPT ![c] = RemoveAt(@, First(@))]
Next_in(c) == queue[c][First(queue[c])]

(* The first message is taken for the answer; the body of a STOP is read as 0. *)
run(c) ==
  /\ parent[c] = "await INIT" /\ queue[c] # <<>> /\ Takes(c)
  /\ id' = [id EXCEPT ![c] = Next_in(c).id]
  /\ parent' = [parent EXCEPT ![c] = "poll"] /\ child' = [child EXCEPT ![c] = "input"]
  /\ UNCHANGED <<serverVars, server_queue, exists, out, typed>>

(* mq_getattr: some message is there *)
Polls(c) ==
  /\ parent[c] = "poll" /\ queue[c] # <<>> /\ parent' = [parent EXCEPT ![c] = "receive"]
  /\ UNCHANGED <<serverVars, server_queue, queue, exists, id, child, out, typed>>

(* exit_handler of the client: the child is killed, the queue unlinked. *)
exits(c) ==
  /\ parent' = [parent EXCEPT ![c] = "left"] /\ exists' = [exists EXCEPT ![c] = FALSE]
  /\ child' = [child EXCEPT ![c] = IF @ = "none" THEN @ ELSE "gone"]

(* Mutant: a message that is not recognized is only reported. *)
handle_queue_msgGoingOn(c) ==
  /\ parent[c] = "receive" /\ queue[c] # <<>> /\ Takes(c)
  /\ IF Next_in(c).type # "STOP"
     THEN parent' = [parent EXCEPT ![c] = "poll"] /\ UNCHANGED <<exists, child>>
     ELSE exits(c)
  /\ UNCHANGED <<serverVars, server_queue, id, out, typed>>

(* STOP, and what it does not recognize, end the client without a STOP of its own. *)
handle_queue_msg(c) ==
  /\ parent[c] = "receive" /\ queue[c] # <<>> /\ Takes(c)
  /\ IF Next_in(c).type = "ONE"
     THEN parent' = [parent EXCEPT ![c] = "poll"] /\ UNCHANGED <<exists, child>>
     ELSE exits(c)
  /\ UNCHANGED <<serverVars, server_queue, id, out, typed>>

(* Mutant: STOP does not say whose it is. *)
send_STOPWithoutId(c) ==
  /\ parent[c] = "stop" /\ Posted(c, Msg("STOP", c, 0, 0))
  /\ parent' = [parent EXCEPT ![c] = "leave"]
  /\ UNCHANGED <<serverVars, queue, exists, id, child, out, typed>>

send_STOP(c) ==
  /\ parent[c] = "stop" /\ Posted(c, Msg("STOP", c, id[c], 0))
  /\ parent' = [parent EXCEPT ![c] = "leave"]
  /\ UNCHANGED <<serverVars, queue, exists, id, child, out, typed>>

Exit(c) ==
  /\ parent[c] = "leave" /\ exits(c)
  /\ UNCHANGED <<serverVars, server_queue, queue, id, out, typed>>

(* SIGINT; its handler, send_STOP, is not interrupted by another one. *)
Interrupted(p) == IF p \in {"start", "stop", "leave", "left"} THEN p ELSE "stop"
Interrupt(c) ==
  /\ parent[c] # Interrupted(parent[c])
  /\ parent' = [parent EXCEPT ![c] = Interrupted(@)]
  /\ UNCHANGED <<serverVars, server_queue, queue, exists, id, child, out, typed>>

-------------------------------------------------------------------------------
(* A client: the child *)

(* With a "-" in its body a message has what follows it for sender and the  *)
(* ID of its sender for receiver.                                           *)
Commands(c) ==
  {Msg("LIST", c, id[c], 0)}
    \cup {Msg("ALL", c, i, 0) : i \in Ids}
    \cup {Msg("ONE", c, id[c], i) : i \in Ids}

(* STOP, or a command that is not recognized, interrupts the parent; 2ALL   *)
(* without a body does so too, and is sent.                                 *)
handle_queue_input(c) ==
  /\ child[c] = "input"
  /\ \/ /\ typed < MaxMsgs /\ typed' = typed + 1
        /\ out' \in {[out EXCEPT ![c] = m] : m \in Commands(c)}
        /\ child' = [child EXCEPT ![c] = "send"]
        /\ \/ UNCHANGED parent
           \/ /\ out'[c] = Msg("ALL", c, id[c], 0)
              /\ parent' = [parent EXCEPT ![c] = Interrupted(@)]
     \/ /\ child' = [child EXCEPT ![c] = "gone"] /\ UNCHANGED <<out, typed>>
        /\ parent' = [parent EXCEPT ![c] = Interrupted(@)]
  /\ UNCHANGED <<serverVars, server_queue, queue, exists, id>>

send_msg_to_server(c) ==
  /\ child[c] = "send" /\ Posted(c, out[c])
  /\ child' = [child EXCEPT ![c] = IF out[c].type = "LIST" THEN "await LIST" ELSE "input"]
  /\ out' = [out EXCEPT ![c] = Hello(c)]
  /\ UNCHANGED <<serverVars, queue, exists, id, parent, typed>>

(* Whatever arrives is taken for the list. *)
send_LIST(c) ==
  /\ child[c] = "await LIST" /\ queue[c] # <<>> /\ Takes(c)
  /\ child' = [child EXCEPT ![c] = "input"]
  /\ UNCHANGED <<serverVars, server_queue, exists, id, parent, out, typed>>

-------------------------------------------------------------------------------
Next ==
  \/ receive_msg \/ ServerSends \/ ServerSent \/ sigint_handler
  \/ \E c \in Clients : \/ setup_queues(c) \/ send_INIT(c) \/ run(c) \/ Polls(c)
                        \/ handle_queue_msg(c) \/ send_STOP(c) \/ Exit(c) \/ Interrupt(c)
                        \/ handle_queue_input(c) \/ send_msg_to_server(c) \/ send_LIST(c)

Spec == Init /\ [][Next]_vars

-------------------------------------------------------------------------------
(* A client that was interrupted before it had an ID sends a STOP of client 1. *)
StoppedWithoutId(c) == id[c] = NoId /\ parent[c] \in {"stop", "leave", "left"}

(* A client that has its ID and has not sent STOP is in the server's table under that ID, as *)
(* long as nobody was interrupted without an ID: reused places and messages read by          *)
(* priority take nobody else out (stop_client).                                               *)
KeepsItsPlace ==
  \A c \in Clients :
    id[c] # NoId /\ parent[c] \notin {"leave", "left"} /\ server \in {"listen", "send"} =>
      CLIENT_QUEUES[id[c]] = c \/ \E d \in Clients : StoppedWithoutId(d)

(* While the server runs and nobody was interrupted without an ID, a child that waits for     *)
(* the list has something to come, or its parent is about to kill it: the parent reads the    *)
(* same queue and may take the list away, and then ends (handle_queue_msg).                    *)
ListIsComing ==
  \A c \in Clients :
    child[c] = "await LIST" /\ parent[c] # "leave" /\ server \in {"listen", "send"} =>
      \/ queue[c] # <<>>
      \/ \E n \in DOMAIN server_queue : server_queue[n].type = "LIST" /\ server_queue[n].from = c
      \/ work.type = "LIST" /\ \E i \in work.to : CLIENT_QUEUES[i] = c
      \/ \E d \in Clients : StoppedWithoutId(d)
-------------------------------------------------------------------------------
(* The inductive invariant: it is about a server that runs, and nobody interrupted without an ID. *)
Settled == server \in {"listen", "send"} /\ ~\E d \in Clients : StoppedWithoutId(d)

Requests == [type : DOMAIN msg_type, from : Clients, sender : Nat, receiver : Nat]
Replies == [type : {"INIT", "ONE", "LIST"}, id : Ids]

TypeOK ==
  /\ CLIENT_QUEUES \in [Ids -> Clients \cup {Free}] /\ id \in [Clients -> Ids \cup {NoId}]
  /\ server_queue \in Seq(Requests) /\ queue \in [Clients -> Seq(Replies)]
  /\ parent \in [Clients -> {"start", "send", "await INIT", "poll", "receive", "stop", "leave", "left"}]
  /\ child \in [Clients -> {"none", "input", "send", "await LIST", "gone"}]
  /\ out \in [Clients -> Requests] /\ work \in [type : {"none", "INIT", "ONE", "LIST"}, to : SUBSET Ids]

(* What the server sends goes to places that are taken. *)
Working ==
  /\ work.to \subseteq Taken /\ (work.to # {} => work.type # "none")
  /\ server = "listen" => work.to = {}

(* A client has an ID when it has a child, and its child types no message of another type. *)
Talking(c) ==
  /\ child[c] = "none" => id[c] = NoId /\ parent[c] \in {"start", "send", "await INIT"}
  /\ child[c] # "none" => id[c] # NoId /\ parent[c] \notin {"start", "send", "await INIT"}
  /\ parent[c] = "left" => child[c] = "gone"
  /\ child[c] = "send" => out[c].type \in {"LIST", "ALL", "ONE"} /\ out[c].from = c
                          /\ (out[c].type = "LIST" => out[c].sender = id[c])

(* The place a client has, or is being told that it has. *)
Place(c) ==
  /\ id[c] # NoId /\ parent[c] \notin {"leave", "left"} => CLIENT_QUEUES[id[c]] = c
  /\ id[c] = NoId => \A n \in DOMAIN queue[c] : CLIENT_QUEUES[queue[c][n].id] = c

(* One STOP from each client that leaves, for the place that is still its own. *)
Honest(m) ==
  /\ m.type = "STOP" => /\ parent[m.from] \in {"leave", "left"}
                        /\ m.sender \in Ids /\ CLIENT_QUEUES[m.sender] = m.from
                        /\ id[m.from] # NoId
  /\ m.type = "LIST" => m.sender = id[m.from] /\ id[m.from] # NoId
OneStop == \A j, k \in DOMAIN server_queue :
  server_queue[j].type = "STOP" /\ server_queue[k].type = "STOP"
    /\ server_queue[j].from = server_queue[k].from => j = k

(* The list a child waits for, before anybody takes it. *)
Listed(c) ==
  child[c] = "await LIST" /\ parent[c] # "leave" =>
    \/ \E n \in DOMAIN queue[c] : queue[c][n].type = "LIST"
    \/ \E n \in DOMAIN server_queue : server_queue[n].type = "LIST" /\ server_queue[n].from = c
    \/ work.type = "LIST" /\ id[c] \in work.to

Sound ==
  /\ TypeOK /\ Working /\ OneStop
  /\ \A c \in Clients : Talking(c) /\ Place(c) /\ Listed(c)
  /\ \A n \in DOMAIN server_queue : Honest(server_queue[n])
IInv == DOMAIN id = Clients /\ DOMAIN parent = Clients /\ (Settled => Sound)
===============================================================================
