------------------------------- MODULE ChatSysV -------------------------------
(***************************************************************************)
(* Laboratory 6, zad1: a chat over System V message queues.  The server     *)
(* reads one queue by priority and answers on the queue of each client.  A  *)
(* client is a parent that types commands and a child that shows what       *)
(* arrives; both read the client's queue.                                   *)
(*                                                                          *)
(* A step runs to the next call that may wait (msgsnd on a full queue,      *)
(* msgrcv, the terminal).  A queue identifier of a client stands for the    *)
(* client; msgget never returns 0 here, which the server takes for an empty *)
(* slot.  What is said in the messages, the log file and the times are left *)
(* out.                                                                     *)
(***************************************************************************)
EXTENDS Integers, Sequences, FiniteSets, SequencesExt

CONSTANTS Clients,
          MaxClients,    \* MAX_NO_CLIENTS
          ServerLimit,   \* messages that fit in the server's queue (msg_qbytes)
          ClientLimit,   \* messages that fit in the queue of a client
          MaxMsgs        \* bound: commands typed in a run, STOP not counted

ASSUME Bounds == /\ MaxClients \in Nat \ {0} /\ MaxMsgs \in Nat
                 /\ ServerLimit \in Nat \ {0} /\ ClientLimit \in Nat \ {0}

Ids == 0 .. MaxClients - 1
NoId == -1
Free == "free"      \* 0 in CLIENT_QUEUES
Failed == "failed"  \* -1, what a failing msgget leaves there

ASSUME SlotsAreNoClients == Clients \cap {Free, Failed} = {}

(* msg_type: the server reads the lowest type first. *)
msg_typeInitEarly == [STOP |-> 1, INIT |-> 2, LIST |-> 3, ALL |-> 4, ONE |-> 5]
msg_type == [STOP |-> 1, LIST |-> 2, ALL |-> 3, ONE |-> 4, INIT |-> 5]

VARIABLES
  CLIENT_QUEUES,   \* the server's table: id -> client, Free or Failed
  server,          \* "listen", "send"; "closing" after an error, "stopping" after SIGINT;
                   \* "down" when it has closed, "cut off" when a SIGINT ended that
  work,            \* the messages the server has still to send, in order
  server_queue,
  queue,           \* client -> the messages in its queue
  exists,          \* client -> its queue exists
  id,              \* client -> ID
  parent, child,   \* client -> where its two processes are
  sigint,          \* client -> "handler" while its parent is in the handler of SIGINT, which
                   \* blocks it; "again" for ever when STOP had been sent before
  out,             \* client -> the message the parent is sending, INIT unless it is another
  typed            \* commands typed so far

vars == <<CLIENT_QUEUES, server, work, server_queue, queue, exists,
          id, parent, child, sigint, out, typed>>
serverVars == <<CLIENT_QUEUES, server, work>>
processVars == <<id, parent, child, sigint, out, typed>>

(* A message to the server.  from is the client that sent it, sender the ID it gives. *)
Msg(type, c, sender, receiver) ==
  [type |-> type, from |-> c, sender |-> sender, receiver |-> receiver]
Hello(c) == Msg("INIT", c, 0, 0)    \* before it has an ID; the fields left out are 0
Reply(type, i) == [type |-> type, id |-> i]

Init ==
  /\ CLIENT_QUEUES = [i \in Ids |-> Free]
  /\ server = "listen" /\ work = <<>> /\ server_queue = <<>>
  /\ queue = [c \in Clients |-> <<>>] /\ exists = [c \in Clients |-> FALSE]
  /\ id = [c \in Clients |-> NoId]
  /\ parent = [c \in Clients |-> "start"] /\ child = [c \in Clients |-> "none"]
  /\ sigint = [c \in Clients |-> "none"]
  /\ out = [c \in Clients |-> Hello(c)]
  /\ typed = 0

-------------------------------------------------------------------------------
(* The server *)

Taken == {i \in Ids : CLIENT_QUEUES[i] # Free}
InOrder(S) == SetToSortSeq(S, LAMBDA i, j : i < j)
get_free_id == IF Taken = Ids THEN NoId
               ELSE CHOOSE i \in Ids \ Taken : \A j \in Ids \ Taken : i <= j

(* exit_handler: a STOP for every slot that is not empty. *)
exit_handler(table, how) ==
  /\ server' = how
  /\ work' = [n \in 1 .. Cardinality({i \in Ids : table[i] # Free}) |->
                [to |-> table[InOrder({i \in Ids : table[i] # Free})[n]],
                 msg |-> Reply("STOP", NoId)]]

Sends(messages) == server' = "send" /\ work' = messages
Answer(i, type) == <<[to |-> CLIENT_QUEUES[i], msg |-> Reply(type, i)]>>

init_client(c) ==
  LET i == get_free_id
      table == [CLIENT_QUEUES EXCEPT ![i] = IF exists[c] THEN c ELSE Failed]
  IN IF i = NoId
     THEN exit_handler(CLIENT_QUEUES, "closing") /\ UNCHANGED CLIENT_QUEUES
     ELSE /\ CLIENT_QUEUES' = table
          /\ IF exists[c] THEN Sends(<<[to |-> c, msg |-> Reply("INIT", i)]>>)
                          ELSE exit_handler(table, "closing")

(* A STOP without an ID writes before the table, where nothing the server uses is. *)
stop_client(i) ==
  /\ CLIENT_QUEUES' = [j \in Ids |-> IF j = i THEN Free ELSE CLIENT_QUEUES[j]]
  /\ Sends(<<>>)

send_to_one(i) ==
  /\ IF CLIENT_QUEUES[i] = Free THEN exit_handler(CLIENT_QUEUES, "closing") ELSE Sends(Answer(i, "ONE"))
  /\ UNCHANGED CLIENT_QUEUES

send_to_all(sender) ==
  /\ LET receivers == Taken \ {sender}
     IN Sends([n \in 1 .. Cardinality(receivers) |-> Answer(InOrder(receivers)[n], "ONE")[1]])
  /\ UNCHANGED CLIENT_QUEUES

list_all_active_clients(sender) == Sends(Answer(sender, "LIST")) /\ UNCHANGED CLIENT_QUEUES

handle_msg(m) ==
  \/ m.type = "INIT" /\ init_client(m.from)
  \/ m.type = "STOP" /\ stop_client(m.sender)
  \/ m.type = "ALL" /\ send_to_all(m.sender)
  \/ m.type = "ONE" /\ send_to_one(m.receiver)
  \/ m.type = "LIST" /\ list_all_active_clients(m.sender)

(* msgrcv with a negative type: the first message of the lowest type. *)
NextMessage ==
  CHOOSE n \in DOMAIN server_queue : \A k \in DOMAIN server_queue :
    \/ msg_type[server_queue[n].type] < msg_type[server_queue[k].type]
    \/ server_queue[n].type = server_queue[k].type /\ n <= k

receive_msg ==
  /\ server = "listen" /\ server_queue # <<>>
  /\ server_queue' = RemoveAt(server_queue, NextMessage)
  /\ handle_msg(server_queue[NextMessage])
  /\ UNCHANGED <<queue, exists, processVars>>

IsOpen(q) == q \in Clients /\ exists[q]

(* One msgsnd of the server.  An error ends the server, or is ignored while it closes. *)
ServerSends ==
  /\ server \in {"send", "closing", "stopping"} /\ work # <<>>
  /\ LET to == Head(work).to IN
       \/ /\ IsOpen(to) /\ Len(queue[to]) < ClientLimit
          /\ queue' = [queue EXCEPT ![to] = Append(@, Head(work).msg)]
          /\ work' = Tail(work) /\ UNCHANGED server
       \/ /\ ~IsOpen(to) /\ server = "send" /\ exit_handler(CLIENT_QUEUES, "closing")
          /\ UNCHANGED queue
       \/ /\ ~IsOpen(to) /\ server # "send" /\ work' = Tail(work)
          /\ UNCHANGED <<server, queue>>
  /\ UNCHANGED <<CLIENT_QUEUES, server_queue, exists, processVars>>

ServerSent ==
  /\ work = <<>>
  /\ \/ server = "send" /\ server' = "listen"
     \/ server \in {"closing", "stopping"} /\ server' = "down"
  /\ UNCHANGED <<CLIENT_QUEUES, work, server_queue, queue, exists, processVars>>

(* SIGINT: exit(0) from the handler, whatever the server was sending.  The   *)
(* exit of an error, in which SIGINT is not blocked, ends at once: the second *)
(* exit does not run exit_handler again.                                      *)
sigint_handler ==
  /\ \/ server \in {"listen", "send"} /\ exit_handler(CLIENT_QUEUES, "stopping")
     \/ server = "closing" /\ server' = "cut off" /\ work' = <<>>
  /\ UNCHANGED <<CLIENT_QUEUES, server_queue, queue, exists, processVars>>

-------------------------------------------------------------------------------
(* A client: the parent *)

Posted(c, m) == Len(server_queue) < ServerLimit /\ server_queue' = Append(server_queue, m)

(* handle_exit, registered with atexit before the fork: both processes run it. *)
handle_exit(c) == exists' = [exists EXCEPT ![c] = FALSE] /\ queue' = [queue EXCEPT ![c] = <<>>]

setup_queues(c) ==
  /\ parent[c] = "start"
  /\ exists' = [exists EXCEPT ![c] = TRUE] /\ parent' = [parent EXCEPT ![c] = "send"]
  /\ UNCHANGED <<serverVars, server_queue, queue, id, child, out, sigint, typed>>

(* send_msg from send_INIT, send_ONE, send_ALL or send_LIST. *)
send_msg(c) ==
  /\ parent[c] = "send" /\ Posted(c, out[c])
  /\ parent' = [parent EXCEPT ![c] = CASE out[c].type = "INIT" -> "await INIT"
                                       [] out[c].type = "LIST" -> "await LIST"
                                       [] OTHER -> "input"]
  /\ out' = [out EXCEPT ![c] = Hello(c)]
  /\ UNCHANGED <<serverVars, queue, exists, id, child, sigint, typed>>

Position(c, type) == SelectInSeq(queue[c], LAMBDA m : m.type = type)

(* The answer to INIT, and the fork that follows it. *)
send_INIT(c) ==
  /\ parent[c] = "await INIT" /\ Position(c, "INIT") # 0
  /\ id' = [id EXCEPT ![c] = queue[c][Position(c, "INIT")].id]
  /\ queue' = [queue EXCEPT ![c] = RemoveAt(@, Position(c, "INIT"))]
  /\ parent' = [parent EXCEPT ![c] = "fork"]
  /\ UNCHANGED <<serverVars, server_queue, exists, child, out, sigint, typed>>

run(c) ==
  /\ parent[c] = "fork"
  /\ parent' = [parent EXCEPT ![c] = "input"] /\ child' = [child EXCEPT ![c] = "poll"]
  /\ UNCHANGED <<serverVars, server_queue, queue, exists, id, out, sigint, typed>>

(* The answer to LIST; the queue may be gone by then, which ends the parent without a STOP. *)
send_LIST(c) ==
  /\ parent[c] = "await LIST"
  /\ \/ /\ exists[c] /\ Position(c, "LIST") # 0
        /\ queue' = [queue EXCEPT ![c] = RemoveAt(@, Position(c, "LIST"))]
        /\ parent' = [parent EXCEPT ![c] = "input"] /\ UNCHANGED exists
     \/ ~exists[c] /\ parent' = [parent EXCEPT ![c] = "failed"] /\ UNCHANGED <<queue, exists>>
  /\ UNCHANGED <<serverVars, server_queue, id, child, out, sigint, typed>>

Commands(c) == {Msg("LIST", c, id[c], NoId), Msg("ALL", c, id[c], NoId)}
                 \cup {Msg("ONE", c, id[c], i) : i \in Ids}

(* STOP, or a command that is not recognized, runs send_STOP. *)
handle_queue_inputKilling(c) ==
  /\ parent[c] = "input"
  /\ \/ /\ typed < MaxMsgs /\ typed' = typed + 1
        /\ out' \in {[out EXCEPT ![c] = m] : m \in Commands(c)}
        /\ parent' = [parent EXCEPT ![c] = "send"] /\ UNCHANGED child
     \/ /\ parent' = [parent EXCEPT ![c] = "stop"] /\ UNCHANGED <<out, typed>>
        /\ child' = [child EXCEPT ![c] = "gone"]
  /\ UNCHANGED <<serverVars, server_queue, queue, exists, id, sigint>>
handle_queue_input(c) ==
  /\ parent[c] = "input"
  /\ \/ /\ typed < MaxMsgs /\ typed' = typed + 1
        /\ out' \in {[out EXCEPT ![c] = m] : m \in Commands(c)}
        /\ parent' = [parent EXCEPT ![c] = "send"]
     \/ parent' = [parent EXCEPT ![c] = "stop"] /\ UNCHANGED <<out, typed>>
  /\ UNCHANGED <<serverVars, server_queue, queue, exists, id, child, sigint>>

(* send_STOP: STOP first, then the child is killed, then the queue is removed. *)
send_STOPWithoutId(c) ==
  /\ parent[c] = "stop" /\ Posted(c, Msg("STOP", c, 0, NoId))
  /\ parent' = [parent EXCEPT ![c] = "leave"]
  /\ UNCHANGED <<serverVars, queue, exists, id, child, out, sigint, typed>>
send_STOP(c) ==
  /\ parent[c] = "stop" /\ Posted(c, Msg("STOP", c, id[c], NoId))
  /\ parent' = [parent EXCEPT ![c] = "leave"]
  /\ UNCHANGED <<serverVars, queue, exists, id, child, out, sigint, typed>>

(* The second exit of a process does not run handle_exit again.               *)
Exit(c) ==
  /\ parent[c] = "leave" /\ parent' = [parent EXCEPT ![c] = "left"]
  /\ child' = [child EXCEPT ![c] = IF @ = "none" THEN @ ELSE "gone"]
  /\ \/ handle_exit(c)
     \/ sigint[c] = "again" /\ UNCHANGED <<queue, exists>>
  /\ sigint' = [sigint EXCEPT ![c] = IF @ = "again" THEN @ ELSE "none"]
  /\ UNCHANGED <<serverVars, server_queue, id, out, typed>>

(* SIGINT sent to the parent: its handler is send_STOP, whatever the parent waits for, and  *)
(* also when a STOP it has typed is sent already and it is about to exit, or exits.         *)
Interrupt(c) ==
  /\ parent[c] \notin {"start", "left", "failed"} /\ sigint[c] = "none"
  /\ sigint' = [sigint EXCEPT ![c] = IF parent[c] = "leave" THEN "again" ELSE "handler"]
  /\ parent' = [parent EXCEPT ![c] = "stop"] /\ out' = [out EXCEPT ![c] = Hello(c)]
  /\ UNCHANGED <<serverVars, server_queue, queue, exists, id, child, typed>>

-------------------------------------------------------------------------------
(* A client: the child *)

ChildPolls(c) ==
  /\ child[c] = "poll"
  /\ \/ exists[c] /\ queue[c] # <<>> /\ child' = [child EXCEPT ![c] = "receive"]
     \/ ~exists[c] /\ child' = [child EXCEPT ![c] = "gone"]
  /\ UNCHANGED <<serverVars, server_queue, queue, exists, id, parent, out, sigint, typed>>

(* Anything but ONE or ALL ends the child, and exit(1) removes the queue of the client. *)
handle_queue_msgKeepingQueue(c) ==
  /\ child[c] = "receive" /\ exists[c] /\ queue[c] # <<>>
  /\ queue' = [queue EXCEPT ![c] = Tail(@)] /\ UNCHANGED exists
  /\ child' = [child EXCEPT ![c] = IF Head(queue[c]).type = "ONE" THEN "poll" ELSE "gone"]
  /\ UNCHANGED <<serverVars, server_queue, id, parent, out, sigint, typed>>
handle_queue_msg(c) ==
  /\ child[c] = "receive"
  /\ \/ /\ exists[c] /\ queue[c] # <<>> /\ Head(queue[c]).type = "ONE"
        /\ queue' = [queue EXCEPT ![c] = Tail(@)] /\ UNCHANGED exists
        /\ child' = [child EXCEPT ![c] = "poll"]
     \/ /\ exists[c] => queue[c] # <<>> /\ Head(queue[c]).type # "ONE"
        /\ handle_exit(c) /\ child' = [child EXCEPT ![c] = "gone"]
  /\ UNCHANGED <<serverVars, server_queue, id, parent, out, sigint, typed>>

-------------------------------------------------------------------------------
ServerStep == receive_msg \/ ServerSends \/ ServerSent
ParentStep(c) == setup_queues(c) \/ send_msg(c) \/ send_INIT(c) \/ run(c) \/ send_LIST(c)
                   \/ send_STOP(c) \/ Exit(c)
ChildStep(c) == ChildPolls(c) \/ handle_queue_msg(c)

Next ==
  \/ ServerStep \/ sigint_handler
  \/ \E c \in Clients : \/ ParentStep(c) \/ handle_queue_input(c) \/ Interrupt(c)
                        \/ ChildStep(c)

Spec == Init /\ [][Next]_vars

(* CTRL+C in a terminal is sent to the parent and to the child, which has its handler. *)
TerminalInterrupt(c) ==
  /\ child[c] \in {"poll", "receive"} /\ parent[c] = "input"
  /\ parent' = [parent EXCEPT ![c] = "stop"] /\ child' = [child EXCEPT ![c] = "stop"]
  /\ sigint' = [sigint EXCEPT ![c] = "handler"]
  /\ UNCHANGED <<serverVars, server_queue, queue, exists, id, out, typed>>

(* send_STOP in the child: it has no child to kill, and exits. *)
ChildStops(c) ==
  /\ \/ /\ child[c] = "stop" /\ Posted(c, Msg("STOP", c, id[c], NoId))
        /\ child' = [child EXCEPT ![c] = "leave"] /\ UNCHANGED <<queue, exists>>
     \/ /\ child[c] = "leave" /\ handle_exit(c)
        /\ child' = [child EXCEPT ![c] = "gone"] /\ UNCHANGED server_queue
  /\ UNCHANGED <<serverVars, id, parent, out, sigint, typed>>

TerminalNext == Next \/ \E c \in Clients : TerminalInterrupt(c) \/ ChildStops(c)
TerminalSpec == Init /\ [][TerminalNext]_vars

(* The scheduler runs every process of Spec that can run; nobody has to type or to press CTRL+C. *)
FairSpec == /\ Spec /\ WF_vars(ServerStep)
            /\ \A c \in Clients : WF_vars(ParentStep(c)) /\ WF_vars(ChildStep(c))

-------------------------------------------------------------------------------
(* A SIGINT that comes when a typed STOP has been sent makes its client send a second one,   *)
(* which carries the ID that another client may have got in between (client.c:119-133).       *)
StopsTwice(c) == sigint[c] = "again"

(* The server knows its clients by the ID they send, and gives the ID of a client that left *)
(* to the next one.  A message that waits in the server's queue never carries the ID of      *)
(* another client than the one that sent it, except INIT, of which the server does not read   *)
(* the ID: INIT is read last, so that whatever a client sent before it left is handled before *)
(* its place is taken.  A client that stops twice breaks this.                                *)
SenderIsWhoItSays ==
  (\A c \in Clients : ~StopsTwice(c)) =>
    \A n \in DOMAIN server_queue : LET m == server_queue[n] IN
      m.type # "INIT" /\ m.sender # NoId /\ CLIENT_QUEUES[m.sender] # Free
        => CLIENT_QUEUES[m.sender] = m.from

(* A client that has its ID and has not sent STOP is in the server's table under that ID, as *)
(* long as the server runs: only its own STOP takes it out (stop_client), as long as nobody   *)
(* stops twice.                                                                               *)
KeepsItsPlace ==
  (\A c \in Clients : ~StopsTwice(c)) =>
    \A c \in Clients :
      id[c] # NoId /\ parent[c] \notin {"leave", "left"} /\ child[c] \notin {"leave", "gone"}
        => CLIENT_QUEUES[id[c]] = c

(* A SIGINT that reached a client which has no child yet. *)
StopsWithoutChild(c) == parent[c] = "stop" /\ child[c] = "none"

(* A client that is gone while its queue, which nobody empties, is not. *)
LeavesItsQueue(c) == StopsTwice(c) /\ exists[c]

(* The server never waits for ever for room in the queue of a client.  The child empties it,  *)
(* also while the parent waits for room in the server's queue; and when the child ends, the    *)
(* queue goes.  Only a client interrupted before it has a child, or one that leaves its queue  *)
(* behind because it was interrupted while it left, can hold the server.                       *)
ServerGetsThrough ==
  server \in {"send", "closing", "stopping"} ~>
    \/ server \in {"listen", "down", "cut off"}
    \/ \E d \in Clients : StopsWithoutChild(d) \/ LeavesItsQueue(d)

(* A parent that waits for the answer to LIST does not wait for ever: the answer comes, or,   *)
(* when the child took it or the server closed, the child ends and removes the queue, which    *)
(* ends the wait (handle_exit runs in both processes).  A server that is cut off while it      *)
(* closes ends nobody's child, nor one from whose table a second STOP took the client.         *)
ListEnds ==
  \A c \in Clients :
    parent[c] = "await LIST" ~>
      \/ parent[c] # "await LIST" \/ server = "cut off"
      \/ \E d \in Clients : StopsWithoutChild(d) \/ StopsTwice(d)
===============================================================================
