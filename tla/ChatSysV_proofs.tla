---------------------------- MODULE ChatSysV_proofs ----------------------------
(***************************************************************************)
(* Proofs about ChatSysV for any number of clients, slots and messages and  *)
(* any size of the queues.                                                  *)
(***************************************************************************)
EXTENDS ChatSysV, CommonLemmas

Message == [type : {"STOP", "LIST", "ALL", "ONE", "INIT"}, from : Clients,
            sender : Ids \cup {NoId}, receiver : Ids \cup {NoId}]
ParentPc == {"start", "send", "await INIT", "fork", "input", "await LIST", "stop",
             "leave", "left", "failed"}

ParentTyped ==
  /\ id \in [Clients -> Ids \cup {NoId}]
  /\ parent \in [Clients -> ParentPc]
  /\ out \in [Clients -> Message]
  /\ sigint \in [Clients -> {"none", "handler", "again"}]
Typed ==
  /\ CLIENT_QUEUES \in [Ids -> Clients \cup {Free, Failed}]
  /\ IsSeq(work)
  /\ server_queue \in Seq(Message)
  /\ DOMAIN queue = Clients /\ \A c \in Clients : IsSeq(queue[c])
  /\ ParentTyped

(* A client gives the ID it has, and asks for one only while it has none. *)
OwnWord(c) ==
  /\ out[c].from = c
  /\ out[c].type = "INIT" => out[c].sender = 0
  /\ out[c].type # "INIT" => /\ parent[c] = "send" /\ id[c] # NoId
                             /\ out[c].sender = id[c] /\ out[c].type # "STOP"
  /\ parent[c] \in {"start", "await INIT"} => id[c] = NoId
  /\ parent[c] = "send" /\ out[c].type = "INIT" => id[c] = NoId
  /\ parent[c] \in {"fork", "input", "await LIST"} => id[c] # NoId
OwnWords == \A c \in Clients : OwnWord(c)

(* Nobody was interrupted while it left, which is what the rest is true of. *)
Calm == \A c \in Clients : ~StopsTwice(c)

(* What waits for the server carries the ID of its client, and STOP is the last that a    *)
(* client sends.                                                                          *)
Honest(m) ==
  /\ m.type # "INIT" => m.sender = id[m.from]
  /\ m.type \notin {"INIT", "STOP"} => m.sender # NoId
  /\ m.type = "STOP" => parent[m.from] \in {"leave", "left"}
Messages == Calm => \A n \in DOMAIN server_queue : Honest(server_queue[n])

(* The place is kept until the client itself has sent STOP, whatever became of its child. *)
Places ==
  Calm => \A c \in Clients :
    id[c] # NoId /\ parent[c] \notin {"leave", "left"} => CLIENT_QUEUES[id[c]] = c

(* An ID that is on its way to a client is kept for it. *)
Grants(c, r) == r.type = "INIT" => r.id \in Ids /\ (Calm => CLIENT_QUEUES[r.id] = c)
Promised ==
  \A c \in Clients : id[c] = NoId =>
    /\ \A n \in DOMAIN queue[c] : Grants(c, queue[c][n])
    /\ \A n \in DOMAIN work : work[n].to = c => Grants(c, work[n].msg)

IInv == Typed /\ OwnWords /\ Messages /\ SenderIsWhoItSays /\ Places /\ Promised

-----------------------------------------------------------------------------
(* Neither value of an empty or broken slot is a client, and no ID is NoId. *)
LEMMA Distinct ==
  Free \notin Clients /\ Failed \notin Clients /\ Free # Failed /\ NoId \notin Ids /\ 0 \in Ids
BY SlotsAreNoClients, Bounds DEF Free, Failed, NoId, Ids

(* The IDs are finitely many natural numbers. *)
LEMMA IdsAreFinite ==
  /\ Ids \subseteq Nat
  /\ \A S \in SUBSET Ids : IsFiniteSet(S) /\ Cardinality(S) \in Nat
<1>1. MaxClients - 1 \in Int
  BY Bounds
<1>2. IsFiniteSet(Ids)
  BY <1>1, FS_Interval DEF Ids
<1>3. \A S \in SUBSET Ids : IsFiniteSet(S) /\ Cardinality(S) \in Nat
  BY <1>2, FS_Subset, FS_CardinalityType
<1> QED
  BY <1>1, <1>3 DEF Ids

(* get_free_id gives the number of an empty slot if there is one. *)
LEMMA FreeIdIsFree ==
  ASSUME get_free_id # NoId
  PROVE  get_free_id \in Ids /\ CLIENT_QUEUES[get_free_id] = Free
<1>1. Ids \ Taken # {}
  BY DEF get_free_id, Taken
<1>2. Min(Ids \ Taken) \in Ids \ Taken /\ \A j \in Ids \ Taken : Min(Ids \ Taken) <= j
  BY <1>1, IdsAreFinite, MinIsElement
<1>3. get_free_id \in Ids \ Taken
  BY <1>1, <1>2 DEF get_free_id
<1> QED
  BY <1>3 DEF Taken

(* The message that msgrcv takes: no other one in the queue has a lower type. *)
LEMMA NextIsFirst ==
  ASSUME server_queue \in Seq(Message), server_queue # <<>>
  PROVE  /\ NextMessage \in DOMAIN server_queue
         /\ \A k \in DOMAIN server_queue :
              msg_type[server_queue[NextMessage].type] <= msg_type[server_queue[k].type]
<1> DEFINE t(k) == msg_type[server_queue[k].type]
           types == {t(k) : k \in DOMAIN server_queue}
           first == {k \in DOMAIN server_queue : t(k) = Min(types)}
<1>1. /\ DOMAIN server_queue \in SUBSET Nat /\ DOMAIN server_queue # {}
      /\ \A k \in DOMAIN server_queue : server_queue[k] \in Message
  <2>1. /\ DOMAIN server_queue = 1 .. Len(server_queue) /\ Len(server_queue) \in Nat
        /\ \A k \in DOMAIN server_queue : server_queue[k] \in Message
    BY SeqIsSeq
  <2>2. Len(server_queue) # 0
    BY EmptySeq
  <2>3. 1 \in DOMAIN server_queue /\ DOMAIN server_queue \subseteq Nat
    BY <2>1, <2>2
  <2> QED
    BY <2>1, <2>3
<1>2. \A k \in DOMAIN server_queue : t(k) \in Nat
  BY <1>1 DEF Message, msg_type
<1>3. \A j, k \in DOMAIN server_queue : t(j) = t(k) => server_queue[j].type = server_queue[k].type
  BY <1>1 DEF Message, msg_type
<1> HIDE DEF t
<1>4. types \in SUBSET Nat /\ types # {}
  BY <1>1, <1>2
<1>5. Min(types) \in types /\ \A x \in types : Min(types) <= x
  BY <1>4, MinIsElement
<1>6. first \in SUBSET Nat /\ first # {}
  BY <1>1, <1>5
<1>7. Min(first) \in first /\ \A k \in first : Min(first) <= k
  BY <1>6, MinIsElement
<1> DEFINE n == Min(first)
<1>8. /\ n \in DOMAIN server_queue /\ t(n) = Min(types)
      /\ \A k \in DOMAIN server_queue : t(n) <= t(k) /\ (t(k) = t(n) => n <= k)
  BY <1>5, <1>7
<1> HIDE DEF n, types, first
<1> DEFINE Best(m) == \A k \in DOMAIN server_queue :
                        \/ t(m) < t(k)
                        \/ server_queue[m].type = server_queue[k].type /\ m <= k
<1>9. Best(n)
  BY <1>2, <1>3, <1>8
<1>10. NextMessage = CHOOSE m \in DOMAIN server_queue : Best(m)
  BY DEF NextMessage, t
<1>11. NextMessage \in DOMAIN server_queue /\ Best(NextMessage)
  BY <1>8, <1>9, <1>10
<1>12. \A k \in DOMAIN server_queue : t(NextMessage) <= t(k)
  BY <1>2, <1>11 DEF t
<1> QED
  BY <1>11, <1>12 DEF t

(* INIT is read last. *)
LEMMA InitIsLast ==
  ASSUME server_queue \in Seq(Message), server_queue # <<>>,
         server_queue[NextMessage].type = "INIT",
         NEW k \in DOMAIN server_queue
  PROVE  server_queue[k].type = "INIT"
<1>1. server_queue[k] \in Message
  OBVIOUS
<1>2. 5 <= msg_type[server_queue[k].type]
  BY NextIsFirst DEF msg_type
<1> QED
  BY <1>1, <1>2 DEF msg_type, Message
-----------------------------------------------------------------------------
(* exit_handler has STOPs to send and nothing else. *)
LEMMA ExitWork ==
  ASSUME NEW table, NEW how, exit_handler(table, how)
  PROVE  IsSeq(work)' /\ \A n \in DOMAIN work' : Grants(work[n].to, work[n].msg)'
<1> DEFINE k == Cardinality({i \in Ids : table[i] # Free})
<1>1. k \in Nat
  BY IdsAreFinite
<1> HIDE DEF k
<1>2. work' = [n \in 1 .. k |-> work'[n]] /\ \A n \in 1 .. k : work'[n].msg = Reply("STOP", NoId)
  BY DEF exit_handler, k
<1>3. IsSeq(work') /\ DOMAIN work' = 1 .. k
  BY <1>1, <1>2, FunctionIsSeq
<1>4. \A n \in DOMAIN work' : work'[n].msg.type = "STOP"
  BY <1>2, <1>3 DEF Reply
<1> QED
  BY <1>3, <1>4 DEF Grants, IsSeq

(* The other lists of things to send that give no one an ID. *)
LEMMA AnswerWork ==
  ASSUME NEW i, NEW type, type # "INIT", Sends(Answer(i, type))
  PROVE  IsSeq(work)' /\ \A n \in DOMAIN work' : Grants(work[n].to, work[n].msg)'
<1>1. DOMAIN work' = 1 .. 1 /\ work' = [n \in 1 .. 1 |-> work'[n]] /\ work'[1].msg.type # "INIT"
  BY DEF Sends, Answer, Reply
<1>2. IsSeq(work')
  BY <1>1, FunctionIsSeq
<1> QED
  BY <1>1, <1>2 DEF Grants, IsSeq

(* What the server may do with its table: give the empty slot that it finds to the client *)
(* that asks, empty the slot of the client that stops, or leave it alone.                 *)
Placed(m) ==
  /\ m.type = "INIT" /\ get_free_id # NoId
  /\ \E q \in {m.from, Failed} : CLIENT_QUEUES' = [CLIENT_QUEUES EXCEPT ![get_free_id] = q]
Emptied(m) ==
  m.type = "STOP" /\ CLIENT_QUEUES' = [j \in Ids |-> IF j = m.sender THEN Free ELSE CLIENT_QUEUES[j]]

(* A message handled: the table, the answers and the one ID that may be among them. *)
LEMMA Handled ==
  ASSUME Typed, NEW m \in Message, handle_msg(m)
  PROVE  /\ Placed(m) \/ Emptied(m) \/ UNCHANGED CLIENT_QUEUES
         /\ IsSeq(work)' /\ \A n \in DOMAIN work' : Grants(work[n].to, work[n].msg)'
<1>1. CASE m.type = "INIT" /\ init_client(m.from)
  <2>1. CASE get_free_id = NoId
    <3>1. exit_handler(CLIENT_QUEUES, "closing") /\ UNCHANGED CLIENT_QUEUES
      BY <1>1, <2>1 DEF init_client
    <3> QED
      BY <3>1, ExitWork
  <2>2. CASE get_free_id # NoId /\ ~ exists[m.from]
    <3> DEFINE table == [CLIENT_QUEUES EXCEPT ![get_free_id] = Failed]
    <3>1. exit_handler(table, "closing") /\ CLIENT_QUEUES' = table
      BY <1>1, <2>2 DEF init_client
    <3>2. Placed(m)
      BY <1>1, <2>2, <3>1 DEF Placed
    <3> QED
      BY <3>1, <3>2, ExitWork
  <2>3. CASE get_free_id # NoId /\ exists[m.from]
    <3>1. /\ CLIENT_QUEUES' = [CLIENT_QUEUES EXCEPT ![get_free_id] = m.from]
          /\ work' = <<[to |-> m.from, msg |-> Reply("INIT", get_free_id)]>>
      BY <1>1, <2>3 DEF init_client, Sends
    <3>2. get_free_id \in Ids /\ CLIENT_QUEUES[get_free_id] = Free
      BY <2>3, FreeIdIsFree
    <3>3. /\ DOMAIN work' = 1 .. 1 /\ work' = [n \in 1 .. 1 |-> work'[n]]
          /\ work'[1].to = m.from /\ work'[1].msg.id = get_free_id
      BY <3>1 DEF Reply
    <3>4. IsSeq(work')
      BY <3>3, FunctionIsSeq
    <3>5. CLIENT_QUEUES'[get_free_id] = m.from
      BY <3>1, <3>2 DEF Typed
    <3>6. \A n \in DOMAIN work' : Grants(work[n].to, work[n].msg)'
      BY <3>2, <3>3, <3>5 DEF Grants
    <3> QED
      BY <1>1, <2>3, <3>1, <3>4, <3>6 DEF Placed, IsSeq
  <2> QED
    BY <2>1, <2>2, <2>3
<1>2. CASE m.type = "STOP" /\ stop_client(m.sender)
  <2>1. Emptied(m) /\ work' = <<>>
    BY <1>2 DEF stop_client, Sends, Emptied
  <2> QED
    BY <2>1 DEF IsSeq, Range
<1>3. CASE m.type = "ALL" /\ send_to_all(m.sender)
  <2> DEFINE k == Cardinality(Taken \ {m.sender})
  <2>1. k \in Nat
    BY IdsAreFinite DEF Taken
  <2> HIDE DEF k
  <2>2. /\ work' = [n \in 1 .. k |-> work'[n]] /\ UNCHANGED CLIENT_QUEUES
        /\ \A n \in 1 .. k : work'[n].msg.type = "ONE"
    BY <1>3 DEF send_to_all, Sends, Answer, Reply, k
  <2>3. IsSeq(work') /\ DOMAIN work' = 1 .. k
    BY <2>1, <2>2, FunctionIsSeq
  <2> QED
    BY <2>2, <2>3 DEF Grants, IsSeq
<1>4. CASE m.type = "ONE" /\ send_to_one(m.receiver)
  <2>1. UNCHANGED CLIENT_QUEUES /\ (exit_handler(CLIENT_QUEUES, "closing") \/ Sends(Answer(m.receiver, "ONE")))
    BY <1>4 DEF send_to_one
  <2> QED
    BY <2>1, ExitWork, AnswerWork
<1>5. CASE m.type = "LIST" /\ list_all_active_clients(m.sender)
  <2>1. UNCHANGED CLIENT_QUEUES /\ Sends(Answer(m.sender, "LIST"))
    BY <1>5 DEF list_all_active_clients
  <2> QED
    BY <2>1, AnswerWork
<1> QED
  BY <1>1, <1>2, <1>3, <1>4, <1>5 DEF handle_msg
(* What receive_msg leaves of the queue, and the message that it handles. *)
LEMMA Received ==
  ASSUME Typed, receive_msg
  PROVE  /\ server_queue' \in Seq(Message)
         /\ \A n \in DOMAIN server_queue' :
              \E k \in DOMAIN server_queue : server_queue'[n] = server_queue[k]
         /\ \E n \in DOMAIN server_queue :
              /\ server_queue[n] \in Message /\ handle_msg(server_queue[n])
              /\ server_queue[n].type = "INIT" =>
                   \A k \in DOMAIN server_queue : server_queue[k].type = "INIT"
<1>1. server_queue \in Seq(Message) /\ server_queue # <<>>
  BY DEF Typed, receive_msg
<1>2. NextMessage \in DOMAIN server_queue /\ DOMAIN server_queue = 1 .. Len(server_queue)
  BY <1>1, NextIsFirst, SeqIsSeq
<1>3. server_queue[NextMessage] \in Message
  BY <1>1, <1>2, SeqIsSeq
<1>4. server_queue' = RemoveAt(server_queue, NextMessage) /\ handle_msg(server_queue[NextMessage])
  BY DEF receive_msg
<1>5. /\ server_queue' \in Seq(Message)
      /\ \A n \in DOMAIN server_queue' :
           \E k \in DOMAIN server_queue : server_queue'[n] = server_queue[k]
  <2>1. NextMessage \in 1 .. Len(server_queue)
    BY <1>2
  <2> QED
    BY <1>1, <1>4, <2>1, RemoveAtKeepsOthers
<1>6. server_queue[NextMessage].type = "INIT" =>
        \A k \in DOMAIN server_queue : server_queue[k].type = "INIT"
  BY <1>1, InitIsLast
<1> QED
  BY <1>2, <1>3, <1>4, <1>5, <1>6

(* The place of a message in the queue of a client. *)
LEMMA PositionIsIndex ==
  ASSUME NEW c, NEW type, IsSeq(queue[c]), Position(c, type) # 0
  PROVE  Position(c, type) \in 1 .. Len(queue[c]) /\ queue[c][Position(c, type)].type = type
<1> DEFINE I == {i \in 1 .. Len(queue[c]) : queue[c][i].type = type}
<1>1. Position(c, type) = IF I # {} THEN Min(I) ELSE 0
  BY DEF Position, SelectInSeq
<1>2. I \in SUBSET Nat
  BY SeqIsSeq DEF IsSeq
<1> QED
  BY <1>1, <1>2, MinIsElement

(* The queue of a client without one of its messages. *)
LEMMA QueueWithout ==
  ASSUME NEW c, NEW type, IsSeq(queue[c]), Position(c, type) # 0
  PROVE  /\ IsSeq(RemoveAt(queue[c], Position(c, type)))
         /\ \A n \in DOMAIN RemoveAt(queue[c], Position(c, type)) :
              \E k \in DOMAIN queue[c] : RemoveAt(queue[c], Position(c, type))[n] = queue[c][k]
BY PositionIsIndex, RemoveAtKeepsOthers, SeqIsSeq DEF IsSeq


(* The queues of the clients: what is in them was there before or is just sent. *)
QueuesOK ==
  /\ DOMAIN queue' = Clients /\ \A c \in Clients : IsSeq(queue'[c])
  /\ \A c \in Clients : \A n \in DOMAIN queue'[c] :
       \/ \E k \in DOMAIN queue[c] : queue'[c][n] = queue[c][k]
       \/ \E k \in DOMAIN work : work[k].to = c /\ queue'[c][n] = work[k].msg
LEMMA Delivered == ASSUME IInv, [Next]_vars PROVE QueuesOK
<1> USE DEF IInv
<1>1. ASSUME NEW c \in Clients, NEW q, IsSeq(q), queue' = [queue EXCEPT ![c] = q],
             \A n \in DOMAIN q : \/ \E k \in DOMAIN queue[c] : q[n] = queue[c][k]
                                 \/ \E k \in DOMAIN work : work[k].to = c /\ q[n] = work[k].msg
      PROVE  QueuesOK
  <2>1. DOMAIN queue' = Clients /\ queue'[c] = q /\ \A d \in Clients : d # c => queue'[d] = queue[d]
    BY <1>1 DEF Typed
  <2> QED
    BY <1>1, <2>1 DEF Typed, QueuesOK
<1>2. ASSUME NEW c \in Clients, queue' = [queue EXCEPT ![c] = <<>>]
      PROVE  QueuesOK
  <2>1. IsSeq(<<>>) /\ DOMAIN <<>> = {}
    BY DEF IsSeq, Range
  <2> QED
    BY <1>1, <1>2, <2>1
<1>3. ASSUME NEW c \in Clients, NEW type, Position(c, type) # 0,
             queue' = [queue EXCEPT ![c] = RemoveAt(@, Position(c, type))]
      PROVE  QueuesOK
  <2> DEFINE q == RemoveAt(queue[c], Position(c, type))
  <2>1. IsSeq(queue[c]) /\ queue' = [queue EXCEPT ![c] = q]
    BY <1>3 DEF Typed
  <2>2. IsSeq(q) /\ \A n \in DOMAIN q : \E k \in DOMAIN queue[c] : q[n] = queue[c][k]
    BY <1>3, <2>1, QueueWithout
  <2> HIDE DEF q
  <2> QED
    BY <1>1, <2>1, <2>2
<1>4. ASSUME NEW c \in Clients, queue[c] # <<>>, queue' = [queue EXCEPT ![c] = Tail(@)]
      PROVE  QueuesOK
  <2> DEFINE q == Tail(queue[c])
  <2>1. IsSeq(queue[c]) /\ queue' = [queue EXCEPT ![c] = q]
    BY <1>4 DEF Typed
  <2>2. IsSeq(q) /\ \A n \in DOMAIN q : \E k \in DOMAIN queue[c] : q[n] = queue[c][k]
    BY <1>4, <2>1, TailKeepsOthers
  <2> HIDE DEF q
  <2> QED
    BY <1>1, <2>1, <2>2
<1>5. ASSUME work # <<>>, Head(work).to \in Clients,
             queue' = [queue EXCEPT ![Head(work).to] = Append(@, Head(work).msg)]
      PROVE  QueuesOK
  <2>1. Head(work) = work[1] /\ 1 \in DOMAIN work
    BY <1>5, TailKeepsOthers DEF Typed
  <2> DEFINE c == Head(work).to
             q == Append(queue[c], Head(work).msg)
  <2>2. IsSeq(queue[c]) /\ queue' = [queue EXCEPT ![c] = q] /\ c \in Clients
    BY <1>5 DEF Typed
  <2>3. IsSeq(q) /\ \A n \in DOMAIN q : \/ \E k \in DOMAIN queue[c] : q[n] = queue[c][k]
                                        \/ q[n] = Head(work).msg
    BY <2>2, AppendAdds
  <2>4. \A n \in DOMAIN q : \/ \E k \in DOMAIN queue[c] : q[n] = queue[c][k]
                            \/ \E k \in DOMAIN work : work[k].to = c /\ q[n] = work[k].msg
    BY <2>1, <2>3
  <2> HIDE DEF c, q
  <2> QED
    BY <1>1, <2>2, <2>3, <2>4
<1>6. CASE UNCHANGED queue
  BY <1>6 DEF Typed, QueuesOK
<1>7. CASE ServerSends
  BY <1>5, <1>6, <1>7 DEF ServerSends, IsOpen
<1>8. ASSUME NEW c \in Clients, send_INIT(c) \/ send_LIST(c) \/ Exit(c) \/ handle_queue_msg(c)
      PROVE  QueuesOK
  BY <1>2, <1>3, <1>4, <1>6, <1>8 DEF send_INIT, send_LIST, Exit, handle_queue_msg, handle_exit
<1>9. CASE receive_msg \/ ServerSent \/ sigint_handler \/ UNCHANGED vars
  BY <1>6, <1>9 DEF receive_msg, ServerSent, sigint_handler, vars
<1>10. ASSUME NEW c \in Clients, \/ setup_queues(c) \/ send_msg(c) \/ run(c) \/ send_STOP(c)
                                 \/ handle_queue_input(c) \/ Interrupt(c) \/ ChildPolls(c)
      PROVE  QueuesOK
  BY <1>6, <1>10 DEF setup_queues, send_msg, run, send_STOP, handle_queue_input, Interrupt, ChildPolls
<1> QED
  BY <1>7, <1>8, <1>9, <1>10 DEF Next, ServerStep, ParentStep, ChildStep

(* The server's queue: what is in it was there before or is just sent by a client that *)
(* speaks for itself.                                                                  *)
Says(c, m) ==
  \/ parent[c] = "send" /\ m = out[c]
  \/ parent[c] = "stop" /\ parent'[c] = "leave" /\ m = Msg("STOP", c, id[c], NoId)
LEMMA Posting ==
  ASSUME IInv, [Next]_vars
  PROVE  /\ server_queue' \in Seq(Message)
         /\ \A n \in DOMAIN server_queue' :
              \/ \E k \in DOMAIN server_queue : server_queue'[n] = server_queue[k]
              \/ \E c \in Clients : /\ Says(c, server_queue'[n]) /\ UNCHANGED <<id, CLIENT_QUEUES>>
<1> USE DEF IInv
<1>1. CASE receive_msg
  BY <1>1, Received
<1>2. ASSUME NEW c \in Clients, NEW m \in Message, Posted(c, m)
      PROVE  /\ server_queue' \in Seq(Message)
             /\ \A n \in DOMAIN server_queue' :
                  \/ \E k \in DOMAIN server_queue : server_queue'[n] = server_queue[k]
                  \/ server_queue'[n] = m
  <2>1. server_queue \in Seq(Message) /\ server_queue' = Append(server_queue, m)
    BY <1>2 DEF Typed, Posted
  <2> QED
    BY <2>1, SeqIsSeq, AppendAdds
<1>3. ASSUME NEW c \in Clients, send_msg(c)
      PROVE  out[c] \in Message /\ Posted(c, out[c]) /\ Says(c, out[c])
             /\ UNCHANGED <<id, CLIENT_QUEUES>>
  BY <1>3 DEF send_msg, Typed, ParentTyped, Says, serverVars
<1>4. ASSUME NEW c \in Clients, send_STOP(c)
      PROVE  LET m == Msg("STOP", c, id[c], NoId)
             IN m \in Message /\ Posted(c, m) /\ Says(c, m) /\ UNCHANGED <<id, CLIENT_QUEUES>>
  BY <1>4 DEF send_STOP, Typed, ParentTyped, Says, serverVars, Msg, Message
<1>5. CASE UNCHANGED server_queue
  BY <1>5 DEF Typed
<1>6. CASE ServerSends \/ ServerSent \/ sigint_handler \/ UNCHANGED vars
  BY <1>5, <1>6 DEF ServerSends, ServerSent, sigint_handler, vars
<1>7. ASSUME NEW c \in Clients,
             \/ setup_queues(c) \/ send_INIT(c) \/ run(c) \/ send_LIST(c) \/ Exit(c)
             \/ handle_queue_input(c) \/ Interrupt(c) \/ ChildPolls(c) \/ handle_queue_msg(c)
      PROVE  UNCHANGED server_queue
  BY <1>7 DEF setup_queues, send_INIT, run, send_LIST, Exit, handle_queue_input, Interrupt,
              ChildPolls, handle_queue_msg
<1> QED
  BY <1>1, <1>2, <1>3, <1>4, <1>5, <1>6, <1>7 DEF Next, ServerStep, ParentStep, ChildStep


(* The server's table: a slot is given while only INITs wait, or emptied for a STOP, by a *)
(* step that concerns no client.                                                          *)
Given ==
  /\ \E i \in Ids : \E q \in Clients \cup {Failed} :
       CLIENT_QUEUES[i] = Free /\ CLIENT_QUEUES' = [CLIENT_QUEUES EXCEPT ![i] = q]
  /\ \A k \in DOMAIN server_queue : server_queue[k].type = "INIT"
  /\ UNCHANGED <<id, parent, queue>>
TakenBack ==
  /\ \E k \in DOMAIN server_queue : Emptied(server_queue[k])
  /\ UNCHANGED <<id, parent, queue>>
LEMMA Table ==
  ASSUME IInv, [Next]_vars
  PROVE  /\ Given \/ TakenBack \/ UNCHANGED CLIENT_QUEUES
         /\ IsSeq(work)'
         /\ \A n \in DOMAIN work' :
              \/ Grants(work[n].to, work[n].msg)'
              \/ (\E k \in DOMAIN work : work'[n] = work[k]) /\ UNCHANGED CLIENT_QUEUES
<1> USE DEF IInv
<1>1. CASE receive_msg
  <2>1. PICK n \in DOMAIN server_queue :
          /\ server_queue[n] \in Message /\ handle_msg(server_queue[n])
          /\ server_queue[n].type = "INIT" =>
               \A k \in DOMAIN server_queue : server_queue[k].type = "INIT"
    BY <1>1, Received
  <2> DEFINE m == server_queue[n]
  <2>2. /\ Placed(m) \/ Emptied(m) \/ UNCHANGED CLIENT_QUEUES
        /\ IsSeq(work)' /\ \A j \in DOMAIN work' : Grants(work[j].to, work[j].msg)'
    BY <2>1, Handled
  <2>3. m.from \in Clients /\ UNCHANGED <<id, parent, queue>>
    BY <1>1, <2>1 DEF receive_msg, processVars, Message
  <2>4. ASSUME Placed(m)
        PROVE  Given
    BY <2>1, <2>3, <2>4, FreeIdIsFree DEF Placed, Given
  <2>5. ASSUME Emptied(m)
        PROVE  TakenBack
    BY <2>3, <2>5 DEF TakenBack
  <2> QED
    BY <2>2, <2>4, <2>5
<1>2. CASE ServerSends
  <2>1. CASE work' = Tail(work) /\ work # <<>>
    <3>1. IsSeq(Tail(work)) /\ \A n \in DOMAIN Tail(work) : \E k \in DOMAIN work : Tail(work)[n] = work[k]
      BY <2>1, TailKeepsOthers DEF Typed
    <3> QED
      BY <1>2, <2>1, <3>1 DEF ServerSends, IsSeq
  <2>2. CASE exit_handler(CLIENT_QUEUES, "closing")
    BY <1>2, <2>2, ExitWork DEF ServerSends
  <2> QED
    BY <1>2, <2>1, <2>2 DEF ServerSends
<1>3. CASE sigint_handler
  <2>1. CASE exit_handler(CLIENT_QUEUES, "stopping")
    BY <1>3, <2>1, ExitWork DEF sigint_handler
  <2>2. CASE work' = <<>>
    <3>1. IsSeq(<<>>) /\ DOMAIN <<>> = {}
      BY DEF IsSeq, Range
    <3>2. UNCHANGED CLIENT_QUEUES
      BY <1>3 DEF sigint_handler
    <3> QED
      BY <2>2, <3>1, <3>2 DEF IsSeq
  <2> QED
    BY <1>3, <2>1, <2>2 DEF sigint_handler
<1>4. CASE UNCHANGED <<work, CLIENT_QUEUES>>
  BY <1>4 DEF Typed, IsSeq
<1>5. CASE ServerSent \/ UNCHANGED vars
  BY <1>4, <1>5 DEF ServerSent, vars
<1>6. ASSUME NEW c \in Clients, \/ ParentStep(c) \/ handle_queue_input(c) \/ Interrupt(c)
                                \/ ChildStep(c)
      PROVE  UNCHANGED <<work, CLIENT_QUEUES>>
  BY <1>6 DEF ParentStep, ChildStep, setup_queues, send_msg, send_INIT, run, send_LIST, send_STOP,
              Exit, handle_queue_input, Interrupt, ChildPolls, handle_queue_msg, serverVars
<1> QED
  BY <1>1, <1>2, <1>3, <1>4, <1>5, <1>6 DEF Next, ServerStep


(* The ID in the answer to INIT is a place that the server keeps for the client. *)
LEMMA IdFromAnswer ==
  ASSUME IInv, NEW c \in Clients, send_INIT(c)
  PROVE  /\ id[c] = NoId /\ id'[c] \in Ids /\ (Calm => CLIENT_QUEUES[id'[c]] = c)
         /\ parent[c] = "await INIT" /\ UNCHANGED <<CLIENT_QUEUES, server_queue>>
<1> USE DEF IInv
<1> DEFINE p == Position(c, "INIT")
<1>1. parent[c] = "await INIT" /\ p # 0 /\ IsSeq(queue[c])
  BY DEF send_INIT, Typed
<1>2. p \in DOMAIN queue[c] /\ queue[c][p].type = "INIT"
  <2>1. p \in 1 .. Len(queue[c]) /\ queue[c][p].type = "INIT"
    BY <1>1, PositionIsIndex
  <2>2. DOMAIN queue[c] = 1 .. Len(queue[c])
    BY <1>1, SeqIsSeq DEF IsSeq
  <2> QED
    BY <2>1, <2>2
<1>3. id[c] = NoId
  BY <1>1 DEF OwnWords, OwnWord
<1>4. queue[c][p].id \in Ids /\ (Calm => CLIENT_QUEUES[queue[c][p].id] = c)
  BY <1>2, <1>3 DEF Promised, Grants
<1>5. id'[c] = queue[c][p].id /\ UNCHANGED <<CLIENT_QUEUES, server_queue>>
  BY DEF send_INIT, Typed, ParentTyped, serverVars
<1> QED
  BY <1>1, <1>3, <1>4, <1>5

(* An ID is taken once, from an answer in which it is promised. *)
LEMMA IdIsTaken ==
  ASSUME IInv, [Next]_vars, NEW c \in Clients
  PROVE  \/ id'[c] = id[c]
         \/ /\ id[c] = NoId /\ id'[c] \in Ids /\ (Calm => CLIENT_QUEUES[id'[c]] = c)
            /\ parent[c] = "await INIT" /\ UNCHANGED <<CLIENT_QUEUES, server_queue>>
<1> USE DEF IInv
<1>1. ASSUME NEW d \in Clients, send_INIT(d)
      PROVE  \/ id'[c] = id[c]
             \/ /\ id[c] = NoId /\ id'[c] \in Ids /\ (Calm => CLIENT_QUEUES[id'[c]] = c)
                /\ parent[c] = "await INIT" /\ UNCHANGED <<CLIENT_QUEUES, server_queue>>
  <2>1. CASE d # c
    BY <1>1, <2>1 DEF send_INIT, Typed, ParentTyped
  <2>2. CASE d = c
    BY <1>1, <2>2, IdFromAnswer
  <2> QED
    BY <2>1, <2>2
<1>2. ASSUME NEW d \in Clients,
             \/ setup_queues(d) \/ send_msg(d) \/ run(d) \/ send_LIST(d) \/ send_STOP(d) \/ Exit(d)
             \/ handle_queue_input(d) \/ Interrupt(d) \/ ChildStep(d)
      PROVE  UNCHANGED id
  BY <1>2 DEF ChildStep, setup_queues, send_msg, run, send_LIST, send_STOP, Exit,
              handle_queue_input, Interrupt, ChildPolls, handle_queue_msg
<1>3. CASE ServerStep \/ sigint_handler \/ UNCHANGED vars
  BY <1>3 DEF ServerStep, receive_msg, ServerSends, ServerSent, sigint_handler, processVars, vars
<1> QED
  BY <1>1, <1>2, <1>3 DEF Next, ParentStep


(* What a client may send to the server. *)
LEMMA Spoken ==
  ASSUME ParentTyped, NEW c \in Clients
  PROVE  /\ Hello(c) \in Message /\ Hello(c).from = c /\ Hello(c).type = "INIT"
         /\ Hello(c).sender = 0
         /\ \A m \in Commands(c) : /\ m \in Message /\ m.from = c /\ m.sender = id[c]
                                   /\ m.type \notin {"INIT", "STOP"}
         /\ Msg("STOP", c, id[c], NoId) \in Message
<1>1. id[c] \in Ids \cup {NoId} /\ NoId \in Ids \cup {NoId} /\ 0 \in Ids \cup {NoId}
  BY Distinct DEF ParentTyped
<1>2. ASSUME NEW type \in {"STOP", "LIST", "ALL", "ONE", "INIT"}, NEW i \in Ids \cup {NoId},
             NEW j \in Ids \cup {NoId}
      PROVE  Msg(type, c, i, j) \in Message /\ Msg(type, c, i, j).from = c
             /\ Msg(type, c, i, j).sender = i /\ Msg(type, c, i, j).type = type
  BY DEF Msg, Message
<1>3. \A m \in Commands(c) : \E j \in Ids \cup {NoId} : \E type \in {"LIST", "ALL", "ONE"} :
        m = Msg(type, c, id[c], j)
  BY DEF Commands
<1> QED
  BY <1>1, <1>2, <1>3 DEF Hello


(* A client changes nothing of another one. *)
ClientStep(c) ==
  ParentStep(c) \/ handle_queue_input(c) \/ Interrupt(c) \/ ChildStep(c)
LEMMA OnlyItself ==
  ASSUME ParentTyped, NEW c \in Clients, ClientStep(c), NEW d \in Clients, d # c
  PROVE  parent'[d] = parent[d] /\ id'[d] = id[d] /\ out'[d] = out[d]
<1>1. CASE handle_queue_input(c)
  <2>1. out' = out \/ \E m \in Commands(c) : out' = [out EXCEPT ![c] = m]
    BY <1>1 DEF handle_queue_input
  <2> QED
    BY <1>1, <2>1 DEF handle_queue_input, ParentTyped
<1>2. CASE ParentStep(c)
  BY <1>2 DEF ParentStep, setup_queues, send_msg, send_INIT, run, send_LIST, send_STOP, Exit, ParentTyped
<1>3. CASE Interrupt(c) \/ ChildStep(c)
  BY <1>3 DEF ChildStep, Interrupt, ChildPolls, handle_queue_msg, processVars, ParentTyped
<1> QED
  BY <1>1, <1>2, <1>3 DEF ClientStep

(* A client uses an ID only after the answer to INIT, which it asks for once. *)
LEMMA OwnWordsStep == ASSUME IInv, [Next]_vars PROVE OwnWords'
<1>0. ParentTyped /\ OwnWords
  BY DEF IInv, Typed
<1>1. ASSUME NEW c \in Clients, ClientStep(c)
      PROVE  OwnWord(c)'
  <2> USE Distinct DEF OwnWord
  <2>0. /\ OwnWord(c) /\ parent[c] \in ParentPc /\ out[c] \in Message
        /\ DOMAIN parent = Clients /\ DOMAIN out = Clients /\ DOMAIN id = Clients
    BY <1>0 DEF OwnWords, ParentTyped
  <2>1. CASE setup_queues(c)
    BY <2>1, <2>0 DEF setup_queues, processVars
  <2>2. CASE send_msg(c)
    BY <1>0, <2>2, <2>0, Spoken DEF send_msg, processVars
  <2>3. CASE run(c)
    BY <2>3, <2>0 DEF run, processVars
  <2>4. CASE send_LIST(c)
    BY <2>4, <2>0 DEF send_LIST, processVars
  <2>5. CASE send_STOP(c)
    BY <2>5, <2>0 DEF send_STOP, processVars
  <2>6. CASE Exit(c)
    BY <2>6, <2>0 DEF Exit, processVars
  <2>7. CASE handle_queue_input(c)
    <3>1. CASE out' = out /\ parent'[c] = "stop"
      BY <2>7, <2>0, <3>1 DEF handle_queue_input, processVars
    <3>2. ASSUME NEW m \in Commands(c), out' = [out EXCEPT ![c] = m], parent'[c] = "send"
          PROVE  OwnWord(c)'
      BY <2>7, <2>0, <3>2, <1>0, Spoken DEF handle_queue_input, processVars
    <3> QED
      BY <2>7, <2>0, <3>1, <3>2 DEF handle_queue_input
  <2>8. CASE Interrupt(c)
    BY <1>0, <2>8, <2>0, Spoken DEF Interrupt, processVars
  <2>9. CASE ChildPolls(c)
    BY <2>9, <2>0 DEF ChildPolls, processVars
  <2>10. CASE handle_queue_msg(c)
    BY <2>10, <2>0 DEF handle_queue_msg, processVars
  <2>11. CASE send_INIT(c)
    BY <2>11, <2>0, IdFromAnswer DEF send_INIT
  <2> QED
    BY <1>1, <2>1, <2>2, <2>3, <2>4, <2>5, <2>6, <2>7, <2>8, <2>9, <2>10, <2>11
       DEF ClientStep, ParentStep, ChildStep
<1>2. ASSUME NEW c \in Clients, ClientStep(c)
      PROVE  OwnWords'
  <2>1. ASSUME NEW d \in Clients, d # c
        PROVE  OwnWord(d)'
    <3>1. parent'[d] = parent[d] /\ id'[d] = id[d] /\ out'[d] = out[d]
      BY <1>0, <1>2, <2>1, OnlyItself
    <3>2. OwnWord(d)
      BY <1>0 DEF OwnWords
    <3> QED
      BY <3>1, <3>2 DEF OwnWord
  <2> QED
    BY <1>1, <1>2, <2>1 DEF OwnWords
<1>3. CASE ServerStep \/ sigint_handler \/ UNCHANGED vars
  <2>1. UNCHANGED <<parent, id, out>>
    BY <1>3 DEF ServerStep, receive_msg, ServerSends, ServerSent, sigint_handler, processVars, vars
  <2> QED
    BY <1>0, <2>1 DEF OwnWords, OwnWord
<1> QED
  BY <1>2, <1>3 DEF Next, ClientStep

(* The parents go from one place to the next with messages that are messages. *)
LEMMA ParentStepTyped == ASSUME IInv, [Next]_vars PROVE ParentTyped'
<1>0. ParentTyped /\ OwnWords
  BY DEF IInv, Typed
<1> USE <1>0
<1> USE Distinct DEF serverVars, processVars, ParentTyped, ParentPc
<1>1. CASE receive_msg
  BY <1>1 DEF receive_msg
<1>2. CASE ServerSends
  BY <1>2 DEF ServerSends
<1>3. CASE ServerSent
  BY <1>3 DEF ServerSent
<1>4. CASE sigint_handler
  BY <1>4 DEF sigint_handler
<1>5. ASSUME NEW c \in Clients, setup_queues(c)
      PROVE  ParentTyped'
  BY <1>5 DEF setup_queues
<1>6. ASSUME NEW c \in Clients, send_msg(c)
      PROVE  ParentTyped'
  BY <1>6, Spoken DEF send_msg
<1>7. ASSUME NEW c \in Clients, send_INIT(c)
      PROVE  ParentTyped'
  <2>1. id'[c] \in Ids \cup {NoId}
    BY <1>7, IdFromAnswer
  <2>2. id' = [id EXCEPT ![c] = id'[c]]
    BY <1>7 DEF send_INIT
  <2> QED
    BY <1>7, <2>1, <2>2 DEF send_INIT
<1>8. ASSUME NEW c \in Clients, run(c)
      PROVE  ParentTyped'
  BY <1>8 DEF run
<1>9. ASSUME NEW c \in Clients, send_LIST(c)
      PROVE  ParentTyped'
  BY <1>9 DEF send_LIST
<1>10. ASSUME NEW c \in Clients, send_STOP(c)
      PROVE  ParentTyped'
  BY <1>10, Spoken DEF send_STOP
<1>11. ASSUME NEW c \in Clients, Exit(c)
      PROVE  ParentTyped'
  BY <1>11 DEF Exit
<1>12. ASSUME NEW c \in Clients, handle_queue_input(c)
      PROVE  ParentTyped'
  <2>1. out' = out \/ \E m \in Commands(c) : out' = [out EXCEPT ![c] = m]
    BY <1>12 DEF handle_queue_input
  <2>2. out' \in [Clients -> Message]
    <3>1. ASSUME NEW m \in Commands(c), out' = [out EXCEPT ![c] = m]
          PROVE  out' \in [Clients -> Message]
      <4>1. m \in Message
        BY Spoken
      <4> QED
        BY <3>1, <4>1
    <3> QED
      BY <2>1, <3>1
  <2> QED
    BY <1>12, <2>2 DEF handle_queue_input
<1>13. ASSUME NEW c \in Clients, Interrupt(c)
      PROVE  ParentTyped'
  BY <1>13, Spoken DEF Interrupt
<1>14. ASSUME NEW c \in Clients, ChildPolls(c)
      PROVE  ParentTyped'
  BY <1>14 DEF ChildPolls
<1>15. ASSUME NEW c \in Clients, handle_queue_msg(c)
      PROVE  ParentTyped'
  BY <1>15 DEF handle_queue_msg
<1>16. CASE UNCHANGED vars
  BY <1>16 DEF vars
<1> QED
  BY <1>1, <1>2, <1>3, <1>4, <1>5, <1>6, <1>7, <1>8, <1>9, <1>10, <1>11, <1>12,
     <1>13, <1>14, <1>15, <1>16
     DEF Next, ServerStep, ParentStep, ChildStep


(* Every step keeps the types. *)
LEMMA TypedStep == ASSUME IInv, [Next]_vars PROVE Typed'
<1>1. CLIENT_QUEUES' \in [Ids -> Clients \cup {Free, Failed}]
  <2>1. CLIENT_QUEUES \in [Ids -> Clients \cup {Free, Failed}]
    BY DEF IInv, Typed
  <2> QED
    BY <2>1, Table DEF Given, TakenBack, Emptied
<1> QED
  BY <1>1, Table, Delivered, Posting, ParentStepTyped DEF Typed, QueuesOK, IsSeq

(* Who has stopped twice has done so for good. *)
LEMMA CalmBefore == ASSUME Typed, [Next]_vars, Calm' PROVE Calm
<1> USE DEF Calm, StopsTwice, Typed, ParentTyped
<1>1. ASSUME NEW d \in Clients, Interrupt(d) \/ Exit(d)
      PROVE  Calm
  <2>1. sigint' = [sigint EXCEPT ![d] = sigint'[d]] /\ (sigint[d] = "again" => sigint'[d] = "again")
    BY <1>1 DEF Interrupt, Exit
  <2> QED
    BY <2>1
<1>2. CASE UNCHANGED sigint
  BY <1>2
<1>3. ASSUME NEW d \in Clients, \/ setup_queues(d) \/ send_msg(d) \/ send_INIT(d) \/ run(d)
                                \/ send_LIST(d) \/ send_STOP(d) \/ handle_queue_input(d) \/ ChildStep(d)
      PROVE  UNCHANGED sigint
  BY <1>3 DEF setup_queues, send_msg, send_INIT, run, send_LIST, send_STOP, handle_queue_input,
              ChildStep, ChildPolls, handle_queue_msg
<1>4. CASE ServerStep \/ sigint_handler \/ UNCHANGED vars
  BY <1>2, <1>4 DEF ServerStep, receive_msg, ServerSends, ServerSent, sigint_handler, processVars, vars
<1> QED
  BY <1>1, <1>2, <1>3, <1>4 DEF Next, ParentStep

(* A place that is promised or taken by a client that has not sent STOP stays its own. *)
LEMMA PlaceIsKept ==
  ASSUME IInv, [Next]_vars, Calm, NEW c \in Clients, NEW i \in Ids, CLIENT_QUEUES[i] = c,
         id[c] # i \/ parent[c] \notin {"leave", "left"}
  PROVE  CLIENT_QUEUES'[i] = c
<1> USE Distinct DEF IInv
<1>1. CASE Given
  <2>1. PICK j \in Ids, q \in Clients \cup {Failed} :
          CLIENT_QUEUES[j] = Free /\ CLIENT_QUEUES' = [CLIENT_QUEUES EXCEPT ![j] = q]
    BY <1>1 DEF Given
  <2> QED
    BY <2>1 DEF Typed
<1>2. CASE TakenBack
  <2>1. PICK k \in DOMAIN server_queue : Emptied(server_queue[k])
    BY <1>2 DEF TakenBack
  <2> DEFINE m == server_queue[k]
  <2>2. m.sender # i
    <3>1. SUFFICES ASSUME m.sender = i
                   PROVE  FALSE
      OBVIOUS
    <3>2. m.from = c
      BY <2>1, <3>1 DEF SenderIsWhoItSays, Calm, Emptied
    <3>3. m.type = "STOP" /\ m.sender = id[c] /\ parent[c] \in {"leave", "left"}
      BY <2>1, <3>2 DEF Emptied, Messages, Honest
    <3> QED
      BY <3>1, <3>3
  <2> QED
    BY <2>1, <2>2 DEF Emptied
<1> QED
  BY <1>1, <1>2, Table

(* A client that has sent STOP has left for good, if it does not stop twice. *)
LEMMA LeftForGood ==
  ASSUME IInv, [Next]_vars, Calm', NEW c \in Clients, parent[c] \in {"leave", "left"}
  PROVE  parent'[c] \in {"leave", "left"}
<1> USE DEF IInv, Typed, ParentTyped, Calm, StopsTwice
<1>1. ASSUME NEW d \in Clients, ParentStep(d) \/ handle_queue_input(d) \/ Interrupt(d) \/ ChildStep(d)
      PROVE  parent'[c] \in {"leave", "left"}
  BY <1>1 DEF ParentStep, ChildStep, setup_queues, send_msg, send_INIT, run, send_LIST, send_STOP,
              Exit, handle_queue_input, Interrupt, ChildPolls, handle_queue_msg
<1>2. CASE ServerStep \/ sigint_handler \/ UNCHANGED vars
  BY <1>2 DEF ServerStep, receive_msg, ServerSends, ServerSent, sigint_handler, processVars, vars
<1> QED
  BY <1>1, <1>2 DEF Next

(* No step takes a place from a client that has not sent STOP. *)
LEMMA PlacesStep == ASSUME IInv, [Next]_vars PROVE Places'
<1>1. SUFFICES ASSUME Calm', NEW c \in Clients, id'[c] # NoId, parent'[c] \notin {"leave", "left"}
               PROVE  CLIENT_QUEUES'[id'[c]] = c
  BY DEF Places
<1>0. Calm
  BY <1>1, CalmBefore DEF IInv
<1>2. CASE id'[c] = id[c]
  <2>1. parent[c] \notin {"leave", "left"}
    BY <1>1, LeftForGood
  <2>2. id[c] \in Ids /\ CLIENT_QUEUES[id[c]] = c
    BY <1>0, <1>1, <1>2, <2>1 DEF IInv, Places, Typed, ParentTyped
  <2> QED
    BY <1>0, <1>2, <2>1, <2>2, PlaceIsKept
<1>3. CASE id'[c] # id[c]
  BY <1>0, <1>3, IdIsTaken
<1> QED
  BY <1>2, <1>3

(* What was honest when it was sent stays so, because an ID never changes. *)
LEMMA MessagesStep == ASSUME IInv, [Next]_vars PROVE Messages'
<1> USE Distinct DEF IInv
<1>1. SUFFICES ASSUME Calm', NEW n \in DOMAIN server_queue'
               PROVE  Honest(server_queue[n])'
  BY DEF Messages
<1>0. Calm
  BY <1>1, CalmBefore
<1> DEFINE m == server_queue'[n]
<1>2. m \in Message
  BY Posting, SeqIsSeq
<1>3. ASSUME NEW k \in DOMAIN server_queue, m = server_queue[k]
      PROVE  Honest(server_queue[n])'
  <2>1. Honest(m) /\ m.from \in Clients
    BY <1>0, <1>2, <1>3 DEF Messages, Message
  <2>2. m.type = "INIT" \/ id'[m.from] = id[m.from]
    <3>1. SUFFICES ASSUME m.type # "INIT", id'[m.from] # id[m.from]
                   PROVE  FALSE
      OBVIOUS
    <3>2. id[m.from] = NoId /\ parent[m.from] = "await INIT"
      BY <2>1, <3>1, IdIsTaken
    <3> QED
      BY <2>1, <3>1, <3>2 DEF Honest
  <2>3. m.type = "STOP" => parent'[m.from] \in {"leave", "left"}
    BY <1>1, <2>1, LeftForGood DEF Honest
  <2> QED
    BY <2>1, <2>2, <2>3 DEF Honest
<1>4. ASSUME NEW c \in Clients, Says(c, m), UNCHANGED <<id, CLIENT_QUEUES>>
      PROVE  Honest(server_queue[n])'
  <2>1. OwnWord(c)
    BY DEF OwnWords
  <2>2. CASE m = out[c]
    BY <1>4, <2>1, <2>2 DEF Honest, OwnWord
  <2>3. CASE m = Msg("STOP", c, id[c], NoId) /\ parent'[c] = "leave"
    BY <1>4, <2>3 DEF Honest, Msg
  <2> QED
    BY <1>4, <2>2, <2>3 DEF Says
<1> QED
  BY <1>3, <1>4, Posting

(* The heart of it: a place changes hands only when nothing waits that carries its ID. *)
LEMMA SenderStep == ASSUME IInv, [Next]_vars PROVE SenderIsWhoItSays'
<1> USE Distinct DEF IInv
<1>1. SUFFICES ASSUME Calm', NEW n \in DOMAIN server_queue', server_queue'[n].type # "INIT",
                      server_queue'[n].sender # NoId,
                      CLIENT_QUEUES'[server_queue'[n].sender] # Free
               PROVE  CLIENT_QUEUES'[server_queue'[n].sender] = server_queue'[n].from
  BY DEF SenderIsWhoItSays, Calm
<1>0. Calm
  BY <1>1, CalmBefore
<1> DEFINE m == server_queue'[n]
<1>2. m \in Message /\ m.sender \in Ids
  <2>1. m \in Message
    BY Posting, SeqIsSeq
  <2> QED
    BY <1>1, <2>1 DEF Message
<1>3. ASSUME NEW k \in DOMAIN server_queue, m = server_queue[k]
      PROVE  CLIENT_QUEUES'[m.sender] = m.from
  <2>1. Honest(m)
    BY <1>0, <1>3 DEF Messages
  <2>2. CLIENT_QUEUES[m.sender] # Free => CLIENT_QUEUES[m.sender] = m.from
    BY <1>0, <1>1, <1>3 DEF SenderIsWhoItSays, Calm
  <2>3. CASE Given
    BY <1>1, <1>3, <2>3 DEF Given
  <2>4. CASE TakenBack
    BY <1>1, <1>2, <2>2, <2>4 DEF TakenBack, Emptied
  <2> QED
    BY <1>1, <2>2, <2>3, <2>4, Table
<1>4. ASSUME NEW c \in Clients, Says(c, m), UNCHANGED <<id, CLIENT_QUEUES>>
      PROVE  CLIENT_QUEUES'[m.sender] = m.from
  <2>1. m.from = c /\ m.sender = id[c] /\ parent[c] \in {"send", "stop"}
    <3>1. OwnWord(c)
      BY DEF OwnWords
    <3>2. CASE parent[c] = "send" /\ m = out[c]
      BY <1>1, <3>1, <3>2 DEF OwnWord
    <3>3. CASE parent[c] = "stop" /\ m = Msg("STOP", c, id[c], NoId)
      BY <3>3 DEF Msg
    <3> QED
      BY <1>4, <3>2, <3>3 DEF Says
  <2> QED
    BY <1>0, <1>1, <1>4, <2>1 DEF Places
<1> QED
  BY <1>3, <1>4, Posting

(* An ID on its way to a client stays promised to it. *)
LEMMA PromisedStep == ASSUME IInv, [Next]_vars PROVE Promised'
<1> USE Distinct DEF IInv
<1>1. SUFFICES ASSUME NEW c \in Clients, id'[c] = NoId
               PROVE  /\ \A n \in DOMAIN queue'[c] : Grants(c, queue[c][n])'
                      /\ \A n \in DOMAIN work' : work'[n].to = c => Grants(c, work[n].msg)'
  BY DEF Promised
<1>2. id[c] = NoId
  BY <1>1, IdIsTaken
<1>3. ASSUME NEW r, Grants(c, r)
      PROVE  r.type = "INIT" => r.id \in Ids /\ (Calm' => CLIENT_QUEUES'[r.id] = c)
  BY <1>2, <1>3, PlaceIsKept, CalmBefore DEF Grants
<1>4. ASSUME NEW n \in DOMAIN queue'[c]
      PROVE  Grants(c, queue[c][n])'
  <2>1. Grants(c, queue'[c][n])
    BY <1>2, Delivered DEF QueuesOK, Promised
  <2> QED
    BY <1>3, <2>1 DEF Grants
<1>5. ASSUME NEW n \in DOMAIN work', work'[n].to = c
      PROVE  Grants(c, work[n].msg)'
  <2>1. CASE Grants(work[n].to, work[n].msg)'
    BY <1>5, <2>1 DEF Grants
  <2>2. ASSUME NEW k \in DOMAIN work, work'[n] = work[k], UNCHANGED CLIENT_QUEUES
        PROVE  Grants(c, work[n].msg)'
    BY <1>2, <1>5, <2>2, CalmBefore DEF Promised, Grants
  <2> QED
    BY <2>1, <2>2, Table
<1> QED
  BY <1>4, <1>5

-------------------------------------------------------------------------------
(* At first nothing is said, promised or taken. *)
LEMMA InitIInv == Init => IInv
<1> SUFFICES ASSUME Init
             PROVE  IInv
  OBVIOUS
<1> USE Distinct DEF Init
<1>1. IsSeq(<<>>) /\ DOMAIN <<>> = {} /\ <<>> \in Seq(Message)
  BY DEF IsSeq, Range
<1>2. ParentTyped
  <2>1. id \in [Clients -> Ids \cup {NoId}] /\ parent \in [Clients -> ParentPc]
    BY DEF ParentPc
  <2>2. \A c \in Clients : Hello(c) \in Message
    BY DEF Hello, Msg, Message
  <2> QED
    BY <2>1, <2>2 DEF ParentTyped
<1>3. Typed
  BY <1>1, <1>2 DEF Typed
<1>4. OwnWords
  BY <1>2, Spoken DEF OwnWords, OwnWord
<1>5. Messages /\ SenderIsWhoItSays /\ Places /\ Promised
  BY <1>1 DEF Messages, SenderIsWhoItSays, Places, Promised
<1> QED
  BY <1>3, <1>4, <1>5 DEF IInv

(* Every step keeps every part of the inductive invariant. *)
LEMMA NextIInv == IInv /\ [Next]_vars => IInv'
BY TypedStep, OwnWordsStep, MessagesStep, SenderStep, PlacesStep, PromisedStep DEF IInv

(* The inductive invariant holds throughout. *)
THEOREM Invariance == Spec => []IInv
BY InitIInv, NextIInv, PTL DEF Spec

(* For any number of clients and slots: the priorities of msgrcv (STOP first, INIT last) are *)
(* enough for the server never to take one client for another, unless one is interrupted    *)
(* while it leaves and stops twice (client.c:126-140).                                      *)
THEOREM NobodyIsMistaken == Spec => []SenderIsWhoItSays
<1>1. IInv => SenderIsWhoItSays
  BY DEF IInv
<1> QED
  BY <1>1, Invariance, PTL

(* For any number of clients and slots: a client keeps its place in the table until its own STOP, *)
(* unless somebody stops twice.                                                                 *)
THEOREM PlaceUntilStop == Spec => []KeepsItsPlace
<1>1. IInv => KeepsItsPlace
  BY DEF IInv, Places, KeepsItsPlace, Calm
<1> QED
  BY <1>1, Invariance, PTL
=============================================================================
