------------------------------- MODULE TicTacToe -------------------------------
(***************************************************************************)
(* Laboratory 10, zad1: the tic-tac-toe server over stream sockets, its     *)
(* requests thread and its ping thread, and the clients at the other ends.  *)
(*                                                                         *)
(* A critical section of connections_mutex is one step.  The requests       *)
(* thread handles the events of one epoll_wait one after another; a move is *)
(* two steps, because it reads its pointers and uses them outside of the    *)
(* mutex.  Of a game state there is the turn; whether a field is free, a     *)
(* line complete, the board full is chosen.  A stream is a sequence of whole messages.*)
(***************************************************************************)
EXTENDS Integers, Sequences, SequencesExt

CONSTANTS Clients,
          Local,           \* the clients on the UNIX socket; the others use TCP
          Namesakes,       \* clients that chose the same nickname
          MaxConnections,
          MaxUnread,       \* bound: what is unread when a client writes more
          MaxPings,        \* bound: PINGs that a client has not read
          MaxPinged,       \* bound: clients that have come when everybody is pinged
          MaxUnanswered    \* bound: unanswered pings that are counted

ASSUME SomeClients == Local \subseteq Clients /\ Namesakes \subseteq Clients
ASSUME Numbers == /\ MaxConnections \in Nat \ {0}
                  /\ MaxUnread \in Nat /\ MaxPings \in Nat
                  /\ MaxPinged \in Nat /\ MaxUnanswered \in Nat

Slots == 1 .. MaxConnections
None == 0                          \* NULL, for a connection or a game

(* A client is known by its nickname; {} stands for client = NULL. *)
Nickname(c) == IF c \in Namesakes THEN Namesakes ELSE {c}
Unregistered == {"UNREGISTERED_NICKNAME"}      \* which any client may have chosen instead

VARIABLES
  conns,       \* connections: status, fd, client->nickname, _->opponent_connection, _->game_state
  games,       \* whose turn each game_state says it is; None when it is not allocated.
               \* A game is known by the slot that started it.
  waiting,     \* waiting_client_connection
  count,       \* connections_count
  req,         \* the requests thread: its events and, in a move, its pointers
  state,       \* of the server: "up", "exiting" after the removals of exit_handler, "exited",
               \* "killed" by SIGPIPE, "crashed"
  unanswered,  \* per slot: the pings sent since the last answer was handled
  client,      \* the client processes
  link,        \* the server's end of each client's socket
  ptr,         \* event->data.connection of each client's epoll event
  edge,        \* the clients with an event that epoll_wait has not returned yet
  stream,      \* from each client to the server
  pings,       \* how many PINGs each client has not read; see HandlePingMsg
  shifted      \* the server reads in the middle of a message

memoryVars == <<conns, games, waiting, count, state, unanswered>>
socketVars == <<link, pings, stream, edge, ptr, shifted>>
vars == <<memoryVars, socketVars, client, req>>

Empty == [status |-> "EMPTY", fd |-> {}, nickname |-> {}, opponent |-> None, game |-> None]
Idle == [events |-> <<>>, slot |-> None, opponent |-> None, game |-> None]

Init ==
  /\ conns = [s \in Slots |-> Empty]
  /\ games = [s \in Slots |-> None]
  /\ waiting = None /\ count = 0 /\ req = Idle /\ state = "up"
  /\ unanswered = [s \in Slots |-> 0]
  /\ client = [c \in Clients |-> "off"]
  /\ link = [c \in Clients |-> "none"] /\ ptr = [c \in Clients |-> None]
  /\ edge = {} /\ shifted = {}
  /\ stream = [c \in Clients |-> <<>>] /\ pings = [c \in Clients |-> 0]

-----------------------------------------------------------------------------
(* The handlers call each other and return early, so each is a function     *)
(* from the server's memory to the memory it leaves; ok is its return value.*)

Memory == [conns |-> conns, games |-> games, waiting |-> waiting, count |-> count,
           state |-> state, unanswered |-> unanswered, link |-> link,
           pings |-> pings, stream |-> stream, edge |-> edge,
           ptr |-> ptr, shifted |-> shifted, client |-> client, ok |-> TRUE]

Become(M) ==
  /\ conns' = M.conns /\ games' = M.games /\ waiting' = M.waiting
  /\ count' = M.count /\ state' = M.state /\ unanswered' = M.unanswered
  /\ link' = M.link /\ pings' = M.pings /\ stream' = M.stream /\ edge' = M.edge
  /\ ptr' = M.ptr /\ shifted' = M.shifted /\ client' = M.client

Fails(M) == [M EXCEPT !.ok = FALSE]

(* The clients are not followed any further. *)
Leaves(M, how) ==
  [M EXCEPT !.ok = FALSE, !.state = how,
            !.unanswered = [s \in Slots |-> 0], !.pings = [c \in Clients |-> 0],
            !.stream = [c \in Clients |-> <<>>], !.edge = {},
            !.ptr = [c \in Clients |-> None], !.shifted = {},
            !.client = [c \in Clients |-> "gone"],
            !.link = [c \in Clients |-> "closed"]]

(* The memory of the server goes with its process. *)
Ends(M, how) ==
  [Leaves(M, how) EXCEPT !.waiting = None, !.count = 0,
                         !.conns = [s \in Slots |-> Empty], !.games = [s \in Slots |-> None]]

Deliver(M, c, m) == IF m = "PING" THEN [M EXCEPT !.pings[c] = @ + 1] ELSE M

(* What write does when the client is gone: on a UNIX socket SIGPIPE ends   *)
(* the server.  On TCP it goes well at first and makes the client's host    *)
(* answer with a reset, an event; after the reset it fails (ECONNRESET) or  *)
(* ends the server.  fate says how far that is.                             *)
Write(M, c, m, fate) ==
  IF M.state # "up" THEN M
  ELSE IF client[c] \in {"on", "leaving"} THEN [Deliver(M, c, m) EXCEPT !.ok = TRUE]
  ELSE IF c \in Local \/ fate = "killed" THEN Ends(M, "killed")
  ELSE [M EXCEPT !.ok = fate = "ok", !.edge = IF fate = "ok" THEN @ \union {c} ELSE @]

GoneOverTCP == {c \in Clients \ Local : client[c] = "gone" /\ link[c] # "closed"}
Fates == IF GoneOverTCP = {} THEN {"ok"} ELSE {"ok", "fails", "killed"}

(* A write to conn->client_socket_fd; a slot without one holds -1. *)
Send(M, s, m, fate) ==
  IF M.conns[s].fd = {} THEN Fails(M)
  ELSE Write(M, CHOOSE c \in M.conns[s].fd : TRUE, m, fate)

(* What is unread when a socket is closed is lost; what its client does     *)
(* before it exits reaches nobody.                                          *)
CloseSocket(M, c) ==
  [M EXCEPT !.link[c] = "closed", !.stream[c] = <<>>, !.edge = @ \ {c},
            !.ptr[c] = None, !.shifted = @ \ {c}, !.pings[c] = 0, !.client[c] = "gone"]

(* Mutant: remove_connection counts the opponent too, which then counts itself. *)
CloseBoth(M, fd) ==
  [CloseSocket(M, CHOOSE c \in fd : TRUE) EXCEPT !.count = IF @ > 1 THEN @ - 2 ELSE 0]

Close(M, fd) ==
  [CloseSocket(M, CHOOSE c \in fd : TRUE) EXCEPT !.count = @ - 1]

(* Mutant: the removed client may still be waited for. *)
RemoveStillWaiting(M, s, fate) ==
  LET sent == Send(M, s, "DISCONNECT", fate)
  IN  IF ~ sent.ok THEN sent ELSE Close([sent EXCEPT !.conns[s] = Empty], M.conns[s].fd)

(* remove_connection of a client without an opponent *)
RemoveAlone(M, s, fate) ==
  LET sent == Send(M, s, "DISCONNECT", fate)
  IN  IF ~ sent.ok THEN sent
      ELSE Close([sent EXCEPT !.waiting = IF @ = s THEN None ELSE @,
                              !.conns[s] = Empty], M.conns[s].fd)

(* Mutant: the opponent stays. *)
RemoveLeavingOpponent(M, s, fate) == RemoveAlone(M, s, fate)

RemoveConnection(M, s, fate) ==
  LET o == M.conns[s].opponent
      sent == Send(M, s, "DISCONNECT", fate)
      freed == [sent EXCEPT !.waiting = IF @ = s THEN None ELSE @,
                            !.conns[s] = Empty,
                            !.conns[o].opponent = None,
                            !.games[M.conns[s].game] = None]
      removed == RemoveAlone(freed, o, fate)
  IN  IF o = None THEN RemoveAlone(M, s, fate)
      ELSE IF ~ sent.ok THEN sent
      ELSE IF ~ removed.ok THEN removed
      ELSE Close(removed, M.conns[s].fd)

-----------------------------------------------------------------------------
(* The two loops over all connections: that of ping_connections ends when   *)
(* one fails, that of exit_handler does not.                                *)

(* Mutant: ping_connection gets a pointer. *)
PingedByReference(status) == "PINGED"

(* ping_connection gets the connection by value: the status it sets is lost *)
(* with its copy.                                                           *)
Pinged(status) == status

PingConnection(M, s, fate) ==
  Send([M EXCEPT !.conns[s].status = Pinged(@),
                 !.unanswered[s] = IF @ < MaxUnanswered THEN @ + 1 ELSE @], s, "PING", fate)

PingSlot(M, s, fate) ==
  IF ~ M.ok \/ M.conns[s].status = "EMPTY" THEN M
  ELSE IF M.conns[s].status = "PINGED" THEN RemoveConnection(M, s, fate)
  ELSE PingConnection(M, s, fate)

RemoveSlot(M, s, fate) ==
  IF M.conns[s].status = "EMPTY" THEN M ELSE RemoveConnection(M, s, fate)

Turn(loop, M, s, fate) ==
  IF loop = "ping" THEN PingSlot(M, s, fate) ELSE RemoveSlot(M, s, fate)

AllSlots(loop, M, fate) ==
  LET after[s \in 0 .. MaxConnections] ==
        IF s = 0 THEN M ELSE Turn(loop, after[s - 1], s, fate)
  IN  after[MaxConnections]

(* exit_handler, called from any thread.  The requests thread, which it has *)
(* cancelled, still goes on to its next system call; see MoveInExit.        *)
Exit(M, fate) ==
  LET removed == AllSlots("exit", M, fate)
  IN  IF M.state # "up" THEN M
      ELSE IF removed.state # "up" THEN removed ELSE Leaves(removed, "exiting")

-----------------------------------------------------------------------------
(* The requests thread: registration *)

(* The order of a set of events in what epoll_wait returns. *)
Ready(c) == /\ c \in edge /\ link[c] = "open"
            /\ stream[c] # <<>> \/ client[c] = "gone"
Backlog(local) == {c \in Clients : link[c] = "backlog" /\ (c \in Local) = local}

(* EPOLLHUP: both directions are closed; over TCP that takes a reset. *)
ClientEvent(c, reset) ==
  [type |-> "CLIENT_EVENT", slot |-> ptr[c],
   hup |-> client[c] = "gone" /\ (c \in Local \/ c \in reset)]
NewConnection(local) == [type |-> "NEW_CONNECTION", local |-> local]

EpollWait ==
  LET ready == {c \in Clients : Ready(c)}
      accepts == {NewConnection(l) : l \in {l \in BOOLEAN : Backlog(l) # {}}}
  IN  /\ state = "up" /\ req = Idle /\ (ready # {} \/ accepts # {})
      /\ \E reset \in SUBSET (GoneOverTCP \intersect ready) :
           \E order \in SetToSeqs(accepts \union {ClientEvent(c, reset) : c \in ready}) :
             req' = [req EXCEPT !.events = order]
      /\ edge' = edge \ ready
      /\ UNCHANGED <<memoryVars, link, pings, stream, client, ptr, shifted>>

(* The requests thread turns to the next event when this one is handled. *)
Handling(type) == /\ state = "up" /\ req.slot = None /\ req.events # <<>>
                  /\ Head(req.events).type = type
Done == req' = [req EXCEPT !.events = Tail(@)]

FreeSlots == {s \in Slots : conns[s].status = "EMPTY"}
FirstFree == CHOOSE s \in FreeSlots : \A t \in FreeSlots : s <= t

HandleNewConnectionRequest(c, fate) ==
  LET full == Write(Memory, c, "SERVER_FULL", fate)
      s == FirstFree
  IN  /\ Handling("NEW_CONNECTION") /\ Done
      /\ c \in Backlog(Head(req.events).local)
      /\ \/ /\ FreeSlots = {}
            /\ Become(IF full.ok THEN CloseSocket(full, c) ELSE Exit(full, fate))
         \/ /\ FreeSlots # {}
            /\ Become([Memory EXCEPT !.conns[s].status = "CONNECTED", !.conns[s].fd = {c},
                                     !.count = @ + 1, !.link[c] = "open",
                                     !.edge = @ \union {c}, !.ptr[c] = s,
                                     !.unanswered[s] = 0])

(* Mutant: the loop begins at 1. *)
IsNicknameAvailableFromSecond(n) ==
  n # Unregistered /\ \A s \in Slots \ {1} : conns[s].nickname # n

IsNicknameAvailable(n) == n # Unregistered /\ \A s \in Slots : conns[s].nickname # n

SendGameState(M, s, o, fate) ==
  LET first == Send(M, s, "GAME_STATE", fate)
  IN  IF first.ok THEN Send(first, o, "GAME_STATE", fate) ELSE first

StartGameBetweenClients(M, s1, s2, first, fate) ==
  LET paired == [M EXCEPT !.waiting = None,
                          !.conns[s1].opponent = s2, !.conns[s2].opponent = s1]
      told1 == Send(paired, s1, "GAME_STARTED", fate)
      told == IF told1.ok THEN Send(told1, s2, "GAME_STARTED", fate) ELSE told1
      game == [told EXCEPT !.conns[s1].game = s1, !.conns[s2].game = s1,
                           !.games[s1] = first]
  IN  IF told.ok THEN SendGameState(game, s1, s2, fate) ELSE told

WaitForOpponent(M, s, fate) == Send([M EXCEPT !.waiting = s], s, "WAIT_OPPONENT", fate)

(* When a game cannot be started the error message reads the nickname of    *)
(* waiting_client_connection, which is NULL by then.                        *)
CreateClientStruct(M, s, n, first, fate) ==
  LET registered == [M EXCEPT !.conns[s].status = "REGISTERED", !.conns[s].nickname = n]
      started == StartGameBetweenClients(registered, s, waiting, first, fate)
      waits == WaitForOpponent(registered, s, fate)
  IN  IF waiting # None
      THEN IF started.ok \/ started.state # "up" THEN started ELSE Ends(started, "crashed")
      ELSE IF waits.ok \/ waits.state # "up" THEN waits ELSE RemoveConnection(waits, s, fate)

(* The nickname is the first message of its stream.  A slot whose removal   *)
(* failed is registered again, with whatever its stream holds: the bytes of *)
(* another message, none of them at its end.                                *)
NicknamesRead(c) ==
  IF stream[c] = <<>> THEN IF client[c] = "gone" THEN {{""}, {"error"}} ELSE {}
  ELSE IF Head(stream[c]) = "NICKNAME" THEN {Nickname(c), Unregistered}
  ELSE IF Head(stream[c]) = "PING" \/ c \in shifted THEN {{""}} ELSE {{Head(stream[c])}}

(* One message of a client leaves its stream; at the end there is none. *)
Read(c) == [Memory EXCEPT !.stream[c] = IF @ = <<>> THEN @ ELSE Tail(@)]

RejectClient(M, s, fate) ==
  LET taken == Send(M, s, "USERNAME_TAKEN", fate)
  IN  IF taken.state # "up" THEN taken ELSE RemoveConnection(taken, s, fate)

(* What the client has sent after its nickname is read along, as far as it  *)
(* fits in the buffer.                                                      *)
RegisterClient(s, fate) ==
  LET c == CHOOSE c \in conns[s].fd : TRUE
      read == [Read(c) EXCEPT !.shifted = IF Len(stream[c]) > 1 THEN @ \union {c} ELSE @]
  IN  /\ Handling("CLIENT_EVENT") /\ Done
      /\ s = Head(req.events).slot /\ ~ Head(req.events).hup
      /\ conns[s].status = "CONNECTED"
      /\ \E n \in NicknamesRead(c), first \in {s, waiting} \ {None} :
           Become(IF n = {"error"} THEN RemoveConnection(read, s, fate)
                  ELSE IF IsNicknameAvailable(n) THEN CreateClientStruct(read, s, n, first, fate)
                  ELSE RejectClient(read, s, fate))

-----------------------------------------------------------------------------
(* The requests thread: messages of registered clients *)

(* What read can return and leave in the stream.  After the end of the      *)
(* stream the message is whatever the stack held.                           *)
Reads(c) ==
  IF stream[c] # <<>>
  THEN {IF c \in shifted THEN "PING" ELSE Head(stream[c])}
  ELSE IF client[c] = "gone" THEN {"PING", "DISCONNECT", "MOVE", "other", "error"} ELSE {}

HandleClientPingMsg(M, s) ==
  [M EXCEPT !.conns[s].status = IF M.conns[s].nickname = {} THEN "CONNECTED" ELSE "REGISTERED",
            !.unanswered[s] = 0]

(* handle_client_move_msg up to its first use of the game state *)
StartMove(s) ==
  /\ conns[s].opponent # None
  /\ req' = [req EXCEPT !.slot = s, !.opponent = conns[s].opponent, !.game = conns[s].game]

HandleClientRequest(s, fate) ==
  LET c == CHOOSE c \in conns[s].fd : TRUE
      read == [Read(c) EXCEPT !.shifted = IF Len(stream[c]) = 1 THEN @ \ {c} ELSE @]
  IN  /\ Handling("CLIENT_EVENT") /\ s = Head(req.events).slot /\ ~ Head(req.events).hup
      /\ conns[s].status # "CONNECTED" /\ conns[s].fd # {}
      /\ \E type \in Reads(c) :
           \/ type = "MOVE" /\ StartMove(s) /\ Become(read)
           \/ /\ Done
              /\ Become(CASE type = "PING" -> HandleClientPingMsg(read, s)
                          [] type = "DISCONNECT" -> RemoveConnection(read, s, fate)
                          [] type = "MOVE" -> Ends(read, "crashed")
                          [] type = "error" -> Exit(read, fate)
                          [] OTHER -> read)
              /\ type = "MOVE" => conns[s].opponent = None

(* An earlier event of the same epoll_wait emptied the slot: read fails.    *)
HandleStaleRequest(s, fate) ==
  /\ Handling("CLIENT_EVENT") /\ Done
  /\ s = Head(req.events).slot /\ ~ Head(req.events).hup
  /\ conns[s].status # "CONNECTED" /\ conns[s].fd = {}
  /\ Become(Exit(Memory, fate))

HandleHangUp(s, fate) ==
  /\ Handling("CLIENT_EVENT") /\ Done
  /\ s = Head(req.events).slot /\ Head(req.events).hup
  /\ Become(RemoveConnection(Memory, s, fate))

IsValidMove(game, s, free) == game = s /\ free

Opposite(result) == IF result = "WON" THEN "LOST" ELSE result

SendGameResult(M, s, o, result, fate) ==
  LET first == Send(M, s, result, fate)
  IN  IF first.ok THEN Send(first, o, Opposite(result), fate) ELSE first

(* The rest of handle_client_move_msg: the game and the opponent are the    *)
(* ones it read in StartMove.  A valid move is sent to both players; the    *)
(* last one, or one that cannot be sent, closes the connections.            *)
HandleClientMoveMsg(s, result, free, fate) ==
  LET valid == IsValidMove(games[req.game], s, free)
      moved == [Memory EXCEPT !.games[req.game] = req.opponent]
      sent == SendGameState(moved, s, conns[s].opponent, fate)
      told == SendGameResult(sent, s, conns[s].opponent, result, fate)
  IN  /\ state = "up" /\ s = req.slot /\ s # None
      /\ result = "PLAYING" \/ valid
      /\ Become(IF ~ valid THEN Memory
                ELSE IF sent.ok /\ result = "PLAYING" THEN sent
                ELSE RemoveConnection(IF sent.ok THEN told ELSE sent, s, fate))
      /\ req' = [Idle EXCEPT !.events = Tail(req.events)]

RequestsHandler ==
  \/ EpollWait
  \/ \E fate \in Fates :
       \/ \E c \in Clients : HandleNewConnectionRequest(c, fate)
       \/ \E s \in Slots :
            \/ RegisterClient(s, fate) \/ HandleClientRequest(s, fate)
            \/ HandleStaleRequest(s, fate) \/ HandleHangUp(s, fate)
            \/ \E result \in {"WON", "DRAW", "PLAYING"}, free \in BOOLEAN :
                 HandleClientMoveMsg(s, result, free, fate)

-----------------------------------------------------------------------------
(* The ping thread and SIGINT *)

PingConnections(fate) == AllSlots("ping", Memory, fate)

PingHandler(fate) ==
  LET pinged == PingConnections(fate)
  IN  /\ state = "up" /\ count > 0
      /\ \A c \in Clients : pings[c] < MaxPings
      /\ Cardinality({c \in Clients : client[c] # "off"}) <= MaxPinged
      /\ Become(IF pinged.ok \/ pinged.state # "up" THEN pinged ELSE Exit(pinged, fate))
      /\ UNCHANGED req

SigintHandler(fate) ==
  /\ state = "up" /\ Become(Exit(Memory, fate))
  /\ UNCHANGED req

ExitEnds ==
  /\ state = "exiting" /\ Become(Ends(Memory, "exited"))
  /\ UNCHANGED req

(* Between the pointers it has read and the first write of send_game_state  *)
(* a move is not cancelled, and uses its game whether or not exit_handler   *)
(* has freed it.  In freed memory it finds and spoils anything.             *)
MoveInExit ==
  LET live == conns[req.slot].opponent # None
  IN  /\ state = "exiting" /\ req.slot # None
      /\ \/ Become(Memory)
         \/ live /\ Become([Memory EXCEPT !.games[req.game] = req.opponent])
         \/ ~ live /\ Become(Ends(Memory, "crashed"))
      /\ req' = Idle

-----------------------------------------------------------------------------
(* The clients *)

ConnectToServer(c) ==
  /\ state = "up" /\ client[c] = "off"
  /\ client' = [client EXCEPT ![c] = "on"] /\ link' = [link EXCEPT ![c] = "backlog"]
  /\ stream' = [stream EXCEPT ![c] = <<"NICKNAME">>]
  /\ UNCHANGED <<memoryVars, pings, edge, req, ptr, shifted>>

Reaches(c, messages) ==
  /\ stream' = [stream EXCEPT ![c] = @ \o messages]
  /\ edge' = IF link[c] = "open" THEN edge \union {c} ELSE edge

(* A number typed while its field looks free, whoever has the turn and      *)
(* whether or not there is a game.                                          *)
HandleStdinEvent(c) ==
  /\ state = "up" /\ client[c] = "on"
  /\ Len(stream[c]) < MaxUnread
  /\ Reaches(c, <<"MOVE">>)
  /\ UNCHANGED <<memoryVars, link, pings, client, req, ptr, shifted>>

(* Of the messages of the server a client answers PING; the others make it  *)
(* draw its screen, or exit, which it may also do without them (Leave).     *)
HandlePingMsg(c) ==
  /\ state = "up" /\ client[c] = "on"
  /\ Len(stream[c]) < MaxUnread
  /\ pings[c] > 0 /\ pings' = [pings EXCEPT ![c] = @ - 1]
  /\ Reaches(c, <<"PING">>)
  /\ UNCHANGED <<memoryVars, link, client, req, ptr, shifted>>

(* exit_handler says goodbye and closes the socket, in two steps.  It runs  *)
(* on SIGINT, or after the result, while the server has not closed its end. *)
Leave(c) ==
  /\ state = "up" /\ client[c] = "on"
  /\ client' = [client EXCEPT ![c] = "leaving"]
  /\ pings' = [pings EXCEPT ![c] = 0]
  /\ Reaches(c, <<"DISCONNECT">>)
  /\ UNCHANGED <<memoryVars, link, req, ptr, shifted>>

(* By exit_handler, or by the system because the client was killed. *)
CloseClientSocket(c) ==
  /\ state = "up" /\ client[c] \in {"on", "leaving"}
  /\ client' = [client EXCEPT ![c] = "gone"]
  /\ pings' = [pings EXCEPT ![c] = 0]
  /\ Reaches(c, <<>>)
  /\ UNCHANGED <<memoryVars, link, req, ptr, shifted>>

ClientStep(c) ==
  \/ ConnectToServer(c) \/ HandleStdinEvent(c) \/ HandlePingMsg(c)
  \/ Leave(c) \/ CloseClientSocket(c)

Next ==
  \/ RequestsHandler
  \/ \E fate \in Fates : PingHandler(fate) \/ SigintHandler(fate)
  \/ MoveInExit \/ ExitEnds
  \/ \E c \in Clients : ClientStep(c)

Spec == Init /\ [][Next]_vars

-----------------------------------------------------------------------------
(* Properties *)

Registered == {s \in Slots : conns[s].nickname # {}}
Playing == {s \in Slots : conns[s].opponent # None}

(* Opponents have each other and share one allocated game, which no other   *)
(* pair uses and in which it is the turn of one of the two.                 *)
OpponentsShareTheirGame ==
  state = "up" =>
    \A s \in Playing :
      LET o == conns[s].opponent
      IN  /\ o # s /\ conns[o].opponent = s /\ {s, o} \subseteq Registered
          /\ conns[s].game = conns[o].game /\ games[conns[s].game] \in {s, o}
          /\ \A t \in Playing \ {s, o} : conns[t].game # conns[s].game

(* The waiting client is registered and has no opponent: the next one that  *)
(* registers is never paired with a slot that was emptied or is in a game.  *)
WaitingCanBePaired ==
  state = "up" /\ waiting # None => waiting \in Registered \ Playing

NicknamesDiffer ==
  \A s, t \in Registered : s # t => conns[s].nickname # conns[t].nickname

(* The game and the opponent a move has read are still those of its player  *)
(* when it uses them, although it holds no mutex (server.c:507-520): no     *)
(* round of pings frees them.  exit_handler does, when it has removed the   *)
(* connection of the player or taken its opponent away.                     *)
MoveUsesLiveGame ==
  state \in {"up", "exiting"} /\ req.slot # None =>
    \/ /\ conns[req.slot].game = req.game /\ conns[req.slot].opponent = req.opponent
       /\ games[req.game] # None
    \/ state = "exiting" /\ conns[req.slot].opponent = None

(* The ping thread skips its round when connections_count is 0: it is never *)
(* less than the connections there are.                                     *)
EverybodyIsCounted ==
  state = "up" => count >= Cardinality({s \in Slots : conns[s].status # "EMPTY"})

(* "Remove the connection if there was no response from a client" instead   *)
(* of pinging it once more (server.c, ping_connections).                    *)
PingedOnceWithoutResponse == \A s \in Slots : unanswered[s] <= 1

-----------------------------------------------------------------------------
(* The inductive invariant: what every handler keeps of the tables, even    *)
(* when it fails half-way, and what a move holds while it has no mutex.     *)

Used(M) == {s \in Slots : M.conns[s].status # "EMPTY"}

(* A slot is empty, has a socket, or has a socket and a nickname. *)
SlotsAgree(M) ==
  \A s \in Slots :
    /\ DOMAIN M.conns[s] = DOMAIN Empty
    /\ M.conns[s].status \in {"EMPTY", "CONNECTED", "REGISTERED"}
    /\ M.conns[s].status = "EMPTY" <=> M.conns[s].fd = {}
    /\ M.conns[s].status = "REGISTERED" <=> M.conns[s].nickname # {}

(* Two opponents have each other, a nickname each and the game that one of them has started. *)
Pairs(M) ==
  \A s \in Slots :
    LET o == M.conns[s].opponent
        g == M.conns[s].game
    IN  o # None =>
          /\ o \in Slots \ {s} /\ M.conns[o].opponent = s /\ M.conns[s].nickname # {}
          /\ g \in {s, o} /\ M.conns[o].game = g /\ M.games[g] \in {s, o}

WaitsAlone(M) ==
  M.waiting # None =>
    /\ M.waiting \in Slots
    /\ M.conns[M.waiting].nickname # {} /\ M.conns[M.waiting].opponent = None

OwnNames(M) ==
  \A s, t \in Slots :
    M.conns[s].nickname # {} /\ M.conns[s].nickname = M.conns[t].nickname => s = t

Tables(M) ==
  /\ DOMAIN M.conns = Slots /\ DOMAIN M.games = Slots
  /\ SlotsAgree(M) /\ Pairs(M) /\ WaitsAlone(M) /\ OwnNames(M)
  /\ M.count \in Int /\ M.count >= Cardinality(Used(M))

(* A move has the opponent and the game of its player. *)
MovesOn ==
  /\ DOMAIN req = DOMAIN Idle
  /\ req.slot # None =>
       req.slot \in Slots /\ req.opponent # None
       /\ (state = "up" \/ (state = "exiting" /\ conns[req.slot].opponent # None)
             => conns[req.slot].game = req.game /\ conns[req.slot].opponent = req.opponent)

IInv == Tables(Memory) /\ MovesOn
=============================================================================
