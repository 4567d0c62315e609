--------------------------- MODULE TicTacToeDatagram ---------------------------
(***************************************************************************)
(* Laboratory 10, zad2: the tic-tac-toe server over datagrams and its       *)
(* clients.  The server has one socket for all local clients, reliable and  *)
(* ordered, and one for those of the network, whose datagrams may be lost,  *)
(* delayed, reordered and duplicated.  So once a network client has started *)
(* any of its messages may arrive, at any time and any number of times: it  *)
(* can have sent them all, and have ended since.  What is sent to it makes  *)
(* no difference to the server, which does not even hear that it is gone.   *)
(*                                                                         *)
(* A message is handled in one step.  The handlers read connections outside *)
(* of the mutex, but the other thread, which pings, never changes them:     *)
(* ping_connection sets PINGED in a copy.  A field is taken or free; which  *)
(* fields make a line is left open.                                         *)
(***************************************************************************)
EXTENDS Integers, Sequences, SequencesExt

CONSTANTS Clients,
          Local,           \* the clients on the UNIX socket; the others use UDP
          Namesakes,       \* clients that chose the same nickname
          MaxConnections,
          Fields,          \* the fields of the board
          MaxUnread,       \* bound: messages of a local client that the server has not read
          MaxPings,        \* bound: PINGs to a local client, and its answers, that are not read
          MaxPinged        \* bound: clients that have come when everybody is pinged

ASSUME SomeClients == Local \subseteq Clients /\ Namesakes \subseteq Clients
ASSUME Numbers == /\ MaxConnections \in Nat \ {0}
                  /\ MaxUnread \in Nat /\ MaxPings \in Nat /\ MaxPinged \in Nat

Slots == 1 .. MaxConnections
None == 0                     \* NULL for a connection, {} for an address
Nickname(c) == IF c \in Namesakes THEN Namesakes ELSE {c}

VARIABLES
  conns,     \* connections: addr (of a client), client->nickname, client->opponent_connection
  games,     \* the game_state of the slot that started it: whose turn, fields taken
  playing,   \* client->game_state: the game of each slot
  waiting,   \* waiting_client_connection
  count,     \* connections_count
  state,     \* of the server: "up", "exited" or "crashed"
  requests,  \* the queue of the server's local socket
  inbox,     \* the queues of the local clients
  client,    \* the client processes: "off", "on", and if local "leaving" and "gone"
  screen     \* what a local client shows: its phase, its board, whether it is its turn

serverVars == <<conns, games, playing, waiting, count, state>>
vars == <<serverVars, requests, inbox, client, screen>>

Empty == [addr |-> {}, nickname |-> {}, opponent |-> None]
NoGame == [turn |-> None, taken |-> {}]
Unseen == [phase |-> "registering", taken |-> {}, turn |-> FALSE]

Init ==
  /\ conns = [s \in Slots |-> Empty] /\ games = [s \in Slots |-> NoGame]
  /\ playing = [s \in Slots |-> None]
  /\ waiting = None /\ count = 0 /\ state = "up"
  /\ requests = <<>> /\ inbox = [c \in Local |-> <<>>]
  /\ client = [c \in Clients |-> "off"] /\ screen = [c \in Local |-> Unseen]

-----------------------------------------------------------------------------
(* The server: each handler is a function from its memory, and what it has  *)
(* sent, to what it leaves; ok is its return value.                         *)

Memory == [conns |-> conns, games |-> games, playing |-> playing, waiting |-> waiting,
           count |-> count, state |-> state, inbox |-> inbox, ok |-> TRUE]

Become(M) ==
  /\ conns' = M.conns /\ games' = M.games /\ playing' = M.playing /\ waiting' = M.waiting
  /\ count' = M.count /\ state' = M.state /\ inbox' = M.inbox

Message(type) == [type |-> type, taken |-> {}, turn |-> FALSE]

(* sendto fails if the local client is gone; over UDP it never does. *)
SendTo(M, c, m) ==
  IF c \notin Local THEN [M EXCEPT !.ok = TRUE]
  ELSE IF client[c] = "gone" THEN [M EXCEPT !.ok = FALSE]
  ELSE [M EXCEPT !.inbox[c] = Append(@, m), !.ok = TRUE]

AddressOf(M, s) == CHOOSE c \in M.conns[s].addr : TRUE
Send(M, s, m) == SendTo(M, AddressOf(M, s), m)
Both(M, s1, m1, s2, m2) ==
  LET first == Send(M, s1, m1) IN IF first.ok THEN Send(first, s2, m2) ELSE first

(* remove_connection up to the opponent, and after it *)
RemoveOne(M, s) ==
  [Send(M, s, Message("DISCONNECT")) EXCEPT
     !.waiting = IF @ = s THEN None ELSE @,
     !.conns[s] = Empty, !.playing[s] = None, !.count = @ - 1, !.ok = TRUE]

(* Mutant: the opponent keeps its connection. *)
RemoveLeavingOpponent(M, s) == RemoveOne(M, s)

RemoveConnection(M, s) ==
  LET o == M.conns[s].opponent
  IN  IF o = None THEN RemoveOne(M, s)
      ELSE RemoveOne([RemoveOne(M, s) EXCEPT !.conns[o].opponent = None,
                                             !.games[M.playing[s]] = NoGame], o)

Ends(M, how) ==
  [M EXCEPT !.state = how, !.conns = [s \in Slots |-> Empty],
            !.games = [s \in Slots |-> NoGame], !.playing = [s \in Slots |-> None],
            !.waiting = None, !.count = 0]

(* Mutant: the clients are not told. *)
ExitSilently(M) == Ends(M, "exited")

(* One turn of the loop of exit_handler *)
RemoveSlot(M, s) == IF M.conns[s].addr = {} THEN M ELSE RemoveConnection(M, s)

(* exit_handler, in whatever thread exit was called *)
Exit(M) ==
  LET after[s \in 0 .. MaxConnections] == IF s = 0 THEN M ELSE RemoveSlot(after[s - 1], s)
  IN  Ends(after[MaxConnections], "exited")

-----------------------------------------------------------------------------
(* The requests thread *)

(* Mutant: the loop begins at 1. *)
IsNicknameAvailableFromSecond(n) == \A s \in Slots \ {1} : conns[s].nickname # n

IsNicknameAvailable(n) == \A s \in Slots : conns[s].nickname # n

FreeSlots == {s \in Slots : conns[s].addr = {}}
FindEmptyConnection == CHOOSE s \in FreeSlots : \A t \in FreeSlots : s <= t

StateMessage(M, s) ==
  LET game == M.games[M.playing[s]]
  IN  [type |-> "GAME_STATE", taken |-> game.taken, turn |-> game.turn = s]
SendGameState(M, s) ==
  LET o == M.conns[s].opponent IN Both(M, s, StateMessage(M, s), o, StateMessage(M, o))

(* Between its two messages a local player may end; the second one fails    *)
(* then, and the report of that reads the nickname of a client that is      *)
(* waiting no more: waiting_client_connection is NULL.                      *)
StartGameBetweenClients(M, s1, s2, first, ends) ==
  LET paired == [M EXCEPT !.conns[s1].opponent = s2, !.conns[s2].opponent = s1]
      told == Both(paired, s1, Message("GAME_STARTED"), s2, Message("GAME_STARTED"))
      game == [told EXCEPT !.playing[s1] = s1, !.playing[s2] = s1, !.waiting = None,
                           !.games[s1] = [turn |-> first, taken |-> {}]]
      local == {AddressOf(paired, s1), AddressOf(paired, s2)} \intersect Local
  IN  IF ~ told.ok THEN RemoveConnection(told, s1)
      ELSE IF ends /\ local # {} THEN Ends(game, "crashed")
      ELSE SendGameState(game, s1)

WaitForOpponent(M, s) ==
  LET told == Send([M EXCEPT !.waiting = s], s, Message("WAIT_OPPONENT"))
  IN  IF told.ok THEN told ELSE RemoveConnection(told, s)

CreateClientStruct(s, c, first, ends) ==
  LET registered == [Memory EXCEPT !.conns[s].addr = {c}, !.conns[s].nickname = Nickname(c),
                                   !.count = @ + 1]
  IN  IF waiting # None THEN StartGameBetweenClients(registered, s, waiting, first, ends)
      ELSE WaitForOpponent(registered, s)

(* catch_perror: a client that cannot be told why it is rejected ends the server. *)
RejectClient(c, type) ==
  LET told == SendTo(Memory, c, Message(type)) IN IF told.ok THEN told ELSE Exit(told)

RegisterNewClient(c) ==
  \/ FreeSlots = {} /\ Become(RejectClient(c, "SERVER_FULL"))
  \/ /\ FreeSlots # {} /\ ~ IsNicknameAvailable(Nickname(c))
     /\ Become(RejectClient(c, "USERNAME_TAKEN"))
  \/ /\ FreeSlots # {} /\ IsNicknameAvailable(Nickname(c))
     /\ \E first \in {FindEmptyConnection, waiting} \ {None}, ends \in BOOLEAN :
          Become(CreateClientStruct(FindEmptyConnection, c, first, ends))

IsValidMove(s, f) == games[playing[s]].turn = s /\ f \notin games[playing[s]].taken

GetGameResults(taken) == {"WON", IF taken = Fields THEN "DRAW" ELSE "PLAYING"}

(* Without an opponent, its client is looked for through NULL.  The results *)
(* are sent whatever becomes of the first.                                  *)
HandleClientMoveMsg(s, f) ==
  LET o == conns[s].opponent
      moved == [Memory EXCEPT !.games[playing[s]] = [turn |-> o, taken |-> @.taken \union {f}]]
      sent == SendGameState(moved, s)
      told == Both(sent, s, Message("GAME_RESULT"), o, Message("GAME_RESULT"))
  IN  IF o = None THEN Become(Ends(Memory, "crashed"))
      ELSE IF ~ IsValidMove(s, f) THEN Become(Memory)
      ELSE \E result \in GetGameResults(games[playing[s]].taken \union {f}) :
             Become(IF sent.ok /\ result = "PLAYING" THEN sent
                    ELSE RemoveConnection(IF sent.ok THEN told ELSE sent, s))

(* An answer to a ping sets the status it has never lost: nothing changes. *)
HandleClientRequest(s, m) ==
  CASE m.type = "MOVE" -> HandleClientMoveMsg(s, m.field)
    [] m.type = "DISCONNECT" -> Become(RemoveConnection(Memory, s))
    [] OTHER -> Become(Memory)

(* The connection is the first one with the sender's address. *)
Handle(m) ==
  LET theirs == {s \in Slots : conns[s].addr = {m.from}}
  IN  \/ m.type = "REGISTER" /\ RegisterNewClient(m.from)
      \/ m.type # "REGISTER" /\ theirs = {} /\ Become(Memory)
      \/ /\ m.type # "REGISTER" /\ theirs # {}
         /\ HandleClientRequest(CHOOSE s \in theirs : \A t \in theirs : s <= t, m)

Request(c, type) == [from |-> c, type |-> type]
Move(c, f) == [from |-> c, type |-> "MOVE", field |-> f]
Datagrams(c) == {Request(c, type) : type \in {"REGISTER", "PING", "DISCONNECT"}}
                  \union {Move(c, f) : f \in Fields}

HandleLocalEvent ==
  /\ state = "up" /\ requests # <<>> /\ requests' = Tail(requests)
  /\ Handle(Head(requests)) /\ UNCHANGED <<client, screen>>
HandleNetworkEvent(c) ==
  /\ state = "up" /\ client[c] = "on" /\ \E m \in Datagrams(c) : Handle(m)
  /\ UNCHANGED <<requests, client, screen>>

-----------------------------------------------------------------------------
(* The ping thread and SIGINT *)

(* One turn of the loop of ping_connections, which ends when one fails. *)
PingSlot(M, s) == IF ~ M.ok \/ M.conns[s].addr = {} THEN M ELSE Send(M, s, Message("PING"))

PingConnections ==
  LET after[s \in 0 .. MaxConnections] == IF s = 0 THEN Memory ELSE PingSlot(after[s - 1], s)
  IN  after[MaxConnections]

PingsOnTheirWay(c) == Len(SelectSeq(inbox[c], LAMBDA m : m.type = "PING"))
                      + Len(SelectSeq(requests, LAMBDA m : m = Request(c, "PING")))

PingHandler ==
  /\ state = "up" /\ count > 0
  /\ \A c \in Local : PingsOnTheirWay(c) < MaxPings
  /\ Cardinality({c \in Clients : client[c] # "off"}) <= MaxPinged
  /\ Become(IF PingConnections.ok THEN PingConnections ELSE Exit(PingConnections))
  /\ UNCHANGED <<requests, client, screen>>

SigintHandler ==
  /\ state = "up" /\ Become(Exit(Memory))
  /\ UNCHANGED <<requests, client, screen>>

-----------------------------------------------------------------------------
(* The clients *)

Unread(c) == Len(SelectSeq(requests, LAMBDA m : m.from = c))

ConnectToServer(c) ==
  /\ state = "up" /\ client[c] = "off" /\ client' = [client EXCEPT ![c] = "on"]
  /\ requests' = IF c \in Local THEN Append(requests, Request(c, "REGISTER")) ELSE requests
  /\ UNCHANGED <<serverVars, inbox, screen>>

(* The rest is about local clients.  To a server that is gone they cannot   *)
(* send: catch_perror ends them.                                            *)
HandleStdinEvent(c, f) ==
  /\ state = "up" /\ client[c] = "on"
  /\ f \notin screen[c].taken /\ Unread(c) < MaxUnread
  /\ requests' = Append(requests, Move(c, f))
  /\ UNCHANGED <<serverVars, inbox, client, screen>>

(* sigint_handler: DISCONNECT, then exit. *)
Interrupted(c) ==
  /\ state = "up" /\ client[c] = "on" /\ client' = [client EXCEPT ![c] = "leaving"]
  /\ requests' = Append(requests, Request(c, "DISCONNECT"))
  /\ UNCHANGED <<serverVars, inbox, screen>>

Gone(c) == /\ client' = [client EXCEPT ![c] = "gone"]
           /\ inbox' = [inbox EXCEPT ![c] = <<>>] /\ screen' = [screen EXCEPT ![c] = Unseen]

(* exit, or a signal that cannot be handled *)
ClientEnds(c) ==
  /\ client[c] \in {"on", "leaving"} /\ Gone(c)
  /\ UNCHANGED <<serverVars, requests>>

Ending == {"SERVER_FULL", "USERNAME_TAKEN", "GAME_RESULT", "DISCONNECT"}

HandleResponseEvent(c) ==
  LET m == Head(inbox[c])
      Shows(new) == /\ screen' = [screen EXCEPT ![c] = new] /\ UNCHANGED client
                    /\ inbox' = [inbox EXCEPT ![c] = Tail(@)]
  IN  /\ client[c] = "on" /\ inbox[c] # <<>>
      /\ \/ m.type \in Ending /\ Gone(c)
         \/ m.type = "WAIT_OPPONENT" /\ Shows([screen[c] EXCEPT !.phase = "waiting"])
         \/ m.type = "GAME_STARTED" /\ Shows([screen[c] EXCEPT !.phase = "playing"])
         \/ m.type = "GAME_STATE" /\ Shows([screen[c] EXCEPT !.taken = m.taken, !.turn = m.turn])
         \/ m.type = "PING" /\ IF state = "up" THEN Shows(screen[c]) ELSE Gone(c)
      /\ requests' = IF m.type = "PING" /\ state = "up" THEN Append(requests, Request(c, "PING"))
                     ELSE requests
      /\ UNCHANGED serverVars

Next ==
  \/ HandleLocalEvent \/ PingHandler \/ SigintHandler
  \/ \E c \in Clients \ Local : HandleNetworkEvent(c)
  \/ \E c \in Clients : ConnectToServer(c)
  \/ \E c \in Local : \/ Interrupted(c) \/ ClientEnds(c) \/ HandleResponseEvent(c)
                      \/ \E f \in Fields : HandleStdinEvent(c, f)

Spec == Init /\ [][Next]_vars

-----------------------------------------------------------------------------
(* Properties *)

Used == {s \in Slots : conns[s].nickname # {}}

(* However often and however late a registration arrives, no two connections have one      *)
(* address or one nickname, and a connection that is not used has no address: a message is *)
(* handled for the client that sent it (handle_epoll_event), or ignored.  As many are       *)
(* counted as are used.                                                                      *)
EachClientHasItsConnection ==
  /\ \A s, t \in Slots : s # t /\ conns[s].addr # {} => conns[s].addr # conns[t].addr
  /\ \A s, t \in Used : s # t => conns[s].nickname # conns[t].nickname
  /\ \A s \in Slots : conns[s].addr # {} <=> s \in Used
  /\ count = Cardinality(Used)

(* Opponents have each other and one game that no other pair has and in which it is the    *)
(* turn of one of them; whoever waits is registered and has no opponent                     *)
(* (start_game_between_clients, remove_connection).                                          *)
OpponentsShareTheirGame ==
  /\ waiting # None => waiting \in Used /\ conns[waiting].opponent = None
  /\ \A s \in Slots :
       LET o == conns[s].opponent
       IN  IF o = None THEN playing[s] = None
           ELSE /\ o # s /\ conns[o].opponent = s /\ {s, o} \subseteq Used
                /\ playing[s] = playing[o] /\ games[playing[s]].turn \in {s, o}
                /\ \A t \in Slots \ {s, o} : playing[t] # playing[s]

(* Whatever is lost, repeated or late on the network, a local client that has read all it  *)
(* was sent shows what the server believes: its registration is still to be handled, or it  *)
(* waits, or it plays with the same board and turn.  In particular no local client is left  *)
(* showing a game that is over, or a server that has exited.                                *)
Believes(c, s) ==
  /\ conns[s].addr = {c}
  /\ screen[c].phase = (IF conns[s].opponent = None THEN "waiting" ELSE "playing")
  /\ conns[s].opponent # None =>
       /\ screen[c].taken = games[playing[s]].taken
       /\ screen[c].turn = (games[playing[s]].turn = s)
LocalClientsShowTheTruth ==
  \A c \in Local :
    client[c] = "on" /\ inbox[c] = <<>> =>
      CASE screen[c].phase = "registering" ->
             state = "up" => \E i \in DOMAIN requests : requests[i] = Request(c, "REGISTER")
        [] OTHER -> state = "crashed" \/ \E s \in Slots : Believes(c, s)
-----------------------------------------------------------------------------
(* The inductive invariant: tables that agree, and for every local client   *)
(* what it will show when it has read all that it was sent.                 *)

Messages == [type : Ending \union {"WAIT_OPPONENT", "GAME_STARTED", "GAME_STATE", "PING"},
             taken : SUBSET Fields, turn : BOOLEAN]
Requests == UNION {Datagrams(c) : c \in Clients}

TypedMemory(M) ==
  /\ M.conns \in [Slots -> [addr : SUBSET Clients, nickname : SUBSET Clients,
                            opponent : Slots \union {None}]]
  /\ M.games \in [Slots -> [turn : Slots \union {None}, taken : SUBSET Fields]]
  /\ M.playing \in [Slots -> Slots \union {None}]
  /\ M.waiting \in Slots \union {None} /\ M.count \in Nat
  /\ M.state \in {"up", "exited", "crashed"}
  /\ M.inbox \in [Local -> Seq(Messages)]

(* A connection that is used has the address of a client and its nickname. *)
OneClientEach(M) ==
  \A s \in Slots :
    /\ M.conns[s].addr = {} <=> M.conns[s].nickname = {}
    /\ M.conns[s].addr # {} =>
         \E c \in Clients : M.conns[s].addr = {c} /\ M.conns[s].nickname = Nickname(c)

OwnNames(M) ==
  \A s, t \in Slots :
    M.conns[s].nickname # {} /\ M.conns[s].nickname = M.conns[t].nickname => s = t

(* Two opponents have each other and the game that one of them has started. *)
PairOf(M, s) ==
  LET o == M.conns[s].opponent
      g == M.playing[s]
  IN  /\ o = None => g = None
      /\ o # None =>
           /\ o # s /\ M.conns[o].opponent = s /\ M.conns[s].addr # {}
           /\ g \in {s, o} /\ M.playing[o] = g /\ M.games[g].turn \in {s, o}

Pairs(M) == \A s \in Slots : PairOf(M, s)

WaitsAlone(M) ==
  M.waiting # None => M.conns[M.waiting].addr # {} /\ M.conns[M.waiting].opponent = None

UsedIn(M) == {s \in Slots : M.conns[s].addr # {}}

Tables(M) ==
  /\ TypedMemory(M) /\ OneClientEach(M) /\ OwnNames(M) /\ Pairs(M) /\ WaitsAlone(M)
  /\ M.count = Cardinality(UsedIn(M))

(* The last message of some types in a queue: a set of one, or none. *)
Latest(q, types) ==
  {q[i] : i \in {j \in DOMAIN q : /\ q[j].type \in types
                                 /\ \A k \in DOMAIN q : k > j => q[k].type \notin types}}

(* What a client will show when it has read its messages *)
PhasesShown(M, c) ==
  LET last == Latest(M.inbox[c], {"WAIT_OPPONENT", "GAME_STARTED"})
  IN  IF last = {} THEN {screen[c].phase}
      ELSE {IF m.type = "WAIT_OPPONENT" THEN "waiting" ELSE "playing" : m \in last}
BoardsShown(M, c) ==
  LET last == Latest(M.inbox[c], {"GAME_STATE"})
  IN  {[taken |-> m.taken, turn |-> m.turn] : m \in IF last = {} THEN {screen[c]} ELSE last}

WillEnd(M, c) == \E i \in DOMAIN M.inbox[c] : M.inbox[c][i].type \in Ending

WillBelieve(M, c, s) ==
  /\ M.conns[s].addr = {c}
  /\ PhasesShown(M, c) = {IF M.conns[s].opponent = None THEN "waiting" ELSE "playing"}
  /\ M.conns[s].opponent # None =>
       BoardsShown(M, c) = {[taken |-> M.games[M.playing[s]].taken,
                             turn |-> M.games[M.playing[s]].turn = s]}

(* The server has not dealt with the client yet. *)
Unknown(M, c) ==
  /\ screen[c].phase = "registering" /\ M.inbox[c] = <<>>
  /\ \A s \in Slots : M.conns[s].addr # {c}

(* R: the clients whose registration is still to be handled *)
Informed(M, R, c) ==
  \/ client[c] \in {"leaving", "gone"}
  \/ Unknown(M, c) /\ (client[c] = "on" /\ M.state = "up" => c \in R)
  \/ /\ client[c] = "on"
     /\ WillEnd(M, c) \/ M.state = "crashed" \/ \E s \in Slots : WillBelieve(M, c, s)

Registering == {c \in Local : \E i \in DOMAIN requests : requests[i] = Request(c, "REGISTER")}

TypedClients ==
  /\ client \in [Clients -> {"off", "on", "leaving", "gone"}]
  /\ screen \in [Local -> [phase : {"registering", "waiting", "playing"},
                            taken : SUBSET Fields, turn : BOOLEAN]]
  /\ requests \in Seq(Requests)
  /\ \A i \in DOMAIN requests : requests[i].from \in Local /\ client[requests[i].from] # "off"

IInv ==
  /\ Tables(Memory) /\ TypedClients
  /\ \A c \in Local : Informed(Memory, Registering, c)
=============================================================================
