----------------------- MODULE TicTacToeDatagram_proofs -----------------------
(***************************************************************************)
(* Proofs about TicTacToeDatagram for any number of clients and slots, any  *)
(* nicknames and any field of play.                                         *)
(*                                                                         *)
(* As over streams each handler is a function of the server's memory, and   *)
(* its lemma is about memories: sound tables become sound tables, and a     *)
(* local client that was going to show the truth still is.  Half-way        *)
(* through a handler some clients (X) are not told yet what has changed.    *)
(***************************************************************************)
EXTENDS TicTacToeDatagram, CommonLemmas

MemoryFields == {"conns", "games", "playing", "waiting", "count", "state", "inbox", "ok"}

Sound(M) == DOMAIN M = MemoryFields /\ Tables(M)

AllInformed(M, R, X) == \A d \in Local \ X : Informed(M, R, d)

(* What N has in common with M when only messages were sent. *)
Same(M, N) ==
  /\ DOMAIN N = MemoryFields /\ N.inbox \in [Local -> Seq(Messages)]
  /\ N.conns = M.conns /\ N.games = M.games /\ N.playing = M.playing
  /\ N.waiting = M.waiting /\ N.count = M.count /\ N.state = M.state

Reachable(c) == c \in Local => client[c] # "gone"

(* From M to N the message m was sent to the client c. *)
Reaches(M, N, c, m) ==
  /\ Same(M, N)
  /\ \A d \in Local \ {c} : N.inbox[d] = M.inbox[d]
  /\ N.ok <=> Reachable(c)
  /\ c \in Local /\ client[c] = "on" => N.ok /\ N.inbox[c] = Append(M.inbox[c], m)

-------------------------------------------------------------------------------
(* There are finitely many slots, and no slot is None. *)
LEMMA SlotsAreFinite ==
  /\ Slots \subseteq Nat /\ None \notin Slots /\ None = 0
  /\ \A S \in SUBSET Slots : IsFiniteSet(S) /\ Cardinality(S) \in Nat
<1>1. IsFiniteSet(Slots)
  BY Numbers, FS_Interval DEF Slots
<1>2. \A S \in SUBSET Slots : IsFiniteSet(S) /\ Cardinality(S) \in Nat
  BY <1>1, FS_Subset, FS_CardinalityType
<1> QED
  BY <1>2, Numbers DEF Slots, None

LEMMA MessagesTyped ==
  \A type \in {"DISCONNECT", "SERVER_FULL", "USERNAME_TAKEN", "GAME_RESULT", "PING",
               "WAIT_OPPONENT", "GAME_STARTED"} :
    Message(type) \in Messages /\ Message(type).type = type
<1> SUFFICES ASSUME NEW type \in {"DISCONNECT", "SERVER_FULL", "USERNAME_TAKEN", "GAME_RESULT", "PING",
                                  "WAIT_OPPONENT", "GAME_STARTED"}
             PROVE  Message(type) \in Messages /\ Message(type).type = type
  OBVIOUS
<1>1. type \in Ending \union {"WAIT_OPPONENT", "GAME_STARTED", "GAME_STATE", "PING"}
  BY DEF Ending
<1>2. {} \in SUBSET Fields /\ FALSE \in BOOLEAN
  OBVIOUS
<1>3. Message(type) = [type |-> type, taken |-> {}, turn |-> FALSE]
  BY DEF Message
<1>4. Message(type) \in Messages
  BY <1>1, <1>2, <1>3 DEF Messages
<1> QED
  BY <1>3, <1>4

-------------------------------------------------------------------------------
(* The last message of some types *)

LEMMA LatestOfNone == ASSUME NEW types PROVE Latest(<<>>, types) = {}
BY DEF Latest

LEMMA LatestAppended ==
  ASSUME NEW q \in Seq(Messages), NEW m \in Messages, NEW types
  PROVE  Latest(Append(q, m), types) = IF m.type \in types THEN {m} ELSE Latest(q, types)
<1> DEFINE r == Append(q, m)
           n == Len(q) + 1
<1>1. /\ Len(q) \in Nat /\ DOMAIN q = 1 .. Len(q) /\ DOMAIN r = 1 .. n /\ n \in Nat
      /\ r[n] = m /\ \A i \in DOMAIN q : r[i] = q[i] /\ n > i /\ ~(i > n)
  BY AppendProperties
<1>2. DOMAIN r = DOMAIN q \union {n} /\ n \notin DOMAIN q /\ \A i \in DOMAIN q : i \in Nat
  BY <1>1
<1> HIDE DEF r, n
<1> DEFINE LastIn(p) == {j \in DOMAIN p : /\ p[j].type \in types
                                       /\ \A k \in DOMAIN p : k > j => p[k].type \notin types}
<1>3. Latest(r, types) = {r[i] : i \in LastIn(r)} /\ Latest(q, types) = {q[i] : i \in LastIn(q)}
  BY DEF Latest
<1>4. CASE m.type \in types
  <2>1. n \in LastIn(r)
    BY <1>1, <1>2, <1>4
  <2>2. \A j \in LastIn(r) : j = n
    BY <1>1, <1>2, <1>4
  <2> HIDE DEF LastIn
  <2> QED
    BY <1>1, <1>3, <1>4, <2>1, <2>2 DEF r
<1>5. CASE m.type \notin types
  <2>1. LastIn(r) = LastIn(q)
    BY <1>1, <1>2, <1>5
  <2>2. \A i \in LastIn(q) : r[i] = q[i]
    BY <1>1
  <2> HIDE DEF LastIn
  <2> QED
    BY <1>3, <1>5, <2>1, <2>2 DEF r
<1> QED
  BY <1>4, <1>5

LEMMA LatestOfTail ==
  ASSUME NEW q \in Seq(Messages), q # <<>>, NEW types
  PROVE  /\ Tail(q) \in Seq(Messages) /\ Head(q) \in Messages
         /\ Latest(q, types) = IF Head(q).type \in types /\ Latest(Tail(q), types) = {}
                               THEN {Head(q)} ELSE Latest(Tail(q), types)
<1> DEFINE r == Tail(q)
           n == Len(q) - 1
           LastIn(p) == {j \in DOMAIN p : /\ p[j].type \in types
                                       /\ \A k \in DOMAIN p : k > j => p[k].type \notin types}
<1>1. /\ n \in Nat /\ DOMAIN q = 1 .. n + 1 /\ DOMAIN r = 1 .. n /\ r \in Seq(Messages)
      /\ q[1] = Head(q) /\ Head(q) \in Messages /\ \A i \in 1 .. n : r[i] = q[i + 1]
  <2>1. Len(q) \in Nat /\ DOMAIN q = 1 .. Len(q) /\ Len(q) # 0
    BY EmptySeq
  <2>2. r \in Seq(Messages) /\ Len(r) = n /\ \A i \in 1 .. n : r[i] = q[i + 1]
    BY HeadTailProperties
  <2> QED
    BY <2>1, <2>2, HeadTailProperties
<1> HIDE DEF r, n
<1>2. Latest(r, types) = {r[i] : i \in LastIn(r)} /\ Latest(q, types) = {q[i] : i \in LastIn(q)}
  BY DEF Latest
<1>3. \A j \in DOMAIN r : j \in Nat /\ j + 1 \in DOMAIN q /\ r[j] = q[j + 1]
  BY <1>1
<1>4. \A j \in DOMAIN q : j \in Nat /\ (j # 1 => j - 1 \in DOMAIN r /\ r[j - 1] = q[j])
  BY <1>1
<1>5. \A j \in LastIn(r) : j + 1 \in LastIn(q)
  <2> SUFFICES ASSUME NEW j \in LastIn(r), NEW k \in DOMAIN q, k > j + 1
               PROVE  q[j + 1].type \in types /\ q[k].type \notin types
    BY <1>3
  <2>1. k - 1 \in DOMAIN r /\ r[k - 1] = q[k] /\ k - 1 > j
    BY <1>3, <1>4
  <2> QED
    BY <1>3, <2>1
<1>6. \A j \in LastIn(q) : j # 1 => j - 1 \in LastIn(r)
  <2> SUFFICES ASSUME NEW j \in LastIn(q), j # 1, NEW k \in DOMAIN r, k > j - 1
               PROVE  r[j - 1].type \in types /\ r[k].type \notin types
    BY <1>4
  <2>1. k + 1 \in DOMAIN q /\ r[k] = q[k + 1] /\ k + 1 > j
    BY <1>3, <1>4
  <2> QED
    BY <1>4, <2>1
<1>7. 1 \in LastIn(q) <=> Head(q).type \in types /\ LastIn(r) = {}
  <2>1. 1 \in DOMAIN q
    BY <1>1
  <2>2. ASSUME 1 \in LastIn(q) PROVE Head(q).type \in types /\ LastIn(r) = {}
    <3>1. \A j \in DOMAIN r : r[j].type \notin types
      BY <1>1, <1>3, <2>2
    <3> QED
      BY <1>1, <2>2, <3>1
  <2>3. ASSUME Head(q).type \in types, LastIn(r) = {} PROVE 1 \in LastIn(q)
    <3>1. ASSUME NEW k \in DOMAIN q, k > 1, q[k].type \in types PROVE FALSE
      <4> DEFINE K == {j \in Nat : j \in DOMAIN r /\ r[j].type \in types}
                 down == {n - j : j \in K}
      <4>1. k - 1 \in K
        BY <1>4, <3>1
      <4>2. down \in SUBSET Nat /\ down # {}
        BY <1>1, <4>1
      <4>3. Min(down) \in down /\ \A i \in down : Min(down) <= i
        BY <4>2, MinIsElement
      <4>4. PICK j \in K : Min(down) = n - j
        BY <4>3
      <4>5. \A i \in K : n - j <= n - i
        BY <4>3, <4>4
      <4>6. j \in LastIn(r)
        BY <1>1, <4>4, <4>5
      <4> QED
        BY <2>3, <4>6
    <3> QED
      BY <1>1, <2>1, <2>3, <3>1
  <2> QED
    BY <2>2, <2>3
<1>8. \A j \in LastIn(q) : j \in Nat
  BY <1>4
<1> HIDE DEF LastIn
<1>9. CASE 1 \in LastIn(q)
  <2>1. \A j \in LastIn(q) : j = 1
    BY <1>6, <1>7, <1>9
  <2> QED
    BY <1>1, <1>2, <1>7, <1>9, <2>1 DEF r
<1>10. CASE 1 \notin LastIn(q)
  <2>1. \A j \in LastIn(q) : j - 1 \in LastIn(r) /\ r[j - 1] = q[j]
    <3>1. \A j \in LastIn(q) : j \in DOMAIN q
      BY DEF LastIn
    <3> QED
      BY <1>4, <1>6, <1>10, <3>1
  <2>2. \A j \in LastIn(r) : j + 1 \in LastIn(q) /\ r[j] = q[j + 1]
    <3>1. \A j \in LastIn(r) : j \in DOMAIN r
      BY DEF LastIn
    <3> QED
      BY <1>3, <1>5, <3>1
  <2>3. {q[i] : i \in LastIn(q)} = {r[i] : i \in LastIn(r)}
    BY <2>1, <2>2
  <2>4. Latest(r, types) = {} <=> LastIn(r) = {}
    BY <1>2, ZenonT(60)
  <2> QED
    BY <1>1, <1>2, <1>7, <1>10, <2>3, <2>4 DEF r
<1> QED
  BY <1>9, <1>10

-------------------------------------------------------------------------------
(* Sending a message *)

LEMMA SendReaches ==
  ASSUME NEW M, DOMAIN M = MemoryFields, M.inbox \in [Local -> Seq(Messages)],
         NEW c, NEW m \in Messages
  PROVE  Reaches(M, SendTo(M, c, m), c, m)
<1> DEFINE N == SendTo(M, c, m)
<1>1. CASE c \notin Local
  <2>1. N = [M EXCEPT !.ok = TRUE]
    BY <1>1 DEF SendTo
  <2> QED
    BY <1>1, <2>1 DEF Reaches, Reachable, Same, MemoryFields
<1>2. CASE c \in Local /\ client[c] = "gone"
  <2>1. N = [M EXCEPT !.ok = FALSE]
    BY <1>2 DEF SendTo
  <2> QED
    BY <1>2, <2>1 DEF Reaches, Reachable, Same, MemoryFields
<1>3. CASE c \in Local /\ client[c] # "gone"
  <2>1. N = [M EXCEPT !.inbox[c] = Append(@, m), !.ok = TRUE]
    BY <1>3 DEF SendTo
  <2>2. /\ DOMAIN N = MemoryFields /\ N.inbox = [M.inbox EXCEPT ![c] = Append(M.inbox[c], m)]
        /\ N.conns = M.conns /\ N.games = M.games /\ N.playing = M.playing
        /\ N.waiting = M.waiting /\ N.count = M.count /\ N.state = M.state /\ N.ok
    BY <2>1 DEF MemoryFields
  <2> HIDE DEF N
  <2>3. Append(M.inbox[c], m) \in Seq(Messages)
    BY <1>3, AppendProperties
  <2> QED
    BY <1>3, <2>2, <2>3 DEF Reaches, Reachable, Same, N
<1> QED
  BY <1>1, <1>2, <1>3

(* A connection that is used is that of one client. *)
LEMMA AddressIsClient ==
  ASSUME NEW M, TypedMemory(M), OneClientEach(M), NEW s \in Slots, M.conns[s].addr # {}
  PROVE  /\ AddressOf(M, s) \in Clients /\ M.conns[s].addr = {AddressOf(M, s)}
         /\ M.conns[s].nickname = Nickname(AddressOf(M, s))
<1>1. PICK c \in Clients : M.conns[s].addr = {c} /\ M.conns[s].nickname = Nickname(c)
  BY DEF OneClientEach
<1>2. AddressOf(M, s) = c
  BY <1>1 DEF AddressOf
<1> QED
  BY <1>1, <1>2

(* No two connections are those of one client. *)
LEMMA AddressesDiffer ==
  ASSUME NEW M, TypedMemory(M), OneClientEach(M), OwnNames(M),
         NEW s \in Slots, NEW t \in Slots, M.conns[s].addr # {}, M.conns[s].addr = M.conns[t].addr
  PROVE  s = t
<1>1. M.conns[s].nickname = M.conns[t].nickname
  BY AddressIsClient DEF AddressOf
<1>2. M.conns[s].nickname # {}
  BY DEF OneClientEach
<1> QED
  BY <1>1, <1>2 DEF OwnNames

LEMMA SendToSlot ==
  ASSUME NEW M, DOMAIN M = MemoryFields, TypedMemory(M), OneClientEach(M),
         NEW s \in Slots, M.conns[s].addr # {}, NEW m \in Messages
  PROVE  Reaches(M, Send(M, s, m), AddressOf(M, s), m)
BY SendReaches DEF Send, TypedMemory

(* Two messages to different clients: if both are sent, both arrive. *)
LEMMA BothReach ==
  ASSUME NEW M, DOMAIN M = MemoryFields, TypedMemory(M), OneClientEach(M), OwnNames(M),
         NEW s \in Slots, NEW t \in Slots \ {s}, M.conns[s].addr # {}, M.conns[t].addr # {},
         NEW m \in Messages, NEW n \in Messages
  PROVE  LET N == Both(M, s, m, t, n)
             c == AddressOf(M, s)
             d == AddressOf(M, t)
         IN  /\ Same(M, N) /\ c # d /\ (N.ok <=> Reachable(c) /\ Reachable(d))
             /\ \A e \in Local \ {c, d} : N.inbox[e] = M.inbox[e]
             /\ N.ok /\ c \in Local /\ client[c] = "on" => N.inbox[c] = Append(M.inbox[c], m)
             /\ N.ok /\ d \in Local /\ client[d] = "on" => N.inbox[d] = Append(M.inbox[d], n)
<1> DEFINE c == AddressOf(M, s)
           d == AddressOf(M, t)
           first == Send(M, s, m)
           N == Both(M, s, m, t, n)
<1>1. Reaches(M, first, c, m)
  BY SendToSlot
<1>2. c # d
  <2>1. M.conns[s].addr = {c} /\ M.conns[t].addr = {d}
    BY AddressIsClient
  <2>2. M.conns[s].addr # M.conns[t].addr
    BY AddressesDiffer
  <2> QED
    BY <2>1, <2>2
<1>3. CASE ~first.ok
  BY <1>1, <1>2, <1>3 DEF Reaches, Both
<1>4. CASE first.ok
  <2>1. N = SendTo(first, AddressOf(first, t), n)
    BY <1>4 DEF Both, Send
  <2>2. AddressOf(first, t) = d /\ DOMAIN first = MemoryFields /\ first.inbox \in [Local -> Seq(Messages)]
    BY <1>1 DEF Reaches, Same, AddressOf
  <2> HIDE DEF first, N, c, d
  <2>3. Reaches(first, N, d, n)
    BY <2>1, <2>2, SendReaches
  <2>4. /\ Same(M, N) /\ (N.ok <=> Reachable(c) /\ Reachable(d))
        /\ \A e \in Local \ {c, d} : N.inbox[e] = M.inbox[e]
    BY <1>1, <1>4, <2>3 DEF Reaches, Same
  <2>5. /\ c \in Local /\ client[c] = "on" => N.inbox[c] = Append(M.inbox[c], m)
        /\ d \in Local /\ client[d] = "on" => N.inbox[d] = Append(M.inbox[d], n)
    BY <1>1, <1>2, <2>3 DEF Reaches, c, d
  <2> QED
    BY <1>2, <2>4, <2>5 DEF N, c, d
<1> QED
  BY <1>3, <1>4

(* A memory that differs in its queues only is as sound. *)
LEMMA SameIsSound ==
  ASSUME NEW M, NEW N, Sound(M), Same(M, N)
  PROVE  Sound(N)
<1>1. TypedMemory(N)
  BY DEF Sound, Same, Tables, TypedMemory
<1>2. OneClientEach(N) /\ OwnNames(N) /\ Pairs(N) /\ WaitsAlone(N)
  BY DEF Sound, Same, Tables, OneClientEach, OwnNames, Pairs, PairOf, WaitsAlone
<1> QED
  BY <1>1, <1>2 DEF Sound, Same, Tables, UsedIn

-------------------------------------------------------------------------------
(* What the local clients will show *)

LEMMA EndingTypes ==
  /\ "DISCONNECT" \in Ending /\ "SERVER_FULL" \in Ending /\ "USERNAME_TAKEN" \in Ending
  /\ "PING" \notin Ending /\ "WAIT_OPPONENT" \notin Ending /\ "GAME_STARTED" \notin Ending
  /\ "GAME_STATE" \notin Ending
BY DEF Ending

BoardIn(m) == {[taken |-> m.taken, turn |-> m.turn]}

(* One more message in a queue *)
LEMMA MoreToShow ==
  ASSUME NEW M, NEW N, NEW c, M.inbox[c] \in Seq(Messages), NEW m \in Messages,
         N.inbox[c] = Append(M.inbox[c], m)
  PROVE  /\ WillEnd(M, c) \/ m.type \in Ending => WillEnd(N, c)
         /\ m.type = "WAIT_OPPONENT" => PhasesShown(N, c) = {"waiting"}
         /\ m.type = "GAME_STARTED" => PhasesShown(N, c) = {"playing"}
         /\ m.type \notin {"WAIT_OPPONENT", "GAME_STARTED"} => PhasesShown(N, c) = PhasesShown(M, c)
         /\ m.type = "GAME_STATE" => BoardsShown(N, c) = BoardIn(m)
         /\ m.type # "GAME_STATE" => BoardsShown(N, c) = BoardsShown(M, c)
<1> DEFINE q == M.inbox[c]
           phases == {"WAIT_OPPONENT", "GAME_STARTED"}
           boards == {"GAME_STATE"}
<1>0. \A types : Latest(N.inbox[c], types) = IF m.type \in types THEN {m} ELSE Latest(q, types)
  <2> TAKE types
  <2>1. q \in Seq(Messages) /\ N.inbox[c] = Append(q, m)
    OBVIOUS
  <2> HIDE DEF q
  <2>2. Latest(Append(q, m), types) = IF m.type \in types THEN {m} ELSE Latest(q, types)
    BY <2>1, LatestAppended
  <2> QED
    BY <2>1, <2>2
<1> HIDE DEF phases, boards
<1>1. /\ Latest(N.inbox[c], phases) = IF m.type \in phases THEN {m} ELSE Latest(q, phases)
      /\ Latest(N.inbox[c], boards) = IF m.type \in boards THEN {m} ELSE Latest(q, boards)
  BY <1>0
<1> USE DEF phases, boards
<1>2. WillEnd(M, c) \/ m.type \in Ending => WillEnd(N, c)
  <2>1. /\ \A i \in DOMAIN q : i \in DOMAIN N.inbox[c] /\ N.inbox[c][i] = q[i]
        /\ Len(q) + 1 \in DOMAIN N.inbox[c] /\ N.inbox[c][Len(q) + 1] = m
    <3>1. Len(q) \in Nat /\ DOMAIN q = 1 .. Len(q)
      OBVIOUS
    <3> QED
      BY <3>1, AppendProperties
  <2> QED
    BY <2>1 DEF WillEnd
<1>3. ASSUME m.type \in phases
      PROVE  PhasesShown(N, c) = {IF m.type = "WAIT_OPPONENT" THEN "waiting" ELSE "playing"}
  <2>1. Latest(N.inbox[c], phases) = {m}
    BY <1>1, <1>3
  <2> QED
    BY <2>1 DEF PhasesShown
<1>4. m.type \notin phases => PhasesShown(N, c) = PhasesShown(M, c)
  BY <1>1 DEF PhasesShown
<1>5. ASSUME m.type \in boards
      PROVE  BoardsShown(N, c) = BoardIn(m)
  <2>1. Latest(N.inbox[c], boards) = {m}
    BY <1>1, <1>5
  <2> QED
    BY <2>1 DEF BoardsShown, BoardIn
<1>6. m.type \notin boards => BoardsShown(N, c) = BoardsShown(M, c)
  BY <1>1 DEF BoardsShown
<1> QED
  BY <1>2, <1>3, <1>4, <1>5, <1>6

(* What has not changed for the client of a connection *)
SlotKept(M, N, t) ==
  /\ N.conns[t].opponent = M.conns[t].opponent /\ N.playing[t] = M.playing[t]
  /\ N.conns[t].addr = M.conns[t].addr
  /\ M.conns[t].opponent # None => N.games[M.playing[t]] = M.games[M.playing[t]]

(* A client that was sent nothing, and whose connection has not changed, is still informed. *)
LEMMA StillInformed ==
  ASSUME NEW M, NEW N, NEW R, NEW d \in Local, Informed(M, R, d),
         N.inbox[d] = M.inbox[d], N.state = M.state,
         \A t \in Slots : M.conns[t].addr = {d} \/ N.conns[t].addr = {d} => SlotKept(M, N, t)
  PROVE  Informed(N, R, d)
<1>1. CASE client[d] \in {"leaving", "gone"}
  BY <1>1 DEF Informed
<1>2. CASE Unknown(M, d) /\ (client[d] = "on" /\ M.state = "up" => d \in R)
  BY <1>2 DEF Informed, Unknown, SlotKept
<1>3. CASE client[d] = "on" /\ (WillEnd(M, d) \/ M.state = "crashed")
  BY <1>3 DEF Informed, WillEnd
<1>4. ASSUME client[d] = "on", NEW s \in Slots, WillBelieve(M, d, s)
      PROVE  Informed(N, R, d)
  <2>1. SlotKept(M, N, s) /\ M.conns[s].addr = {d}
    BY <1>4 DEF WillBelieve
  <2>2. PhasesShown(N, d) = PhasesShown(M, d) /\ BoardsShown(N, d) = BoardsShown(M, d)
    BY DEF PhasesShown, BoardsShown
  <2>3. WillBelieve(N, d, s)
    BY <1>4, <2>1, <2>2 DEF WillBelieve, SlotKept
  <2> QED
    BY <1>4, <2>3 DEF Informed
<1> QED
  BY <1>1, <1>2, <1>3, <1>4 DEF Informed

-------------------------------------------------------------------------------
(* remove_connection *)

(* The slots that are emptied together with s *)
Partners(M, s) == IF M.conns[s].opponent = None THEN {s} ELSE {s, M.conns[s].opponent}

(* The tables agree but for the slots in S, which nobody else refers to. *)
Detachable(M, S) ==
  /\ DOMAIN M = MemoryFields
  /\ TypedMemory(M) /\ OneClientEach(M) /\ OwnNames(M) /\ M.count = Cardinality(UsedIn(M))
  /\ S \subseteq UsedIn(M)
  /\ \A t \in Slots \ S : PairOf(M, t) /\ M.conns[t].opponent \notin S
  /\ M.waiting \notin S => WaitsAlone(M)

(* From M to N the slots in S were emptied and their clients told so. *)
Removed(M, N, S) ==
  /\ DOMAIN N = MemoryFields /\ N.inbox \in [Local -> Seq(Messages)]
  /\ N.conns = [t \in Slots |-> IF t \in S THEN Empty ELSE M.conns[t]]
  /\ N.playing = [t \in Slots |-> IF t \in S THEN None ELSE M.playing[t]]
  /\ N.games = [g \in Slots |-> N.games[g]]
  /\ \A g \in Slots : N.games[g] \in {M.games[g], NoGame}
  /\ \A g \in Slots \ S : N.games[g] = M.games[g]
  /\ N.waiting = (IF M.waiting \in S THEN None ELSE M.waiting)
  /\ N.count = M.count - Cardinality(S) /\ N.state = M.state
  /\ \A d \in Local : (\A t \in S : d # AddressOf(M, t)) => N.inbox[d] = M.inbox[d]
  /\ \A t \in S : LET d == AddressOf(M, t) IN d \in Local /\ client[d] = "on" => WillEnd(N, d)

LEMMA EmptyFields ==
  /\ Empty \in [addr : SUBSET Clients, nickname : SUBSET Clients, opponent : Slots \union {None}]
  /\ Empty.addr = {} /\ Empty.nickname = {} /\ Empty.opponent = None
  /\ NoGame \in [turn : Slots \union {None}, taken : SUBSET Fields]
BY DEF Empty, NoGame

(* From M to N the connection of s was emptied and its client told so. *)
OneRemoved(M, N, s) ==
  LET d == AddressOf(M, s)
  IN  /\ DOMAIN N = MemoryFields /\ N.inbox \in [Local -> Seq(Messages)]
      /\ N.conns = [M.conns EXCEPT ![s] = Empty] /\ N.playing = [M.playing EXCEPT ![s] = None]
      /\ N.games = M.games /\ N.waiting = (IF M.waiting = s THEN None ELSE M.waiting)
      /\ N.count = M.count - 1 /\ N.state = M.state
      /\ \A e \in Local \ {d} : N.inbox[e] = M.inbox[e]
      /\ d \in Local /\ client[d] = "on" => N.inbox[d] = Append(M.inbox[d], Message("DISCONNECT"))

LEMMA RemovedOne ==
  ASSUME NEW M, DOMAIN M = MemoryFields, M.inbox \in [Local -> Seq(Messages)],
         DOMAIN M.conns = Slots, DOMAIN M.playing = Slots, NEW s \in Slots
  PROVE  OneRemoved(M, RemoveOne(M, s), s)
<1> DEFINE sent == Send(M, s, Message("DISCONNECT"))
           N == RemoveOne(M, s)
<1>1. Reaches(M, sent, AddressOf(M, s), Message("DISCONNECT"))
  <2>1. Message("DISCONNECT") \in Messages
    BY MessagesTyped
  <2> QED
    BY <2>1, SendReaches DEF Send
<1>2. N = [sent EXCEPT !.waiting = IF @ = s THEN None ELSE @, !.conns[s] = Empty,
                       !.playing[s] = None, !.count = @ - 1, !.ok = TRUE]
  BY DEF RemoveOne
<1>3. DOMAIN sent = MemoryFields
  BY <1>1 DEF Reaches, Same
<1> HIDE DEF sent
<1>4. /\ DOMAIN N = MemoryFields /\ N.inbox = sent.inbox
      /\ N.conns = [sent.conns EXCEPT ![s] = Empty] /\ N.playing = [sent.playing EXCEPT ![s] = None]
      /\ N.games = sent.games /\ N.waiting = (IF sent.waiting = s THEN None ELSE sent.waiting)
      /\ N.count = sent.count - 1 /\ N.state = sent.state
  BY <1>2, <1>3 DEF MemoryFields
<1> HIDE DEF N
<1>5. /\ DOMAIN N = MemoryFields /\ N.inbox = sent.inbox
      /\ N.conns = [M.conns EXCEPT ![s] = Empty] /\ N.playing = [M.playing EXCEPT ![s] = None]
      /\ N.games = M.games /\ N.waiting = (IF M.waiting = s THEN None ELSE M.waiting)
      /\ N.count = M.count - 1 /\ N.state = M.state
  BY <1>1, <1>4 DEF Reaches, Same
<1> QED
  BY <1>1, <1>5 DEF Reaches, Same, OneRemoved, N

LEMMA RemoveDoes ==
  ASSUME NEW M, DOMAIN M = MemoryFields, TypedMemory(M), NEW s \in Slots, M.conns[s].opponent # s,
         M.playing[s] \in Partners(M, s) \union {None}
  PROVE  Removed(M, RemoveConnection(M, s), Partners(M, s))
<1> DEFINE o == M.conns[s].opponent
           first == RemoveOne(M, s)
           freed == [first EXCEPT !.conns[o].opponent = None, !.games[M.playing[s]] = NoGame]
           N == RemoveConnection(M, s)
           S == Partners(M, s)
           bye == Message("DISCONNECT")
<1>1. /\ M.inbox \in [Local -> Seq(Messages)] /\ DOMAIN M.conns = Slots /\ DOMAIN M.playing = Slots
      /\ DOMAIN M.games = Slots /\ M.count \in Nat /\ o \in Slots \union {None}
      /\ bye \in Messages /\ bye.type \in Ending
  <2>1. bye \in Messages /\ bye.type = "DISCONNECT"
    BY MessagesTyped
  <2> QED
    BY <2>1, EndingTypes DEF TypedMemory
<1> DEFINE c == AddressOf(M, s)
<1>2. /\ DOMAIN first = MemoryFields /\ first.inbox \in [Local -> Seq(Messages)]
      /\ first.conns = [M.conns EXCEPT ![s] = Empty] /\ first.playing = [M.playing EXCEPT ![s] = None]
      /\ first.games = M.games /\ first.waiting = (IF M.waiting = s THEN None ELSE M.waiting)
      /\ first.count = M.count - 1 /\ first.state = M.state
      /\ \A e \in Local \ {c} : first.inbox[e] = M.inbox[e]
      /\ c \in Local /\ client[c] = "on" => first.inbox[c] = Append(M.inbox[c], bye)
  BY <1>1, RemovedOne DEF OneRemoved
<1> HIDE DEF first, bye, c
<1>3. c \in Local /\ client[c] = "on" => WillEnd(first, c)
  BY <1>1, <1>2, MoreToShow
<1>4. CASE o = None
  <2>1. N = first /\ S = {s}
    BY <1>4 DEF RemoveConnection, Partners, first
  <2>2. Cardinality({s}) = 1
    BY FS_Singleton
  <2>3. first.conns = [t \in Slots |-> IF t \in {s} THEN Empty ELSE M.conns[t]]
        /\ first.playing = [t \in Slots |-> IF t \in {s} THEN None ELSE M.playing[t]]
    BY <1>1, <1>2
  <2>5. first.games = [g \in Slots |-> first.games[g]]
    BY <1>2 DEF TypedMemory
  <2> HIDE DEF N, S
  <2>4. Removed(M, first, {s})
    BY <1>1, <1>2, <1>3, <2>2, <2>3, <2>5 DEF Removed, c
  <2> QED
    BY <2>1, <2>4 DEF N, S
<1>5. CASE o # None
  <2> DEFINE d == AddressOf(freed, o)
  <2>1. N = RemoveOne(freed, o) /\ S = {s, o} /\ o \in Slots \ {s}
    BY <1>1, <1>5 DEF RemoveConnection, Partners, first
  <2>2. /\ DOMAIN freed = MemoryFields /\ freed.inbox = first.inbox
        /\ freed.conns = [first.conns EXCEPT ![o].opponent = None]
        /\ freed.playing = first.playing /\ freed.games = [first.games EXCEPT ![M.playing[s]] = NoGame]
        /\ freed.waiting = first.waiting /\ freed.count = first.count /\ freed.state = first.state
    BY <1>2 DEF MemoryFields
  <2> HIDE DEF freed, N, S
  <2>3. /\ DOMAIN freed.conns = Slots /\ \A t \in Slots \ {s, o} : freed.conns[t] = M.conns[t]
        /\ freed.conns[s] = Empty /\ freed.conns[o] = [M.conns[o] EXCEPT !.opponent = None]
    <3>1. DOMAIN M.conns = Slots /\ o \in Slots /\ o # s
      BY <1>1, <2>1
    <3>2. freed.conns = [[M.conns EXCEPT ![s] = Empty] EXCEPT ![o].opponent = None]
      BY <1>2, <2>2
    <3> QED
      BY <3>1, <3>2
  <2>4. d = AddressOf(M, o)
    <3>1. M.conns[o] \in [addr : SUBSET Clients, nickname : SUBSET Clients, opponent : Slots \union {None}]
      BY <2>1 DEF TypedMemory
    <3>2. freed.conns[o].addr = M.conns[o].addr
      BY <2>3, <3>1
    <3> QED
      BY <3>2 DEF AddressOf
  <2> HIDE DEF d
  <2>5. /\ DOMAIN N = MemoryFields /\ N.inbox \in [Local -> Seq(Messages)]
        /\ N.conns = [freed.conns EXCEPT ![o] = Empty] /\ N.playing = [freed.playing EXCEPT ![o] = None]
        /\ N.games = freed.games /\ N.waiting = (IF freed.waiting = o THEN None ELSE freed.waiting)
        /\ N.count = freed.count - 1 /\ N.state = freed.state
        /\ \A e \in Local \ {d} : N.inbox[e] = freed.inbox[e]
        /\ d \in Local /\ client[d] = "on" => N.inbox[d] = Append(freed.inbox[d], bye)
    <3>1. /\ DOMAIN freed = MemoryFields /\ freed.inbox \in [Local -> Seq(Messages)]
          /\ DOMAIN freed.conns = Slots /\ DOMAIN freed.playing = Slots /\ o \in Slots
      BY <1>1, <1>2, <2>1, <2>2, <2>3
    <3> HIDE DEF o
    <3>2. N = RemoveOne(freed, o) /\ d = AddressOf(freed, o) /\ bye = Message("DISCONNECT")
      BY <2>1 DEF d, bye
    <3>3. OneRemoved(freed, N, o)
      BY <3>1, <3>2, RemovedOne
    <3> QED
      BY <3>2, <3>3 DEF OneRemoved
  <2>6. d \in Local /\ client[d] = "on" => WillEnd(N, d)
    BY <1>1, <1>2, <2>2, <2>5, MoreToShow, ZenonT(60)
  <2>7. c \in Local /\ client[c] = "on" => WillEnd(N, c)
    <3>1. CASE c # d
      BY <1>3, <2>2, <2>5, <3>1 DEF WillEnd
    <3> QED
      BY <2>6, <3>1
  <2>8. Cardinality({s, o}) = 2
    <3>1. IsFiniteSet({s}) /\ Cardinality({s}) = 1 /\ {s, o} = {s} \union {o} /\ o \notin {s}
      BY <2>1, FS_Singleton
    <3>2. Cardinality({s} \union {o}) = Cardinality({s}) + 1
      BY <3>1, FS_AddElement
    <3>3. Cardinality({s} \union {o}) = 1 + 1
      BY <3>1, <3>2, Zenon
    <3>4. Cardinality({s} \union {o}) = 2
      BY <3>3
    <3> QED
      BY <3>1, <3>4, Zenon
  <2>9. /\ N.conns = [t \in Slots |-> IF t \in {s, o} THEN Empty ELSE M.conns[t]]
        /\ N.playing = [t \in Slots |-> IF t \in {s, o} THEN None ELSE M.playing[t]]
    <3>1. N.conns = [t \in Slots |-> IF t \in {s, o} THEN Empty ELSE M.conns[t]]
      BY <2>1, <2>3, <2>5
    <3>2. N.playing = [t \in Slots |-> IF t \in {s, o} THEN None ELSE M.playing[t]]
      <4>1. N.playing = [[M.playing EXCEPT ![s] = None] EXCEPT ![o] = None] /\ DOMAIN M.playing = Slots
        BY <1>1, <1>2, <2>2, <2>5
      <4>2. DOMAIN N.playing = Slots /\ \A t \in Slots : N.playing[t] = IF t \in {s, o} THEN None ELSE M.playing[t]
        BY <2>1, <4>1
      <4>3. N.playing = [t \in Slots |-> N.playing[t]]
        BY <4>1
      <4> QED
        BY <4>2, <4>3
    <3> QED
      BY <3>1, <3>2
  <2>10. /\ N.games = [g \in Slots |-> N.games[g]] /\ \A g \in Slots : N.games[g] \in {M.games[g], NoGame}
         /\ \A g \in Slots \ {s, o} : N.games[g] = M.games[g]
    <3>1. N.games = [M.games EXCEPT ![M.playing[s]] = NoGame]
      BY <1>2, <2>2, <2>5
    <3>2. M.playing[s] \notin Slots \ {s, o}
      BY <2>1, SlotsAreFinite DEF S
    <3> QED
      BY <1>1, <3>1, <3>2
  <2>11. /\ N.waiting = (IF M.waiting \in {s, o} THEN None ELSE M.waiting)
         /\ N.count = M.count - 2 /\ N.state = M.state
    <3>1. N.count = freed.count - 1 /\ freed.count = M.count - 1 /\ M.count \in Nat /\ N.state = M.state
      BY <1>1, <1>2, <2>2, <2>5
    <3>2. N.count = M.count - 2
      BY <3>1
    <3>3. N.waiting = (IF freed.waiting = o THEN None ELSE freed.waiting)
      BY <2>5
    <3>4. freed.waiting = (IF M.waiting = s THEN None ELSE M.waiting)
      BY <1>2, <2>2
    <3>5. N.waiting = (IF M.waiting \in {s, o} THEN None ELSE M.waiting)
      BY <1>5, <3>3, <3>4
    <3> QED
      BY <3>1, <3>2, <3>5
  <2>12. /\ \A e \in Local : e # c /\ e # d => N.inbox[e] = M.inbox[e]
         /\ \A t \in {s, o} : AddressOf(M, t) \in {c, d}
         /\ c = AddressOf(M, s)
    <3>1. ASSUME NEW e \in Local, e # c, e # d PROVE N.inbox[e] = M.inbox[e]
      <4>1. N.inbox[e] = freed.inbox[e]
        BY <2>5, <3>1
      <4>2. freed.inbox = first.inbox
        BY <2>2
      <4>3. first.inbox[e] = M.inbox[e]
        BY <1>2, <3>1
      <4> QED
        BY <4>1, <4>2, <4>3
    <3>2. c = AddressOf(M, s)
      BY Zenon DEF c
    <3> QED
      BY <2>4, <3>1, <3>2
  <2>13. Removed(M, N, {s, o})
    BY <2>4, <2>5, <2>6, <2>7, <2>8, <2>9, <2>10, <2>11, <2>12 DEF Removed
  <2> QED
    BY <2>1, <2>13 DEF N, S
<1> QED
  BY <1>4, <1>5

LEMMA SoundIsDetachable ==
  ASSUME NEW M, Sound(M), NEW s \in Slots, M.conns[s].addr # {}
  PROVE  /\ Detachable(M, Partners(M, s)) /\ M.conns[s].opponent # s
         /\ M.playing[s] \in Partners(M, s) \union {None}
<1>1. /\ TypedMemory(M) /\ OneClientEach(M) /\ OwnNames(M) /\ Pairs(M) /\ WaitsAlone(M)
      /\ M.count = Cardinality(UsedIn(M)) /\ DOMAIN M = MemoryFields
  BY DEF Sound, Tables
<1>2. \A t \in Slots : /\ PairOf(M, t) /\ t # None
                       /\ M.conns[t].opponent # None => M.conns[t].opponent \in Slots
  BY <1>1, SlotsAreFinite DEF Pairs, TypedMemory
<1>3. M.conns[s].opponent # s /\ M.playing[s] \in Partners(M, s) \union {None}
  BY <1>2 DEF PairOf, Partners
<1>4. Partners(M, s) \subseteq UsedIn(M)
  BY <1>2 DEF PairOf, Partners, UsedIn
<1>5. \A t \in Slots \ Partners(M, s) : M.conns[t].opponent \notin Partners(M, s)
  <2> SUFFICES ASSUME NEW t \in Slots \ Partners(M, s), M.conns[t].opponent \in Partners(M, s)
               PROVE  FALSE
    OBVIOUS
  <2> DEFINE p == M.conns[t].opponent
  <2>1. p # None /\ p \in Slots /\ M.conns[p].opponent = t
    BY <1>2, <1>4 DEF PairOf, UsedIn
  <2>2. p = s \/ (M.conns[s].opponent # None /\ p = M.conns[s].opponent)
    BY DEF Partners
  <2>3. t \in Partners(M, s)
    BY <1>2, <2>1, <2>2 DEF PairOf, Partners
  <2> QED
    BY <2>3
<1> QED
  BY <1>1, <1>2, <1>3, <1>4, <1>5 DEF Detachable

LEMMA RemovedIsSound ==
  ASSUME NEW M, NEW S, Detachable(M, S), NEW N, Removed(M, N, S)
  PROVE  Sound(N)
<1>1. /\ S \subseteq Slots /\ UsedIn(M) \subseteq Slots /\ UsedIn(N) = UsedIn(M) \ S
  <2>1. \A t \in Slots : N.conns[t].addr = IF t \in S THEN {} ELSE M.conns[t].addr
    BY EmptyFields, ZenonT(60) DEF Removed
  <2> QED
    BY <2>1 DEF Detachable, UsedIn
<1>2. /\ IsFiniteSet(UsedIn(M)) /\ IsFiniteSet(S) /\ Cardinality(S) \in Nat
      /\ Cardinality(UsedIn(M)) \in Nat /\ Cardinality(UsedIn(N)) \in Nat
  BY <1>1, SlotsAreFinite
<1>3. N.count = Cardinality(UsedIn(N)) /\ N.count \in Nat
  <2>1. S \subseteq UsedIn(M)
    BY DEF Detachable
  <2>2. Cardinality(UsedIn(M) \ S) = Cardinality(UsedIn(M)) - Cardinality(UsedIn(M) \intersect S)
    BY <1>2, FS_Difference
  <2>3. UsedIn(M) \intersect S = S
    BY <2>1
  <2>4. M.count = Cardinality(UsedIn(M)) /\ N.count = M.count - Cardinality(S)
    BY DEF Removed, Detachable
  <2> QED
    BY <1>1, <1>2, <2>2, <2>3, <2>4
<1>4. \A t \in Slots : IF t \in S THEN N.conns[t] = Empty /\ N.playing[t] = None
                                  ELSE N.conns[t] = M.conns[t] /\ N.playing[t] = M.playing[t]
  BY DEF Removed
<1>5. TypedMemory(N)
  <2>1. N.conns \in [Slots -> [addr : SUBSET Clients, nickname : SUBSET Clients,
                              opponent : Slots \union {None}]]
    <3>1. N.conns = [t \in Slots |-> IF t \in S THEN Empty ELSE M.conns[t]]
      BY DEF Removed
    <3> QED
      BY <3>1, EmptyFields DEF Detachable, TypedMemory
  <2>2. N.playing \in [Slots -> Slots \union {None}]
    <3>1. N.playing = [t \in Slots |-> IF t \in S THEN None ELSE M.playing[t]]
      BY DEF Removed
    <3> QED
      BY <3>1 DEF Detachable, TypedMemory
  <2>3. N.games \in [Slots -> [turn : Slots \union {None}, taken : SUBSET Fields]]
    <3>1. M.games \in [Slots -> [turn : Slots \union {None}, taken : SUBSET Fields]]
      BY DEF Detachable, TypedMemory
    <3>2. /\ DOMAIN N.games = Slots
          /\ \A g \in Slots : N.games[g] \in [turn : Slots \union {None}, taken : SUBSET Fields]
      BY <3>1, EmptyFields DEF Removed
    <3>3. N.games = [g \in Slots |-> N.games[g]]
      BY DEF Removed
    <3> QED
      BY <3>2, <3>3
  <2>4. N.waiting \in Slots \union {None} /\ N.state \in {"up", "exited", "crashed"}
    BY DEF Removed, Detachable, TypedMemory
  <2> QED
    BY <1>3, <2>1, <2>2, <2>3, <2>4 DEF TypedMemory, Removed
<1>6. OneClientEach(N) /\ OwnNames(N)
  BY <1>4, EmptyFields DEF OneClientEach, OwnNames, Detachable
<1>7. Pairs(N)
  <2> SUFFICES ASSUME NEW t \in Slots PROVE PairOf(N, t)
    BY DEF Pairs
  <2>1. CASE t \in S
    BY <1>4, <2>1, EmptyFields DEF PairOf
  <2>2. CASE t \notin S
    <3> DEFINE p == M.conns[t].opponent
               g == M.playing[t]
    <3>1. PairOf(M, t) /\ p \notin S /\ p \in Slots \union {None}
      BY <2>2 DEF Detachable, TypedMemory
    <3>2. p # None => /\ p \in Slots /\ N.conns[p] = M.conns[p] /\ N.playing[p] = M.playing[p]
                      /\ N.games[g] = M.games[g]
      BY <1>4, <2>2, <3>1 DEF PairOf, Removed
    <3> QED
      BY <1>4, <2>2, <3>1, <3>2 DEF PairOf
  <2> QED
    BY <2>1, <2>2
<1>8. WaitsAlone(N)
  BY <1>4 DEF WaitsAlone, Removed, Detachable, TypedMemory
<1> QED
  BY <1>3, <1>5, <1>6, <1>7, <1>8 DEF Sound, Tables, Removed

(* Clients that are still to be told something are those of S. *)
LEMMA RemovedInforms ==
  ASSUME NEW M, NEW S, Detachable(M, S), NEW N, Removed(M, N, S), TypedClients,
         NEW R, NEW X, AllInformed(M, R, X),
         \A d \in X : client[d] # "off" /\ \E t \in S : AddressOf(M, t) = d
  PROVE  AllInformed(N, R, {})
<1> SUFFICES ASSUME NEW d \in Local PROVE Informed(N, R, d)
  BY DEF AllInformed
<1>1. /\ client[d] \in {"off", "on", "leaving", "gone"} /\ S \subseteq UsedIn(M)
      /\ \A t \in S : t \in Slots /\ M.conns[t].addr = {AddressOf(M, t)}
  BY SomeClients, AddressIsClient DEF TypedClients, Detachable, UsedIn
<1>2. ASSUME NEW t \in S, AddressOf(M, t) = d PROVE Informed(N, R, d)
  <2>1. client[d] # "off"
    <3>1. CASE d \in X
      BY <3>1
    <3>2. CASE d \notin X
      BY <1>1, <1>2, <3>2 DEF AllInformed, Informed, Unknown
    <3> QED
      BY <3>1, <3>2
  <2>2. client[d] = "on" => WillEnd(N, d)
    BY <1>2 DEF Removed
  <2> QED
    BY <1>1, <2>1, <2>2 DEF Informed
<1>3. ASSUME \A t \in S : AddressOf(M, t) # d PROVE Informed(N, R, d)
  <2>1. d \notin X
    BY <1>3
  <2>2. Informed(M, R, d)
    BY <2>1 DEF AllInformed
  <2>3. N.inbox[d] = M.inbox[d] /\ N.state = M.state
    BY <1>3 DEF Removed
  <2>4. ASSUME NEW t \in Slots, M.conns[t].addr = {d} \/ N.conns[t].addr = {d}
        PROVE  SlotKept(M, N, t)
    <3>1. t \notin S
      <4> SUFFICES ASSUME t \in S PROVE FALSE
        OBVIOUS
      <4>1. N.conns[t].addr = {} /\ M.conns[t].addr = {AddressOf(M, t)}
        BY <1>1, EmptyFields DEF Removed
      <4> QED
        BY <1>3, <2>4, <4>1
    <3>2. M.conns[t].opponent # None => M.playing[t] \in Slots \ S
      BY <3>1 DEF Detachable, PairOf, TypedMemory
    <3> QED
      BY <3>1, <3>2 DEF Removed, SlotKept
  <2> QED
    BY <2>2, <2>3, <2>4, StillInformed
<1> QED
  BY <1>2, <1>3

(* N is as sound as M and informs all clients; no connection was made. *)
Kept(M, N, R) ==
  /\ Sound(N) /\ AllInformed(N, R, {}) /\ N.state = M.state
  /\ \A t \in Slots : M.conns[t].addr = {} => N.conns[t].addr = {}

(* Removing a connection of sound tables *)
LEMMA RemoveKeeps ==
  ASSUME NEW M, Sound(M), TypedClients, NEW s \in Slots, M.conns[s].addr # {},
         NEW R, NEW X, AllInformed(M, R, X),
         \A d \in X : client[d] # "off" /\ \E t \in Partners(M, s) : AddressOf(M, t) = d
  PROVE  Kept(M, RemoveConnection(M, s), R) /\ RemoveConnection(M, s).conns[s].addr = {}
<1> DEFINE N == RemoveConnection(M, s)
           S == Partners(M, s)
<1>1. /\ Detachable(M, S) /\ M.conns[s].opponent # s /\ M.playing[s] \in S \union {None}
      /\ DOMAIN M = MemoryFields /\ TypedMemory(M)
  BY SoundIsDetachable DEF Sound, Tables
<1>2. Removed(M, N, S)
  BY <1>1, RemoveDoes
<1>3. s \in S
  BY DEF Partners
<1> HIDE DEF N, S
<1>4. Sound(N) /\ AllInformed(N, R, {})
  BY <1>1, <1>2, RemovedIsSound, RemovedInforms DEF S
<1>5. N.state = M.state /\ \A t \in Slots : N.conns[t].addr = IF t \in S THEN {} ELSE M.conns[t].addr
  BY <1>2, EmptyFields, ZenonT(60) DEF Removed
<1> QED
  BY <1>3, <1>4, <1>5 DEF N, Kept

-------------------------------------------------------------------------------
(* The end of the server *)

LEMMA EndsSound ==
  ASSUME NEW M, DOMAIN M = MemoryFields, M.inbox \in [Local -> Seq(Messages)],
         NEW how \in {"exited", "crashed"}
  PROVE  LET N == Ends(M, how)
         IN  /\ Sound(N) /\ N.state = how /\ N.inbox = M.inbox
             /\ \A s \in Slots : N.conns[s].addr = {}
<1> DEFINE N == Ends(M, how)
<1>1. /\ DOMAIN N = MemoryFields /\ N.state = how /\ N.inbox = M.inbox
      /\ N.conns = [s \in Slots |-> Empty] /\ N.games = [s \in Slots |-> NoGame]
      /\ N.playing = [s \in Slots |-> None] /\ N.waiting = None /\ N.count = 0
  BY DEF Ends, MemoryFields
<1> HIDE DEF N
<1>2. TypedMemory(N)
  BY <1>1, EmptyFields DEF TypedMemory
<1>3. OneClientEach(N) /\ OwnNames(N) /\ Pairs(N) /\ WaitsAlone(N)
  BY <1>1, EmptyFields DEF OneClientEach, OwnNames, Pairs, PairOf, WaitsAlone
<1>4. UsedIn(N) = {}
  BY <1>1, EmptyFields DEF UsedIn
<1>5. N.count = Cardinality(UsedIn(N))
  BY <1>1, <1>4, FS_EmptySet
<1> QED
  BY <1>1, <1>2, <1>3, <1>5, EmptyFields DEF Sound, Tables, N

LEMMA CrashInforms ==
  ASSUME NEW M, DOMAIN M = MemoryFields, M.inbox \in [Local -> Seq(Messages)], TypedClients,
         NEW R, NEW X, AllInformed(M, R, X), \A d \in X : client[d] # "off"
  PROVE  AllInformed(Ends(M, "crashed"), R, {})
<1> DEFINE N == Ends(M, "crashed")
<1>1. N.state = "crashed" /\ N.inbox = M.inbox /\ \A s \in Slots : N.conns[s].addr = {}
  BY EndsSound
<1> HIDE DEF N
<1> SUFFICES ASSUME NEW d \in Local PROVE Informed(N, R, d)
  BY DEF AllInformed, N
<1>2. client[d] \in {"off", "on", "leaving", "gone"}
  BY SomeClients DEF TypedClients
<1>3. CASE client[d] # "off"
  BY <1>1, <1>2, <1>3 DEF Informed
<1>4. CASE client[d] = "off"
  <2>1. Unknown(M, d)
    BY <1>4 DEF AllInformed, Informed
  <2> QED
    BY <1>1, <1>4, <2>1 DEF Informed, Unknown
<1> QED
  BY <1>3, <1>4

(* When all connections were removed, whoever was told something was told to end. *)
LEMMA EndInforms ==
  ASSUME NEW M, DOMAIN M = MemoryFields, M.inbox \in [Local -> Seq(Messages)], M.state # "crashed",
         \A s \in Slots : M.conns[s].addr = {}, NEW R, AllInformed(M, R, {})
  PROVE  AllInformed(Ends(M, "exited"), R, {})
<1> DEFINE N == Ends(M, "exited")
<1>1. N.state = "exited" /\ N.inbox = M.inbox /\ \A s \in Slots : N.conns[s].addr = {}
  BY EndsSound
<1> HIDE DEF N
<1> SUFFICES ASSUME NEW d \in Local PROVE Informed(N, R, d)
  BY DEF AllInformed, N
<1>2. Informed(M, R, d) /\ \A s \in Slots : ~WillBelieve(M, d, s)
  BY DEF AllInformed, WillBelieve
<1> QED
  BY <1>1, <1>2 DEF Informed, Unknown, WillEnd

-------------------------------------------------------------------------------
(* The loops over the slots: that of exit_handler and that of ping_connections *)

(* A ping changes nothing that a client shows. *)
LEMMA PingKeeps ==
  ASSUME NEW M, Sound(M), NEW s \in Slots, M.conns[s].addr # {}, NEW R, AllInformed(M, R, {})
  PROVE  Kept(M, Send(M, s, Message("PING")), R)
<1> DEFINE N == Send(M, s, Message("PING"))
           c == AddressOf(M, s)
           ping == Message("PING")
<1>1. ping \in Messages /\ ping.type = "PING"
  BY MessagesTyped
<1>2. /\ DOMAIN M = MemoryFields /\ TypedMemory(M) /\ OneClientEach(M)
      /\ M.inbox \in [Local -> Seq(Messages)]
  BY DEF Sound, Tables, TypedMemory
<1>3. Reaches(M, N, c, ping) /\ M.conns[s].addr = {c}
  BY <1>1, <1>2, SendToSlot, AddressIsClient
<1> HIDE DEF N, c, ping
<1>4. Sound(N) /\ N.state = M.state /\ N.conns = M.conns
  BY <1>3, SameIsSound DEF Reaches, Same
<1>5. ASSUME NEW d \in Local PROVE Informed(N, R, d)
  <2>1. Informed(M, R, d) /\ \A t \in Slots : SlotKept(M, N, t)
    BY <1>3 DEF AllInformed, SlotKept, Reaches, Same
  <2>2. CASE N.inbox[d] = M.inbox[d]
    BY <1>4, <2>1, <2>2, StillInformed
  <2>3. CASE d = c /\ client[d] = "on"
    <3>1. N.inbox[d] = Append(M.inbox[d], ping) /\ M.inbox[d] \in Seq(Messages)
      BY <1>2, <1>3, <2>3 DEF Reaches
    <3>2. /\ WillEnd(M, d) => WillEnd(N, d)
          /\ PhasesShown(N, d) = PhasesShown(M, d) /\ BoardsShown(N, d) = BoardsShown(M, d)
      BY <1>1, <3>1, MoreToShow, ZenonT(60)
    <3>3. \A t \in Slots : WillBelieve(M, d, t) => WillBelieve(N, d, t)
      BY <3>2, <1>3 DEF WillBelieve, Reaches, Same
    <3>4. ~Unknown(M, d)
      BY <1>3, <2>3 DEF Unknown
    <3> QED
      BY <1>4, <2>1, <2>3, <3>2, <3>3, <3>4 DEF Informed
  <2>4. CASE d = c /\ client[d] # "on"
    <3>1. ~Unknown(M, d)
      BY <1>3, <2>4 DEF Unknown
    <3> QED
      BY <2>1, <2>4, <3>1 DEF Informed
  <2> QED
    BY <1>3, <2>2, <2>3, <2>4 DEF Reaches
<1> QED
  BY <1>4, <1>5 DEF Kept, AllInformed, N, ping

(* One turn of either loop *)
Turn(M, s, exits) == IF exits THEN RemoveSlot(M, s) ELSE PingSlot(M, s)

LEMMA TurnKeeps ==
  ASSUME NEW M, Sound(M), TypedClients, NEW s \in Slots, NEW R, AllInformed(M, R, {}),
         NEW exits \in BOOLEAN
  PROVE  LET N == Turn(M, s, exits) IN Kept(M, N, R) /\ (exits => N.conns[s].addr = {})
<1> DEFINE N == Turn(M, s, exits)
<1>1. CASE N = M
  BY <1>1, RemoveKeeps DEF Kept, Turn, RemoveSlot
<1>2. CASE N # M /\ exits
  <2>1. N = RemoveConnection(M, s) /\ M.conns[s].addr # {}
    BY <1>2 DEF Turn, RemoveSlot
  <2> HIDE DEF N
  <2> QED
    BY <1>2, <2>1, RemoveKeeps DEF N
<1>3. CASE N # M /\ ~exits
  <2>1. N = Send(M, s, Message("PING")) /\ M.conns[s].addr # {}
    BY <1>3 DEF Turn, PingSlot
  <2> HIDE DEF N
  <2> QED
    BY <1>3, <2>1, PingKeeps DEF N
<1> QED
  BY <1>1, <1>2, <1>3

Rounds(g, M, k, exits) ==
  g = [s \in 0 .. k |-> IF s = 0 THEN M ELSE Turn(g[s - 1], s, exits)]

LEMMA LoopIsDefined ==
  ASSUME NEW M, NEW exits, NEW k \in 0 .. MaxConnections
  PROVE  \E g : Rounds(g, M, k, exits)
<1> DEFINE Undefined == {n \in 0 .. MaxConnections : ~\E g : Rounds(g, M, n, exits)}
<1>1. MaxConnections \in Nat
  BY Numbers
<1>2. Rounds([s \in 0 .. 0 |-> M], M, 0, exits)
  BY DEF Rounds
<1>3. ASSUME NEW n \in 1 .. MaxConnections, NEW g, Rounds(g, M, n - 1, exits)
      PROVE  \E h : Rounds(h, M, n, exits)
  <2> DEFINE h == [s \in 0 .. n |-> IF s = n THEN Turn(g[n - 1], n, exits) ELSE g[s]]
  <2>1. n - 1 \in 0 .. n /\ n - 1 # n /\ n # 0 /\ 0 .. n = (0 .. n - 1) \cup {n}
    BY <1>1
  <2>2. h[n] = Turn(h[n - 1], n, exits)
    BY <2>1
  <2>3. ASSUME NEW s \in 0 .. n - 1, s # 0
        PROVE  h[s] = Turn(h[s - 1], s, exits)
    <3>1. s \in 0 .. n /\ s - 1 \in 0 .. n - 1 /\ s - 1 \in 0 .. n /\ s - 1 # n /\ s # n
      BY <1>1, <2>3
    <3>2. g[s] = Turn(g[s - 1], s, exits)
      BY <1>3, <2>3 DEF Rounds
    <3> QED
      BY <3>1, <3>2
  <2>4. h[0] = M
    <3>1. 0 \in 0 .. n - 1 /\ 0 \in 0 .. n /\ 0 # n
      BY <1>1
    <3> QED
      BY <1>3, <3>1 DEF Rounds
  <2>5. \A s \in 0 .. n : h[s] = IF s = 0 THEN M ELSE Turn(h[s - 1], s, exits)
    <3> HIDE DEF h
    <3> QED
      BY <2>1, <2>2, <2>3, <2>4
  <2>6. Rounds(h, M, n, exits)
    <3>1. DOMAIN h = 0 .. n /\ h = [s \in 0 .. n |-> h[s]]
      OBVIOUS
    <3> HIDE DEF h
    <3> QED
      BY <2>5, <3>1 DEF Rounds
  <2> QED
    BY <2>6
<1>4. Undefined = {}
  <2> SUFFICES ASSUME Undefined # {} PROVE FALSE
    OBVIOUS
  <2>1. Undefined \in SUBSET Nat
    BY <1>1
  <2>2. PICK n \in Undefined : \A i \in Undefined : n <= i
    <3> HIDE DEF Undefined
    <3> QED
      BY <2>1, MinIsElement
  <2>3. n # 0
    BY <1>2, <2>2
  <2>4. n \in 1 .. MaxConnections /\ n - 1 \in 0 .. MaxConnections /\ n - 1 \notin Undefined
    BY <1>1, <2>1, <2>2, <2>3
  <2>5. PICK g : Rounds(g, M, n - 1, exits)
    BY <2>4
  <2>6. \E h : Rounds(h, M, n, exits)
    BY <1>3, <2>4, <2>5
  <2> QED
    BY <2>2, <2>6
<1> QED
  BY <1>4

LEMMA LoopKeeps ==
  ASSUME NEW M, Sound(M), TypedClients, NEW R, AllInformed(M, R, {}), NEW exits \in BOOLEAN,
         NEW g, Rounds(g, M, MaxConnections, exits)
  PROVE  LET N == g[MaxConnections]
         IN  Kept(M, N, R) /\ (exits => \A t \in Slots : N.conns[t].addr = {})
<1> DEFINE Fine(s) == Kept(M, g[s], R) /\ (exits => \A t \in 1 .. s : g[s].conns[t].addr = {})
           Broken == {s \in 0 .. MaxConnections : ~Fine(s)}
<1>1. MaxConnections \in Nat /\ Slots = 1 .. MaxConnections
  BY Numbers DEF Slots
<1>2. g[0] = M /\ \A s \in Slots : s - 1 \in 0 .. MaxConnections /\ g[s] = Turn(g[s - 1], s, exits)
  <2>1. \A s \in 0 .. MaxConnections : g[s] = IF s = 0 THEN M ELSE Turn(g[s - 1], s, exits)
    BY Zenon DEF Rounds
  <2>2. 0 \in 0 .. MaxConnections
    BY <1>1
  <2>3. \A s \in Slots : s \in 0 .. MaxConnections /\ s # 0 /\ s - 1 \in 0 .. MaxConnections
    BY <1>1
  <2> QED
    BY <2>1, <2>2, <2>3
<1>3. Fine(0)
  BY <1>2 DEF Kept
<1>4. ASSUME NEW s \in Slots, Fine(s - 1)
      PROVE  Fine(s)
  <2>1. Kept(M, g[s - 1], R) /\ Sound(g[s - 1]) /\ AllInformed(g[s - 1], R, {})
    BY <1>4 DEF Kept
  <2>2. Kept(g[s - 1], g[s], R) /\ (exits => g[s].conns[s].addr = {})
    BY <1>2, <2>1, TurnKeeps
  <2>3. Kept(M, g[s], R)
    BY <2>1, <2>2 DEF Kept
  <2>4. ASSUME exits, NEW t \in 1 .. s PROVE g[s].conns[t].addr = {}
    <3>1. t \in Slots /\ (t = s \/ t \in 1 .. s - 1)
      BY <1>1
    <3> QED
      BY <1>4, <2>2, <2>4, <3>1 DEF Kept
  <2> QED
    BY <2>3, <2>4
<1>5. Broken = {}
  <2> SUFFICES ASSUME Broken # {} PROVE FALSE
    OBVIOUS
  <2>1. Broken \in SUBSET Nat
    BY <1>1
  <2>2. PICK n \in Broken : \A i \in Broken : n <= i
    <3> HIDE DEF Broken
    <3> QED
      BY <2>1, MinIsElement
  <2> HIDE DEF Fine
  <2>3. n # 0
    BY <1>3, <2>2
  <2>4. n \in Slots /\ n - 1 \in 0 .. MaxConnections /\ n - 1 \notin Broken
    BY <1>1, <2>1, <2>2, <2>3
  <2> QED
    BY <1>4, <2>2, <2>4
<1>6. Fine(MaxConnections)
  <2>1. MaxConnections \in 0 .. MaxConnections
    BY <1>1
  <2> HIDE DEF Fine
  <2> QED
    BY <1>5, <2>1
<1> QED
  BY <1>1, <1>6

(* exit_handler tells all clients that have a connection. *)
LEMMA ExitKeeps ==
  ASSUME NEW M, Sound(M), M.state # "crashed", TypedClients, NEW R, AllInformed(M, R, {})
  PROVE  Sound(Exit(M)) /\ AllInformed(Exit(M), R, {}) /\ Exit(M).state = "exited"
<1> DEFINE after == CHOOSE g : g = [s \in 0 .. MaxConnections |->
                                      IF s = 0 THEN M ELSE RemoveSlot(g[s - 1], s)]
           N == after[MaxConnections]
<1>1. \E g : g = [s \in 0 .. MaxConnections |-> IF s = 0 THEN M ELSE RemoveSlot(g[s - 1], s)]
  <2>1. MaxConnections \in 0 .. MaxConnections
    BY Numbers
  <2>2. \E g : Rounds(g, M, MaxConnections, TRUE)
    BY <2>1, LoopIsDefined
  <2> QED
    BY <2>2, Zenon DEF Rounds, Turn
<1>2. after = [s \in 0 .. MaxConnections |-> IF s = 0 THEN M ELSE RemoveSlot(after[s - 1], s)]
  BY <1>1, Zenon
<1>3. Exit(M) = Ends(N, "exited")
  BY Zenon DEF Exit
<1> HIDE DEF after
<1>4. Rounds(after, M, MaxConnections, TRUE)
  BY <1>2, Zenon DEF Rounds, Turn
<1>5. Kept(M, N, R) /\ \A t \in Slots : N.conns[t].addr = {}
  BY <1>4, LoopKeeps
<1> HIDE DEF N
<1>6. DOMAIN N = MemoryFields /\ N.inbox \in [Local -> Seq(Messages)] /\ N.state # "crashed"
  BY <1>5 DEF Kept, Sound, Tables, TypedMemory
<1> QED
  BY <1>3, <1>5, <1>6, EndsSound, EndInforms DEF Kept

LEMMA PingConnectionsKeep ==
  ASSUME Sound(Memory), TypedClients, NEW R, AllInformed(Memory, R, {})
  PROVE  Kept(Memory, PingConnections, R)
<1> DEFINE after == CHOOSE g : g = [s \in 0 .. MaxConnections |->
                                      IF s = 0 THEN Memory ELSE PingSlot(g[s - 1], s)]
<1>1. \E g : g = [s \in 0 .. MaxConnections |-> IF s = 0 THEN Memory ELSE PingSlot(g[s - 1], s)]
  <2>1. MaxConnections \in 0 .. MaxConnections
    BY Numbers
  <2>2. \E g : Rounds(g, Memory, MaxConnections, FALSE)
    BY <2>1, LoopIsDefined
  <2> QED
    BY <2>2, Zenon DEF Rounds, Turn
<1>2. after = [s \in 0 .. MaxConnections |-> IF s = 0 THEN Memory ELSE PingSlot(after[s - 1], s)]
  BY <1>1, Zenon
<1>3. PingConnections = after[MaxConnections]
  BY Zenon DEF PingConnections
<1> HIDE DEF after
<1>4. Rounds(after, Memory, MaxConnections, FALSE)
  BY <1>2, Zenon DEF Rounds, Turn
<1>5. Kept(Memory, after[MaxConnections], R)
  BY <1>4, LoopKeeps
<1> QED
  BY <1>3, <1>5

-------------------------------------------------------------------------------
(* Games *)

(* A client with a connection has come. *)
LEMMA ConnectedHasCome ==
  ASSUME NEW M, TypedMemory(M), OneClientEach(M), TypedClients, NEW t \in Slots, M.conns[t].addr # {},
         NEW R, AddressOf(M, t) \in Local, Informed(M, R, AddressOf(M, t))
  PROVE  client[AddressOf(M, t)] \in {"on", "leaving", "gone"}
<1>1. M.conns[t].addr = {AddressOf(M, t)} /\ client[AddressOf(M, t)] \in {"off", "on", "leaving", "gone"}
  BY AddressIsClient DEF TypedClients
<1> QED
  BY <1>1 DEF Informed, Unknown

(* A client that is told the state of its game will show it. *)
LEMMA BoardToShow ==
  ASSUME NEW M, NEW N, NEW e, M.inbox[e] \in Seq(Messages), NEW m \in Messages,
         m.type = "GAME_STATE", N.inbox[e] = Append(M.inbox[e], m)
  PROVE  /\ WillEnd(M, e) => WillEnd(N, e)
         /\ PhasesShown(N, e) = PhasesShown(M, e)
         /\ BoardsShown(N, e) = BoardIn(m)
<1>1. m.type = "GAME_STATE" /\ m.type \notin {"WAIT_OPPONENT", "GAME_STARTED"}
  OBVIOUS
<1>2. /\ WillEnd(M, e) => WillEnd(N, e)
      /\ m.type \notin {"WAIT_OPPONENT", "GAME_STARTED"} => PhasesShown(N, e) = PhasesShown(M, e)
      /\ m.type = "GAME_STATE" => BoardsShown(N, e) = BoardIn(m)
  BY MoreToShow, SMTT(30)
<1> QED
  BY <1>1, <1>2

(* A player that is told the state of its game is informed. *)
LEMMA PlayerInformed ==
  ASSUME NEW M, Sound(M), NEW N, Same(M, N), NEW t \in Slots, M.conns[t].opponent # None,
         NEW e \in Local, M.conns[t].addr = {e}, client[e] = "on", NEW m \in Messages,
         m.type = "GAME_STATE", m.taken = M.games[M.playing[t]].taken,
         m.turn = (M.games[M.playing[t]].turn = t), N.inbox[e] = Append(M.inbox[e], m),
         WillEnd(M, e) \/ M.state = "crashed" \/ PhasesShown(M, e) = {"playing"}, NEW R
  PROVE  Informed(N, R, e)
<1>1. M.inbox[e] \in Seq(Messages)
  BY DEF Sound, Tables, TypedMemory
<1>2. /\ WillEnd(M, e) => WillEnd(N, e)
      /\ PhasesShown(N, e) = PhasesShown(M, e) /\ BoardsShown(N, e) = BoardIn(m)
  BY <1>1, BoardToShow
<1>3. /\ N.conns[t].addr = {e} /\ N.conns[t].opponent # None
      /\ N.games[N.playing[t]] = M.games[M.playing[t]] /\ N.state = M.state
  BY DEF Same
<1>4. BoardsShown(N, e) = {[taken |-> N.games[N.playing[t]].taken, turn |-> N.games[N.playing[t]].turn = t]}
  BY <1>2, <1>3 DEF BoardIn
<1>5. PhasesShown(M, e) = {"playing"} => WillBelieve(N, e, t)
  BY <1>2, <1>3, <1>4 DEF WillBelieve
<1> QED
  BY <1>2, <1>3, <1>5 DEF Informed

(* Two players that are told the state of their game are informed. *)
LEMMA GameStateInforms ==
  ASSUME NEW M, Sound(M), TypedClients, NEW s \in Slots, NEW o \in Slots, M.conns[s].opponent = o,
         NEW R, AllInformed(M, R, {AddressOf(M, s), AddressOf(M, o)}),
         \A e \in Local \intersect {AddressOf(M, s), AddressOf(M, o)} :
           /\ client[e] # "off"
           /\ client[e] = "on" => WillEnd(M, e) \/ M.state = "crashed" \/ PhasesShown(M, e) = {"playing"}
  PROVE  LET N == SendGameState(M, s)
         IN  /\ Same(M, N) /\ Sound(N) /\ AllInformed(N, R, {AddressOf(M, s), AddressOf(M, o)})
             /\ (N.ok <=> Reachable(AddressOf(M, s)) /\ Reachable(AddressOf(M, o)))
             /\ N.ok => AllInformed(N, R, {})
<1> DEFINE c == AddressOf(M, s)
           d == AddressOf(M, o)
           N == SendGameState(M, s)
           game == M.games[M.playing[s]]
<1>1. /\ DOMAIN M = MemoryFields /\ TypedMemory(M) /\ OneClientEach(M) /\ OwnNames(M)
      /\ \A t \in Slots : PairOf(M, t) /\ t # None
  BY SlotsAreFinite DEF Sound, Tables, Pairs
<1>2. /\ M.conns[s].addr # {} /\ M.conns[o].addr # {} /\ o \in Slots \ {s} /\ M.conns[o].opponent = s
      /\ M.playing[o] = M.playing[s] /\ M.playing[s] \in Slots
  BY <1>1 DEF PairOf
<1>3. /\ M.conns[s].addr = {c} /\ M.conns[o].addr = {d}
  BY <1>1, <1>2, AddressIsClient
<1>4. game.taken \in SUBSET Fields
  BY <1>1, <1>2 DEF TypedMemory
<1>5. /\ \A t \in {s, o} : /\ StateMessage(M, t) \in Messages /\ StateMessage(M, t).type = "GAME_STATE"
                           /\ StateMessage(M, t).taken = game.taken /\ StateMessage(M, t).turn = (game.turn = t)
  <2> SUFFICES ASSUME NEW t \in {s, o}
               PROVE  /\ StateMessage(M, t) \in Messages /\ StateMessage(M, t).type = "GAME_STATE"
                      /\ StateMessage(M, t).taken = game.taken /\ StateMessage(M, t).turn = (game.turn = t)
    OBVIOUS
  <2>1. StateMessage(M, t) = [type |-> "GAME_STATE", taken |-> game.taken, turn |-> game.turn = t]
    BY <1>2 DEF StateMessage
  <2> QED
    BY <1>4, <2>1 DEF Messages
<1>6. N = Both(M, s, StateMessage(M, s), o, StateMessage(M, o))
  BY DEF SendGameState
<1> HIDE DEF N
<1>7. /\ Same(M, N) /\ c # d /\ (N.ok <=> Reachable(c) /\ Reachable(d))
      /\ \A e \in Local \ {c, d} : N.inbox[e] = M.inbox[e]
      /\ N.ok /\ c \in Local /\ client[c] = "on" => N.inbox[c] = Append(M.inbox[c], StateMessage(M, s))
      /\ N.ok /\ d \in Local /\ client[d] = "on" => N.inbox[d] = Append(M.inbox[d], StateMessage(M, o))
  BY <1>1, <1>2, <1>5, <1>6, BothReach
<1>8. Sound(N)
  BY <1>7, SameIsSound
<1>9. ASSUME NEW e \in Local \ {c, d} PROVE Informed(N, R, e)
  <2>1. Informed(M, R, e) /\ N.inbox[e] = M.inbox[e] /\ N.state = M.state /\ \A t \in Slots : SlotKept(M, N, t)
    BY <1>7 DEF AllInformed, SlotKept, Same
  <2> QED
    BY <2>1, StillInformed
<1>10. ASSUME NEW t \in {s, o}, NEW e \in Local, M.conns[t].addr = {e}, client[e] = "on",
              N.inbox[e] = Append(M.inbox[e], StateMessage(M, t)), e \in {c, d}
       PROVE  Informed(N, R, e)
  <2>1. t \in Slots /\ M.conns[t].opponent # None /\ M.games[M.playing[t]] = game
    BY <1>1, <1>2
  <2>2. WillEnd(M, e) \/ M.state = "crashed" \/ PhasesShown(M, e) = {"playing"}
    BY <1>10
  <2> HIDE DEF game
  <2> QED
    BY <1>5, <1>7, <1>10, <2>1, <2>2, PlayerInformed, SMTT(30)
<1>11. ASSUME N.ok, NEW e \in Local PROVE Informed(N, R, e)
  <2>1. CASE e \notin {c, d}
    BY <1>9, <2>1
  <2>2. CASE e \in {c, d} /\ client[e] = "on"
    <3>1. CASE e = c
      BY <1>3, <1>7, <1>10, <1>11, <2>2, <3>1
    <3>2. CASE e = d
      BY <1>3, <1>7, <1>10, <1>11, <2>2, <3>2
    <3> QED
      BY <2>2, <3>1, <3>2
  <2>3. CASE e \in {c, d} /\ client[e] # "on"
    <3>1. client[e] \in {"leaving", "gone"}
      BY <2>3, SomeClients DEF TypedClients
    <3> QED
      BY <3>1 DEF Informed
  <2> QED
    BY <2>1, <2>2, <2>3
<1>12. AllInformed(N, R, {c, d}) /\ (N.ok => AllInformed(N, R, {}))
  BY <1>9, <1>11 DEF AllInformed
<1> QED
  BY <1>7, <1>8, <1>12 DEF N

-------------------------------------------------------------------------------
(* Registration *)

(* Who was sent nothing and whose connection has not changed is informed. *)
LEMMA OthersInformed ==
  ASSUME NEW M, NEW N, NEW R, NEW X, AllInformed(M, R, X), NEW Y, X \subseteq Y,
         N.state = M.state,
         \A d \in Local \ Y :
           /\ N.inbox[d] = M.inbox[d]
           /\ \A t \in Slots : M.conns[t].addr = {d} \/ N.conns[t].addr = {d} => SlotKept(M, N, t)
  PROVE  AllInformed(N, R, Y)
<1> SUFFICES ASSUME NEW d \in Local \ Y PROVE Informed(N, R, d)
  BY DEF AllInformed
<1>1. Informed(M, R, d)
  BY DEF AllInformed
<1> QED
  BY <1>1, StillInformed

(* The registration of c is handled: others need not be told of that. *)
LEMMA OneLessRegistering ==
  ASSUME NEW M, NEW R, AllInformed(M, R, {}), NEW c
  PROVE  AllInformed(M, R \ {c}, {c})
BY DEF AllInformed, Informed

(* c has got the slot s, the rest of the connections is as before. *)
Registered(L, M, s, c) ==
  /\ DOMAIN M = MemoryFields /\ M.inbox = L.inbox /\ M.state = L.state /\ M.waiting = L.waiting
  /\ M.conns = [L.conns EXCEPT ![s] = [addr |-> {c}, nickname |-> Nickname(c), opponent |-> None]]
  /\ M.games = L.games /\ M.playing = L.playing /\ M.count = L.count + 1

LEMMA RegisteredSound ==
  ASSUME NEW L, Sound(L), NEW s \in Slots, L.conns[s].addr = {}, NEW c \in Clients,
         \A t \in Slots : L.conns[t].nickname # Nickname(c), NEW M, Registered(L, M, s, c),
         NEW R, AllInformed(L, R, {c})
  PROVE  /\ Sound(M) /\ AllInformed(M, R, {c}) /\ AddressOf(M, s) = c
         /\ M.conns[s].addr # {} /\ M.conns[s].opponent = None /\ M.waiting # s
<1> DEFINE new == [addr |-> {c}, nickname |-> Nickname(c), opponent |-> None]
<1>1. /\ TypedMemory(L) /\ OneClientEach(L) /\ OwnNames(L) /\ WaitsAlone(L)
      /\ L.count = Cardinality(UsedIn(L)) /\ \A t \in Slots : PairOf(L, t)
  BY DEF Sound, Tables, Pairs
<1>2. c \in Nickname(c) /\ Nickname(c) \in SUBSET Clients
  BY SomeClients DEF Nickname
<1>3. new \in [addr : SUBSET Clients, nickname : SUBSET Clients, opponent : Slots \union {None}]
  BY <1>2
<1>4. /\ new.addr = {c} /\ new.nickname = Nickname(c) /\ new.opponent = None
      /\ DOMAIN L.conns = Slots /\ M.conns = [L.conns EXCEPT ![s] = new]
  BY <1>1 DEF TypedMemory, Registered
<1> HIDE DEF new
<1>5. M.conns[s] = new /\ \A t \in Slots \ {s} : M.conns[t] = L.conns[t]
  BY <1>4
<1>6. TypedMemory(M)
  <2>1. M.conns \in [Slots -> [addr : SUBSET Clients, nickname : SUBSET Clients,
                              opponent : Slots \union {None}]]
    BY <1>1, <1>3, <1>4 DEF TypedMemory
  <2> QED
    BY <1>1, <2>1 DEF TypedMemory, Registered
<1>7. OneClientEach(M) /\ OwnNames(M)
  BY <1>1, <1>2, <1>4, <1>5 DEF OneClientEach, OwnNames
<1>8. L.conns[s].opponent = None /\ L.playing[s] = None /\ L.waiting # s
  <2>1. s # None
    BY SlotsAreFinite
  <2> QED
    BY <1>1, <2>1 DEF PairOf, WaitsAlone
<1>9. Pairs(M)
  <2> SUFFICES ASSUME NEW t \in Slots PROVE PairOf(M, t)
    BY DEF Pairs
  <2>1. CASE t = s
    BY <1>4, <1>5, <1>8, <2>1 DEF PairOf, Registered
  <2>2. CASE t # s
    <3>1. PairOf(L, t) /\ t # None /\ L.conns[t].opponent # s /\ L.conns[t].opponent \in Slots \union {None}
      BY <1>1, <1>8, SlotsAreFinite DEF PairOf, TypedMemory
    <3> QED
      BY <1>5, <2>2, <3>1 DEF PairOf, Registered
  <2> QED
    BY <2>1, <2>2
<1>10. WaitsAlone(M)
  BY <1>1, <1>5, <1>8 DEF WaitsAlone, Registered, TypedMemory
<1>11. M.count = Cardinality(UsedIn(M))
  <2>1. UsedIn(M) = UsedIn(L) \union {s} /\ s \notin UsedIn(L) /\ UsedIn(L) \in SUBSET Slots
    BY <1>4, <1>5 DEF UsedIn
  <2> QED
    BY <1>1, <2>1, SlotsAreFinite, FS_AddElement DEF Registered
<1>12. AddressOf(M, s) = c
  BY <1>4, <1>5 DEF AddressOf
<1>13. AllInformed(M, R, {c})
  <2>1. ASSUME NEW d \in Local \ {c}
        PROVE  /\ M.inbox[d] = L.inbox[d]
               /\ \A t \in Slots : L.conns[t].addr = {d} \/ M.conns[t].addr = {d} => SlotKept(L, M, t)
    <3>1. \A t \in Slots : L.conns[t].addr = {d} \/ M.conns[t].addr = {d} => t # s
      BY <1>4, <1>5
    <3> QED
      BY <1>5, <3>1 DEF SlotKept, Registered
  <2> QED
    BY <2>1, OthersInformed DEF Registered
<1> QED
  BY <1>4, <1>5, <1>6, <1>7, <1>8, <1>9, <1>10, <1>11, <1>12, <1>13 DEF Sound, Tables, Registered

LEMMA WaitKeeps ==
  ASSUME NEW M, Sound(M), TypedClients, NEW s \in Slots, M.conns[s].addr # {},
         M.conns[s].opponent = None, NEW R, AllInformed(M, R, {AddressOf(M, s)}),
         client[AddressOf(M, s)] # "off"
  PROVE  LET N == WaitForOpponent(M, s) IN Sound(N) /\ AllInformed(N, R, {})
<1> DEFINE c == AddressOf(M, s)
           M2 == [M EXCEPT !.waiting = s]
           told == Send(M2, s, Message("WAIT_OPPONENT"))
           N == WaitForOpponent(M, s)
<1>1. /\ DOMAIN M = MemoryFields /\ TypedMemory(M) /\ OneClientEach(M) /\ M.inbox \in [Local -> Seq(Messages)]
  BY DEF Sound, Tables, TypedMemory
<1>2. /\ DOMAIN M2 = MemoryFields /\ M2.waiting = s /\ M2.conns = M.conns /\ M2.games = M.games
      /\ M2.playing = M.playing /\ M2.count = M.count /\ M2.state = M.state /\ M2.inbox = M.inbox
  BY <1>1 DEF MemoryFields
<1>3. N = IF told.ok THEN told ELSE RemoveConnection(told, s)
  BY DEF WaitForOpponent
<1> HIDE DEF M2, N
<1>4. Sound(M2)
  <2>1. TypedMemory(M2) /\ OneClientEach(M2) /\ OwnNames(M2) /\ Pairs(M2) /\ WaitsAlone(M2)
    BY <1>2 DEF Sound, Tables, TypedMemory, OneClientEach, OwnNames, Pairs, PairOf, WaitsAlone
  <2> QED
    BY <1>2, <2>1 DEF Sound, Tables, UsedIn
<1>5. AllInformed(M2, R, {c})
  <2>1. \A d \in Local \ {c} : M2.inbox[d] = M.inbox[d] /\ \A t \in Slots : SlotKept(M, M2, t)
    BY <1>2 DEF SlotKept
  <2> QED
    BY <1>2, <2>1, OthersInformed
<1>6. Message("WAIT_OPPONENT") \in Messages /\ Message("WAIT_OPPONENT").type = "WAIT_OPPONENT"
  BY MessagesTyped
<1>7. AddressOf(M2, s) = c /\ M2.conns[s].addr = {c}
  BY <1>1, <1>2, AddressIsClient DEF AddressOf
<1>8. Reaches(M2, told, c, Message("WAIT_OPPONENT"))
  BY <1>4, <1>6, <1>7, SendToSlot DEF Sound, Tables
<1> HIDE DEF told, c
<1>9. Sound(told) /\ told.conns = M.conns /\ told.state = M2.state
  BY <1>2, <1>4, <1>8, SameIsSound DEF Reaches, Same
<1>10. AllInformed(told, R, {c})
  <2>1. \A d \in Local \ {c} : told.inbox[d] = M2.inbox[d] /\ \A t \in Slots : SlotKept(M2, told, t)
    BY <1>8 DEF SlotKept, Reaches, Same
  <2> QED
    BY <1>5, <1>9, <2>1, OthersInformed
<1>11. CASE ~told.ok
  <2>1. AddressOf(told, s) = c /\ told.conns[s].addr # {} /\ s \in Partners(told, s)
    BY <1>9 DEF AddressOf, Partners, c
  <2>2. Kept(told, RemoveConnection(told, s), R)
    <3>1. \A d \in {c} : client[d] # "off" /\ \E t \in Partners(told, s) : AddressOf(told, t) = d
      BY <2>1 DEF c
    <3> QED
      BY <1>9, <1>10, <2>1, <3>1, RemoveKeeps
  <2> QED
    BY <1>3, <1>11, <2>2 DEF Kept, N
<1>12. CASE told.ok
  <2> SUFFICES AllInformed(told, R, {})
    BY <1>3, <1>9, <1>12 DEF N
  <2>1. ASSUME c \in Local PROVE Informed(told, R, c)
    <3>1. client[c] \in {"on", "leaving", "gone"}
      BY <2>1, SomeClients DEF TypedClients, c
    <3>2. CASE client[c] # "on"
      BY <3>1, <3>2 DEF Informed
    <3>3. CASE client[c] = "on"
      <4>1. M2.inbox[c] \in Seq(Messages) /\ told.inbox[c] = Append(M2.inbox[c], Message("WAIT_OPPONENT"))
        BY <1>1, <1>2, <1>8, <2>1, <3>3 DEF Reaches
      <4>2. PhasesShown(told, c) = {"waiting"}
        BY <1>6, <4>1, MoreToShow, ZenonT(60)
      <4>3. WillBelieve(told, c, s)
        BY <1>2, <1>7, <1>9, <4>2 DEF WillBelieve
      <4> QED
        BY <3>3, <4>3 DEF Informed
    <3> QED
      BY <3>2, <3>3
  <2> QED
    BY <1>10, <2>1 DEF AllInformed
<1> QED
  BY <1>11, <1>12

(* From M to N the slots s and o have become opponents. *)
Paired(M, N, s, o) ==
  /\ DOMAIN N = MemoryFields /\ N.inbox = M.inbox /\ N.state = M.state /\ N.waiting = M.waiting
  /\ N.conns = [M.conns EXCEPT ![s].opponent = o, ![o].opponent = s]
  /\ N.games = M.games /\ N.playing = M.playing /\ N.count = M.count

(* Two clients that have no opponents may become opponents. *)
LEMMA PairedDetachable ==
  ASSUME NEW M, Sound(M), NEW s \in Slots, NEW o \in Slots \ {s},
         M.conns[s].addr # {}, M.conns[o].addr # {}, M.conns[s].opponent = None,
         M.conns[o].opponent = None, M.waiting = o, NEW N, Paired(M, N, s, o)
  PROVE  /\ Detachable(N, {s, o}) /\ N.conns[s].opponent = o /\ N.conns[o].opponent = s
         /\ N.playing[s] = None /\ AddressOf(N, s) = AddressOf(M, s) /\ AddressOf(N, o) = AddressOf(M, o)
         /\ \A t \in Slots : N.conns[t].addr = M.conns[t].addr
         /\ \A t \in Slots \ {s, o} : N.conns[t] = M.conns[t]
<1>1. /\ TypedMemory(M) /\ OneClientEach(M) /\ OwnNames(M) /\ \A t \in Slots : PairOf(M, t) /\ t # None
      /\ M.count = Cardinality(UsedIn(M))
  BY SlotsAreFinite DEF Sound, Tables, Pairs
<1>2. /\ \A t \in Slots : M.conns[t] \in [addr : SUBSET Clients, nickname : SUBSET Clients,
                                         opponent : Slots \union {None}]
      /\ DOMAIN M.conns = Slots
  BY <1>1 DEF TypedMemory
<1>3. /\ DOMAIN N.conns = Slots /\ N.conns[s] = [M.conns[s] EXCEPT !.opponent = o]
      /\ N.conns[o] = [M.conns[o] EXCEPT !.opponent = s]
      /\ \A t \in Slots \ {s, o} : N.conns[t] = M.conns[t]
  BY <1>2 DEF Paired
<1>4. /\ N.conns[s].opponent = o /\ N.conns[o].opponent = s
      /\ \A t \in Slots : N.conns[t].addr = M.conns[t].addr /\ N.conns[t].nickname = M.conns[t].nickname
  BY <1>2, <1>3
<1>5. N.conns \in [Slots -> [addr : SUBSET Clients, nickname : SUBSET Clients,
                            opponent : Slots \union {None}]]
  <2>1. \A t \in Slots : N.conns[t] \in [addr : SUBSET Clients, nickname : SUBSET Clients,
                                         opponent : Slots \union {None}]
    BY <1>2, <1>3
  <2>2. N.conns = [t \in Slots |-> N.conns[t]]
    BY <1>2 DEF Paired
  <2> QED
    BY <2>1, <2>2
<1>6. TypedMemory(N)
  BY <1>1, <1>5 DEF TypedMemory, Paired
<1>7. OneClientEach(N) /\ OwnNames(N)
  BY <1>1, <1>4 DEF OneClientEach, OwnNames
<1>8. UsedIn(N) = UsedIn(M) /\ {s, o} \subseteq UsedIn(N)
  BY <1>4 DEF UsedIn
<1>9. \A t \in Slots \ {s, o} : PairOf(N, t) /\ N.conns[t].opponent \notin {s, o}
  <2> SUFFICES ASSUME NEW t \in Slots \ {s, o}
               PROVE  PairOf(N, t) /\ N.conns[t].opponent \notin {s, o}
    OBVIOUS
  <2>1. M.conns[t].opponent \notin {s, o} /\ M.conns[t].opponent \in Slots \union {None}
    BY <1>1, <1>2 DEF PairOf
  <2>2. N.conns[t] = M.conns[t] /\ PairOf(M, t)
    BY <1>1, <1>3
  <2>3. M.conns[t].opponent # None => N.conns[M.conns[t].opponent] = M.conns[M.conns[t].opponent]
    BY <1>3, <2>1
  <2> QED
    BY <2>1, <2>2, <2>3 DEF PairOf, Paired
<1>10. N.playing[s] = None /\ AddressOf(N, s) = AddressOf(M, s) /\ AddressOf(N, o) = AddressOf(M, o)
  <2>1. M.playing[s] = None
    <3>1. PairOf(M, s)
      BY <1>1
    <3> QED
      BY <3>1 DEF PairOf
  <2>2. AddressOf(N, s) = AddressOf(M, s) /\ AddressOf(N, o) = AddressOf(M, o)
    BY <1>4 DEF AddressOf
  <2> QED
    BY <2>1, <2>2 DEF Paired
<1> QED
  BY <1>1, <1>3, <1>4, <1>6, <1>7, <1>8, <1>9, <1>10 DEF Detachable, Paired

(* A client that is told of its game will show that it plays. *)
LEMMA GameToShow ==
  ASSUME NEW M, NEW N, NEW e, M.inbox[e] \in Seq(Messages), NEW m \in Messages,
         m.type = "GAME_STARTED", N.inbox[e] = Append(M.inbox[e], m)
  PROVE  PhasesShown(N, e) = {"playing"}
<1>1. m.type \in {"WAIT_OPPONENT", "GAME_STARTED"} /\ m.type # "WAIT_OPPONENT"
  OBVIOUS
<1>2. Latest(N.inbox[e], {"WAIT_OPPONENT", "GAME_STARTED"}) = {m}
  BY <1>1, LatestAppended
<1> QED
  BY <1>1, <1>2 DEF PhasesShown

(* From M to N the game of the opponents s and o was started by s. *)
Started(M, N, s, o, first) ==
  /\ DOMAIN N = MemoryFields /\ N.inbox = M.inbox /\ N.state = M.state /\ N.waiting = None
  /\ N.conns = M.conns /\ N.playing = [M.playing EXCEPT ![s] = s, ![o] = s]
  /\ N.games = [M.games EXCEPT ![s] = [turn |-> first, taken |-> {}]] /\ N.count = M.count

LEMMA StartedSound ==
  ASSUME NEW M, NEW s \in Slots, NEW o \in Slots \ {s}, Detachable(M, {s, o}),
         M.conns[s].opponent = o, M.conns[o].opponent = s, NEW first \in {s, o},
         NEW N, Started(M, N, s, o, first)
  PROVE  Sound(N) /\ \A t \in Slots \ {s, o} : SlotKept(M, N, t)
<1>1. /\ TypedMemory(M) /\ OneClientEach(M) /\ OwnNames(M) /\ M.count = Cardinality(UsedIn(M))
      /\ \A t \in Slots : t # None
      /\ \A t \in Slots \ {s, o} : PairOf(M, t) /\ M.conns[t].opponent \notin {s, o}
      /\ M.conns[s].addr # {} /\ M.conns[o].addr # {}
  BY SlotsAreFinite DEF Detachable, UsedIn
<1> DEFINE new == [turn |-> first, taken |-> {}]
<1>2. new \in [turn : Slots \union {None}, taken : SUBSET Fields] /\ new.turn = first
  OBVIOUS
<1> HIDE DEF new
<1>3. /\ DOMAIN M.playing = Slots /\ DOMAIN M.games = Slots
      /\ N.playing = [M.playing EXCEPT ![s] = s, ![o] = s] /\ N.games = [M.games EXCEPT ![s] = new]
  BY <1>1 DEF TypedMemory, Started, new
<1>4. /\ N.playing[s] = s /\ N.playing[o] = s /\ N.games[s] = new
      /\ \A t \in Slots \ {s, o} : N.playing[t] = M.playing[t]
      /\ \A g \in Slots \ {s} : N.games[g] = M.games[g]
  BY <1>3
<1>5. TypedMemory(N)
  <2>1. N.playing \in [Slots -> Slots \union {None}]
    BY <1>1, <1>3 DEF TypedMemory
  <2>2. N.games \in [Slots -> [turn : Slots \union {None}, taken : SUBSET Fields]]
    BY <1>1, <1>2, <1>3 DEF TypedMemory
  <2> QED
    BY <1>1, <2>1, <2>2 DEF TypedMemory, Started
<1>6. OneClientEach(N) /\ OwnNames(N) /\ WaitsAlone(N) /\ N.count = Cardinality(UsedIn(N))
  BY <1>1 DEF OneClientEach, OwnNames, WaitsAlone, UsedIn, Started
<1>7. ASSUME NEW t \in Slots \ {s, o} PROVE PairOf(N, t) /\ SlotKept(M, N, t)
  <2>1. /\ PairOf(M, t) /\ M.conns[t].opponent \in (Slots \ {s, o}) \union {None}
        /\ M.playing[t] \in Slots \union {None}
    BY <1>1 DEF TypedMemory
  <2>2. M.conns[t].opponent # None => M.playing[t] \in Slots \ {s}
    BY <2>1 DEF PairOf
  <2> QED
    BY <1>4, <2>1, <2>2 DEF PairOf, SlotKept, Started
<1>8. PairOf(N, s) /\ PairOf(N, o)
  BY <1>1, <1>2, <1>4 DEF PairOf, Started
<1> QED
  BY <1>5, <1>6, <1>7, <1>8 DEF Sound, Tables, Pairs, Started

(* start_game_between_clients: both play, or none is left of what one began, *)
(* or the server has crashed.                                                *)
LEMMA StartKeeps ==
  ASSUME NEW M, Sound(M), TypedClients, NEW s \in Slots, NEW o \in Slots \ {s},
         M.conns[s].addr # {}, M.conns[s].opponent = None, M.waiting = o,
         NEW R, AllInformed(M, R, {AddressOf(M, s)}), client[AddressOf(M, s)] # "off",
         NEW first \in {s, o}, NEW ends \in BOOLEAN
  PROVE  LET N == StartGameBetweenClients(M, s, o, first, ends)
         IN  Sound(N) /\ AllInformed(N, R, {})
<1> DEFINE c == AddressOf(M, s)
           d == AddressOf(M, o)
           X == {c, d} \intersect Local
           begin == Message("GAME_STARTED")
           M2 == [M EXCEPT !.conns[s].opponent = o, !.conns[o].opponent = s]
           told == Both(M2, s, begin, o, begin)
           game == [told EXCEPT !.playing[s] = s, !.playing[o] = s, !.waiting = None,
                                !.games[s] = [turn |-> first, taken |-> {}]]
           local == {AddressOf(M2, s), AddressOf(M2, o)} \intersect Local
           N == StartGameBetweenClients(M, s, o, first, ends)
<1>1. /\ DOMAIN M = MemoryFields /\ TypedMemory(M) /\ OneClientEach(M) /\ OwnNames(M)
      /\ M.conns[o].addr # {} /\ M.conns[o].opponent = None /\ o # None
  BY SlotsAreFinite DEF Sound, Tables, WaitsAlone
<1>2. N = IF ~told.ok THEN RemoveConnection(told, s)
          ELSE IF ends /\ local # {} THEN Ends(game, "crashed") ELSE SendGameState(game, s)
  BY Zenon DEF StartGameBetweenClients
<1> HIDE DEF N
<1>3. Paired(M, M2, s, o)
  BY <1>1 DEF Paired, MemoryFields
<1> HIDE DEF M2
<1>4. /\ Detachable(M2, {s, o}) /\ M2.conns[s].opponent = o /\ M2.conns[o].opponent = s
      /\ M2.playing[s] = None /\ AddressOf(M2, s) = c /\ AddressOf(M2, o) = d
      /\ \A t \in Slots : M2.conns[t].addr = M.conns[t].addr
      /\ \A t \in Slots \ {s, o} : M2.conns[t] = M.conns[t]
  BY <1>1, <1>3, PairedDetachable
<1>5. M.conns[s].addr = {c} /\ M.conns[o].addr = {d}
  BY <1>1, AddressIsClient
<1>6. \A e \in X : client[e] # "off"
  <2>1. ASSUME d \in Local, d # c PROVE client[d] # "off"
    <3>1. Informed(M, R, d)
      BY <2>1 DEF AllInformed
    <3> QED
      BY <1>1, <2>1, <3>1, ConnectedHasCome
  <2> QED
    BY <2>1
<1> HIDE DEF c, d
<1>7. begin \in Messages /\ begin.type = "GAME_STARTED"
  BY MessagesTyped
<1> HIDE DEF begin
<1>8. /\ Same(M2, told) /\ c # d /\ (told.ok <=> Reachable(c) /\ Reachable(d))
      /\ \A e \in Local \ {c, d} : told.inbox[e] = M2.inbox[e]
      /\ told.ok /\ c \in Local /\ client[c] = "on" => told.inbox[c] = Append(M2.inbox[c], begin)
      /\ told.ok /\ d \in Local /\ client[d] = "on" => told.inbox[d] = Append(M2.inbox[d], begin)
  <2>1. /\ DOMAIN M2 = MemoryFields /\ TypedMemory(M2) /\ OneClientEach(M2) /\ OwnNames(M2)
        /\ M2.conns[s].addr # {} /\ M2.conns[o].addr # {}
    BY <1>1, <1>4 DEF Detachable
  <2> QED
    BY <1>4, <1>7, <2>1, BothReach, SMTT(30)
<1> HIDE DEF told
<1>9. /\ Detachable(told, {s, o}) /\ told.conns = M2.conns /\ told.playing = M2.playing
      /\ told.state = M.state /\ AddressOf(told, s) = c /\ AddressOf(told, o) = d
  <2>1. TypedMemory(told) /\ OneClientEach(told) /\ OwnNames(told)
    <3>1. TypedMemory(M2) /\ OneClientEach(M2) /\ OwnNames(M2)
      BY <1>4 DEF Detachable
    <3>2. TypedMemory(told)
      BY <1>8, <3>1 DEF Same, TypedMemory
    <3> QED
      BY <1>8, <3>1, <3>2 DEF Same, OneClientEach, OwnNames
  <2>2. \A t \in Slots \ {s, o} : PairOf(told, t) /\ told.conns[t].opponent \notin {s, o}
    BY <1>4, <1>8 DEF Detachable, Same, PairOf
  <2>3. told.waiting \in {s, o} /\ told.state = M.state
    BY <1>3, <1>8 DEF Paired, Same
  <2>4. UsedIn(told) = UsedIn(M2) /\ told.count = M2.count
    BY <1>8 DEF Same, UsedIn
  <2> QED
    BY <1>4, <1>8, <2>1, <2>2, <2>3, <2>4 DEF Detachable, Same, AddressOf
<1>10. AllInformed(told, R, X)
  <2>1. ASSUME NEW e \in Local \ X
        PROVE  /\ told.inbox[e] = M.inbox[e]
               /\ \A t \in Slots : M.conns[t].addr = {e} \/ told.conns[t].addr = {e} => SlotKept(M, told, t)
    <3>1. told.inbox[e] = M.inbox[e]
      BY <1>3, <1>8 DEF Paired
    <3>2. ASSUME NEW t \in Slots, M.conns[t].addr = {e} \/ told.conns[t].addr = {e}
          PROVE  SlotKept(M, told, t)
      <4>1. t \notin {s, o}
        BY <1>4, <1>5, <1>9, <3>2
      <4> QED
        BY <1>3, <1>4, <1>8, <1>9, <4>1, SMTT(30) DEF SlotKept, Paired, Same
    <3> QED
      BY <3>1, <3>2
  <2>2. AllInformed(M, R, {c} \intersect Local)
    BY DEF AllInformed, c
  <2>3. {c} \intersect Local \subseteq X /\ told.state = M.state
    BY <1>9
  <2> HIDE DEF X
  <2> QED
    BY <2>1, <2>2, <2>3, OthersInformed
<1>11. CASE ~told.ok
  <2>1. Partners(told, s) = {s, o} /\ told.conns[s].opponent # s /\ told.playing[s] = None
        /\ DOMAIN told = MemoryFields /\ TypedMemory(told)
    BY <1>1, <1>4, <1>9 DEF Partners, Detachable
  <2>2. Removed(told, RemoveConnection(told, s), {s, o})
    <3>1. told.playing[s] \in Partners(told, s) \union {None}
      BY <2>1
    <3>2. Removed(told, RemoveConnection(told, s), Partners(told, s))
      BY <2>1, <3>1, RemoveDoes
    <3> QED
      BY <2>1, <3>2
  <2>3. \A e \in X : client[e] # "off" /\ \E t \in {s, o} : AddressOf(told, t) = e
    BY <1>6, <1>9
  <2> HIDE DEF X
  <2> QED
    BY <1>2, <1>9, <1>10, <1>11, <2>2, <2>3, RemovedIsSound, RemovedInforms DEF N
<1>12. CASE told.ok
  <2>1. Started(told, game, s, o, first)
    BY <1>9 DEF Started, MemoryFields, Detachable, TypedMemory
  <2> HIDE DEF game
  <2>2. Sound(game) /\ \A t \in Slots \ {s, o} : SlotKept(told, game, t)
    <3>1. Detachable(told, {s, o}) /\ told.conns[s].opponent = o /\ told.conns[o].opponent = s
      BY <1>4, <1>9
    <3> QED
      BY <2>1, <3>1, StartedSound
  <2>3. AllInformed(game, R, X)
    <3>1. ASSUME NEW e \in Local \ X
          PROVE  /\ game.inbox[e] = told.inbox[e]
                 /\ \A t \in Slots : told.conns[t].addr = {e} \/ game.conns[t].addr = {e}
                                     => SlotKept(told, game, t)
      <4>1. \A t \in Slots : told.conns[t].addr = {e} \/ game.conns[t].addr = {e} => t \notin {s, o}
        BY <1>4, <1>5, <1>9, <2>1 DEF Started
      <4> QED
        BY <2>1, <2>2, <4>1 DEF Started
    <3> HIDE DEF X
    <3> QED
      BY <1>10, <2>1, <3>1, OthersInformed DEF Started
  <2>4. CASE ends /\ local # {}
    <3>1. N = Ends(game, "crashed")
      BY <1>2, <1>12, <2>4
    <3>2. DOMAIN game = MemoryFields /\ game.inbox \in [Local -> Seq(Messages)]
      BY <2>2 DEF Sound, Tables, TypedMemory
    <3> HIDE DEF X
    <3> QED
      BY <1>6, <2>3, <3>1, <3>2, EndsSound, CrashInforms DEF N
  <2>5. CASE ~(ends /\ local # {})
    <3>1. N = SendGameState(game, s)
      BY <1>2, <1>12, <2>5
    <3>2. /\ AddressOf(game, s) = c /\ AddressOf(game, o) = d /\ game.conns[s].opponent = o
          /\ game.inbox = told.inbox
      BY <1>4, <1>9, <2>1 DEF Started, AddressOf
    <3>3. ASSUME NEW e \in Local \intersect {c, d}, client[e] = "on"
          PROVE  PhasesShown(game, e) = {"playing"}
      <4>1. game.inbox[e] = Append(M2.inbox[e], begin)
        BY <1>8, <1>12, <3>2, <3>3
      <4>2. M2.inbox[e] \in Seq(Messages)
        BY <1>4, <3>3 DEF Detachable, TypedMemory
      <4> QED
        BY <1>7, <4>1, <4>2, GameToShow
    <3>4. AllInformed(game, R, {c, d})
      BY <2>3 DEF AllInformed
    <3>5. LET K == SendGameState(game, s)
          IN  Sound(K) /\ (K.ok <=> Reachable(c) /\ Reachable(d)) /\ (K.ok => AllInformed(K, R, {}))
      <4>1. \A e \in Local \intersect {c, d} :
              /\ client[e] # "off"
              /\ client[e] = "on" => WillEnd(game, e) \/ game.state = "crashed" \/ PhasesShown(game, e) = {"playing"}
        BY <1>6, <3>3
      <4> QED
        BY <2>2, <3>2, <3>4, <4>1, GameStateInforms
    <3> QED
      BY <1>8, <1>12, <3>1, <3>5 DEF N
  <2> QED
    BY <2>4, <2>5
<1> QED
  BY <1>11, <1>12

LEMMA MemoryHas ==
  /\ DOMAIN Memory = MemoryFields /\ Memory.conns = conns /\ Memory.games = games
  /\ Memory.playing = playing /\ Memory.waiting = waiting /\ Memory.count = count
  /\ Memory.state = state /\ Memory.inbox = inbox
BY DEF Memory, MemoryFields

ForClient(old, a, n) == [[old EXCEPT !.addr = a] EXCEPT !.nickname = n]

(* create_client_struct and what follows *)
LEMMA CreateKeeps ==
  ASSUME Sound(Memory), TypedClients, NEW s \in Slots, conns[s].addr = {}, NEW c \in Clients,
         client[c] # "off", \A t \in Slots : conns[t].nickname # Nickname(c),
         NEW R, AllInformed(Memory, R, {c}),
         NEW first \in {s, waiting} \ {None}, NEW ends \in BOOLEAN
  PROVE  LET N == CreateClientStruct(s, c, first, ends)
         IN  Sound(N) /\ AllInformed(N, R, {})
<1> DEFINE M == [Memory EXCEPT !.conns[s].addr = {c}, !.conns[s].nickname = Nickname(c),
                               !.count = @ + 1]
           N == CreateClientStruct(s, c, first, ends)
<1>1. /\ TypedMemory(Memory) /\ PairOf(Memory, s) /\ s # None
  BY SlotsAreFinite DEF Sound, Tables, Pairs
<1>0. Nickname(c) \in SUBSET Clients /\ {c} \in SUBSET Clients
  BY SomeClients DEF Nickname
<1>2. Registered(Memory, M, s, c)
  <2>1. conns[s] \in [addr : SUBSET Clients, nickname : SUBSET Clients, opponent : Slots \union {None}]
        /\ DOMAIN conns = Slots /\ conns[s].opponent = None
    BY <1>1, MemoryHas DEF TypedMemory, PairOf
  <2>2. ForClient(conns[s], {c}, Nickname(c))
          = [addr |-> {c}, nickname |-> Nickname(c), opponent |-> None]
    <3> DEFINE a == {c}
               n == Nickname(c)
               old == conns[s]
               new == ForClient(old, a, n)
    <3>1. a \in SUBSET Clients /\ n \in SUBSET Clients
          /\ old \in [addr : SUBSET Clients, nickname : SUBSET Clients, opponent : Slots \union {None}]
      BY <2>1, <1>0
    <3> HIDE DEF a, n, old
    <3>3. /\ new \in [addr : SUBSET Clients, nickname : SUBSET Clients, opponent : Slots \union {None}]
          /\ new.addr = a /\ new.nickname = n /\ new.opponent = old.opponent
      BY <3>1 DEF ForClient
    <3> HIDE DEF new
    <3>2. new = [addr |-> a, nickname |-> n, opponent |-> None]
      BY <2>1, <3>3 DEF old
    <3> QED
      BY <3>2 DEF new, a, n, old
  <2>3. M.conns = [[Memory.conns EXCEPT ![s].addr = {c}] EXCEPT ![s].nickname = Nickname(c)]
    BY DEF Memory
  <2>4. M.conns = [conns EXCEPT ![s] = [addr |-> {c}, nickname |-> Nickname(c), opponent |-> None]]
    BY <2>1, <2>2, <2>3, MemoryHas DEF ForClient
  <2> QED
    BY <2>4, MemoryHas DEF Registered, Memory, MemoryFields
<1>3. N = IF waiting # None THEN StartGameBetweenClients(M, s, waiting, first, ends)
          ELSE WaitForOpponent(M, s)
  BY DEF CreateClientStruct
<1> HIDE DEF M, N
<1>4. /\ Sound(M) /\ AllInformed(M, R, {c}) /\ AddressOf(M, s) = c /\ M.conns[s].addr # {}
      /\ M.conns[s].opponent = None /\ M.waiting # s /\ M.waiting = waiting
  <2>1. Memory.conns[s].addr = {} /\ \A t \in Slots : Memory.conns[t].nickname # Nickname(c)
    BY MemoryHas
  <2>2. M.waiting = waiting
    BY <1>2, MemoryHas DEF Registered
  <2> QED
    BY <1>2, <2>1, <2>2, RegisteredSound
<1>5. CASE waiting = None
  BY <1>3, <1>4, <1>5, WaitKeeps DEF N
<1>6. CASE waiting # None
  <2>1. waiting \in Slots \ {s} /\ first \in {s, waiting}
    BY <1>1, <1>4, <1>6, MemoryHas DEF TypedMemory
  <2>2. N = StartGameBetweenClients(M, s, waiting, first, ends)
    BY <1>3, <1>6
  <2> QED
    BY <1>4, <2>1, <2>2, StartKeeps DEF N
<1> QED
  BY <1>5, <1>6

(* catch_perror: the server exits, or the client is told to end. *)
LEMMA RejectKeeps ==
  ASSUME Sound(Memory), state = "up", TypedClients, NEW c \in Clients, client[c] # "off",
         NEW R, AllInformed(Memory, R, {c}), NEW type \in {"SERVER_FULL", "USERNAME_TAKEN"}
  PROVE  LET N == RejectClient(c, type) IN Sound(N) /\ AllInformed(N, R, {})
<1> DEFINE no == Message(type)
           told == SendTo(Memory, c, no)
           N == RejectClient(c, type)
<1>1. no \in Messages /\ no.type \in Ending
  BY MessagesTyped, EndingTypes
<1>2. DOMAIN Memory = MemoryFields /\ Memory.inbox \in [Local -> Seq(Messages)]
  BY DEF Sound, Tables, TypedMemory
<1>3. Reaches(Memory, told, c, no)
  BY <1>1, <1>2, SendReaches
<1>4. N = IF told.ok THEN told ELSE Exit(told)
  BY DEF RejectClient
<1> HIDE DEF no, told, N
<1>5. Sound(told) /\ told.state = "up"
  BY <1>3, SameIsSound, MemoryHas DEF Reaches, Same
<1>6. AllInformed(told, R, {c})
  <2>1. \A d \in Local \ {c} : told.inbox[d] = Memory.inbox[d] /\ \A t \in Slots : SlotKept(Memory, told, t)
    BY <1>3 DEF SlotKept, Reaches, Same
  <2> QED
    BY <1>5, <2>1, OthersInformed, MemoryHas
<1>7. ASSUME c \in Local PROVE Informed(told, R, c)
  <2>1. client[c] \in {"on", "leaving", "gone"}
    BY DEF TypedClients
  <2>2. CASE client[c] # "on"
    BY <2>1, <2>2 DEF Informed
  <2>3. CASE client[c] = "on"
    <3>1. Memory.inbox[c] \in Seq(Messages) /\ told.inbox[c] = Append(Memory.inbox[c], no)
      BY <1>2, <1>3, <1>7, <2>3 DEF Reaches
    <3>2. WillEnd(told, c)
      BY <1>1, <3>1, MoreToShow
    <3> QED
      BY <2>3, <3>2 DEF Informed
  <2> QED
    BY <2>2, <2>3
<1>8. AllInformed(told, R, {})
  BY <1>6, <1>7 DEF AllInformed
<1> QED
  BY <1>4, <1>5, <1>8, ExitKeeps DEF N

(* What a handler has made of the memory *)
Handled(N, R) == Sound(N) /\ AllInformed(N, R, {}) /\ Become(N)

LEMMA FindsTheFirst ==
  ASSUME NEW S \in SUBSET Slots, S # {}
  PROVE  (CHOOSE s \in S : \A t \in S : s <= t) \in S
<1>1. S \in SUBSET Nat
  BY SlotsAreFinite
<1> QED
  BY <1>1, MinIsElement DEF Min

LEMMA RegisterKeeps ==
  ASSUME Sound(Memory), state = "up", TypedClients, NEW c \in Clients, client[c] # "off",
         NEW R, AllInformed(Memory, R, {}), RegisterNewClient(c)
  PROVE  \E N : Handled(N, R \ {c})
<1>1. AllInformed(Memory, R \ {c}, {c})
  BY OneLessRegistering
<1>2. ASSUME NEW type \in {"SERVER_FULL", "USERNAME_TAKEN"}, Become(RejectClient(c, type))
      PROVE  \E N : Handled(N, R \ {c})
  BY <1>1, <1>2, RejectKeeps DEF Handled
<1>3. ASSUME FreeSlots # {}, IsNicknameAvailable(Nickname(c)),
             NEW first \in {FindEmptyConnection, waiting} \ {None}, NEW ends \in BOOLEAN,
             Become(CreateClientStruct(FindEmptyConnection, c, first, ends))
      PROVE  \E N : Handled(N, R \ {c})
  <2>1. FindEmptyConnection \in FreeSlots
    BY <1>3, FindsTheFirst DEF FindEmptyConnection, FreeSlots
  <2>2. /\ FindEmptyConnection \in Slots /\ conns[FindEmptyConnection].addr = {}
        /\ \A t \in Slots : conns[t].nickname # Nickname(c)
    BY <1>3, <2>1 DEF FreeSlots, IsNicknameAvailable
  <2> QED
    BY <1>1, <1>3, <2>2, CreateKeeps DEF Handled
<1> QED
  BY <1>2, <1>3 DEF RegisterNewClient

-------------------------------------------------------------------------------
(* Moves *)

(* From M to N a field was taken in the game of s, and it is the turn of o. *)
Moved(M, N, s, o) ==
  /\ DOMAIN N = MemoryFields /\ N.inbox = M.inbox /\ N.state = M.state /\ N.waiting = M.waiting
  /\ N.conns = M.conns /\ N.playing = M.playing /\ N.count = M.count
  /\ \E taken \in SUBSET Fields :
       N.games = [M.games EXCEPT ![M.playing[s]] = [turn |-> o, taken |-> taken]]

LEMMA MovedSound ==
  ASSUME NEW M, Sound(M), NEW s \in Slots, NEW o \in Slots, M.conns[s].opponent = o,
         NEW N, Moved(M, N, s, o)
  PROVE  Sound(N) /\ \A t \in Slots \ {s, o} : SlotKept(M, N, t)
<1>1. /\ TypedMemory(M) /\ OneClientEach(M) /\ OwnNames(M) /\ WaitsAlone(M)
      /\ M.count = Cardinality(UsedIn(M)) /\ \A t \in Slots : PairOf(M, t) /\ t # None
  BY SlotsAreFinite DEF Sound, Tables, Pairs
<1> DEFINE g == M.playing[s]
<1>2. PICK taken \in SUBSET Fields : N.games = [M.games EXCEPT ![g] = [turn |-> o, taken |-> taken]]
  BY DEF Moved
<1> DEFINE new == [turn |-> o, taken |-> taken]
<1>3. new \in [turn : Slots \union {None}, taken : SUBSET Fields] /\ new.turn = o
  OBVIOUS
<1>4. N.games = [M.games EXCEPT ![g] = new] /\ DOMAIN M.games = Slots
  BY <1>1, <1>2 DEF TypedMemory
<1> HIDE DEF new
<1>5. g \in {s, o} /\ g = M.playing[o] /\ M.conns[o].opponent = s /\ o # s /\ g \in Slots
  BY <1>1 DEF PairOf
<1> HIDE DEF g
<1>6. N.games[g] = new /\ \A h \in Slots \ {g} : N.games[h] = M.games[h]
  BY <1>4, <1>5
<1>7. TypedMemory(N)
  <2>1. N.games \in [Slots -> [turn : Slots \union {None}, taken : SUBSET Fields]]
    <3>1. M.games \in [Slots -> [turn : Slots \union {None}, taken : SUBSET Fields]]
      BY <1>1 DEF TypedMemory
    <3> QED
      BY <1>3, <1>4, <3>1
  <2> QED
    BY <1>1, <2>1 DEF TypedMemory, Moved
<1>8. OneClientEach(N) /\ OwnNames(N) /\ WaitsAlone(N) /\ N.count = Cardinality(UsedIn(N))
  BY <1>1 DEF OneClientEach, OwnNames, WaitsAlone, UsedIn, Moved
<1>9. ASSUME NEW t \in Slots \ {s, o} PROVE PairOf(N, t) /\ SlotKept(M, N, t)
  <2>1. /\ PairOf(M, t) /\ M.conns[t].opponent \in (Slots \ {s, o}) \union {None}
        /\ M.playing[t] \in Slots \union {None}
    BY <1>1, <1>5 DEF TypedMemory, PairOf
  <2>2. M.conns[t].opponent # None => M.playing[t] \in Slots \ {g}
    BY <1>5, <2>1 DEF PairOf
  <2> QED
    BY <1>6, <2>1, <2>2 DEF PairOf, SlotKept, Moved
<1>10. PairOf(N, s) /\ PairOf(N, o)
  <2>1. M.playing[s] = g
    BY DEF g
  <2>2. PairOf(M, s) /\ PairOf(M, o)
    BY <1>1
  <2> QED
    BY <1>3, <1>5, <1>6, <2>1, <2>2 DEF PairOf, Moved
<1> QED
  BY <1>7, <1>8, <1>9, <1>10 DEF Sound, Tables, Pairs, Moved

(* A player is shown that it plays, or will end. *)
LEMMA PlayersPlay ==
  ASSUME NEW M, Sound(M), TypedClients, NEW R, NEW s \in Slots, M.conns[s].opponent # None,
         AddressOf(M, s) \in Local, Informed(M, R, AddressOf(M, s))
  PROVE  LET e == AddressOf(M, s)
         IN  /\ client[e] # "off"
             /\ client[e] = "on" => WillEnd(M, e) \/ M.state = "crashed" \/ PhasesShown(M, e) = {"playing"}
<1> DEFINE e == AddressOf(M, s)
<1>1. TypedMemory(M) /\ OneClientEach(M) /\ OwnNames(M) /\ PairOf(M, s)
  BY DEF Sound, Tables, Pairs
<1>2. M.conns[s].addr # {}
  BY <1>1 DEF PairOf
<1>3. M.conns[s].addr = {e}
  BY <1>1, <1>2, AddressIsClient
<1>4. client[e] # "off"
  BY <1>1, <1>2, ConnectedHasCome
<1>5. ASSUME NEW t \in Slots, WillBelieve(M, e, t) PROVE PhasesShown(M, e) = {"playing"}
  <2>1. M.conns[t].addr = {e}
    BY <1>5 DEF WillBelieve
  <2>2. t = s
    BY <1>1, <1>2, <1>3, <2>1, AddressesDiffer
  <2> QED
    BY <1>5, <2>2 DEF WillBelieve
<1>6. ~Unknown(M, e)
  BY <1>3 DEF Unknown
<1> QED
  BY <1>4, <1>5, <1>6 DEF Informed

LEMMA MoveKeeps ==
  ASSUME Sound(Memory), state = "up", TypedClients, NEW s \in Slots, conns[s].addr # {},
         NEW f \in Fields, NEW R, AllInformed(Memory, R, {}), HandleClientMoveMsg(s, f)
  PROVE  \E N : Handled(N, R)
<1> DEFINE o == conns[s].opponent
           M == [Memory EXCEPT !.games[playing[s]] = [turn |-> o, taken |-> @.taken \union {f}]]
           sent == SendGameState(M, s)
           result == Message("GAME_RESULT")
           told == Both(sent, s, result, o, result)
           left == IF sent.ok THEN told ELSE sent
           c == AddressOf(Memory, s)
           d == AddressOf(Memory, o)
           X == {c, d} \intersect Local
<1>1. /\ DOMAIN Memory = MemoryFields /\ TypedMemory(Memory) /\ OneClientEach(Memory)
      /\ OwnNames(Memory) /\ PairOf(Memory, s) /\ Memory.inbox \in [Local -> Seq(Messages)]
  BY DEF Sound, Tables, Pairs, TypedMemory
<1>2. CASE o = None
  <2>1. Become(Ends(Memory, "crashed"))
    BY <1>2 DEF HandleClientMoveMsg
  <2> QED
    BY <1>1, <2>1, EndsSound, CrashInforms DEF Handled
<1>3. CASE o # None /\ ~IsValidMove(s, f)
  <2>1. Become(Memory)
    BY <1>3 DEF HandleClientMoveMsg
  <2> QED
    BY <2>1 DEF Handled
<1>4. CASE o # None /\ IsValidMove(s, f)
  <2>1. PICK end \in BOOLEAN :
          Become(IF sent.ok /\ end THEN sent ELSE RemoveConnection(left, s))
    <3>1. PICK r \in GetGameResults(games[playing[s]].taken \union {f}) :
            Become(IF sent.ok /\ r = "PLAYING" THEN sent ELSE RemoveConnection(left, s))
      BY <1>4, Zenon DEF HandleClientMoveMsg
    <3> QED
      BY <3>1, Zenon
  <2>2. /\ o \in Slots \ {s} /\ Memory.conns[s].opponent = o /\ Memory.conns[o].opponent = s
        /\ Memory.conns[s].addr # {} /\ playing[s] \in Slots /\ Memory.conns[o].addr # {}
    <3>1. o \in Slots \union {None} /\ o # s /\ playing[s] \in {s, o} /\ Memory.conns[o].opponent = s
      BY <1>1, <1>4, MemoryHas DEF PairOf, TypedMemory
    <3>2. PairOf(Memory, o) /\ s # None
      BY <1>4, <3>1, SlotsAreFinite DEF Sound, Tables, Pairs
    <3> QED
      BY <1>4, <3>1, <3>2, MemoryHas DEF PairOf
  <2>3. Moved(Memory, M, s, o)
    <3>1. M.games = [Memory.games EXCEPT ![Memory.playing[s]]
                       = [turn |-> o, taken |-> games[playing[s]].taken \union {f}]]
      BY MemoryHas DEF Memory
    <3>2. games[playing[s]].taken \union {f} \in SUBSET Fields
      BY <1>1, <2>2, MemoryHas DEF TypedMemory
    <3>3. /\ DOMAIN M = MemoryFields /\ M.inbox = Memory.inbox /\ M.state = Memory.state
          /\ M.waiting = Memory.waiting /\ M.conns = Memory.conns /\ M.playing = Memory.playing
          /\ M.count = Memory.count
      BY DEF Memory, MemoryFields
    <3> HIDE DEF M
    <3> QED
      BY <3>1, <3>2, <3>3 DEF Moved
  <2> HIDE DEF M, o
  <2>4. Sound(M) /\ \A t \in Slots \ {s, o} : SlotKept(Memory, M, t)
    BY <2>2, <2>3, MovedSound
  <2>5. /\ AddressOf(M, s) = c /\ AddressOf(M, o) = d /\ M.conns[s].opponent = o
        /\ M.conns = Memory.conns /\ M.inbox = Memory.inbox /\ M.state = Memory.state
        /\ Memory.conns[s].addr = {c} /\ Memory.conns[o].addr = {d}
    BY <1>1, <2>2, <2>3, AddressIsClient DEF AddressOf, Moved
  <2> HIDE DEF c, d
  <2>6. AllInformed(M, R, {c, d})
    <3> DEFINE Y == {c, d}
    <3>1. ASSUME NEW e \in Local \ Y
          PROVE  /\ M.inbox[e] = Memory.inbox[e]
                 /\ \A t \in Slots : Memory.conns[t].addr = {e} \/ M.conns[t].addr = {e}
                                     => SlotKept(Memory, M, t)
      <4>1. \A t \in Slots : Memory.conns[t].addr = {e} \/ M.conns[t].addr = {e} => t \notin {s, o}
        BY <2>5
      <4> QED
        BY <2>4, <2>5, <4>1
    <3>2. AllInformed(Memory, R, Y) /\ M.state = Memory.state
      BY <2>5 DEF AllInformed
    <3> HIDE DEF Y
    <3>3. AllInformed(M, R, Y)
      BY <3>1, <3>2, OthersInformed
    <3> QED
      BY <3>3 DEF Y
  <2>7. ASSUME NEW e \in Local \intersect {c, d}
        PROVE  /\ client[e] # "off"
               /\ client[e] = "on" => WillEnd(M, e) \/ M.state = "crashed" \/ PhasesShown(M, e) = {"playing"}
    <3>1. PICK t \in {s, o} : e = AddressOf(Memory, t)
      BY DEF c, d
    <3>2. Informed(Memory, R, e) /\ t \in Slots /\ Memory.conns[t].opponent # None
      BY <1>4, <2>2, SlotsAreFinite DEF AllInformed, o
    <3>3. WillEnd(M, e) = WillEnd(Memory, e) /\ PhasesShown(M, e) = PhasesShown(Memory, e)
      BY <2>5 DEF WillEnd, PhasesShown
    <3> QED
      BY <2>5, <3>1, <3>2, <3>3, PlayersPlay
  <2>8. /\ Same(M, sent) /\ Sound(sent) /\ AllInformed(sent, R, {c, d})
        /\ sent.ok => AllInformed(sent, R, {})
    BY <2>2, <2>4, <2>5, <2>6, <2>7, GameStateInforms
  <2>9. result \in Messages
    BY MessagesTyped
  <2> HIDE DEF sent, result
  <2>10. /\ sent.conns = Memory.conns /\ AddressOf(sent, s) = c /\ AddressOf(sent, o) = d
    BY <2>5, <2>8 DEF Same, AddressOf
  <2>11. Same(sent, told) /\ \A e \in Local \ {c, d} : told.inbox[e] = sent.inbox[e]
    <3>1. /\ DOMAIN sent = MemoryFields /\ TypedMemory(sent) /\ OneClientEach(sent) /\ OwnNames(sent)
          /\ sent.conns[s].addr # {} /\ sent.conns[o].addr # {}
      BY <2>2, <2>8, <2>10 DEF Sound, Tables
    <3> QED
      BY <2>2, <2>9, <2>10, <3>1, BothReach
  <2> HIDE DEF told
  <2>12. Sound(left) /\ AllInformed(left, R, {c, d}) /\ left.conns = Memory.conns
    <3>1. Sound(told) /\ told.conns = Memory.conns /\ told.state = sent.state
      BY <2>8, <2>10, <2>11, SameIsSound DEF Same
    <3>2. AllInformed(told, R, {c, d})
      <4>1. \A e \in Local \ {c, d} : told.inbox[e] = sent.inbox[e] /\ \A t \in Slots : SlotKept(sent, told, t)
        BY <2>11 DEF SlotKept, Same
      <4> QED
        BY <2>8, <3>1, <4>1, OthersInformed
    <3> QED
      BY <2>8, <2>10, <3>1, <3>2
  <2> HIDE DEF left
  <2>13. Kept(left, RemoveConnection(left, s), R)
    <3>1. Partners(left, s) = {s, o} /\ AddressOf(left, s) = c /\ AddressOf(left, o) = d
          /\ left.conns[s].addr # {}
      BY <1>4, <2>2, <2>12 DEF Partners, AddressOf, c, d, o
    <3>2. AllInformed(left, R, X)
      BY <2>12 DEF AllInformed
    <3>3. \A e \in X : client[e] # "off" /\ \E t \in Partners(left, s) : AddressOf(left, t) = e
      BY <2>7, <3>1
    <3> HIDE DEF X
    <3> QED
      BY <2>12, <3>1, <3>2, <3>3, RemoveKeeps
  <2> QED
    BY <2>1, <2>8, <2>13 DEF Handled, Kept
<1> QED
  BY <1>2, <1>3, <1>4

-------------------------------------------------------------------------------
(* A message is handled. *)

LEMMA RequestKinds ==
  ASSUME NEW m \in Requests
  PROVE  /\ m.from \in Clients
         /\ m.type = "MOVE" => m.field \in Fields
<1>1. PICK c \in Clients : m \in Datagrams(c)
  BY DEF Requests
<1>2. CASE \E f \in Fields : m = Move(c, f)
  BY <1>2 DEF Move
<1>3. CASE \E type \in {"REGISTER", "PING", "DISCONNECT"} : m = Request(c, type)
  BY <1>3 DEF Request
<1> QED
  BY <1>1, <1>2, <1>3 DEF Datagrams

(* Who is left to register when m was handled *)
Remaining(R, m) == IF m.type = "REGISTER" THEN R \ {m.from} ELSE R

LEMMA HandleKeeps ==
  ASSUME Sound(Memory), state = "up", TypedClients, NEW m \in Requests, client[m.from] # "off",
         NEW R, AllInformed(Memory, R, {}), Handle(m)
  PROVE  \E N : Handled(N, Remaining(R, m))
<1>1. m.from \in Clients /\ (m.type = "MOVE" => m.field \in Fields)
  BY RequestKinds
<1> DEFINE theirs == {s \in Slots : conns[s].addr = {m.from}}
           s == CHOOSE x \in theirs : \A t \in theirs : x <= t
<1>2. CASE m.type = "REGISTER" /\ RegisterNewClient(m.from)
  <2>1. Remaining(R, m) = R \ {m.from}
    BY <1>2 DEF Remaining
  <2> QED
    BY <1>1, <1>2, <2>1, RegisterKeeps
<1>3. CASE m.type # "REGISTER" /\ Become(Memory)
  BY <1>3 DEF Remaining, Handled
<1>4. CASE m.type # "REGISTER" /\ theirs # {} /\ HandleClientRequest(s, m)
  <2>1. Remaining(R, m) = R
    BY <1>4 DEF Remaining
  <2>2. s \in theirs
    <3>1. theirs \in SUBSET Slots
      OBVIOUS
    <3> HIDE DEF theirs
    <3> QED
      BY <1>4, <3>1, FindsTheFirst
  <2>3. s \in Slots /\ conns[s].addr # {} /\ Memory.conns[s].addr # {}
    BY <2>2, MemoryHas
  <2> HIDE DEF s
  <2>4. CASE m.type = "MOVE"
    <3>1. HandleClientMoveMsg(s, m.field)
      BY <1>4, <2>4 DEF HandleClientRequest
    <3> QED
      BY <1>1, <2>1, <2>3, <2>4, <3>1, MoveKeeps
  <2>5. CASE m.type = "DISCONNECT"
    <3>1. Become(RemoveConnection(Memory, s))
      BY <1>4, <2>5 DEF HandleClientRequest
    <3>2. Kept(Memory, RemoveConnection(Memory, s), R)
      BY <2>3, RemoveKeeps
    <3> QED
      BY <2>1, <3>1, <3>2 DEF Handled, Kept
  <2>6. CASE m.type \notin {"MOVE", "DISCONNECT"}
    <3>1. Become(Memory)
      BY <1>4, <2>6 DEF HandleClientRequest
    <3> QED
      BY <2>1, <3>1 DEF Handled
  <2> QED
    BY <2>4, <2>5, <2>6
<1> QED
  BY <1>2, <1>3, <1>4, Zenon DEF Handle

-------------------------------------------------------------------------------
(* The steps of the server *)

(* After a step that has left N of the server's memory, a client of which   *)
(* nothing was changed is informed.                                          *)
LEMMA Carried ==
  ASSUME NEW N, NEW R, NEW d \in Local, Informed(N, R, d),
         conns' = N.conns, games' = N.games, playing' = N.playing, state' = N.state,
         inbox'[d] = N.inbox[d], client'[d] = client[d], screen'[d] = screen[d],
         d \in R => d \in Registering'
  PROVE  Informed(Memory, Registering, d)'
<1>1. /\ Memory'.conns = N.conns /\ Memory'.games = N.games /\ Memory'.playing = N.playing
      /\ Memory'.state = N.state /\ Memory'.inbox[d] = N.inbox[d]
  BY DEF Memory
<1>2. WillEnd(Memory', d) = WillEnd(N, d)
  BY <1>1 DEF WillEnd
<1>3. PhasesShown(Memory, d)' = PhasesShown(N, d) /\ BoardsShown(Memory, d)' = BoardsShown(N, d)
  BY <1>1 DEF PhasesShown, BoardsShown
<1>4. \A s \in Slots : WillBelieve(N, d, s) => WillBelieve(Memory, d, s)'
  BY <1>1, <1>3 DEF WillBelieve
<1>5. Unknown(N, d) => Unknown(Memory, d)'
  BY <1>1 DEF Unknown
<1> QED
  BY <1>1, <1>2, <1>4, <1>5 DEF Informed

LEMMA BecomesSound ==
  ASSUME NEW N, Sound(N), Become(N)
  PROVE  Tables(Memory)'
<1>1. /\ Memory'.conns = N.conns /\ Memory'.games = N.games /\ Memory'.playing = N.playing
      /\ Memory'.waiting = N.waiting /\ Memory'.count = N.count /\ Memory'.state = N.state
      /\ Memory'.inbox = N.inbox
  BY DEF Memory, Become
<1> DEFINE K == Memory'
<1>2. Tables(K)
  <2>1. /\ K.conns = N.conns /\ K.games = N.games /\ K.playing = N.playing
        /\ K.waiting = N.waiting /\ K.count = N.count /\ K.state = N.state /\ K.inbox = N.inbox
    BY <1>1
  <2>2. Tables(N)
    BY DEF Sound
  <2> HIDE DEF K
  <2>3. TypedMemory(K) /\ UsedIn(K) = UsedIn(N)
    BY <2>1, <2>2 DEF Tables, TypedMemory, UsedIn
  <2>4. OneClientEach(K) /\ OwnNames(K) /\ Pairs(K) /\ WaitsAlone(K)
    BY <2>1, <2>2 DEF Tables, OneClientEach, OwnNames, Pairs, PairOf, WaitsAlone
  <2> QED
    BY <2>1, <2>2, <2>3, <2>4 DEF Tables
<1> QED
  BY <1>2

LEMMA ServerKeeps ==
  ASSUME IInv, NEW N, NEW R, Handled(N, R), UNCHANGED <<client, screen>>,
         \A d \in Local : d \in R => d \in Registering',
         requests' \in Seq(Requests), \A i \in DOMAIN requests' : \E j \in DOMAIN requests : requests'[i] = requests[j]
  PROVE  IInv'
<1>1. Tables(Memory)'
  BY BecomesSound DEF Handled
<1>2. TypedClients'
  BY DEF IInv, TypedClients
<1>3. ASSUME NEW d \in Local PROVE Informed(Memory, Registering, d)'
  <2>1. Informed(N, R, d)
    BY DEF Handled, AllInformed
  <2>2. /\ conns' = N.conns /\ games' = N.games /\ playing' = N.playing /\ state' = N.state
        /\ inbox'[d] = N.inbox[d]
    BY DEF Handled, Become
  <2> QED
    BY <2>1, <2>2, Carried
<1> QED
  BY <1>1, <1>2, <1>3 DEF IInv

LEMMA MemoryIsSound ==
  ASSUME IInv
  PROVE  Sound(Memory) /\ TypedClients /\ AllInformed(Memory, Registering, {})
BY MemoryHas DEF IInv, Sound, AllInformed

LEMMA LocalEventKeeps == ASSUME IInv, HandleLocalEvent PROVE IInv'
<1> DEFINE m == Head(requests)
           R == Remaining(Registering, m)
<1>1. /\ requests \in Seq(Requests) /\ requests # <<>> /\ requests' = Tail(requests)
      /\ state = "up" /\ Handle(m) /\ UNCHANGED <<client, screen>>
  BY DEF IInv, TypedClients, HandleLocalEvent
<1>2. /\ m \in Requests /\ m = requests[1] /\ requests' \in Seq(Requests) /\ 1 \in DOMAIN requests
      /\ \A i \in DOMAIN requests' : i + 1 \in DOMAIN requests /\ requests'[i] = requests[i + 1]
      /\ \A j \in DOMAIN requests : j # 1 => j - 1 \in DOMAIN requests' /\ requests'[j - 1] = requests[j]
  <2>1. Len(requests) \in Nat /\ DOMAIN requests = 1 .. Len(requests) /\ Len(requests) # 0
    BY <1>1, EmptySeq
  <2>2. /\ requests' \in Seq(Requests) /\ Len(requests') = Len(requests) - 1
        /\ \A i \in 1 .. Len(requests') : requests'[i] = requests[i + 1]
    BY <1>1, HeadTailProperties
  <2>3. DOMAIN requests' = 1 .. Len(requests')
    BY <2>2
  <2> QED
    BY <1>1, <2>1, <2>2, <2>3, HeadTailProperties
<1> HIDE DEF m
<1>3. client[m.from] # "off"
  BY <1>2 DEF IInv, TypedClients
<1>4. PICK N : Handled(N, R)
  BY <1>1, <1>2, <1>3, MemoryIsSound, HandleKeeps
<1>5. ASSUME NEW d \in Local, d \in R PROVE d \in Registering'
  <2>1. d \in Registering
    BY <1>5 DEF Remaining
  <2>2. PICK j \in DOMAIN requests : requests[j] = Request(d, "REGISTER")
    BY <2>1 DEF Registering
  <2>3. j # 1
    <3>1. Request(d, "REGISTER").from = d /\ Request(d, "REGISTER").type = "REGISTER"
      BY DEF Request
    <3>2. m # Request(d, "REGISTER")
      BY <1>5, <3>1 DEF Remaining
    <3> QED
      BY <1>2, <2>2, <3>2
  <2>4. j - 1 \in DOMAIN requests' /\ requests'[j - 1] = Request(d, "REGISTER")
    BY <1>2, <2>2, <2>3
  <2> QED
    BY <2>4 DEF Registering
<1> HIDE DEF R
<1> QED
  BY <1>1, <1>2, <1>4, <1>5, ServerKeeps

LEMMA NetworkEventKeeps ==
  ASSUME IInv, NEW c \in Clients \ Local, HandleNetworkEvent(c) PROVE IInv'
<1>1. PICK m \in Datagrams(c) : Handle(m)
  BY DEF HandleNetworkEvent
<1>2. /\ state = "up" /\ client[c] = "on" /\ UNCHANGED <<requests, client, screen>>
      /\ requests \in Seq(Requests)
  BY DEF HandleNetworkEvent, IInv, TypedClients
<1>3. m \in Requests /\ m.from = c
  BY <1>1 DEF Requests, Datagrams, Request, Move
<1> DEFINE R == Remaining(Registering, m)
<1>4. PICK N : Handled(N, R)
  BY <1>1, <1>2, <1>3, MemoryIsSound, HandleKeeps
<1>5. \A d \in Local : d \in R => d \in Registering'
  BY <1>2 DEF Remaining, Registering
<1> HIDE DEF R
<1> QED
  BY <1>2, <1>4, <1>5, ServerKeeps

LEMMA SigintKeeps == ASSUME IInv, SigintHandler PROVE IInv'
<1>1. /\ state = "up" /\ Become(Exit(Memory)) /\ UNCHANGED <<requests, client, screen>>
      /\ requests \in Seq(Requests)
  BY DEF SigintHandler, IInv, TypedClients
<1>2. Handled(Exit(Memory), Registering)
  BY <1>1, MemoryIsSound, MemoryHas, ExitKeeps DEF Handled
<1>3. Registering' = Registering
  BY <1>1 DEF Registering
<1> QED
  BY <1>1, <1>2, <1>3, ServerKeeps

LEMMA PingKeepsAll == ASSUME IInv, PingHandler PROVE IInv'
<1> DEFINE N == IF PingConnections.ok THEN PingConnections ELSE Exit(PingConnections)
<1>1. /\ state = "up" /\ Become(N) /\ UNCHANGED <<requests, client, screen>>
      /\ requests \in Seq(Requests)
  BY DEF PingHandler, IInv, TypedClients
<1>2. Kept(Memory, PingConnections, Registering)
  BY MemoryIsSound, PingConnectionsKeep
<1>3. Sound(PingConnections) /\ AllInformed(PingConnections, Registering, {}) /\ PingConnections.state = "up"
  BY <1>1, <1>2, MemoryHas DEF Kept
<1>4. Handled(N, Registering)
  BY <1>1, <1>3, MemoryIsSound, ExitKeeps DEF Handled
<1>5. Registering' = Registering
  BY <1>1 DEF Registering
<1> HIDE DEF N
<1> QED
  BY <1>1, <1>4, <1>5, ServerKeeps

-------------------------------------------------------------------------------
(* The steps of the clients *)

(* A client adds a message to the queue of the server. *)
LEMMA RequestAdded ==
  ASSUME IInv, NEW c \in Local, NEW m \in Requests, m.from = c, requests' = Append(requests, m)
  PROVE  /\ requests' \in Seq(Requests) /\ Registering \subseteq Registering'
         /\ m = Request(c, "REGISTER") => c \in Registering'
         /\ \A i \in DOMAIN requests' : requests'[i] = m \/ \E j \in DOMAIN requests : requests'[i] = requests[j]
<1>1. requests \in Seq(Requests) /\ c \in Clients
  BY SomeClients DEF IInv, TypedClients
<1>2. requests' \in Seq(Requests)
  BY <1>1
<1>3. /\ \A i \in DOMAIN requests : i \in DOMAIN requests' /\ requests'[i] = requests[i]
      /\ Len(requests) + 1 \in DOMAIN requests' /\ requests'[Len(requests) + 1] = m
      /\ \A i \in DOMAIN requests' : i \in DOMAIN requests \/ i = Len(requests) + 1
  <2>1. Len(requests) \in Nat /\ DOMAIN requests = 1 .. Len(requests)
    BY <1>1
  <2>2. /\ DOMAIN requests' = 1 .. Len(requests) + 1 /\ requests'[Len(requests) + 1] = m
        /\ \A i \in 1 .. Len(requests) : requests'[i] = requests[i]
    BY <1>1, <2>1, AppendProperties
  <2> QED
    BY <2>1, <2>2
<1>4. Registering \subseteq Registering'
  BY <1>3 DEF Registering
<1>5. m = Request(c, "REGISTER") => c \in Registering'
  BY <1>3 DEF Registering
<1> QED
  BY <1>2, <1>3, <1>4, <1>5

LEMMA RequestTyped ==
  ASSUME NEW c \in Local
  PROVE  /\ \A type \in {"REGISTER", "PING", "DISCONNECT"} :
              Request(c, type) \in Requests /\ Request(c, type).from = c
         /\ \A f \in Fields : Move(c, f) \in Requests /\ Move(c, f).from = c
BY SomeClients DEF Requests, Datagrams, Request, Move

(* Clients change nothing of the server but what is in their queues. *)
LEMMA QueuesOnly ==
  ASSUME IInv, UNCHANGED serverVars, inbox' \in [Local -> Seq(Messages)]
  PROVE  Tables(Memory)'
<1> DEFINE N == [Memory EXCEPT !.inbox = inbox']
           K == Memory'
<1>1. Same(Memory, N) /\ N.inbox = inbox'
  BY DEF Same, Memory, MemoryFields
<1> HIDE DEF N
<1>2. Sound(N)
  BY <1>1, MemoryIsSound, SameIsSound
<1>3. Become(N)
  BY <1>1, MemoryHas DEF Become, serverVars, Same
<1> QED
  BY <1>2, <1>3, BecomesSound

(* The clients that do nothing are informed. *)
LEMMA RestInformed ==
  ASSUME IInv, UNCHANGED serverVars, NEW d \in Local, inbox'[d] = inbox[d],
         client'[d] = client[d], screen'[d] = screen[d], Registering \subseteq Registering'
  PROVE  Informed(Memory, Registering, d)'
<1>1. Informed(Memory, Registering, d)
  BY DEF IInv
<1> QED
  BY <1>1, Carried, MemoryHas DEF serverVars

LEMMA ConnectKeeps == ASSUME IInv, NEW c \in Clients, ConnectToServer(c) PROVE IInv'
<1>1. /\ client[c] = "off" /\ client' = [client EXCEPT ![c] = "on"] /\ UNCHANGED serverVars
      /\ inbox' = inbox /\ screen' = screen /\ TypedClients /\ Tables(Memory)
      /\ requests' = IF c \in Local THEN Append(requests, Request(c, "REGISTER")) ELSE requests
  BY DEF ConnectToServer, IInv
<1>2. inbox' \in [Local -> Seq(Messages)]
  BY <1>1, MemoryHas DEF Tables, TypedMemory
<1>3. /\ requests' \in Seq(Requests) /\ Registering \subseteq Registering'
      /\ c \in Local => c \in Registering'
      /\ \A i \in DOMAIN requests' :
           (c \in Local /\ requests'[i].from = c) \/ \E j \in DOMAIN requests : requests'[i] = requests[j]
  <2>1. CASE c \in Local
    BY <1>1, <2>1, RequestAdded, RequestTyped
  <2>2. CASE c \notin Local
    BY <1>1, <2>2 DEF TypedClients, Registering
  <2> QED
    BY <2>1, <2>2
<1>4. TypedClients'
  <2>1. client' \in [Clients -> {"off", "on", "leaving", "gone"}] /\ client'[c] = "on"
        /\ \A d \in Clients \ {c} : client'[d] = client[d]
    BY <1>1 DEF TypedClients
  <2> QED
    BY <1>1, <1>3, <2>1, SomeClients DEF TypedClients
<1>5. ASSUME NEW d \in Local PROVE Informed(Memory, Registering, d)'
  <2>1. CASE d # c
    <3>1. client'[d] = client[d]
      BY <1>1, <2>1, SomeClients DEF TypedClients
    <3> QED
      BY <1>1, <1>3, <3>1, RestInformed
  <2>2. CASE d = c
    <3>1. Unknown(Memory, c)
      BY <1>1, <2>2 DEF IInv, Informed
    <3>2. /\ Memory'.conns = Memory.conns /\ Memory'.inbox = Memory.inbox
      BY <1>1 DEF Memory, serverVars
    <3>3. Unknown(Memory, c)'
      BY <1>1, <3>1, <3>2 DEF Unknown
    <3>4. c \in Registering'
      BY <1>3, <2>2
    <3> QED
      BY <2>2, <3>3, <3>4 DEF Informed
  <2> QED
    BY <2>1, <2>2
<1> QED
  BY <1>1, <1>2, <1>4, <1>5, QueuesOnly DEF IInv

LEMMA StdinKeeps == ASSUME IInv, NEW c \in Local, NEW f \in Fields, HandleStdinEvent(c, f) PROVE IInv'
<1>1. /\ client[c] = "on" /\ UNCHANGED <<serverVars, inbox, client, screen>> /\ TypedClients
      /\ requests' = Append(requests, Move(c, f)) /\ inbox \in [Local -> Seq(Messages)]
  BY MemoryHas DEF HandleStdinEvent, IInv, Tables, TypedMemory
<1>2. /\ requests' \in Seq(Requests) /\ Registering \subseteq Registering'
      /\ \A i \in DOMAIN requests' :
           requests'[i].from = c \/ \E j \in DOMAIN requests : requests'[i] = requests[j]
  BY <1>1, RequestAdded, RequestTyped
<1>3. TypedClients'
  BY <1>1, <1>2 DEF TypedClients
<1>4. \A d \in Local : Informed(Memory, Registering, d)'
  BY <1>1, <1>2, RestInformed
<1> QED
  BY <1>1, <1>3, <1>4, QueuesOnly DEF IInv

LEMMA InterruptedKeeps == ASSUME IInv, NEW c \in Local, Interrupted(c) PROVE IInv'
<1>1. /\ client' = [client EXCEPT ![c] = "leaving"] /\ UNCHANGED <<serverVars, inbox, screen>>
      /\ TypedClients /\ requests' = Append(requests, Request(c, "DISCONNECT"))
      /\ inbox \in [Local -> Seq(Messages)]
  BY MemoryHas DEF Interrupted, IInv, Tables, TypedMemory
<1>2. /\ requests' \in Seq(Requests) /\ Registering \subseteq Registering'
      /\ \A i \in DOMAIN requests' :
           requests'[i].from = c \/ \E j \in DOMAIN requests : requests'[i] = requests[j]
  BY <1>1, RequestAdded, RequestTyped
<1>3. /\ client' \in [Clients -> {"off", "on", "leaving", "gone"}] /\ client'[c] = "leaving"
      /\ \A d \in Clients \ {c} : client'[d] = client[d]
  BY <1>1, SomeClients DEF TypedClients
<1>4. TypedClients'
  BY <1>1, <1>2, <1>3, SomeClients DEF TypedClients
<1>5. ASSUME NEW d \in Local PROVE Informed(Memory, Registering, d)'
  <2>1. CASE d # c
    <3>1. client'[d] = client[d]
      BY <1>3, <2>1, SomeClients
    <3> QED
      BY <1>1, <1>2, <3>1, RestInformed
  <2>2. CASE d = c
    BY <1>3, <2>2 DEF Informed
  <2> QED
    BY <2>1, <2>2
<1> QED
  BY <1>1, <1>4, <1>5, QueuesOnly DEF IInv

(* A client that is gone takes its queue with it. *)
LEMMA GoneKeeps ==
  ASSUME IInv, NEW c \in Local, Gone(c), UNCHANGED <<serverVars, requests>>
  PROVE  IInv'
<1>1. /\ client' = [client EXCEPT ![c] = "gone"] /\ inbox' = [inbox EXCEPT ![c] = <<>>]
      /\ screen' = [screen EXCEPT ![c] = Unseen] /\ UNCHANGED serverVars /\ requests' = requests
      /\ TypedClients /\ inbox \in [Local -> Seq(Messages)]
  BY MemoryHas DEF Gone, IInv, Tables, TypedMemory
<1>2. /\ client' \in [Clients -> {"off", "on", "leaving", "gone"}] /\ client'[c] = "gone"
      /\ \A d \in Clients \ {c} : client'[d] = client[d]
  BY <1>1, SomeClients DEF TypedClients
<1>3. inbox' \in [Local -> Seq(Messages)] /\ \A d \in Local \ {c} : inbox'[d] = inbox[d]
  <2>1. <<>> \in Seq(Messages)
    OBVIOUS
  <2> QED
    BY <1>1, <2>1
<1>4. /\ screen' \in [Local -> [phase : {"registering", "waiting", "playing"},
                                taken : SUBSET Fields, turn : BOOLEAN]]
      /\ \A d \in Local \ {c} : screen'[d] = screen[d]
  <2>1. Unseen \in [phase : {"registering", "waiting", "playing"}, taken : SUBSET Fields, turn : BOOLEAN]
    BY DEF Unseen
  <2> QED
    BY <1>1, <2>1 DEF TypedClients
<1>5. TypedClients'
  BY <1>1, <1>2, <1>4, SomeClients DEF TypedClients
<1>6. Registering' = Registering
  BY <1>1 DEF Registering
<1>7. ASSUME NEW d \in Local PROVE Informed(Memory, Registering, d)'
  <2>1. CASE d # c
    <3>1. client'[d] = client[d] /\ inbox'[d] = inbox[d] /\ screen'[d] = screen[d]
      BY <1>2, <1>3, <1>4, <2>1, SomeClients
    <3> QED
      BY <1>1, <1>6, <3>1, RestInformed
  <2>2. CASE d = c
    BY <1>2, <2>2 DEF Informed
  <2> QED
    BY <2>1, <2>2
<1> QED
  BY <1>1, <1>3, <1>5, <1>7, QueuesOnly DEF IInv

(* What a message that is read has shown *)
ShownBy(old, m) ==
  CASE m.type = "WAIT_OPPONENT" -> [old EXCEPT !.phase = "waiting"]
    [] m.type = "GAME_STARTED" -> [old EXCEPT !.phase = "playing"]
    [] m.type = "GAME_STATE" -> [old EXCEPT !.taken = m.taken, !.turn = m.turn]
    [] OTHER -> old

LEMMA ShownFields ==
  ASSUME NEW old \in [phase : {"registering", "waiting", "playing"}, taken : SUBSET Fields, turn : BOOLEAN],
         NEW m \in Messages
  PROVE  LET new == ShownBy(old, m)
         IN  /\ new \in [phase : {"registering", "waiting", "playing"}, taken : SUBSET Fields, turn : BOOLEAN]
             /\ new.phase = (IF m.type = "WAIT_OPPONENT" THEN "waiting"
                             ELSE IF m.type = "GAME_STARTED" THEN "playing" ELSE old.phase)
             /\ BoardIn(new) = (IF m.type = "GAME_STATE" THEN BoardIn(m) ELSE BoardIn(old))
<1>1. m.taken \in SUBSET Fields /\ m.turn \in BOOLEAN
  BY DEF Messages
<1>2. CASE m.type = "WAIT_OPPONENT"
  BY <1>2 DEF ShownBy, BoardIn
<1>3. CASE m.type = "GAME_STARTED"
  BY <1>3 DEF ShownBy, BoardIn
<1>4. CASE m.type = "GAME_STATE"
  BY <1>1, <1>4 DEF ShownBy, BoardIn
<1>5. CASE m.type \notin {"WAIT_OPPONENT", "GAME_STARTED", "GAME_STATE"}
  BY <1>5 DEF ShownBy
<1> QED
  BY <1>2, <1>3, <1>4, <1>5

(* Reading a message does not change what will be shown in the end. *)
LEMMA ReadingShows ==
  ASSUME IInv, NEW c \in Local, inbox[c] # <<>>, inbox'[c] = Tail(inbox[c]),
         screen'[c] = ShownBy(screen[c], Head(inbox[c]))
  PROVE  PhasesShown(Memory, c)' = PhasesShown(Memory, c) /\ BoardsShown(Memory, c)' = BoardsShown(Memory, c)
<1> DEFINE q == inbox[c]
           m == Head(q)
           r == Tail(q)
           phases == {"WAIT_OPPONENT", "GAME_STARTED"}
           boards == {"GAME_STATE"}
           name(x) == IF x.type = "WAIT_OPPONENT" THEN "waiting" ELSE "playing"
<1>1. /\ q \in Seq(Messages) /\ screen[c] \in [phase : {"registering", "waiting", "playing"},
                                               taken : SUBSET Fields, turn : BOOLEAN]
  BY MemoryHas DEF IInv, Tables, TypedMemory, TypedClients
<1> HIDE DEF q
<1>2. /\ m \in Messages
      /\ \A types : Latest(q, types) = IF m.type \in types /\ Latest(r, types) = {} THEN {m} ELSE Latest(r, types)
  BY <1>1, LatestOfTail DEF q
<1> HIDE DEF phases, boards
<1>3. /\ Latest(q, phases) = IF m.type \in phases /\ Latest(r, phases) = {} THEN {m} ELSE Latest(r, phases)
      /\ Latest(q, boards) = IF m.type \in boards /\ Latest(r, boards) = {} THEN {m} ELSE Latest(r, boards)
  BY <1>2
<1> HIDE DEF m, r
<1>4. /\ screen'[c].phase = (IF m.type = "WAIT_OPPONENT" THEN "waiting"
                            ELSE IF m.type = "GAME_STARTED" THEN "playing" ELSE screen[c].phase)
      /\ BoardIn(screen'[c]) = (IF m.type = "GAME_STATE" THEN BoardIn(m) ELSE BoardIn(screen[c]))
  BY <1>1, <1>2, ShownFields DEF m, q
<1>5. Memory.inbox[c] = q /\ Memory'.inbox[c] = r
  BY DEF Memory, q, r
<1>6. /\ PhasesShown(Memory, c) = IF Latest(q, phases) = {} THEN {screen[c].phase}
                                  ELSE {name(x) : x \in Latest(q, phases)}
      /\ PhasesShown(Memory, c)' = IF Latest(r, phases) = {} THEN {screen'[c].phase}
                                   ELSE {name(x) : x \in Latest(r, phases)}
  BY <1>5 DEF PhasesShown, phases
<1>7. /\ BoardsShown(Memory, c) = {[taken |-> x.taken, turn |-> x.turn] :
                                     x \in IF Latest(q, boards) = {} THEN {screen[c]} ELSE Latest(q, boards)}
      /\ BoardsShown(Memory, c)' = {[taken |-> x.taken, turn |-> x.turn] :
                                      x \in IF Latest(r, boards) = {} THEN {screen'[c]} ELSE Latest(r, boards)}
  BY <1>5 DEF BoardsShown, boards
<1>8. PhasesShown(Memory, c)' = PhasesShown(Memory, c)
  <2>1. CASE Latest(r, phases) # {}
    BY <1>3, <1>6, <2>1
  <2>2. CASE Latest(r, phases) = {} /\ m.type \in phases
    <3>1. Latest(q, phases) = {m} /\ screen'[c].phase = name(m)
      BY <1>3, <1>4, <2>2 DEF phases
    <3>2. {name(x) : x \in {m}} = {name(m)}
      OBVIOUS
    <3> QED
      BY <1>6, <2>2, <3>1, <3>2
  <2>3. CASE Latest(r, phases) = {} /\ m.type \notin phases
    <3>1. Latest(q, phases) = {} /\ screen'[c].phase = screen[c].phase
      BY <1>3, <1>4, <2>3 DEF phases
    <3> QED
      BY <1>6, <2>3, <3>1
  <2> QED
    BY <2>1, <2>2, <2>3
<1>9. BoardsShown(Memory, c)' = BoardsShown(Memory, c)
  <2>0. \A y : {[taken |-> x.taken, turn |-> x.turn] : x \in {y}} = BoardIn(y)
    BY DEF BoardIn
  <2>1. CASE Latest(r, boards) # {}
    BY <1>3, <1>7, <2>1
  <2>2. CASE Latest(r, boards) = {} /\ m.type \in boards
    <3>1. Latest(q, boards) = {m} /\ BoardIn(screen'[c]) = BoardIn(m)
      BY <1>3, <1>4, <2>2 DEF boards
    <3> QED
      BY <1>7, <2>0, <2>2, <3>1
  <2>3. CASE Latest(r, boards) = {} /\ m.type \notin boards
    <3>1. Latest(q, boards) = {} /\ BoardIn(screen'[c]) = BoardIn(screen[c])
      BY <1>3, <1>4, <2>3 DEF boards
    <3> QED
      BY <1>7, <2>0, <2>3, <3>1
  <2> QED
    BY <2>1, <2>2, <2>3
<1> QED
  BY <1>8, <1>9

(* A client reads a message that does not end it, and may answer it. *)
LEMMA ReadingKeeps ==
  ASSUME IInv, NEW c \in Local, client[c] = "on", inbox[c] # <<>>, Head(inbox[c]).type \notin Ending,
         UNCHANGED <<serverVars, client>>, inbox' = [inbox EXCEPT ![c] = Tail(@)],
         screen' = [screen EXCEPT ![c] = ShownBy(screen[c], Head(inbox[c]))],
         requests' = requests \/ requests' = Append(requests, Request(c, "PING"))
  PROVE  IInv'
<1> DEFINE q == inbox[c]
           m == Head(q)
<1>1. /\ TypedClients /\ inbox \in [Local -> Seq(Messages)] /\ q \in Seq(Messages) /\ q # <<>>
      /\ Informed(Memory, Registering, c)
  BY MemoryHas DEF IInv, Tables, TypedMemory
<1>2. /\ Tail(q) \in Seq(Messages) /\ m \in Messages /\ m = q[1]
      /\ \A i \in DOMAIN q : i # 1 => i - 1 \in DOMAIN Tail(q) /\ Tail(q)[i - 1] = q[i]
  <2> HIDE DEF q
  <2>1. Len(q) \in Nat /\ DOMAIN q = 1 .. Len(q) /\ Len(q) # 0
    BY <1>1, EmptySeq
  <2>2. /\ Tail(q) \in Seq(Messages) /\ Len(Tail(q)) = Len(q) - 1
        /\ \A i \in 1 .. Len(Tail(q)) : Tail(q)[i] = q[i + 1]
    BY <1>1, HeadTailProperties
  <2>3. DOMAIN Tail(q) = 1 .. Len(Tail(q))
    BY <2>2
  <2> QED
    BY <1>1, <2>1, <2>2, <2>3, HeadTailProperties
<1>3. /\ inbox' \in [Local -> Seq(Messages)] /\ inbox'[c] = Tail(q)
      /\ \A d \in Local \ {c} : inbox'[d] = inbox[d]
  BY <1>1, <1>2
<1>4. /\ screen' \in [Local -> [phase : {"registering", "waiting", "playing"},
                                taken : SUBSET Fields, turn : BOOLEAN]]
      /\ screen'[c] = ShownBy(screen[c], m) /\ \A d \in Local \ {c} : screen'[d] = screen[d]
  <2>1. ShownBy(screen[c], m) \in [phase : {"registering", "waiting", "playing"},
                                   taken : SUBSET Fields, turn : BOOLEAN]
    BY <1>1, <1>2, ShownFields DEF TypedClients
  <2> HIDE DEF m
  <2> QED
    BY <1>1, <2>1 DEF TypedClients, m
<1>5. /\ requests' \in Seq(Requests) /\ Registering \subseteq Registering'
      /\ \A i \in DOMAIN requests' :
           requests'[i].from = c \/ \E j \in DOMAIN requests : requests'[i] = requests[j]
  <2>1. CASE requests' = requests
    BY <1>1, <2>1 DEF TypedClients, Registering
  <2>2. CASE requests' = Append(requests, Request(c, "PING"))
    BY <2>2, RequestAdded, RequestTyped
  <2> QED
    BY <2>1, <2>2
<1>6. TypedClients'
  BY <1>1, <1>4, <1>5 DEF TypedClients
<1>7. ASSUME NEW d \in Local \ {c} PROVE Informed(Memory, Registering, d)'
  BY <1>3, <1>4, <1>5, RestInformed
<1>8. Informed(Memory, Registering, c)'
  <2>1. WillEnd(Memory, c) \/ Memory.state = "crashed" \/ \E s \in Slots : WillBelieve(Memory, c, s)
    BY <1>1, MemoryHas DEF Informed, Unknown
  <2>2. /\ Memory'.conns = Memory.conns /\ Memory'.games = Memory.games
        /\ Memory'.playing = Memory.playing /\ Memory'.state = Memory.state
        /\ Memory'.inbox[c] = Tail(q) /\ Memory.inbox[c] = q
    BY <1>3 DEF Memory, serverVars
  <2>3. ASSUME WillEnd(Memory, c) PROVE WillEnd(Memory, c)'
    <3>1. PICK i \in DOMAIN q : q[i].type \in Ending
      BY <2>2, <2>3 DEF WillEnd
    <3>2. i # 1
      BY <1>2, <3>1
    <3>3. i - 1 \in DOMAIN Tail(q) /\ Tail(q)[i - 1].type \in Ending
      BY <1>2, <3>1, <3>2
    <3> QED
      BY <2>2, <3>3 DEF WillEnd
  <2>4. PhasesShown(Memory, c)' = PhasesShown(Memory, c) /\ BoardsShown(Memory, c)' = BoardsShown(Memory, c)
    BY <1>1, <1>3, <1>4, ReadingShows
  <2>5. \A s \in Slots : WillBelieve(Memory, c, s) => WillBelieve(Memory, c, s)'
    BY <2>2, <2>4 DEF WillBelieve
  <2> QED
    BY <2>1, <2>2, <2>3, <2>5 DEF Informed
<1> QED
  BY <1>3, <1>6, <1>7, <1>8, QueuesOnly DEF IInv

LEMMA ResponseKeeps == ASSUME IInv, NEW c \in Local, HandleResponseEvent(c) PROVE IInv'
<1> DEFINE m == Head(inbox[c])
           Shows(new) == /\ screen' = [screen EXCEPT ![c] = new] /\ UNCHANGED client
                         /\ inbox' = [inbox EXCEPT ![c] = Tail(@)]
<1>1. /\ client[c] = "on" /\ inbox[c] # <<>> /\ UNCHANGED serverVars
      /\ requests' = IF m.type = "PING" /\ state = "up" THEN Append(requests, Request(c, "PING"))
                     ELSE requests
  BY DEF HandleResponseEvent
<1>2. \/ m.type \in Ending /\ Gone(c)
      \/ m.type = "WAIT_OPPONENT" /\ Shows([screen[c] EXCEPT !.phase = "waiting"])
      \/ m.type = "GAME_STARTED" /\ Shows([screen[c] EXCEPT !.phase = "playing"])
      \/ m.type = "GAME_STATE" /\ Shows([screen[c] EXCEPT !.taken = m.taken, !.turn = m.turn])
      \/ m.type = "PING" /\ IF state = "up" THEN Shows(screen[c]) ELSE Gone(c)
  BY DEF HandleResponseEvent
<1> HIDE DEF m
<1>3. CASE Gone(c) /\ (m.type \in Ending \/ state # "up")
  <2>1. requests' = requests
    BY <1>1, <1>3, EndingTypes
  <2> QED
    BY <1>1, <1>3, <2>1, GoneKeeps
<1>4. CASE m.type \notin Ending /\ Shows(ShownBy(screen[c], m))
  BY <1>1, <1>4, ReadingKeeps DEF m
<1>5. CASE m.type \in {"WAIT_OPPONENT", "GAME_STARTED", "GAME_STATE", "PING"} /\ ~Gone(c)
  <2>1. m.type \notin Ending
    BY <1>5, EndingTypes
  <2>2. Shows(ShownBy(screen[c], m))
    BY <1>2, <1>5, <2>1 DEF ShownBy
  <2> HIDE DEF Shows
  <2> QED
    BY <1>4, <2>1, <2>2
<1>6. CASE m.type \in {"WAIT_OPPONENT", "GAME_STARTED", "GAME_STATE"}
  <2>1. m.type \notin Ending
    BY <1>6, EndingTypes
  <2>2. Shows(ShownBy(screen[c], m))
    BY <1>2, <1>6, <2>1 DEF ShownBy
  <2> HIDE DEF Shows
  <2> QED
    BY <1>4, <2>1, <2>2
<1>7. CASE m.type = "PING" /\ state = "up"
  <2>1. m.type \notin Ending
    BY <1>7, EndingTypes
  <2>2. Shows(ShownBy(screen[c], m))
    BY <1>2, <1>7, <2>1 DEF ShownBy
  <2> HIDE DEF Shows
  <2> QED
    BY <1>4, <2>1, <2>2
<1>8. CASE m.type = "PING" /\ state # "up"
  <2>1. m.type \notin Ending
    BY <1>8, EndingTypes
  <2>2. Gone(c)
    BY <1>2, <1>8, <2>1
  <2> QED
    BY <1>3, <1>8, <2>2
<1> QED
  BY <1>2, <1>3, <1>6, <1>7, <1>8

LEMMA StutterKeeps == ASSUME IInv, UNCHANGED vars PROVE IInv'
<1>1. /\ UNCHANGED serverVars /\ requests' = requests /\ inbox' = inbox /\ client' = client
      /\ screen' = screen /\ inbox \in [Local -> Seq(Messages)]
  BY MemoryHas DEF vars, serverVars, IInv, Tables, TypedMemory
<1>2. TypedClients' /\ Registering' = Registering
  BY <1>1 DEF IInv, TypedClients, Registering
<1>3. \A d \in Local : Informed(Memory, Registering, d)'
  BY <1>1, <1>2, RestInformed
<1> QED
  BY <1>1, <1>2, <1>3, QueuesOnly DEF IInv

-------------------------------------------------------------------------------
(* Every step keeps the invariant. *)

LEMMA InitSound == ASSUME Init PROVE IInv
<1>1. /\ Memory.conns = [s \in Slots |-> Empty] /\ Memory.games = [s \in Slots |-> NoGame]
      /\ Memory.playing = [s \in Slots |-> None] /\ Memory.waiting = None /\ Memory.count = 0
      /\ Memory.state = "up" /\ Memory.inbox = [c \in Local |-> <<>>]
  BY MemoryHas DEF Init
<1>2. TypedMemory(Memory)
  BY <1>1, EmptyFields DEF TypedMemory
<1>3. OneClientEach(Memory) /\ OwnNames(Memory) /\ Pairs(Memory) /\ WaitsAlone(Memory)
  BY <1>1, EmptyFields DEF OneClientEach, OwnNames, Pairs, PairOf, WaitsAlone
<1>4. UsedIn(Memory) = {}
  BY <1>1, EmptyFields DEF UsedIn
<1>5. Tables(Memory)
  BY <1>1, <1>2, <1>3, <1>4, FS_EmptySet DEF Tables
<1>6. TypedClients
  BY DEF Init, TypedClients, Unseen
<1>7. ASSUME NEW c \in Local PROVE Informed(Memory, Registering, c)
  <2>1. client[c] = "off" /\ screen[c].phase = "registering"
    BY SomeClients DEF Init, Unseen
  <2>2. Unknown(Memory, c)
    BY <1>1, <2>1, EmptyFields DEF Unknown
  <2> QED
    BY <2>1, <2>2 DEF Informed
<1> QED
  BY <1>5, <1>6, <1>7 DEF IInv

LEMMA NextKeeps == ASSUME IInv, [Next]_vars PROVE IInv'
<1>1. CASE HandleLocalEvent \/ PingHandler \/ SigintHandler
  BY <1>1, LocalEventKeeps, PingKeepsAll, SigintKeeps
<1>2. ASSUME NEW c \in Clients \ Local, HandleNetworkEvent(c) PROVE IInv'
  BY <1>2, NetworkEventKeeps
<1>3. ASSUME NEW c \in Clients, ConnectToServer(c) PROVE IInv'
  BY <1>3, ConnectKeeps
<1>4. ASSUME NEW c \in Local, Interrupted(c) \/ HandleResponseEvent(c) PROVE IInv'
  BY <1>4, InterruptedKeeps, ResponseKeeps
<1>5. ASSUME NEW c \in Local, ClientEnds(c) PROVE IInv'
  BY <1>5, GoneKeeps DEF ClientEnds
<1>6. ASSUME NEW c \in Local, NEW f \in Fields, HandleStdinEvent(c, f) PROVE IInv'
  BY <1>6, StdinKeeps
<1>7. CASE UNCHANGED vars
  BY <1>7, StutterKeeps
<1> QED
  BY <1>1, <1>2, <1>3, <1>4, <1>5, <1>6, <1>7 DEF Next

LEMMA Invariance == Spec => []IInv
BY InitSound, NextKeeps, PTL DEF Spec

-------------------------------------------------------------------------------
(* However often and however late registrations arrive, every connection is *)
(* that of one client, under one nickname, and all are counted.              *)
THEOREM ConnectionsAreOwn == Spec => []EachClientHasItsConnection
<1>1. ASSUME IInv PROVE EachClientHasItsConnection
  <2>1. /\ TypedMemory(Memory) /\ OneClientEach(Memory) /\ OwnNames(Memory)
        /\ Memory.count = Cardinality(UsedIn(Memory))
    BY <1>1 DEF IInv, Tables
  <2>2. \A s \in Slots : conns[s].addr # {} <=> s \in Used
    BY <2>1, MemoryHas DEF Used, OneClientEach
  <2>3. \A s, t \in Slots : s # t /\ conns[s].addr # {} => conns[s].addr # conns[t].addr
    BY <2>1, MemoryHas, AddressesDiffer
  <2>4. \A s, t \in Used : s # t => conns[s].nickname # conns[t].nickname
    BY <2>1, MemoryHas DEF Used, OwnNames
  <2>5. UsedIn(Memory) = Used
    BY <2>2, MemoryHas DEF UsedIn, Used
  <2> QED
    BY <2>1, <2>2, <2>3, <2>4, <2>5, MemoryHas DEF EachClientHasItsConnection
<1> QED
  BY <1>1, Invariance, PTL

(* Two opponents have each other and a game of their own; who waits is free. *)
THEOREM GamesAreShared == Spec => []OpponentsShareTheirGame
<1>1. ASSUME IInv PROVE OpponentsShareTheirGame
  <2>1. /\ TypedMemory(Memory) /\ OneClientEach(Memory) /\ WaitsAlone(Memory)
        /\ \A t \in Slots : PairOf(Memory, t) /\ t # None
    BY <1>1, SlotsAreFinite DEF IInv, Tables, Pairs
  <2>2. \A t \in Slots :
          /\ conns[t].addr # {} => t \in Used
          /\ conns[t].opponent \in Slots \union {None} /\ playing[t] \in Slots \union {None}
          /\ conns[t].opponent = None => playing[t] = None
          /\ conns[t].opponent # None =>
               /\ conns[t].opponent # t /\ conns[conns[t].opponent].opponent = t /\ conns[t].addr # {}
               /\ playing[t] \in {t, conns[t].opponent} /\ playing[conns[t].opponent] = playing[t]
               /\ games[playing[t]].turn \in {t, conns[t].opponent}
    BY <2>1, MemoryHas DEF PairOf, Used, OneClientEach, TypedMemory
  <2>3. waiting # None => waiting \in Used /\ conns[waiting].opponent = None
    BY <2>1, <2>2, MemoryHas DEF WaitsAlone, TypedMemory
  <2>4. ASSUME NEW s \in Slots, conns[s].opponent # None
        PROVE  LET o == conns[s].opponent
               IN  /\ o # s /\ conns[o].opponent = s /\ {s, o} \subseteq Used
                   /\ playing[s] = playing[o] /\ games[playing[s]].turn \in {s, o}
                   /\ \A t \in Slots \ {s, o} : playing[t] # playing[s]
    <3> DEFINE o == conns[s].opponent
    <3>1. o \in Slots /\ o # s /\ conns[o].opponent = s /\ o # None /\ s # None
      BY <2>1, <2>2, <2>4
    <3>2. {s, o} \subseteq Used
      BY <2>2, <2>4, <3>1
    <3>3. playing[s] \in {s, o}
      BY <2>2, <2>4
    <3>4. ASSUME NEW t \in Slots \ {s, o} PROVE playing[t] # playing[s]
      <4>1. conns[t].opponent \notin {s, o}
        BY <2>2, <3>1
      <4>2. playing[t] = None \/ playing[t] \in {t, conns[t].opponent}
        BY <2>2
      <4> QED
        BY <3>1, <3>3, <4>1, <4>2
    <3> QED
      BY <2>2, <2>4, <3>1, <3>2, <3>4
  <2> QED
    BY <2>2, <2>3, <2>4 DEF OpponentsShareTheirGame
<1> QED
  BY <1>1, Invariance, PTL

(* A local client that has read all it was sent shows what the server       *)
(* believes, or its registration is still to be handled: every handler has  *)
(* told every client of what it has changed.                                *)
THEOREM ClientsShowTheTruth == Spec => []LocalClientsShowTheTruth
<1>1. ASSUME IInv PROVE LocalClientsShowTheTruth
  <2> SUFFICES ASSUME NEW c \in Local, client[c] = "on", inbox[c] = <<>>
               PROVE  CASE screen[c].phase = "registering" ->
                             state = "up" => \E i \in DOMAIN requests : requests[i] = Request(c, "REGISTER")
                        [] OTHER -> state = "crashed" \/ \E s \in Slots : Believes(c, s)
    BY DEF LocalClientsShowTheTruth
  <2>1. Informed(Memory, Registering, c) /\ Memory.inbox[c] = <<>>
    BY <1>1, MemoryHas DEF IInv
  <2>2. ~WillEnd(Memory, c)
    BY <2>1 DEF WillEnd
  <2>3. CASE Unknown(Memory, c) /\ (state = "up" => c \in Registering)
    BY <2>3 DEF Unknown, Registering
  <2>4. CASE state = "crashed"
    BY <2>4
  <2>5. ASSUME NEW s \in Slots, WillBelieve(Memory, c, s)
        PROVE  Believes(c, s) /\ screen[c].phase # "registering"
    <3>1. /\ PhasesShown(Memory, c) = {screen[c].phase}
          /\ BoardsShown(Memory, c) = {[taken |-> screen[c].taken, turn |-> screen[c].turn]}
      BY <2>1, LatestOfNone DEF PhasesShown, BoardsShown
    <3>2. screen[c].phase = (IF conns[s].opponent = None THEN "waiting" ELSE "playing")
      BY <2>5, <3>1, MemoryHas DEF WillBelieve
    <3>3. ASSUME conns[s].opponent # None
          PROVE  screen[c].taken = games[playing[s]].taken /\ screen[c].turn = (games[playing[s]].turn = s)
      <4>1. {[taken |-> screen[c].taken, turn |-> screen[c].turn]}
              = {[taken |-> games[playing[s]].taken, turn |-> games[playing[s]].turn = s]}
        BY <2>5, <3>1, <3>3, MemoryHas DEF WillBelieve
      <4>2. [taken |-> screen[c].taken, turn |-> screen[c].turn]
              = [taken |-> games[playing[s]].taken, turn |-> games[playing[s]].turn = s]
        BY <4>1
      <4> QED
        BY <4>2
    <3> QED
      BY <2>5, <3>2, <3>3, MemoryHas DEF Believes, WillBelieve
  <2> QED
    BY <2>1, <2>2, <2>3, <2>4, <2>5, MemoryHas DEF Informed
<1> QED
  BY <1>1, Invariance, PTL

===============================================================================
