--------------------------- MODULE TicTacToe_proofs ---------------------------
(***************************************************************************)
(* Proofs about TicTacToe for any number of clients and slots and any       *)
(* nicknames.                                                               *)
(*                                                                         *)
(* Each handler is a function of the server's memory, so its lemma is about *)
(* memories: from sound tables it leaves sound tables, whatever fails on    *)
(* the way.  A step then only has to become what its handler returns.       *)
(***************************************************************************)
EXTENDS TicTacToe, CommonLemmas

MemoryFields == {"conns", "games", "waiting", "count", "state", "unanswered", "link", "pings",
                 "stream", "edge", "ptr", "shifted", "client", "ok"}

Sound(M) == DOMAIN M = MemoryFields /\ Tables(M)

(* What N has in common with M when only something was written to a socket. *)
Same(M, N) ==
  /\ DOMAIN N = MemoryFields /\ N.state = M.state
  /\ N.conns = M.conns /\ N.games = M.games /\ N.waiting = M.waiting /\ N.count = M.count

(* Some clients were told something, or the attempt ended the server. *)
Told(M, N) == Same(M, N) \/ (Sound(N) /\ N.state \notin {"up", "exiting"} /\ ~N.ok)

-----------------------------------------------------------------------------
(* There are finitely many slots, and no slot is None. *)
LEMMA SlotsAreFinite ==
  /\ Slots \subseteq Nat /\ None \notin Slots /\ None = 0
  /\ \A S \in SUBSET Slots : IsFiniteSet(S) /\ Cardinality(S) \in Nat
<1>1. IsFiniteSet(Slots)
  BY Numbers, FS_Interval DEF Slots
<1>2. \A S \in SUBSET Slots : IsFiniteSet(S) /\ Cardinality(S) \in Nat
  BY <1>1, FS_Subset, FS_CardinalityType
<1> QED
  BY <1>2, Numbers DEF Slots, None

LEMMA EmptyFields ==
  /\ DOMAIN Empty = {"status", "fd", "nickname", "opponent", "game"}
  /\ Empty.status = "EMPTY" /\ Empty.fd = {} /\ Empty.nickname = {}
  /\ Empty.opponent = None /\ Empty.game = None
BY DEF Empty

(* The tables of a server that has ended are empty. *)
LEMMA EndsSound ==
  ASSUME NEW M, DOMAIN M = MemoryFields, NEW how
  PROVE  /\ Sound(Ends(M, how)) /\ Ends(M, how).state = how /\ ~Ends(M, how).ok
<1> DEFINE N == Ends(M, how)
<1>1. /\ DOMAIN N = MemoryFields /\ N.state = how /\ ~N.ok
      /\ N.waiting = None /\ N.count = 0
      /\ N.conns = [s \in Slots |-> Empty] /\ N.games = [s \in Slots |-> None]
  BY DEF Ends, Leaves, MemoryFields
<1> HIDE DEF N
<1>2. SlotsAgree(N) /\ Pairs(N) /\ WaitsAlone(N) /\ OwnNames(N)
  BY <1>1, EmptyFields DEF SlotsAgree, Pairs, WaitsAlone, OwnNames
<1>3. Used(N) = {}
  BY <1>1, EmptyFields DEF Used
<1>4. Tables(N)
  BY <1>1, <1>2, <1>3, FS_EmptySet DEF Tables
<1> QED
  BY <1>1, <1>4 DEF Sound, N

LEMMA SameIsSound == ASSUME NEW M, NEW N, Sound(M), Same(M, N) PROVE Sound(N)
BY DEF Sound, Same, Tables, SlotsAgree, Pairs, WaitsAlone, OwnNames, Used

LEMMA SameIsTransitive ==
  ASSUME NEW L, NEW M, NEW N, Same(L, M), Told(M, N)
  PROVE  Told(L, N)
BY DEF Same, Told

(* A write leaves the tables alone, unless it ends the server. *)
LEMMA WriteTells ==
  ASSUME NEW M, DOMAIN M = MemoryFields, NEW c, NEW m, NEW fate
  PROVE  LET N == Write(M, c, m, fate)
         IN  Told(M, N) /\ (N.ok => Same(M, N))
<1> DEFINE N == Write(M, c, m, fate)
<1>1. CASE M.state # "up"
  BY <1>1 DEF Write, Same, Told
<1>2. CASE M.state = "up" /\ client[c] \in {"on", "leaving"}
  <2>1. N = [Deliver(M, c, m) EXCEPT !.ok = TRUE]
    BY <1>2 DEF Write
  <2>2. Same(M, N)
    BY <2>1 DEF Deliver, Same, MemoryFields
  <2> QED
    BY <2>2 DEF Told
<1>3. CASE M.state = "up" /\ client[c] \notin {"on", "leaving"} /\ (c \in Local \/ fate = "killed")
  <2>1. N = Ends(M, "killed")
    BY <1>3 DEF Write
  <2> QED
    BY <2>1, EndsSound DEF Told
<1>4. CASE M.state = "up" /\ client[c] \notin {"on", "leaving"} /\ ~(c \in Local \/ fate = "killed")
  <2>1. N = [M EXCEPT !.ok = fate = "ok", !.edge = IF fate = "ok" THEN @ \union {c} ELSE @]
    BY <1>4 DEF Write
  <2>2. Same(M, N)
    BY <2>1 DEF Same, MemoryFields
  <2> QED
    BY <2>2 DEF Told
<1> QED
  BY <1>1, <1>2, <1>3, <1>4

(* It succeeds only on a slot with a socket.                                *)
LEMMA SendTells ==
  ASSUME NEW M, DOMAIN M = MemoryFields, NEW s, NEW m, NEW fate
  PROVE  LET N == Send(M, s, m, fate)
         IN  Told(M, N) /\ (N.ok => Same(M, N) /\ M.conns[s].fd # {})
<1>1. CASE M.conns[s].fd = {}
  BY <1>1 DEF Send, Fails, Same, Told, MemoryFields
<1>2. CASE M.conns[s].fd # {}
  BY <1>2, WriteTells DEF Send
<1> QED
  BY <1>1, <1>2

LEMMA GameStateTells ==
  ASSUME NEW M, DOMAIN M = MemoryFields, NEW s, NEW o, NEW fate
  PROVE  LET N == SendGameState(M, s, o, fate) IN Told(M, N) /\ (N.ok => Same(M, N))
<1> DEFINE first == Send(M, s, "GAME_STATE", fate)
<1>1. Told(M, first) /\ (first.ok => Same(M, first))
  BY SendTells
<1>2. first.ok => LET N == Send(first, o, "GAME_STATE", fate)
                  IN  Told(first, N) /\ (N.ok => Same(first, N))
  BY <1>1, SendTells DEF Same
<1> HIDE DEF first
<1> QED
  BY <1>1, <1>2, SameIsTransitive DEF SendGameState, first, Same

LEMMA GameResultTells ==
  ASSUME NEW M, DOMAIN M = MemoryFields, NEW s, NEW o, NEW result, NEW fate
  PROVE  Told(M, SendGameResult(M, s, o, result, fate))
<1> DEFINE first == Send(M, s, result, fate)
<1>1. Told(M, first) /\ (first.ok => Same(M, first))
  BY SendTells
<1>2. first.ok => Told(first, Send(first, o, Opposite(result), fate))
  BY <1>1, SendTells DEF Same
<1> HIDE DEF first
<1> QED
  BY <1>1, <1>2, SameIsTransitive DEF SendGameResult, first

-----------------------------------------------------------------------------
(* remove_connection.                                                       *)

(* Emptying a slot whose client has no opponent leaves one used slot less.  *)
LEMMA SlotEmptied ==
  ASSUME NEW M, Sound(M), NEW s \in Slots, M.conns[s].opponent = None, M.conns[s].fd # {},
         NEW N, DOMAIN N = MemoryFields,
         N.conns = [M.conns EXCEPT ![s] = Empty], N.games = M.games,
         N.waiting = (IF M.waiting = s THEN None ELSE M.waiting), N.count = M.count - 1
  PROVE  /\ Sound(N) /\ s \in Used(M) /\ Used(N) = Used(M) \ {s}
         /\ Cardinality(Used(M)) = Cardinality(Used(N)) + 1
<1> USE DEF Sound, Tables
<1>1. /\ DOMAIN N.conns = Slots /\ N.conns[s] = Empty
      /\ \A t \in Slots \ {s} : N.conns[t] = M.conns[t]
  OBVIOUS
<1>2. SlotsAgree(N)
  BY <1>1, EmptyFields DEF SlotsAgree
<1>3. Pairs(N)
  <2> SUFFICES ASSUME NEW t \in Slots, N.conns[t].opponent # None
               PROVE  LET o == N.conns[t].opponent
                          g == N.conns[t].game
                      IN  /\ o \in Slots \ {t} /\ N.conns[o].opponent = t /\ N.conns[t].nickname # {}
                          /\ g \in {t, o} /\ N.conns[o].game = g /\ N.games[g] \in {t, o}
    BY DEF Pairs
  <2>1. t # s /\ N.conns[t] = M.conns[t]
    BY <1>1, EmptyFields
  <2>2. M.conns[t].opponent # s
    BY <2>1, SlotsAreFinite DEF Pairs
  <2> QED
    BY <1>1, <2>1, <2>2 DEF Pairs
<1>4. WaitsAlone(N)
  BY <1>1 DEF WaitsAlone
<1>5. OwnNames(N)
  BY <1>1, EmptyFields DEF OwnNames
<1>6. s \in Used(M) /\ Used(N) = Used(M) \ {s}
  BY <1>1, EmptyFields DEF SlotsAgree, Used
<1>7. IsFiniteSet(Used(M)) /\ Cardinality(Used(M)) \in Nat
  BY SlotsAreFinite DEF Used
<1>8. Cardinality(Used(N)) = Cardinality(Used(M)) - 1
  BY <1>6, <1>7, FS_RemoveElement, ZenonT(60)
<1> QED
  BY <1>1, <1>2, <1>3, <1>4, <1>5, <1>6, <1>7, <1>8

LEMMA RemoveAloneKeeps ==
  ASSUME NEW M, Sound(M), NEW s \in Slots, M.conns[s].opponent = None, NEW fate
  PROVE  LET N == RemoveAlone(M, s, fate)
         IN  /\ Sound(N)
             /\ ~N.ok => Told(M, N)
             /\ N.ok => /\ N.state = M.state /\ N.count = M.count - 1
                        /\ Cardinality(Used(M)) = Cardinality(Used(N)) + 1
                        /\ N.conns[s] = Empty
<1> DEFINE sent == Send(M, s, "DISCONNECT", fate)
           N == RemoveAlone(M, s, fate)
<1>1. Told(M, sent) /\ (sent.ok => Same(M, sent) /\ M.conns[s].fd # {})
  BY SendTells DEF Sound
<1>2. CASE ~sent.ok
  BY <1>1, <1>2, SameIsSound DEF RemoveAlone, Told
<1>3. CASE sent.ok
  <2> DEFINE c == CHOOSE c \in M.conns[s].fd : TRUE
             L == [sent EXCEPT !.waiting = IF @ = s THEN None ELSE @, !.conns[s] = Empty]
  <2>1. N = [CloseSocket(L, c) EXCEPT !.count = @ - 1]
    BY <1>3 DEF RemoveAlone, Close
  <2>2. /\ DOMAIN sent = MemoryFields /\ sent.conns = M.conns /\ sent.games = M.games
        /\ sent.waiting = M.waiting /\ sent.count = M.count /\ sent.ok /\ sent.state = M.state
    BY <1>1, <1>3 DEF Same
  <2> HIDE DEF sent, c
  <2>3. /\ DOMAIN L = MemoryFields /\ L.conns = [M.conns EXCEPT ![s] = Empty]
        /\ L.games = M.games /\ L.waiting = (IF M.waiting = s THEN None ELSE M.waiting)
        /\ L.count = M.count /\ L.ok /\ L.state = M.state
    BY <2>2 DEF MemoryFields
  <2> HIDE DEF L
  <2>4. /\ DOMAIN N = MemoryFields /\ N.conns = L.conns /\ N.games = L.games
        /\ N.waiting = L.waiting /\ N.count = L.count - 1 /\ N.ok /\ N.state = L.state
    BY <2>1, <2>3 DEF CloseSocket, MemoryFields
  <2> HIDE DEF N
  <2>5. M.conns[s].fd # {}
    BY <1>1, <1>3
  <2>6. Sound(N) /\ Cardinality(Used(M)) = Cardinality(Used(N)) + 1
    BY <2>3, <2>4, <2>5, SlotEmptied
  <2>7. N.conns[s] = Empty
    BY <2>3, <2>4 DEF Sound, Tables
  <2> QED
    BY <2>3, <2>4, <2>6, <2>7 DEF N
<1> QED
  BY <1>2, <1>3

(* A pair is taken apart before either of its slots is emptied. *)
LEMMA PairFreed ==
  ASSUME NEW M, Sound(M), NEW s \in Slots, NEW o \in Slots \ {s}, M.conns[s].opponent = o,
         NEW N, DOMAIN N = MemoryFields, DOMAIN N.conns = Slots, DOMAIN N.games = Slots,
         N.conns[s] = Empty, N.conns[o] = [M.conns[o] EXCEPT !.opponent = None],
         \A t \in Slots \ {s, o} : N.conns[t] = M.conns[t],
         \A g \in Slots \ {M.conns[s].game} : N.games[g] = M.games[g],
         N.waiting = (IF M.waiting = s THEN None ELSE M.waiting), N.count = M.count
  PROVE  /\ Sound(N) /\ N.conns[o].opponent = None
         /\ Cardinality(Used(M)) = Cardinality(Used(N)) + 1
<1>1. /\ SlotsAgree(M) /\ Pairs(M) /\ WaitsAlone(M) /\ OwnNames(M)
      /\ M.count \in Int /\ M.count >= Cardinality(Used(M))
  BY DEF Sound, Tables
<1>2. /\ M.conns[o].opponent = s /\ M.conns[s].nickname # {} /\ s # None /\ o # None
      /\ M.conns[s].game \in {s, o} /\ M.conns[o].game = M.conns[s].game
  BY <1>1, SlotsAreFinite DEF Pairs
<1>3. \A t \in Slots \ {s} :
        /\ DOMAIN N.conns[t] = DOMAIN Empty
        /\ N.conns[t].status = M.conns[t].status /\ N.conns[t].fd = M.conns[t].fd
        /\ N.conns[t].nickname = M.conns[t].nickname
        /\ t # o => N.conns[t].opponent = M.conns[t].opponent /\ N.conns[t].game = M.conns[t].game
        /\ t = o => N.conns[t].opponent = None
  <2> SUFFICES ASSUME NEW t \in Slots \ {s}
               PROVE  /\ DOMAIN N.conns[t] = DOMAIN Empty
                      /\ N.conns[t].status = M.conns[t].status /\ N.conns[t].fd = M.conns[t].fd
                      /\ N.conns[t].nickname = M.conns[t].nickname
                      /\ t # o => N.conns[t].opponent = M.conns[t].opponent /\ N.conns[t].game = M.conns[t].game
                      /\ t = o => N.conns[t].opponent = None
    OBVIOUS
  <2>1. DOMAIN M.conns[t] = {"status", "fd", "nickname", "opponent", "game"}
    BY <1>1, EmptyFields DEF SlotsAgree
  <2>2. CASE t = o
    BY <2>1, <2>2, EmptyFields
  <2>3. CASE t # o
    BY <2>1, <2>3, EmptyFields
  <2> QED
    BY <2>2, <2>3
<1>4. SlotsAgree(N)
  BY <1>1, <1>3, EmptyFields DEF SlotsAgree
<1>5. Pairs(N)
  <2> SUFFICES ASSUME NEW t \in Slots, N.conns[t].opponent # None
               PROVE  LET p == N.conns[t].opponent
                          g == N.conns[t].game
                      IN  /\ p \in Slots \ {t} /\ N.conns[p].opponent = t /\ N.conns[t].nickname # {}
                          /\ g \in {t, p} /\ N.conns[p].game = g /\ N.games[g] \in {t, p}
    BY DEF Pairs
  <2>1. t \in Slots \ {s, o}
    BY <1>3, EmptyFields
  <2> DEFINE p == M.conns[t].opponent
             g == M.conns[t].game
  <2>2. /\ N.conns[t] = M.conns[t] /\ p # None
        /\ p \in Slots \ {t} /\ M.conns[p].opponent = t /\ M.conns[t].nickname # {}
        /\ g \in {t, p} /\ M.conns[p].game = g /\ M.games[g] \in {t, p}
    BY <1>1, <2>1 DEF Pairs
  <2>3. p \in Slots \ {s, o}
    BY <1>2, <2>1, <2>2
  <2>4. g \in Slots \ {s, o} /\ N.conns[p] = M.conns[p]
    BY <2>1, <2>2, <2>3
  <2>5. N.games[g] = M.games[g]
    BY <1>2, <2>4
  <2> QED
    BY <2>2, <2>3, <2>4, <2>5
<1>6. WaitsAlone(N)
  <2>1. N.waiting # None => N.waiting \in Slots \ {s, o} /\ M.waiting = N.waiting
    BY <1>1, <1>2 DEF WaitsAlone
  <2> QED
    BY <1>1, <1>3, <2>1 DEF WaitsAlone
<1>7. OwnNames(N)
  BY <1>1, <1>3, EmptyFields DEF OwnNames
<1>8. s \in Used(M) /\ Used(N) = Used(M) \ {s}
  BY <1>1, <1>2, <1>3, EmptyFields DEF SlotsAgree, Used
<1>9. IsFiniteSet(Used(M)) /\ Cardinality(Used(M)) \in Nat
  BY SlotsAreFinite DEF Used
<1>10. Cardinality(Used(N)) = Cardinality(Used(M)) - 1
  BY <1>8, <1>9, FS_RemoveElement
<1>11. N.count \in Int /\ N.count >= Cardinality(Used(N)) /\ Cardinality(Used(M)) = Cardinality(Used(N)) + 1
  BY <1>1, <1>9, <1>10
<1> QED
  BY <1>3, <1>4, <1>5, <1>6, <1>7, <1>11 DEF Sound, Tables

LEMMA RemoveKeeps ==
  ASSUME NEW M, Sound(M), NEW s \in Slots, NEW fate
  PROVE  Sound(RemoveConnection(M, s, fate))
<1> DEFINE o == M.conns[s].opponent
           sent == Send(M, s, "DISCONNECT", fate)
           freed == [sent EXCEPT !.waiting = IF @ = s THEN None ELSE @,
                                 !.conns[s] = Empty,
                                 !.conns[o].opponent = None,
                                 !.games[M.conns[s].game] = None]
           removed == RemoveAlone(freed, o, fate)
           N == RemoveConnection(M, s, fate)
<1>1. CASE o = None
  BY <1>1, RemoveAloneKeeps DEF RemoveConnection
<1>2. CASE o # None
  <2>1. Told(M, sent) /\ (sent.ok => Same(M, sent) /\ M.conns[s].fd # {})
    BY SendTells DEF Sound
  <2>2. CASE ~sent.ok
    BY <1>2, <2>1, <2>2, SameIsSound DEF RemoveConnection, Told
  <2>3. CASE sent.ok
    <3>1. N = IF ~removed.ok THEN removed ELSE Close(removed, M.conns[s].fd)
      BY <1>2, <2>3 DEF RemoveConnection
    <3>2. /\ DOMAIN sent = MemoryFields /\ sent.conns = M.conns /\ sent.games = M.games
          /\ sent.waiting = M.waiting /\ sent.count = M.count
      BY <2>1, <2>3 DEF Same
    <3> HIDE DEF sent
    <3>3. /\ DOMAIN freed = MemoryFields
          /\ freed.conns = [[M.conns EXCEPT ![s] = Empty] EXCEPT ![o].opponent = None]
          /\ freed.games = [M.games EXCEPT ![M.conns[s].game] = None]
          /\ freed.waiting = (IF M.waiting = s THEN None ELSE M.waiting) /\ freed.count = M.count
      BY <3>2, SMTT(30) DEF MemoryFields
    <3> HIDE DEF freed
    <3>4. /\ Sound(freed) /\ o \in Slots /\ freed.conns[o].opponent = None
          /\ Cardinality(Used(M)) = Cardinality(Used(freed)) + 1
      <4>1. o \in Slots \ {s} /\ DOMAIN M.conns = Slots /\ DOMAIN M.games = Slots
        BY <1>2 DEF Sound, Tables, Pairs
      <4>2. /\ DOMAIN freed.conns = Slots /\ DOMAIN freed.games = Slots
            /\ freed.conns[s] = Empty /\ freed.conns[o] = [M.conns[o] EXCEPT !.opponent = None]
            /\ \A t \in Slots \ {s, o} : freed.conns[t] = M.conns[t]
            /\ \A g \in Slots \ {M.conns[s].game} : freed.games[g] = M.games[g]
        BY <3>3, <4>1
      <4> QED
        BY <3>3, <4>1, <4>2, PairFreed, SMTT(30)
    <3>5. /\ Sound(removed)
          /\ removed.ok => /\ removed.count = freed.count - 1
                           /\ Cardinality(Used(freed)) = Cardinality(Used(removed)) + 1
      BY <3>4, RemoveAloneKeeps
    <3> HIDE DEF removed, N
    <3>6. CASE removed.ok
      <4> DEFINE c == CHOOSE c \in M.conns[s].fd : TRUE
      <4>1. N = [CloseSocket(removed, c) EXCEPT !.count = @ - 1]
        BY <3>1, <3>6 DEF Close
      <4> HIDE DEF c
      <4>2. /\ DOMAIN N = MemoryFields /\ N.conns = removed.conns /\ N.games = removed.games
            /\ N.waiting = removed.waiting /\ N.count = removed.count - 1
        BY <4>1, <3>5 DEF CloseSocket, MemoryFields, Sound
      <4>3. /\ M.count \in Int /\ M.count >= Cardinality(Used(M))
            /\ Cardinality(Used(removed)) \in Nat /\ Used(N) = Used(removed)
        BY <4>2, SlotsAreFinite DEF Sound, Tables, Used
      <4>4. N.count \in Int /\ N.count >= Cardinality(Used(N))
        BY <3>3, <3>4, <3>5, <3>6, <4>2, <4>3
      <4> QED
        BY <3>5, <4>2, <4>4
           DEF Sound, Tables, SlotsAgree, Pairs, WaitsAlone, OwnNames, N
    <3> QED
      BY <3>1, <3>5, <3>6 DEF N
  <2> QED
    BY <2>2, <2>3
<1> QED
  BY <1>1, <1>2

-----------------------------------------------------------------------------
(* Registration.                                                            *)

(* Connections that differ in opponent and game at most. *)
SameClient(a, b) ==
  DOMAIN a = DOMAIN b /\ a.status = b.status /\ a.fd = b.fd /\ a.nickname = b.nickname

(* Two slots that are registered and have no opponent get each other and a  *)
(* game.                                                                    *)
LEMMA Paired ==
  ASSUME NEW M, Sound(M), NEW s \in Slots, NEW w \in Slots \ {s}, NEW first \in {s, w},
         M.conns[s].nickname # {}, M.conns[s].opponent = None,
         M.conns[w].nickname # {}, M.conns[w].opponent = None,
         NEW N, DOMAIN N = MemoryFields, DOMAIN N.conns = Slots, DOMAIN N.games = Slots,
         SameClient(N.conns[s], M.conns[s]), N.conns[s].opponent = w, N.conns[s].game = s,
         SameClient(N.conns[w], M.conns[w]), N.conns[w].opponent = s, N.conns[w].game = s,
         \A t \in Slots \ {s, w} : N.conns[t] = M.conns[t],
         N.games[s] = first, \A g \in Slots \ {s} : N.games[g] = M.games[g],
         N.waiting = None, N.count = M.count
  PROVE  Sound(N)
<1>1. /\ SlotsAgree(M) /\ Pairs(M) /\ WaitsAlone(M) /\ OwnNames(M)
      /\ M.count \in Int /\ M.count >= Cardinality(Used(M))
  BY DEF Sound, Tables
<1>2. \A t \in Slots :
        /\ DOMAIN N.conns[t] = DOMAIN Empty
        /\ N.conns[t].status = M.conns[t].status /\ N.conns[t].fd = M.conns[t].fd
        /\ N.conns[t].nickname = M.conns[t].nickname
  BY <1>1 DEF SlotsAgree, SameClient
<1>4. SlotsAgree(N)
  BY <1>1, <1>2 DEF SlotsAgree
<1>5. Pairs(N)
  <2> SUFFICES ASSUME NEW t \in Slots, N.conns[t].opponent # None
               PROVE  LET p == N.conns[t].opponent
                          g == N.conns[t].game
                      IN  /\ p \in Slots \ {t} /\ N.conns[p].opponent = t /\ N.conns[t].nickname # {}
                          /\ g \in {t, p} /\ N.conns[p].game = g /\ N.games[g] \in {t, p}
    BY DEF Pairs
  <2>1. CASE t = s
    BY <1>2, <2>1
  <2>2. CASE t = w
    BY <1>2, <2>2
  <2>3. CASE t \notin {s, w}
    <3> DEFINE p == M.conns[t].opponent
               g == M.conns[t].game
    <3>1. /\ N.conns[t] = M.conns[t] /\ p # None
          /\ p \in Slots \ {t} /\ M.conns[p].opponent = t /\ M.conns[t].nickname # {}
          /\ g \in {t, p} /\ M.conns[p].game = g /\ M.games[g] \in {t, p}
      BY <1>1, <2>3 DEF Pairs
    <3>2. p \in Slots \ {s, w} /\ t # None
      BY <3>1, SlotsAreFinite
    <3>3. g \in Slots \ {s} /\ N.conns[p] = M.conns[p]
      BY <2>3, <3>1, <3>2
    <3>4. N.games[g] = M.games[g]
      BY <3>3
    <3> QED
      BY <3>1, <3>2, <3>3, <3>4
  <2> QED
    BY <2>1, <2>2, <2>3
<1>6. WaitsAlone(N) /\ OwnNames(N)
  BY <1>1, <1>2 DEF WaitsAlone, OwnNames
<1>7. Used(N) = Used(M)
  BY <1>2 DEF Used
<1> QED
  BY <1>1, <1>4, <1>5, <1>6, <1>7 DEF Sound, Tables

(* What is left of an attempt to start a game. *)
Started(N) == DOMAIN N = MemoryFields /\ (N.ok \/ N.state # "up" => Sound(N))

(* A game that is started leaves sound tables; one that cannot be started   *)
(* leaves what the crash of the server wipes out.                           *)
LEMMA StartKeeps ==
  ASSUME NEW M, Sound(M), M.state = "up", NEW s \in Slots, NEW w \in Slots \ {s}, NEW first \in {s, w},
         M.conns[s].nickname # {}, M.conns[s].opponent = None,
         M.conns[w].nickname # {}, M.conns[w].opponent = None, NEW fate
  PROVE  Started(StartGameBetweenClients(M, s, w, first, fate))
<1> DEFINE paired == [M EXCEPT !.waiting = None, !.conns[s].opponent = w, !.conns[w].opponent = s]
           told1 == Send(paired, s, "GAME_STARTED", fate)
           told == IF told1.ok THEN Send(told1, w, "GAME_STARTED", fate) ELSE told1
           game == [told EXCEPT !.conns[s].game = s, !.conns[w].game = s, !.games[s] = first]
           N == StartGameBetweenClients(M, s, w, first, fate)
<1>1. /\ DOMAIN M = MemoryFields /\ DOMAIN M.conns = Slots /\ DOMAIN M.games = Slots
      /\ \A t \in Slots : DOMAIN M.conns[t] = DOMAIN Empty
  BY DEF Sound, Tables, SlotsAgree
<1>2. N = IF told.ok THEN SendGameState(game, s, w, fate) ELSE told
  BY DEF StartGameBetweenClients
<1>3. /\ DOMAIN paired = MemoryFields /\ paired.waiting = None /\ paired.games = M.games
      /\ paired.count = M.count /\ paired.state = "up"
      /\ paired.conns = [[M.conns EXCEPT ![s].opponent = w] EXCEPT ![w].opponent = s]
  BY <1>1 DEF MemoryFields
<1> HIDE DEF paired
<1>4. Told(paired, told1) /\ (told1.ok => Same(paired, told1))
  BY <1>3, SendTells
<1>5. told1.ok => Told(told1, Send(told1, w, "GAME_STARTED", fate))
                    /\ (Send(told1, w, "GAME_STARTED", fate).ok => Same(told1, Send(told1, w, "GAME_STARTED", fate)))
  BY <1>4, SendTells DEF Same
<1> HIDE DEF told1
<1>6. Told(paired, told) /\ (told.ok => Same(paired, told))
  BY <1>4, <1>5, SameIsTransitive DEF Same
<1> HIDE DEF told, N
<1>7. CASE ~told.ok
  BY <1>2, <1>3, <1>6, <1>7 DEF Told, Same, Sound, Started, N
<1>8. CASE told.ok
  <2>1. /\ DOMAIN told = MemoryFields /\ told.waiting = None /\ told.games = M.games
        /\ told.count = M.count /\ told.state = "up"
        /\ told.conns = [[M.conns EXCEPT ![s].opponent = w] EXCEPT ![w].opponent = s]
    BY <1>3, <1>6, <1>8 DEF Same
  <2>2. /\ DOMAIN game = MemoryFields /\ game.waiting = None /\ game.count = M.count /\ game.state = "up"
        /\ game.games = [M.games EXCEPT ![s] = first]
        /\ game.conns = [[told.conns EXCEPT ![s].game = s] EXCEPT ![w].game = s]
    BY <2>1 DEF MemoryFields
  <2> HIDE DEF game
  <2>3. /\ DOMAIN game.conns = Slots
        /\ game.conns[s] = [M.conns[s] EXCEPT !.opponent = w, !.game = s]
        /\ game.conns[w] = [M.conns[w] EXCEPT !.opponent = s, !.game = s]
        /\ \A t \in Slots \ {s, w} : game.conns[t] = M.conns[t]
    BY <1>1, <2>1, <2>2
  <2>4. /\ SameClient(game.conns[s], M.conns[s]) /\ game.conns[s].opponent = w /\ game.conns[s].game = s
        /\ SameClient(game.conns[w], M.conns[w]) /\ game.conns[w].opponent = s /\ game.conns[w].game = s
    BY <1>1, <2>3, EmptyFields DEF SameClient
  <2>5. /\ DOMAIN game.games = Slots /\ game.games[s] = first
        /\ \A g \in Slots \ {s} : game.games[g] = M.games[g]
    BY <1>1, <2>2
  <2>6. Sound(game)
    <3>1. /\ DOMAIN game = MemoryFields /\ game.waiting = None /\ game.count = M.count
      BY <2>2
    <3>2. /\ DOMAIN game.conns = Slots /\ \A t \in Slots \ {s, w} : game.conns[t] = M.conns[t]
      BY <2>3
    <3> QED
      BY <2>5, <2>4, <3>1, <3>2, Paired
  <2>7. Told(game, SendGameState(game, s, w, fate))
    BY <2>2, GameStateTells
  <2>8. Sound(SendGameState(game, s, w, fate))
    BY <2>6, <2>7, SameIsSound DEF Told
  <2> QED
    BY <1>2, <1>8, <2>8 DEF N, Sound, Started
<1> QED
  BY <1>7, <1>8

(* A client that has not said its nickname neither waits nor plays.         *)
LEMMA FreshSlot ==
  ASSUME NEW M, Sound(M), NEW s \in Slots, M.conns[s].status = "CONNECTED"
  PROVE  /\ M.conns[s].nickname = {} /\ M.conns[s].opponent = None /\ M.conns[s].fd # {}
         /\ M.waiting # s
<1>1. M.conns[s].nickname = {} /\ M.conns[s].fd # {}
  BY DEF Sound, Tables, SlotsAgree
<1>2. s # None
  BY SlotsAreFinite
<1> QED
  BY <1>1, <1>2 DEF Sound, Tables, Pairs, WaitsAlone

(* A client with a nickname of its own is registered.                       *)
LEMMA Named ==
  ASSUME NEW M, Sound(M), NEW s \in Slots, M.conns[s].status = "CONNECTED", NEW n, n # {},
         \A t \in Slots : M.conns[t].nickname # n,
         NEW N, DOMAIN N = MemoryFields, N.games = M.games, N.waiting = M.waiting, N.count = M.count,
         DOMAIN N.conns = Slots, \A t \in Slots \ {s} : N.conns[t] = M.conns[t],
         DOMAIN N.conns[s] = DOMAIN M.conns[s], N.conns[s].fd = M.conns[s].fd,
         N.conns[s].opponent = M.conns[s].opponent,
         N.conns[s].status = "REGISTERED", N.conns[s].nickname = n
  PROVE  Sound(N)
<1>1. /\ SlotsAgree(M) /\ Pairs(M) /\ WaitsAlone(M) /\ OwnNames(M)
      /\ M.count \in Int /\ M.count >= Cardinality(Used(M))
      /\ DOMAIN M.conns = Slots /\ DOMAIN M.games = Slots
  BY DEF Sound, Tables
<1>2. /\ DOMAIN M.conns[s] = {"status", "fd", "nickname", "opponent", "game"}
      /\ M.conns[s].nickname = {} /\ M.conns[s].opponent = None /\ M.conns[s].fd # {} /\ M.waiting # s
  BY <1>1, EmptyFields, FreshSlot DEF SlotsAgree
<1>3. /\ DOMAIN N.conns = Slots /\ \A t \in Slots \ {s} : N.conns[t] = M.conns[t]
      /\ DOMAIN N.conns[s] = DOMAIN Empty
      /\ N.conns[s].status = "REGISTERED" /\ N.conns[s].nickname = n
      /\ N.conns[s].fd = M.conns[s].fd /\ N.conns[s].opponent = None
  BY <1>1, <1>2, EmptyFields
<1>4. SlotsAgree(N)
  BY <1>1, <1>2, <1>3 DEF SlotsAgree
<1>5. Pairs(N)
  <2> SUFFICES ASSUME NEW t \in Slots, N.conns[t].opponent # None
               PROVE  LET p == N.conns[t].opponent
                          g == N.conns[t].game
                      IN  /\ p \in Slots \ {t} /\ N.conns[p].opponent = t /\ N.conns[t].nickname # {}
                          /\ g \in {t, p} /\ N.conns[p].game = g /\ N.games[g] \in {t, p}
    BY DEF Pairs
  <2>1. t # s /\ N.conns[t] = M.conns[t]
    BY <1>3
  <2>2. M.conns[t].opponent # s
    BY <1>1, <1>2, <2>1, SlotsAreFinite DEF Pairs
  <2> QED
    BY <1>1, <1>3, <2>1, <2>2 DEF Pairs
<1>6. WaitsAlone(N)
  BY <1>1, <1>2, <1>3 DEF WaitsAlone
<1>7. OwnNames(N)
  BY <1>1, <1>2, <1>3 DEF OwnNames
<1>8. Used(N) = Used(M)
  BY <1>3 DEF Used
<1> QED
  BY <1>1, <1>2, <1>3, <1>4, <1>5, <1>6, <1>7, <1>8 DEF Sound, Tables

LEMMA CreateKeeps ==
  ASSUME NEW M, Sound(M), M.state = "up", M.waiting = waiting, NEW s \in Slots,
         M.conns[s].status = "CONNECTED", NEW n, n # {}, \A t \in Slots : M.conns[t].nickname # n,
         NEW first \in {s, waiting} \ {None}, NEW fate
  PROVE  Sound(CreateClientStruct(M, s, n, first, fate))
<1> DEFINE registered == [M EXCEPT !.conns[s].status = "REGISTERED", !.conns[s].nickname = n]
           started == StartGameBetweenClients(registered, s, waiting, first, fate)
           waits == WaitForOpponent(registered, s, fate)
           N == CreateClientStruct(M, s, n, first, fate)
<1>1. N = IF waiting # None
          THEN IF started.ok \/ started.state # "up" THEN started ELSE Ends(started, "crashed")
          ELSE IF waits.ok \/ waits.state # "up" THEN waits ELSE RemoveConnection(waits, s, fate)
  BY DEF CreateClientStruct
<1>2. /\ DOMAIN registered = MemoryFields /\ registered.games = M.games /\ registered.state = "up"
      /\ registered.waiting = M.waiting /\ registered.count = M.count
      /\ registered.conns = [[M.conns EXCEPT ![s].status = "REGISTERED"] EXCEPT ![s].nickname = n]
  BY DEF Sound, MemoryFields
<1> HIDE DEF registered
<1>3. /\ Sound(registered) /\ registered.conns[s].nickname = n /\ registered.conns[s].opponent = None
      /\ waiting # s
  <2>1. /\ DOMAIN registered.conns = Slots
        /\ \A t \in Slots \ {s} : registered.conns[t] = M.conns[t]
        /\ registered.conns[s] = [[M.conns[s] EXCEPT !.status = "REGISTERED"] EXCEPT !.nickname = n]
        /\ DOMAIN M.conns[s] = DOMAIN Empty
    BY <1>2 DEF Sound, Tables, SlotsAgree
  <2>3. /\ DOMAIN registered.conns[s] = DOMAIN M.conns[s] /\ registered.conns[s].fd = M.conns[s].fd
        /\ registered.conns[s].opponent = M.conns[s].opponent
        /\ registered.conns[s].status = "REGISTERED" /\ registered.conns[s].nickname = n
    BY <2>1, EmptyFields
  <2>2. Sound(registered) /\ registered.conns[s].nickname = n /\ registered.conns[s].opponent = None
        /\ M.waiting # s
    <3>1. DOMAIN registered = MemoryFields /\ registered.games = M.games /\ registered.waiting = M.waiting
          /\ registered.count = M.count
      BY <1>2
    <3>2. /\ DOMAIN registered.conns = Slots
          /\ \A t \in Slots \ {s} : registered.conns[t] = M.conns[t]
      BY <2>1
    <3>3. Sound(registered)
      BY <2>3, <3>1, <3>2, Named
    <3> QED
      BY <2>3, <3>3, FreshSlot
  <2> QED
    BY <2>2
<1>4. CASE waiting # None
  <2>1. /\ waiting \in Slots \ {s} /\ first \in {s, waiting}
        /\ registered.conns[waiting].nickname # {} /\ registered.conns[waiting].opponent = None
    BY <1>2, <1>3, <1>4 DEF Sound, Tables, WaitsAlone
  <2>2. Started(started)
    BY <1>2, <1>3, <2>1, StartKeeps
  <2> HIDE DEF started
  <2> QED
    BY <1>1, <1>4, <2>2, EndsSound DEF Started
<1>5. CASE waiting = None
  <2> DEFINE L == [registered EXCEPT !.waiting = s]
  <2>1. /\ DOMAIN L = MemoryFields /\ L.conns = registered.conns /\ L.games = registered.games
        /\ L.waiting = s /\ L.count = registered.count
    BY <1>2 DEF MemoryFields
  <2>2. waits = Send(L, s, "WAIT_OPPONENT", fate)
    BY DEF WaitForOpponent
  <2> HIDE DEF L, waits
  <2>3. Sound(L)
    BY <1>3, <2>1 DEF Sound, Tables, SlotsAgree, Pairs, WaitsAlone, OwnNames, Used
  <2>4. Sound(waits)
    BY <2>1, <2>2, <2>3, SendTells, SameIsSound DEF Told
  <2> QED
    BY <1>1, <1>5, <2>4, RemoveKeeps
<1> QED
  BY <1>4, <1>5

LEMMA RejectKeeps ==
  ASSUME NEW M, Sound(M), NEW s \in Slots, NEW fate
  PROVE  Sound(RejectClient(M, s, fate))
<1>1. Sound(Send(M, s, "USERNAME_TAKEN", fate))
  BY SendTells, SameIsSound DEF Told, Sound
<1> QED
  BY <1>1, RemoveKeeps DEF RejectClient

(* A new connection takes an empty slot. *)
LEMMA Connected ==
  ASSUME NEW M, Sound(M), NEW s \in Slots, M.conns[s].status = "EMPTY",
         NEW N, DOMAIN N = MemoryFields, N.games = M.games, N.waiting = M.waiting,
         N.count = M.count + 1, DOMAIN N.conns = Slots,
         \A t \in Slots \ {s} : N.conns[t] = M.conns[t],
         DOMAIN N.conns[s] = DOMAIN M.conns[s], N.conns[s].fd # {},
         N.conns[s].opponent = M.conns[s].opponent,
         N.conns[s].status = "CONNECTED", N.conns[s].nickname = M.conns[s].nickname
  PROVE  Sound(N)
<1>1. /\ SlotsAgree(M) /\ Pairs(M) /\ WaitsAlone(M) /\ OwnNames(M)
      /\ M.count \in Int /\ M.count >= Cardinality(Used(M))
      /\ DOMAIN M.conns = Slots /\ DOMAIN M.games = Slots
  BY DEF Sound, Tables
<1>2. /\ DOMAIN N.conns[s] = DOMAIN Empty /\ s # None
      /\ M.conns[s].nickname = {} /\ N.conns[s].nickname = {}
      /\ M.conns[s].opponent = None /\ N.conns[s].opponent = None
  BY <1>1, SlotsAreFinite DEF SlotsAgree, Pairs
<1>3. SlotsAgree(N)
  BY <1>1, <1>2 DEF SlotsAgree
<1>4. Pairs(N)
  <2> SUFFICES ASSUME NEW t \in Slots, N.conns[t].opponent # None
               PROVE  LET o == N.conns[t].opponent
                          g == N.conns[t].game
                      IN  /\ o \in Slots \ {t} /\ N.conns[o].opponent = t /\ N.conns[t].nickname # {}
                          /\ g \in {t, o} /\ N.conns[o].game = g /\ N.games[g] \in {t, o}
    BY DEF Pairs
  <2>1. t # s /\ N.conns[t] = M.conns[t]
    BY <1>2
  <2>2. M.conns[t].opponent # s
    BY <1>1, <1>2, <2>1, SlotsAreFinite DEF Pairs
  <2> QED
    BY <1>1, <2>1, <2>2 DEF Pairs
<1>5. WaitsAlone(N)
  BY <1>1, <1>2 DEF WaitsAlone
<1>6. OwnNames(N)
  BY <1>1, <1>2 DEF OwnNames
<1>7. Used(N) = Used(M) \cup {s} /\ s \notin Used(M)
  BY DEF Used
<1>8. IsFiniteSet(Used(M)) /\ Cardinality(Used(M)) \in Nat
  BY SlotsAreFinite DEF Used
<1>9. Cardinality(Used(N)) = Cardinality(Used(M)) + 1
  BY <1>7, <1>8, FS_AddElement, ZenonT(60)
<1>10. N.count \in Int /\ N.count >= Cardinality(Used(N))
  BY <1>1, <1>8, <1>9
<1> QED
  BY <1>1, <1>3, <1>4, <1>5, <1>6, <1>10 DEF Sound, Tables

-----------------------------------------------------------------------------
(* The loops over the slots.                                                *)

SameGames(M, N) ==
  \A s \in Slots : N.conns[s].opponent = M.conns[s].opponent /\ N.conns[s].game = M.conns[s].game

(* Who still has an opponent has the one it had, and the game. *)
FewerGames(M, N) ==
  \A s \in Slots :
    N.conns[s].opponent # None =>
      N.conns[s].opponent = M.conns[s].opponent /\ N.conns[s].game = M.conns[s].game

(* The ping thread finds no slot that is PINGED, because the status that it *)
(* sets is lost; so it removes nobody and changes no game.                  *)
LEMMA PingSlotKeeps ==
  ASSUME NEW M, Sound(M), NEW s \in Slots, NEW fate
  PROVE  LET N == PingSlot(M, s, fate)
         IN  Sound(N) /\ (N.state \in {"up", "exiting"} => N.state = M.state /\ SameGames(M, N))
<1> DEFINE pinged == [M EXCEPT !.conns[s].status = Pinged(@),
                               !.unanswered[s] = IF @ < MaxUnanswered THEN @ + 1 ELSE @]
           N == PingSlot(M, s, fate)
<1>1. /\ DOMAIN M = MemoryFields /\ DOMAIN M.conns = Slots /\ DOMAIN M.conns[s] = DOMAIN Empty
      /\ Tables(M) /\ SlotsAgree(M)
  BY DEF Sound, Tables, SlotsAgree
<1>2. M.conns[s].status # "PINGED"
  BY <1>1 DEF SlotsAgree
<1>3. CASE N = M
  BY <1>3 DEF SameGames
<1>4. CASE N # M
  <2>1. N = Send(pinged, s, "PING", fate)
    BY <1>2, <1>4 DEF PingSlot, PingConnection
  <2>2. /\ DOMAIN pinged = MemoryFields /\ pinged.games = M.games /\ pinged.waiting = M.waiting
        /\ pinged.count = M.count /\ pinged.state = M.state
        /\ pinged.conns = [M.conns EXCEPT ![s].status = M.conns[s].status]
    BY <1>1 DEF MemoryFields, Pinged
  <2> HIDE DEF pinged, N
  <2>3. /\ DOMAIN pinged.conns = Slots /\ \A t \in Slots \ {s} : pinged.conns[t] = M.conns[t]
        /\ pinged.conns[s] = [M.conns[s] EXCEPT !.status = M.conns[s].status]
    BY <1>1, <2>2
  <2>4. /\ DOMAIN pinged.conns[s] = DOMAIN Empty /\ pinged.conns[s].status = M.conns[s].status
        /\ pinged.conns[s].fd = M.conns[s].fd /\ pinged.conns[s].nickname = M.conns[s].nickname
        /\ pinged.conns[s].opponent = M.conns[s].opponent /\ pinged.conns[s].game = M.conns[s].game
    BY <1>1, <2>3, EmptyFields
  <2>5. \A t \in Slots :
          /\ DOMAIN pinged.conns[t] = DOMAIN Empty /\ pinged.conns[t].status = M.conns[t].status
          /\ pinged.conns[t].fd = M.conns[t].fd /\ pinged.conns[t].nickname = M.conns[t].nickname
          /\ pinged.conns[t].opponent = M.conns[t].opponent /\ pinged.conns[t].game = M.conns[t].game
    BY <1>1, <2>3, <2>4 DEF SlotsAgree
  <2>6. Used(pinged) = Used(M)
    BY <2>5 DEF Used
  <2>7. SlotsAgree(pinged) /\ Pairs(pinged) /\ WaitsAlone(pinged) /\ OwnNames(pinged)
    BY <1>1, <2>2, <2>5 DEF Tables, SlotsAgree, Pairs, WaitsAlone, OwnNames
  <2>8. Sound(pinged)
    BY <1>1, <2>2, <2>3, <2>6, <2>7 DEF Sound, Tables
  <2>9. Told(pinged, N)
    BY <2>1, <2>2, SendTells
  <2>10. Sound(N)
    BY <2>8, <2>9, SameIsSound DEF Told
  <2>11. N.state \in {"up", "exiting"} => N.conns = pinged.conns /\ N.state = pinged.state
    BY <2>9 DEF Told, Same
  <2> QED
    BY <2>2, <2>5, <2>10, <2>11, ZenonT(60) DEF SameGames, N
<1> QED
  BY <1>3, <1>4

(* A removal gives nobody another opponent or game. *)
LEMMA RemoveAloneFewer ==
  ASSUME NEW M, Sound(M), NEW s \in Slots, NEW fate
  PROVE  LET N == RemoveAlone(M, s, fate) IN N.state \in {"up", "exiting"} => N.state = M.state /\ FewerGames(M, N)
<1> DEFINE sent == Send(M, s, "DISCONNECT", fate)
           N == RemoveAlone(M, s, fate)
<1>1. Told(M, sent) /\ (sent.ok => Same(M, sent))
  BY SendTells DEF Sound
<1>2. CASE ~sent.ok
  <2>1. N = sent
    BY <1>2 DEF RemoveAlone
  <2> HIDE DEF sent, N
  <2> QED
    BY <1>1, <2>1 DEF Told, Same, FewerGames, N
<1>3. CASE sent.ok
  <2> DEFINE c == CHOOSE c \in M.conns[s].fd : TRUE
  <2>1. N = [CloseSocket([sent EXCEPT !.waiting = IF @ = s THEN None ELSE @, !.conns[s] = Empty], c)
               EXCEPT !.count = @ - 1]
    BY <1>3 DEF RemoveAlone, Close
  <2> HIDE DEF c, sent, N
  <2>2. DOMAIN sent = MemoryFields /\ sent.conns = M.conns /\ sent.state = M.state
    BY <1>1, <1>3 DEF Same
  <2>3. N.conns = [M.conns EXCEPT ![s] = Empty] /\ N.state = M.state
    BY <2>1, <2>2 DEF CloseSocket, MemoryFields
  <2>4. DOMAIN M.conns = Slots
    BY DEF Sound, Tables
  <2> QED
    BY <2>3, <2>4, EmptyFields DEF FewerGames, N
<1> QED
  BY <1>2, <1>3

LEMMA RemoveFewer ==
  ASSUME NEW M, Sound(M), NEW s \in Slots, NEW fate
  PROVE  LET N == RemoveConnection(M, s, fate)
         IN  N.state \in {"up", "exiting"} => N.state = M.state /\ FewerGames(M, N)
<1> DEFINE o == M.conns[s].opponent
           sent == Send(M, s, "DISCONNECT", fate)
           freed == [sent EXCEPT !.waiting = IF @ = s THEN None ELSE @,
                                 !.conns[s] = Empty,
                                 !.conns[o].opponent = None,
                                 !.games[M.conns[s].game] = None]
           removed == RemoveAlone(freed, o, fate)
           N == RemoveConnection(M, s, fate)
<1>1. CASE o = None
  BY <1>1, RemoveAloneFewer DEF RemoveConnection
<1>2. CASE o # None
  <2>1. Told(M, sent) /\ (sent.ok => Same(M, sent) /\ M.conns[s].fd # {})
    BY SendTells DEF Sound
  <2>2. CASE ~sent.ok
    <3>1. N = sent
      BY <1>2, <2>2 DEF RemoveConnection
    <3> HIDE DEF sent, N
    <3> QED
      BY <2>1, <3>1 DEF Told, Same, FewerGames, N
  <2>3. CASE sent.ok
    <3>1. N = IF ~removed.ok THEN removed ELSE Close(removed, M.conns[s].fd)
      BY <1>2, <2>3 DEF RemoveConnection
    <3>2. /\ DOMAIN sent = MemoryFields /\ sent.conns = M.conns /\ sent.state = M.state
          /\ sent.games = M.games /\ sent.waiting = M.waiting /\ sent.count = M.count
      BY <2>1, <2>3 DEF Same
    <3>3. o \in Slots \ {s} /\ DOMAIN M.conns = Slots /\ DOMAIN M.games = Slots
      BY <1>2 DEF Sound, Tables, Pairs
    <3> HIDE DEF sent
    <3>4. /\ DOMAIN freed = MemoryFields /\ freed.state = M.state
          /\ freed.conns = [[M.conns EXCEPT ![s] = Empty] EXCEPT ![o].opponent = None]
          /\ freed.games = [M.games EXCEPT ![M.conns[s].game] = None]
          /\ freed.waiting = (IF M.waiting = s THEN None ELSE M.waiting) /\ freed.count = M.count
      BY <3>2, SMTT(30) DEF MemoryFields
    <3> HIDE DEF freed
    <3>5. /\ DOMAIN freed.conns = Slots /\ DOMAIN freed.games = Slots
          /\ freed.conns[s] = Empty /\ freed.conns[o] = [M.conns[o] EXCEPT !.opponent = None]
          /\ \A t \in Slots \ {s, o} : freed.conns[t] = M.conns[t]
          /\ \A g \in Slots \ {M.conns[s].game} : freed.games[g] = M.games[g]
      BY <3>3, <3>4
    <3>6. Sound(freed) /\ freed.conns[o].opponent = None
      BY <3>3, <3>4, <3>5, <1>2, PairFreed, SMTT(30)
    <3>7. FewerGames(M, freed)
      BY <3>5, <3>6, EmptyFields DEF FewerGames
    <3>8. removed.state \in {"up", "exiting"} => removed.state = freed.state /\ FewerGames(freed, removed)
      BY <3>3, <3>6, RemoveAloneFewer
    <3>9. N.state = removed.state /\ N.conns = removed.conns
      <4>1. Sound(removed)
        BY <3>3, <3>6, RemoveAloneKeeps
      <4> HIDE DEF removed, N
      <4>2. CASE removed.ok
        <5> DEFINE c == CHOOSE c \in M.conns[s].fd : TRUE
        <5>1. N = [CloseSocket(removed, c) EXCEPT !.count = @ - 1]
          BY <3>1, <4>2 DEF Close
        <5> HIDE DEF c
        <5> QED
          BY <5>1, <4>1 DEF CloseSocket, MemoryFields, Sound
      <4> QED
        BY <3>1, <4>2
    <3> HIDE DEF removed, N
    <3> QED
      BY <3>4, <3>7, <3>8, <3>9 DEF FewerGames, N
  <2> QED
    BY <2>2, <2>3
<1> QED
  BY <1>1, <1>2

(* What one turn of a loop keeps, and so the whole of it. *)
Kept(loop, M, N) ==
  /\ Sound(N)
  /\ N.state \in {"up", "exiting"} => /\ N.state = M.state /\ FewerGames(M, N)
                                      /\ loop = "ping" => SameGames(M, N)

LEMMA TurnKeeps ==
  ASSUME NEW loop, NEW M, Sound(M), NEW s \in Slots, NEW fate
  PROVE  Kept(loop, M, Turn(loop, M, s, fate))
<1>1. CASE loop = "ping"
  BY <1>1, PingSlotKeeps DEF Turn, Kept, SameGames, FewerGames
<1>2. CASE loop # "ping"
  <2>1. CASE M.conns[s].status = "EMPTY"
    BY <1>2, <2>1 DEF Turn, RemoveSlot, Kept, FewerGames
  <2>2. CASE M.conns[s].status # "EMPTY"
    BY <1>2, <2>2, RemoveKeeps, RemoveFewer DEF Turn, RemoveSlot, Kept
  <2> QED
    BY <2>1, <2>2
<1> QED
  BY <1>1, <1>2

(* A loop over the slots is a function of how far it has come.              *)
Rounds(g, loop, M, k, fate) ==
  g = [s \in 0 .. k |-> IF s = 0 THEN M ELSE Turn(loop, g[s - 1], s, fate)]

LEMMA LoopIsDefined ==
  ASSUME NEW loop, NEW M, NEW fate, NEW k \in 0 .. MaxConnections
  PROVE  \E g : Rounds(g, loop, M, k, fate)
<1> DEFINE Undefined == {n \in 0 .. MaxConnections : ~\E g : Rounds(g, loop, M, n, fate)}
<1>1. MaxConnections \in Nat
  BY Numbers
<1>2. Rounds([s \in 0 .. 0 |-> M], loop, M, 0, fate)
  BY DEF Rounds
<1>3. ASSUME NEW n \in 1 .. MaxConnections, NEW g, Rounds(g, loop, M, n - 1, fate)
      PROVE  \E h : Rounds(h, loop, M, n, fate)
  <2> DEFINE h == [s \in 0 .. n |-> IF s = n THEN Turn(loop, g[n - 1], n, fate) ELSE g[s]]
  <2>1. n - 1 \in 0 .. n /\ n - 1 # n /\ n # 0 /\ 0 .. n = (0 .. n - 1) \cup {n}
    BY <1>1
  <2>2. h[n] = Turn(loop, h[n - 1], n, fate)
    BY <2>1
  <2>3. ASSUME NEW s \in 0 .. n - 1, s # 0
        PROVE  h[s] = Turn(loop, h[s - 1], s, fate)
    <3>1. s \in 0 .. n /\ s - 1 \in 0 .. n - 1 /\ s - 1 \in 0 .. n /\ s - 1 # n /\ s # n
      BY <1>1, <2>3
    <3>2. g[s] = Turn(loop, g[s - 1], s, fate)
      BY <1>3, <2>3 DEF Rounds
    <3> QED
      BY <3>1, <3>2
  <2>4. h[0] = M
    <3>1. 0 \in 0 .. n - 1 /\ 0 \in 0 .. n /\ 0 # n
      BY <1>1
    <3> QED
      BY <1>3, <3>1 DEF Rounds
  <2>5. \A s \in 0 .. n : h[s] = IF s = 0 THEN M ELSE Turn(loop, h[s - 1], s, fate)
    <3> HIDE DEF h
    <3> QED
      BY <2>1, <2>2, <2>3, <2>4
  <2>6. Rounds(h, loop, M, n, fate)
    <3>1. DOMAIN h = 0 .. n /\ h = [s \in 0 .. n |-> h[s]]
      OBVIOUS
    <3> HIDE DEF h
    <3> QED
      BY <2>5, <3>1 DEF Rounds
  <2> QED
    BY <2>6
<1>4. Undefined = {}
  <2> SUFFICES ASSUME Undefined # {} PROVE FALSE
    OBVIOUS
  <2>1. Undefined \in SUBSET Nat
    BY <1>1
  <2>2. PICK n \in Undefined : \A i \in Undefined : n <= i
    <3> HIDE DEF Undefined
    <3> QED
      BY <2>1, MinIsElement
  <2>3. n # 0
    BY <1>2, <2>2
  <2>4. n \in 1 .. MaxConnections /\ n - 1 \in 0 .. MaxConnections /\ n - 1 \notin Undefined
    BY <1>1, <2>1, <2>2, <2>3
  <2>5. PICK g : Rounds(g, loop, M, n - 1, fate)
    BY <2>4
  <2>6. \E h : Rounds(h, loop, M, n, fate)
    BY <1>3, <2>4, <2>5
  <2> QED
    BY <2>2, <2>6
<1> QED
  BY <1>4

LEMMA LoopKeeps ==
  ASSUME NEW loop, NEW M, Sound(M), NEW fate, NEW g,
         g = [s \in 0 .. MaxConnections |-> IF s = 0 THEN M ELSE Turn(loop, g[s - 1], s, fate)]
  PROVE  Kept(loop, M, g[MaxConnections])
<1> DEFINE Broken == {s \in 0 .. MaxConnections : ~Kept(loop, M, g[s])}
<1>1. MaxConnections \in Nat
  BY Numbers
<1>2. g[0] = M /\ \A s \in Slots : s - 1 \in 0 .. MaxConnections /\ g[s] = Turn(loop, g[s - 1], s, fate)
  <2>1. \A s \in 0 .. MaxConnections : g[s] = IF s = 0 THEN M ELSE Turn(loop, g[s - 1], s, fate)
    BY Zenon
  <2>2. 0 \in 0 .. MaxConnections
    BY <1>1
  <2>3. \A s \in Slots : s \in 0 .. MaxConnections /\ s # 0 /\ s - 1 \in 0 .. MaxConnections
    BY <1>1 DEF Slots
  <2> QED
    BY <2>1, <2>2, <2>3
<1>3. Kept(loop, M, g[0])
  BY <1>2 DEF Kept, SameGames, FewerGames
<1>4. ASSUME NEW s \in Slots, Kept(loop, M, g[s - 1])
      PROVE  Kept(loop, M, g[s])
  <2>1. Kept(loop, g[s - 1], g[s])
    <3>1. Sound(g[s - 1]) /\ g[s] = Turn(loop, g[s - 1], s, fate)
      BY <1>2, <1>4 DEF Kept
    <3> QED
      BY <3>1, TurnKeeps
  <2> QED
    BY <1>4, <2>1 DEF Kept, SameGames, FewerGames
<1>5. Broken = {}
  <2> SUFFICES ASSUME Broken # {} PROVE FALSE
    OBVIOUS
  <2>1. Broken \in SUBSET Nat
    BY <1>1
  <2>2. PICK n \in Broken : \A i \in Broken : n <= i
    <3> HIDE DEF Broken
    <3> QED
      BY <2>1, MinIsElement
  <2>3. n # 0
    BY <1>3, <2>2
  <2>4. n \in Slots /\ n - 1 \in 0 .. MaxConnections /\ n - 1 \notin Broken
    BY <1>1, <2>1, <2>2, <2>3 DEF Slots
  <2> QED
    BY <1>4, <2>2, <2>4
<1>6. Kept(loop, M, g[MaxConnections])
  <2>1. MaxConnections \in 0 .. MaxConnections
    BY <1>1
  <2> QED
    BY <1>5, <2>1
<1> QED
  BY <1>6

(* What is left of the tables when every slot had its turn. *)
LEMMA AllSlotsKeep ==
  ASSUME NEW loop, NEW M, Sound(M), NEW fate
  PROVE  Kept(loop, M, AllSlots(loop, M, fate))
<1> DEFINE after == CHOOSE g : g = [s \in 0 .. MaxConnections |->
                                      IF s = 0 THEN M ELSE Turn(loop, g[s - 1], s, fate)]
<1>1. \E g : g = [s \in 0 .. MaxConnections |->
                    IF s = 0 THEN M ELSE Turn(loop, g[s - 1], s, fate)]
  <2>1. MaxConnections \in 0 .. MaxConnections
    BY Numbers
  <2>2. \E g : Rounds(g, loop, M, MaxConnections, fate)
    BY <2>1, LoopIsDefined
  <2> QED
    BY <2>2, Zenon DEF Rounds
<1>2. after = [s \in 0 .. MaxConnections |-> IF s = 0 THEN M ELSE Turn(loop, after[s - 1], s, fate)]
  BY <1>1, Zenon
<1>3. AllSlots(loop, M, fate) = after[MaxConnections]
  BY Zenon DEF AllSlots
<1> HIDE DEF after
<1> QED
  BY <1>2, <1>3, LoopKeeps, ZenonT(60)

(* Of a server that exits the tables are sound, and nobody has another      *)
(* opponent or game than before.                                            *)
LEMMA ExitSound ==
  ASSUME NEW M, Sound(M), NEW fate
  PROVE  LET N == Exit(M, fate)
         IN  /\ Sound(N) /\ N.state # "up"
             /\ M.state = "up" /\ N.state = "exiting" => FewerGames(M, N)
<1> DEFINE removed == AllSlots("exit", M, fate)
           N == Exit(M, fate)
<1>1. CASE M.state # "up"
  BY <1>1 DEF Exit
<1>2. CASE M.state = "up"
  <2>1. Kept("exit", M, removed)
    BY AllSlotsKeep
  <2>2. N = IF removed.state # "up" THEN removed ELSE Leaves(removed, "exiting")
    BY <1>2 DEF Exit
  <2> HIDE DEF removed, N
  <2>3. CASE removed.state = "up"
    <3>1. /\ DOMAIN N = MemoryFields /\ N.conns = removed.conns /\ N.games = removed.games
          /\ N.waiting = removed.waiting /\ N.count = removed.count /\ N.state = "exiting"
      BY <2>1, <2>2, <2>3 DEF Kept, Sound, Leaves, MemoryFields
    <3>2. Sound(N)
      BY <2>1, <3>1 DEF Kept, Sound, Tables, SlotsAgree, Pairs, WaitsAlone, OwnNames, Used
    <3> QED
      BY <1>2, <2>1, <2>3, <3>1, <3>2 DEF Kept, FewerGames, N
  <2>4. CASE removed.state # "up"
    <3>1. removed.state # "exiting"
      BY <1>2, <2>1, <2>4 DEF Kept
    <3> QED
      BY <2>1, <2>2, <2>4, <3>1 DEF Kept, N
  <2> QED
    BY <2>3, <2>4
<1> QED
  BY <1>1, <1>2

-----------------------------------------------------------------------------
(* The steps of the server.                                                 *)

LEMMA MemoryIsSound ==
  ASSUME Tables(Memory)
  PROVE  /\ Sound(Memory)
         /\ Memory.conns = conns /\ Memory.games = games /\ Memory.waiting = waiting
         /\ Memory.count = count /\ Memory.state = state
BY DEF Memory, MemoryFields, Sound

LEMMA TablesAlike ==
  ASSUME NEW M, NEW N, Tables(M), N.conns = M.conns, N.games = M.games, N.waiting = M.waiting,
         N.count = M.count
  PROVE  Tables(N)
BY DEF Tables, SlotsAgree, Pairs, WaitsAlone, OwnNames, Used

(* A step leaves the tables that its handler returns. *)
LEMMA BecomesSound ==
  ASSUME NEW M, Sound(M), Become(M)
  PROVE  Tables(Memory)' /\ conns' = M.conns /\ games' = M.games /\ state' = M.state
<1>1. /\ Memory'.conns = M.conns /\ Memory'.games = M.games
      /\ Memory'.waiting = M.waiting /\ Memory'.count = M.count
  BY DEF Memory, Become
<1>2. Tables(Memory')
  BY <1>1, TablesAlike DEF Sound
<1> QED
  BY <1>2 DEF Become

LEMMA NoStep ==
  ASSUME IInv, UNCHANGED memoryVars, UNCHANGED req
  PROVE  IInv'
<1>1. /\ Memory'.conns = Memory.conns /\ Memory'.games = Memory.games
      /\ Memory'.waiting = Memory.waiting /\ Memory'.count = Memory.count
  BY DEF Memory, memoryVars
<1>2. Tables(Memory')
  BY <1>1, TablesAlike DEF IInv
<1>3. MovesOn'
  BY DEF IInv, MovesOn, memoryVars
<1> QED
  BY <1>2, <1>3 DEF IInv

(* While the requests thread takes up an event it holds no pointers. *)
LEMMA TurnsToNext ==
  ASSUME IInv, NEW type, Handling(type), Done
  PROVE  MovesOn' /\ state = "up"
BY DEF IInv, MovesOn, Handling, Done

LEMMA ReadSame == ASSUME NEW c PROVE Same(Memory, Read(c))
BY DEF Same, Memory, MemoryFields, Read

(* What a handler that is done with its event must return. *)
LEMMA HandledKeeps ==
  ASSUME IInv, NEW type, Handling(type), Done, NEW M, Sound(M), Become(M)
  PROVE  IInv'
BY BecomesSound, TurnsToNext DEF IInv

LEMMA EpollWaitKeeps == ASSUME IInv, EpollWait PROVE IInv'
<1>1. UNCHANGED memoryVars /\ req.slot = None
  BY DEF EpollWait, Idle
<1>2. PICK order : req' = [req EXCEPT !.events = order]
  BY DEF EpollWait
<1>3. MovesOn'
  BY <1>1, <1>2 DEF IInv, MovesOn
<1>4. /\ Memory'.conns = Memory.conns /\ Memory'.games = Memory.games
      /\ Memory'.waiting = Memory.waiting /\ Memory'.count = Memory.count
  BY <1>1 DEF Memory, memoryVars
<1>5. Tables(Memory')
  BY <1>4, TablesAlike DEF IInv
<1> QED
  BY <1>3, <1>5 DEF IInv

LEMMA FirstFreeIsFree == ASSUME FreeSlots # {} PROVE FirstFree \in FreeSlots
<1>1. FreeSlots \in SUBSET Nat
  BY SlotsAreFinite DEF FreeSlots
<1>2. \E s \in FreeSlots : \A t \in FreeSlots : s <= t
  BY <1>1, MinIsElement
<1> QED
  BY <1>2 DEF FirstFree

LEMMA NewConnectionKeeps ==
  ASSUME IInv, NEW c, NEW fate, HandleNewConnectionRequest(c, fate)
  PROVE  IInv'
<1> DEFINE full == Write(Memory, c, "SERVER_FULL", fate)
           s == FirstFree
           N == [Memory EXCEPT !.conns[s].status = "CONNECTED", !.conns[s].fd = {c},
                               !.count = @ + 1, !.link[c] = "open",
                               !.edge = @ \union {c}, !.ptr[c] = s, !.unanswered[s] = 0]
           R == IF full.ok THEN CloseSocket(full, c) ELSE Exit(full, fate)
<1>1. Handling("NEW_CONNECTION") /\ Done
  BY DEF HandleNewConnectionRequest
<1>2. Sound(Memory) /\ Memory.conns = conns
  BY MemoryIsSound DEF IInv
<1>3. CASE Become(R)
  <2>1. Told(Memory, full) /\ (full.ok => Same(Memory, full))
    BY <1>2, WriteTells DEF Sound
  <2> HIDE DEF full
  <2>2. CASE full.ok
    <3>1. Same(full, CloseSocket(full, c))
      BY <2>1, <2>2 DEF CloseSocket, Same, MemoryFields
    <3>2. Sound(full)
      BY <1>2, <2>1, <2>2, SameIsSound
    <3>3. Sound(R)
      BY <2>2, <3>1, <3>2, SameIsSound
    <3> QED
      BY <1>1, <1>3, <3>3, HandledKeeps
  <2>3. CASE ~full.ok
    <3>1. Sound(full)
      BY <1>2, <2>1, SameIsSound DEF Told
    <3>2. Sound(R)
      BY <2>3, <3>1, ExitSound
    <3> QED
      BY <1>1, <1>3, <3>2, HandledKeeps
  <2> QED
    BY <2>2, <2>3
<1>4. CASE FreeSlots # {} /\ Become(N)
  <2>1. s \in Slots /\ conns[s].status = "EMPTY"
    BY <1>4, FirstFreeIsFree DEF FreeSlots
  <2>2. /\ DOMAIN N = MemoryFields /\ N.games = Memory.games /\ N.waiting = Memory.waiting
        /\ N.count = Memory.count + 1
    BY DEF Memory, MemoryFields
  <2>3. N.conns = [[Memory.conns EXCEPT ![s].status = "CONNECTED"] EXCEPT ![s].fd = {c}]
    BY DEF Memory
  <2> HIDE DEF N, s
  <2>4. DOMAIN Memory.conns = Slots /\ DOMAIN Memory.conns[s] = DOMAIN Empty
    BY <1>2, <2>1 DEF Sound, Tables, SlotsAgree
  <2>5. /\ DOMAIN N.conns = Slots /\ \A t \in Slots \ {s} : N.conns[t] = Memory.conns[t]
    BY <2>1, <2>3, <2>4
  <2>6. N.conns[s] = [[Memory.conns[s] EXCEPT !.status = "CONNECTED"] EXCEPT !.fd = {c}]
    BY <2>1, <2>3, <2>4
  <2>7. /\ DOMAIN N.conns[s] = DOMAIN Memory.conns[s] /\ N.conns[s].fd # {}
        /\ N.conns[s].opponent = Memory.conns[s].opponent
        /\ N.conns[s].status = "CONNECTED" /\ N.conns[s].nickname = Memory.conns[s].nickname
    BY <2>4, <2>6, EmptyFields
  <2>8. Memory.conns[s].status = "EMPTY"
    BY <1>2, <2>1
  <2>9. Sound(N)
    BY <1>2, <2>1, <2>2, <2>5, <2>7, <2>8, Connected
  <2> QED
    BY <1>1, <1>4, <2>9, HandledKeeps
<1> QED
  BY <1>3, <1>4 DEF HandleNewConnectionRequest

(* A nickname that is read is one. *)
LEMMA NicknameIsOne == ASSUME NEW c, NEW n \in NicknamesRead(c) PROVE n # {}
BY DEF NicknamesRead, Nickname, Unregistered

LEMMA RegisterKeeps ==
  ASSUME IInv, NEW s \in Slots, NEW fate, RegisterClient(s, fate)
  PROVE  IInv'
<1> DEFINE c == CHOOSE c \in conns[s].fd : TRUE
           read == [Read(c) EXCEPT !.shifted = IF Len(stream[c]) > 1 THEN @ \union {c} ELSE @]
<1>1. Handling("CLIENT_EVENT") /\ Done /\ conns[s].status = "CONNECTED" /\ state = "up"
  BY DEF RegisterClient, Handling
<1>2. Sound(Memory) /\ Memory.conns = conns /\ Memory.waiting = waiting /\ Memory.state = state
  BY MemoryIsSound, SMTT(30) DEF IInv
<1>3. PICK n \in NicknamesRead(c), first \in {s, waiting} \ {None} :
        Become(IF n = {"error"} THEN RemoveConnection(read, s, fate)
               ELSE IF IsNicknameAvailable(n) THEN CreateClientStruct(read, s, n, first, fate)
               ELSE RejectClient(read, s, fate))
  BY DEF RegisterClient
<1>4. n # {}
  BY NicknameIsOne
<1>5. Same(Memory, read)
  BY ReadSame DEF Same, MemoryFields
<1> HIDE DEF read, c
<1>6. /\ Sound(read) /\ read.state = "up" /\ read.waiting = waiting /\ read.conns = conns
  BY <1>1, <1>2, <1>5, SameIsSound DEF Same
<1>7. CASE n = {"error"}
  BY <1>1, <1>3, <1>6, <1>7, RemoveKeeps, HandledKeeps
<1>8. CASE n # {"error"} /\ IsNicknameAvailable(n)
  <2>1. \A t \in Slots : read.conns[t].nickname # n
    BY <1>6, <1>8 DEF IsNicknameAvailable
  <2>2. Sound(CreateClientStruct(read, s, n, first, fate))
    BY <1>1, <1>4, <1>6, <2>1, CreateKeeps
  <2> QED
    BY <1>1, <1>3, <1>8, <2>2, HandledKeeps
<1>9. CASE n # {"error"} /\ ~IsNicknameAvailable(n)
  BY <1>1, <1>3, <1>6, <1>9, RejectKeeps, HandledKeeps
<1> QED
  BY <1>7, <1>8, <1>9, SMTT(30)

(* An answer to a ping puts the status right that no ping has changed. *)
LEMMA PongKeeps ==
  ASSUME NEW M, Sound(M), NEW s \in Slots, M.conns[s].fd # {}
  PROVE  Sound(HandleClientPingMsg(M, s))
<1> DEFINE status == IF M.conns[s].nickname = {} THEN "CONNECTED" ELSE "REGISTERED"
           N == HandleClientPingMsg(M, s)
<1>1. /\ DOMAIN M = MemoryFields /\ DOMAIN M.conns = Slots /\ DOMAIN M.conns[s] = DOMAIN Empty
      /\ SlotsAgree(M) /\ Pairs(M) /\ WaitsAlone(M) /\ OwnNames(M)
  BY DEF Sound, Tables, SlotsAgree
<1>2. /\ DOMAIN N = MemoryFields /\ N.games = M.games /\ N.waiting = M.waiting /\ N.count = M.count
      /\ N.conns = [M.conns EXCEPT ![s].status = status]
  BY <1>1 DEF HandleClientPingMsg, MemoryFields
<1> HIDE DEF N
<1>3. status \in {"CONNECTED", "REGISTERED"} /\ (status = "REGISTERED" <=> M.conns[s].nickname # {})
  OBVIOUS
<1> HIDE DEF status
<1>4. /\ DOMAIN N.conns = Slots /\ \A t \in Slots \ {s} : N.conns[t] = M.conns[t]
      /\ N.conns[s] = [M.conns[s] EXCEPT !.status = status]
  BY <1>1, <1>2
<1>5. /\ DOMAIN N.conns[s] = DOMAIN Empty /\ N.conns[s].status = status
      /\ N.conns[s].fd = M.conns[s].fd /\ N.conns[s].nickname = M.conns[s].nickname
      /\ N.conns[s].opponent = M.conns[s].opponent /\ N.conns[s].game = M.conns[s].game
  BY <1>1, <1>4, EmptyFields
<1>6. SlotsAgree(N)
  <2> SUFFICES ASSUME NEW t \in Slots
               PROVE  /\ DOMAIN N.conns[t] = DOMAIN Empty
                      /\ N.conns[t].status \in {"EMPTY", "CONNECTED", "REGISTERED"}
                      /\ N.conns[t].status = "EMPTY" <=> N.conns[t].fd = {}
                      /\ N.conns[t].status = "REGISTERED" <=> N.conns[t].nickname # {}
    BY DEF SlotsAgree
  <2>1. CASE t = s
    BY <1>3, <1>5, <2>1
  <2>2. CASE t # s
    BY <1>1, <1>4, <2>2 DEF SlotsAgree
  <2> QED
    BY <2>1, <2>2
<1>7. \A t \in Slots : /\ N.conns[t].nickname = M.conns[t].nickname
                       /\ N.conns[t].opponent = M.conns[t].opponent
                       /\ N.conns[t].game = M.conns[t].game
  BY <1>4, <1>5
<1>8. Pairs(N) /\ WaitsAlone(N) /\ OwnNames(N)
  BY <1>1, <1>2, <1>7 DEF Pairs, WaitsAlone, OwnNames
<1>9. Used(N) = Used(M)
  BY <1>1, <1>3, <1>4, <1>5 DEF Used, SlotsAgree
<1> QED
  BY <1>1, <1>2, <1>4, <1>6, <1>8, <1>9 DEF Sound, Tables, N

LEMMA RequestKeeps ==
  ASSUME IInv, NEW s \in Slots, NEW fate, HandleClientRequest(s, fate)
  PROVE  IInv'
<1> DEFINE c == CHOOSE c \in conns[s].fd : TRUE
           read == [Read(c) EXCEPT !.shifted = IF Len(stream[c]) = 1 THEN @ \ {c} ELSE @]
<1>1. Handling("CLIENT_EVENT") /\ conns[s].fd # {} /\ state = "up" /\ DOMAIN req = DOMAIN Idle
  BY DEF HandleClientRequest, Handling, IInv, MovesOn
<1>2. Sound(Memory) /\ Memory.conns = conns /\ Memory.games = games /\ Memory.state = state
  BY MemoryIsSound, SMTT(30) DEF IInv
<1>3. PICK type \in Reads(c) :
        \/ type = "MOVE" /\ StartMove(s) /\ Become(read)
        \/ /\ Done
           /\ Become(CASE type = "PING" -> HandleClientPingMsg(read, s)
                       [] type = "DISCONNECT" -> RemoveConnection(read, s, fate)
                       [] type = "MOVE" -> Ends(read, "crashed")
                       [] type = "error" -> Exit(read, fate)
                       [] OTHER -> read)
  BY DEF HandleClientRequest
<1>4. Same(Memory, read)
  BY ReadSame DEF Same, MemoryFields
<1> HIDE DEF read, c
<1>5. Sound(read) /\ read.conns = conns /\ DOMAIN read = MemoryFields
  BY <1>2, <1>4, SameIsSound DEF Same
<1>6. CASE type = "MOVE" /\ StartMove(s) /\ Become(read)
  <2>1. Tables(Memory)' /\ conns' = conns
    BY <1>5, <1>6, BecomesSound
  <2>2. /\ DOMAIN req' = DOMAIN req /\ req'.slot = s /\ req'.opponent = conns[s].opponent
        /\ req'.game = conns[s].game /\ conns[s].opponent # None
    BY <1>1, <1>6 DEF StartMove, Idle
  <2>3. MovesOn'
    BY <1>1, <2>1, <2>2 DEF MovesOn
  <2> QED
    BY <2>1, <2>3 DEF IInv
<1>7. CASE Done /\ Become(CASE type = "PING" -> HandleClientPingMsg(read, s)
                            [] type = "DISCONNECT" -> RemoveConnection(read, s, fate)
                            [] type = "MOVE" -> Ends(read, "crashed")
                            [] type = "error" -> Exit(read, fate)
                            [] OTHER -> read)
  <2>1. Sound(HandleClientPingMsg(read, s))
    BY <1>1, <1>5, PongKeeps
  <2>2. Sound(RemoveConnection(read, s, fate)) /\ Sound(Exit(read, fate))
    BY <1>5, RemoveKeeps, ExitSound
  <2>3. Sound(Ends(read, "crashed"))
    BY <1>5, EndsSound
  <2>4. PICK M : Sound(M) /\ Become(M)
    <3>1. CASE type = "PING"
      BY <1>7, <2>1, <3>1
    <3>2. CASE type = "DISCONNECT"
      BY <1>7, <2>2, <3>2
    <3>3. CASE type = "MOVE"
      BY <1>7, <2>3, <3>3
    <3>4. CASE type = "error"
      BY <1>7, <2>2, <3>4
    <3>5. CASE type \notin {"PING", "DISCONNECT", "MOVE", "error"}
      BY <1>5, <1>7, <3>5
    <3> QED
      BY <3>1, <3>2, <3>3, <3>4, <3>5
  <2> QED
    BY <1>1, <1>7, <2>4, HandledKeeps
<1> QED
  BY <1>3, <1>6, <1>7

LEMMA StaleKeeps == ASSUME IInv, NEW s, NEW fate, HandleStaleRequest(s, fate) PROVE IInv'
BY MemoryIsSound, ExitSound, HandledKeeps DEF HandleStaleRequest, IInv

LEMMA HangUpKeeps == ASSUME IInv, NEW s \in Slots, NEW fate, HandleHangUp(s, fate) PROVE IInv'
BY MemoryIsSound, RemoveKeeps, HandledKeeps DEF HandleHangUp, IInv

(* After a move it is the turn of the opponent. *)
LEMMA MovedKeeps ==
  ASSUME NEW M, Sound(M), NEW s \in Slots, M.conns[s].opponent # None,
         NEW N, DOMAIN N = MemoryFields, N.conns = M.conns, N.waiting = M.waiting, N.count = M.count,
         N.games = [M.games EXCEPT ![M.conns[s].game] = M.conns[s].opponent]
  PROVE  Sound(N)
<1>1. /\ SlotsAgree(M) /\ Pairs(M) /\ WaitsAlone(M) /\ OwnNames(M)
      /\ DOMAIN M.conns = Slots /\ DOMAIN M.games = Slots
  BY DEF Sound, Tables
<1> DEFINE o == M.conns[s].opponent
           h == M.conns[s].game
<1>2. /\ o \in Slots \ {s} /\ M.conns[o].opponent = s /\ h \in {s, o} /\ M.conns[o].game = h
      /\ s # None
  BY <1>1, SlotsAreFinite DEF Pairs
<1>3. DOMAIN N.games = Slots /\ N.games[h] = o /\ \A g \in Slots \ {h} : N.games[g] = M.games[g]
  BY <1>1, <1>2
<1> HIDE DEF o, h
<1>4. Pairs(N)
  <2> SUFFICES ASSUME NEW t \in Slots, M.conns[t].opponent # None
               PROVE  LET p == M.conns[t].opponent
                          g == M.conns[t].game
                      IN  /\ p \in Slots \ {t} /\ M.conns[p].opponent = t /\ M.conns[t].nickname # {}
                          /\ g \in {t, p} /\ M.conns[p].game = g /\ N.games[g] \in {t, p}
    BY DEF Pairs
  <2> DEFINE p == M.conns[t].opponent
             g == M.conns[t].game
  <2>1. /\ p \in Slots \ {t} /\ M.conns[p].opponent = t /\ M.conns[t].nickname # {}
        /\ g \in {t, p} /\ M.conns[p].game = g /\ M.games[g] \in {t, p}
    BY <1>1 DEF Pairs
  <2>2. CASE t = s
    BY <1>2, <1>3, <2>1, <2>2, SMTT(30) DEF o, h
  <2>3. CASE t = o
    BY <1>2, <1>3, <2>1, <2>3 DEF o, h
  <2>4. CASE t \notin {s, o}
    <3>1. p \notin {s, o}
      BY <1>2, <2>1, <2>4 DEF o
    <3>2. g \in Slots \ {h}
      BY <1>2, <2>1, <2>4, <3>1
    <3> QED
      BY <1>3, <2>1, <3>2
  <2> QED
    BY <2>2, <2>3, <2>4
<1> QED
  BY <1>1, <1>3, <1>4 DEF Sound, Tables, SlotsAgree, WaitsAlone, OwnNames, Used

LEMMA MoveKeeps ==
  ASSUME IInv, NEW s \in Slots, NEW result, NEW free, NEW fate,
         HandleClientMoveMsg(s, result, free, fate)
  PROVE  IInv'
<1> DEFINE valid == IsValidMove(games[req.game], s, free)
           moved == [Memory EXCEPT !.games[req.game] = req.opponent]
           sent == SendGameState(moved, s, conns[s].opponent, fate)
           told == SendGameResult(sent, s, conns[s].opponent, result, fate)
           N == IF ~ valid THEN Memory
                ELSE IF sent.ok /\ result = "PLAYING" THEN sent
                ELSE RemoveConnection(IF sent.ok THEN told ELSE sent, s, fate)
<1>1. state = "up" /\ s = req.slot /\ s # None /\ Become(N) /\ req' = [Idle EXCEPT !.events = Tail(req.events)]
  BY DEF HandleClientMoveMsg
<1>2. Sound(Memory) /\ Memory.conns = conns /\ Memory.games = games
  BY MemoryIsSound DEF IInv
<1>3. conns[s].game = req.game /\ conns[s].opponent = req.opponent /\ req.opponent # None
  BY <1>1 DEF IInv, MovesOn
<1>4. /\ DOMAIN moved = MemoryFields /\ moved.conns = Memory.conns /\ moved.waiting = Memory.waiting
      /\ moved.count = Memory.count
      /\ moved.games = [Memory.games EXCEPT ![Memory.conns[s].game] = Memory.conns[s].opponent]
  BY <1>2, <1>3 DEF Memory, MemoryFields
<1> HIDE DEF moved
<1>5. Sound(moved)
  BY <1>2, <1>3, <1>4, MovedKeeps
<1>6. Told(moved, sent)
  BY <1>4, GameStateTells
<1>7. Sound(sent)
  BY <1>5, <1>6, SameIsSound DEF Told
<1> HIDE DEF sent
<1>8. Told(sent, told)
  BY <1>7, GameResultTells DEF Sound
<1>9. Sound(told)
  BY <1>7, <1>8, SameIsSound DEF Told
<1> HIDE DEF told
<1>10. Sound(N)
  <2>1. Sound(RemoveConnection(told, s, fate)) /\ Sound(RemoveConnection(sent, s, fate))
    BY <1>7, <1>9, RemoveKeeps
  <2> QED
    BY <1>2, <1>7, <2>1
<1> HIDE DEF N
<1>11. Tables(Memory)'
  BY <1>1, <1>10, BecomesSound
<1>12. MovesOn'
  BY <1>1 DEF MovesOn, Idle
<1> QED
  BY <1>11, <1>12 DEF IInv

(* What has become of a move when its game may have been taken from it. *)
LEMMA MovesOnAfter ==
  ASSUME IInv, UNCHANGED req, NEW M, Sound(M), Become(M),
         \/ M.state = "up" /\ state = "up" /\ SameGames(Memory, M)
         \/ M.state = "exiting" /\ state = "up" /\ FewerGames(Memory, M)
         \/ M.state \notin {"up", "exiting"}
  PROVE  IInv'
<1>1. Tables(Memory)' /\ conns' = M.conns /\ state' = M.state
  BY BecomesSound
<1>2. Memory.conns = conns
  BY DEF Memory
<1>3. MovesOn'
  BY <1>1, <1>2 DEF IInv, MovesOn, SameGames, FewerGames
<1> QED
  BY <1>1, <1>3 DEF IInv

LEMMA SigintKeeps == ASSUME IInv, NEW fate, SigintHandler(fate) PROVE IInv'
<1> DEFINE N == Exit(Memory, fate)
<1>1. Sound(Memory) /\ Memory.state = state /\ state = "up" /\ Become(N) /\ UNCHANGED req
  BY MemoryIsSound DEF IInv, SigintHandler
<1>2. Sound(N) /\ N.state # "up" /\ (N.state = "exiting" => FewerGames(Memory, N))
  BY <1>1, ExitSound
<1> HIDE DEF N
<1> QED
  BY <1>1, <1>2, MovesOnAfter

LEMMA PingHandlerKeeps == ASSUME IInv, NEW fate, PingHandler(fate) PROVE IInv'
<1> DEFINE pinged == PingConnections(fate)
           exit == Exit(pinged, fate)
           N == IF pinged.ok \/ pinged.state # "up" THEN pinged ELSE exit
<1>1. Sound(Memory) /\ Memory.state = state /\ state = "up"
  BY MemoryIsSound DEF IInv, PingHandler
<1>2. Become(N) /\ UNCHANGED req
  BY DEF PingHandler
<1>3. Kept("ping", Memory, pinged)
  BY <1>1, AllSlotsKeep DEF PingConnections
<1>4. /\ Sound(exit) /\ exit.state # "up"
      /\ pinged.state = "up" /\ exit.state = "exiting" => FewerGames(pinged, exit)
  BY <1>3, ExitSound DEF Kept
<1> HIDE DEF pinged, exit
<1>5. /\ Sound(N)
      /\ \/ N.state = "up" /\ state = "up" /\ SameGames(Memory, N)
         \/ N.state = "exiting" /\ state = "up" /\ FewerGames(Memory, N)
         \/ N.state \notin {"up", "exiting"}
  BY <1>1, <1>3, <1>4 DEF Kept, SameGames, FewerGames
<1> HIDE DEF N
<1> QED
  BY <1>2, <1>5, MovesOnAfter

(* A move that goes on while the server exits keeps the tables too. *)
LEMMA MoveInExitKeeps == ASSUME IInv, MoveInExit PROVE IInv'
<1> DEFINE moved == [Memory EXCEPT !.games[req.game] = req.opponent]
<1>1. /\ state = "exiting" /\ req.slot \in Slots /\ req.opponent # None /\ req' = Idle
      /\ Sound(Memory) /\ Memory.conns = conns /\ Memory.games = games
  BY MemoryIsSound DEF IInv, MoveInExit, MovesOn
<1>2. MovesOn'
  BY <1>1 DEF MovesOn, Idle
<1>3. conns[req.slot].opponent # None
        => conns[req.slot].game = req.game /\ conns[req.slot].opponent = req.opponent
  BY <1>1 DEF IInv, MovesOn, MoveInExit
<1>4. CASE Become(Memory)
  BY <1>1, <1>2, <1>4, BecomesSound DEF IInv
<1>5. CASE conns[req.slot].opponent # None /\ Become(moved)
  <2>1. conns[req.slot].game = req.game /\ conns[req.slot].opponent = req.opponent
    BY <1>5, <1>3
  <2>2. /\ DOMAIN moved = MemoryFields /\ moved.conns = Memory.conns /\ moved.waiting = Memory.waiting
        /\ moved.count = Memory.count
        /\ moved.games = [Memory.games EXCEPT ![Memory.conns[req.slot].game] = Memory.conns[req.slot].opponent]
    BY <1>1, <2>1 DEF Memory, MemoryFields
  <2> HIDE DEF moved
  <2>3. Sound(moved)
    BY <1>1, <2>1, <2>2, MovedKeeps
  <2> QED
    BY <1>2, <1>5, <2>3, BecomesSound DEF IInv
<1>6. CASE Become(Ends(Memory, "crashed"))
  <2>1. Sound(Ends(Memory, "crashed"))
    BY <1>1, EndsSound DEF Sound
  <2> QED
    BY <1>2, <1>6, <2>1, BecomesSound DEF IInv
<1> QED
  BY <1>4, <1>5, <1>6 DEF MoveInExit

LEMMA ExitEndsKeeps == ASSUME IInv, ExitEnds PROVE IInv'
<1> DEFINE N == Ends(Memory, "exited")
<1>1. Sound(N) /\ N.state = "exited" /\ Become(N) /\ UNCHANGED req
  BY MemoryIsSound, EndsSound DEF IInv, Sound, ExitEnds
<1> HIDE DEF N
<1> QED
  BY <1>1, MovesOnAfter

-----------------------------------------------------------------------------
(* Every step keeps the invariant.                                          *)

LEMMA ClientKeeps == ASSUME IInv, NEW c, ClientStep(c) PROVE IInv'
<1>1. UNCHANGED memoryVars /\ UNCHANGED req
  BY DEF ClientStep, ConnectToServer, HandleStdinEvent, HandlePingMsg, Leave, CloseClientSocket
<1> QED
  BY <1>1, NoStep

LEMMA InitSound == ASSUME Init PROVE IInv
<1>1. /\ Memory.conns = [s \in Slots |-> Empty] /\ Memory.games = [s \in Slots |-> None]
      /\ Memory.waiting = None /\ Memory.count = 0
  BY DEF Init, Memory
<1>2. SlotsAgree(Memory) /\ Pairs(Memory) /\ WaitsAlone(Memory) /\ OwnNames(Memory)
  BY <1>1, EmptyFields DEF SlotsAgree, Pairs, WaitsAlone, OwnNames
<1>3. Used(Memory) = {}
  BY <1>1, EmptyFields DEF Used
<1>4. Tables(Memory)
  BY <1>1, <1>2, <1>3, FS_EmptySet DEF Tables
<1>5. MovesOn
  BY DEF Init, MovesOn, Idle
<1> QED
  BY <1>4, <1>5 DEF IInv

LEMMA NextKeeps == ASSUME IInv, [Next]_vars PROVE IInv'
<1>1. CASE EpollWait
  BY <1>1, EpollWaitKeeps
<1>2. ASSUME NEW fate, NEW c, HandleNewConnectionRequest(c, fate)
      PROVE  IInv'
  BY <1>2, NewConnectionKeeps
<1>3. ASSUME NEW fate, NEW s \in Slots, RegisterClient(s, fate)
      PROVE  IInv'
  BY <1>3, RegisterKeeps
<1>4. ASSUME NEW fate, NEW s \in Slots, HandleClientRequest(s, fate)
      PROVE  IInv'
  BY <1>4, RequestKeeps
<1>5. ASSUME NEW fate, NEW s \in Slots, HandleStaleRequest(s, fate) \/ HandleHangUp(s, fate)
      PROVE  IInv'
  BY <1>5, StaleKeeps, HangUpKeeps
<1>6. ASSUME NEW fate, NEW s \in Slots, NEW result, NEW free, HandleClientMoveMsg(s, result, free, fate)
      PROVE  IInv'
  BY <1>6, MoveKeeps
<1>7. ASSUME NEW fate, PingHandler(fate) \/ SigintHandler(fate)
      PROVE  IInv'
  BY <1>7, PingHandlerKeeps, SigintKeeps
<1>8. ASSUME NEW c, ClientStep(c)
      PROVE  IInv'
  BY <1>8, ClientKeeps
<1>9. CASE MoveInExit \/ ExitEnds
  BY <1>9, MoveInExitKeeps, ExitEndsKeeps
<1>10. CASE UNCHANGED vars
  BY <1>10, NoStep DEF vars, memoryVars
<1> QED
  BY <1>1, <1>2, <1>3, <1>4, <1>5, <1>6, <1>7, <1>8, <1>9, <1>10 DEF Next, RequestsHandler

LEMMA Invariance == Spec => []IInv
BY InitSound, NextKeeps, PTL DEF Spec

-----------------------------------------------------------------------------
(* Whatever fails half-way, and whoever runs in between, two opponents have *)
(* each other and a game of their own, in which it is the turn of one.      *)
THEOREM GamesAreShared == Spec => []OpponentsShareTheirGame
<1>1. ASSUME IInv PROVE OpponentsShareTheirGame
  <2> SUFFICES ASSUME state = "up", NEW s \in Playing
               PROVE  LET o == conns[s].opponent
                      IN  /\ o # s /\ conns[o].opponent = s /\ {s, o} \subseteq Registered
                          /\ conns[s].game = conns[o].game /\ games[conns[s].game] \in {s, o}
                          /\ \A t \in Playing \ {s, o} : conns[t].game # conns[s].game
    BY DEF OpponentsShareTheirGame
  <2>1. Pairs(Memory) /\ Memory.conns = conns /\ Memory.games = games
    BY <1>1, MemoryIsSound DEF IInv, Tables
  <2>2. \A t \in Playing :
          /\ t \in Slots /\ conns[t].opponent \in Slots \ {t} /\ conns[conns[t].opponent].opponent = t
          /\ conns[t].nickname # {} /\ conns[t].game \in {t, conns[t].opponent}
          /\ conns[conns[t].opponent].game = conns[t].game
          /\ games[conns[t].game] \in {t, conns[t].opponent}
    BY <2>1 DEF Playing, Pairs
  <2> DEFINE o == conns[s].opponent
  <2>3. o \in Playing
    BY <2>2, SlotsAreFinite DEF Playing
  <2>4. {s, o} \subseteq Registered
    BY <2>2, <2>3 DEF Registered
  <2>5. ASSUME NEW t \in Playing \ {s, o} PROVE conns[t].game # conns[s].game
    <3>1. conns[t].opponent \notin {s, o}
      BY <2>2, <2>3
    <3> QED
      BY <2>2, <3>1
  <2> QED
    BY <2>2, <2>4, <2>5
<1> QED
  BY <1>1, Invariance, PTL

(* The client that the next one is paired with is registered and free.      *)
THEOREM WaitingIsFree == Spec => []WaitingCanBePaired
<1>1. ASSUME IInv PROVE WaitingCanBePaired
  BY <1>1, MemoryIsSound DEF IInv, Tables, WaitsAlone, WaitingCanBePaired, Registered, Playing
<1> QED
  BY <1>1, Invariance, PTL

(* No two clients are registered under one nickname.                        *)
THEOREM NicknamesAlwaysDiffer == Spec => []NicknamesDiffer
<1>1. ASSUME IInv PROVE NicknamesDiffer
  BY <1>1, MemoryIsSound DEF IInv, Tables, OwnNames, NicknamesDiffer, Registered
<1> QED
  BY <1>1, Invariance, PTL

(* A move uses the game and the opponent that are its player's: nothing     *)
(* that runs while it holds no mutex ends that game, but exit_handler, when *)
(* it has removed the player's connection or its opponent's.                *)
THEOREM MovesAreLive == Spec => []MoveUsesLiveGame
<1>1. ASSUME IInv PROVE MoveUsesLiveGame
  <2> SUFFICES ASSUME state \in {"up", "exiting"}, req.slot # None,
                      ~(state = "exiting" /\ conns[req.slot].opponent = None)
               PROVE  /\ conns[req.slot].game = req.game /\ conns[req.slot].opponent = req.opponent
                      /\ games[req.game] # None
    BY DEF MoveUsesLiveGame
  <2>1. /\ req.slot \in Slots /\ req.opponent # None
        /\ conns[req.slot].game = req.game /\ conns[req.slot].opponent = req.opponent
    BY <1>1 DEF IInv, MovesOn
  <2>2. Pairs(Memory) /\ Memory.conns = conns /\ Memory.games = games
    BY <1>1, MemoryIsSound DEF IInv, Tables
  <2>3. req.opponent \in Slots /\ games[req.game] \in {req.slot, req.opponent}
    BY <2>1, <2>2 DEF Pairs
  <2> QED
    BY <2>1, <2>3, SlotsAreFinite
<1> QED
  BY <1>1, Invariance, PTL

(* The count of the connections is never less than there are.               *)
THEOREM AllAreCounted == Spec => []EverybodyIsCounted
<1>1. ASSUME IInv PROVE EverybodyIsCounted
  BY <1>1, MemoryIsSound DEF IInv, Tables, Used, EverybodyIsCounted
<1> QED
  BY <1>1, Invariance, PTL
=============================================================================
