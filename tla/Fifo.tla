--------------------------------- MODULE Fifo ---------------------------------
(***************************************************************************)
(* Laboratory 5, zad3: producers send their files, chunk by chunk, through  *)
(* a FIFO to consumers, who append each chunk to the producer's row of one  *)
(* results file.  A chunk is written and read whole: it is shorter than     *)
(* PIPE_BUF and they agree on its length.                                   *)
(*                                                                          *)
(* A chunk is any text, of which the newlines in it are kept.  The results   *)
(* file is a sequence of lines, a line the chunks that stand in it; what a   *)
(* chunk has after a newline is a line of its own, empty here.               *)
(* Left out are sleeping, errors of files that cannot be opened, a file     *)
(* emptied in the middle of a write, what a shorter text leaves of a longer *)
(* one that was stored since it was read (both after the file is disturbed), *)
(* and main, which starts the processes and does not wait for any of them   *)
(* (WNOHANG).                                                                *)
(***************************************************************************)
EXTENDS Integers, Sequences, FiniteSets

CONSTANTS Producers,   \* the numbers of their rows
          Consumers,
          MaxChunks,   \* bound: chunks in the file of a producer
          MaxNewlines  \* bound: newlines in a chunk

VARIABLES
  text,      \* producer -> its file: a chunk is the number of newlines in it
  producer,  \* producer -> "start", "opening", "produce", "ended" or "killed"
  written,   \* producer -> chunks it has written
  fifo,      \* what is in the FIFO
  consumer,  \* consumer -> "none", "start", "open", "opening", "read", "load", "store", "close", "ended"
  got,       \* consumer -> the chunk it saves
  copy,      \* consumer -> the lines it has read from the results file
  results,   \* the results file: its lines
  disturbed  \* history: a file in use was emptied, two have saved at once, or the FIFO was left
             \* with chunks in it

vars == <<text, producer, written, fifo, consumer, got, copy, results, disturbed>>

Files == UNION {[1 .. n -> 0 .. MaxNewlines] : n \in 0 .. MaxChunks}
NoRows == <<>>
NoChunk == [row |-> 0, n |-> 0]

Init ==
  /\ text \in [Producers -> Files]
  /\ producer = [p \in Producers |-> "start"] /\ written = [p \in Producers |-> 0]
  /\ consumer \in {f \in [Consumers -> {"none", "start"}] : \E c \in Consumers : f[c] = "start"}
  /\ fifo = <<>> /\ results = NoRows /\ disturbed = FALSE
  /\ got = [c \in Consumers |-> NoChunk] /\ copy = [c \in Consumers |-> NoRows]

Writers == {p \in Producers : producer[p] \in {"opening", "produce"}}
Readers == {c \in Consumers : consumer[c] \in {"opening", "read", "load", "store", "close"}}

(* Opening a FIFO waits for the other side; whoever opens it wakes those who wait there. *)
ProducersWoken == [p \in Producers |-> IF producer[p] = "opening" THEN "produce" ELSE producer[p]]
ConsumersWoken == [c \in Consumers |-> IF consumer[c] = "opening" THEN "read" ELSE consumer[c]]

(* What is in a FIFO that nobody has open is gone. *)
Leave(writers, readers) ==
  /\ fifo' = IF writers \cup readers = {} THEN <<>> ELSE fifo
  /\ disturbed' = (disturbed \/ fifo' # fifo)

-------------------------------------------------------------------------------
(* A producer *)

OpenForWriting(p) ==
  /\ producer[p] = "start"
  /\ producer' = [producer EXCEPT ![p] = IF Readers = {} THEN "opening" ELSE "produce"]
  /\ consumer' = ConsumersWoken
  /\ UNCHANGED <<text, written, fifo, got, copy, results, disturbed>>

(* A chunk written to a FIFO that nobody reads raises SIGPIPE. *)
produce(p) ==
  /\ producer[p] = "produce"
  /\ IF written[p] = Len(text[p])
     THEN /\ producer' = [producer EXCEPT ![p] = "ended"] /\ UNCHANGED written
          /\ Leave(Writers \ {p}, Readers)
     ELSE IF Readers = {}
     THEN /\ producer' = [producer EXCEPT ![p] = "killed"] /\ UNCHANGED written
          /\ Leave(Writers \ {p}, Readers)
     ELSE /\ written' = [written EXCEPT ![p] = @ + 1] /\ UNCHANGED producer
          /\ fifo' = Append(fifo, [row |-> p, n |-> written'[p]]) /\ UNCHANGED disturbed
  /\ UNCHANGED <<text, consumer, got, copy, results>>

-------------------------------------------------------------------------------
(* A consumer *)

Saving == {c \in Consumers : consumer[c] = "store"}

create_empty_file(c) ==
  /\ consumer[c] = "start" /\ consumer' = [consumer EXCEPT ![c] = "open"]
  /\ results' = NoRows /\ disturbed' = (disturbed \/ results # NoRows \/ Saving # {})
  /\ UNCHANGED <<text, producer, written, fifo, got, copy>>

OpenForReading(c) ==
  /\ consumer[c] = "open"
  /\ consumer' = [consumer EXCEPT ![c] = IF Writers = {} THEN "opening" ELSE "read"]
  /\ producer' = ProducersWoken
  /\ UNCHANGED <<text, written, fifo, got, copy, results, disturbed>>

(* An empty FIFO that nobody writes to has come to its end. *)
read_from_fifo(c) ==
  /\ consumer[c] = "read"
  /\ \/ /\ fifo # <<>> /\ fifo' = Tail(fifo)
        /\ got' = [got EXCEPT ![c] = Head(fifo)]
        /\ consumer' = [consumer EXCEPT ![c] = "load"]
     \/ /\ fifo = <<>> /\ Writers = {} /\ consumer' = [consumer EXCEPT ![c] = "close"]
        /\ UNCHANGED <<fifo, got>>
  /\ UNCHANGED <<text, producer, written, copy, results, disturbed>>

(* save_to_results_file locks the file to read it, and again to write it. *)
Load(c) ==
  /\ consumer[c] = "load" /\ consumer' = [consumer EXCEPT ![c] = "store"]
  /\ copy' = [copy EXCEPT ![c] = results]
  /\ disturbed' = (disturbed \/ Saving # {})
  /\ UNCHANGED <<text, producer, written, fifo, got, results>>

(* The lines after one of them was written anew with newlines in it: a line that was not there *)
(* is made, and each newline begins one.                                                        *)
Line(rows, i) == IF i <= Len(rows) THEN rows[i] ELSE <<>>
Rewritten(rows, r, line, newlines) ==
  [i \in 1 .. (IF r <= Len(rows) THEN Len(rows) ELSE r) + newlines |->
     IF i < r THEN Line(rows, i) ELSE IF i = r THEN line
     ELSE IF i <= r + newlines THEN <<>> ELSE Line(rows, i - newlines)]

(* Mutant: the chunk takes the place of what is in the row. *)
append_to_file_rowAnew(rows, chunk) ==
  Rewritten(rows, chunk.row, <<chunk>>, text[chunk.row][chunk.n])
append_to_file_row(rows, chunk) ==
  Rewritten(rows, chunk.row, Append(Line(rows, chunk.row), chunk), text[chunk.row][chunk.n])

Store(c) ==
  /\ consumer[c] = "store" /\ consumer' = [consumer EXCEPT ![c] = "read"]
  /\ results' = append_to_file_row(copy[c], got[c])
  /\ got' = [got EXCEPT ![c] = NoChunk] /\ copy' = [copy EXCEPT ![c] = NoRows]
  /\ UNCHANGED <<text, producer, written, fifo, disturbed>>

Close(c) ==
  /\ consumer[c] = "close" /\ consumer' = [consumer EXCEPT ![c] = "ended"]
  /\ Leave(Writers, Readers \ {c})
  /\ UNCHANGED <<text, producer, written, got, copy, results>>

Next ==
  \/ \E p \in Producers : OpenForWriting(p) \/ produce(p)
  \/ \E c \in Consumers : \/ create_empty_file(c) \/ OpenForReading(c) \/ read_from_fifo(c)
                          \/ Load(c) \/ Store(c) \/ Close(c)

Spec == Init /\ [][Next]_vars

-------------------------------------------------------------------------------
Elements(s) == {s[n] : n \in DOMAIN s}

Stored == UNION {Elements(results[i]) : i \in DOMAIN results}
InHand == {got[c] : c \in Consumers} \ {NoChunk}
Coming == Elements(fifo)
Written == UNION {{[row |-> p, n |-> n] : n \in 1 .. written[p]} : p \in Producers}

(* No chunk is in two places. *)
Once ==
  /\ Stored \cap InHand = {} /\ Stored \cap Coming = {} /\ InHand \cap Coming = {}
  /\ \A i, j \in DOMAIN results : \A k \in DOMAIN results[i], l \in DOMAIN results[j] :
       results[i][k] = results[j][l] => i = j /\ k = l
  /\ \A c, d \in Consumers : got[c] = got[d] => c = d \/ got[c] = NoChunk
  /\ \A k, l \in DOMAIN fifo : fifo[k] = fifo[l] => k = l

(* No file up to the one of producer p has a newline in it. *)
Straight(p) == \A q \in Producers : q <= p => \A n \in DOMAIN text[q] : text[q][n] = 0

(* The line with the producer's number holds its chunks and nobody else's. *)
InItsLine(p) == \A x \in Stored : x.row = p <=> x \in Elements(Line(results, p))

InOrder(p) == \A n \in DOMAIN Line(results, p) : Line(results, p)[n] = [row |-> p, n |-> n]
Alone == Cardinality({c \in Consumers : consumer[c] # "none"}) = 1

(* What a producer has written is in the results, in the hands of a consumer or in the FIFO,   *)
(* each chunk once (save_to_results_file), unless consumers have saved at the same time, one   *)
(* has started while there were results, or the last process has left the FIFO before they     *)
(* were read.  It is in the producer's line, in the order of the file if a consumer works      *)
(* alone: but only while no file up to the producer's has a newline in it, which is read back  *)
(* as the end of the line.                                                                     *)
NothingIsLost ==
  ~disturbed => /\ Once /\ Stored \cup InHand \cup Coming = Written
                /\ \A p \in Producers :
                     Straight(p) => InItsLine(p) /\ (Alone => InOrder(p))

-------------------------------------------------------------------------------
(* The inductive invariant *)

Chunks == {x \in [row : Producers, n : Nat] : x.n \in DOMAIN text[x.row]}
Rows == Seq(Seq(Chunks))

TypeOK ==
  /\ text \in [Producers -> Seq(Nat)] /\ written \in [Producers -> Nat]
  /\ \A p \in Producers : written[p] <= Len(text[p])
  /\ producer \in [Producers -> {"start", "opening", "produce", "ended", "killed"}]
  /\ consumer \in [Consumers -> {"none", "start", "open", "opening", "read", "load", "store",
                                  "close", "ended"}]
  /\ fifo \in Seq(Chunks) /\ got \in [Consumers -> Chunks \cup {NoChunk}]
  /\ results \in Rows /\ copy \in [Consumers -> Rows] /\ disturbed \in BOOLEAN

Hands == \A c \in Consumers : got[c] # NoChunk <=> consumer[c] \in {"load", "store"}

(* What a producer has written after a chunk that is in the FIFO comes after it. *)
InTurn ==
  \A k \in DOMAIN fifo : \A n \in fifo[k].n + 1 .. written[fifo[k].row] :
    \E j \in DOMAIN fifo : j > k /\ fifo[j] = [row |-> fifo[k].row, n |-> n]

OneSaves == \A c \in Saving : Saving = {c} /\ copy[c] = results

(* A chunk is in the line of its producer or further down. *)
Settled ==
  \A i \in DOMAIN results : \A k \in DOMAIN results[i] :
    results[i][k].row <= i /\ (Straight(results[i][k].row) => results[i][k].row = i)

(* The chunk in the hand of a consumer that works alone is the next one of its line. *)
NextOfLine(p) == \A c \in Consumers : got[c].row = p => got[c].n = Len(Line(results, p)) + 1

IInv ==
  /\ TypeOK /\ Hands
  /\ ~disturbed => /\ InTurn /\ OneSaves /\ Once /\ Settled
                   /\ Stored \cup InHand \cup Coming = Written
                   /\ Alone => \A p \in Producers : Straight(p) => InOrder(p) /\ NextOfLine(p)
===============================================================================
