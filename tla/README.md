# TLA+ models of the operating-systems laboratories

The repository holds the C solutions to the laboratories of a course on operating systems, ten
laboratories and an exam. Each is a small system of its own, and most are built of things that run
at the same time and meet in one place: a System V segment, a named semaphore, a message queue, a
socket, a condition variable, a FIFO. This directory models those systems in TLA+, checks the models
with TLC on small instances and proves the most important facts about them with TLAPS for every
instance.

- [Inventory](#inventory): what the repository consists of, what is hard about each part, what makes
  it correct.
- [Modules](#modules): how the modules correspond to the code.
- [Runs](#runs): what TLC checks, in which bounds, under which fairness.
- [Proofs](#proofs): what TLAPS proves and how.
- [Disagreements](#disagreements): where the code does something else than its texts say.
- [Not modelled](#not-modelled) and [Plan](#plan).

To check: `tlc -config X.cfg M` for the runs listed in `PROJECT.json`, `tlapm M_proofs.tla` for the
proofs. In `PROJECT.json`, `map` gives for every definition the lines it translates, `hazards` what is
hard to test in this code, and `mutants` for every property a plausible mistake in the code that it
catches. Operators that are mutants stand right before the definition they would replace.

## Inventory

Paths are relative to `src/laboratoria`.

### Pizzeria, System V (`7. Laboratorium/zad1`) and POSIX (`7. Laboratorium/zad2`)

*State.* `struct Pizzeria` in shared memory: an oven and a table of slots with a counter each. Five
semaphores: free places in the oven, free places on the table, pizzas that wait, pizzas on the way,
and `MEMORY_LOCK`. In zad1 they are one set, and one `semop` applies several operations at once; in
zad2 they are five named semaphores, taken one after another.
*Operations.* A chef puts a pizza into the oven, bakes with the memory unlocked, moves the pizza to
the table. A deliverer takes a pizza from the table, travels, comes back. `main` creates the objects,
employs the workers with `fork` and `execl`, waits, and removes the objects on exit or SIGINT.
*Hard.* A slot is searched in one access and used in a later one; a slot index is kept for seconds
without the lock; the order of `sem_wait` calls decides about deadlock; the IPC objects outlive
the processes, so that a second start meets what a first one left.
*Correct when* no pizza is lost, doubled or overwritten, counters and semaphores agree with the
slots, deliveries never cease, and a pizzeria that opens finds clean memory and full semaphores.

### Santa Claus (`9. Laboratorium/zad1`)

*State.* The group of elves that wait (`elves_waiting_for_help_ids`, `_count`), the number of waiting
reindeer, the deliveries made; six mutexes and four condition variables.
*Operations.* An elf reports a problem or waits for the group before it, the one that completes a
group wakes Santa; a reindeer comes back, the last one wakes Santa; Santa sleeps, delivers, helps.
*Hard.* Counts are tested under mutexes other than those they change under, two waits test no
condition, so that a spurious wakeup ends them, and Santa and the elves take two mutexes in opposite
orders.
*Correct when* Santa never sleeps through a call, never works for an incomplete or changing group,
and ends after his last delivery.

### Tic-tac-toe over stream sockets (`10. Laboratorium/zad1`)

*State.* A table of connections (status, socket, nickname, opponent, game) under one mutex, the
connection that waits for an opponent, the number of connections.
*Operations.* The requests thread handles the events of `epoll_wait`: a new connection, a nickname, a
move, a goodbye, a hangup. The ping thread pings everybody and removes who did not answer.
*Hard.* Pointers between connections and games, read outside of the mutex; slots that are reused;
edge-triggered events of which several are handled in one batch; removal of two connections when a
write to one fails; SIGPIPE; an `exit_handler` that removes connections under a move that goes on.
*Correct when* opponents share a game, the waiting client can be paired, nicknames differ, and
whoever is connected is counted and is removed when silent.

### Chat over System V queues (`6. Laboratorium/zad1`)

*State.* `CLIENT_QUEUES`, from identifier to queue; the server's queue, read by priority; a queue and
two processes for each client.
*Operations.* INIT, LIST, 2ALL, 2ONE, STOP; SIGINT in server and client; removal of queues.
*Hard.* Bounded queues on both sides, messages read out of order, identifiers that are reused, a
queue read by two processes of one client, a signal handler shared by parent and child.
*Correct when* a message is always attributed to the client that sent it, a client stays in the table
until it leaves, and nobody waits for ever for room or for an answer.

### Negative of an image (`8. Laboratorium/zad1`)

*State.* The source and the result image, `new_M`, and the threads.
*Operations.* Create the threads, compute a share by colours (`numbers`) or columns (`block`), join,
save.
*Hard.* Shares that do not divide evenly; an unlocked maximum.
*Correct when* each pixel belongs to exactly one thread and is the negative of its source when saved.

### Chat over POSIX queues (`6. Laboratorium/zad2`)

*State.* As in zad1, with opened descriptors in the table and the priority of a message as its type.
*Operations.* Those of zad1; here the parent of a client shows what arrives and its child types.
*Hard.* INIT is read first and STOP last, so that an identifier can be given away while messages that
carry it still wait; the typing child waits for LIST while the parent polls the same queue; a queue
that is unlinked lives on and wakes nobody.
*Correct when* a client stays in the table until it leaves, and a list that is waited for is on its way.

### Tic-tac-toe over datagrams (`10. Laboratorium/zad2`)

*State.* As in zad1, with an address for each connection; a reliable local socket and a UDP socket.
*Operations.* REGISTER, MOVE, the answers to PING, DISCONNECT; the pings; SIGINT.
*Hard.* UDP loses, repeats and reorders; the server does not hear of a client that is gone; addresses
stay in slots that are used again.
*Correct when* no client has two connections, opponents share a game, and what a local client shows is
what the server believes.

### Signals (`4. Laboratorium/zad3a`, `zad3b`)

*State.* Two processes with their handlers, masks, pending signals and counts.
*Operations.* zad3a sends everything at once and is sent as much back; zad3b has every signal confirmed.
*Hard.* Standard signals coalesce; handlers interrupt each other, and themselves after `sigprocmask`; a
signal may come between `kill` and the wait for its answer.
*Correct when* with real-time signals what is sent back is what was counted, and with confirmations both
sides end and agree.

### Programs that fork and wait

| part | state and operations | what is hard |
|---|---|---|
| FIFO, `5/zad3` | producers write rows of a file through a FIFO, consumers save them in a results file | the lock is given up between read and write; rows are lines of text, and a chunk may have newlines; the FIFO loses what is in it when nobody has it open |
| interpreter of pipelines, `5/zad1` | lines of programs, a process and a pipe for each | which ends of a pipe are open where; a shared file offset that every failing child moves back; the wait stops at the first failure |
| integral, `3/zad2` | a child and a file for each part | a child that fails, is killed or could not be forked; a part read too early |
| search in files, `3/zad3` | a child for each directory | a child that is killed passes for one that ended well; buffers of `stdout` that are copied by `fork` |

### The others

Child processes (`3/zad1`), signal demonstrations (`4/zad1`, `4/zad2`), mail through `popen` (`5/zad2`), blocks
of statistics (`1`), copy, count and list (`2`), exam exercises (`kolokwia`): see [Not modelled](#not-modelled).

## Modules

| module | models | uses |
|---|---|---|
| `PizzaFlow` | what both pizzerias promise: pizzas move from an empty oven slot over an empty table slot into the bag of one deliverer | |
| `PizzeriaMemory` | the shared memory and every access to it, common to zad1 and zad2 | |
| `PizzeriaSysV` | zad1: `chef.c`, `deliverer.c`, the semaphore set | extends `PizzeriaMemory`; implements `PizzaFlow` |
| `PizzeriaPosix` | zad2: `chef.c`, `deliverer.c`, the named semaphores | extends `PizzeriaMemory`; implements `PizzaFlow` |
| `PizzeriaMain`, `MCPizzeriaMain` | zad1 `main.c`: start, employment, end, SIGINT at any time, SIGKILL, restart | extends `PizzeriaSysV` |
| `PizzeriaSysV_proofs`, `PizzeriaPosix_proofs` | theorems about `PizzeriaSysV` and `PizzeriaMain`, about `PizzeriaPosix` | `CommonLemmas` |
| `Santa`, `MCSanta` | `santa.c`, `elf.c`, `reindeer.c` | |
| `Santa_proofs` | theorems about `Santa` | `CommonLemmas` |
| `TicTacToe`, `MCTicTacToe` | `server.c`, `client.c` of `10/zad1` | |
| `TicTacToe_proofs` | theorems about `TicTacToe` | `CommonLemmas` |
| `TicTacToeDatagram`, `MCTicTacToeDatagram` | `server.c`, `client.c` of `10/zad2` | |
| `TicTacToeDatagram_proofs` | theorems about `TicTacToeDatagram` | `CommonLemmas` |
| `ChatSysV`, `MCChatSysV` | `server.c`, `client.c` of `6/zad1` | |
| `ChatPosix` | `server.c`, `client.c` of `6/zad2` | |
| `ChatSysV_proofs` | theorems about `ChatSysV` | `CommonLemmas` |
| `ImageNegative` | `main.c` of `8/zad1` | |
| `SignalsBurst`, `SignalsConfirmed` | `sender.c` and `catcher.c` of `4/zad3a` and of `4/zad3b` | |
| `Fifo` | `producer.c`, `consumer.c` of `5/zad3` | |
| `Pipeline` | `main.c` of `5/zad1` | |
| `Integral` | `libintegrate.c` of `3/zad2` | |
| `FileSearch` | `libfilessearch.c` of `3/zad3` | |
| `MCPrograms` | one of the eight programs above, chosen in the beginning | extends `ImageNegative`, instantiates the others |
| `Programs_proofs` | theorems about `MCPrograms`, that is, about each of the eight programs in it | extends `MCPrograms`; `CommonLemmas` |
| `CommonLemmas` | lemmas on indices, finite sets, sequences and counting that several proofs need | |

What a step is follows one rule in all of them: a step runs from one call that may wait, or one
access to shared state that another may interleave with, to the next. Sleeps take no time. Printing
is left out.

**Pizzeria.** `pc` says where a worker is; the names are those of the functions in `chef.c` and
`deliverer.c`. Searching a slot (`FindOvenSlot`) and using it (`StoreInOven`) are two steps of
`PizzeriaMemory`, because nothing but the semaphores keeps another process from coming between. The
refinement of `PizzaFlow` is the identity on the slots; the bag of a deliverer is its `pizza_type`
between taking a pizza and `finish_delivery`. In `PizzeriaSysV` one `semop` is one step (`SemOp`); in
`PizzeriaPosix` every `sem_wait` and `sem_post` is one. `PizzeriaMain` adds the life of the processes
and of the IPC objects, which survive them: creation or reuse under the same key, initialisation, a
failing `semget`, `shmget` or `fork`, SIGINT to main or to all, SIGKILL, a second start. `exit_handler` is two
steps, since it removes the set and the segment in two calls. SIGINT is blocked while it runs as the handler of
SIGINT, and not while it runs because main has returned or failed: then another SIGINT may end it before each of the two calls,
and what is not removed stays (`cut_short`, a history variable that the code does not have). `employ_people`
gets the arrays of process numbers by value, so `exit_handler` signals nobody; that is why workers
end only when their semaphores go.

**Santa.** `holder` is the owner of each mutex, `asleep` the threads in `pthread_cond_wait`; a broadcast
empties `asleep` of its waiters, which then compete for the mutex. A wait may also end with no broadcast
(`WakeSpuriously`). Where the wait is in a loop, the thread tests its condition again; at `elf.c:74` and
`reindeer.c:60`, which test none, it goes on: the elf works and may report again while it is still counted, the
reindeer goes on holiday and may be counted a second time. `woken` and `wakeups`, history variables, remember that it happened, until the group has been helped and the presents delivered.

**Tic-tac-toe.** The handlers of the requests thread call each other and return early, so each is a
function from a record of the server's memory to the record it leaves, with `ok` for its return
value; one event is one step, but a move is two, because it reads its pointers and uses them outside
of the mutex. Writes fail or raise SIGPIPE when the client is gone (`Write`). A batch of events is
handled in its order, so that a later event may find its slot emptied by an earlier one. `exit_handler` cancels
the other threads and does not wait for them: after it has removed the connections (`Exit`, a loop over the slots,
`AllSlots`) a move that was between its two halves still uses its pointers, which may be freed by then (`MoveInExit`),
before the process ends (`ExitEnds`). `unanswered`
is no variable of the server: it counts the pings since the last answer.

**Chat.** `work` is what the server has still to send in the handler it is in; a `msgsnd` that finds the
queue full keeps it there. `parent` and `child` are the positions of the two processes of a client.
`handle_exit` is registered with `atexit` before `fork` and therefore runs in both: a child that ends
removes the queue of its parent. A message that leaves the ID out, as INIT does, carries 0. SIGINT runs `send_STOP` in
the parent, and `exit_handler` in the server (`Interrupt`, `sigint_handler`); both block it in the handler of SIGINT and not when they
got there by themselves. So a client that has sent a typed STOP may be interrupted before it has exited and send a second
one (`sigint` is "again"), and a server that closes after an error may be stopped before it has told everybody ("cut
off"); the second `exit` of a process does not run its `atexit` functions again. `TerminalSpec` adds CTRL+C typed in
a terminal, which is sent to both processes at once.

In `ChatPosix` a type is a priority, `work` is the type of what is being sent and the set of places it still
goes to, in ascending order, a removed queue wakes nobody, and the two processes of a client have
changed places. An ID of -1, sent before the answer to INIT, is read as 1 (`Parsed`), as `parse_msg`
does by skipping a `-`.

**Tic-tac-toe over datagrams.** What a network client has ever been able to send may arrive at any time, any
number of times, or never: so there is no network in the model, but `HandleNetworkEvent`, which takes any
message of any client that has started. Nothing is gained by keeping what is sent to such a client, since
it makes no difference to the server. Local clients have queues. A board is a set of fields that are
taken; whether the last one makes a line is left open.

**Signals.** A signal that is not blocked is delivered before the next step of its process, and is blocked
in its own handler. `SignalsBurst` keeps the handlers that are interrupted, because they return;
`SignalsConfirmed` keeps the one on top, because none ever does. Standard signals are pending once,
real-time signals as often as they were sent.

**FIFO, pipelines, integral, search.** Opening a FIFO waits for the other side; what is in it is gone when
the last process closes it; reading at its end is possible only when nobody can write. The results file is a
sequence of lines, each the chunks that stand in it; of a chunk's text the newlines are kept, and one that has some
is read back as several lines (`Rewritten`). For a pipeline the
open ends are not variables: `HasWriter` and `HasReader` derive them from where the processes are between
their `fork` and their `close` calls. The offset of the file of lines is shared by the interpreter and its
children, the buffer is not: each child that cannot `exec` has a copy of it, and its `exit` moves the offset back by
what is unread in the copy, from wherever other children have moved it (`MovedBack`). A child of the integral or the search may not be forked, fail or be killed (`Killed`);
`waitpid(-1)` of one that was not forked waits for any other, and one that was killed passes for one that ended well.

**Image.** The pixels a thread only looks at are no steps; a pixel it writes is one, and so is the
assignment to `new_M` that may follow. The code is compiled with `-O0`, so accesses are neither merged
nor reordered.

## Runs

| run | instance | checks |
|---|---|---|
| `pizzeria_sysv` | 3 chefs, 2 deliverers, oven 2, table 1, two kinds of pizza | mutual exclusion, no "should never happen", a kept slot index stays valid, counters, the inductive invariant `Accounts`, refinement of `PizzaFlow`, deliveries never cease |
| `pizzeria_posix` | 3 chefs, 2 deliverers, oven 1, table 2 | the same for the order of `sem_wait` in zad2 |
| `pizzeria_main` | 2 chefs, 1 deliverer, oven and table of 1, two starts, SIGINT at any time | a pizzeria opens clean, one worker in memory also across restarts, everybody ends after SIGINT, all with named exceptions for an `exit_handler` that is cut short |
| `pizzeria_killed` | the same, one SIGKILL | *violated*: see below |
| `santa` | 3 elves in groups of 2, 2 reindeer, 2 deliveries, a spurious wakeup of a reindeer before each, of others any number | no missed call, no elf twice and all reindeer but for who woke by themselves, the group does not change |
| `santa_finishes` | 2 elves, 2 reindeer, 1 delivery | *violated* |
| `tictactoe` | a local and two TCP clients with one nickname, 2 connections, a ping | opponents and games, pairing, nicknames, count; only `exit_handler` takes the game away from a move |
| `tictactoe_silent` | two clients, two pings | *violated* |
| `tictactoe_datagram` | two local clients and one of the network, two with one nickname, 2 connections, a board of 2 fields, a ping | one connection per address, opponents and games, what local clients show |
| `chat` | 2 clients, a server queue of 2, client queues of 1, 2 commands | attribution of messages, places in the table, no endless wait, but for clients that stop twice |
| `chat_terminal` | the same with CTRL+C | *violated* |
| `programs` | see below | ten promises of eight programs |

*The run `programs`.* The eight smaller programs have nothing to do with each other; `MCPrograms` puts them
in one run, in which `program` says which of them is executed. The image has its own variables, the others
share `v1`, `v2`, ... in the order of their declarations. For a trace with the names of one module, run that module
alone (`SPECIFICATION Spec`) with its constants from `Programs.cfg`. The instances: images of 3 by 2 with 4
colours, 1 to 3 threads, both methods; the POSIX chat with 2 clients, places for 2, a server queue of 2,
client queues of 1 and 2 commands; up to 3 signals; 2 producers, 2 consumers, files of up to 2 chunks with at most a newline each; a declaration and 2 lines
out of seven that have one to three programs, pipes of 1, 2 items, at most 4 runs of lines; 1 to 3 parts of an integral; a tree of
four directories and five files, searched to a depth of up to 3.

*Why the bounds are enough.* More workers than places, so that every semaphore is exhausted and
somebody waits at each; an oven or table of one and one of two, so that a slot index can be the wrong
one. Three elves for groups of two: one is always too many. Three clients for two connections: one is
refused and takes a place that becomes free. In the chat both queues fill up with two commands and a
STOP, and two clients are enough for an identifier to change hands; three commands give the same
results in a longer run. Two starts of main are one restart. In both
chats two clients fill a table of two, and no third one finds it full; with `MaxClients = 1` in
`MCChatSysV.cfg`, or in `ChatPosix` alone, that branch is taken too and the properties hold. `MaxRuns` bounds how often lines are run again after
programs that do not exist: with one of them two lines are run three times in all, and with two of them in a line again and
again, so that the bound is reached. A newline for each of two chunks moves the second line of two by more than one. A pipe of one item is full at once. Three signals
make one pending, one handled and one to come. `MaxPinged` and
`PingsWhileTwo` bound both games: a round of pings starts when at most two clients have come, and while a
ping or its answer is on its way the third one does not come. `Followed` ends the run of the pizzeria, after an
`exit_handler` was cut short, where a chef stores beyond an array or two workers have met. `MaxWakeups` counts the wakeups of
reindeer alone, since each lets their count grow by one more. Three columns are divided by one and
three threads and not by two, and four colours not by three. Bounds that are not in the code are
constants with the word *bound* in their declaration.

*Fairness.* The pizzeria assumes weak fairness of each worker: one that can go on does. Its
`KeepsDelivering` therefore says that the workers as a whole never get stuck, not that each gets its
turn, which `semop` does not promise. `PizzeriaMain` assumes the same of main and the workers. The chat
assumes weak fairness of the server and of each process of a client, and none of the user: nobody has
to type. `santa_finishes` is violated even under strong fairness of each thread, which is more than
pthreads gives: the counterexample is a deadlock and not an unfair schedule. The other properties are
safety properties and assume nothing.

*Symmetry* is used for safety only: elves, reindeer, and the TCP clients of tic-tac-toe are alike. The liveness properties of the chat
forbid it; `MCChatSysV` instead looks at the behaviours in which a given client is the first whose INIT is sent
(`FirstIsFirst`), which stand for all others by renaming. Fairness makes that client go on, so that the constraint
keeps nobody waiting.

*Deadlock* is checked where the system runs for ever (`pizzeria_sysv`, `pizzeria_posix`,
`pizzeria_main`, whose end is a step); elsewhere the system may stop: the server ends, the clients have
gone, the programs of `programs` end. That none of those stops too early is said by `EndsInAgreement` and
`ProgramsGoOn`, which are invariants about the states in which nothing moves any more.

*Type invariants.* Runs of modules with deeper properties do not repeat `TypeOK`; those of both pizzerias, of
Santa and of the image are theorems, and types are a part of every other inductive invariant.

*Limits of some properties.* Where the code breaks what a property would say at its simplest, the property names when, and
demands it of everything else; the cases are listed under [Disagreements](#disagreements).

- `OpensClean` and `OneInMemory` except an `exit_handler` that a SIGINT has ended before it had removed both objects, until a later
  one removes them (`cut_short`); `EverybodyGoesHome` excepts it while the semaphore set is still there.
- `NoElfCountedTwice` excepts elves that woke with no broadcast since Santa last helped (`woken`), and `DeliversWithAll` as many reindeer as
  did since the last delivery (`wakeups`). `TypeOK` says that no more elves are *counted* than may wait, not that no more wait.
- `MoveUsesLiveGame` excepts a move whose player `exit_handler` has removed, or left without an opponent.
- `SenderIsWhoItSays` and `KeepsItsPlace` except all that follows a client which stops twice (`StopsTwice`). `ServerGetsThrough`
  and `ListEnds` except a client that gets a SIGINT before it has a child (`StopsWithoutChild`): it then waits for room in the server's
  queue while nobody empties its own, and server and client may wait for each other for ever. They also except the queue of
  a client that was interrupted while it left (`LeavesItsQueue`), and a server that is cut off while it closes. CTRL+C in a terminal takes the child away from
  its queue, too; both are stated of `FairSpec`, where SIGINT goes to one process.
- `ChatKeepsItsPlace` and `ListIsComing` except a client that was interrupted before it had an ID, which stops
  client 1, whoever that is (`StoppedWithoutId`).
- `SavedIsNegative` is about the pixels that belong to a thread (`Covered`): all with the method `block`, and with `numbers`
  those but of the brightest colours when the number of threads does not divide `M + 1`. `new_M` may end below the
  largest colour that was written; no property claims otherwise.
- `EndsInAgreement` demands that the signals asked for, sent and received are equally many, and where the sender was
  interrupted by an answer before it had counted its signal (`early`), says by how much they differ.
- `NothingIsLost` excepts consumers that save or start at the same time, and a FIFO that the last process closes while chunks are in it
  (`disturbed`). The row of a producer is claimed while no newline was in a file of its own or of a lower row (`Straight`).
- `LinesRunInOrder` demands of any file that all lines are run in order before any is run again; what follows is claimed when at
  most one program is missing.
- `EveryFileIsListed` is about searches that succeed, about single lines on a terminal, and not about what is in or below a
  directory whose process was killed (`Unharmed`).
- `ProgramsGoOn` says that some program can go on while the interpreter waits, not that each of its line ends before the next.

## Proofs

The theorems are about any value of the constants that the named assumptions of the modules allow. These are
what the code presupposes: finitely many workers, elves and reindeer, of different names; capacities of at
least one; numbers where numbers are meant; and that the values for an empty or a broken slot are not
clients (`SlotsAreNoClients`), no producer is called "none", lines of a pipeline have one to three programs
(`ShortLines`, as many as `MaxParts`), and the directories that are searched are a finite tree (`RealTree`: `readdir` gives
each entry once, and the search goes on only in what is itself a directory, `DT_DIR`, and no link). A queue or pipe may be of any length, a bound of a run of any size.

The argument is the same everywhere: the property is not inductive, an invariant that is (`IInv`, in the module
or at the top of its proofs) holds in the beginning and is kept by every step, with one lemma or case for
each action, and implies the property. What makes each of them more than the property is this.

**System V pizzeria** (`PizzeriaSysV_proofs`). That no slot is overwritten depends on the semaphores, whose
values depend on where all the workers are. `Accounts` closes the circle. It says who is in the memory, what is
in whose hands, and which worker accounts for each unit of each semaphore and each occupied slot: the free
places in the oven and the chefs that have reserved one add up to the capacity (`OvenAccount`); every
occupied oven slot is that of exactly one baking chef (`OvenOwners`); what is on the table, corrected by those
who have announced a change and not made it yet, agrees with its two semaphores (`TableAccount`). Counting
lemmas say how the number of workers at a place changes when one moves. From `Accounts` follow the
invariants of the run (`TypeCorrect`, `MemoryIsExclusive`, `NeverOverfullAlways`, `OvenIndexAlwaysValid`,
`CountersAlwaysAgree`), that the deliverer's loop always finds a pizza (`DelivererAlwaysHasPizza`), that
`finish_delivery` never waits (`FinishIsImmediate`), and the refinement: the initial state is one of
`PizzaFlow`, and each step is one of its steps or leaves its variables alone (`SysVImplementsFlow`).

**POSIX pizzeria** (`PizzeriaPosix_proofs`). A semaphore is taken or posted by a step of its own, and some
are posted before the memory changes and others after; so between two of these steps a worker accounts for
a unit that neither the semaphore nor the memory shows. `Balance` has one equation for each semaphore and each
counter, with the set of the places in the code between them (`PlaceInOven`, `Announced`, `Claimed`, ...). The
results are those of the System V pizzeria, `PosixImplementsFlow` among them.

**Opening and closing** (end of `PizzeriaSysV_proofs`). Workers may die anywhere and keep the lock for ever, and a
slow worker of a closed pizzeria may find the objects of the next one. `Opened` says which objects main knows
(`IdsOfThisRun`), that who is not at work has not begun (`AtHome`), and, unless an `exit_handler` was cut short, that whoever is at work
works with objects that a running main has created and will remove (`AtWork`), and that the lock is 0 while one of
them is in the memory (`LockIsTaken`). `OneInMemoryAlways` holds even with SIGKILL. `AlwaysOpensClean` does not (see
[Disagreements](#disagreements)) and needs `NothingLeftBehind`: without SIGKILL there is a segment only while
a main is there that removes it, or one was cut short. The exception is a part of the invariant because it lasts: workers left
with their semaphores meet those that the next main employs on the same set.

**Santa** (`Santa_proofs`). That no call is missed rests on who holds which mutex and where (`Holders`): a call that
Santa cannot see any more when he falls asleep has a caller that waits for the mutex he holds until then
(`CallIsHeard`), also when the count passes the number of reindeer. The reindeer that are counted are at most those not woken yet
and one for each that woke by itself (`ReindeerAreCounted`), and who is in
the group waits or has woken by itself (`GroupWaits`). From this `CallNeverMissed`, `GroupOfDifferentElves`, `PresentsByAll`,
`TypeCorrect`, and `GroupIsFixed`, which is about steps.

**Chat, System V** (`ChatSysV_proofs`). A place is taken from nobody because every STOP in the queue is one of the
client that the place stands for, and because STOP is read first and INIT last: when an ID is given to another
client, no message that carries it waits any more. `Honest` says what a waiting message says of its sender, `Promised` that an ID on its
way to a client is kept for it, `Places` that it is kept until the client's own STOP. All of them presuppose that no client has stopped
twice, which once it has happened stays so. `NobodyIsMistaken`,
`PlaceUntilStop`.

**Tic-tac-toe over streams** (`TicTacToe_proofs`). The invariant is about a record of the server's memory (`Tables`),
so that it can be asked of what a handler leaves half-way: whether a write fails, ends the server, or comes after a
change, each handler makes sound tables from sound ones, and one lemma per handler says so. `SlotsAgree` ties the status of
a slot to its socket and its nickname; `Pairs` says that opponents have each other and the game one of them
started, which makes the games of two pairs different without being said. `remove_connection` of a pair is the hard
case: the pair is taken apart (`PairFreed`) before the first slot is emptied and before the write to the second, so
that a failure there leaves a count that is too high, never too low. That a move may use its pointers outside of the
mutex (`MovesAreLive`) rests on the round of pings changing no game (`PingSlotKeeps`): it never finds a slot PINGED,
because that status is lost, which is the [disagreement](#disagreements) on silent clients; with it repaired the
theorem would be false, as the mutant `PingedByReference` shows; and on what `exit_handler` leaves of the slot of a move: its own
game and opponent, or no opponent. The loop over the slots is a recursive function; that it
is defined (`LoopIsDefined`) and keeps the tables (`LoopKeeps`) is proved from the least slot at which it would not.
`GamesAreShared`, `WaitingIsFree`, `NicknamesAlwaysDiffer`, `MovesAreLive`, `AllAreCounted`.

**Tic-tac-toe over datagrams** (`TicTacToeDatagram_proofs`). Here too the invariant is about a record of the memory, and
every handler makes sound tables from sound ones: no client has two slots (`OneClientEach`), names are those of their
clients (`OwnNames`), opponents have each other and one game (`Pairs`), who waits has no opponent (`WaitsAlone`), and
whoever is connected is counted. `ConnectionsAreOwn` and `GamesAreShared` follow from the tables alone, whatever the
network delivers. `ClientsShowTheTruth` needs the other side: it says what a local client shows *when nothing waits for
it*, which is kept by no step until it is said of every state what the client *will* show when its queue has been read
(`PhasesShown`, `BoardsShown`: the last message of a kind decides, `LatestAppended` and `MoreToShow`). A client is `Informed`
when that is what its slot says (`WillBelieve`), when it will read that it is to leave (`WillEnd`), when the server has not
dealt with its registration yet (`Unknown`), or when it is leaving by itself; a crashed server owes nobody anything. Half-way through a handler some clients are not told yet; the invariant of the steps in between
(`AllInformed`) therefore names them, and each write takes one out. The loops of the ping thread and of
`exit_handler` are recursive functions over the slots, as over streams.

**Programs** (`Programs_proofs`). The programs are proved in the form in which the run checks them, each with an
invariant of its own, and `Invariance` puts them together.

- *Image.* Arithmetic lemmas say that intervals of one width at its multiples do not meet (`Intervals`) and cover
  what lies below the sum of the widths (`Cover`); with them `OneThreadPerPixel` proves that the shares of two
  threads have no pixel in common, and `SharesCover` that the shares are exactly the covered pixels, rounding
  included. A pixel is painted exactly when its thread has passed it, and a thread that was waited for has passed all
  of its own; at the end that is `SavedImageIsNegative`. That a thread always finds a first pixel among those left
  (`FirstIsIn`) needs the well-foundedness of the natural numbers, for rows and for columns.
- *Pipelines.* While the buffer lasts, which is filled once with all of the file, the lines are run in order (`FirstPass`), wherever
  the offset is moved meanwhile. Nobody moves it unless a program does not exist (`Straight`), and if only one does not, its one process
  moves it once (`MovedOnce`, `Unforked`), so that the second pass begins behind that line and finds its programs started
  already: `LinesAlwaysInOrder`. `PipelinesGoOn` says
  that of the programs of a line one can always move (`SomebodyGoesOn`): one that waits to write leaves the question
  to the next, one that waits to read to the one before, and neither the last nor the first of the line can wait so.
- *Integral.* A result is whole because only a child that has closed its file leaves it with its part (`Files`), and
  because parts are added in order (`Adding`). That there is a result unless something failed needs more: `Waiting`
  says that the parent has waited for the parts up to `i`, in order, unless one was not forked, whose wait takes any
  other child; so a part that is missing when it is added is one that nobody will write any more (`Missing`), which stays so.
- *Signals with confirmations.* One signal, handler or confirmation is under way at a time (`InStep`, `OneAhead`,
  `Stopping`), and the sender has counted what it sent, but for the first one if `early` says so (`Counting`): `ExchangeEndsInAgreement`.
- *Burst.* However handlers are nested, what was sent is counted, pending or in a frame that has not counted yet
  (`Counted`), STOP is handled once (`OneStop`), and nothing interrupts the answer (`Uninterrupted`):
  `AnswerIsComplete`.
- *FIFO.* What is in the FIFO are the last chunks of their producers, in order (`InTurn`); each written chunk is in
  one place (`Once`); who stores has read what the file still is (`OneSaves`); a chunk is in its producer's line or further down, and
  there only if a newline has moved it (`Settled`); and one consumer alone has the next chunk of its line in hand (`NextOfLine`): `NoChunkIsLost`.
  That a rewritten file has the same chunks in it and one more is `ChunkStored`.
- *POSIX chat.* Here STOP comes last, and the invariant is about a server that runs and clients none of whom was
  interrupted without an ID (`Settled`). There is at most one STOP of each client (`OneStop`), for a place that is still
  its own (`Honest`); a client that is being answered has its place already (`Place`); and a list that is waited for is in
  the queue of its client, in its request, or among the places the server still sends to (`Listed`), which are taken
  (`Working`): `ClientsKeepTheirPlaces`, `ListAlwaysComes`.
- *Search.* `EveryFileIsListed` is about what a search over a whole tree has put out, but needs no induction over the tree:
  the level of a directory, which is defined by recursion, is a function that exists (`IsTree`) and is the only one
  (`Levels`), because there would be a directory of least level where two of them differ; and of the directories
  that should have ended well and have not, one has the least level, and so a parent that has (`AllEndedWell`). The
  invariant says for each directory that its process comes from that of its parent, which has passed its entry, with
  one level less to go (`Begun`), that it has waited once for every child it has forked or failed to fork, and only for
  children that have ended well or were killed (`Ended`, which counts both), and that a line of each file it has passed is in its
  buffer or put out, unless it was killed (`Written`): `FilesAlwaysListed`. That a wait for any child (`waitpid(-1)`, for one that was not
  forked) hides no missing child follows from the count: who has finished waiting has waited for as many different
  children as there are directories in its own.

`CommonLemmas` holds what several of these proofs need: what `RemoveAt` and `Append` do to the places of a sequence,
how a count changes when one element comes or goes, the least element of a set of numbers.

Only model-checked is liveness (`KeepsDelivering`, `EverybodyGoesHome`, `ServerGetsThrough`, `ListEnds`), fairness and
ENABLED being out of TLAPS's reach. Every safety property of a passing run is a theorem.

## Disagreements

- **A killed pizzeria** (`pizzeria_killed`). `clear_pizzeria` (`7/zad1/main.c:109`) empties the slots of a
  segment it has found again and keeps the counters. After a SIGKILL with a pizza in the oven and a
  restart, the first chef meets "This error should never happen" (`chef.c:78`), exits, and keeps the lock. A SIGINT is
  enough when it meets `exit_handler` while main returns or has failed: SIGINT is not blocked then, and one that comes
  between the two removals (`main.c:88-94`) leaves the counters; one before them leaves the workers too, whom the next pizzeria meets
  with its semaphores set anew.
- **Santa and the elves** (`santa_finishes`). `santa.c:35-36` and `elf.c:49,63` take two mutexes in opposite
  orders; the program may stop before the deliveries are made that `9. Laboratorium/README.md:45` wants.
- **Silent clients** (`tictactoe_silent`). `ping_connection` (`10/zad1/server.c:205`) sets PINGED in a copy, so
  nobody is ever removed for silence, as `server.c:192-193` says.
- **CTRL+C in a chat client** (`chat_terminal`). Parent and child both send STOP; the second may remove
  another client, which got the identifier in between (`6/zad1/client.c:45`, `server.c:194`). One SIGINT to a client that has
  sent a typed STOP and not exited yet (`client.c:262-267`) does the same.

The following is in the models as well, against what the README of a laboratory asks for. It has no run of its own; the
property that it is an exception of names it, and holds of everything else:

- **Brightest colours** (`SavedIsNegative`). Lab 8 wants the negative of the image (`8. Laboratorium/README.md:3`).
  `(M + 1) / no_threads` is rounded down (`main.c:275`), so unless it divides evenly the brightest colours belong to no
  thread, and their pixels are saved as 0.
- **Counting after sending** (`EndsInAgreement`). Lab 4 wants the given number of signals sent and as many received
  (`4. Laboratorium/README.md:29`, `:41`). `zad3b/sender.c:133` counts a signal after `kill`: a confirmation of the first one that comes in between
  makes the handler start from 0, and one signal more is sent and received than was asked for and than the sender says it has
  sent; an answer to the stop signal that comes in between makes it say one less.
- **Newlines in a chunk** (`NothingIsLost`). Lab 5 wants files of any content (`5. Laboratorium/README.md:67`) in the row of their producer
  (`:63`). `zad3/consumer.c:172-312` keeps rows as lines of text: a chunk that has a newline splits its row, and the rows
  below move on, so that later chunks come to the rows of others.
- **Two consumers** (`NothingIsLost`). The results file is read and written under two locks (`zad3/consumer.c:126`), and a
  consumer that starts empties it (`:163`): chunks are lost, which the laboratory is to show does not happen.
- **Elves that are not counted** (`TypeOK`). An elf that finds the group full under the second mutex (`elf.c:51`) waits for Santa
  all the same, with the three that are counted, while `9. Laboratorium/README.md:48` rules out that more than three do.
- **Waits without a condition** (`NoElfCountedTwice`, `DeliversWithAll`). A wakeup with no broadcast, which POSIX allows, lets a counted elf
  work and report again (`elf.c:74`), so that a group of three is two elves, and sends a counted reindeer on holiday
  (`reindeer.c:60`), so that presents are delivered without all of them, against `9. Laboratorium/README.md:8` and `:41`. If it is counted again
  and the count passes the number of reindeer, Santa is not called any more (`reindeer.c:47` and `santa.c:24` test for equality), and he
  no longer sleeps (`santa.c:56`).
- **Priorities in zad2** (`ChatPosix`). STOP has the lowest priority where `6. Laboratorium/README.md:40` wants the highest.
- **The server's queue** (`ChatSysV`). It is never removed (`6/zad1/server.c:66`), which `6. Laboratorium/README.md:42` and `:47` want.

Further things that the models show or that were met while writing them; no property claims the
opposite:

- `4/zad3a`: `sigsuspend` returns -1 after every signal, which `catcher.c:238` takes for an error; a second
  target that comes while it waits ends it with exit code 1. `pause` in `sender.c:72` waits for ever when
  all answers came before it, and otherwise ends at the first.
- `4/zad3b`: no handler returns, so the stacks grow with every signal.
- `5/zad1`: the wait for a line ends at the first program that fails (`main.c:447`), so that the next line begins before it
  has ended. The child of a program that does not exist calls `exit`, which moves the shared offset back by the lines that its
  copy of the buffer still holds: with one such program the lines after its own are run a second time; with two the
  offset is moved twice, and lines are run again and again, possibly for ever.
- `5/zad3`: `main` waits for nobody.
- `3/zad2`: a child whose part does not come to its file exits with 0; the parent then finds no number in it and gives up.
- `3/zad3`: unless the output is a terminal, lines are put out again by every child forked after them. A child that is
  killed counts as one that ended well (`libfilessearch.c:199`): the search succeeds without the files of its directory.
- `6/zad1`: the server ends for everybody when 2ONE names an unknown client, when LIST comes from one that has left or when one
  client too many comes (`server.c:203`, `:251`, `:164`).
- `6/zad2`: SIGINT before the answer to INIT removes client 1 (`client.c:183`); the server waits for ever for room in the
  queue of a client that reads it no more (`server.c:203`).
- `7/zad2`: `sem_unlink` wakes nobody, so workers outlive `main` (`main.c:107`).
- `8/zad1`: `new_M` has no lock (`main.c:328`).
- `10/zad1`: a client that closes its socket before a write raises SIGPIPE in the server; a move while waiting
  for an opponent (`server.c:509`) reads through NULL; the second event of a batch may find its slot emptied
  or used again (`server.c:265`); `exit_handler` frees the game of a move that has read its pointers and not used them
  (`server.c:93`, `:508-520`), which then reads freed memory, or through NULL when its opponent was taken away.
- `10/zad2`: a REGISTER that arrives twice makes its own client leave without DISCONNECT, and its connection stays
  for good (`server.c:305`), as silent clients are never removed.

## Not modelled

Of the modelled parts: printing and logging; the lengths of sleeps; system calls that fail for lack of
resources, unless named above.

- Pizzeria: a failing `execl`, after which the child goes on as a second main; a removal that fails; the end of zad2, whose
  workers outlive main because `sem_unlink` wakes nobody.
- Santa: creation of the threads.
- Tic-tac-toe: a critical section is one step, so that `exit_handler`, which locks the mutex in the thread the signal
  interrupted, always gets it; where a thread is cancelled, but for a move, whose message and pointers are read in one step;
  `calloc`; the fields of the board, but for their number over datagrams.
- Chat: what is said; the server's log; a SIGINT before its handler is set, or to the child of a client alone; a failing
  `fork`; a second server on the queue of the first, which nobody removes; a client started before the server,
  whose `handle_exit` removes queue 0; keys of two clients that collide because `ftok` keeps 8 bits of the process number; in
  zad2 a client that fails by a 2ONE without receiver.
- Signals: the payload of `sigqueue`, arguments.
- FIFO: `main`; chunks longer than `PIPE_BUF`; a file emptied in the middle of a write, and what a shorter text leaves of a longer
  one it is written over.
- Pipelines: what a declaration says (they are passed over), the splitting into programs and arguments, lines of different
  lengths (the offset is counted in lines).
- Integral: the numbers. Search: what is found. Image: reading arguments and files.

Parts without a module: lab 4 zad1 and zad2 and lab 3 zad1 show rules of the kernel, which a model would
restate; lab 5 zad2, the listing of lab 2 and the exam exercises only call the system; lab 1 and lab 2 are
sequential string and file handling.

## Plan

1. Done: the pizzerias with their abstract specification, Santa, both games of tic-tac-toe, both chats, the image, the
   signals, the FIFO, the pipelines, the integral and the search, with proofs of all their safety properties.
2. Left for later, each with the proof that goes with it:
   - the mutex of `10/zad1` as a variable, for the end of the server; the end of the pizzeria in `7/zad2`; a
     second server on the queue of the first in `6/zad1`.
   - the lines of `5/zad1` (declarations, splitting) and the text functions of lab 2 against reference definitions.
