# Systemy operacyjne 2: specifications and proofs

The repository holds the laboratory and workshop programs of a course on operating
systems: small C programs around threads, processes, signals, shared memory, pipes and
sockets, and a copy of the course's web site (`sop-site/`) that states the exercises.
There is no common library: each program is a system of its own.  This project models
the programs whose correctness depends on concurrency, failure or an unreliable network.

Names follow the source (Polish where the source is Polish).

## 1. Inventory

| Program | State | Operations and interaction | What is hard |
|---|---|---|---|
| **Headquarters server** `zadania_8/zadanie1.c` | flag `pracujemy`; stack of reports with a mutex and a condition variable; register of units (names, affiliation, last sender); 100x100 map with a mutex per row | main receives UDP reports and pushes; 4 adjutants pop, parse, register, move the unit on the map; `napoleon_work` prints the map and sends orders; SIGINT ends it | lost wake-ups, sections released and taken again, LIFO order, shutdown races |
| **UDP file transfer** `lab_8/zadanie_1` | client: chunk number, attempts, timer; server: 5 slots (address, chunks seen) | stop-and-wait: the server echoes every chunk it accepts | loss, duplication, delay, SIGALRM against `recv`, slots that outlive clients |
| **Vote server** `zadania_7/warsztatowe/sop-hre.c` | tables elector -> descriptor, descriptor -> elector, votes | one epoll loop over non-blocking TCP connections | descriptors reused by the kernel, several lines in one read, resets |
| **Shop night shift** `zadania_6/w6/sop-shop.c` | shelves in shared memory, a mutex per shelf, `running` and `ile` under another one | m worker processes swap pairs of shelves, a manager inspects | two locks per worker, inspection without locks, deaths of workers |
| Headquarters, circular buffer `zadania_8/zadanie1_buforcykliczny.c` | ring (`head`, `tail`, `count`) in place of the stack, register, map | as above, without addresses and napoleon | indices at the limit, shutdown race; does not compile as committed (line 278) |
| **Calculator** `lab_7/zadanie1` | the buffer `data`, the SIGINT mask | `epoll_pwait`, one request per connection, 32-bit arithmetic | requests in segments, clients that die half-way, overflow |
| **PID digit sum** `zadania_7/zadanie_1` | largest sum | epoll loop over two listening sockets and the clients, SIGINT | `EINTR` swallowed by the retry macro, deaths of clients |
| Barrier and condition variable demo `zadania_6/semafor.c` | named semaphore, shared memory with barrier, mutex, condition variable | creator initialises, others join, all meet twice | creation race, destruction |
| **Board game** `lab_6/zadanie_2` | robust mutex, `N` and board in shared memory | clients take points, die holding the mutex | `EOWNERDEAD`, start-up and destruction races |
| Monte Carlo `lab_6/zad1.c`, `l6-1.c` | shared results, mapped log | children write, the parent adds up after `wait` | the log has 8 lines only |
| FIFO transfer `lab_5/zadanie_1` | the FIFO and its writers | clients write blocks of `PIPE_BUF`, the server reads | atomic writes, end of file, late clients |
| Letters over pipes `lab_5/zadanie_2` | pipes, flags | children answer the parent in frames; SIGINT, SIGCHLD | signal between test and `read`, children that die |
| Number ring, card game, hot potato `zadania_5` | pipes, FIFO, signals | messages between processes | end of file, SIGPIPE, partial failure |
| Lock programs `sop-site/.../wyk/sync/code` (7 files) | a lock word, accounts or a counter | threads enter and leave a section | store buffers, lost wake-ups of a futex |
| Bounded buffers, readers and writers, philosophers, record database, sensors `sop-site/.../wyk/sync2/code`, `wyk/deadlocks/code` | rings, counters, semaphores, records | lecture programs on synchronisation | lost signals, circular waiting, deaths inside a section |
| Skeletons `sop-ziemniak.c`, `sop-roncevaux.c`; `zadania_6/zadanie1.c` | - | unfinished | - |
| the rest of `sop-site/` | - | web site of the course: exercises, tutorials | not part of the programs |

What makes the main components correct:

* headquarters: no report is lost or handled twice; reports do not wait for sleeping
  adjutants; the register has one id per unit; a unit's data stem from one report;
  positions on the map stem from reports and old ones disappear; SIGINT ends the server;
* UDP transfer: chunks are shown in order and without gaps, the client's success means
  that the whole file was shown, duplicates are not shown, slots are not lost, the client ends;
* vote server: one connection per elector, the two tables agree, a place becomes free again;
* shop: products are conserved, order only grows, no deadlock, the shift ends;
* thread programs: a real lock loses no update, a ring is a bounded FIFO queue, nobody sleeps
  through the wake-up meant for it;
* shared memory: objects are used between initialisation and destruction, and what a dead
  owner leaves behind is recovered;
* pipes: messages stay whole and in order, each program ends when its peers do;
* socket servers: an answer belongs to its request, arithmetic is right in its width, SIGINT
  ends the server.

## 2. Modules

| Module | What it is |
|---|---|
| `HqServer` | the headquarters server; `MCHqServer` gives it texts, names and symmetry for TLC; `HqServer_proofs` has the proofs (typing, the queue, the reports, register and map) |
| `FileTransfer` | abstract: what a file transfer promises its user |
| `UdpTransfer` | `client_work`, `server_work` and the network; implements `FileTransfer`; `MCUdpTransfer` gives file sizes; `UdpTransfer_proofs` has the proofs |
| `ElectorServer` | the vote server and its clients |
| `ShopSort` | the night shift; `ShopSort_proofs` has the proofs |
| `BoundedFifo` | abstract: a bounded queue between threads |
| `HqRing` | the headquarters with a ring; implements `BoundedFifo` |
| `BoundedBuffer` | both bounded buffers of the lecture; implement `BoundedFifo` |
| `Locks` | the seven lock programs, on an x86 memory |
| `ReadersWriters`, `Philosophers` | `readers_writers_cv.c`, `dining_philosophers.c` |
| `RobustMutex` | the states of a process-shared, robust pthread mutex (a library of operators) |
| `BoardGame`, `RecordDb` | the board game and the record database, over `RobustMutex` |
| `SemaforDemo`, `SensorAggregator`, `MonteCarlo` | the other programs in shared memory |
| `FifoTransfer`, `LetterPipes`, `NumberRing`, `CardGame`, `HotPotato` | the programs over pipes and FIFOs |
| `Calculator`, `PidSum` | the stream socket servers with their clients |
| `Threads` | the family of the thread programs: `Init` chooses a program, its module's `Next` drives it, and the variables of the others hold `Brak`; the assumptions on the constants, the fairness and the properties of the family are stated here |
| `Shm`, `Pipes`, `Sockets` | the same for shared memory, for pipes and for stream sockets (the vote server included) |
| `MCThreads`, `MCPipes`, `MCSockets` | give the functions among their constants values for TLC (`Shm` needs none) |
| `Threads_proofs`, `Shm_proofs`, `Pipes_proofs`, `Sockets_proofs` | the proofs about the four families |
| `DataLemmas` | lemmas the proofs share: rings and queues, division, sums over finite sets |

### HqServer

A mutex is its holder, a condition variable the set of threads asleep on it; a
`pthread_cond_wait` that was signalled is `pc = "spi"` without membership in `cond`.
`thread_work` is split where another thread can see or disturb it:

    start -Zablokuj-> warunek -SprawdzWarunek-> zasypia -Zasnij-> spi -ObudzSie-> warunek
                                             \-> decyzja -Wyjdz-> koniec
                                                         -Zdejmij-> parsuj -> rejestr
                                                  -> zapisz -> czysc (per row) -> ustaw -> start

The test of the `while` and the entry into `pthread_cond_wait` are separate actions
because the SIGINT handler and the broadcast of main run without the mutex.  Main has a
state of its own between the test of `pracujemy` and `recvfrom`.  `sscanf` is reduced
to its outcome: all four items converted or not, and their values.  The critical sections
under `mutex_do_nazw` and under a row mutex contain no other lock, so each is one action.
What is left out: the texts of messages, `usleep`, fatal errors of system calls,
the destination of an order after it was read (only the choice and the moment of
reading matter to the properties).

### FileTransfer and UdpTransfer

Datagrams in transit are two sets; a delivery may or may not remove the datagram, `Zgub`
removes one: loss, duplication, delay and reordering.  The timer is `budzik[c]`: SIGALRM
is still to come in this `recv`.  With `Zwloka` a client may be held up for half a second
between `setitimer` and `recv`; then the signal has come and gone and `budzik` is false
in `recv`.  The refinement mapping: `potwierdzone` is `chunkNo - 1` until success,
`stan` is `faza` with "wyslij" and "recv" as "trwa", `wydruk` is itself.  The data of the
chunks are abstracted to their numbers; the EPIPE branch of the server's `sendto` is not
modelled (a UDP socket does not report it).

### ElectorServer

Clients are external: they connect, send lines, close, or are reset.  One read takes one
or more complete lines and the server looks at the first.  On a reset connection a
reply consumes the pending error (the next `read` returns 0), else the next `read` fails
and `ERR` ends the server.  `accept` may return any closed descriptor.

### ShopSort

Workers in the order of their lock calls, `swap` as its two writes, the manager one
memory access at a time while it holds `sd->mutex`.  `Docelowe` is the contents of the
shelves with the swaps in progress completed.

### Thread programs (`Threads`)

*Locks.*  One action is one access to memory.  A plain store waits in the store buffer of its
thread until `Oproznij` lets it out, a plain load looks there first, and an atomic
operation needs the buffer empty: the machine the disassembly in the lecture is for.
`race.c` and `peterson_naive.c` run in the same model and are left out of
`NicNieZginelo` and `BezDebetu`: they lose updates, which is what the lecture shows with
them.  (The program whose semaphore is initialised with 2 is the mutant of that property.)

*HqRing* splits `thread_work` as `HqServer` does; the test of the loop and the sleep are
separate, because SIGINT and the broadcast come without the mutex.  *BoundedBuffer* and
*ReadersWriters* have sections that touch nothing outside the mutex: a section from `lock`, or
the return of `pthread_cond_wait`, to `unlock`, or the next wait, is one action; the semaphore
program goes operation by operation.  In *Philosophers* each semaphore operation is an action;
all can block, so what is stated is in which way only (`TylkoKrag`) and when no more
(`FilozofowieKoncza`).

### Shared memory (`Shm`)

*RobustMutex* is a state word and what `lock`, `consistent`, `unlock` and the death of the owner
make of it; zeroed memory that was never initialised acts as an ordinary mutex.  *BoardGame*:
the server sizes the memory, initialises mutex, `N` and board one after the other and clients
come at any moment between; they exit with the mutex held, and the server destroys it at
SIGINT.  *RecordDb* has the three kinds of locking; a worker may die inside `process`, after
it has counted and before it has stored its result.  *SemaforDemo* starts NUM_PROCS processes; the creator's `shm_open`
and `ftruncate` are separate steps, and a joiner may map the memory in between; a joiner too
early for `shm_open` fails in `mmap` and crashes, and `DemoKonczy` says what holds of the
others.  *SensorAggregator* shows one hazard the lecture does not mention: any sensor may take
any permission.  *MonteCarlo* covers `zad1.c` and its model `l6-1.c`; they differ in the room of
the log.

### Pipes (`Pipes`)

A pipe is a sequence of messages where the program writes at most `PIPE_BUF` bytes at once
(`FifoTransfer`, `CardGame`, `HotPotato`), of bytes in `LetterPipes`, and of numbers in
`NumberRing`, where a `read` takes all that is there.  The open ends decide about end of
file and SIGPIPE.  Signals sent and not yet delivered are part of the state, so that they come
between a test and the `read` that follows, and in `LetterPipes` between an interrupted
`read` and its test of `errno`, which `sigchild_handler` does not save.  In `HotPotato` a pipe keeps
a reader as long as some node has not closed the ends it does not use.  Presses of Ctrl+C, kills from outside and
potatoes sent are bounded (`MaxSigint`, `MaxZabic`, `MaxZiemniakow`), and `MaxLiczba` bounds the
numbers of the ring.

### Sockets (`Sockets`)

*Calculator*: a word is two halves of `POLSLOWA` values each, and its network order exchanges
the halves; a request comes in one segment or two; SIGINT is blocked but in the wait, and
there `epoll_pwait` prefers events that are ready to a pending signal.  The one
quotient that does not fit ends the server with SIGFPE.  *PidSum*: events are taken from
the set `epoll_wait` returned, in any order, while clients go on; the sum travels as two
bytes in network order.

## 3. Runs

All constants of a run are in its cfg.  Deadlock is not checked: the programs end.

| Run | Bounds | Shows |
|---|---|---|
| `HqQueue` | 2 adjutants, stack 1, 3 reports, register 1, under `FairSpec` | typing, conservation of reports, no report waits for sleepers, what may remain at the end, the stack is emptied, sleepers leave |
| `HqRegister` | 2 adjutants, 2 units, 2 senders, 3 reports | one id per name, one report behind a unit's data, orders have an address |
| `HqMap` | 2 adjutants, 2x2 map, 3 reports | positions stem from reports; at most one cell per adjutant |
| `HqZamknieciePoAlarmie` | violation | the broadcast is missed, main waits in `pthread_join` for ever |
| `UdpOneSlot` | clients with 2 and 1 chunks, one slot, `PROBY = 2` (3 attempts), under `FairSpec` | refinement of `FileTransfer`; every client ends |
| `UdpSzostaProba` | violation; 1 client, 1 chunk, `PROBY = 5` as in the code | a chunk is sent six times, the documents say five |
| `UdpSlots` | 2 clients of 2 chunks, 2 slots, held-up clients | one slot per client; nothing shown twice before the end of its file |
| `ShopShift` | 3 workers, 3 shelves, one round each, under `FairSpec` | conservation, order grows, the shift ends |
| `Threads` | 2 iterations (1 in the programs without a bound on their buffers), 2 accounts, 2 + 2 counting threads; ring of 2 and 4 reports; 2 producers, 2 consumers and 2 places; 3 readers, 2 writers; 3 philosophers | real locks lose nothing and overdraw nothing; both rings are bounded FIFO queues; no report and no reader or writer is forgotten; who ends |
| `Shm` | 2 clients on a 2x2 board; 3 workers on 2 records; 2 processes at the barrier; 3 sensors, 2 cycles; up to 3 children and 2 log lines | points are conserved through deaths and start-up races; a lock fails after the destruction only; results are current; objects live when used |
| `Pipes` | 3 clients with up to 2 blocks; 2 children, lengths 1 and 2; numbers -2..2; 2 players, 5 cards; 3 nodes, ttl 4 | files, frames and routes arrive whole; one number in the ring; points of a round; every program ends |
| `Sockets` | 2 clients, 4-bit words (`POLSLOWA = 4`), all operations on the edges of the range; 3 clients with PIDs of 2 to 4 digits; one client killed; vote server: 2 descriptors, 2 electors, 2 unread lines | answers belong to requests and are right; the largest sum; SIGINT ends the servers; the tables of the vote server agree and places become free |

Why the bounds are enough: the hazards are between two or three actors and the bounds
let those meet. Three reports with a stack of one give push against pop, a full stack,
and two adjutants on the same unit while a third report waits; three reports are needed
for more cells than adjutants. Four reports make the ring of two places go round. Two
clients and one slot make the server refuse one; two slots let slots become free on
either side of a client's. A second connection of an elector needs two descriptors, a
reused descriptor one more connection than descriptors. Three workers on three shelves
are the shortest possible cycle of waiting that is not between two. Each run fires its
module's rare branches (full stack, full register, unreadable report, no free slot,
reset connection).

The properties of the four families are conjunctions with a named part per program, in the
modules of the families:

| Property | Parts |
|---|---|
| `ZamkiChronia` | `NicNieZginelo` (sums at the end), `BezDebetu` (no account overdrawn) |
| `NiktNiePrzespi` | `PracaNieCzeka` (reports in the ring), `NiktNieZapomniany` (readers and writers) |
| `TylkoKrag` | philosophers |
| `KolejkiFifo` | `SztabFifo`, `BuforFifo`: the rings implement `BoundedFifo` |
| `WszyscyKoncza` | `WatkiKoncza` (locks), `SztabWychodzi`, `BuforKonczy`, `FilozofowieKoncza` |
| `PunktyZachowane` | board game |
| `OdzyskanePoSmierci` | `BladTylkoPoDestroy` (board game), `WynikAktualny` (record database) |
| `NicPrzedCzasem` | `ObiektyZyja` (`semafor.c`), `BezPodgladu` (sensors), `SredniaZWszystkich` (pi) |
| `CzekajacyRuszaja` | `KlientDoczekaSie`, `RobustNieBlokuje`, `DemoKonczy`, `CzujnikiPostepuja` |
| `WiadomosciCale` | `PlikiWCalosci` (FIFO transfer), `RamkiCale` (letters), `JedenZeton` (ring) |
| `KartyWPorzadku` | `KartyBezAwarii`, `PunktyRund` |
| `TrasaPrawdziwa` | hot potato: reported routes |
| `KoniecPoEof` | `SerwerOdbierze`, `LiterkiKoncza`, `PierscienKonczy`, `KartyKoncza` |
| `ZiemniakSieKonczy` | `ZiemniakStygnie`, `SprzatanieKonczy` |
| `OdpowiedzDobra` | `OdpowiedzWlasna`, `KalkulatorLiczy` |
| `SumyDobre` | `SumaWlasna`, `HighSum` |
| `KoniecUslugi` | `SigintKonczy` (calculator), `KlientSumyKonczy`, `SumaKonczy` (PID sum) |

Each part has a mutant of the code that breaks it.  What the parts do not promise is as
much a result: a sensor that takes the permissions of the others and leaves makes the rest wait
for ever; a FIFO client that opens after the server saw end of file loses its blocks; the
PID sum server ends with the next event after SIGINT and not before; a killed player can
leave a round without a winner; the parent of `zad_2_2.c` may end with an error of `read` when the
last child dies between its interrupted `read` and its test of `errno`; of several lines in one
read the vote server keeps the first.  No property forbids these cases; `hazards` in
`PROJECT.json` notes at each one which case the properties leave out.

Fairness.  `HqServer`, `ShopSort`: every thread or process that can move does (preemptive
scheduling), and one that waits for a mutex released again and again gets it (strong
fairness: the sections are short and no lock is held over a wait, which is what the
default mutex gives in practice).  Signals, datagrams and spurious wake-ups are never
assumed.  `UdpTransfer`: only that a client sends when it can and that a running timer
fires; the network may lose everything.

The families.  `Threads`: every thread that can run is scheduled and store buffers
drain; readers and writers owe nothing.  `Shm`: processes are scheduled, and a client of the
board game that wants the mutex gets it some time (strong fairness for `Zablokuj` only: the
server sleeps three seconds between two printouts, and a client makes a bounded number of
moves); of `semafor.c` and the sensors it is only assumed that somebody who can move does.
`Pipes`: processes are scheduled and signals that were sent are delivered.
`Sockets`: servers and clients run when they can; the loop of the vote server serves every
descriptor epoll reports, and its clients owe nothing.  Nobody has to press Ctrl+C, to kill
or to die in any of them.

Disagreements.  Two are kept as runs.

* `HqZamknieciePoAlarmie`: the comment of lines 363-364 says that the broadcast wakes all
  sleepers, and an adjutant between its test and its sleep misses it.
* `UdpSzostaProba`: `dane.txt` (line 7), the comment of line 75 and the message of line 81 of
  `client.c` give a chunk five attempts.  `counter` goes up before the attempt (line 51) and the
  loop goes on while it is `<= 5` after it (line 76): a fifth failure is followed by a sixth
  `sendto`, and `NajwyzejPROBYProb` does not hold.  `TypeOK` of `UdpTransfer` has the
  limit the code does keep, `PROBY + 1`; the other properties of the transfer do not depend on
  which of the two it is.

Four more statements of comments or of `dane.txt` do not hold; their definitions
stay in the modules, and TLC refutes each of them in seconds:

* `JednoPole` (`zadanie1.c`, line 263, "usuwamy stare pozycje oddziału"): with the constants of
  `HqMap` and two reports on one unit both adjutants clear first and then both set a cell.
  What holds is `NajwyzejPoJednymNaAdiutanta`.
* `KlientKonczy` with `Zwloka = TRUE` (`client.c`, line 68): SIGALRM before `recv` does not
  interrupt it, and the timer is not periodic.  Without held-up clients it holds.
* `DuplikatyIgnorowane` (`dane.txt`, line 9), one client and one chunk: a duplicate of the last
  chunk finds the slot free and is shown again.  What holds is `BezPowtorzenPrzedKoncem`.
* `OgloszonePosortowane` (`sop-shop.c`, line 151) with three shelves, one worker and two
  iterations: the manager reads without the mutexes, in the middle of a swap.  What holds is
  `PorzadekRosnie`.

## 4. Proofs

Checked by TLAPS for every value of the constants that satisfies the named assumptions.

**HqServer_proofs.**  `PracaNieCzeka` is not inductive: a step that falls asleep
(`Zasnij`) needs the stack to be empty then, a step that pops needs it not to be.  `IInv`
adds

* `Lokalne`: at each place of `thread_work` the local report, its validity and the id are
  what the following code relies on, and at "decyzja" the stack is not empty or the
  server is stopping;
* `Blokady`: an adjutant is in the section of the stack exactly when it holds the mutex,
  those in `cond` are asleep, and one about to sleep has the empty stack still
  before it (main cannot push without the mutex).

`InitIInv`, `AdiutantLemma`, `SerwerLemma` and `NapoleonLemma` show that it is inductive,
one step per action and under it one per conjunct; `TypeCorrect` and `NoReportStranded`
follow.  The stack is treated through `StosLemma`.

The reports: `NicNieGinie` counts, and a count is not inductive, since it does not say
*which* report moves.  `DInv` says it of the numbers: those received are the union of the
five places (`Wszystkie`), the places are disjoint (`Rozlaczne`) and none holds a number twice
(`Jednokrotne`); `KtoTrzyma` ties a report in somebody's hands to where that thread is.
Only four actions move a report (`RuchyLemma`), each has its lemma (`OdbierzRozdzial`,
`WrzucRozdzial`, `ZdejmijRozdzial`, `SkonczRozdzial`), and `NothingLost` adds the
cardinalities up.  `PoWyjsciu` gives `OnlyLastLeft`: an adjutant leaves only with the flag cleared and the
stack empty, and after that main can be at most in the middle of one more push.  That
needs an adjutant to exist and their set to be finite, `AdiutanciAssumption` (the code starts 4).

Register and map: `RInv` adds to the four invariants `RekaPusta` (an adjutant holds a
report only while it works on it) and `IdUzywane`: ids in the hands of an adjutant, of
napoleon, on the map or with a sender are below `liczba_oddzialow`, and an adjutant's id has the
name its report gave.  The adjutant relies on that after it has released `mutex_do_nazw`; it
lasts because the register only grows (`WzrostLemma`, and `RegisterGrows` as a property of
its own).  Then `NazwyLemma`, `MeldunekLemma`, `RozkazLemma` and `PoleLemma` treat one
conjunct each.  `NajwyzejPoJednymNaAdiutanta` is a cardinality bound; what is inductive is an
injection: `Wlasciciele(i, f)` gives the cells of unit `i` different owners, and an
adjutant that clears the map of `i` owns no cell in the rows behind it, none at all when it
comes to set its own.
`MapaCzysc` and `MapaUstaw` show how clearing a row and setting a cell change the owners, and
`AtMostOneCellPerAdjutant` follows from the injection.

**ShopSort_proofs.**  `IInv` has the types, `Blokady` (at each place of the code a worker holds
the mutexes that place needs, and `low < high`), `Zamiana` (what a worker knows of its two shelves
in the middle of a swap), `Dozor` (the manager's index, and `ile` counts the finished) and `TowarZachowany`, which is
inductive with them because `Docelowe` changes only by whole swaps.  `OrderGrows`: a swap of
a pair in the wrong order maps the inversions after it one to one to inversions before it.
`NoDeadlock`: if every worker that holds a mutex waited, the one that holds the largest shelf
held would wait for a larger one, which is free.

**Threads_proofs**, for any sets and sizes that satisfy `ThreadsAssumption` (finite, disjoint sets
of threads, rings with room, two philosophers or more).  `IInv` says which program runs and has
one invariant per program:

* Lock programs (`IInvL`, for the five variants with a real lock).  `StanL` has the types, who may
  be where (`MiejscaL`), the pending order of a thread (`ZleceniaL`), mutual exclusion
  (`WykluczanieL`), what the lock word says of the owner (`ZamekL`), the flags and the turn of
  Peterson's algorithm (`PetersonL`), and the store buffers: a thread outside its section or just
  inside has nothing in its buffer (`BuforyL`).  `PrzelewyL`: the accounts in memory lack exactly
  what the owner has taken and not yet given, and that is in its register, its store buffer or
  already in memory, according to its place.  `LicznikiL`: the counter is the signed sum of the
  updates done, and lacks the owner's while that is in its buffer.  `LocksProtect` is then the case of
  the ends.
* Ring of the headquarters.  `PierscienH`: `tail` is `count` places behind `head`, modulo the size,
  and those places hold datagrams; `SekcjaH`: one adjutant at most is in the section, and it falls
  asleep over an empty ring only; with them `PracaNieCzeka` is inductive.
* Philosophers.  `Paleczki`: a chopstick is down exactly when one of its two neighbours is at
  a place where it holds it, and never both.  In a deadlock everybody who has not left waits for the
  right neighbour, who therefore has not left either; a set closed under "right neighbour" is the
  whole table.
* Readers and writers.  `Liczniki`: the counters count the threads inside; with `Wykluczanie`
  the promise that nobody is forgotten is inductive, and `WriterAlone` follows.
* Bounded buffers.  `Semafory` has three sums: `mtx` with the processes in the section is 1;
  `empty` with the producers before, the consumers after their section and `size` is
  `BUFFER_SIZE`; `nonempty` with the consumers before and the producers after is `size`.  So a
  producer in its section finds room and a consumer an element, which the semaphore program
  never tests.

`NobodyOversleeps` joins ring and reading room.  `QueuesAreFifo` is the refinement of `BoundedFifo`
by all three rings: a push appends, a pop takes the head, every other step stutters.

**Shm_proofs**, under `ShmAssumption`.

* Board game.  `StanG`: what is published when (`PublikacjaG`: the mutex is zeroed memory until
  `mutex_init`, and no client has read a positive `N` before the server has set it), who is in the section and what state the mutex is in then (`SekcjaG`), the
  fields the server has not come to are 0, and a lock fails only on a destroyed mutex (`BladG`).
  `PunktyG` is an equation of sums over fields and clients: what is handed out, on the board, and in
  the hands of a client between its reading of a field and its clearing, is `WARTOSC` times the
  fields filled.
* Record database.  `StanD`: workers in their sections hold different mutexes, and value and
  counter of a record agree but while a worker is between its two writes (`RekordyD`); a worker dies after
  them, so the next owner of the robust mutex finds them in order.
* `semafor.c` (`StanS`): the semaphore is positive only when the objects are ready, and all are past the
  second meeting or none is.  Sensors (`StanA`): the sensors that wait are as many as the posts,
  the permissions and what the aggregator has collected and not answered.  Pi (`StanM`): the sum is set
  only after the last `wait`.

Theorems: `PointsKept`, `DeathsRecovered`, `NothingEarly`.

**Sockets_proofs**, under `KalkulatorStaly`, `PidyStale` and `GlosyStale`.  First the arithmetic: the network
order is its own inverse, and `Zawin` is the one word congruent to its argument, both because quotient
and remainder are unique; the truncated quotient comes from `\div` by the signs.  Calculator:
`TypC` (a socket epoll has reported still has its connection), `BuforC` (how much of `data` belongs to the
client that is served; an incomplete request belongs to a client that is dead) and `OdebraneC` give
`AnswersRight`, although `data` still holds words of an earlier client.  PID sum: what was sent is the sum of
the sender's digits, and `max_sum` is attained and not exceeded (`StanS`); `SumsRight`.  Vote server: the
agreement of the two tables is inductive together with typing; `TypeCorrect`, `TablesAgree`.

**Pipes_proofs**, under `PlikiStale`, `LiterkiStale`, `LiczbyStale`, `KartyStale` and `SiecStala`.

* FIFO transfer (`StanF`): the stream of a client is what is printed followed by what is in the FIFO,
  until the server closes it; `PoKoncuF`: when it has seen end of file nobody but late clients writes.  That
  the blocks of a client stand in the stream in order and without a gap is kept by appending
  (`DodajF`), by reading (`PrzeniesF`) and by the loss of the FIFO (`UtnijF`).
* Letters (`StanL`): every length byte in the pipe is followed by that many letters inside the pipe, a
  statement about positions, which splitting, appending and reading of frames keep; for `zad_2_1` the
  children that have answered are counted.
* Number ring (`StanZ`): the numbers held by the three processes and in their pipes are one until
  somebody stops and at most one after; `WDrodzeZ` equates the count of the property with it.
* Cards (`StanK`).  `TypK`; `PunktyK`: after `r` rounds the sum of the points lies between `r` times the least
  a division gives out and `r` times `n`, and inside a round the winners before `i` have their share;
  `GraK`, as long as nobody is killed: for each place of the server what every player before and
  after `i` has in its two pipes and how many cards it has played.  So a `write` finds a reader, a player
  asked for a card has one left, and the highest card of a round belongs to somebody.
* Hot potato (`StanH`): a message on its way has met only edges and not its target (`Szukajace`), a
  reported one has met its target last (`UCelu`); `OdnotujLemma` takes one to the other.

Theorems: `MessagesWhole`, `CardsInOrder`, `RoutesTrue`.

**DataLemmas.**  The arithmetic of positions in a ring is done once, for constants.  The sums of
points, accounts and counters are folds over finite sets; the defining equation of a fold determines it on
every finite subset, which is shown with the least counterexample in a set of naturals, so that no
induction theorem with an operator parameter is needed.

**UdpTransfer_proofs.**  `FindIndex` says what the loop of `findIndex` returns (its two
`CHOOSE`s exist because a non-empty set of slots has a first and a last member).
`TypeCorrect` needs `Licznik`: an attempt begins only while `counter` is at most the limit.
`OneSlot` is then inductive.  The refinement (`ImplementsTransfer`) needs to know that an
echo the client accepts was preceded by the showing of that chunk, so `Niezmiennik` ties the
four places together where a chunk number occurs:

* `Poczatek`: what was shown is a beginning `1..k` of the file;
* `Klient`: the client's number lies in the file and all before it were shown;
* `Datagramy`: data in transit have a number of the file, and the flag iff it is the last;
* `Echa`, `Zliczone`: what is echoed, and what a slot counts, was shown.

`Pokazanie` derives from it that a shown chunk is the next one or one shown before, which
is a step `Pokaz` or a stutter of `FileTransfer`; `KrokPotwierdzenia` and `KrokNieudanej`
give `Potwierdz` and `Zrezygnuj`.  `NoRepetition` adds `Pamieta`: until the last chunk
was shown, everything shown is counted in the client's one slot.

Only model-checked: the liveness properties (`StosSieOproznia`, `SpiacyWychodza`, `KlientKonczy`,
`MiejsceSieZwalnia`, `ZmianaSieKonczy`, `WszyscyKoncza`, `CzekajacyRuszaja`, `KoniecPoEof`,
`ZiemniakSieKonczy`, `KoniecUslugi`), which need fairness and `ENABLED`, out of the reach of the
prover.  Every invariant, action property and refinement that a passing run checks is also a theorem.
The theorems about the four families are about the same `Spec` the runs check, with free constants.

## 5. Not modelled

See the table of section 1 and `components` in `PROJECT.json`.  The printout of the map, the
wording of messages, the contents of addresses and files, argument checks and fatal errors of
system calls are left out everywhere.

* The death of a shop worker: nothing in `sop-shop.c` kills one or recovers from it (its stage 4
  is a comment).  The fault is modelled in the board game and the record database.
* Processes that follow one another on one UDP address, and the text of a PID that TCP cuts in
  two: both need a finer network than the models have.
* SIGINT in a node of the hot potato network before it has set its signals.
* The skeletons, the exercise that does not compile and the test script have no behaviour of
  their own.  The remaining programs of `sop-site/` are tutorials of single system calls.

## 6. What is left

Beyond the liveness properties the open ends are in the models, not in the proofs: a finer network
(a PID cut in two segments, processes that follow one another on a UDP address), and the tutorial programs
of `sop-site/` that have state shared between threads or processes.
