------------------------------ MODULE Threads ------------------------------
(***************************************************************************)
(* The programs whose threads (or processes) meet in memory only.  A       *)
(* behaviour runs one of them, the one Init chooses; the variables of the  *)
(* others hold Brak.                                                       *)
(***************************************************************************)
EXTENDS Integers, Sequences, FiniteSets

CONSTANTS
  Konta, Kwoty, INITIAL_BALANCE, ITERATIONS, NUM_THREADS,             \* Locks
  Adiutanci, Tresc, STACK_SIZE, DIVISION_NAMES_SIZE, Wiersze, Kolumny, \* HqRing
  Producenci, Konsumenci, BUFFER_SIZE,                                \* BoundedBuffer
  OBROTY,                                                             \* its ITERATIONS
  Czytelnicy, Pisarze,                                                \* ReadersWriters
  N,                                                                  \* Philosophers
  POSILKI                                                             \* its ITERATIONS

(* Accounts have names of their own; a transfer asks for no negative amount. *)
BankStaly ==
  /\ IsFiniteSet(Konta) /\ Konta \cap {"licznik", "flag0", "flag1", "turn", "lck"} = {}
  /\ Kwoty \subseteq Nat /\ INITIAL_BALANCE \in Nat /\ NUM_THREADS \in Nat \ {0}
  /\ ITERATIONS \in [{"race", "peterson_naive", "peterson_atomic", "atomic_swap",
                      "atomic_tas", "semaphore", "futex"} -> Nat]

(* The ring has room, and the datagrams are numbered from 1. *)
SztabStaly == STACK_SIZE \in Nat \ {0} /\ DOMAIN Tresc \subseteq Nat \ {0}

(* Any finite numbers of producers and consumers, at least one of each, and
   a ring with room. *)
SkladStaly ==
  /\ IsFiniteSet(Producenci) /\ IsFiniteSet(Konsumenci) /\ Producenci \cap Konsumenci = {}
  /\ Producenci # {} /\ Konsumenci # {}
  /\ BUFFER_SIZE \in Nat \ {0} /\ OBROTY \in Nat

(* Any finite numbers of readers and of writers. *)
CzytelniaStala ==
  IsFiniteSet(Czytelnicy) /\ IsFiniteSet(Pisarze) /\ Czytelnicy \cap Pisarze = {}

(* At least two philosophers, 3 in the code: a single one would find its own
   chopstick on its right. *)
StolStaly == N \in Nat /\ N >= 2 /\ POSILKI \in Nat

ASSUME ThreadsAssumption ==
  BankStaly /\ SztabStaly /\ SkladStaly /\ CzytelniaStala /\ StolStaly

VARIABLES
  program, pc, wariant, i,
  zlecenie, rejestr, pam, bufor,
  kolejka, head, tail, count, pracujemy, serwer, numer, dane, id, wiersz, nazwy, mapa,
  items, in, out, size, mtx, empty, nonempty, item,
  readers_count, writers_count, chopsticks

zamki == <<zlecenie, rejestr, pam, bufor>>
sztab == <<kolejka, head, tail, count, pracujemy, serwer, numer, dane, id, wiersz, nazwy, mapa>>
pierscien == <<items, in, out, size, mtx, empty, nonempty, item>>
czytelnia == <<readers_count, writers_count>>
vars == <<program, pc, wariant, i, zamki, sztab, pierscien, czytelnia, chopsticks>>

Brak == "-"

L == INSTANCE Locks
H == INSTANCE HqRing
B == INSTANCE BoundedBuffer WITH ITERATIONS <- OBROTY
R == INSTANCE ReadersWriters
F == INSTANCE Philosophers WITH ITERATIONS <- POSILKI

BezZamkow == zlecenie = Brak /\ rejestr = Brak /\ pam = Brak /\ bufor = Brak
BezSztabu ==
  /\ kolejka = Brak /\ head = Brak /\ tail = Brak /\ count = Brak /\ pracujemy = Brak /\ serwer = Brak
  /\ numer = Brak /\ dane = Brak /\ id = Brak /\ wiersz = Brak /\ nazwy = Brak /\ mapa = Brak
BezPierscienia ==
  /\ items = Brak /\ in = Brak /\ out = Brak /\ size = Brak
  /\ mtx = Brak /\ empty = Brak /\ nonempty = Brak /\ item = Brak
BezCzytelni == readers_count = Brak /\ writers_count = Brak

Init ==
  \/ program = "zamki" /\ L!Init /\ BezSztabu /\ BezPierscienia /\ BezCzytelni /\ chopsticks = Brak
  \/ program = "sztab" /\ H!Init /\ wariant = Brak /\ i = Brak /\ BezZamkow /\ BezPierscienia /\ BezCzytelni /\ chopsticks = Brak
  \/ program = "bufor" /\ B!Init /\ BezZamkow /\ BezSztabu /\ BezCzytelni /\ chopsticks = Brak
  \/ program = "czytelnia" /\ R!Init /\ wariant = Brak /\ i = Brak /\ BezZamkow /\ BezSztabu /\ BezPierscienia
     /\ chopsticks = Brak
  \/ program = "filozofowie" /\ F!Init /\ wariant = Brak /\ BezZamkow /\ BezSztabu /\ BezPierscienia /\ BezCzytelni

Zamki == program = "zamki" /\ L!Next /\ UNCHANGED <<program, sztab, pierscien, czytelnia, chopsticks>>
Sztab == program = "sztab" /\ H!Next /\ UNCHANGED <<program, wariant, i, zamki, pierscien, czytelnia, chopsticks>>
Bufory == program = "bufor" /\ B!Next /\ UNCHANGED <<program, zamki, sztab, czytelnia, chopsticks>>
Czytelnia == program = "czytelnia" /\ R!Next /\ UNCHANGED <<program, wariant, i, zamki, sztab, pierscien, chopsticks>>
Filozofowie == program = "filozofowie" /\ F!Next /\ UNCHANGED <<program, wariant, zamki, sztab, pierscien, czytelnia>>

Next == Zamki \/ Sztab \/ Bufory \/ Czytelnia \/ Filozofowie

\* Every thread that can run is scheduled, and store buffers drain.
Fairness ==
  /\ \A w \in 0..(2 * NUM_THREADS - 1) :
       /\ WF_vars(program = "zamki" /\ w \in L!Watki /\ L!KrokWatku(w) /\ UNCHANGED <<program, sztab, pierscien, czytelnia, chopsticks>>)
       /\ WF_vars(program = "zamki" /\ w \in L!Watki /\ L!Oproznij(w) /\ UNCHANGED <<program, sztab, pierscien, czytelnia, chopsticks>>)
  /\ WF_vars(program = "sztab" /\ H!KrokSerwera /\ UNCHANGED <<program, wariant, i, zamki, pierscien, czytelnia, chopsticks>>)
  /\ \A a \in Adiutanci :
       WF_vars(program = "sztab" /\ H!KrokAdiutanta(a) /\ UNCHANGED <<program, wariant, i, zamki, pierscien, czytelnia, chopsticks>>)
  /\ \A p \in B!Procesy :
       WF_vars(program = "bufor" /\ p \in B!Uczestnicy /\ B!Krok(p) /\ UNCHANGED <<program, zamki, sztab, czytelnia, chopsticks>>)
  /\ \A f \in F!Filozofowie :
       WF_vars(program = "filozofowie" /\ F!philosopher(f) /\ UNCHANGED <<program, wariant, zamki, sztab, pierscien, czytelnia>>)

Spec == Init /\ [][Next]_vars /\ Fairness
----------------------------------------------------------------------------
\* When main adds up after pthread_join, every lock program with a real lock
\* reports the balance (or counter) it started with: no update was lost,
\* however the plain loads and stores of transfer() interleave and are delayed.
NicNieZginelo == program = "zamki" => L!NicNieZginelo

\* Under a real lock the test and the withdrawal of transfer() cannot be
\* separated: no account of peterson_atomic.c and atomic_swap.c is overdrawn.
BezDebetu == program = "zamki" => L!BezDebetu

\* Every thread of every lock program ends: no wake-up of futex.c is lost,
\* and nobody spins for ever, in peterson_naive.c either.
WatkiKoncza == (program = "zamki") ~> (program = "zamki" /\ L!Zakonczone)

\* The ring of zadanie1_buforcykliczny.c is a bounded FIFO queue: a report
\* is never overwritten, handed out twice or overtaken in the queue.
SztabFifo ==
  /\ program = "sztab" => H!Fifo!Init
  /\ [][program = "sztab" => H!Fifo!Next \/ UNCHANGED <<H!Zawartosc, dane>>]_vars

\* No report waits in the ring while every adjutant that is left sleeps.
PracaNieCzeka == program = "sztab" => H!PracaNieCzeka

\* An adjutant that is not between its test and pthread_cond_wait when main
\* broadcasts leaves thread_work, after it has emptied the queue.
SztabWychodzi == \A a \in Adiutanci :
  (program = "sztab" /\ serwer = "alarm" /\ pc[a] # "zasypia") ~> (program = "sztab" /\ pc[a] = "koniec")

\* Both ring buffers of the lecture, the one under a mutex with condition
\* variables and the one with three semaphores, are bounded FIFO queues.
BuforFifo ==
  /\ program = "bufor" => B!Fifo!Init
  /\ [][program = "bufor" => B!Fifo!Next \/ UNCHANGED <<B!Zawartosc, item>>]_vars

\* Producers and consumers of both programs end: no signal is lost and the
\* semaphores never leave everybody waiting.
BuforKonczy == (program = "bufor") ~> (program = "bufor" /\ B!Zakonczone)

\* One signal of the last reader is enough: when the reading room is empty
\* and threads sleep, one of them has been woken and is on its way in, and
\* a reader sleeps only while a writer is inside or was just there.
NiktNieZapomniany ==
  program = "czytelnia" =>
    /\ R!Zapomniani => \E w \in R!Watki : pc[w] = "obudzony"
    /\ ~R!CzytelnikSpiBezPisarza

\* While all the philosophers are at the table they can block one another in
\* one way only: every one holds the left chopstick and waits for the right.
TylkoKrag ==
  program = "filozofowie" /\ F!Zakleszczenie /\ (\A f \in F!Filozofowie : pc[f] # "koniec")
    => \A f \in F!Filozofowie : pc[f] = "prawa"

\* Once one philosopher has left the table the circle cannot close any more:
\* all the others end.
FilozofowieKoncza ==
  (program = "filozofowie" /\ \E f \in F!Filozofowie : pc[f] = "koniec")
    ~> (program = "filozofowie" /\ F!Zakonczone)

\* A lock that is real protects what is under it: the sums at the end are
\* right and no account is overdrawn on the way.
ZamkiChronia == NicNieZginelo /\ BezDebetu

\* The three rings, of the headquarters and of the lecture, implement
\* BoundedFifo.
KolejkiFifo == SztabFifo /\ BuforFifo

\* No thread sleeps through what it waits for while everybody else who could
\* tell it sleeps too, in the headquarters and in the reading room.
NiktNiePrzespi == PracaNieCzeka /\ NiktNieZapomniany

\* The threads come to their ends: always in the lock programs and over the
\* bounded buffers, in the headquarters after the alarm, and at the table of
\* the philosophers as soon as one of them has left it.
WszyscyKoncza == WatkiKoncza /\ SztabWychodzi /\ BuforKonczy /\ FilozofowieKoncza
=============================================================================
