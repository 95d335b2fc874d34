-------------------------------- MODULE Shm --------------------------------
(***************************************************************************)
(* The programs whose processes meet in shared memory.  A behaviour runs   *)
(* the one that Init chooses; the variables of the others hold Brak.       *)
(***************************************************************************)
EXTENDS Integers, FiniteSets, Functions

CONSTANTS
  Klienci, Rozmiar, WARTOSC,   \* of the board game
  Pracownicy, Rekordy,         \* of the record database
  Procesy,                     \* of semafor.c
  Czujniki, CYCLES,            \* of the sensors
  NMax, LINIE, Wyniki          \* of the estimation of pi

\* Process identifiers differ, and counts and amounts are not negative.
ASSUME ShmAssumption ==
  /\ IsFiniteSet(Klienci) /\ Klienci \cap {"serwer", "nikt"} = {}
  /\ Rozmiar \in Nat /\ WARTOSC \in Nat
  /\ Rekordy \subseteq Nat
  /\ Procesy # {}
  /\ IsFiniteSet(Czujniki) /\ CYCLES \in Nat
  /\ NMax \in Nat /\ LINIE \in Nat /\ Wyniki \subseteq Nat

VARIABLES
  program, pc, wariant, i, N, shm,
  serwer, running, mutex, wlasciciel, board, n, points, pole,
  mtx, base_value, processing_count, last_result, cel,
  sem, sd, work_done, tworca, mapa,
  data_ready, can_overwrite, agregator, s, cykl,
  wynik, pi, log, suma

gra == <<serwer, running, mutex, wlasciciel, board, n, points, pole>>
baza == <<mtx, base_value, processing_count, last_result, cel>>
semafor == <<sem, sd, work_done, tworca, mapa>>
czujniki == <<data_ready, can_overwrite, agregator, s, cykl>>
monte == <<wynik, pi, log, suma>>
vars == <<program, pc, wariant, i, N, shm, gra, baza, semafor, czujniki, monte>>

Brak == "-"

G == INSTANCE BoardGame
D == INSTANCE RecordDb
S == INSTANCE SemaforDemo
A == INSTANCE SensorAggregator
M == INSTANCE MonteCarlo

BezGry == serwer = Brak /\ running = Brak /\ mutex = Brak /\ wlasciciel = Brak /\ board = Brak /\ n = Brak /\ points = Brak /\ pole = Brak
BezBazy == mtx = Brak /\ base_value = Brak /\ processing_count = Brak /\ last_result = Brak /\ cel = Brak
BezSemafora == sem = Brak /\ sd = Brak /\ work_done = Brak /\ tworca = Brak /\ mapa = Brak
BezCzujnikow == data_ready = Brak /\ can_overwrite = Brak /\ agregator = Brak /\ s = Brak /\ cykl = Brak
BezMonte == wynik = Brak /\ pi = Brak /\ log = Brak /\ suma = Brak

Init ==
  \/ program = "gra" /\ G!Init /\ wariant = Brak /\ BezBazy /\ BezSemafora /\ BezCzujnikow /\ BezMonte
  \/ /\ program = "baza" /\ D!Init /\ i = Brak /\ N = Brak /\ shm = Brak
     /\ BezGry /\ BezSemafora /\ BezCzujnikow /\ BezMonte
  \/ /\ program = "semafor" /\ S!Init /\ wariant = Brak /\ i = Brak /\ N = Brak
     /\ BezGry /\ BezBazy /\ BezCzujnikow /\ BezMonte
  \/ /\ program = "czujniki" /\ A!Init /\ wariant = Brak /\ N = Brak /\ shm = Brak
     /\ BezGry /\ BezBazy /\ BezSemafora /\ BezMonte
  \/ /\ program = "monte" /\ M!Init /\ shm = Brak
     /\ BezGry /\ BezBazy /\ BezSemafora /\ BezCzujnikow

PozaGra == UNCHANGED <<program, wariant, baza, semafor, czujniki, monte>>
PozaBaza == UNCHANGED <<program, i, N, shm, gra, semafor, czujniki, monte>>
PozaSemaforem == UNCHANGED <<program, wariant, i, N, gra, baza, czujniki, monte>>
PozaCzujnikami == UNCHANGED <<program, wariant, N, shm, gra, baza, semafor, monte>>
PozaMonte == UNCHANGED <<program, shm, gra, baza, semafor, czujniki>>

Next ==
  \/ program = "gra" /\ G!Next /\ PozaGra
  \/ program = "baza" /\ D!Next /\ PozaBaza
  \/ program = "semafor" /\ S!Next /\ PozaSemaforem
  \/ program = "czujniki" /\ A!Next /\ PozaCzujnikami
  \/ program = "monte" /\ M!Next /\ PozaMonte

\* Processes that can run are scheduled; a client of the board game that
\* wants the mutex gets it some time (the server sleeps three seconds
\* between two printouts, and a client makes a bounded number of moves).
Fairness ==
  /\ WF_vars(program = "gra" /\ (G!Przygotuj \/ G!KrokSerwera) /\ PozaGra)
  /\ \A k \in Klienci :
       /\ WF_vars(program = "gra" /\ G!KrokKlienta(k) /\ PozaGra)
       /\ SF_vars(program = "gra" /\ G!Zablokuj(k) /\ PozaGra)
  /\ \A p \in Pracownicy : WF_vars(program = "baza" /\ D!Krok(p) /\ PozaBaza)
  /\ WF_vars(program = "semafor" /\ S!Next /\ PozaSemaforem)
  /\ WF_vars(program = "czujniki" /\ A!Next /\ PozaCzujnikami)

Spec == Init /\ [][Next]_vars /\ Fairness
----------------------------------------------------------------------------
\* The points of all clients, dead ones too, and those left on the board
\* are what the server has put there: no field is counted twice or lost,
\* although clients come while the memory is being prepared, exit with the
\* mutex held and go on after the server has destroyed it.
PunktyZachowane == program = "gra" => G!WydaneINaPlanszy = WARTOSC * i

\* A lock of the board game fails (ERR) only after the server has destroyed
\* the mutex: every owner that died is recovered from by the next one.
BladTylkoPoDestroy ==
  program = "gra" /\ (serwer = "err" \/ \E k \in Klienci : pc[k] = "err_mutex") => mutex = "zniszczony"

\* A client that has mapped an initialised board and waits for the mutex
\* gets it, or its error, whoever dies holding it.
KlientDoczekaSie == \A k \in Klienci :
  (program = "gra" /\ pc[k] = "lock" /\ n[k] # 0) ~> (program = "gra" /\ pc[k] # "lock")

\* The result a worker reports is that of the record as it is, and
\* base_value and processing_count agree, after crashes of earlier workers too.
WynikAktualny == program = "baza" => \A p \in Pracownicy :
  pc[p] = "unlock" =>
    /\ last_result[cel[p]] = base_value[cel[p]]
    /\ base_value[cel[p]] = 100 + cel[p] + 5 * processing_count[cel[p]]

\* With robust mutexes every worker comes to its end, and none is refused
\* the lock, however many of its predecessors have overflowed their stack.
RobustNieBlokuje ==
  (program = "baza" /\ wariant = "robust") ~>
    (program = "baza" /\ \A p \in Pracownicy : pc[p] \in {"koniec", "zabity"})

\* No process of semafor.c uses the barrier, the mutex or the condition
\* variable before they are initialised or after they are destroyed.
ObiektyZyja == program = "semafor" => \A p \in Procesy : S!UzywaSd(p) => sd = "gotowe"

\* If every process of semafor.c gets its mapping (a joiner that comes
\* before shm_open of the creator does not), all of them end and the names
\* are removed.
DemoKonczy == (program = "semafor" /\ mapa = Procesy) ~>
  (program = "semafor" /\ sem = -1 /\ ~shm /\ \A p \in Procesy : pc[p] = "koniec")

\* The aggregator reads the files only while no sensor writes one, although
\* a fast sensor may take the permission meant for another.
BezPodgladu == program = "czujniki" /\ agregator = "czytaj" => A!Pisza = {}

\* The aggregator and the sensors do not wait for one another as long as no
\* sensor has done all its cycles.  (A sensor that has taken the permissions
\* of the others and left makes the rest wait for ever.)
CzujnikiPostepuja == (program = "czujniki") ~> (program = "czujniki" /\ \E c \in Czujniki : pc[c] = "koniec")

\* The average covers the results of all the children, and the log has the
\* line of every child that the file has room for.
SredniaZWszystkich == program = "monte" /\ suma # -1 =>
  /\ suma = M!Suma(wynik)
  /\ \A d \in M!Dzieci : M!WPliku(d) => log[d] = wynik[d]

\* Deaths of mutex owners are recovered from: the next owner finds a lock
\* that works and, in the record database, records that agree.
OdzyskanePoSmierci == BladTylkoPoDestroy /\ WynikAktualny

\* Nobody looks at shared state before it is ready or after it is gone: not
\* at the objects of semafor.c, the files of the sensors, the results of pi.
NicPrzedCzasem == ObiektyZyja /\ BezPodgladu /\ SredniaZWszystkich

\* Nobody is left waiting for a process that has died, has not come yet or
\* has gone ahead.
CzekajacyRuszaja == KlientDoczekaSie /\ RobustNieBlokuje /\ DemoKonczy /\ CzujnikiPostepuja
=============================================================================
