----------------------------- MODULE BoardGame -----------------------------
(***************************************************************************)
(* lab_6/zadanie_2: the server puts a mutex, N and a board of N x N points *)
(* into shared memory; clients take points under the robust mutex, exit    *)
(* now and then without releasing it, and end on an empty field.  Clients  *)
(* may start at any moment, before the memory is ready or after SIGINT.    *)
(***************************************************************************)
EXTENDS Integers, FiniteSets, Functions, RobustMutex

CONSTANTS
  Klienci,
  Rozmiar,   \* n, the argument of the server
  WARTOSC    \* points on a field, 1 + rand() % 9 in the code

VARIABLES
  serwer, running,   \* the server: where it is, and its flag
  i,                 \* fields it has filled
  shm,               \* "brak", "pusty" (size 0) or "gotowy"
  mutex, wlasciciel, \* the mutex in shared memory and the process that holds it
  N, board,          \* the rest of the shared memory
  pc,                \* where each client is
  n, points, pole    \* its copy of N, its points and the field it has drawn

wspolne == <<i, shm, mutex, wlasciciel, N, board>>
klient == <<pc, n, points, pole>>
vars == <<serwer, running, wspolne, klient>>

Nikt == "nikt"
Pola == 0..(Rozmiar * Rozmiar - 1)

Init ==
  /\ serwer = "shm_open" /\ running = 1 /\ i = 0
  /\ shm = "brak" /\ mutex = "zerowy" /\ wlasciciel = Nikt /\ N = 0 /\ board = [f \in Pola |-> 0]
  /\ pc = [k \in Klienci |-> "shm_open"]
  /\ n = [k \in Klienci |-> 0] /\ points = n /\ pole = n

----------------------------------------------------------------------------
\* Mutant: N is published before the mutex is initialised, as in the
\* server of the course (l6-2_server.c).
MutexNaKoncu ==
  \/ serwer = "mutex_init" /\ N' = Rozmiar /\ serwer' = "N" /\ UNCHANGED <<mutex, wlasciciel>>
  \/ serwer = "N" /\ mutex' = "wolny" /\ wlasciciel' = Nikt /\ serwer' = "plansza" /\ UNCHANGED N

MutexPotemN ==
  \/ serwer = "mutex_init" /\ mutex' = "wolny" /\ wlasciciel' = Nikt /\ serwer' = "N" /\ UNCHANGED N
  \/ serwer = "N" /\ N' = Rozmiar /\ serwer' = "plansza" /\ UNCHANGED <<mutex, wlasciciel>>

JeszczePole == i < Rozmiar * Rozmiar

Przygotuj ==
  /\ \/ /\ serwer = "shm_open" /\ shm' = "pusty" /\ serwer' = "ftruncate"
        /\ UNCHANGED <<i, mutex, wlasciciel, N, board>>
     \/ /\ serwer = "ftruncate" /\ shm' = "gotowy" /\ serwer' = "mutex_init"
        /\ UNCHANGED <<i, mutex, wlasciciel, N, board>>
     \/ MutexPotemN /\ UNCHANGED <<i, shm, board>>
     \/ /\ serwer = "plansza" /\ JeszczePole
        /\ board' = [board EXCEPT ![i] = WARTOSC] /\ i' = i + 1
        /\ UNCHANGED <<serwer, shm, mutex, wlasciciel, N>>
     \/ serwer = "plansza" /\ ~JeszczePole /\ serwer' = "petla" /\ UNCHANGED wspolne
  /\ UNCHANGED <<running, klient>>

\* Mutant: EOWNERDEAD is ignored.
ZajmijNiespojny(p) == mutex' = PoLock(mutex) /\ wlasciciel' = p

\* pthread_mutex_lock that succeeds, with pthread_mutex_consistent after EOWNERDEAD.
Zajmij(p) == mutex' = PoConsistent(PoLock(mutex)) /\ wlasciciel' = p

\* Mutant: the mutex is not released.
ZwolnijNic(p) == UNCHANGED <<mutex, wlasciciel>>

\* pthread_mutex_unlock, without effect for a process that does not hold the mutex.
Zwolnij(p) ==
  /\ mutex' = IF wlasciciel = p THEN PoUnlock(mutex) ELSE mutex
  /\ wlasciciel' = IF wlasciciel = p THEN Nikt ELSE wlasciciel

\* The handler is installed just before the loop.
sigint_handler ==
  /\ serwer \in {"petla", "lock", "drukuj"} /\ running = 1 /\ running' = 0
  /\ UNCHANGED <<serwer, wspolne, klient>>

\* The loop that prints the board every three seconds, and the clean-up.
KrokSerwera ==
  /\ \/ /\ serwer = "petla" /\ serwer' = IF running = 1 THEN "lock" ELSE "destroy"
        /\ UNCHANGED <<shm, mutex, wlasciciel>>
     \/ serwer = "lock" /\ MoznaZajac(mutex) /\ Zajmij("serwer") /\ serwer' = "drukuj" /\ UNCHANGED shm
     \/ serwer = "lock" /\ BladLock(mutex) /\ serwer' = "err" /\ UNCHANGED <<shm, mutex, wlasciciel>>
     \/ serwer = "drukuj" /\ Zwolnij("serwer") /\ serwer' = "petla" /\ UNCHANGED shm
     \/ serwer = "destroy" /\ mutex' = "zniszczony" /\ serwer' = "shm_unlink" /\ UNCHANGED <<shm, wlasciciel>>
     \/ serwer = "shm_unlink" /\ shm' = "brak" /\ serwer' = "koniec" /\ UNCHANGED <<mutex, wlasciciel>>
  /\ UNCHANGED <<running, i, N, board, klient>>

----------------------------------------------------------------------------
Idz(k, dokad) == pc' = [pc EXCEPT ![k] = dokad]

\* shm_open and mmap; N is copied once.  A touch of memory of size 0 is SIGBUS.
Dolacz(k) ==
  /\ \/ pc[k] = "shm_open" /\ Idz(k, IF shm = "brak" THEN "err_shm" ELSE "mmap") /\ UNCHANGED n
     \/ pc[k] = "mmap" /\ shm = "pusty" /\ Idz(k, "zabity") /\ UNCHANGED n
     \/ pc[k] = "mmap" /\ shm # "pusty" /\ n' = [n EXCEPT ![k] = N] /\ Idz(k, "lock")
  /\ UNCHANGED <<serwer, running, wspolne, points, pole>>

Zablokuj(k) ==
  /\ pc[k] = "lock"
  /\ \/ MoznaZajac(mutex) /\ Zajmij(k) /\ Idz(k, "los")
     \/ BladLock(mutex) /\ Idz(k, "err_mutex") /\ UNCHANGED <<mutex, wlasciciel>>
  /\ UNCHANGED <<serwer, running, i, shm, N, board, n, points, pole>>

\* random == 1: exit with the mutex held; otherwise a field is drawn, and
\* rand() % N kills a client whose N is 0.
Losuj(k) ==
  /\ pc[k] = "los"
  /\ \/ /\ \/ Idz(k, "koniec")
           \/ n[k] = 0 /\ Idz(k, "zabity")
        /\ mutex' = IF wlasciciel = k THEN PoSmierci(mutex) ELSE mutex
        /\ UNCHANGED pole
     \/ \E f \in 0..(n[k] * n[k] - 1) :
          pole' = [pole EXCEPT ![k] = f] /\ Idz(k, "pole") /\ UNCHANGED mutex
  /\ UNCHANGED <<serwer, running, i, shm, wlasciciel, N, board, n, points>>

Pole(k) ==
  /\ \/ /\ pc[k] = "pole" /\ board[pole[k]] # 0
        /\ points' = [points EXCEPT ![k] = @ + board[pole[k]]]
        /\ Idz(k, "zeruj") /\ UNCHANGED <<board, mutex, wlasciciel>>
     \/ /\ pc[k] = "zeruj"
        /\ board' = [board EXCEPT ![pole[k]] = 0]
        /\ Zwolnij(k) /\ Idz(k, "lock") /\ UNCHANGED points
     \/ /\ pc[k] = "pole" /\ board[pole[k]] = 0
        /\ Zwolnij(k) /\ Idz(k, "koniec") /\ UNCHANGED <<board, points>>
  /\ UNCHANGED <<serwer, running, i, shm, N, n, pole>>

KrokKlienta(k) == Dolacz(k) \/ Zablokuj(k) \/ Losuj(k) \/ Pole(k)

Next == Przygotuj \/ sigint_handler \/ KrokSerwera \/ \E k \in Klienci : KrokKlienta(k)
----------------------------------------------------------------------------
Suma(f) == FoldFunction(+, 0, f)

\* Points handed out and points on the board; a client between the two
\* assignments has taken a field it has not cleared yet.
WydaneINaPlanszy ==
  Suma(points) + Suma(board) - Suma([k \in Klienci |-> IF pc[k] = "zeruj" THEN board[pole[k]] ELSE 0])
=============================================================================
