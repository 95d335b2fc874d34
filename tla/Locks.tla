------------------------------- MODULE Locks -------------------------------
(***************************************************************************)
(* The lock programs of the lecture on synchronisation (wyk/sync/code):    *)
(* threads that move money between accounts or count up and down, with no  *)
(* lock (race.c), Peterson's lock on plain and on atomic variables, an     *)
(* exchange, a test-and-set, a POSIX semaphore and a futex.                *)
(*                                                                         *)
(* Memory is that of the x86 processors the listings in the code are for:  *)
(* a plain store waits in the store buffer of its thread, plain loads look *)
(* there first, and an atomic operation needs the buffer empty.  One       *)
(* action is one access to memory, as gcc without -O compiles the code.    *)
(***************************************************************************)
EXTENDS Integers, Sequences, FiniteSets, Functions

CONSTANTS
  Konta,            \* the accounts
  Kwoty,            \* amounts a transfer may ask for
  INITIAL_BALANCE,
  ITERATIONS,       \* of each program: 10000000 in all of them
  NUM_THREADS       \* incrementers, and decrementers, of futex.c

VARIABLES
  wariant,   \* the program that runs
  pc,        \* where each thread is
  i,         \* iterations each thread has begun
  zlecenie,  \* the src, dst and amount of its iteration
  rejestr,   \* the value it has loaded
  pam,       \* memory
  bufor      \* the store buffer of each thread

Przelewy == {"race", "peterson_naive", "peterson_atomic", "atomic_swap"}
Liczniki == {"atomic_tas", "semaphore", "futex"}
Bezpieczne == Liczniki \cup {"peterson_atomic", "atomic_swap"}
Watki == 0..(IF wariant = "futex" THEN 2 * NUM_THREADS - 1 ELSE 1)
Flagi == <<"flag0", "flag1">>
Adresy == Konta \cup {"licznik", "flag0", "flag1", "turn", "lck"}

vars == <<wariant, pc, i, zlecenie, rejestr, pam, bufor>>

\* Mutant: the semaphore lets two threads in.
sem_initDwa == 2

sem_init == 1

\* main of the programs: the accounts get their balance, the lock is free.
Init ==
  /\ wariant \in Przelewy \cup Liczniki
  /\ pc = [w \in Watki |-> "petla"]
  /\ i = [w \in Watki |-> 0]
  /\ zlecenie = [w \in Watki |-> [src |-> "licznik", dst |-> "licznik", amount |-> 0]]
  /\ rejestr = [w \in Watki |-> 0]
  /\ pam = [a \in Adresy |-> CASE a \in Konta -> INITIAL_BALANCE
                               [] a = "lck" /\ wariant = "semaphore" -> sem_init
                               [] OTHER -> 0]
  /\ bufor = [w \in Watki |-> <<>>]

----------------------------------------------------------------------------
Idz(w, dokad) == pc' = [pc EXCEPT ![w] = dokad]

\* What thread w reads at address a: its own newest buffered store, or memory.
Odczyt(w, a) ==
  LET moje == {n \in DOMAIN bufor[w] : bufor[w][n].adres = a}
  IN IF moje = {} THEN pam[a]
     ELSE bufor[w][CHOOSE n \in moje : \A m \in moje : m <= n].wart

Zapis(w, a, v) ==
  /\ bufor' = [bufor EXCEPT ![w] = Append(@, [adres |-> a, wart |-> v])]
  /\ UNCHANGED pam

\* An atomic (sequentially consistent) store or read-modify-write.
Atomowo(w, a, v) ==
  /\ bufor[w] = <<>>
  /\ pam' = [pam EXCEPT ![a] = v]
  /\ UNCHANGED bufor

Pamiec(w, a, v) == IF wariant = "peterson_atomic" THEN Atomowo(w, a, v) ELSE Zapis(w, a, v)

Oproznij(w) ==
  /\ bufor[w] # <<>>
  /\ LET z == Head(bufor[w]) IN pam' = [pam EXCEPT ![z.adres] = z.wart]
  /\ bufor' = [bufor EXCEPT ![w] = Tail(@)]
  /\ UNCHANGED <<wariant, pc, i, zlecenie, rejestr>>

----------------------------------------------------------------------------
Zlec(w, s, d, k) == zlecenie' = [zlecenie EXCEPT ![w] = [src |-> s, dst |-> d, amount |-> k]]

client_simulator(w) == \E s \in Konta : \E d \in Konta \ {s}, k \in Kwoty : Zlec(w, s, d, k)
incrementer(w) == w % 2 = 0 /\ Zlec(w, "licznik", "licznik", 1)
decrementer(w) == w % 2 = 1 /\ Zlec(w, "licznik", "licznik", -1)

\* The for loop: an order for the next iteration, or the end of the thread.
Petla(w) ==
  /\ pc[w] = "petla" /\ i[w] < ITERATIONS[wariant]
  /\ i' = [i EXCEPT ![w] = @ + 1]
  /\ \/ wariant \in Przelewy /\ client_simulator(w)
     \/ wariant \in Liczniki /\ (incrementer(w) \/ decrementer(w))
  /\ Idz(w, "lock")
  /\ UNCHANGED <<wariant, rejestr, pam, bufor>>

Koniec(w) ==
  /\ pc[w] = "petla" /\ i[w] = ITERATIONS[wariant] /\ bufor[w] = <<>>
  /\ Idz(w, "koniec")
  /\ UNCHANGED <<wariant, i, zlecenie, rejestr, pam, bufor>>

Sekcja == IF wariant \in Przelewy THEN "sprawdz" ELSE "czytaj_dst"

\* race.c calls transfer() without a lock.
BezZamka(w) ==
  /\ wariant = "race" /\ pc[w] \in {"lock", "unlock"}
  /\ Idz(w, IF pc[w] = "lock" THEN Sekcja ELSE "petla")
  /\ UNCHANGED <<pam, bufor>>

peterson_mutex_lock(w) ==
  /\ wariant \in {"peterson_naive", "peterson_atomic"}
  /\ \/ /\ pc[w] = "lock"
        /\ Pamiec(w, Flagi[w + 1], 1) /\ Idz(w, "turn")
     \/ /\ pc[w] = "turn"
        /\ Pamiec(w, "turn", 1 - w) /\ Idz(w, "flag_j")
     \/ /\ pc[w] = "flag_j"
        /\ Idz(w, IF Odczyt(w, Flagi[2 - w]) = 1 THEN "turn_j" ELSE Sekcja)
        /\ UNCHANGED <<pam, bufor>>
     \/ /\ pc[w] = "turn_j"
        /\ Idz(w, IF Odczyt(w, "turn") = 1 - w THEN "flag_j" ELSE Sekcja)
        /\ UNCHANGED <<pam, bufor>>

peterson_mutex_unlock(w) ==
  /\ wariant \in {"peterson_naive", "peterson_atomic"} /\ pc[w] = "unlock"
  /\ Pamiec(w, Flagi[w + 1], 0)
  /\ Idz(w, "petla")

\* atomic_exchange of atomic_swap.c and atomic_flag_test_and_set of
\* atomic_tas.c: the old value decides whether the thread goes in.
LockWymiana(w) ==
  /\ wariant \in {"atomic_swap", "atomic_tas"} /\ pc[w] = "lock"
  /\ Atomowo(w, "lck", 1)
  /\ Idz(w, IF pam["lck"] = 0 THEN Sekcja ELSE "lock")

UnlockWymiana(w) ==
  /\ wariant \in {"atomic_swap", "atomic_tas"} /\ pc[w] = "unlock"
  /\ Atomowo(w, "lck", 0)
  /\ Idz(w, "petla")

\* sem_wait and sem_post of semaphore.c.
Semafor(w) ==
  /\ wariant = "semaphore"
  /\ \/ pc[w] = "lock" /\ pam["lck"] > 0 /\ Atomowo(w, "lck", pam["lck"] - 1) /\ Idz(w, Sekcja)
     \/ pc[w] = "unlock" /\ Atomowo(w, "lck", pam["lck"] + 1) /\ Idz(w, "petla")

\* lock() of futex.c: 0 is free, 1 taken, 2 taken with threads that may sleep.
LockFutex(w) ==
  /\ wariant = "futex"
  /\ \/ /\ pc[w] = "lock"
        /\ Atomowo(w, "lck", IF pam["lck"] = 0 THEN 1 ELSE pam["lck"])
        /\ Idz(w, IF pam["lck"] = 0 THEN Sekcja ELSE "exchange")
     \/ /\ pc[w] = "exchange"
        /\ Atomowo(w, "lck", 2)
        /\ Idz(w, IF pam["lck"] = 0 THEN Sekcja ELSE "FUTEX_WAIT")
     \/ /\ pc[w] = "FUTEX_WAIT"
        /\ Idz(w, IF pam["lck"] = 2 THEN "spi" ELSE "exchange")
        /\ UNCHANGED <<pam, bufor>>

\* Mutant: unlock() wakes nobody.
FutexWakeNikogo(w) == Idz(w, "petla")

FutexWake(w) ==
  LET spiacy == {v \in Watki : pc[v] = "spi"}
  IN IF spiacy = {} THEN Idz(w, "petla")
     ELSE \E v \in spiacy : pc' = [pc EXCEPT ![w] = "petla", ![v] = "exchange"]

UnlockFutex(w) ==
  /\ wariant = "futex"
  /\ \/ /\ pc[w] = "unlock"
        /\ Atomowo(w, "lck", pam["lck"] - 1)
        /\ Idz(w, IF pam["lck"] = 1 THEN "petla" ELSE "store")
     \/ /\ pc[w] = "store" /\ Atomowo(w, "lck", 0) /\ Idz(w, "FUTEX_WAKE")
     \/ /\ pc[w] = "FUTEX_WAKE" /\ FutexWake(w) /\ UNCHANGED <<pam, bufor>>

\* Mutant: a transfer that does not look at the balance of the source.
StacNaKazda(w) == TRUE

StacNa(w) == Odczyt(w, zlecenie[w].src) >= zlecenie[w].amount

\* transfer(), and (*counter)++ or -- as its second half.
transfer(w) ==
  LET z == zlecenie[w] IN
  \/ /\ pc[w] = "sprawdz"
     /\ Idz(w, IF StacNa(w) THEN "czytaj_src" ELSE "unlock")
     /\ UNCHANGED <<rejestr, pam, bufor>>
  \/ /\ \/ pc[w] = "czytaj_src" /\ rejestr' = [rejestr EXCEPT ![w] = Odczyt(w, z.src)] /\ Idz(w, "pisz_src")
        \/ pc[w] = "czytaj_dst" /\ rejestr' = [rejestr EXCEPT ![w] = Odczyt(w, z.dst)] /\ Idz(w, "pisz_dst")
     /\ UNCHANGED <<pam, bufor>>
  \/ /\ \/ pc[w] = "pisz_src" /\ Zapis(w, z.src, rejestr[w] - z.amount) /\ Idz(w, "czytaj_dst")
        \/ pc[w] = "pisz_dst" /\ Zapis(w, z.dst, rejestr[w] + z.amount) /\ Idz(w, "unlock")
     /\ UNCHANGED rejestr

lock(w) == BezZamka(w) \/ peterson_mutex_lock(w) \/ LockWymiana(w) \/ Semafor(w) \/ LockFutex(w)
unlock(w) == peterson_mutex_unlock(w) \/ UnlockWymiana(w) \/ UnlockFutex(w)

\* client_simulator, incrementer and decrementer.
KrokWatku(w) ==
  \/ Petla(w)
  \/ Koniec(w)
  \/ (lock(w) \/ unlock(w)) /\ UNCHANGED <<wariant, i, zlecenie, rejestr>>
  \/ transfer(w) /\ UNCHANGED <<wariant, i, zlecenie>>

Next == \E w \in Watki : KrokWatku(w) \/ Oproznij(w)

Fairness == \A w \in 0..(2 * NUM_THREADS - 1) :
  /\ WF_vars(w \in Watki /\ KrokWatku(w))
  /\ WF_vars(w \in Watki /\ Oproznij(w))

Spec == Init /\ [][Next]_vars /\ Fairness
----------------------------------------------------------------------------
Zakonczone == \A w \in Watki : pc[w] = "koniec"

\* total_balance(), and the counter of the counting programs.
total_balance == FoldFunctionOnSet(+, 0, pam, Konta \cup {"licznik"})

\* What main prints at the end, in the programs with a real lock.
NicNieZginelo ==
  Zakonczone /\ wariant \in Bezpieczne => total_balance = Cardinality(Konta) * INITIAL_BALANCE

BezDebetu == wariant \in Bezpieczne => \A k \in Konta : pam[k] >= 0
=============================================================================
