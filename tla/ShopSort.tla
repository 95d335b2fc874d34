------------------------------ MODULE ShopSort ------------------------------
(***************************************************************************)
(* The night shift of zadania_6/w6/sop-shop.c.  Worker processes pick two  *)
(* shelves, lock them in ascending order and swap their products when they *)
(* are out of order; the manager looks at all the shelves without locking  *)
(* them and ends the shift when they look sorted or all the workers have   *)
(* finished; main waits for everybody.                                     *)
(*                                                                         *)
(* The section of a worker under sd->mutex is one action; the manager      *)
(* holds that mutex over its whole inspection, one memory access a step.   *)
(***************************************************************************)
EXTENDS Integers, FiniteSets

CONSTANTS
  N,            \* shelves; 8..256 in the code
  Pracownicy,   \* the worker processes (m of them)
  ITERACJE,     \* rounds of a worker, 10 in the code
  Nikt          \* holder of a free mutex

ASSUME StaleAssumption ==
  /\ N \in Nat /\ N >= 2
  /\ IsFiniteSet(Pracownicy)
  /\ ITERACJE \in Nat
  /\ Nikt \notin Pracownicy

Polki == 0..(N - 1)
Produkty == 1..N

VARIABLES
  shelves,     \* the products on the shelves
  mutexes,     \* mutexes[i]: the worker that holds the mutex of shelf i
  sd_mutex,    \* does the manager hold sd->mutex?
  running,     \* sd->running
  ile,         \* sd->ile, the workers that have finished
  pc,          \* where each worker is in children_work
  runda,       \* its loop counter i
  low, high,   \* its two shelves
  tmp,         \* tmp in its call of swap
  kierownik,   \* where manager_work is
  indeks,      \* the manager's loop counter i
  lewa,        \* the value of shelves[i-1] it has read
  zmiana       \* main: "trwa" or "koniec"

praca == <<pc, runda, low, high, tmp>>
dozor == <<kierownik, indeks, lewa>>
vars == <<shelves, mutexes, sd_mutex, running, ile, praca, dozor, zmiana>>

Permutacja(s) == \A v \in Produkty : \E i \in Polki : s[i] = v

(* main fills and shuffles the shelves: any permutation of 1..n. *)
Init ==
  /\ shelves \in {s \in [Polki -> Produkty] : Permutacja(s)}
  /\ mutexes = [i \in Polki |-> Nikt]
  /\ sd_mutex = FALSE
  /\ running = 1
  /\ ile = 0
  /\ pc = [p \in Pracownicy |-> "start"]
  /\ runda = [p \in Pracownicy |-> 0]
  /\ low = [p \in Pracownicy |-> 0]
  /\ high = [p \in Pracownicy |-> 1]
  /\ tmp = [p \in Pracownicy |-> 0]
  /\ kierownik = "spi"
  /\ indeks = 1
  /\ lewa = 0
  /\ zmiana = "trwa"

-----------------------------------------------------------------------------
(* A worker: children_work. *)

Idz(p, miejsce) == pc' = [pc EXCEPT ![p] = miejsce]

(* Mutant of Wybierz: one round too many. *)
WybierzPonad(p) ==
  /\ pc[p] = "start" /\ runda[p] <= ITERACJE /\ ~sd_mutex /\ running = 1
  /\ \E s1, s2 \in Polki :
       /\ s1 < s2
       /\ low' = [low EXCEPT ![p] = s1]
       /\ high' = [high EXCEPT ![p] = s2]
  /\ Idz(p, "lock_low")
  /\ UNCHANGED <<shelves, mutexes, running, ile, runda, tmp>>

(* Mutant of Wybierz: the shelves are locked in the order they were drawn. *)
WybierzBezPorzadku(p) ==
  /\ pc[p] = "start" /\ runda[p] < ITERACJE /\ ~sd_mutex /\ running = 1
  /\ \E s1, s2 \in Polki :
       /\ s1 # s2
       /\ low' = [low EXCEPT ![p] = s1]
       /\ high' = [high EXCEPT ![p] = s2]
  /\ Idz(p, "lock_low")
  /\ UNCHANGED <<shelves, mutexes, running, ile, runda, tmp>>

(* Look at the flag; while it is set pick two different shelves. *)
Wybierz(p) ==
  /\ pc[p] = "start"
  /\ runda[p] < ITERACJE
  /\ ~sd_mutex
  /\ running = 1
  /\ \E s1, s2 \in Polki :
       /\ s1 < s2
       /\ low' = [low EXCEPT ![p] = s1]
       /\ high' = [high EXCEPT ![p] = s2]
  /\ Idz(p, "lock_low")
  /\ UNCHANGED <<shelves, mutexes, running, ile, runda, tmp>>

(* Leave the loop: the flag is down, or the rounds are done. *)
Przerwij(p) ==
  /\ pc[p] = "start"
  /\ \/ runda[p] < ITERACJE /\ ~sd_mutex /\ running = 0
     \/ runda[p] = ITERACJE
  /\ Idz(p, "meldunek")
  /\ UNCHANGED <<shelves, mutexes, running, ile, runda, low, high, tmp>>

BlokujLow(p) ==
  /\ pc[p] = "lock_low"
  /\ mutexes[low[p]] = Nikt
  /\ mutexes' = [mutexes EXCEPT ![low[p]] = p]
  /\ Idz(p, "lock_high")
  /\ UNCHANGED <<shelves, running, ile, runda, low, high, tmp>>

(* Mutant of BlokujHigh: the second shelf is not locked. *)
BezBlokadyHigh(p) ==
  /\ pc[p] = "lock_high"
  /\ Idz(p, "porownaj")
  /\ UNCHANGED <<shelves, mutexes, running, ile, runda, low, high, tmp>>

BlokujHigh(p) ==
  /\ pc[p] = "lock_high"
  /\ mutexes[high[p]] = Nikt
  /\ mutexes' = [mutexes EXCEPT ![high[p]] = p]
  /\ Idz(p, "porownaj")
  /\ UNCHANGED <<shelves, running, ile, runda, low, high, tmp>>

(* Mutant of Porownaj: the comparison is the wrong way round. *)
PorownajOdwrotnie(p) ==
  /\ pc[p] = "porownaj"
  /\ Idz(p, IF shelves[low[p]] < shelves[high[p]] THEN "swap" ELSE "unlock_high")
  /\ UNCHANGED <<shelves, mutexes, running, ile, runda, low, high, tmp>>

Porownaj(p) ==
  /\ pc[p] = "porownaj"
  /\ Idz(p, IF shelves[low[p]] > shelves[high[p]] THEN "swap" ELSE "unlock_high")
  /\ UNCHANGED <<shelves, mutexes, running, ile, runda, low, high, tmp>>

(* swap: tmp = *y, *y = *x ... *)
SwapHigh(p) ==
  /\ pc[p] = "swap"
  /\ tmp' = [tmp EXCEPT ![p] = shelves[high[p]]]
  /\ shelves' = [shelves EXCEPT ![high[p]] = shelves[low[p]]]
  /\ Idz(p, "swap_low")
  /\ UNCHANGED <<mutexes, running, ile, runda, low, high>>

(* ... *x = tmp. *)
SwapLow(p) ==
  /\ pc[p] = "swap_low"
  /\ shelves' = [shelves EXCEPT ![low[p]] = tmp[p]]
  /\ tmp' = [tmp EXCEPT ![p] = 0]
  /\ Idz(p, "unlock_high")
  /\ UNCHANGED <<mutexes, running, ile, runda, low, high>>

OdblokujHigh(p) ==
  /\ pc[p] = "unlock_high"
  /\ mutexes' = [mutexes EXCEPT ![high[p]] = Nikt]
  /\ Idz(p, "unlock_low")
  /\ UNCHANGED <<shelves, running, ile, runda, low, high, tmp>>

OdblokujLow(p) ==
  /\ pc[p] = "unlock_low"
  /\ mutexes' = [mutexes EXCEPT ![low[p]] = Nikt]
  /\ runda' = [runda EXCEPT ![p] = @ + 1]
  /\ Idz(p, "start")
  /\ UNCHANGED <<shelves, running, ile, low, high, tmp>>

Melduj(p) ==
  /\ pc[p] = "meldunek"
  /\ ~sd_mutex
  /\ ile' = ile + 1
  /\ Idz(p, "koniec")
  /\ UNCHANGED <<shelves, mutexes, running, runda, low, high, tmp>>

KrokPracownika(p) ==
  /\ \/ Wybierz(p) \/ Przerwij(p) \/ BlokujLow(p) \/ BlokujHigh(p) \/ Porownaj(p)
     \/ SwapHigh(p) \/ SwapLow(p) \/ OdblokujHigh(p) \/ OdblokujLow(p) \/ Melduj(p)
  /\ UNCHANGED <<sd_mutex, dozor, zmiana>>

-----------------------------------------------------------------------------
(* The manager: manager_work. *)

(* Lock sd->mutex; stop when all the workers have finished, else inspect. *)
Zbudz ==
  /\ kierownik = "spi"
  /\ \/ /\ ile = Cardinality(Pracownicy)
        /\ running' = 0
        /\ kierownik' = "koniec"
        /\ UNCHANGED sd_mutex
     \/ /\ ile # Cardinality(Pracownicy)
        /\ sd_mutex' = TRUE
        /\ kierownik' = "czytaj"
        /\ UNCHANGED running
  /\ indeks' = 1
  /\ UNCHANGED lewa

CzytajLewa ==
  /\ kierownik = "czytaj"
  /\ indeks < N
  /\ lewa' = shelves[indeks - 1]
  /\ kierownik' = "porownaj"
  /\ UNCHANGED <<sd_mutex, running, indeks>>

(* A pair out of order ends the inspection. *)
CzytajPrawa ==
  /\ kierownik = "porownaj"
  /\ \/ /\ lewa > shelves[indeks]
        /\ kierownik' = "spi"
        /\ sd_mutex' = FALSE
        /\ UNCHANGED indeks
     \/ /\ lewa <= shelves[indeks]
        /\ kierownik' = "czytaj"
        /\ indeks' = indeks + 1
        /\ UNCHANGED sd_mutex
  /\ lewa' = 0
  /\ UNCHANGED running

(* "The shop shelves are sorted". *)
Oglos ==
  /\ kierownik = "czytaj"
  /\ indeks = N
  /\ running' = 0
  /\ sd_mutex' = FALSE
  /\ kierownik' = "oglosil"
  /\ UNCHANGED <<indeks, lewa>>

KrokKierownika ==
  /\ Zbudz \/ CzytajLewa \/ CzytajPrawa \/ Oglos
  /\ UNCHANGED <<shelves, mutexes, ile, praca, zmiana>>

(* main: the waits end, the mutexes are destroyed. *)
KoniecZmiany ==
  /\ zmiana = "trwa"
  /\ \A p \in Pracownicy : pc[p] = "koniec"
  /\ kierownik \in {"koniec", "oglosil"}
  /\ zmiana' = "koniec"
  /\ UNCHANGED <<shelves, mutexes, sd_mutex, running, ile, praca, dozor>>

Next ==
  \/ \E p \in Pracownicy : KrokPracownika(p)
  \/ KrokKierownika
  \/ KoniecZmiany

Spec == Init /\ [][Next]_vars

(* Every process goes on when it can; one that waits for a mutex that is
   released again and again gets it. *)
FairSpec ==
  /\ Spec
  /\ \A p \in Pracownicy : SF_vars(KrokPracownika(p))
  /\ WF_vars(KrokKierownika)
  /\ WF_vars(KoniecZmiany)

-----------------------------------------------------------------------------
(* Types. *)
TypeOK ==
  /\ shelves \in [Polki -> Produkty]
  /\ mutexes \in [Polki -> Pracownicy \cup {Nikt}]
  /\ sd_mutex \in BOOLEAN
  /\ running \in {0, 1}
  /\ ile \in 0..Cardinality(Pracownicy)
  /\ pc \in [Pracownicy -> {"start", "lock_low", "lock_high", "porownaj", "swap",
                            "swap_low", "unlock_high", "unlock_low", "meldunek",
                            "koniec"}]
  /\ runda \in [Pracownicy -> 0..ITERACJE]
  /\ low \in [Pracownicy -> Polki]
  /\ high \in [Pracownicy -> Polki]
  /\ tmp \in [Pracownicy -> Produkty \cup {0}]
  /\ kierownik \in {"spi", "czytaj", "porownaj", "koniec", "oglosil"}
  /\ indeks \in 1..N
  /\ lewa \in Produkty \cup {0}
  /\ zmiana \in {"trwa", "koniec"}

(* The shelves with every swap that has begun carried out. *)
Docelowe ==
  [i \in Polki |->
     IF \E p \in Pracownicy : pc[p] = "swap_low" /\ low[p] = i
     THEN tmp[CHOOSE p \in Pracownicy : pc[p] = "swap_low" /\ low[p] = i]
     ELSE shelves[i]]

(* No product is ever lost or duplicated by workers that swap at the same
   time: what is on the shelves and in the hands of the workers is always a
   permutation of the products. *)
TowarZachowany == Permutacja(Docelowe)

Inwersje(s) == {p \in Polki \X Polki : p[1] < p[2] /\ s[p[1]] > s[p[2]]}

(* No step of anybody makes the shelves less sorted.  In particular sorted
   shelves stay sorted. *)
PorzadekRosnie ==
  [][Cardinality(Inwersje(Docelowe')) <= Cardinality(Inwersje(Docelowe))]_vars

(* The shift ends: the workers never block one another for ever over their
   two locks, and the manager and main notice that everybody has finished. *)
ZmianaSieKonczy == <>(zmiana = "koniec")

(* Line 151, the manager's message: "The shop shelves are sorted". *)
OgloszonePosortowane == kierownik = "oglosil" => Inwersje(Docelowe) = {}
=============================================================================
