----------------------------- MODULE Shm_proofs -----------------------------
(***************************************************************************)
(* Proofs about the programs that meet in shared memory (Shm), for any     *)
(* number of processes, any board, any records and any number of cycles.   *)
(* Each program has its own inductive invariant; the theorems at the end   *)
(* put them together for Spec.                                             *)
(***************************************************************************)
EXTENDS Shm, DataLemmas

-----------------------------------------------------------------------------
(* The board game. *)

MiejscaKlienta ==
  {"shm_open", "mmap", "lock", "los", "pole", "zeruj", "koniec", "zabity", "err_shm", "err_mutex"}
PrzedInit == {"shm_open", "ftruncate", "mutex_init"}

(* The mutex is never left inconsistent or lost. *)
TypG ==
  /\ serwer \in PrzedInit \cup {"N", "plansza", "petla", "lock", "drukuj", "destroy", "shm_unlink", "koniec", "err"}
  /\ mutex \in {"zerowy", "zerowy_zajety", "wolny", "zajety", "porzucony", "zniszczony"}
  /\ wlasciciel \in Klienci \cup {"serwer", "nikt"}
  /\ i \in 0..(Rozmiar * Rozmiar)
  /\ N \in {0, Rozmiar}
  /\ board \in [G!Pola -> {0, WARTOSC}]
  /\ pc \in [Klienci -> MiejscaKlienta]
  /\ n \in [Klienci -> {0, Rozmiar}]
  /\ points \in [Klienci -> Int]
  /\ pole \in [Klienci -> Int]

(* A client that knows the size of the board has seen it published, which
   the server does after it has initialised the mutex. *)
PublikacjaG ==
  /\ serwer \in PrzedInit <=> mutex \in {"zerowy", "zerowy_zajety"}
  /\ serwer \in PrzedInit \cup {"N"} => N = 0 /\ \A k \in Klienci : n[k] = 0

(* The clients that may touch the board. *)
WSekcjiG(k) == pc[k] \in {"los", "pole", "zeruj"} /\ n[k] # 0

(* Such a client holds the mutex, or held it when it was destroyed. *)
SekcjaG ==
  \A k \in Klienci :
    /\ WSekcjiG(k) => wlasciciel = k /\ mutex \in {"zajety", "zniszczony"}
    /\ pc[k] \in {"pole", "zeruj"} => n[k] # 0 /\ pole[k] \in G!Pola
    /\ pc[k] = "zeruj" => board[pole[k]] # 0

(* The server has not yet come to the fields from i on. *)
PlanszaG == \A f \in G!Pola : f >= i => board[f] = 0

BladG == serwer = "err" \/ (\E k \in Klienci : pc[k] = "err_mutex") => mutex = "zniszczony"

StanG == TypG /\ PublikacjaG /\ SekcjaG /\ PlanszaG /\ BladG

PunktyG == G!WydaneINaPlanszy = WARTOSC * i

-----------------------------------------------------------------------------
(* The record database. *)

MiejscaPracownika == {"lock", "base", "count", "hash", "unlock", "koniec", "zabity", "blad"}
WSekcjiD(p) == pc[p] \in {"base", "count", "hash", "unlock"}

TypD ==
  /\ wariant \in {"rekord", "globalny", "robust"}
  /\ mtx \in [Rekordy \cup {D!GLOBAL} -> {"wolny", "zajety", "porzucony"}]
  /\ base_value \in [Rekordy -> Int]
  /\ processing_count \in [Rekordy -> Int]
  /\ last_result \in [Rekordy -> Int]
  /\ pc \in [Pracownicy -> MiejscaPracownika]
  /\ cel \in [Pracownicy -> Rekordy]

(* Workers in their sections hold different mutexes, and only the robust
   variant can leave one of a dead owner. *)
SekcjaD ==
  /\ \A p \in Pracownicy : WSekcjiD(p) => mtx[D!Zamek(p)] = "zajety"
  /\ \A p, q \in Pracownicy : WSekcjiD(p) /\ WSekcjiD(q) /\ D!Zamek(p) = D!Zamek(q) => p = q
  /\ \A r \in Rekordy \cup {D!GLOBAL} : mtx[r] = "porzucony" => wariant = "robust"

(* A record is out of step only while a worker is between its two updates. *)
RekordyD ==
  /\ \A r \in Rekordy : \/ base_value[r] = 100 + r + 5 * processing_count[r]
                        \/ \E p \in Pracownicy : pc[p] = "count" /\ cel[p] = r
  /\ \A p \in Pracownicy : pc[p] = "count" =>
       base_value[cel[p]] = 100 + cel[p] + 5 * processing_count[cel[p]] + 5
  /\ \A p \in Pracownicy : pc[p] = "unlock" => last_result[cel[p]] = base_value[cel[p]]

StanD == TypD /\ SekcjaD /\ RekordyD

-----------------------------------------------------------------------------
(* The demonstration of semaphores, barriers and condition variables. *)

PrzedKluczem == {"sem_open", "sem_open2", "shm_create", "ftruncate", "shm_open", "inicjalizuj", "sem_wait"}
PoKluczu == {"sem_post", "bariera", "awaria", "pracuj", "warunek", "spi", "bariera2"}
Sprzatanie == {"destroy", "shm_unlink", "sem_unlink", "koniec"}

(* Before the second meeting the objects, once ready, stay ready, and the
   semaphore is given only when they are; after it nobody uses them. *)
StanS ==
  /\ sem \in Int
  /\ pc \in [Procesy -> PrzedKluczem \cup PoKluczu \cup Sprzatanie \cup {"blad"}]
  /\ \/ \A p \in Procesy : pc[p] \in Sprzatanie
     \/ /\ \A p \in Procesy : pc[p] \notin Sprzatanie
        /\ sem > 0 \/ (\E p \in Procesy : pc[p] \in PoKluczu) => sd = "gotowe"

-----------------------------------------------------------------------------
(* The sensors and the aggregator. *)

Czekaja == {c \in Czujniki : pc[c] = "sem_wait"}

(* The posts that the aggregator has collected and not answered yet. *)
Zebrane == CASE agregator = "zbierz" -> s
             [] agregator = "czytaj" -> A!num_sensors
             [] agregator = "pozwol" -> A!num_sensors - s
             [] OTHER -> 0

(* Every sensor that waits has a post that is not answered, or a permission. *)
StanA ==
  /\ data_ready \in Nat /\ can_overwrite \in Nat
  /\ agregator \in {"zbierz", "czytaj", "pozwol", "koniec"}
  /\ s \in 0..A!num_sensors
  /\ pc \in [Czujniki -> {"pisz", "sem_post", "sem_wait", "koniec"}]
  /\ Cardinality(Czekaja) = data_ready + can_overwrite + Zebrane

-----------------------------------------------------------------------------
(* The estimation of pi. *)

StanM ==
  /\ N \in 1..NMax /\ i \in 0..N
  /\ pi \in [M!Dzieci -> Int] /\ wynik = pi
  /\ log \in [M!Dzieci -> Int]
  /\ pc \in [M!Dzieci -> {"brak", "licz", "log", "koniec"}]
  /\ \A d \in M!Dzieci : pc[d] = "koniec" /\ M!WPliku(d) => log[d] = pi[d]
  /\ suma # -1 => i = N /\ M!WaitDoKonca /\ suma = M!Suma(pi)

-----------------------------------------------------------------------------
(* The inductive invariant of Shm. *)
IInv ==
  /\ program \in {"gra", "baza", "semafor", "czujniki", "monte"}
  /\ program = "gra" => StanG /\ PunktyG
  /\ program = "baza" => StanD
  /\ program = "semafor" => StanS
  /\ program = "czujniki" => StanA
  /\ program = "monte" => StanM
-----------------------------------------------------------------------------
LEMMA RozmiarLemma ==
  /\ Rozmiar * Rozmiar \in Nat
  /\ Rozmiar # 0 => Rozmiar * Rozmiar - 1 \in Nat
  /\ \A f \in G!Pola : f \in Int
BY ShmAssumption DEF G!Pola

LEMMA InitG == G!Init => StanG
<1> SUFFICES ASSUME G!Init PROVE StanG
  OBVIOUS
<1> USE ShmAssumption, RozmiarLemma
<1>1. TypG
  BY DEF G!Init, TypG, PrzedInit, MiejscaKlienta, G!Nikt
<1>2. PublikacjaG /\ SekcjaG /\ PlanszaG /\ BladG
  BY DEF G!Init, PublikacjaG, SekcjaG, WSekcjiG, PlanszaG, BladG, PrzedInit
<1>. QED
  BY <1>1, <1>2 DEF StanG

LEMMA PrzygotujG ==
  ASSUME StanG, G!Przygotuj
  PROVE  StanG'
<1> USE ShmAssumption, RozmiarLemma DEF StanG
<1>1. CASE /\ serwer \in {"shm_open", "ftruncate"} /\ serwer' \in {"ftruncate", "mutex_init"}
           /\ UNCHANGED <<i, mutex, wlasciciel, N, board>>
           /\ UNCHANGED G!klient
  BY <1>1 DEF TypG, PublikacjaG, SekcjaG, WSekcjiG, PlanszaG, BladG, PrzedInit, G!klient
<1>2. CASE /\ serwer = "mutex_init" /\ mutex' = "wolny" /\ wlasciciel' = "nikt" /\ serwer' = "N"
           /\ UNCHANGED <<N, i, shm, board>> /\ UNCHANGED G!klient
  BY <1>2 DEF TypG, PublikacjaG, SekcjaG, WSekcjiG, PlanszaG, BladG, PrzedInit, G!klient
<1>3. CASE /\ serwer = "N" /\ N' = Rozmiar /\ serwer' = "plansza"
           /\ UNCHANGED <<mutex, wlasciciel, i, shm, board>> /\ UNCHANGED G!klient
  BY <1>3 DEF TypG, PublikacjaG, SekcjaG, WSekcjiG, PlanszaG, BladG, PrzedInit, G!klient
<1>4. CASE /\ serwer = "plansza" /\ G!JeszczePole
           /\ board' = [board EXCEPT ![i] = WARTOSC] /\ i' = i + 1
           /\ UNCHANGED <<serwer, shm, mutex, wlasciciel, N>> /\ UNCHANGED G!klient
  <2>1. i \in G!Pola /\ i + 1 \in 0..(Rozmiar * Rozmiar)
    BY <1>4 DEF G!JeszczePole, G!Pola, TypG
  <2>2. board[i] = 0 /\ \A k \in Klienci : pc[k] = "zeruj" => pole[k] # i
    BY <2>1 DEF PlanszaG, SekcjaG, TypG
  <2>3. TypG'
    BY <1>4, <2>1 DEF TypG, G!klient
  <2>4. SekcjaG'
    BY <1>4, <2>2 DEF SekcjaG, WSekcjiG, TypG, G!klient
  <2>5. PlanszaG'
    BY <1>4, <2>1 DEF PlanszaG, TypG
  <2>. QED
    BY <1>4, <2>3, <2>4, <2>5 DEF PublikacjaG, BladG, G!klient
<1>5. CASE /\ serwer = "plansza" /\ ~G!JeszczePole /\ serwer' = "petla" /\ UNCHANGED G!wspolne
           /\ UNCHANGED G!klient
  BY <1>5 DEF TypG, PublikacjaG, SekcjaG, WSekcjiG, PlanszaG, BladG, PrzedInit, G!klient, G!wspolne
<1>. QED
  BY <1>1, <1>2, <1>3, <1>4, <1>5 DEF G!Przygotuj, G!MutexPotemN, G!Nikt

LEMMA SerwerG ==
  ASSUME StanG, G!KrokSerwera \/ G!sigint_handler
  PROVE  StanG'
<1> USE ShmAssumption, RozmiarLemma DEF StanG
<1> USE DEF G!MoznaZajac, G!BladLock, G!Nikt
<1>1. CASE G!sigint_handler
  BY <1>1 DEF G!sigint_handler, G!wspolne, G!klient, TypG, PublikacjaG, SekcjaG, WSekcjiG, PlanszaG, BladG
<1>2. CASE G!KrokSerwera
  <2>1. UNCHANGED <<i, N, board>> /\ UNCHANGED G!klient
    BY <1>2 DEF G!KrokSerwera
  <2>2. CASE UNCHANGED <<mutex, wlasciciel>> /\ serwer \notin PrzedInit \cup {"N"}
             /\ serwer' \in {"lock", "destroy", "koniec"}
    BY <2>1, <2>2 DEF TypG, PublikacjaG, SekcjaG, WSekcjiG, PlanszaG, BladG, PrzedInit, G!klient
  <2>3. CASE serwer = "lock" /\ G!MoznaZajac(mutex) /\ G!Zajmij("serwer") /\ serwer' = "drukuj"
    <3>1. mutex \in {"wolny", "porzucony"} /\ mutex' = "zajety" /\ wlasciciel' = "serwer"
      BY <2>3 DEF PublikacjaG, TypG, PrzedInit, G!Zajmij, G!PoLock, G!PoConsistent
    <3>. QED
      BY <2>1, <2>3, <3>1 DEF TypG, PublikacjaG, SekcjaG, WSekcjiG, PlanszaG, BladG, PrzedInit, G!klient
  <2>4. CASE serwer = "lock" /\ G!BladLock(mutex) /\ serwer' = "err" /\ UNCHANGED <<shm, mutex, wlasciciel>>
    BY <2>1, <2>4 DEF TypG, PublikacjaG, SekcjaG, WSekcjiG, PlanszaG, BladG, PrzedInit, G!klient
  <2>5. CASE serwer = "drukuj" /\ G!Zwolnij("serwer") /\ serwer' = "petla"
    <3>1. CASE wlasciciel = "serwer"
      <4>1. /\ mutex \notin {"zerowy", "zerowy_zajety"} /\ mutex' \in {"wolny", "porzucony", "zniszczony"}
            /\ wlasciciel' = "nikt" /\ (mutex' = "zniszczony" <=> mutex = "zniszczony")
        BY <2>5, <3>1 DEF PublikacjaG, TypG, PrzedInit, G!Zwolnij, G!PoUnlock
      <4>. QED
        BY <2>1, <2>5, <3>1, <4>1 DEF TypG, PublikacjaG, SekcjaG, WSekcjiG, PlanszaG, BladG, PrzedInit, G!klient
    <3>2. CASE wlasciciel # "serwer"
      BY <2>1, <2>5, <3>2 DEF G!Zwolnij, TypG, PublikacjaG, SekcjaG, WSekcjiG, PlanszaG, BladG, PrzedInit, G!klient
    <3>. QED
      BY <3>1, <3>2
  <2>6. CASE serwer = "destroy" /\ mutex' = "zniszczony" /\ serwer' = "shm_unlink" /\ UNCHANGED <<shm, wlasciciel>>
    BY <2>1, <2>6 DEF TypG, PublikacjaG, SekcjaG, WSekcjiG, PlanszaG, BladG, PrzedInit, G!klient
  <2>. QED
    BY <1>2, <2>2, <2>3, <2>4, <2>5, <2>6 DEF G!KrokSerwera, PrzedInit
<1>. QED
  BY <1>1, <1>2

LEMMA KlientG ==
  ASSUME StanG, NEW k \in Klienci, G!KrokKlienta(k)
  PROVE  StanG'
<1> USE ShmAssumption, RozmiarLemma DEF StanG
<1> USE DEF G!MoznaZajac, G!BladLock, G!Nikt
<1>1. CASE G!Dolacz(k)
  BY <1>1 DEF G!Dolacz, G!Idz, G!wspolne, TypG, MiejscaKlienta, PublikacjaG, SekcjaG, WSekcjiG, PlanszaG, BladG, PrzedInit
<1>2. CASE G!Zablokuj(k)
  <2>1. CASE G!MoznaZajac(mutex) /\ G!Zajmij(k) /\ G!Idz(k, "los")
    <3>1. /\ mutex' \in {"zajety", "zerowy_zajety"} /\ wlasciciel' = k
          /\ mutex' = "zerowy_zajety" <=> mutex = "zerowy"
          /\ mutex # "zniszczony" /\ mutex # "zerowy_zajety"
      BY <2>1 DEF TypG, G!Zajmij, G!PoLock, G!PoConsistent
    <3>2. TypG'
      BY <1>2, <2>1, <3>1 DEF TypG, MiejscaKlienta, G!Zablokuj, G!Idz
    <3>3. PublikacjaG' /\ PlanszaG' /\ BladG'
      BY <1>2, <2>1, <3>1 DEF PublikacjaG, PlanszaG, BladG, G!Zablokuj, G!Idz, TypG
    <3>4. SekcjaG'
      <4>1. n[k] # 0 => mutex' = "zajety"
        BY <3>1 DEF PublikacjaG
      <4>2. \A l \in Klienci : ~WSekcjiG(l)
        BY <2>1 DEF SekcjaG
      <4>. QED
        BY <1>2, <2>1, <3>1, <4>1, <4>2 DEF SekcjaG, WSekcjiG, G!Zablokuj, G!Idz, TypG
    <3>. QED
      BY <3>2, <3>3, <3>4
  <2>2. CASE G!BladLock(mutex) /\ G!Idz(k, "err_mutex") /\ UNCHANGED <<mutex, wlasciciel>>
    BY <1>2, <2>2 DEF G!Zablokuj, G!Idz, TypG, MiejscaKlienta, PublikacjaG, SekcjaG, WSekcjiG, PlanszaG, BladG, PrzedInit
  <2>. QED
    BY <1>2, <2>1, <2>2 DEF G!Zablokuj
<1>3. CASE G!Losuj(k)
  <2>1. CASE /\ G!Idz(k, "koniec") \/ (n[k] = 0 /\ G!Idz(k, "zabity"))
             /\ mutex' = IF wlasciciel = k THEN G!PoSmierci(mutex) ELSE mutex
             /\ UNCHANGED pole
    <3>1. /\ mutex' \in {"zerowy", "zerowy_zajety", "wolny", "zajety", "porzucony", "zniszczony"}
          /\ mutex' \in {"zerowy", "zerowy_zajety"} <=> mutex \in {"zerowy", "zerowy_zajety"}
          /\ mutex = "zniszczony" => mutex' = "zniszczony"
          /\ wlasciciel # k => mutex' = mutex
      BY <2>1 DEF TypG, G!PoSmierci
    <3>2. TypG'
      BY <1>3, <2>1, <3>1 DEF TypG, MiejscaKlienta, G!Losuj, G!Idz
    <3>3. PublikacjaG' /\ PlanszaG' /\ BladG'
      BY <1>3, <2>1, <3>1 DEF PublikacjaG, PlanszaG, BladG, G!Losuj, G!Idz, TypG
    <3>4. SekcjaG'
      BY <1>3, <2>1, <3>1 DEF SekcjaG, WSekcjiG, G!Losuj, G!Idz, TypG
    <3>. QED
      BY <3>2, <3>3, <3>4
  <2>2. ASSUME NEW f \in 0..(n[k] * n[k] - 1),
               pole' = [pole EXCEPT ![k] = f] /\ G!Idz(k, "pole") /\ UNCHANGED mutex
        PROVE  StanG'
    <3>1. n[k] # 0 /\ f \in G!Pola
      BY <2>2 DEF TypG, G!Pola
    <3>. QED
      BY <1>3, <2>2, <3>1 DEF G!Losuj, G!Idz, TypG, MiejscaKlienta, PublikacjaG, SekcjaG, WSekcjiG, PlanszaG, BladG, PrzedInit
  <2>. QED
    BY <1>3, <2>1, <2>2 DEF G!Losuj
<1>4. CASE G!Pole(k)
  <2>1. CASE /\ pc[k] = "pole" /\ board[pole[k]] # 0
             /\ points' = [points EXCEPT ![k] = @ + board[pole[k]]]
             /\ G!Idz(k, "zeruj") /\ UNCHANGED <<board, mutex, wlasciciel>>
    <3>1. pole[k] \in G!Pola /\ board[pole[k]] \in Int
      BY <2>1 DEF SekcjaG, TypG
    <3>. QED
      BY <1>4, <2>1, <3>1 DEF G!Pole, G!Idz, TypG, MiejscaKlienta, PublikacjaG, SekcjaG, WSekcjiG, PlanszaG, BladG, PrzedInit
  <2>2. CASE /\ pc[k] \in {"pole", "zeruj"} /\ G!Zwolnij(k)
             /\ board' = [board EXCEPT ![pole[k]] = 0] \/ UNCHANGED board
             /\ G!Idz(k, "lock") \/ G!Idz(k, "koniec")
             /\ UNCHANGED points
    <3>1. wlasciciel = k /\ mutex \in {"zajety", "zniszczony"} /\ pole[k] \in G!Pola
      BY <2>2 DEF SekcjaG, WSekcjiG
    <3>2. /\ wlasciciel' = "nikt" /\ mutex' \in {"wolny", "zniszczony"}
          /\ mutex = "zniszczony" => mutex' = "zniszczony"
      BY <2>2, <3>1 DEF G!Zwolnij, G!PoUnlock
    <3>3. \A l \in Klienci : l # k => ~WSekcjiG(l)
      BY <3>1 DEF SekcjaG
    <3>4. TypG'
      BY <1>4, <2>2, <3>1, <3>2 DEF TypG, MiejscaKlienta, G!Pole, G!Idz
    <3>5. PublikacjaG' /\ PlanszaG' /\ BladG'
      BY <1>4, <2>2, <3>1, <3>2 DEF PublikacjaG, PlanszaG, BladG, G!Pole, G!Idz, TypG
    <3>6. SekcjaG'
      BY <1>4, <2>2, <3>1, <3>2, <3>3 DEF SekcjaG, WSekcjiG, G!Pole, G!Idz, TypG
    <3>. QED
      BY <3>4, <3>5, <3>6
  <2>. QED
    BY <1>4, <2>1, <2>2 DEF G!Pole
<1>. QED
  BY <1>1, <1>2, <1>3, <1>4 DEF G!KrokKlienta

(* What a client between its two assignments has taken and not cleared. *)
Wziete == [k \in Klienci |-> IF pc[k] = "zeruj" THEN board[pole[k]] ELSE 0]

LEMMA PolaSkonczone == IsFiniteSet(G!Pola)
BY RozmiarLemma, FS_Interval DEF G!Pola

(* The points of the game are three sums over finite sets. *)
SumyG ==
  /\ G!WydaneINaPlanszy = SumaNa(points, Klienci) + SumaNa(board, G!Pola) - SumaNa(Wziete, Klienci)
  /\ \A k \in Klienci : points[k] \in Int /\ Wziete[k] \in Int
  /\ \A f \in G!Pola : board[f] \in Int
  /\ SumaNa(points, Klienci) \in Int /\ SumaNa(board, G!Pola) \in Int /\ SumaNa(Wziete, Klienci) \in Int

LEMMA TrzySumy == StanG => SumyG
<1> USE ShmAssumption, PolaSkonczone
<1> SUFFICES ASSUME StanG PROVE SumyG
  OBVIOUS
<1>1. DOMAIN points = Klienci /\ DOMAIN board = G!Pola /\ DOMAIN Wziete = Klienci
  BY DEF StanG, TypG, Wziete
<1>2. ASSUME NEW T, NEW f, DOMAIN f = T
      PROVE  G!Suma(f) = SumaNa(f, T)
  BY <1>2 DEF G!Suma, SumaNa, G!FoldFunction, G!FoldFunctionOnSet, G!MapThenFoldSet, FoldFunctionOnSet, MapThenFoldSet
<1>3. G!WydaneINaPlanszy = G!Suma(points) + G!Suma(board) - G!Suma(Wziete)
  BY DEF G!WydaneINaPlanszy, Wziete
<1>4. \A k \in Klienci : points[k] \in Int /\ Wziete[k] \in Int
  BY DEF StanG, TypG, SekcjaG, Wziete
<1>5. \A f \in G!Pola : board[f] \in Int
  BY DEF StanG, TypG
<1>. QED
  BY <1>1, <1>2, <1>3, <1>4, <1>5, SumaTyp DEF SumyG

LEMMA TrzySumyPotem == StanG' => SumyG'
BY TrzySumy, PTL

(* Before the game there is nothing to count. *)
LEMMA PunktyPoczatek ==
  ASSUME StanG, G!Init
  PROVE  PunktyG
<1> USE ShmAssumption, PolaSkonczone
<1>1. \A k \in Klienci : points[k] = 0 /\ Wziete[k] = 0
  BY DEF G!Init, Wziete
<1>2. \A f \in G!Pola : board[f] = 0
  BY DEF G!Init
<1>3. SumaNa(points, Klienci) = 0 /\ SumaNa(Wziete, Klienci) = 0 /\ SumaNa(board, G!Pola) = 0
  BY <1>1, <1>2, SumaZer
<1>4. i = 0
  BY DEF G!Init
<1>. QED
  BY <1>3, <1>4, TrzySumy DEF PunktyG, SumyG

(* A step that takes no field and clears none. *)
LEMMA BezZmianyPunktow ==
  ASSUME StanG, StanG', PunktyG, UNCHANGED <<points, board, i>>,
         \A k \in Klienci : /\ pc'[k] = "zeruj" <=> pc[k] = "zeruj"
                            /\ pc[k] = "zeruj" => pole'[k] = pole[k]
  PROVE  PunktyG'
<1>1. Wziete' = Wziete
  BY DEF Wziete
<1>. QED
  BY <1>1, TrzySumy, TrzySumyPotem DEF PunktyG, SumyG

(* The server puts points on one more field. *)
LEMMA NowePole ==
  ASSUME StanG, StanG', PunktyG, G!JeszczePole, board' = [board EXCEPT ![i] = WARTOSC], i' = i + 1,
         UNCHANGED <<pc, pole, points>>
  PROVE  PunktyG'
<1> USE ShmAssumption, RozmiarLemma, PolaSkonczone
<1>1. i \in G!Pola /\ i \in Int
  BY DEF G!JeszczePole, G!Pola, StanG, TypG
<1>2. board[i] = 0 /\ \A k \in Klienci : pc[k] = "zeruj" => pole[k] # i
  BY <1>1 DEF StanG, PlanszaG, SekcjaG, TypG
<1>3. Wziete' = Wziete
  BY <1>1, <1>2 DEF Wziete, StanG, TypG, SekcjaG
<1>4. /\ SumyG /\ SumyG'
  BY TrzySumy, TrzySumyPotem
<1>5. board'[i] = WARTOSC /\ \A f \in G!Pola : f # i => board'[f] = board[f]
  BY <1>1 DEF StanG, TypG
<1>6. SumaNa(board', G!Pola) = SumaNa(board, G!Pola) + board'[i] - board[i]
  <2> DEFINE e == board'
             a == i
  <2>1. a \in G!Pola /\ e[a] \in Int /\ (\A f \in G!Pola : f # a => e[f] = board[f])
    BY <1>1, <1>5
  <2>2. \A f \in G!Pola : board[f] \in Int
    BY <1>4 DEF SumyG
  <2> HIDE DEF e, a
  <2>3. SumaNa(e, G!Pola) = SumaNa(board, G!Pola) + e[a] - board[a]
    BY <2>1, <2>2, SumaZmiana
  <2>. QED
    BY <2>3 DEF e, a
<1>7. WARTOSC * (i + 1) = WARTOSC * i + WARTOSC
  BY <1>1
<1>8. WARTOSC * i \in Int
  BY <1>1
<1>. QED
  BY <1>2, <1>3, <1>4, <1>5, <1>6, <1>7, <1>8 DEF PunktyG, SumyG

(* A client counts the points of its field, and clears it. *)
LEMMA Wziecie ==
  ASSUME StanG, StanG', PunktyG, NEW k \in Klienci, G!Pole(k)
  PROVE  PunktyG'
<1> USE ShmAssumption, RozmiarLemma, PolaSkonczone
<1>1. SumyG /\ SumyG'
  BY TrzySumy, TrzySumyPotem
<1>2. UNCHANGED <<i, pole>>
  BY DEF G!Pole
<1>3. CASE /\ pc[k] = "pole" /\ board[pole[k]] # 0
           /\ points' = [points EXCEPT ![k] = @ + board[pole[k]]]
           /\ G!Idz(k, "zeruj") /\ UNCHANGED <<board, mutex, wlasciciel>>
  <2>1. points'[k] = points[k] + board[pole[k]] /\ \A l \in Klienci : l # k => points'[l] = points[l]
    BY <1>3 DEF StanG, TypG
  <2>2. /\ Wziete[k] = 0 /\ Wziete'[k] = board[pole[k]]
        /\ \A l \in Klienci : l # k => Wziete'[l] = Wziete[l]
    BY <1>2, <1>3 DEF Wziete, StanG, TypG, G!Idz
  <2>3. SumaNa(points', Klienci) = SumaNa(points, Klienci) + points'[k] - points[k]
    BY <1>1, <2>1, SumaZmiana DEF SumyG
  <2>4. SumaNa(Wziete', Klienci) = SumaNa(Wziete, Klienci) + Wziete'[k] - Wziete[k]
    BY <1>1, <2>2, SumaZmiana DEF SumyG
  <2>5. board[pole[k]] \in Int /\ points[k] \in Int
    BY <1>1, <1>3 DEF SumyG, StanG, SekcjaG
  <2>6. G!WydaneINaPlanszy' = G!WydaneINaPlanszy
    BY <1>1, <1>3, <2>1, <2>2, <2>3, <2>4, <2>5 DEF SumyG
  <2>. QED
    BY <1>2, <2>6 DEF PunktyG
<1>4. CASE /\ pc[k] = "zeruj" /\ board' = [board EXCEPT ![pole[k]] = 0]
           /\ G!Zwolnij(k) /\ G!Idz(k, "lock") /\ UNCHANGED points
  <2> DEFINE p == pole[k]
  <2>1. p \in G!Pola /\ board'[p] = 0 /\ \A f \in G!Pola : f # p => board'[f] = board[f]
    BY <1>4 DEF StanG, TypG, SekcjaG
  <2>2. \A l \in Klienci : l # k => pc[l] # "zeruj"
    BY <1>4 DEF StanG, SekcjaG, WSekcjiG
  <2>3. /\ Wziete[k] = board[p] /\ Wziete'[k] = 0
        /\ \A l \in Klienci : l # k => Wziete'[l] = Wziete[l]
    BY <1>2, <1>4, <2>2 DEF Wziete, StanG, TypG, G!Idz
  <2> HIDE DEF p
  <2>4. SumaNa(board', G!Pola) = SumaNa(board, G!Pola) + board'[p] - board[p]
    BY <1>1, <2>1, SumaZmiana DEF SumyG
  <2>5. SumaNa(Wziete', Klienci) = SumaNa(Wziete, Klienci) + Wziete'[k] - Wziete[k]
    BY <1>1, <2>3, SumaZmiana DEF SumyG
  <2>6. board[p] \in Int
    BY <1>1, <2>1 DEF SumyG
  <2>7. G!WydaneINaPlanszy' = G!WydaneINaPlanszy
    BY <1>1, <1>4, <2>1, <2>3, <2>4, <2>5, <2>6 DEF SumyG
  <2>. QED
    BY <1>2, <2>7 DEF PunktyG
<1>5. CASE /\ pc[k] = "pole" /\ board[pole[k]] = 0
           /\ G!Zwolnij(k) /\ G!Idz(k, "koniec") /\ UNCHANGED <<board, points>>
  <2>1. \A l \in Klienci : pc'[l] = "zeruj" <=> pc[l] = "zeruj"
    BY <1>5 DEF G!Idz, StanG, TypG
  <2>. QED
    BY <1>2, <1>5, <2>1, BezZmianyPunktow
<1>. QED
  BY <1>3, <1>4, <1>5 DEF G!Pole

(* The invariant of the board game is inductive. *)
LEMMA KrokG ==
  ASSUME StanG, PunktyG, [G!Next]_(G!vars)
  PROVE  StanG' /\ PunktyG'
<1>1. CASE G!Przygotuj
  <2>1. StanG'
    BY <1>1, PrzygotujG
  <2>2. CASE /\ serwer = "plansza" /\ G!JeszczePole
             /\ board' = [board EXCEPT ![i] = WARTOSC] /\ i' = i + 1
             /\ UNCHANGED <<serwer, shm, mutex, wlasciciel, N>>
    BY <1>1, <2>1, <2>2, NowePole DEF G!Przygotuj, G!klient
  <2>3. CASE UNCHANGED <<i, board>>
    BY <1>1, <2>1, <2>3, BezZmianyPunktow DEF G!Przygotuj, G!klient
  <2>. QED
    BY <1>1, <2>1, <2>2, <2>3 DEF G!Przygotuj, G!wspolne
<1>2. CASE G!KrokSerwera \/ G!sigint_handler
  <2>1. StanG'
    BY <1>2, SerwerG
  <2>2. UNCHANGED <<i, board, pc, pole, points>>
    BY <1>2 DEF G!KrokSerwera, G!sigint_handler, G!klient, G!wspolne
  <2>. QED
    BY <2>1, <2>2, BezZmianyPunktow
<1>3. ASSUME NEW k \in Klienci, G!KrokKlienta(k)
      PROVE  StanG' /\ PunktyG'
  <2>1. StanG'
    BY <1>3, KlientG
  <2>2. CASE G!Pole(k)
    BY <2>1, <2>2, Wziecie
  <2>3. CASE G!Dolacz(k) \/ G!Zablokuj(k) \/ G!Losuj(k)
    <3>1. UNCHANGED <<points, board, i>>
      BY <2>3 DEF G!Dolacz, G!Zablokuj, G!Losuj, G!wspolne
    <3>2. /\ pc' = [pc EXCEPT ![k] = pc'[k]] /\ pc[k] # "zeruj" /\ pc'[k] # "zeruj"
          /\ \A l \in Klienci : l # k => pole'[l] = pole[l]
      BY <2>3 DEF G!Dolacz, G!Zablokuj, G!Losuj, G!Idz, StanG, TypG
    <3>3. \A l \in Klienci : /\ pc'[l] = "zeruj" <=> pc[l] = "zeruj"
                             /\ pc[l] = "zeruj" => pole'[l] = pole[l]
      BY <3>2 DEF StanG, TypG
    <3>. QED
      BY <2>1, <3>1, <3>3, BezZmianyPunktow
  <2>. QED
    BY <1>3, <2>2, <2>3 DEF G!KrokKlienta
<1>4. CASE UNCHANGED G!vars
  <2>1. StanG'
    BY <1>4 DEF G!vars, G!wspolne, G!klient, StanG, TypG, PublikacjaG, SekcjaG, WSekcjiG, PlanszaG, BladG
  <2>. QED
    BY <1>4, <2>1, BezZmianyPunktow DEF G!vars, G!wspolne, G!klient
<1>. QED
  BY <1>1, <1>2, <1>3, <1>4 DEF G!Next

-----------------------------------------------------------------------------
LEMMA InitD == D!Init => StanD
<1> SUFFICES ASSUME D!Init PROVE StanD
  OBVIOUS
<1>1. TypD
  BY ShmAssumption DEF D!Init, TypD, MiejscaPracownika, D!GLOBAL
<1>2. SekcjaD
  BY DEF D!Init, SekcjaD, WSekcjiD, D!GLOBAL
<1>3. ASSUME NEW r \in Rekordy
      PROVE  base_value[r] = 100 + r + 5 * processing_count[r]
  <2>1. r \in Nat /\ base_value[r] = 100 + r /\ processing_count[r] = 0
    BY ShmAssumption DEF D!Init
  <2>. QED
    BY <2>1
<1>4. \A p \in Pracownicy : pc[p] = "lock"
  BY DEF D!Init
<1>5. RekordyD
  BY <1>3, <1>4 DEF RekordyD
<1>. QED
  BY <1>1, <1>2, <1>5 DEF StanD

(* The mutex of a worker is that of its record, or the global one. *)
LEMMA ZamekLemma ==
  ASSUME TypD, NEW p \in Pracownicy
  PROVE  D!Zamek(p) \in Rekordy \cup {D!GLOBAL}
BY DEF TypD, D!Zamek

(* The invariant of the record database is inductive. *)
LEMMA KrokD ==
  ASSUME StanD, [D!Next]_(D!vars)
  PROVE  StanD'
<1> USE DEF StanD
<1>1. ASSUME NEW p \in Pracownicy, D!record_db_lock(p)
      PROVE  StanD'
  <2> DEFINE z == D!Zamek(p)
  <2>1. z \in Rekordy \cup {D!GLOBAL}
    BY ZamekLemma
  <2>2. wariant' = wariant /\ cel' = cel /\ \A q \in Pracownicy : D!Zamek(q)' = D!Zamek(q)
    BY <1>1 DEF D!record_db_lock, D!Zamek
  <2>3. CASE D!MoznaZajac(mtx[z]) /\ mtx' = [mtx EXCEPT ![z] = D!Odzyskaj(D!PoLock(@))] /\ D!Idz(p, "base")
    <3>1. mtx[z] \in {"wolny", "porzucony"} /\ D!Odzyskaj(D!PoLock(mtx[z])) = "zajety"
      BY <2>1, <2>3 DEF TypD, SekcjaD, D!MoznaZajac, D!Odzyskaj, D!PoLock, D!PoConsistent
    <3> HIDE DEF z
    <3>2. mtx' = [mtx EXCEPT ![z] = "zajety"]
      BY <2>1, <2>3, <3>1 DEF TypD
    <3>3. \A q \in Pracownicy : WSekcjiD(q) => D!Zamek(q) # z
      BY <3>1 DEF SekcjaD
    <3>4. TypD'
      BY <1>1, <2>3, <3>2 DEF TypD, D!record_db_lock, D!rekord, D!Idz, MiejscaPracownika
    <3>5. SekcjaD'
      BY <1>1, <2>1, <2>2, <2>3, <3>2, <3>3 DEF z, TypD, SekcjaD, WSekcjiD, D!Idz
    <3>6. RekordyD'
      BY <1>1, <2>3 DEF TypD, RekordyD, D!record_db_lock, D!rekord, D!Idz
    <3>. QED
      BY <3>4, <3>5, <3>6
  <2>4. CASE D!BladLock(mtx[z]) /\ D!Idz(p, "blad") /\ UNCHANGED mtx
    BY <2>1, <2>4 DEF TypD, D!BladLock
  <2>. QED
    BY <1>1, <2>3, <2>4 DEF D!record_db_lock
<1>2. ASSUME NEW p \in Pracownicy, D!process(p)
      PROVE  StanD'
  <2> DEFINE r == cel[p]
  <2>1. r \in Rekordy
    BY DEF TypD
  <2>2. /\ UNCHANGED <<wariant, mtx, cel>> /\ \A q \in Pracownicy : D!Zamek(q)' = D!Zamek(q)
    BY <1>2 DEF D!process, D!Zamek
  <2>3. WSekcjiD(p) /\ pc' = [pc EXCEPT ![p] = pc'[p]] /\ pc'[p] \in {"count", "hash", "unlock"}
    BY <1>2 DEF D!process, D!Idz, TypD, WSekcjiD
  <2>4. \A q \in Pracownicy : WSekcjiD(q)' <=> WSekcjiD(q)
    BY <2>3 DEF WSekcjiD, TypD
  <2>5. \A q \in Pracownicy : q # p /\ WSekcjiD(q) => cel[q] # r
    BY <2>3 DEF SekcjaD, D!Zamek
  <2>6. TypD'
    BY <1>2, <2>1, <2>3 DEF TypD, D!process, D!Idz, MiejscaPracownika
  <2>7. SekcjaD'
    BY <2>2, <2>4 DEF SekcjaD
  <2>8. RekordyD'
    <3>1. CASE /\ pc[p] = "base" /\ base_value' = [base_value EXCEPT ![r] = @ + 5] /\ D!Idz(p, "count")
               /\ UNCHANGED <<processing_count, last_result>>
      <4>1. base_value[r] = 100 + r + 5 * processing_count[r]
        BY <2>1, <2>5, <3>1 DEF RekordyD, WSekcjiD
      <4>. QED
        BY <2>1, <2>2, <2>5, <3>1, <4>1 DEF RekordyD, WSekcjiD, TypD, D!Idz
    <3>2. CASE /\ pc[p] = "count" /\ processing_count' = [processing_count EXCEPT ![r] = @ + 1] /\ D!Idz(p, "hash")
               /\ UNCHANGED <<base_value, last_result>>
      <4>1. base_value[r] = 100 + r + 5 * processing_count[r] + 5
        BY <3>2 DEF RekordyD
      <4>2. base_value[r] = 100 + r + 5 * processing_count'[r]
        <5>1. processing_count'[r] = processing_count[r] + 1
          BY <2>1, <3>2 DEF TypD
        <5> HIDE DEF r
        <5>2. r \in Int /\ processing_count[r] \in Int /\ base_value[r] \in Int
          BY ShmAssumption, <2>1 DEF TypD
        <5>. QED
          BY <4>1, <5>1, <5>2
      <4>. QED
        BY <2>1, <2>2, <2>5, <3>2, <4>2 DEF RekordyD, WSekcjiD, TypD, D!Idz
    <3>3. CASE /\ pc[p] = "hash" /\ last_result' = [last_result EXCEPT ![r] = base_value[r]] /\ D!Idz(p, "unlock")
               /\ UNCHANGED <<base_value, processing_count>>
      BY <2>1, <2>2, <2>5, <3>3 DEF RekordyD, WSekcjiD, TypD, D!Idz
    <3>. QED
      BY <1>2, <3>1, <3>2, <3>3 DEF D!process
  <2>. QED
    BY <2>6, <2>7, <2>8
<1>3. ASSUME NEW p \in Pracownicy, D!Przepelnienie(p) \/ D!record_db_unlock(p)
      PROVE  StanD'
  <2> DEFINE z == D!Zamek(p)
  <2>1. z \in Rekordy \cup {D!GLOBAL}
    BY ZamekLemma
  <2>2. /\ UNCHANGED <<wariant, cel, base_value, processing_count, last_result>>
        /\ \A q \in Pracownicy : D!Zamek(q)' = D!Zamek(q)
    BY <1>3 DEF D!Przepelnienie, D!record_db_unlock, D!rekord, D!Zamek
  <2>3. pc[p] \in {"hash", "unlock"} /\ (D!Idz(p, "zabity") \/ D!Idz(p, "koniec"))
    BY <1>3 DEF D!Przepelnienie, D!record_db_unlock
  <2>4. mtx[z] = "zajety"
    BY <2>3 DEF SekcjaD, WSekcjiD
  <2>5. \/ mtx' = mtx
        \/ wariant = "robust" /\ mtx' = [mtx EXCEPT ![z] = "porzucony"]
        \/ mtx' = [mtx EXCEPT ![z] = "wolny"]
    BY <1>3, <2>1, <2>4 DEF D!Przepelnienie, D!record_db_unlock, D!PoSmierci, D!PoUnlock, TypD
  <2> HIDE DEF z
  <2>6. \A q \in Pracownicy : q # p /\ WSekcjiD(q) => D!Zamek(q) # z
    BY <2>3 DEF SekcjaD, WSekcjiD, z
  <2>7. TypD'
    BY <2>1, <2>2, <2>3, <2>5 DEF TypD, D!Idz, MiejscaPracownika
  <2>8. SekcjaD'
    <3>1. \A q \in Pracownicy : WSekcjiD(q)' => WSekcjiD(q) /\ q # p
      BY <2>3 DEF WSekcjiD, TypD, D!Idz
    <3>2. \A q \in Rekordy \cup {D!GLOBAL} : q # z => mtx'[q] = mtx[q]
      BY <2>5 DEF TypD
    <3>3. \A q \in Rekordy \cup {D!GLOBAL} : mtx'[q] = "porzucony" => wariant' = "robust"
      BY <2>1, <2>2, <2>5 DEF TypD, SekcjaD
    <3>4. ASSUME NEW q \in Pracownicy, WSekcjiD(q)'
          PROVE  mtx'[D!Zamek(q)'] = "zajety"
      BY <2>2, <2>6, <3>1, <3>2, <3>4, ZamekLemma DEF SekcjaD
    <3>. QED
      BY <2>2, <3>1, <3>3, <3>4 DEF SekcjaD
  <2>9. RekordyD'
    BY <2>2, <2>3 DEF RekordyD, TypD, D!Idz
  <2>. QED
    BY <2>7, <2>8, <2>9
<1>4. CASE UNCHANGED D!vars
  BY <1>4 DEF D!vars, D!rekord, TypD, SekcjaD, WSekcjiD, RekordyD, D!Zamek
<1>. QED
  BY <1>1, <1>2, <1>3, <1>4 DEF D!Next, D!Krok

-----------------------------------------------------------------------------
LEMMA InitS == S!Init => StanS
BY ShmAssumption DEF S!Init, StanS, PrzedKluczem, PoKluczu, Sprzatanie

(* The invariant of semafor.c is inductive. *)
LEMMA KrokS ==
  ASSUME StanS, [S!Next]_(S!vars)
  PROVE  StanS'
<1> USE ShmAssumption DEF StanS
<1>1. CASE S!Bariera("bariera", <<"pracuj", "warunek">>)
  BY <1>1 DEF S!Bariera, PrzedKluczem, PoKluczu, Sprzatanie
<1>2. CASE S!Bariera("bariera2", <<"destroy", "koniec">>)
  BY <1>2 DEF S!Bariera, PrzedKluczem, PoKluczu, Sprzatanie
<1>3. ASSUME NEW p \in Procesy, S!Krok(p)
      PROVE  StanS'
  <2>1. CASE S!Otworz(p)
    BY <2>1 DEF S!Otworz, S!Idz, PrzedKluczem, PoKluczu, Sprzatanie
  <2>2. CASE S!Mapuj(p)
    BY <2>2 DEF S!Mapuj, S!Idz, PrzedKluczem, PoKluczu, Sprzatanie
  <2>3. CASE S!Inicjalizuj(p)
    BY <2>3 DEF S!Inicjalizuj, S!Idz, PrzedKluczem, PoKluczu, Sprzatanie
  <2>4. CASE S!CzekajNaTworce(p)
    BY <2>4 DEF S!CzekajNaTworce, S!Idz, PrzedKluczem, PoKluczu, Sprzatanie
  <2>5. CASE S!OddajKlucz(p)
    BY <2>5 DEF S!OddajKlucz, S!Idz, PrzedKluczem, PoKluczu, Sprzatanie
  <2>6. CASE S!Awaria(p)
    BY <2>6 DEF S!Awaria, S!Idz, PrzedKluczem, PoKluczu, Sprzatanie
  <2>7. CASE S!Pracuj(p)
    <3>1. /\ \A q \in Procesy : pc'[q] = pc[q] \/ pc'[q] \in {"bariera2", "warunek"}
          /\ pc' \in [Procesy -> PrzedKluczem \cup PoKluczu \cup Sprzatanie \cup {"blad"}]
      BY <2>7 DEF S!Pracuj, S!Broadcast, PoKluczu
    <3>2. pc[p] \in PoKluczu /\ UNCHANGED <<sem, sd>> /\ {"bariera2", "warunek"} \cap Sprzatanie = {}
      BY <2>7 DEF S!Pracuj, PoKluczu, Sprzatanie
    <3>3. pc[p] \notin Sprzatanie
      BY <2>7 DEF S!Pracuj, Sprzatanie
    <3>. QED
      BY <3>1, <3>2, <3>3
  <2>8. CASE S!CzekajNaPrace(p)
    BY <2>8 DEF S!CzekajNaPrace, S!Idz, PrzedKluczem, PoKluczu, Sprzatanie
  <2>9. CASE S!Sprzataj(p)
    BY <2>9 DEF S!Sprzataj, S!Idz, PrzedKluczem, PoKluczu, Sprzatanie
  <2>. QED
    BY <1>3, <2>1, <2>2, <2>3, <2>4, <2>5, <2>6, <2>7, <2>8, <2>9 DEF S!Krok
<1>4. CASE UNCHANGED S!vars
  BY <1>4 DEF S!vars
<1>. QED
  BY <1>1, <1>2, <1>3, <1>4 DEF S!Next, S!Spotkania

-----------------------------------------------------------------------------
(* How many of T are in X and in Y, when only c may be in one and not in the
   other. *)
LEMMA JedenWiecej ==
  ASSUME NEW T, IsFiniteSet(T), NEW X \in SUBSET T, NEW Y \in SUBSET T, NEW c \in T,
         \A d \in T : d # c => (d \in X <=> d \in Y)
  PROVE  /\ Cardinality(X) \in 0..Cardinality(T) /\ Cardinality(Y) \in 0..Cardinality(T)
         /\ (c \in X <=> c \in Y) => Cardinality(Y) = Cardinality(X)
         /\ c \notin X /\ c \in Y => Cardinality(Y) = Cardinality(X) + 1
         /\ c \in X /\ c \notin Y => Cardinality(X) = Cardinality(Y) + 1
<1>1. /\ IsFiniteSet(X) /\ IsFiniteSet(Y)
      /\ Cardinality(X) \in Nat /\ Cardinality(Y) \in Nat /\ Cardinality(T) \in Nat
      /\ Cardinality(X) <= Cardinality(T) /\ Cardinality(Y) <= Cardinality(T)
  BY FS_Subset, FS_CardinalityType
<1>2. (c \in X <=> c \in Y) => X = Y
  OBVIOUS
<1>3. c \notin X /\ c \in Y => Y = X \cup {c}
  OBVIOUS
<1>4. c \in X /\ c \notin Y => X = Y \cup {c}
  OBVIOUS
<1>5. c \notin X /\ c \in Y => Cardinality(Y) = Cardinality(X) + 1
  BY <1>1, <1>3, FS_AddElement
<1>6. c \in X /\ c \notin Y => Cardinality(X) = Cardinality(Y) + 1
  BY <1>1, <1>4, FS_AddElement
<1>. QED
  BY <1>1, <1>2, <1>5, <1>6

LEMMA LiczbaCzujnikow ==
  /\ IsFiniteSet(Czujniki) /\ A!num_sensors = Cardinality(Czujniki) /\ A!num_sensors \in Nat
<1>1. A!num_sensors = Cardinality(Czujniki)
  BY DEF A!num_sensors, A!Cardinality, Cardinality
<1>. QED
  BY <1>1, ShmAssumption, FS_CardinalityType

LEMMA InitA == A!Init => StanA
<1> SUFFICES ASSUME A!Init PROVE StanA
  OBVIOUS
<1>1. Czekaja = {}
  BY DEF A!Init, Czekaja
<1>2. Cardinality(Czekaja) = 0
  BY <1>1, FS_EmptySet
<1>3. Zebrane = 0
  BY Zenon DEF A!Init, Zebrane
<1>. QED
  BY <1>2, <1>3, LiczbaCzujnikow DEF A!Init, StanA

(* The collected posts, place by place. *)
LEMMA ZebraneLemma ==
  /\ agregator = "zbierz" => Zebrane = s
  /\ agregator = "czytaj" => Zebrane = A!num_sensors
  /\ agregator = "pozwol" => Zebrane = A!num_sensors - s
  /\ agregator = "koniec" => Zebrane = 0
BY Zenon DEF Zebrane

(* The invariant of the sensors is inductive. *)
LEMMA KrokA ==
  ASSUME StanA, [A!Next]_(A!vars)
  PROVE  StanA'
<1> USE LiczbaCzujnikow DEF StanA
<1>0. /\ agregator' = "zbierz" => Zebrane' = s'
      /\ agregator' = "czytaj" => Zebrane' = A!num_sensors
      /\ agregator' = "pozwol" => Zebrane' = A!num_sensors - s'
      /\ agregator' = "koniec" => Zebrane' = 0
  BY Zenon DEF Zebrane, A!num_sensors
<1>1. CASE A!Agregator
  <2>1. Czekaja' = Czekaja /\ pc' = pc
    BY <1>1 DEF A!Agregator, A!Zbierz, A!Czytaj, A!Pozwol, Czekaja
  <2>2. CASE A!Zbierz
    BY <1>0, <2>1, <2>2, ZebraneLemma DEF A!Zbierz, A!Zebrano
  <2>3. CASE A!Czytaj
    BY <1>0, <2>1, <2>3, ZebraneLemma DEF A!Czytaj
  <2>4. CASE A!Pozwol
    BY <1>0, <2>1, <2>4, ZebraneLemma DEF A!Pozwol
  <2>. QED
    BY <1>1, <2>2, <2>3, <2>4 DEF A!Agregator
<1>2. ASSUME NEW c \in Czujniki, A!Czujnik(c)
      PROVE  StanA'
  <2>1. UNCHANGED <<agregator, s, Zebrane>>
    BY <1>2 DEF A!Czujnik, Zebrane
  <2>2. /\ Czekaja \in SUBSET Czujniki /\ Czekaja' \in SUBSET Czujniki
        /\ \A d \in Czujniki : d # c => (d \in Czekaja <=> d \in Czekaja')
        /\ c \in Czekaja <=> pc[c] = "sem_wait"
        /\ c \in Czekaja' <=> pc'[c] = "sem_wait"
        /\ pc' \in [Czujniki -> {"pisz", "sem_post", "sem_wait", "koniec"}]
    BY <1>2 DEF A!Czujnik, Czekaja
  <2>3. Cardinality(Czekaja) \in Nat /\ Cardinality(Czekaja') \in Nat
    BY <2>2, JedenWiecej
  <2>4. CASE pc[c] = "pisz" /\ pc' = [pc EXCEPT ![c] = "sem_post"] /\ UNCHANGED <<data_ready, can_overwrite, i>>
    <3>1. Cardinality(Czekaja') = Cardinality(Czekaja)
      BY <2>2, <2>4, JedenWiecej
    <3>. QED
      BY <2>1, <2>2, <2>4, <3>1
  <2>5. CASE /\ pc[c] = "sem_post" /\ data_ready' = data_ready + 1
             /\ pc' = [pc EXCEPT ![c] = "sem_wait"] /\ UNCHANGED <<can_overwrite, i>>
    <3>1. Cardinality(Czekaja') = Cardinality(Czekaja) + 1
      BY <2>2, <2>5, JedenWiecej
    <3>2. Zebrane \in Int
      BY ZebraneLemma
    <3>. QED
      BY <2>1, <2>2, <2>5, <3>1, <3>2
  <2>6. CASE /\ pc[c] = "sem_wait" /\ can_overwrite > 0 /\ can_overwrite' = can_overwrite - 1
             /\ pc' = [pc EXCEPT ![c] = IF i[c] < CYCLES THEN "pisz" ELSE "koniec"]
             /\ UNCHANGED data_ready
    <3>1. Cardinality(Czekaja) = Cardinality(Czekaja') + 1
      BY <2>2, <2>6, JedenWiecej
    <3>2. Zebrane \in Int
      BY ZebraneLemma
    <3>. QED
      BY <2>1, <2>2, <2>3, <2>6, <3>1, <3>2
  <2>. QED
    BY <1>2, <2>4, <2>5, <2>6 DEF A!Czujnik
<1>3. CASE UNCHANGED A!vars
  BY <1>3 DEF A!vars, Czekaja, Zebrane
<1>. QED
  BY <1>1, <1>2, <1>3 DEF A!Next

(* While the files are read every sensor waits. *)
LEMMA NiktNiePisze ==
  ASSUME StanA, agregator = "czytaj"
  PROVE  A!Pisza = {}
<1> USE LiczbaCzujnikow DEF StanA
<1>1. Czekaja \in SUBSET Czujniki
  BY DEF Czekaja
<1>2. Cardinality(Czekaja) >= Cardinality(Czujniki)
  BY ZebraneLemma
<1>3. Czekaja = Czujniki
  BY <1>1, <1>2, FS_Subset, FS_CardinalityType
<1>. QED
  BY <1>3 DEF Czekaja, A!Pisza

-----------------------------------------------------------------------------
LEMMA InitM == M!Init => StanM
BY ShmAssumption DEF M!Init, StanM, M!Dzieci, M!WaitDoKonca

(* The invariant of the estimation of pi is inductive. *)
LEMMA KrokM ==
  ASSUME StanM, [M!Next]_(M!vars)
  PROVE  StanM'
<1> USE ShmAssumption DEF StanM
<1>1. CASE M!Fork
  BY <1>1 DEF M!Fork, M!Dzieci, M!WaitDoKonca, M!WPliku
<1>2. CASE M!parent_work
  BY <1>2 DEF M!parent_work, M!Dzieci, M!WaitDoKonca, M!WPliku
<1>3. ASSUME NEW d \in M!Dzieci, M!children_work(d)
      PROVE  StanM'
  <2>1. UNCHANGED <<wariant, N, i, suma>> /\ M!Dzieci' = M!Dzieci /\ (\A e : M!WPliku(e)' <=> M!WPliku(e))
    BY <1>3 DEF M!children_work, M!Dzieci, M!WPliku
  <2>2. suma = -1
    BY <1>3 DEF M!children_work, M!WaitDoKonca
  <2>3. ASSUME NEW w \in Wyniki, pc[d] = "licz", wynik' = [wynik EXCEPT ![d] = w], pi' = [pi EXCEPT ![d] = w],
               pc' = [pc EXCEPT ![d] = "log"], UNCHANGED log
        PROVE  StanM'
    <3>1. w \in Int
      BY <2>3, ShmAssumption
    <3>2. pi' \in [M!Dzieci -> Int] /\ wynik' = pi'
      BY <2>3, <3>1
    <3>3. pc' \in [M!Dzieci -> {"brak", "licz", "log", "koniec"}]
      BY <2>3
    <3>4. \A e \in M!Dzieci : pc'[e] = "koniec" /\ M!WPliku(e) => log'[e] = pi'[e]
      BY <2>3
    <3>. QED
      BY <2>1, <2>2, <2>3, <3>2, <3>3, <3>4
  <2>4. CASE /\ pc[d] = "log" /\ log' = [log EXCEPT ![d] = IF M!WPliku(d) THEN pi[d] ELSE @]
             /\ pc' = [pc EXCEPT ![d] = "koniec"] /\ UNCHANGED <<wynik, pi>>
    BY <2>1, <2>2, <2>4
  <2>. QED
    BY <1>3, <2>3, <2>4 DEF M!children_work
<1>4. CASE UNCHANGED M!vars
  BY <1>4 DEF M!vars, M!Dzieci, M!WaitDoKonca, M!WPliku
<1>. QED
  BY <1>1, <1>2, <1>3, <1>4 DEF M!Next

-----------------------------------------------------------------------------
(* Whichever program runs, its invariant is kept: the initial state of Shm
   is one of its programs' initial states, and a step of Shm is a step of
   the program that runs. *)
THEOREM Inductive == Spec => []IInv
<1>1. Init => IInv
  <2> SUFFICES ASSUME Init PROVE IInv
    OBVIOUS
  <2>1. CASE program = "gra" /\ G!Init
    <3>1. StanG
      BY <2>1, InitG
    <3>2. PunktyG
      BY <2>1, <3>1, PunktyPoczatek
    <3>. QED
      BY <2>1, <3>1, <3>2 DEF IInv
  <2>2. CASE program = "baza" /\ D!Init
    BY <2>2, InitD DEF IInv
  <2>3. CASE program = "semafor" /\ S!Init
    BY <2>3, InitS DEF IInv
  <2>4. CASE program = "czujniki" /\ A!Init
    BY <2>4, InitA DEF IInv
  <2>5. CASE program = "monte" /\ M!Init
    BY <2>5, InitM DEF IInv
  <2>. QED
    BY <2>1, <2>2, <2>3, <2>4, <2>5 DEF Init
<1>2. IInv /\ [Next]_vars => IInv'
  <2> SUFFICES ASSUME IInv, [Next]_vars PROVE IInv'
    OBVIOUS
  <2>1. program' = program
    BY DEF Next, vars, PozaGra, PozaBaza, PozaSemaforem, PozaCzujnikami, PozaMonte
  <2>2. CASE program = "gra"
    <3>1. [G!Next]_(G!vars)
      BY <2>2 DEF Next, vars, gra, G!vars, G!wspolne, G!klient
    <3>. QED
      BY <2>1, <2>2, <3>1, KrokG DEF IInv
  <2>3. CASE program = "baza"
    <3>1. [D!Next]_(D!vars)
      BY <2>3 DEF Next, vars, baza, D!vars, D!rekord
    <3>. QED
      BY <2>1, <2>3, <3>1, KrokD DEF IInv
  <2>4. CASE program = "semafor"
    <3>1. [S!Next]_(S!vars)
      BY <2>4 DEF Next, vars, semafor, S!vars
    <3>. QED
      BY <2>1, <2>4, <3>1, KrokS DEF IInv
  <2>5. CASE program = "czujniki"
    <3>1. [A!Next]_(A!vars)
      BY <2>5 DEF Next, vars, czujniki, A!vars
    <3>. QED
      BY <2>1, <2>5, <3>1, KrokA DEF IInv
  <2>6. CASE program = "monte"
    <3>1. [M!Next]_(M!vars)
      BY <2>6 DEF Next, vars, monte, M!vars
    <3>. QED
      BY <2>1, <2>6, <3>1, KrokM DEF IInv
  <2>. QED
    BY <2>2, <2>3, <2>4, <2>5, <2>6 DEF IInv
<1>. QED
  BY <1>1, <1>2, PTL DEF Spec

(* Board game, for any number of clients and any board: the points handed
   out and those left on the board are always what the server has put there,
   although clients read the memory while it is prepared, die with the mutex
   and go on after it is destroyed. *)
THEOREM PointsKept == Spec => []PunktyZachowane
<1>1. IInv => PunktyZachowane
  BY DEF IInv, PunktyG, PunktyZachowane
<1>. QED
  BY <1>1, Inductive, PTL

(* The next owner of a mutex recovers from the death of the last one: the
   lock of the board game fails only after it is destroyed, and a worker of
   the record database finds and leaves records that agree. *)
THEOREM DeathsRecovered == Spec => []OdzyskanePoSmierci
<1>1. IInv => BladTylkoPoDestroy
  BY DEF IInv, StanG, BladG, BladTylkoPoDestroy
<1>2. IInv => WynikAktualny
  <2> SUFFICES ASSUME StanD, NEW p \in Pracownicy, pc[p] = "unlock"
               PROVE  /\ last_result[cel[p]] = base_value[cel[p]]
                      /\ base_value[cel[p]] = 100 + cel[p] + 5 * processing_count[cel[p]]
    BY DEF IInv, WynikAktualny
  <2>1. ASSUME NEW q \in Pracownicy, pc[q] = "count", cel[q] = cel[p]
        PROVE  FALSE
    <3>1. D!Zamek(p) = D!Zamek(q)
      BY <2>1 DEF D!Zamek
    <3>. QED
      BY <2>1, <3>1 DEF StanD, SekcjaD, WSekcjiD
  <2>. QED
    BY <2>1 DEF StanD, RekordyD, TypD
<1>. QED
  BY <1>1, <1>2, Inductive, PTL DEF OdzyskanePoSmierci

(* Nobody uses shared state before it is ready or after it is gone: the
   objects of semafor.c, the files of the sensors, the estimates of pi. *)
THEOREM NothingEarly == Spec => []NicPrzedCzasem
<1>1. IInv => ObiektyZyja
  BY DEF IInv, StanS, ObiektyZyja, S!UzywaSd, PoKluczu, Sprzatanie
<1>2. IInv => BezPodgladu
  BY NiktNiePisze DEF IInv, BezPodgladu
<1>3. IInv => SredniaZWszystkich
  BY DEF IInv, StanM, SredniaZWszystkich, M!WaitDoKonca
<1>. QED
  BY <1>1, <1>2, <1>3, Inductive, PTL DEF NicPrzedCzasem
=============================================================================
