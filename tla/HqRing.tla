------------------------------- MODULE HqRing -------------------------------
(***************************************************************************)
(* zadania_8/zadanie1_buforcykliczny.c: the headquarters server with a     *)
(* ring (kolejka, head, tail, count) in place of the stack, no addresses   *)
(* of senders and no napoleon.  Line 278 names a condition variable that   *)
(* does not exist, as its comment says; the broadcast is that of line 279. *)
(***************************************************************************)
EXTENDS Integers, Sequences, FiniteSets

CONSTANTS
  Adiutanci,
  Tresc,                \* Tresc[n]: x, y, nazwa and poprawny of the n-th datagram
  STACK_SIZE,
  DIVISION_NAMES_SIZE,
  Wiersze, Kolumny      \* rows and columns of the map, 0..99 in the code

VARIABLES
  kolejka, head, tail, count,   \* the ring, of numbers of datagrams
  pracujemy,                    \* the flag SIGINT clears
  serwer,                       \* where main is
  numer,                        \* the last datagram main has received
  pc, dane, id, wiersz,         \* the adjutants and their locals
  nazwy,                        \* nazwy_oddzialow
  mapa

bufor == <<kolejka, head, tail, count>>
adiutant == <<pc, dane, id, wiersz>>
vars == <<bufor, pracujemy, serwer, numer, adiutant, nazwy, mapa>>

Meldunki == DOMAIN Tresc

Init ==
  /\ kolejka = [k \in 0..(STACK_SIZE - 1) |-> 0] /\ head = 0 /\ tail = 0 /\ count = 0
  /\ pracujemy = 1 /\ serwer = "petla" /\ numer = 0
  /\ pc = [a \in Adiutanci |-> "lock"]
  /\ dane = [a \in Adiutanci |-> 0] /\ id = dane /\ wiersz = dane
  /\ nazwy = <<>>
  /\ mapa = [p \in Wiersze \X Kolumny |-> 0]   \* 0 for the -1 of the code

----------------------------------------------------------------------------
\* serwer_work and the signal.
sigint_handler ==
  /\ pracujemy = 1
  /\ pracujemy' = 0
  /\ serwer' = IF serwer = "recvfrom" THEN "petla" ELSE serwer
  /\ UNCHANGED <<bufor, numer, adiutant, nazwy, mapa>>

TestPetli ==
  /\ \/ serwer = "petla" /\ serwer' = IF pracujemy = 1 THEN "przed_recvfrom" ELSE "alarm"
     \/ serwer = "przed_recvfrom" /\ serwer' = "recvfrom"
  /\ UNCHANGED <<bufor, pracujemy, numer, adiutant, nazwy, mapa>>

Odbierz ==
  /\ serwer = "recvfrom" /\ numer + 1 \in Meldunki
  /\ numer' = numer + 1
  /\ serwer' = "wstaw"
  /\ UNCHANGED <<bufor, pracujemy, adiutant, nazwy, mapa>>

MutexWolny == \A a \in Adiutanci : pc[a] \notin {"sekcja", "zasypia"}

\* Mutant: pthread_cond_signal is forgotten.
BudzNikogo == UNCHANGED pc

BudzJednego ==
  LET spiacy == {a \in Adiutanci : pc[a] = "spi"}
  IN IF spiacy = {} THEN UNCHANGED pc
     ELSE \E a \in spiacy : pc' = [pc EXCEPT ![a] = "lock"]

Nastepny(k) == (k + 1) % STACK_SIZE

JestMiejsce == count < STACK_SIZE

\* The section under mutex_kolejki; a report that finds the ring full is lost.
Wstaw ==
  /\ serwer = "wstaw" /\ MutexWolny
  /\ IF JestMiejsce
     THEN /\ kolejka' = [kolejka EXCEPT ![tail] = numer]
          /\ tail' = Nastepny(tail)
          /\ count' = count + 1
          /\ BudzJednego
     ELSE UNCHANGED <<kolejka, tail, count, pc>>
  /\ serwer' = "petla"
  /\ UNCHANGED <<head, pracujemy, numer, dane, id, wiersz, nazwy, mapa>>

BudzWszystkich == pc' = [a \in Adiutanci |-> IF pc[a] = "spi" THEN "lock" ELSE pc[a]]

Alarm ==
  /\ serwer = "alarm"
  /\ BudzWszystkich
  /\ serwer' = "join"
  /\ UNCHANGED <<bufor, pracujemy, numer, dane, id, wiersz, nazwy, mapa>>

Zamknij ==
  /\ serwer = "join" /\ \A a \in Adiutanci : pc[a] = "koniec"
  /\ serwer' = "zamkniety"
  /\ UNCHANGED <<bufor, pracujemy, numer, adiutant, nazwy, mapa>>

----------------------------------------------------------------------------
\* thread_work: the part under mutex_kolejki.
Idz(a, dokad) == pc' = [pc EXCEPT ![a] = dokad]

CzekajNaMeldunek(a) ==
  /\ \/ pc[a] = "lock" /\ MutexWolny /\ Idz(a, "sekcja")
     \/ pc[a] = "sekcja" /\ count = 0 /\ Idz(a, IF pracujemy = 1 THEN "zasypia" ELSE "koniec")
     \/ pc[a] = "zasypia" /\ Idz(a, "spi")
  /\ UNCHANGED <<bufor, pracujemy, serwer, numer, dane, id, wiersz, nazwy, mapa>>

\* Mutant: the newest report is taken, as zadanie1.c does with its stack.
NajstarszyOstatni == kolejka[(tail + STACK_SIZE - 1) % STACK_SIZE]

Najstarszy == kolejka[head]

Pobierz(a) ==
  /\ pc[a] = "sekcja" /\ count > 0
  /\ dane' = [dane EXCEPT ![a] = Najstarszy]
  /\ head' = Nastepny(head)
  /\ count' = count - 1
  /\ Idz(a, "parsuj")
  /\ UNCHANGED <<kolejka, tail, pracujemy, serwer, numer, id, wiersz, nazwy, mapa>>

\* sscanf, the tests of its results, and the register under mutex_do_nazw.
Rejestruj(a) ==
  LET m == Tresc[dane[a]]
      znane == {n \in DOMAIN nazwy : nazwy[n] = m.nazwa}
  IN /\ pc[a] = "parsuj"
     /\ CASE ~m.poprawny -> Idz(a, "lock") /\ UNCHANGED <<nazwy, id>>
          [] m.poprawny /\ znane # {} ->
               /\ \E n \in znane : id' = [id EXCEPT ![a] = n]
               /\ Idz(a, "czysc") /\ UNCHANGED nazwy
          [] m.poprawny /\ znane = {} /\ Len(nazwy) < DIVISION_NAMES_SIZE ->
               /\ nazwy' = Append(nazwy, m.nazwa)
               /\ id' = [id EXCEPT ![a] = Len(nazwy) + 1]
               /\ Idz(a, "czysc")
          [] OTHER -> Idz(a, "lock") /\ UNCHANGED <<nazwy, id>>
     /\ wiersz' = [wiersz EXCEPT ![a] = 0]
     /\ UNCHANGED <<bufor, pracujemy, serwer, numer, dane, mapa>>

\* One row of the map is cleared under its own mutex; after the last row
\* the new position is set, in a section of its own.
Rysuj(a) ==
  LET m == Tresc[dane[a]] IN
  /\ \/ /\ pc[a] = "czysc" /\ wiersz[a] \in Wiersze
        /\ mapa' = [p \in DOMAIN mapa |->
             IF p[1] = wiersz[a] /\ mapa[p] = id[a] THEN 0 ELSE mapa[p]]
        /\ wiersz' = [wiersz EXCEPT ![a] = @ + 1]
        /\ UNCHANGED pc
     \/ /\ pc[a] = "czysc" /\ wiersz[a] \notin Wiersze
        /\ mapa' = [mapa EXCEPT ![<<m.y, m.x>>] = id[a]]
        /\ Idz(a, "lock")
        /\ UNCHANGED wiersz
  /\ UNCHANGED <<bufor, pracujemy, serwer, numer, dane, id, nazwy>>

KrokSerwera == TestPetli \/ Wstaw \/ Alarm \/ Zamknij
KrokAdiutanta(a) == CzekajNaMeldunek(a) \/ Pobierz(a) \/ Rejestruj(a) \/ Rysuj(a)

Next == sigint_handler \/ Odbierz \/ KrokSerwera \/ \E a \in Adiutanci : KrokAdiutanta(a)

Fairness ==
  /\ WF_vars(KrokSerwera)
  /\ \A a \in Adiutanci : WF_vars(KrokAdiutanta(a))

Spec == Init /\ [][Next]_vars /\ Fairness
----------------------------------------------------------------------------
Zawartosc == [n \in 1..count |-> kolejka[(head + n - 1) % STACK_SIZE]]
Fifo == INSTANCE BoundedFifo WITH Elementy <- Meldunki, Konsumenci <- Adiutanci,
          Pojemnosc <- STACK_SIZE, zawartosc <- Zawartosc, wziety <- dane

PracaNieCzeka ==
  count > 0 /\ (\E a \in Adiutanci : pc[a] # "koniec")
    => \E a \in Adiutanci : pc[a] \notin {"spi", "zasypia", "koniec"}
=============================================================================
