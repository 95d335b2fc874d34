------------------------------ MODULE HqServer ------------------------------
(***************************************************************************)
(* The headquarters server of zadania_8/zadanie1.c.  The main thread       *)
(* receives UDP reports and pushes them on a bounded stack; adjutants pop  *)
(* them, keep the register of units and the staff map up to date; the      *)
(* thread "napoleon" prints the map and sends orders to allied units;      *)
(* SIGINT shuts the server down.                                           *)
(*                                                                         *)
(* A pthread mutex is the thread that holds it (Nikt when it is free); a   *)
(* condition variable is the set of the threads asleep on it.  A critical  *)
(* section that takes no other lock and that nobody can observe half done  *)
(* is one action; the section of thread_work around pthread_cond_wait is   *)
(* split, because the SIGINT handler and pthread_cond_broadcast run        *)
(* without the mutex.                                                      *)
(***************************************************************************)
EXTENDS Integers, Sequences, FiniteSets, SequencesExt

CONSTANTS
  Adiutanci,            \* the worker threads (4 in the code)
  Teksty,               \* the texts a datagram may carry, as sscanf sees them
  Nazwy,                \* the names of units that occur in those texts
  Nadawcy,              \* the addresses datagrams come from
  STACK_SIZE,           \* 16 in the code
  DIVISION_NAMES_SIZE,  \* 128 in the code
  ROZMIAR,              \* the side of the map, 100 in the code
  MaxMeldunkow,         \* bound: how many datagrams are received
  Nikt                  \* no thread, no report, no name, no address

(* What sscanf("%d %d %d %128[^\n]") makes of a text: ok says that all four
   items were converted; then x, y, p and nazwa are their values. *)
Tekst == [ok : BOOLEAN, x : Int, y : Int, p : Int, nazwa : Nazwy]

Wiadomosc == [nr : 1..MaxMeldunkow, tekst : Teksty, nadawca : Nadawcy]

Id == 0..(DIVISION_NAMES_SIZE - 1)
Wiersze == 0..(ROZMIAR - 1)

(* Where an adjutant can be in thread_work. *)
Miejsca == {"start", "warunek", "zasypia", "spi", "decyzja", "parsuj", "rejestr",
            "zapisz", "czysc", "ustaw", "koniec"}

ASSUME StaleAssumption ==
  /\ STACK_SIZE \in Nat \ {0}
  /\ DIVISION_NAMES_SIZE \in Nat \ {0}
  /\ ROZMIAR \in Nat \ {0}
  /\ MaxMeldunkow \in Nat

ASSUME TekstyAssumption ==
  \A t \in Teksty : /\ t.ok \in BOOLEAN
                    /\ t.x \in Int /\ t.y \in Int /\ t.p \in Int
                    /\ t.nazwa \in Nazwy

ASSUME NiktAssumption ==
  /\ Nikt \notin Adiutanci
  /\ Nikt \notin Wiadomosc
  /\ Nikt \notin Nazwy
  /\ Nikt \notin Nadawcy

(* main starts a fixed number of adjutants, 4 in the code. *)
ASSUME AdiutanciAssumption ==
  /\ Adiutanci # {}
  /\ IsFiniteSet(Adiutanci)

VARIABLES
  pracujemy,            \* the flag the SIGINT handler clears
  stos,                 \* stos[0..top-1]; top is Len(stos)
  mutex,                \* holder of state->mutex
  cond,                 \* adjutants asleep on state->cond
  nazwy_oddzialow,      \* the register of units, by id
  liczba_oddzialow,
  przynaleznosc,        \* 1 ally, 0 enemy, -1 not known yet
  ostatni_nadawca,      \* Nikt where ma_ostatni_nadawca is 0
  mapa,                 \* mapa[y][x]: an id or -1
  pc,                   \* where each adjutant is in thread_work
  raport,               \* its local copy of the popped report
  id_oddzialu,          \* its local id of the unit
  wiersz,               \* its local row counter
  glowny,               \* where main is (serwer_work and the closing section)
  odebrany,             \* its local message
  napoleon,             \* where napoleon_work is
  id_rozkazu,           \* its chosen unit, -1 for none
  odebrane,             \* history: number of datagrams received
  obsluzone,            \* history: reports an adjutant is done with
  przepadle             \* history: reports dropped because the stack was full

kolejka  == <<stos, mutex, cond>>
rejestr  == <<nazwy_oddzialow, liczba_oddzialow, przynaleznosc, ostatni_nadawca>>
lokalne  == <<raport, id_oddzialu, wiersz>>
serwer   == <<glowny, odebrany, odebrane, przepadle>>
cesarz   == <<napoleon, id_rozkazu>>

vars == <<pracujemy, kolejka, rejestr, mapa, pc, lokalne, obsluzone, serwer, cesarz>>

Init ==
  /\ pracujemy = 1
  /\ stos = <<>>
  /\ mutex = Nikt
  /\ cond = {}
  /\ nazwy_oddzialow = [i \in Id |-> Nikt]
  /\ liczba_oddzialow = 0
  /\ przynaleznosc = [i \in Id |-> -1]
  /\ ostatni_nadawca = [i \in Id |-> Nikt]
  /\ mapa = [y \in Wiersze |-> [x \in Wiersze |-> -1]]
  /\ pc = [a \in Adiutanci |-> "start"]
  /\ raport = [a \in Adiutanci |-> Nikt]
  /\ id_oddzialu = [a \in Adiutanci |-> -1]
  /\ wiersz = [a \in Adiutanci |-> 0]
  /\ glowny = "petla"
  /\ odebrany = Nikt
  /\ napoleon = "petla"
  /\ id_rozkazu = -1
  /\ odebrane = 0
  /\ obsluzone = {}
  /\ przepadle = {}

-----------------------------------------------------------------------------
(* The SIGINT handler.  The signal goes to the main thread: blocked in
   recvfrom it gets EINTR and is back at the test of its loop, anywhere else
   only the flag changes. *)
sigint_handler ==
  /\ pracujemy = 1 \/ glowny = "recvfrom"
  /\ pracujemy' = 0
  /\ glowny' = IF glowny = "recvfrom" THEN "petla" ELSE glowny
  /\ UNCHANGED <<kolejka, rejestr, mapa, pc, lokalne, obsluzone, odebrany,
                 odebrane, przepadle, cesarz>>

-----------------------------------------------------------------------------
(* The main thread: serwer_work and the closing section of main.  The state
   of the other threads is framed in KrokSerwera. *)

SprawdzPrace ==
  /\ glowny = "petla"
  /\ glowny' = IF pracujemy = 1 THEN "przed_recvfrom" ELSE "alarm"
  /\ UNCHANGED <<kolejka, odebrany, odebrane, przepadle>>

WejdzDoRecvfrom ==
  /\ glowny = "przed_recvfrom"
  /\ glowny' = "recvfrom"
  /\ UNCHANGED <<kolejka, odebrany, odebrane, przepadle>>

(* recvfrom returns a datagram: any text from any sender. *)
Odbierz(t, n) ==
  /\ glowny = "recvfrom"
  /\ odebrane < MaxMeldunkow
  /\ odebrane' = odebrane + 1
  /\ odebrany' = [nr |-> odebrane + 1, tekst |-> t, nadawca |-> n]
  /\ glowny' = "wrzuc"
  /\ UNCHANGED <<kolejka, przepadle>>

(* Mutant of Sygnal: the signal is forgotten. *)
BezSygnalu == cond' = cond

(* pthread_cond_signal wakes one sleeper, if there is one. *)
Sygnal ==
  \/ cond = {} /\ cond' = {}
  \/ \E a \in cond : cond' = cond \ {a}

(* Mutant of Wrzuc: the test of the stack is off by one. *)
WrzucPonadStos ==
  /\ glowny = "wrzuc" /\ mutex = Nikt
  /\ Len(stos) <= STACK_SIZE
  /\ stos' = Append(stos, odebrany)
  /\ Sygnal
  /\ odebrany' = Nikt
  /\ glowny' = "petla"
  /\ UNCHANGED <<mutex, odebrane, przepadle>>

(* Push under the mutex, or drop the report when the stack is full. *)
Wrzuc ==
  /\ glowny = "wrzuc"
  /\ mutex = Nikt
  /\ \/ /\ Len(stos) < STACK_SIZE
        /\ stos' = Append(stos, odebrany)
        /\ Sygnal
        /\ UNCHANGED przepadle
     \/ /\ Len(stos) >= STACK_SIZE
        /\ przepadle' = przepadle \cup {odebrany.nr}
        /\ UNCHANGED <<stos, cond>>
  /\ odebrany' = Nikt
  /\ glowny' = "petla"
  /\ UNCHANGED <<mutex, odebrane>>

(* Mutant of Alarm: pthread_cond_signal in place of the broadcast. *)
AlarmJednego ==
  /\ glowny = "alarm"
  /\ Sygnal
  /\ glowny' = "join"
  /\ UNCHANGED <<stos, mutex, odebrany, odebrane, przepadle>>

(* pthread_cond_broadcast, called without the mutex. *)
Alarm ==
  /\ glowny = "alarm"
  /\ cond' = {}
  /\ glowny' = "join"
  /\ UNCHANGED <<stos, mutex, odebrany, odebrane, przepadle>>

(* The joins, then the destruction of the locks and the end of the process. *)
Zamknij ==
  /\ glowny = "join"
  /\ \A a \in Adiutanci : pc[a] = "koniec"
  /\ napoleon = "koniec"
  /\ glowny' = "zamkniete"
  /\ UNCHANGED <<kolejka, odebrany, odebrane, przepadle>>

-----------------------------------------------------------------------------
(* The adjutants: thread_work.  What none of them touches is framed in
   KrokAdiutanta; Idz moves adjutant a to another place of thread_work. *)

Idz(a, miejsce) == pc' = [pc EXCEPT ![a] = miejsce]

PozaStosem == <<rejestr, mapa, lokalne, obsluzone>>

Zablokuj(a) ==
  /\ pc[a] = "start"
  /\ mutex = Nikt
  /\ mutex' = a
  /\ Idz(a, "warunek")
  /\ UNCHANGED <<stos, cond, PozaStosem>>

(* while (top == 0 && pracujemy == 1): evaluated with the mutex held, but the
   flag may change before the thread is asleep. *)
SprawdzWarunek(a) ==
  /\ pc[a] = "warunek"
  /\ Idz(a, IF stos = <<>> /\ pracujemy = 1 THEN "zasypia" ELSE "decyzja")
  /\ UNCHANGED <<kolejka, PozaStosem>>

(* pthread_cond_wait releases the mutex and falls asleep in one step ... *)
Zasnij(a) ==
  /\ pc[a] = "zasypia"
  /\ mutex' = Nikt
  /\ cond' = cond \cup {a}
  /\ Idz(a, "spi")
  /\ UNCHANGED <<stos, PozaStosem>>

(* ... may wake without a signal ... *)
FalszywePrzebudzenie(a) ==
  /\ a \in cond
  /\ cond' = cond \ {a}
  /\ UNCHANGED <<stos, mutex, pc, PozaStosem>>

(* ... and takes the mutex back before it returns to the test. *)
ObudzSie(a) ==
  /\ pc[a] = "spi"
  /\ a \notin cond
  /\ mutex = Nikt
  /\ mutex' = a
  /\ Idz(a, "warunek")
  /\ UNCHANGED <<stos, cond, PozaStosem>>

(* Mutant of Wyjdz: the adjutant does not look at the stack. *)
WyjdzOdRazu(a) ==
  /\ pc[a] = "decyzja" /\ pracujemy = 0
  /\ mutex' = Nikt
  /\ Idz(a, "koniec")
  /\ UNCHANGED <<stos, cond, PozaStosem>>

(* Leave when the server stops and the stack is empty. *)
Wyjdz(a) ==
  /\ pc[a] = "decyzja"
  /\ pracujemy = 0
  /\ stos = <<>>
  /\ mutex' = Nikt
  /\ Idz(a, "koniec")
  /\ UNCHANGED <<stos, cond, PozaStosem>>

(* Mutant of Zdejmij: top is not decremented. *)
ZdejmijBezZdjecia(a) ==
  /\ pc[a] = "decyzja" /\ stos # <<>>
  /\ raport' = [raport EXCEPT ![a] = Last(stos)]
  /\ mutex' = Nikt
  /\ Idz(a, "parsuj")
  /\ UNCHANGED <<stos, cond, rejestr, mapa, id_oddzialu, wiersz, obsluzone>>

(* Otherwise pop the newest report. *)
Zdejmij(a) ==
  /\ pc[a] = "decyzja"
  /\ ~(pracujemy = 0 /\ stos = <<>>)
  /\ stos' = Front(stos)
  /\ raport' = [raport EXCEPT ![a] = Last(stos)]
  /\ mutex' = Nikt
  /\ Idz(a, "parsuj")
  /\ UNCHANGED <<cond, rejestr, mapa, id_oddzialu, wiersz, obsluzone>>

(* The checks after sscanf: four items, coordinates on the map, p 0 or 1. *)
Poprawny(t) ==
  /\ t.ok
  /\ t.x \in Wiersze /\ t.y \in Wiersze
  /\ t.p \in {0, 1}

(* The adjutant is done with its report and goes back to the stack. *)
Skoncz(a) ==
  /\ Idz(a, "start")
  /\ raport' = [raport EXCEPT ![a] = Nikt]
  /\ id_oddzialu' = [id_oddzialu EXCEPT ![a] = -1]
  /\ obsluzone' = obsluzone \cup {raport[a]}

Parsuj(a) ==
  /\ pc[a] = "parsuj"
  /\ \/ /\ Poprawny(raport[a].tekst)
        /\ Idz(a, "rejestr")
        /\ UNCHANGED <<raport, id_oddzialu, obsluzone>>
     \/ ~Poprawny(raport[a].tekst) /\ Skoncz(a)
  /\ UNCHANGED <<kolejka, rejestr, mapa, wiersz>>

(* Mutant of IdNazwy: the search stops one entry too early. *)
IdNazwyKrotko(n) == {i \in 0..(liczba_oddzialow - 2) : nazwy_oddzialow[i] = n}

(* The ids under which a name is registered (one at most, as it turns out). *)
IdNazwy(n) == {i \in 0..(liczba_oddzialow - 1) : nazwy_oddzialow[i] = n}

(* The first section under mutex_do_nazw: find the unit, or register it, or
   reject the report when the register is full. *)
Rejestruj(a) ==
  LET nazwa == raport[a].tekst.nazwa
  IN  /\ pc[a] = "rejestr"
      /\ \/ /\ \E i \in IdNazwy(nazwa) :
                 /\ \A j \in IdNazwy(nazwa) : i <= j
                 /\ id_oddzialu' = [id_oddzialu EXCEPT ![a] = i]
            /\ Idz(a, "zapisz")
            /\ UNCHANGED <<nazwy_oddzialow, liczba_oddzialow, raport, obsluzone>>
         \/ /\ IdNazwy(nazwa) = {}
            /\ liczba_oddzialow < DIVISION_NAMES_SIZE
            /\ id_oddzialu' = [id_oddzialu EXCEPT ![a] = liczba_oddzialow]
            /\ nazwy_oddzialow' = [nazwy_oddzialow EXCEPT ![liczba_oddzialow] = nazwa]
            /\ liczba_oddzialow' = liczba_oddzialow + 1
            /\ Idz(a, "zapisz")
            /\ UNCHANGED <<raport, obsluzone>>
         \/ /\ IdNazwy(nazwa) = {}
            /\ liczba_oddzialow >= DIVISION_NAMES_SIZE
            /\ Skoncz(a)
            /\ UNCHANGED <<nazwy_oddzialow, liczba_oddzialow>>
      /\ UNCHANGED <<kolejka, przynaleznosc, ostatni_nadawca, mapa, wiersz>>

(* Mutant of Zapisz: only the first sender is stored. *)
ZapiszPierwszego(a) ==
  /\ pc[a] = "zapisz"
  /\ przynaleznosc' = [przynaleznosc EXCEPT ![id_oddzialu[a]] = raport[a].tekst.p]
  /\ ostatni_nadawca' = [ostatni_nadawca EXCEPT ![id_oddzialu[a]] =
                            IF @ = Nikt THEN raport[a].nadawca ELSE @]
  /\ Idz(a, "czysc")
  /\ UNCHANGED <<kolejka, nazwy_oddzialow, liczba_oddzialow, mapa, lokalne, obsluzone>>

(* The second section under mutex_do_nazw: affiliation and last sender. *)
Zapisz(a) ==
  /\ pc[a] = "zapisz"
  /\ przynaleznosc' = [przynaleznosc EXCEPT ![id_oddzialu[a]] = raport[a].tekst.p]
  /\ ostatni_nadawca' = [ostatni_nadawca EXCEPT ![id_oddzialu[a]] = raport[a].nadawca]
  /\ Idz(a, "czysc")
  /\ UNCHANGED <<kolejka, nazwy_oddzialow, liczba_oddzialow, mapa, lokalne, obsluzone>>

(* Mutant of CzyscWiersz: the last row is left out. *)
CzyscBezOstatniego(a) ==
  /\ pc[a] = "czysc"
  /\ mapa' = [mapa EXCEPT ![wiersz[a]] =
                [x \in Wiersze |-> IF @[x] = id_oddzialu[a] THEN -1 ELSE @[x]]]
  /\ wiersz' = [wiersz EXCEPT ![a] = (@ + 1) % (ROZMIAR - 1)]
  /\ Idz(a, IF wiersz[a] + 1 < ROZMIAR - 1 THEN "czysc" ELSE "ustaw")
  /\ UNCHANGED <<kolejka, rejestr, raport, id_oddzialu, obsluzone>>

(* One row of the map, under the mutex of that row, loses the unit. *)
CzyscWiersz(a) ==
  /\ pc[a] = "czysc"
  /\ mapa' = [mapa EXCEPT ![wiersz[a]] =
                [x \in Wiersze |-> IF @[x] = id_oddzialu[a] THEN -1 ELSE @[x]]]
  /\ wiersz' = [wiersz EXCEPT ![a] = (@ + 1) % ROZMIAR]
  /\ Idz(a, IF wiersz[a] + 1 < ROZMIAR THEN "czysc" ELSE "ustaw")
  /\ UNCHANGED <<kolejka, rejestr, raport, id_oddzialu, obsluzone>>

(* Mutant of Ustaw: row and column are swapped. *)
UstawOdwrotnie(a) ==
  /\ pc[a] = "ustaw"
  /\ mapa' = [mapa EXCEPT ![raport[a].tekst.x][raport[a].tekst.y] = id_oddzialu[a]]
  /\ Skoncz(a)
  /\ UNCHANGED <<kolejka, rejestr, wiersz>>

(* The unit is put on its reported cell and the adjutant is done. *)
Ustaw(a) ==
  /\ pc[a] = "ustaw"
  /\ mapa' = [mapa EXCEPT ![raport[a].tekst.y][raport[a].tekst.x] = id_oddzialu[a]]
  /\ Skoncz(a)
  /\ UNCHANGED <<kolejka, rejestr, wiersz>>

-----------------------------------------------------------------------------
(* The thread napoleon_work.  It changes none of the others' state. *)

SprawdzPraceNapoleona ==
  /\ napoleon = "petla"
  /\ napoleon' = IF pracujemy = 1 THEN "druk" ELSE "koniec"
  /\ UNCHANGED id_rozkazu

(* The map is printed, row by row under the mutex of the row: nothing but the
   terminal changes. *)
drukuj_mape ==
  /\ napoleon = "druk"
  /\ napoleon' = "wybor"
  /\ UNCHANGED id_rozkazu

(* Mutant of Kandydaci: any unit that is not known to be hostile. *)
KandydaciNiewrodzy == {i \in 0..(liczba_oddzialow - 1) : przynaleznosc[i] # 0}

(* losowy_sojusznik: the units that may be chosen. *)
Kandydaci == {i \in 0..(liczba_oddzialow - 1) :
                przynaleznosc[i] = 1 /\ ostatni_nadawca[i] # Nikt}

losowy_sojusznik ==
  /\ napoleon = "wybor"
  /\ \/ Kandydaci = {} /\ id_rozkazu' = -1 /\ napoleon' = "petla"
     \/ \E i \in Kandydaci : id_rozkazu' = i /\ napoleon' = "rozkaz"

(* The address and the name of the chosen unit are read in a second section
   under mutex_do_nazw; the order goes to that address. *)
WyslijRozkaz ==
  /\ napoleon = "rozkaz"
  /\ id_rozkazu' = -1
  /\ napoleon' = "petla"

-----------------------------------------------------------------------------
KrokSerwera ==
  /\ SprawdzPrace \/ WejdzDoRecvfrom \/ Wrzuc \/ Alarm \/ Zamknij
  /\ UNCHANGED <<pracujemy, rejestr, mapa, pc, lokalne, obsluzone, cesarz>>

Siec ==
  /\ \E t \in Teksty, n \in Nadawcy : Odbierz(t, n)
  /\ UNCHANGED <<pracujemy, rejestr, mapa, pc, lokalne, obsluzone, cesarz>>

KrokAdiutanta(a) ==
  /\ \/ Zablokuj(a) \/ SprawdzWarunek(a) \/ Zasnij(a) \/ ObudzSie(a)
     \/ Wyjdz(a) \/ Zdejmij(a) \/ Parsuj(a) \/ Rejestruj(a) \/ Zapisz(a)
     \/ CzyscWiersz(a) \/ Ustaw(a)
  /\ UNCHANGED <<pracujemy, serwer, cesarz>>

Przebudzenie(a) == FalszywePrzebudzenie(a) /\ UNCHANGED <<pracujemy, serwer, cesarz>>

KrokNapoleona ==
  /\ \/ SprawdzPraceNapoleona \/ drukuj_mape \/ losowy_sojusznik \/ WyslijRozkaz
  /\ UNCHANGED <<pracujemy, kolejka, rejestr, mapa, pc, lokalne, obsluzone, serwer>>

Next ==
  \/ sigint_handler
  \/ Siec
  \/ KrokSerwera
  \/ \E a \in Adiutanci : KrokAdiutanta(a) \/ Przebudzenie(a)
  \/ KrokNapoleona

Spec == Init /\ [][Next]_vars

(* Every thread that can go on does so; a thread that waits for a mutex that
   is released again and again gets it (strong fairness).  Signals, datagrams
   and spurious wake-ups are never promised. *)
FairSpec ==
  /\ Spec
  /\ SF_vars(KrokSerwera)
  /\ \A a \in Adiutanci : SF_vars(KrokAdiutanta(a))
  /\ WF_vars(KrokNapoleona)

-----------------------------------------------------------------------------
(* Types. *)
TypeOK ==
  /\ pracujemy \in {0, 1}
  /\ stos \in Seq(Wiadomosc)
  /\ Len(stos) <= STACK_SIZE
  /\ mutex \in Adiutanci \cup {Nikt}
  /\ cond \in SUBSET Adiutanci
  /\ nazwy_oddzialow \in [Id -> Nazwy \cup {Nikt}]
  /\ liczba_oddzialow \in 0..DIVISION_NAMES_SIZE
  /\ przynaleznosc \in [Id -> {-1, 0, 1}]
  /\ ostatni_nadawca \in [Id -> Nadawcy \cup {Nikt}]
  /\ mapa \in [Wiersze -> [Wiersze -> Id \cup {-1}]]
  /\ pc \in [Adiutanci -> Miejsca]
  /\ raport \in [Adiutanci -> Wiadomosc \cup {Nikt}]
  /\ id_oddzialu \in [Adiutanci -> Id \cup {-1}]
  /\ wiersz \in [Adiutanci -> Wiersze]
  /\ glowny \in {"petla", "przed_recvfrom", "recvfrom", "wrzuc", "alarm", "join",
                 "zamkniete"}
  /\ odebrany \in Wiadomosc \cup {Nikt}
  /\ napoleon \in {"petla", "druk", "wybor", "rozkaz", "koniec"}
  /\ id_rozkazu \in Id \cup {-1}
  /\ odebrane \in 0..MaxMeldunkow
  /\ obsluzone \in SUBSET Wiadomosc
  /\ przepadle \in SUBSET (1..MaxMeldunkow)

WRekach == {a \in Adiutanci : raport[a] # Nikt}

(* Every datagram received is in exactly one place: with main, on the stack,
   in the hands of one adjutant, handled, or dropped at a full stack.  No
   interleaving of push and pop loses a report or hands it out twice. *)
NicNieGinie ==
  LET glownego == IF odebrany = Nikt THEN {} ELSE {odebrany.nr}
  IN  /\ 1..odebrane = glownego \cup {stos[k].nr : k \in DOMAIN stos}
                         \cup {raport[a].nr : a \in WRekach}
                         \cup {m.nr : m \in obsluzone} \cup przepadle
      /\ odebrane = Cardinality(glownego) + Len(stos) + Cardinality(WRekach)
                      + Cardinality(obsluzone) + Cardinality(przepadle)

Aktywny(a) == pc[a] # "koniec" /\ a \notin cond

(* No report waits on the stack while every adjutant left in the server is
   asleep: a push that finds a sleeper wakes one, and nobody falls asleep or
   leaves over a report pushed after its test of top. *)
PracaNieCzeka ==
  stos # <<>> =>
    \/ \E a \in Adiutanci : Aktywny(a)
    \/ \A a \in Adiutanci : pc[a] = "koniec"

(* When the server has closed, the only report that can still be on the stack
   is the last datagram received: main held it when SIGINT came and pushed it
   after the last adjutant had left.  Everything older has been handled. *)
PozostajeNajwyzejOstatni ==
  glowny = "zamkniete" => \A k \in DOMAIN stos : stos[k].nr = odebrane

(* Two adjutants that meet a new unit at the same time give it one id: no name
   is registered twice, and no id is in use without a name. *)
NazwyRozne ==
  \A i \in 0..(liczba_oddzialow - 1) :
    /\ nazwy_oddzialow[i] # Nikt
    /\ \A j \in 0..(liczba_oddzialow - 1) :
         nazwy_oddzialow[i] = nazwy_oddzialow[j] => i = j

Widziane == obsluzone \cup {raport[a] : a \in WRekach}

(* The affiliation and the last sender of a unit always stem from one and the
   same report on that unit, however the sections of the adjutants interleave. *)
JedenMeldunekOddzialu ==
  \A i \in Id : ostatni_nadawca[i] # Nikt =>
    \E m \in Widziane : /\ m.tekst.nazwa = nazwy_oddzialow[i]
                        /\ m.tekst.p = przynaleznosc[i]
                        /\ m.nadawca = ostatni_nadawca[i]

(* The order Napoleon is about to send goes to an address from which the unit
   has been reported, and some report said that it is an ally: although a unit
   is in the register before its address is, and both may be overwritten
   between the choice and the order. *)
RozkazMaAdres ==
  LET o == {m \in Widziane : m.tekst.nazwa = nazwy_oddzialow[id_rozkazu]}
  IN  napoleon = "rozkaz" => /\ \E m \in o : m.nadawca = ostatni_nadawca[id_rozkazu]
                            /\ \E m \in o : m.tekst.p = 1

(* A unit is on the map only where a handled report on it says. *)
PoleZMeldunku ==
  \A y, x \in Wiersze : mapa[y][x] # -1 =>
    \E m \in obsluzone : /\ Poprawny(m.tekst)
                         /\ m.tekst.nazwa = nazwy_oddzialow[mapa[y][x]]
                         /\ m.tekst.y = y /\ m.tekst.x = x

Pola(i) == {p \in Wiersze \X Wiersze : mapa[p[1]][p[2]] = i}

(* A unit is on no more cells than there are adjutants: each adjutant clears
   all the rows before it puts the unit down, so of its own placements of a
   unit only the last one can still be on the map. *)
NajwyzejPoJednymNaAdiutanta ==
  \A i \in Id : Cardinality(Pola(i)) <= Cardinality(Adiutanci)

(* The reports on the stack are all handled in the end, unless every adjutant
   has left.  (MaxMeldunkow ends the arrivals: while newer reports keep coming
   the code takes them first.) *)
StosSieOproznia ==
  stos # <<>> ~> \/ stos = <<>> /\ \A a \in Adiutanci : raport[a] = Nikt
                \/ \A a \in Adiutanci : pc[a] = "koniec"

(* An adjutant that is asleep when main sounds the alarm wakes and leaves. *)
SpiacyWychodza ==
  \A a \in Adiutanci : (glowny = "alarm" /\ a \in cond) ~> (pc[a] = "koniec")

-----------------------------------------------------------------------------
(* What comments in zadanie1.c promise and the code does not keep. *)

(* Lines 363-364: the broadcast wakes all the sleeping adjutants, "they get up,
   see pracujemy == 0 ... and leave", so that the joins end. *)
ZamknieciePoAlarmie == glowny = "join" ~> glowny = "zamkniete"

Spokoj == \A a \in Adiutanci : raport[a] = Nikt

(* Line 263: old positions of a unit are removed when a new one is set. *)
JednoPole == Spokoj => \A i \in Id : Cardinality(Pola(i)) <= 1
=============================================================================
