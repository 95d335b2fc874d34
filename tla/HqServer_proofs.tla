-------------------------- MODULE HqServer_proofs ---------------------------
(***************************************************************************)
(* Proofs about HqServer, for any number of adjutants and reports, any     *)
(* stack, register and map size: typing, that reports on the stack never   *)
(* wait for adjutants that are all asleep, that every datagram received is *)
(* in exactly one place, and that the closing of the server leaves at most *)
(* the last one on the stack.  Then the register of units and the staff    *)
(* map: the sections of thread_work under mutex_do_nazw and under the      *)
(* mutexes of the rows interleave freely, and yet no name is registered    *)
(* twice, what is stored about a unit stems from one report on that unit,  *)
(* and a unit is on no more cells than there are adjutants.                *)
(***************************************************************************)
EXTENDS HqServer, SequenceTheorems, FiniteSetTheorems, TLAPS

ZRaportem == {"parsuj", "rejestr", "zapisz", "czysc", "ustaw"}
ZSprawdzonym == {"rejestr", "zapisz", "czysc", "ustaw"}
ZOddzialem == {"zapisz", "czysc", "ustaw"}
Blokujacy == {"warunek", "zasypia", "decyzja"}

(* What the local variables hold at each place of thread_work and main. *)
Lokalne ==
  /\ \A a \in Adiutanci :
       /\ pc[a] \in ZRaportem => raport[a] \in Wiadomosc
       /\ pc[a] \in ZSprawdzonym => Poprawny(raport[a].tekst)
       /\ pc[a] \in ZOddzialem => id_oddzialu[a] \in Id
       /\ pc[a] = "decyzja" => stos # <<>> \/ pracujemy = 0
  /\ glowny = "wrzuc" => odebrany \in Wiadomosc

(* Who holds the mutex, and what the holder knows. *)
Blokady ==
  /\ \A a \in Adiutanci : pc[a] \in Blokujacy <=> mutex = a
  /\ \A a \in cond : pc[a] = "spi"
  /\ \A a \in Adiutanci : pc[a] = "zasypia" => stos = <<>>

IInv == TypeOK /\ Lokalne /\ Blokady /\ PracaNieCzeka

-----------------------------------------------------------------------------
(* Pushing and popping keep the stack a sequence of reports. *)
LEMMA StosLemma ==
  ASSUME NEW s \in Seq(Wiadomosc)
  PROVE  /\ \A m \in Wiadomosc : /\ Append(s, m) \in Seq(Wiadomosc)
                                 /\ Len(Append(s, m)) = Len(s) + 1
                                 /\ Append(s, m) # <<>>
         /\ s # <<>> => /\ Front(s) \in Seq(Wiadomosc)
                        /\ Len(Front(s)) = Len(s) - 1
                        /\ Last(s) \in Wiadomosc
         /\ (s = <<>>) <=> (Len(s) = 0)
<1>1. (s = <<>>) <=> (Len(s) = 0)
  BY EmptySeq
<1>2. ASSUME NEW m \in Wiadomosc
      PROVE  /\ Append(s, m) \in Seq(Wiadomosc)
             /\ Len(Append(s, m)) = Len(s) + 1
             /\ Append(s, m) # <<>>
  BY AppendProperties
<1>3. ASSUME s # <<>>
      PROVE  /\ Front(s) \in Seq(Wiadomosc)
             /\ Len(Front(s)) = Len(s) - 1
             /\ Last(s) \in Wiadomosc
  <2>1. Len(s) \in Nat \ {0}
    BY <1>1, <1>3
  <2>2. Last(s) \in Wiadomosc
    BY <2>1, ElementOfSeq DEF Last
  <2>3. Front(s) \in Seq(Wiadomosc) /\ Len(Front(s)) = Len(s) - 1
    <3>1. Len(s) - 1 \in Nat /\ Len(s) - 1 <= Len(s)
      BY <2>1
    <3>2. Front(s) \in Seq(Wiadomosc)
      BY <2>1 DEF Front
    <3>3. \A n \in Nat : n <= Len(s) => Len(SubSeq(s, 1, n)) = n
      OBVIOUS
    <3>. QED
      BY <3>1, <3>2, <3>3, Zenon DEF Front
  <2>. QED
    BY <2>2, <2>3
<1>. QED
  BY <1>1, <1>2, <1>3

(* The initial state satisfies the inductive invariant. *)
LEMMA InitIInv == Init => IInv
<1> SUFFICES ASSUME Init PROVE IInv
  OBVIOUS
<1> USE StaleAssumption
<1>1. TypeOK
  <2>1. <<>> \in Seq(Wiadomosc) /\ Len(<<>>) = 0
    OBVIOUS
  <2>2. 0 \in Wiersze /\ 0 \in 0..MaxMeldunkow /\ 0 \in 0..DIVISION_NAMES_SIZE
    BY DEF Wiersze
  <2>3. mapa \in [Wiersze -> [Wiersze -> Id \cup {-1}]]
    BY DEF Init
  <2>. QED
    BY <2>1, <2>2, <2>3 DEF Init, TypeOK, Miejsca
<1>2. Lokalne
  BY DEF Init, Lokalne, ZRaportem, ZSprawdzonym, ZOddzialem
<1>3. Blokady
  BY NiktAssumption DEF Init, Blokady, Blokujacy
<1>4. PracaNieCzeka
  BY DEF Init, PracaNieCzeka
<1>. QED
  BY <1>1, <1>2, <1>3, <1>4 DEF IInv

-----------------------------------------------------------------------------
(* Steps of an adjutant. *)
LEMMA AdiutantLemma ==
  ASSUME IInv, NEW a \in Adiutanci, KrokAdiutanta(a) \/ Przebudzenie(a)
  PROVE  IInv'
<1> USE StaleAssumption, NiktAssumption
    DEF IInv, KrokAdiutanta, Przebudzenie, PozaStosem, Idz, kolejka, rejestr, lokalne, serwer, cesarz
<1>1. ASSUME Zablokuj(a), UNCHANGED <<pracujemy, serwer, cesarz>> PROVE IInv'
  <2>1. TypeOK'
    BY <1>1 DEF Zablokuj, TypeOK, Miejsca
  <2>2. Lokalne'
    BY <1>1 DEF Zablokuj, TypeOK, Lokalne, Miejsca, ZRaportem, ZSprawdzonym, ZOddzialem
  <2>3. Blokady'
    BY <1>1 DEF Zablokuj, TypeOK, Blokady, Blokujacy
  <2>4. PracaNieCzeka'
    BY <1>1 DEF Zablokuj, TypeOK, Blokady, PracaNieCzeka, Aktywny
  <2>. QED
    BY <2>1, <2>2, <2>3, <2>4
<1>2. ASSUME SprawdzWarunek(a), UNCHANGED <<pracujemy, serwer, cesarz>> PROVE IInv'
  <2>1. TypeOK'
    BY <1>2 DEF SprawdzWarunek, TypeOK, Miejsca
  <2>2. Lokalne'
    BY <1>2 DEF SprawdzWarunek, TypeOK, Lokalne, Miejsca, ZRaportem, ZSprawdzonym, ZOddzialem
  <2>3. Blokady'
    BY <1>2 DEF SprawdzWarunek, TypeOK, Blokady, Blokujacy
  <2>4. PracaNieCzeka'
    BY <1>2 DEF SprawdzWarunek, TypeOK, Blokady, PracaNieCzeka, Aktywny
  <2>. QED
    BY <2>1, <2>2, <2>3, <2>4
<1>3. ASSUME Zasnij(a), UNCHANGED <<pracujemy, serwer, cesarz>> PROVE IInv'
  <2>1. TypeOK'
    BY <1>3 DEF Zasnij, TypeOK, Miejsca
  <2>2. Lokalne'
    BY <1>3 DEF Zasnij, TypeOK, Lokalne, Miejsca, ZRaportem, ZSprawdzonym, ZOddzialem
  <2>3. Blokady'
    BY <1>3 DEF Zasnij, TypeOK, Blokady, Blokujacy
  <2>4. PracaNieCzeka'
    BY <1>3 DEF Zasnij, TypeOK, Blokady, PracaNieCzeka, Aktywny
  <2>. QED
    BY <2>1, <2>2, <2>3, <2>4
<1>4. ASSUME ObudzSie(a), UNCHANGED <<pracujemy, serwer, cesarz>> PROVE IInv'
  <2>1. TypeOK'
    BY <1>4 DEF ObudzSie, TypeOK, Miejsca
  <2>2. Lokalne'
    BY <1>4 DEF ObudzSie, TypeOK, Lokalne, Miejsca, ZRaportem, ZSprawdzonym, ZOddzialem
  <2>3. Blokady'
    BY <1>4 DEF ObudzSie, TypeOK, Blokady, Blokujacy
  <2>4. PracaNieCzeka'
    BY <1>4 DEF ObudzSie, TypeOK, Blokady, PracaNieCzeka, Aktywny
  <2>. QED
    BY <2>1, <2>2, <2>3, <2>4
<1>5. ASSUME Wyjdz(a), UNCHANGED <<pracujemy, serwer, cesarz>> PROVE IInv'
  <2>1. TypeOK'
    BY <1>5 DEF Wyjdz, TypeOK, Miejsca
  <2>2. Lokalne'
    BY <1>5 DEF Wyjdz, TypeOK, Lokalne, Miejsca, ZRaportem, ZSprawdzonym, ZOddzialem
  <2>3. Blokady'
    BY <1>5 DEF Wyjdz, TypeOK, Blokady, Blokujacy
  <2>4. PracaNieCzeka'
    BY <1>5 DEF Wyjdz, TypeOK, Blokady, PracaNieCzeka, Aktywny
  <2>. QED
    BY <2>1, <2>2, <2>3, <2>4
<1>6. ASSUME Zdejmij(a), UNCHANGED <<pracujemy, serwer, cesarz>> PROVE IInv'
  <2>0. stos # <<>> /\ stos \in Seq(Wiadomosc) /\ Len(stos) \in Nat
    BY <1>6 DEF Zdejmij, TypeOK, Lokalne
  <2>5. /\ Front(stos) \in Seq(Wiadomosc) /\ Len(Front(stos)) = Len(stos) - 1
        /\ Last(stos) \in Wiadomosc
    BY <2>0, StosLemma
  <2>1. TypeOK'
    <3>1. stos' \in Seq(Wiadomosc) /\ Len(stos') <= STACK_SIZE
      BY <1>6, <2>0, <2>5 DEF Zdejmij, TypeOK
    <3>2. raport' \in [Adiutanci -> Wiadomosc \cup {Nikt}]
      BY <1>6, <2>5 DEF Zdejmij, TypeOK
    <3>. QED
      BY <1>6, <3>1, <3>2 DEF Zdejmij, TypeOK, Miejsca
  <2>2. Lokalne'
    <3>1. ASSUME NEW b \in Adiutanci, b # a, pc[b] = "decyzja" PROVE FALSE
      BY <1>6, <3>1 DEF Zdejmij, Blokady, Blokujacy
    <3>2. raport'[a] = Last(stos) /\ pc'[a] = "parsuj"
      BY <1>6 DEF Zdejmij, TypeOK
    <3>3. \A b \in Adiutanci : b # a => raport'[b] = raport[b] /\ pc'[b] = pc[b]
      BY <1>6 DEF Zdejmij, TypeOK
    <3>. QED
      BY <1>6, <2>5, <3>1, <3>2, <3>3
      DEF Zdejmij, Lokalne, ZRaportem, ZSprawdzonym, ZOddzialem
  <2>3. Blokady'
    BY <1>6 DEF Zdejmij, TypeOK, Blokady, Blokujacy
  <2>4. PracaNieCzeka'
    BY <1>6 DEF Zdejmij, TypeOK, Blokady, PracaNieCzeka, Aktywny
  <2>. QED
    BY <2>1, <2>2, <2>3, <2>4
<1>7. ASSUME Parsuj(a), UNCHANGED <<pracujemy, serwer, cesarz>> PROVE IInv'
  <2>1. TypeOK'
    <3>1. raport[a] \in Wiadomosc
      BY <1>7 DEF Parsuj, Lokalne, ZRaportem
    <3>2. CASE Skoncz(a)
      BY <1>7, <3>1, <3>2 DEF Parsuj, Skoncz, TypeOK, Miejsca
    <3>3. CASE Idz(a, "rejestr") /\ UNCHANGED <<raport, id_oddzialu, obsluzone>>
      BY <1>7, <3>3 DEF Parsuj, TypeOK, Miejsca
    <3>. QED
      BY <1>7, <3>2, <3>3 DEF Parsuj
  <2>2. Lokalne'
    BY <1>7 DEF Parsuj, Skoncz, TypeOK, Lokalne, Miejsca, ZRaportem, ZSprawdzonym, ZOddzialem
  <2>3. Blokady'
    BY <1>7 DEF Parsuj, Skoncz, TypeOK, Blokady, Blokujacy
  <2>4. PracaNieCzeka'
    BY <1>7 DEF Parsuj, Skoncz, TypeOK, Blokady, PracaNieCzeka, Aktywny
  <2>. QED
    BY <2>1, <2>2, <2>3, <2>4
<1>8. ASSUME Rejestruj(a), UNCHANGED <<pracujemy, serwer, cesarz>> PROVE IInv'
  <2> DEFINE nazwa == raport[a].tekst.nazwa
  <2>5. raport[a] \in Wiadomosc /\ nazwa \in Nazwy
    BY <1>8, TekstyAssumption DEF Rejestruj, Lokalne, ZRaportem, Wiadomosc
  <2>6. IdNazwy(nazwa) \in SUBSET Id
    BY DEF IdNazwy, Id, TypeOK
  <2>7. \/ /\ \E i \in Id : id_oddzialu' = [id_oddzialu EXCEPT ![a] = i]
           /\ pc' = [pc EXCEPT ![a] = "zapisz"]
           /\ UNCHANGED <<raport, obsluzone>>
        \/ Skoncz(a)
    <3>1. liczba_oddzialow < DIVISION_NAMES_SIZE => liczba_oddzialow \in Id
      BY DEF TypeOK, Id
    <3>. QED
      BY <1>8, <2>6, <3>1 DEF Rejestruj
  <2>8. /\ nazwy_oddzialow' \in [Id -> Nazwy \cup {Nikt}]
        /\ liczba_oddzialow' \in 0..DIVISION_NAMES_SIZE
    <3>1. CASE UNCHANGED <<nazwy_oddzialow, liczba_oddzialow>>
      BY <3>1 DEF TypeOK
    <3>2. CASE /\ liczba_oddzialow < DIVISION_NAMES_SIZE
               /\ nazwy_oddzialow' = [nazwy_oddzialow EXCEPT ![liczba_oddzialow] = nazwa]
               /\ liczba_oddzialow' = liczba_oddzialow + 1
      <4>1. liczba_oddzialow' \in 0..DIVISION_NAMES_SIZE
        BY <3>2 DEF TypeOK
      <4>2. nazwy_oddzialow' \in [Id -> Nazwy \cup {Nikt}]
        BY <2>5, <3>2 DEF TypeOK
      <4>. QED
        BY <4>1, <4>2
    <3>. QED
      BY <1>8, <3>1, <3>2 DEF Rejestruj
  <2>1. TypeOK'
    <3>1. CASE Skoncz(a)
      BY <1>8, <2>5, <2>8, <3>1 DEF Rejestruj, Skoncz, TypeOK, Miejsca
    <3>2. CASE ~Skoncz(a)
      <4>0. PICK i \in Id : /\ id_oddzialu' = [id_oddzialu EXCEPT ![a] = i]
                            /\ pc' = [pc EXCEPT ![a] = "zapisz"]
                            /\ UNCHANGED <<raport, obsluzone>>
        BY <2>7, <3>2, Zenon
      <4>1. /\ id_oddzialu' \in [Adiutanci -> Id \cup {-1}]
            /\ pc' \in [Adiutanci -> Miejsca]
            /\ UNCHANGED <<raport, obsluzone>>
        BY <4>0 DEF TypeOK, Miejsca
      <4>. QED
        BY <1>8, <2>8, <4>1 DEF Rejestruj, TypeOK
    <3>. QED
      BY <3>1, <3>2
  <2>2. Lokalne'
    <3>1. CASE Skoncz(a)
      BY <1>8, <3>1
      DEF Rejestruj, Skoncz, TypeOK, Lokalne, ZRaportem, ZSprawdzonym, ZOddzialem
    <3>2. CASE ~Skoncz(a)
      BY <1>8, <2>7, <3>2
      DEF Rejestruj, TypeOK, Lokalne, ZRaportem, ZSprawdzonym, ZOddzialem
    <3>. QED
      BY <3>1, <3>2
  <2>3. Blokady'
    BY <1>8 DEF Rejestruj, Skoncz, TypeOK, Blokady, Blokujacy
  <2>4. PracaNieCzeka'
    BY <1>8 DEF Rejestruj, Skoncz, TypeOK, Blokady, PracaNieCzeka, Aktywny
  <2>. QED
    BY <2>1, <2>2, <2>3, <2>4
<1>9. ASSUME Zapisz(a), UNCHANGED <<pracujemy, serwer, cesarz>> PROVE IInv'
  <2>1. TypeOK'
    <3>1. /\ raport[a].nadawca \in Nadawcy
          /\ raport[a].tekst.p \in {0, 1}
      BY <1>9 DEF Zapisz, Lokalne, ZRaportem, ZSprawdzonym, Wiadomosc, Poprawny
    <3>2. przynaleznosc' \in [Id -> {-1, 0, 1}]
      BY <1>9, <3>1 DEF Zapisz, TypeOK
    <3>3. ostatni_nadawca' \in [Id -> Nadawcy \cup {Nikt}]
      BY <1>9, <3>1 DEF Zapisz, TypeOK
    <3>. QED
      BY <1>9, <3>2, <3>3 DEF Zapisz, TypeOK, Miejsca
  <2>2. Lokalne'
    BY <1>9 DEF Zapisz, TypeOK, Lokalne, Miejsca, ZRaportem, ZSprawdzonym, ZOddzialem
  <2>3. Blokady'
    BY <1>9 DEF Zapisz, TypeOK, Blokady, Blokujacy
  <2>4. PracaNieCzeka'
    BY <1>9 DEF Zapisz, TypeOK, Blokady, PracaNieCzeka, Aktywny
  <2>. QED
    BY <2>1, <2>2, <2>3, <2>4
<1>10. ASSUME CzyscWiersz(a), UNCHANGED <<pracujemy, serwer, cesarz>> PROVE IInv'
  <2>1. TypeOK'
    <3>1. wiersz[a] \in Wiersze /\ wiersz' \in [Adiutanci -> Wiersze]
      BY <1>10 DEF CzyscWiersz, TypeOK, Wiersze
    <3>2. [x \in Wiersze |-> IF mapa[wiersz[a]][x] = id_oddzialu[a] THEN -1
                              ELSE mapa[wiersz[a]][x]] \in [Wiersze -> Id \cup {-1}]
      BY <3>1 DEF TypeOK
    <3>3. mapa' \in [Wiersze -> [Wiersze -> Id \cup {-1}]]
      BY <1>10, <3>1, <3>2 DEF CzyscWiersz, TypeOK
    <3>. QED
      BY <1>10, <3>1, <3>3 DEF CzyscWiersz, TypeOK, Miejsca
  <2>2. Lokalne'
    BY <1>10 DEF CzyscWiersz, TypeOK, Lokalne, Miejsca, ZRaportem, ZSprawdzonym, ZOddzialem
  <2>3. Blokady'
    BY <1>10 DEF CzyscWiersz, TypeOK, Blokady, Blokujacy
  <2>4. PracaNieCzeka'
    BY <1>10 DEF CzyscWiersz, TypeOK, Blokady, PracaNieCzeka, Aktywny
  <2>. QED
    BY <2>1, <2>2, <2>3, <2>4
<1>11. ASSUME Ustaw(a), UNCHANGED <<pracujemy, serwer, cesarz>> PROVE IInv'
  <2>1. TypeOK'
    <3>1. raport[a] \in Wiadomosc /\ id_oddzialu[a] \in Id
      BY <1>11 DEF Ustaw, Lokalne, ZRaportem, ZOddzialem
    <3>2. raport[a].tekst.x \in Wiersze /\ raport[a].tekst.y \in Wiersze
      BY <1>11 DEF Ustaw, Lokalne, ZSprawdzonym, Poprawny
    <3>3. mapa' \in [Wiersze -> [Wiersze -> Id \cup {-1}]]
      BY <1>11, <3>1, <3>2 DEF Ustaw, TypeOK
    <3>. QED
      BY <1>11, <3>1, <3>3 DEF Ustaw, Skoncz, TypeOK, Miejsca
  <2>2. Lokalne'
    BY <1>11 DEF Ustaw, Skoncz, TypeOK, Lokalne, Miejsca, ZRaportem, ZSprawdzonym, ZOddzialem
  <2>3. Blokady'
    BY <1>11 DEF Ustaw, Skoncz, TypeOK, Blokady, Blokujacy
  <2>4. PracaNieCzeka'
    BY <1>11 DEF Ustaw, Skoncz, TypeOK, Blokady, PracaNieCzeka, Aktywny
  <2>. QED
    BY <2>1, <2>2, <2>3, <2>4
<1>12. ASSUME FalszywePrzebudzenie(a), UNCHANGED <<pracujemy, serwer, cesarz>> PROVE IInv'
  <2>1. TypeOK'
    BY <1>12 DEF FalszywePrzebudzenie, TypeOK, Miejsca
  <2>2. Lokalne'
    BY <1>12 DEF FalszywePrzebudzenie, TypeOK, Lokalne, Miejsca, ZRaportem, ZSprawdzonym, ZOddzialem
  <2>3. Blokady'
    BY <1>12 DEF FalszywePrzebudzenie, TypeOK, Blokady, Blokujacy
  <2>4. PracaNieCzeka'
    BY <1>12 DEF FalszywePrzebudzenie, TypeOK, Blokady, PracaNieCzeka, Aktywny
  <2>. QED
    BY <2>1, <2>2, <2>3, <2>4
<1>. QED
  BY <1>1, <1>2, <1>3, <1>4, <1>5, <1>6, <1>7, <1>8, <1>9, <1>10, <1>11, <1>12

-----------------------------------------------------------------------------
(* Steps of main: the loop of serwer_work and the closing of the server. *)
LEMMA SerwerLemma ==
  ASSUME IInv, Siec \/ KrokSerwera
  PROVE  IInv'
<1> DEFINE Reszta == UNCHANGED <<pracujemy, rejestr, mapa, pc, lokalne, obsluzone, cesarz>>
<1> USE StaleAssumption, NiktAssumption
    DEF IInv, kolejka, rejestr, lokalne, serwer, cesarz
<1>1. ASSUME SprawdzPrace, Reszta PROVE IInv'
  <2>1. TypeOK'
    BY <1>1 DEF SprawdzPrace, TypeOK
  <2>2. Lokalne'
    BY <1>1 DEF SprawdzPrace, TypeOK, Lokalne
  <2>3. Blokady'
    BY <1>1 DEF SprawdzPrace, TypeOK, Blokady
  <2>4. PracaNieCzeka'
    BY <1>1 DEF SprawdzPrace, TypeOK, Blokady, PracaNieCzeka, Aktywny
  <2>. QED
    BY <2>1, <2>2, <2>3, <2>4
<1>2. ASSUME WejdzDoRecvfrom, Reszta PROVE IInv'
  <2>1. TypeOK'
    BY <1>2 DEF WejdzDoRecvfrom, TypeOK
  <2>2. Lokalne'
    BY <1>2 DEF WejdzDoRecvfrom, TypeOK, Lokalne
  <2>3. Blokady'
    BY <1>2 DEF WejdzDoRecvfrom, TypeOK, Blokady
  <2>4. PracaNieCzeka'
    BY <1>2 DEF WejdzDoRecvfrom, TypeOK, Blokady, PracaNieCzeka, Aktywny
  <2>. QED
    BY <2>1, <2>2, <2>3, <2>4
<1>3. ASSUME Alarm, Reszta PROVE IInv'
  <2>1. TypeOK'
    BY <1>3 DEF Alarm, TypeOK
  <2>2. Lokalne'
    BY <1>3 DEF Alarm, TypeOK, Lokalne
  <2>3. Blokady'
    BY <1>3 DEF Alarm, TypeOK, Blokady
  <2>4. PracaNieCzeka'
    BY <1>3 DEF Alarm, TypeOK, Blokady, PracaNieCzeka, Aktywny
  <2>. QED
    BY <2>1, <2>2, <2>3, <2>4
<1>4. ASSUME Zamknij, Reszta PROVE IInv'
  <2>1. TypeOK'
    BY <1>4 DEF Zamknij, TypeOK
  <2>2. Lokalne'
    BY <1>4 DEF Zamknij, TypeOK, Lokalne
  <2>3. Blokady'
    BY <1>4 DEF Zamknij, TypeOK, Blokady
  <2>4. PracaNieCzeka'
    BY <1>4 DEF Zamknij, TypeOK, Blokady, PracaNieCzeka, Aktywny
  <2>. QED
    BY <2>1, <2>2, <2>3, <2>4
<1>5. ASSUME NEW t \in Teksty, NEW n \in Nadawcy, Odbierz(t, n), Reszta PROVE IInv'
  <2>5. odebrany' \in Wiadomosc
    BY <1>5 DEF Odbierz, TypeOK, Wiadomosc
  <2>1. TypeOK'
    BY <1>5, <2>5 DEF Odbierz, TypeOK
  <2>2. Lokalne'
    BY <1>5, <2>5 DEF Odbierz, TypeOK, Lokalne
  <2>3. Blokady'
    BY <1>5, <2>5 DEF Odbierz, TypeOK, Blokady
  <2>4. PracaNieCzeka'
    BY <1>5, <2>5 DEF Odbierz, TypeOK, Blokady, PracaNieCzeka, Aktywny
  <2>. QED
    BY <2>1, <2>2, <2>3, <2>4
<1>6. ASSUME Wrzuc, Reszta PROVE IInv'
  <2>0. odebrany \in Wiadomosc /\ stos \in Seq(Wiadomosc)
    BY <1>6 DEF Wrzuc, TypeOK, Lokalne
  <2>7. odebrany.nr \in 1..MaxMeldunkow
    BY <2>0 DEF Wiadomosc
  <2>5. /\ Append(stos, odebrany) \in Seq(Wiadomosc)
        /\ Len(Append(stos, odebrany)) = Len(stos) + 1
        /\ Append(stos, odebrany) # <<>>
        /\ Len(stos) \in Nat
    BY <2>0, StosLemma
  <2>6. cond' \in SUBSET cond
    BY <1>6 DEF Wrzuc, Sygnal
  <2>1. TypeOK'
    <3>1. stos' \in Seq(Wiadomosc) /\ Len(stos') <= STACK_SIZE
      <4>1. CASE stos' = stos
        BY <4>1 DEF TypeOK
      <4>2. CASE Len(stos) < STACK_SIZE /\ stos' = Append(stos, odebrany)
        BY <2>5, <4>2
      <4>. QED
        BY <1>6, <4>1, <4>2 DEF Wrzuc
    <3>2. przepadle' \in SUBSET (1..MaxMeldunkow)
      BY <1>6, <2>7 DEF Wrzuc, TypeOK
    <3>. QED
      BY <1>6, <2>6, <3>1, <3>2 DEF Wrzuc, TypeOK
  <2>2. Lokalne'
    BY <1>6, <2>5 DEF Wrzuc, Lokalne
  <2>3. Blokady'
    BY <1>6, <2>6 DEF Wrzuc, TypeOK, Blokady, Blokujacy
  <2>4. PracaNieCzeka'
    <3>1. CASE cond' = cond /\ cond # {}
      BY <1>6, <3>1 DEF Wrzuc, Sygnal, PracaNieCzeka, Aktywny
    <3>2. CASE \E a \in cond : cond' = cond \ {a}
      BY <1>6, <3>2 DEF Wrzuc, TypeOK, Blokady, PracaNieCzeka, Aktywny
    <3>3. CASE cond = {} /\ cond' = {}
      BY <1>6, <3>3 DEF Wrzuc, PracaNieCzeka, Aktywny
    <3>. QED
      BY <1>6, <3>1, <3>2, <3>3 DEF Wrzuc, Sygnal
  <2>. QED
    BY <2>1, <2>2, <2>3, <2>4
<1>. QED
  BY <1>1, <1>2, <1>3, <1>4, <1>5, <1>6 DEF Siec, KrokSerwera

(* Steps of napoleon_work, and the SIGINT handler. *)
LEMMA NapoleonLemma ==
  ASSUME IInv, KrokNapoleona \/ sigint_handler
  PROVE  IInv'
<1> USE StaleAssumption, NiktAssumption
    DEF IInv, kolejka, rejestr, lokalne, serwer, cesarz
<1>1. CASE sigint_handler
  BY <1>1 DEF sigint_handler, TypeOK, Lokalne, Blokady, PracaNieCzeka, Aktywny
<1>2. CASE KrokNapoleona
  <2>1. TypeOK'
    <3>1. CASE SprawdzPraceNapoleona
      BY <1>2, <3>1 DEF KrokNapoleona, SprawdzPraceNapoleona, TypeOK
    <3>2. CASE drukuj_mape
      BY <1>2, <3>2 DEF KrokNapoleona, drukuj_mape, TypeOK
    <3>3. CASE losowy_sojusznik
      <4>1. Kandydaci \in SUBSET Id
        BY DEF Kandydaci, Id, TypeOK
      <4>. QED
        BY <1>2, <3>3, <4>1 DEF KrokNapoleona, losowy_sojusznik, TypeOK
    <3>4. CASE WyslijRozkaz
      BY <1>2, <3>4 DEF KrokNapoleona, WyslijRozkaz, TypeOK
    <3>. QED
      BY <1>2, <3>1, <3>2, <3>3, <3>4 DEF KrokNapoleona
  <2>2. Lokalne'
    BY <1>2 DEF KrokNapoleona, Lokalne
  <2>3. Blokady' /\ PracaNieCzeka'
    BY <1>2 DEF KrokNapoleona, Blokady, PracaNieCzeka, Aktywny
  <2>. QED
    BY <2>1, <2>2, <2>3
<1>. QED
  BY <1>1, <1>2

-----------------------------------------------------------------------------
(* The invariant is inductive. *)
THEOREM Inductive == Spec => []IInv
<1>1. IInv /\ [Next]_vars => IInv'
  <2> SUFFICES ASSUME IInv, [Next]_vars PROVE IInv'
    OBVIOUS
  <2>1. CASE UNCHANGED vars
    BY <2>1 DEF vars, kolejka, rejestr, lokalne, serwer, cesarz, IInv, TypeOK, Lokalne,
                Blokady, PracaNieCzeka, Aktywny
  <2>. QED
    BY <2>1, AdiutantLemma, SerwerLemma, NapoleonLemma DEF Next
<1>. QED
  BY <1>1, InitIInv, PTL DEF Spec

(* Every state is well typed: top stays within stos, every id and every row
   that indexes a table is within that table, a report of which a field is
   read has been received, whatever the interleaving. *)
THEOREM TypeCorrect == Spec => []TypeOK
<1>1. IInv => TypeOK
  BY DEF IInv
<1>. QED
  BY <1>1, Inductive, PTL

(* No report waits on the stack while every adjutant still in the server is
   asleep: the hand-over through the mutex and the condition variable loses no
   wake-up for a report, for any number of adjutants and any size of stack. *)
THEOREM NoReportStranded == Spec => []PracaNieCzeka
<1>1. IInv => PracaNieCzeka
  BY DEF IInv
<1>. QED
  BY <1>1, Inductive, PTL
-----------------------------------------------------------------------------
(* The numbers of the reports in each place. *)
NrGlownego == IF odebrany = Nikt THEN {} ELSE {odebrany.nr}
NrNaStosie == {stos[k].nr : k \in DOMAIN stos}
NrWRekach == {raport[a].nr : a \in WRekach}
NrObsluzone == {m.nr : m \in obsluzone}

(* Main holds a report exactly when it is about to push it, and it is the
   newest one; an adjutant holds one exactly while it works on it. *)
KtoTrzyma ==
  /\ odebrany # Nikt <=> glowny = "wrzuc"
  /\ odebrany # Nikt => odebrany.nr = odebrane
  /\ \A a \in Adiutanci : raport[a] # Nikt <=> pc[a] \in ZRaportem

(* Nothing received is missing, and nothing else is anywhere. *)
Wszystkie ==
  1..odebrane = NrGlownego \cup NrNaStosie \cup NrWRekach \cup NrObsluzone \cup przepadle

(* No number is in two places, or twice in one. *)
Rozlaczne ==
  /\ NrGlownego \cap (NrNaStosie \cup NrWRekach \cup NrObsluzone \cup przepadle) = {}
  /\ NrNaStosie \cap (NrWRekach \cup NrObsluzone \cup przepadle) = {}
  /\ NrWRekach \cap (NrObsluzone \cup przepadle) = {}
  /\ NrObsluzone \cap przepadle = {}

Jednokrotne ==
  /\ \A k, l \in DOMAIN stos : stos[k].nr = stos[l].nr => k = l
  /\ \A a, b \in WRekach : raport[a].nr = raport[b].nr => a = b
  /\ \A m, n \in obsluzone : m.nr = n.nr => m = n

(* Once the last adjutant has left, main can push one more report only, and
   receives nothing after that. *)
PoWyjsciu ==
  (\A a \in Adiutanci : pc[a] = "koniec") =>
    /\ pracujemy = 0
    /\ \/ stos = <<>>
       \/ /\ \A k \in DOMAIN stos : stos[k].nr = odebrane
          /\ glowny \in {"petla", "alarm", "join", "zamkniete"}

Zamkniety == glowny = "zamkniete" => \A a \in Adiutanci : pc[a] = "koniec"

(* The inductive invariant of the reports. *)
DInv == KtoTrzyma /\ Wszystkie /\ Rozlaczne /\ Jednokrotne /\ PoWyjsciu /\ Zamkniety

-----------------------------------------------------------------------------
(* The entries of the stack after a push and after a pop. *)
LEMMA WpisyLemma ==
  ASSUME NEW s \in Seq(Wiadomosc)
  PROVE  /\ Len(s) \in Nat /\ DOMAIN s = 1..Len(s)
         /\ \A k \in DOMAIN s : s[k] \in Wiadomosc
         /\ \A m \in Wiadomosc :
              /\ DOMAIN Append(s, m) = DOMAIN s \cup {Len(s) + 1}
              /\ Append(s, m)[Len(s) + 1] = m
              /\ \A k \in DOMAIN s : Append(s, m)[k] = s[k]
         /\ s # <<>> =>
              /\ Len(s) \in DOMAIN s
              /\ Last(s) = s[Len(s)]
              /\ DOMAIN Front(s) = DOMAIN s \ {Len(s)}
              /\ \A k \in DOMAIN s \ {Len(s)} : Front(s)[k] = s[k]
<1>1. Len(s) \in Nat /\ DOMAIN s = 1..Len(s) /\ \A k \in DOMAIN s : s[k] \in Wiadomosc
  OBVIOUS
<1>2. ASSUME NEW m \in Wiadomosc
      PROVE  /\ DOMAIN Append(s, m) = DOMAIN s \cup {Len(s) + 1}
             /\ Append(s, m)[Len(s) + 1] = m
             /\ \A k \in DOMAIN s : Append(s, m)[k] = s[k]
  <2>1. /\ Append(s, m) \in Seq(Wiadomosc)
        /\ Len(Append(s, m)) = Len(s) + 1
        /\ \A k \in 1..Len(s) : Append(s, m)[k] = s[k]
        /\ Append(s, m)[Len(s) + 1] = m
    BY AppendProperties
  <2>2. DOMAIN Append(s, m) = 1..(Len(s) + 1)
    BY <2>1
  <2>3. 1..(Len(s) + 1) = 1..Len(s) \cup {Len(s) + 1}
    BY <1>1
  <2>. QED
    BY <1>1, <2>1, <2>2, <2>3
<1>3. ASSUME s # <<>>
      PROVE  /\ Len(s) \in DOMAIN s
             /\ Last(s) = s[Len(s)]
             /\ DOMAIN Front(s) = DOMAIN s \ {Len(s)}
             /\ \A k \in DOMAIN s \ {Len(s)} : Front(s)[k] = s[k]
  <2>1. Len(s) \in Nat \ {0}
    BY <1>1, <1>3, EmptySeq
  <2>2. Front(s) \in Seq(Wiadomosc) /\ Len(Front(s)) = Len(s) - 1
    BY <1>3, StosLemma
  <2>3. DOMAIN Front(s) = 1..(Len(s) - 1)
    BY <2>2
  <2>4. 1..(Len(s) - 1) = 1..Len(s) \ {Len(s)}
    BY <2>1
  <2>5. \A k \in 1..(Len(s) - 1) : Front(s)[k] = s[k]
    BY <2>1 DEF Front
  <2>. QED
    BY <1>1, <2>1, <2>3, <2>4, <2>5 DEF Last
<1>. QED
  BY <1>1, <1>2, <1>3

(* What the way of a report does not depend on. *)
drogi == <<stos, raport, odebrany, odebrane, obsluzone, przepadle>>

Rozdzial == Wszystkie /\ Rozlaczne /\ Jednokrotne

(* Every step moves one report, or none. *)
LEMMA RuchyLemma ==
  ASSUME [Next]_vars
  PROVE  \/ UNCHANGED drogi
         \/ \E t \in Teksty, n \in Nadawcy :
              Odbierz(t, n) /\ UNCHANGED <<pracujemy, pc, raport, obsluzone>>
         \/ Wrzuc /\ UNCHANGED <<pracujemy, pc, raport, obsluzone>>
         \/ \E a \in Adiutanci :
              \/ Zdejmij(a) /\ UNCHANGED <<pracujemy, serwer>>
              \/ /\ Skoncz(a) /\ pc[a] \in ZRaportem
                 /\ UNCHANGED <<stos, pracujemy, serwer>>
<1> USE DEF drogi, kolejka, lokalne, serwer
<1>1. CASE UNCHANGED vars
  BY <1>1 DEF vars
<1>2. CASE sigint_handler
  BY <1>2 DEF sigint_handler
<1>3. CASE Siec
  BY <1>3 DEF Siec
<1>4. CASE KrokSerwera
  BY <1>4 DEF KrokSerwera, SprawdzPrace, WejdzDoRecvfrom, Alarm, Zamknij
<1>5. ASSUME NEW a \in Adiutanci, KrokAdiutanta(a) \/ Przebudzenie(a)
      PROVE  \/ UNCHANGED drogi
             \/ Zdejmij(a) /\ UNCHANGED <<pracujemy, serwer>>
             \/ /\ Skoncz(a) /\ pc[a] \in ZRaportem
                /\ UNCHANGED <<stos, pracujemy, serwer>>
  <2>1. UNCHANGED <<pracujemy, serwer>>
    BY <1>5 DEF KrokAdiutanta, Przebudzenie
  <2>2. CASE Zablokuj(a) \/ SprawdzWarunek(a) \/ Zasnij(a) \/ ObudzSie(a) \/ Wyjdz(a)
               \/ FalszywePrzebudzenie(a) \/ Zapisz(a) \/ CzyscWiersz(a)
    BY <2>1, <2>2 DEF Zablokuj, SprawdzWarunek, Zasnij, ObudzSie, Wyjdz,
                      FalszywePrzebudzenie, Zapisz, CzyscWiersz, PozaStosem
  <2>3. CASE Parsuj(a)
    BY <2>1, <2>3 DEF Parsuj, ZRaportem
  <2>4. CASE Rejestruj(a)
    BY <2>1, <2>4 DEF Rejestruj, ZRaportem
  <2>5. CASE Ustaw(a)
    BY <2>1, <2>5 DEF Ustaw, ZRaportem
  <2>. QED
    BY <1>5, <2>1, <2>2, <2>3, <2>4, <2>5 DEF KrokAdiutanta, Przebudzenie
<1>6. CASE KrokNapoleona
  BY <1>6 DEF KrokNapoleona
<1>. QED
  BY <1>1, <1>2, <1>3, <1>4, <1>5, <1>6 DEF Next

-----------------------------------------------------------------------------
(* recvfrom gives the next number to the report main now holds. *)
LEMMA OdbierzRozdzial ==
  ASSUME IInv, IInv', KtoTrzyma, Rozdzial, NEW t \in Teksty, NEW n \in Nadawcy,
         Odbierz(t, n), UNCHANGED <<raport, obsluzone>>
  PROVE  Rozdzial'
<1> USE DEF IInv
<1>1. NrGlownego = {}
  BY DEF Odbierz, KtoTrzyma, NrGlownego
<1>2. NrGlownego' = {odebrane + 1}
  BY NiktAssumption DEF Odbierz, NrGlownego, Lokalne
<1>3. UNCHANGED <<NrNaStosie, NrWRekach, NrObsluzone, przepadle, WRekach, stos>>
  BY DEF Odbierz, NrNaStosie, NrWRekach, NrObsluzone, WRekach, kolejka
<1>4. 1..odebrane' = 1..odebrane \cup {odebrane + 1} /\ odebrane + 1 \notin 1..odebrane
  BY DEF Odbierz, TypeOK
<1>5. Wszystkie' /\ Rozlaczne'
  BY <1>1, <1>2, <1>3, <1>4 DEF Rozdzial, Wszystkie, Rozlaczne
<1>6. Jednokrotne'
  BY <1>3 DEF Rozdzial, Jednokrotne
<1>. QED
  BY <1>5, <1>6 DEF Rozdzial

(* A push moves the report of main onto the stack, or drops it. *)
LEMMA WrzucRozdzial ==
  ASSUME IInv, KtoTrzyma, Rozdzial, Wrzuc, UNCHANGED <<raport, obsluzone>>
  PROVE  Rozdzial'
<1> USE DEF IInv
<1>1. odebrany \in Wiadomosc /\ NrGlownego = {odebrany.nr} /\ NrGlownego' = {}
  BY NiktAssumption DEF Wrzuc, Lokalne, NrGlownego
<1>2. UNCHANGED <<NrWRekach, NrObsluzone, WRekach, odebrane>>
  BY DEF Wrzuc, NrWRekach, NrObsluzone, WRekach
<1>3. CASE przepadle' = przepadle \cup {odebrany.nr} /\ stos' = stos
  <2>1. NrNaStosie' = NrNaStosie
    BY <1>3 DEF NrNaStosie
  <2>2. Wszystkie' /\ Rozlaczne'
    BY <1>1, <1>2, <1>3, <2>1 DEF Rozdzial, Wszystkie, Rozlaczne
  <2>3. Jednokrotne'
    BY <1>2, <1>3 DEF Rozdzial, Jednokrotne
  <2>. QED
    BY <2>2, <2>3 DEF Rozdzial
<1>4. CASE stos' = Append(stos, odebrany) /\ przepadle' = przepadle
  <2>1. /\ Len(stos) \in Nat /\ Len(stos) + 1 \notin DOMAIN stos
        /\ DOMAIN stos' = DOMAIN stos \cup {Len(stos) + 1}
        /\ stos'[Len(stos) + 1] = odebrany
        /\ \A k \in DOMAIN stos : stos'[k] = stos[k]
    <3>1. Len(stos) \in Nat /\ Len(stos) + 1 \notin DOMAIN stos
      BY WpisyLemma DEF TypeOK
    <3>. QED
      BY <1>1, <1>4, <3>1, WpisyLemma DEF TypeOK
  <2>2. NrNaStosie' = NrNaStosie \cup {odebrany.nr}
    BY <2>1 DEF NrNaStosie
  <2>3. Wszystkie' /\ Rozlaczne'
    BY <1>1, <1>2, <1>4, <2>2 DEF Rozdzial, Wszystkie, Rozlaczne
  <2>4. \A k \in DOMAIN stos : stos[k].nr # odebrany.nr
    BY <1>1 DEF Rozdzial, Rozlaczne, NrNaStosie
  <2>5. \A k, l \in DOMAIN stos' : stos'[k].nr = stos'[l].nr => k = l
    BY <2>1, <2>4 DEF Rozdzial, Jednokrotne
  <2>6. Jednokrotne'
    BY <1>2, <2>5 DEF Rozdzial, Jednokrotne
  <2>. QED
    BY <2>3, <2>6 DEF Rozdzial
<1>. QED
  BY <1>3, <1>4 DEF Wrzuc

(* A pop moves the newest report of the stack into the hands of the adjutant. *)
LEMMA ZdejmijRozdzial ==
  ASSUME IInv, KtoTrzyma, Rozdzial, NEW a \in Adiutanci, Zdejmij(a),
         UNCHANGED <<pracujemy, serwer>>
  PROVE  Rozdzial'
<1> USE DEF IInv
<1> DEFINE n == Len(stos)
           m == stos[n]
<1>1. stos # <<>> /\ raport[a] = Nikt
  BY DEF Zdejmij, Lokalne, KtoTrzyma, ZRaportem
<1>2. /\ n \in DOMAIN stos /\ m \in Wiadomosc
      /\ DOMAIN stos' = DOMAIN stos \ {n}
      /\ \A k \in DOMAIN stos' : stos'[k] = stos[k]
      /\ raport' = [raport EXCEPT ![a] = m]
  BY <1>1, WpisyLemma DEF Zdejmij, TypeOK
<1> HIDE DEF n, m
<1>3. /\ WRekach' = WRekach \cup {a} /\ a \notin WRekach
      /\ raport'[a] = m /\ \A b \in WRekach : raport'[b] = raport[b]
  BY <1>1, <1>2, NiktAssumption DEF WRekach, TypeOK
<1>4. NrNaStosie' = NrNaStosie \ {m.nr} /\ m.nr \in NrNaStosie
  <2>1. \A k \in DOMAIN stos : k # n => stos[k].nr # m.nr
    BY <1>2 DEF Rozdzial, Jednokrotne, m
  <2>. QED
    BY <1>2, <2>1 DEF NrNaStosie, m
<1>5. NrWRekach' = NrWRekach \cup {m.nr}
  BY <1>3 DEF NrWRekach
<1>6. UNCHANGED <<NrGlownego, NrObsluzone, przepadle, odebrane, obsluzone>>
  BY DEF Zdejmij, NrGlownego, NrObsluzone, serwer
<1>7. Wszystkie' /\ Rozlaczne'
  BY <1>4, <1>5, <1>6 DEF Rozdzial, Wszystkie, Rozlaczne
<1>8. \A k, l \in DOMAIN stos' : stos'[k].nr = stos'[l].nr => k = l
  BY <1>2 DEF Rozdzial, Jednokrotne
<1>9. \A b, c \in WRekach' : raport'[b].nr = raport'[c].nr => b = c
  <2>1. \A b \in WRekach : raport[b].nr # m.nr
    BY <1>4 DEF Rozdzial, Rozlaczne, NrWRekach
  <2>. QED
    BY <1>3, <2>1 DEF Rozdzial, Jednokrotne
<1>10. Jednokrotne'
  BY <1>6, <1>8, <1>9 DEF Rozdzial, Jednokrotne
<1>. QED
  BY <1>7, <1>10 DEF Rozdzial

(* An adjutant that is done moves its report to the handled ones. *)
LEMMA SkonczRozdzial ==
  ASSUME IInv, KtoTrzyma, Rozdzial, NEW a \in Adiutanci, Skoncz(a), pc[a] \in ZRaportem,
         UNCHANGED <<stos, pracujemy, serwer>>
  PROVE  Rozdzial'
<1> USE DEF IInv
<1> DEFINE m == raport[a]
<1>1. m \in Wiadomosc /\ a \in WRekach
  BY NiktAssumption DEF Lokalne, WRekach
<1>2. /\ WRekach' = WRekach \ {a}
      /\ \A b \in WRekach' : raport'[b] = raport[b]
      /\ obsluzone' = obsluzone \cup {m}
  BY DEF Skoncz, WRekach, TypeOK
<1>3. NrWRekach' = NrWRekach \ {m.nr} /\ m.nr \in NrWRekach
  <2>1. \A b \in WRekach : b # a => raport[b].nr # m.nr
    BY <1>1 DEF Rozdzial, Jednokrotne
  <2>. QED
    BY <1>1, <1>2, <2>1 DEF NrWRekach
<1>4. NrObsluzone' = NrObsluzone \cup {m.nr}
  BY <1>2 DEF NrObsluzone
<1> HIDE DEF m
<1>5. UNCHANGED <<NrGlownego, NrNaStosie, przepadle, odebrane>>
  BY DEF NrGlownego, NrNaStosie, serwer
<1>6. Wszystkie' /\ Rozlaczne'
  BY <1>3, <1>4, <1>5 DEF Rozdzial, Wszystkie, Rozlaczne
<1>7. \A b, c \in WRekach' : raport'[b].nr = raport'[c].nr => b = c
  BY <1>2 DEF Rozdzial, Jednokrotne
<1>8. \A k, l \in obsluzone' : k.nr = l.nr => k = l
  <2>1. \A k \in obsluzone : k.nr # m.nr
    BY <1>3 DEF Rozdzial, Rozlaczne, NrObsluzone
  <2>. QED
    BY <1>2, <2>1 DEF Rozdzial, Jednokrotne
<1>9. Jednokrotne'
  BY <1>7, <1>8 DEF Rozdzial, Jednokrotne
<1>. QED
  BY <1>6, <1>9 DEF Rozdzial

(* Every step keeps each report in one place. *)
LEMMA RozdzialLemma ==
  ASSUME IInv, IInv', KtoTrzyma, Rozdzial, [Next]_vars
  PROVE  Rozdzial'
<1>1. CASE UNCHANGED drogi
  <2>1. UNCHANGED <<NrGlownego, NrNaStosie, NrWRekach, NrObsluzone, WRekach>>
    BY <1>1 DEF drogi, WRekach, NrGlownego, NrNaStosie, NrWRekach, NrObsluzone
  <2>. QED
    BY <1>1, <2>1 DEF drogi, Rozdzial, Wszystkie, Rozlaczne, Jednokrotne
<1>. QED
  BY <1>1, RuchyLemma, OdbierzRozdzial, WrzucRozdzial, ZdejmijRozdzial, SkonczRozdzial

(* Who holds a report, step by step. *)
LEMMA TrzymaLemma ==
  ASSUME IInv, IInv', KtoTrzyma, [Next]_vars
  PROVE  KtoTrzyma'
<1> DEFINE Glowny == /\ odebrany # Nikt <=> glowny = "wrzuc"
                     /\ odebrany # Nikt => odebrany.nr = odebrane
           Reka(a) == raport[a] # Nikt <=> pc[a] \in ZRaportem
<1> USE NiktAssumption DEF IInv, KtoTrzyma, kolejka, lokalne, serwer
<1>1. CASE UNCHANGED vars
  BY <1>1 DEF vars
<1>2. CASE sigint_handler
  BY <1>2 DEF sigint_handler
<1>3. CASE Siec
  <2>1. PICK t \in Teksty, n \in Nadawcy : Odbierz(t, n)
    BY <1>3 DEF Siec
  <2>2. Glowny'
    BY <2>1 DEF Odbierz, Lokalne
  <2>. QED
    BY <1>3, <2>2 DEF Siec
<1>4. CASE KrokSerwera
  <2>1. Glowny'
    BY <1>4 DEF KrokSerwera, SprawdzPrace, WejdzDoRecvfrom, Wrzuc, Alarm, Zamknij
  <2>. QED
    BY <1>4, <2>1 DEF KrokSerwera
<1>5. ASSUME NEW a \in Adiutanci, KrokAdiutanta(a) \/ Przebudzenie(a) PROVE KtoTrzyma'
  <2>1. Glowny'
    BY <1>5 DEF KrokAdiutanta, Przebudzenie
  <2>2. \A b \in Adiutanci : Reka(b)'
    <3>1. CASE Zablokuj(a) \/ Zasnij(a) \/ ObudzSie(a) \/ Wyjdz(a)
      <4>1. raport' = raport /\ pc[a] \notin ZRaportem
        BY <3>1 DEF Zablokuj, Zasnij, ObudzSie, Wyjdz, PozaStosem, ZRaportem
      <4>2. pc'[a] \notin ZRaportem /\ \A b \in Adiutanci \ {a} : pc'[b] = pc[b]
        BY <3>1 DEF Zablokuj, Zasnij, ObudzSie, Wyjdz, Idz, TypeOK, ZRaportem
      <4>. QED
        BY <4>1, <4>2
    <3>9. CASE FalszywePrzebudzenie(a) \/ Zapisz(a)
      BY <3>9 DEF FalszywePrzebudzenie, Zapisz, PozaStosem, Idz, TypeOK, ZRaportem
    <3>2. CASE SprawdzWarunek(a)
      BY <3>2 DEF SprawdzWarunek, PozaStosem, Idz, TypeOK, ZRaportem
    <3>3. CASE CzyscWiersz(a)
      BY <3>3 DEF CzyscWiersz, Idz, TypeOK, ZRaportem
    <3>4. CASE Zdejmij(a)
      <4>1. Last(stos) \in Wiadomosc
        BY <3>4, StosLemma DEF Zdejmij, TypeOK, Lokalne
      <4>. QED
        BY <3>4, <4>1 DEF Zdejmij, Idz, TypeOK, ZRaportem
    <3>5. CASE Skoncz(a)
      BY <3>5 DEF Skoncz, Idz, TypeOK, ZRaportem
    <3>6. CASE Parsuj(a)
      BY <3>5, <3>6 DEF Parsuj, Idz, TypeOK, ZRaportem
    <3>7. CASE Rejestruj(a)
      <4>1. CASE Idz(a, "zapisz") /\ UNCHANGED raport
        BY <3>7, <4>1 DEF Rejestruj, Idz, TypeOK, ZRaportem
      <4>. QED
        BY <3>5, <3>7, <4>1 DEF Rejestruj
    <3>8. CASE Ustaw(a)
      BY <3>5, <3>8 DEF Ustaw
    <3>. QED
      BY <1>5, <3>1, <3>2, <3>3, <3>4, <3>6, <3>7, <3>8, <3>9
      DEF KrokAdiutanta, Przebudzenie
  <2>. QED
    BY <2>1, <2>2
<1>6. CASE KrokNapoleona
  BY <1>6 DEF KrokNapoleona
<1>. QED
  BY <1>1, <1>2, <1>3, <1>4, <1>5, <1>6 DEF Next

(* After the last adjutant has left: the server receives at most the datagram
   it was already waiting for, pushes it and goes on to close. *)
LEMMA WyjscieLemma ==
  ASSUME IInv, IInv', KtoTrzyma, PoWyjsciu, Zamkniety, [Next]_vars
  PROVE  PoWyjsciu' /\ Zamkniety'
<1> USE AdiutanciAssumption DEF IInv, PoWyjsciu, Zamkniety, kolejka, lokalne, serwer
<1>1. CASE UNCHANGED vars
  BY <1>1 DEF vars
<1>2. CASE sigint_handler
  BY <1>2 DEF sigint_handler, TypeOK
<1>3. CASE Siec
  <2>1. PICK t \in Teksty, n \in Nadawcy : Odbierz(t, n)
    BY <1>3 DEF Siec
  <2>. QED
    BY <1>3, <2>1 DEF Siec, Odbierz
<1>4. CASE KrokSerwera
  <2>0. UNCHANGED <<pc, pracujemy>>
    BY <1>4 DEF KrokSerwera
  <2>1. CASE Wrzuc
    <3> SUFFICES ASSUME \A a \in Adiutanci : pc[a] = "koniec" PROVE PoWyjsciu'
      BY <2>0, <2>1 DEF Wrzuc
    <3>1. pracujemy = 0 /\ stos = <<>>
      BY <2>1 DEF Wrzuc
    <3>2. odebrany \in Wiadomosc /\ odebrany.nr = odebrane
      BY <2>1, NiktAssumption DEF Wrzuc, KtoTrzyma, Lokalne
    <3>3. CASE stos' = stos
      BY <2>0, <3>1, <3>3
    <3>4. CASE stos' = Append(stos, odebrany)
      <4>1. DOMAIN stos' = {1} /\ stos'[1] = odebrany
        BY <3>1, <3>2, <3>4
      <4>. QED
        BY <2>0, <2>1, <3>1, <3>2, <4>1 DEF Wrzuc
    <3>. QED
      BY <2>1, <3>3, <3>4 DEF Wrzuc
  <2>2. CASE SprawdzPrace \/ WejdzDoRecvfrom \/ Alarm \/ Zamknij
    BY <2>0, <2>2 DEF SprawdzPrace, WejdzDoRecvfrom, Alarm, Zamknij
  <2>. QED
    BY <1>4, <2>1, <2>2 DEF KrokSerwera
<1>5. ASSUME NEW a \in Adiutanci, KrokAdiutanta(a) \/ Przebudzenie(a)
      PROVE  PoWyjsciu' /\ Zamkniety'
  <2>0. UNCHANGED <<pracujemy, glowny, odebrane>>
    BY <1>5 DEF KrokAdiutanta, Przebudzenie
  <2>1. CASE Wyjdz(a)
    <3>1. pc[a] # "koniec" /\ pracujemy = 0 /\ stos' = <<>>
      BY <2>1 DEF Wyjdz
    <3>. QED
      BY <2>0, <3>1
  <2>2. CASE FalszywePrzebudzenie(a)
    BY <2>0, <2>2 DEF FalszywePrzebudzenie
  <2>3. CASE ~Wyjdz(a) /\ ~FalszywePrzebudzenie(a)
    <3>1. pc[a] # "koniec" /\ pc'[a] # "koniec"
      <4>1. CASE SprawdzWarunek(a)
        BY <4>1 DEF SprawdzWarunek, Idz, TypeOK
      <4>2. CASE CzyscWiersz(a)
        BY <4>2 DEF CzyscWiersz, Idz, TypeOK
      <4>3. CASE Parsuj(a) \/ Rejestruj(a) \/ Ustaw(a)
        BY <4>3 DEF Parsuj, Rejestruj, Ustaw, Skoncz, Idz, TypeOK
      <4>4. CASE Zablokuj(a) \/ Zasnij(a) \/ ObudzSie(a) \/ Zdejmij(a) \/ Zapisz(a)
        BY <4>4 DEF Zablokuj, Zasnij, ObudzSie, Zdejmij, Zapisz, Idz, TypeOK
      <4>. QED
        BY <1>5, <2>3, <4>1, <4>2, <4>3, <4>4 DEF KrokAdiutanta, Przebudzenie
    <3>. QED
      BY <2>0, <3>1
  <2>. QED
    BY <2>1, <2>2, <2>3
<1>6. CASE KrokNapoleona
  BY <1>6 DEF KrokNapoleona
<1>. QED
  BY <1>1, <1>2, <1>3, <1>4, <1>5, <1>6 DEF Next

-----------------------------------------------------------------------------
(* The invariant of the reports holds in every state. *)
THEOREM ReportsInductive == Spec => []DInv
<1>1. Init => DInv
  <2> SUFFICES ASSUME Init PROVE DInv
    OBVIOUS
  <2>1. KtoTrzyma /\ Zamkniety /\ PoWyjsciu
    BY AdiutanciAssumption DEF Init, KtoTrzyma, Zamkniety, PoWyjsciu, ZRaportem
  <2>2. /\ NrGlownego = {} /\ NrNaStosie = {} /\ NrWRekach = {} /\ NrObsluzone = {}
        /\ WRekach = {} /\ obsluzone = {} /\ przepadle = {} /\ DOMAIN stos = {}
    BY DEF Init, NrGlownego, NrNaStosie, NrWRekach, NrObsluzone, WRekach
  <2>3. 1..odebrane = {}
    BY DEF Init
  <2>4. Wszystkie /\ Rozlaczne /\ Jednokrotne
    BY <2>2, <2>3 DEF Wszystkie, Rozlaczne, Jednokrotne
  <2>. QED
    BY <2>1, <2>4 DEF DInv
<1>2. IInv /\ IInv' /\ DInv /\ [Next]_vars => DInv'
  BY RozdzialLemma, TrzymaLemma, WyjscieLemma DEF DInv, Rozdzial
<1>. QED
  BY <1>1, <1>2, Inductive, PTL DEF Spec

(* When the server has closed, only the last datagram received can still be on
   the stack; everything older has been handled. *)
THEOREM OnlyLastLeft == Spec => []PozostajeNajwyzejOstatni
<1>1. DInv => PozostajeNajwyzejOstatni
  <2> SUFFICES ASSUME DInv, glowny = "zamkniete", NEW k \in DOMAIN stos
               PROVE  stos[k].nr = odebrane
    BY DEF PozostajeNajwyzejOstatni
  <2>1. stos # <<>>
    OBVIOUS
  <2>. QED
    BY <2>1 DEF DInv, Zamkniety, PoWyjsciu
<1>. QED
  BY <1>1, ReportsInductive, PTL

(* Numbering the members of S by f without repetition counts them. *)
LEMMA LiczbaLemma ==
  ASSUME NEW S, NEW T, NEW f \in [S -> T], IsFiniteSet(T),
         \A x, y \in S : f[x] = f[y] => x = y,
         \A t \in T : \E x \in S : f[x] = t
  PROVE  IsFiniteSet(S) /\ Cardinality(S) = Cardinality(T)
<1>1. f \in Injection(S, T)
  BY DEF Injection, IsInjective
<1>2. f \in Surjection(S, T)
  BY DEF Surjection
<1>. QED
  BY <1>1, <1>2, FS_Injection

(* The first n numbers are n. *)
LEMMA OdcinekLemma ==
  ASSUME NEW n \in Nat
  PROVE  IsFiniteSet(1..n) /\ Cardinality(1..n) = n
BY FS_Interval

(* Two disjoint finite sets add up. *)
LEMMA SumaLemma ==
  ASSUME NEW S, NEW T, IsFiniteSet(S), IsFiniteSet(T), S \cap T = {}
  PROVE  IsFiniteSet(S \cup T) /\ Cardinality(S \cup T) = Cardinality(S) + Cardinality(T)
<1>1. Cardinality(S \cap T) = 0
  BY FS_EmptySet
<1>2. Cardinality(S) \in Nat /\ Cardinality(T) \in Nat
  BY FS_CardinalityType
<1>3. /\ IsFiniteSet(S \cup T)
      /\ Cardinality(S \cup T) = Cardinality(S) + Cardinality(T) - Cardinality(S \cap T)
  BY FS_Union
<1>. QED
  BY <1>1, <1>2, <1>3

(* Every datagram received is in exactly one place: no interleaving of push,
   pop, drop and shutdown loses a report or hands it out twice, for any stack
   and any number of adjutants. *)
THEOREM NothingLost == Spec => []NicNieGinie
<1>1. IInv /\ DInv => NicNieGinie
  <2> SUFFICES ASSUME IInv, DInv PROVE NicNieGinie
    OBVIOUS
  <2> USE DEF IInv, DInv
  <2> DEFINE C(S) == Cardinality(S)
  <2>0. odebrane \in Nat /\ IsFiniteSet(1..odebrane) /\ C(1..odebrane) = odebrane
    <3>1. odebrane \in Nat
      BY DEF TypeOK
    <3>. QED
      BY <3>1, OdcinekLemma
  <2>1. /\ IsFiniteSet(NrGlownego) /\ IsFiniteSet(NrNaStosie) /\ IsFiniteSet(NrWRekach)
        /\ IsFiniteSet(NrObsluzone) /\ IsFiniteSet(przepadle)
    BY <2>0, FS_Subset DEF Wszystkie
  <2>2. Len(stos) = C(NrNaStosie)
    <3>1. Len(stos) \in Nat /\ DOMAIN stos = 1..Len(stos)
      BY WpisyLemma DEF TypeOK
    <3>2. C(DOMAIN stos) = Len(stos)
      <4>1. C(1..Len(stos)) = Len(stos)
        BY <3>1, OdcinekLemma
      <4>. QED
        BY <3>1, <4>1, Zenon
    <3>3. C(DOMAIN stos) = C(NrNaStosie)
      <4> DEFINE f == [k \in DOMAIN stos |-> stos[k].nr]
      <4>1. f \in [DOMAIN stos -> NrNaStosie]
        BY DEF NrNaStosie
      <4>2. \A k, l \in DOMAIN stos : f[k] = f[l] => k = l
        BY DEF Jednokrotne
      <4>3. \A t \in NrNaStosie : \E k \in DOMAIN stos : f[k] = t
        BY DEF NrNaStosie
      <4> HIDE DEF f
      <4>. QED
        BY <2>1, <4>1, <4>2, <4>3, LiczbaLemma
    <3>. QED
      BY <3>2, <3>3
  <2>3. C(WRekach) = C(NrWRekach)
    <3> DEFINE f == [a \in WRekach |-> raport[a].nr]
    <3>1. f \in [WRekach -> NrWRekach]
      BY DEF NrWRekach
    <3>2. \A a, b \in WRekach : f[a] = f[b] => a = b
      BY DEF Jednokrotne
    <3>3. \A t \in NrWRekach : \E a \in WRekach : f[a] = t
      BY DEF NrWRekach
    <3> HIDE DEF f
    <3>. QED
      BY <2>1, <3>1, <3>2, <3>3, LiczbaLemma
  <2>4. C(obsluzone) = C(NrObsluzone)
    <3> DEFINE f == [m \in obsluzone |-> m.nr]
    <3>1. f \in [obsluzone -> NrObsluzone]
      BY DEF NrObsluzone
    <3>2. \A m, n \in obsluzone : f[m] = f[n] => m = n
      BY DEF Jednokrotne
    <3>3. \A t \in NrObsluzone : \E m \in obsluzone : f[m] = t
      BY DEF NrObsluzone
    <3> HIDE DEF f
    <3>. QED
      BY <2>1, <3>1, <3>2, <3>3, LiczbaLemma
  <2>5. odebrane = C(NrGlownego) + C(NrNaStosie) + C(NrWRekach) + C(NrObsluzone) + C(przepadle)
    <3> DEFINE A == NrObsluzone \cup przepadle
               B == NrWRekach \cup A
               D == NrNaStosie \cup B
               E == NrGlownego \cup D
    <3>1. IsFiniteSet(A) /\ C(A) = C(NrObsluzone) + C(przepadle)
      BY <2>1, SumaLemma DEF Rozlaczne
    <3>2. IsFiniteSet(B) /\ C(B) = C(NrWRekach) + C(A)
      BY <2>1, <3>1, SumaLemma DEF Rozlaczne
    <3>3. IsFiniteSet(D) /\ C(D) = C(NrNaStosie) + C(B)
      <4>1. NrNaStosie \cap B = {}
        BY DEF Rozlaczne
      <4>. QED
        BY <2>1, <3>2, <4>1, SumaLemma
    <3>4. C(E) = C(NrGlownego) + C(D)
      <4>1. NrGlownego \cap D = {}
        BY DEF Rozlaczne
      <4>. QED
        BY <2>1, <3>3, <4>1, SumaLemma
    <3>5. E = 1..odebrane
      BY DEF Wszystkie
    <3>6. /\ C(NrGlownego) \in Nat /\ C(NrNaStosie) \in Nat /\ C(NrWRekach) \in Nat
          /\ C(NrObsluzone) \in Nat /\ C(przepadle) \in Nat
      BY <2>1, FS_CardinalityType
    <3> HIDE DEF A, B, D, E, C
    <3>. QED
      BY <2>0, <3>1, <3>2, <3>3, <3>4, <3>5, <3>6
  <2>. QED
    BY <2>2, <2>3, <2>4, <2>5
    DEF NicNieGinie, Wszystkie, NrGlownego, NrNaStosie, NrWRekach, NrObsluzone
<1>. QED
  BY <1>1, Inductive, ReportsInductive, PTL
-----------------------------------------------------------------------------
(* The register of units and the staff map. *)


(* An adjutant holds a report only between popping it and being done. *)
RekaPusta == \A a \in Adiutanci : pc[a] \notin ZRaportem => raport[a] = Nikt

(* Ids in use are below liczba_oddzialow: those in the hands of an adjutant
   (with the name the report gave), those with a sender, the one an order is
   for, and those on the map. *)
IdUzywane ==
  /\ \A a \in Adiutanci : pc[a] \in ZOddzialem =>
       /\ id_oddzialu[a] < liczba_oddzialow
       /\ nazwy_oddzialow[id_oddzialu[a]] = raport[a].tekst.nazwa
  /\ \A i \in Id : ostatni_nadawca[i] # Nikt => i < liczba_oddzialow
  /\ napoleon = "rozkaz" => id_rozkazu \in Id /\ ostatni_nadawca[id_rozkazu] # Nikt
  /\ \A y, x \in Wiersze : mapa[y][x] < liczba_oddzialow

(* The inductive invariant of the register. *)
RInv ==
  /\ RekaPusta
  /\ IdUzywane
  /\ NazwyRozne
  /\ JedenMeldunekOddzialu
  /\ RozkazMaAdres
  /\ PoleZMeldunku

(* f names, for each cell where unit i stands, a different adjutant that put
   it there.  An adjutant that is clearing the map of i has no cell left in
   the rows behind it, and none at all once it has cleared them. *)
Wlasciciele(i, f) ==
  /\ f \in [Pola(i) -> Adiutanci]
  /\ \A p, q \in Pola(i) : f[p] = f[q] => p = q
  /\ \A p \in Pola(i) : id_oddzialu[f[p]] = i =>
       /\ pc[f[p]] = "czysc" => p[1] >= wiersz[f[p]]
       /\ pc[f[p]] # "ustaw"

(* Clearing starts at row 0. *)
OdPoczatku == \A a \in Adiutanci : pc[a] # "czysc" => wiersz[a] = 0

(* The inductive invariant of the map. *)
MInv ==
  /\ OdPoczatku
  /\ \A i \in Id : \E f \in [Pola(i) -> Adiutanci] : Wlasciciele(i, f)

(* The places outside the handling of a report: what steps of main, of the
   signal handler and of an adjutant around the stack leave alone. *)
Ciche ==
  /\ UNCHANGED <<rejestr, mapa, lokalne, obsluzone, cesarz>>
  /\ \A a \in Adiutanci : \/ pc'[a] = pc[a]
                          \/ pc[a] \notin ZRaportem /\ pc'[a] \notin ZRaportem

-----------------------------------------------------------------------------
(* Every step is one of seven kinds, as far as the register, the map and the
   locals of the adjutants are concerned. *)
LEMMA KrokiLemma ==
  ASSUME TypeOK, [Next]_vars
  PROVE  \/ Ciche
         \/ KrokNapoleona
         \/ \E a \in Adiutanci :
              /\ Zdejmij(a) \/ Parsuj(a) \/ Rejestruj(a) \/ Zapisz(a)
                   \/ CzyscWiersz(a) \/ Ustaw(a)
              /\ UNCHANGED cesarz
<1> USE DEF Ciche, kolejka, rejestr, lokalne, serwer, cesarz
<1>1. CASE UNCHANGED vars
  BY <1>1 DEF vars
<1>2. CASE sigint_handler
  BY <1>2 DEF sigint_handler
<1>3. CASE Siec
  BY <1>3 DEF Siec
<1>4. CASE KrokSerwera
  BY <1>4 DEF KrokSerwera
<1>5. ASSUME NEW a \in Adiutanci,
             Zablokuj(a) \/ SprawdzWarunek(a) \/ Zasnij(a) \/ ObudzSie(a) \/ Wyjdz(a),
             UNCHANGED cesarz
      PROVE  Ciche
  <2>1. UNCHANGED <<rejestr, mapa, lokalne, obsluzone, cesarz>>
    BY <1>5 DEF Zablokuj, SprawdzWarunek, Zasnij, ObudzSie, Wyjdz, PozaStosem
  <2>2. /\ pc[a] \notin ZRaportem
        /\ \E m \in Miejsca \ ZRaportem : pc' = [pc EXCEPT ![a] = m]
    <3>1. CASE SprawdzWarunek(a)
      BY <3>1 DEF SprawdzWarunek, Idz, Miejsca, ZRaportem
    <3>2. CASE Zablokuj(a) \/ Zasnij(a) \/ ObudzSie(a) \/ Wyjdz(a)
      BY <3>2 DEF Zablokuj, Zasnij, ObudzSie, Wyjdz, Idz, Miejsca, ZRaportem
    <3>. QED
      BY <1>5, <3>1, <3>2
  <2>. QED
    BY <2>1, <2>2 DEF TypeOK
<1>6. ASSUME NEW a \in Adiutanci, Przebudzenie(a) PROVE Ciche
  BY <1>6 DEF Przebudzenie, FalszywePrzebudzenie, PozaStosem
<1>. QED
  BY <1>1, <1>2, <1>3, <1>4, <1>5, <1>6 DEF Next, KrokAdiutanta

(* What only grows: the reports somebody has seen, the reports handled, and
   the register, in which a name once entered stays. *)
Rosnie ==
  /\ obsluzone \subseteq obsluzone'
  /\ Widziane \subseteq Widziane'
  /\ liczba_oddzialow <= liczba_oddzialow'
  /\ \A i \in Id : i < liczba_oddzialow => nazwy_oddzialow'[i] = nazwy_oddzialow[i]

(* An adjutant that is done hands its report over to obsluzone. *)
LEMMA SkonczLemma ==
  ASSUME TypeOK, RekaPusta, NEW a \in Adiutanci, Skoncz(a)
  PROVE  RekaPusta' /\ obsluzone \subseteq obsluzone' /\ Widziane \subseteq Widziane'
<1>1. /\ raport' = [raport EXCEPT ![a] = Nikt]
      /\ pc' = [pc EXCEPT ![a] = "start"]
      /\ obsluzone' = obsluzone \cup {raport[a]}
  BY DEF Skoncz, Idz
<1>2. RekaPusta'
  BY <1>1 DEF RekaPusta, TypeOK, ZRaportem
<1>3. ASSUME NEW b \in Adiutanci, raport[b] # Nikt PROVE raport[b] \in Widziane'
  <2>1. CASE b = a
    BY <1>1, <2>1 DEF Widziane
  <2>2. CASE b # a
    <3>1. raport'[b] = raport[b]
      BY <1>1, <2>2 DEF TypeOK
    <3>. QED
      BY <1>3, <3>1 DEF Widziane, WRekach
  <2>. QED
    BY <2>1, <2>2
<1>. QED
  BY <1>1, <1>2, <1>3 DEF Widziane, WRekach

(* Every step grows Rosnie, and empties the hands of those who are done. *)
LEMMA WzrostLemma ==
  ASSUME IInv, RekaPusta, [Next]_vars
  PROVE  RekaPusta' /\ Rosnie
<1> USE DEF IInv
<1>1. CASE Ciche
  BY <1>1 DEF Ciche, RekaPusta, Rosnie, Widziane, WRekach, lokalne, rejestr, TypeOK
<1>2. CASE KrokNapoleona
  BY <1>2 DEF KrokNapoleona, RekaPusta, Rosnie, Widziane, WRekach, lokalne, rejestr, TypeOK
<1>3. ASSUME NEW a \in Adiutanci, Zdejmij(a) PROVE RekaPusta' /\ Rosnie
  <2>1. raport[a] = Nikt
    BY <1>3 DEF Zdejmij, RekaPusta, ZRaportem
  <2>2. RekaPusta'
    BY <1>3 DEF Zdejmij, Idz, RekaPusta, TypeOK, ZRaportem
  <2>3. \A b \in WRekach : b \in WRekach' /\ raport'[b] = raport[b]
    BY <1>3, <2>1 DEF Zdejmij, WRekach, TypeOK
  <2>4. Widziane \subseteq Widziane'
    BY <1>3, <2>3 DEF Zdejmij, Widziane
  <2>. QED
    BY <1>3, <2>2, <2>4 DEF Zdejmij, Rosnie, rejestr, TypeOK
<1>4. ASSUME NEW a \in Adiutanci, Parsuj(a) PROVE RekaPusta' /\ Rosnie
  <2>1. CASE Skoncz(a)
    BY <1>4, <2>1, SkonczLemma DEF Parsuj, Rosnie, rejestr, TypeOK
  <2>2. CASE Idz(a, "rejestr") /\ UNCHANGED <<raport, obsluzone>>
    BY <1>4, <2>2 DEF Parsuj, Idz, RekaPusta, Rosnie, Widziane, WRekach, rejestr, TypeOK,
                      ZRaportem
  <2>. QED
    BY <1>4, <2>1, <2>2 DEF Parsuj
<1>5. ASSUME NEW a \in Adiutanci, Rejestruj(a) PROVE RekaPusta' /\ Rosnie
  <2>1. /\ liczba_oddzialow <= liczba_oddzialow'
        /\ \A i \in Id : i < liczba_oddzialow => nazwy_oddzialow'[i] = nazwy_oddzialow[i]
    <3>1. CASE UNCHANGED <<nazwy_oddzialow, liczba_oddzialow>>
      BY <3>1 DEF TypeOK
    <3>2. CASE /\ nazwy_oddzialow' = [nazwy_oddzialow EXCEPT ![liczba_oddzialow] =
                                        raport[a].tekst.nazwa]
               /\ liczba_oddzialow' = liczba_oddzialow + 1
      BY <3>2 DEF TypeOK, Id
    <3>. QED
      BY <1>5, <3>1, <3>2 DEF Rejestruj
  <2>2. CASE Skoncz(a)
    BY <2>1, <2>2, SkonczLemma DEF Rosnie
  <2>3. CASE Idz(a, "zapisz") /\ UNCHANGED <<raport, obsluzone>>
    BY <1>5, <2>1, <2>3
    DEF Rejestruj, Idz, RekaPusta, Rosnie, Widziane, WRekach, TypeOK, ZRaportem
  <2>. QED
    BY <1>5, <2>2, <2>3 DEF Rejestruj
<1>6. ASSUME NEW a \in Adiutanci, Zapisz(a) PROVE RekaPusta' /\ Rosnie
  BY <1>6 DEF Zapisz, Idz, RekaPusta, Rosnie, Widziane, WRekach, lokalne, TypeOK, ZRaportem
<1>7. ASSUME NEW a \in Adiutanci, CzyscWiersz(a) PROVE RekaPusta' /\ Rosnie
  <2>1. RekaPusta'
    BY <1>7 DEF CzyscWiersz, Idz, RekaPusta, TypeOK, ZRaportem
  <2>. QED
    BY <1>7, <2>1 DEF CzyscWiersz, Rosnie, Widziane, WRekach, rejestr, TypeOK
<1>8. ASSUME NEW a \in Adiutanci, Ustaw(a) PROVE RekaPusta' /\ Rosnie
  BY <1>8, SkonczLemma DEF Ustaw, Rosnie, rejestr, TypeOK
<1>. QED
  BY <1>1, <1>2, <1>3, <1>4, <1>5, <1>6, <1>7, <1>8, KrokiLemma

-----------------------------------------------------------------------------
(* The search and the entry of a name are one section: the adjutant leaves it
   with an id that has the name of its report, or without a report, and no
   name is in the register twice. *)
LEMMA RejestrujLemma ==
  ASSUME IInv, NazwyRozne, NEW a \in Adiutanci, Rejestruj(a)
  PROVE  /\ NazwyRozne'
         /\ \/ Skoncz(a)
            \/ /\ pc' = [pc EXCEPT ![a] = "zapisz"]
               /\ raport' = raport
               /\ \E i \in Id :
                    /\ id_oddzialu' = [id_oddzialu EXCEPT ![a] = i]
                    /\ i < liczba_oddzialow'
                    /\ nazwy_oddzialow'[i] = raport[a].tekst.nazwa
<1> DEFINE nazwa == raport[a].tekst.nazwa
<1> USE StaleAssumption DEF IInv
<1>1. nazwa \in Nazwy
  BY TekstyAssumption DEF Rejestruj, Lokalne, ZRaportem, Wiadomosc
<1>2. CASE /\ \E i \in IdNazwy(nazwa) :
                /\ \A j \in IdNazwy(nazwa) : i <= j
                /\ id_oddzialu' = [id_oddzialu EXCEPT ![a] = i]
           /\ Idz(a, "zapisz")
           /\ UNCHANGED <<nazwy_oddzialow, liczba_oddzialow, raport, obsluzone>>
  <2>1. NazwyRozne'
    BY <1>2 DEF NazwyRozne
  <2>2. PICK i \in IdNazwy(nazwa) : id_oddzialu' = [id_oddzialu EXCEPT ![a] = i]
    BY <1>2
  <2>3. i \in Id /\ i < liczba_oddzialow' /\ nazwy_oddzialow'[i] = nazwa
    BY <1>2, <2>2 DEF IdNazwy, TypeOK, Id
  <2>. QED
    BY <1>2, <2>1, <2>2, <2>3 DEF Idz
<1>3. CASE /\ IdNazwy(nazwa) = {}
           /\ liczba_oddzialow < DIVISION_NAMES_SIZE
           /\ id_oddzialu' = [id_oddzialu EXCEPT ![a] = liczba_oddzialow]
           /\ nazwy_oddzialow' = [nazwy_oddzialow EXCEPT ![liczba_oddzialow] = nazwa]
           /\ liczba_oddzialow' = liczba_oddzialow + 1
           /\ Idz(a, "zapisz")
           /\ UNCHANGED <<raport, obsluzone>>
  <2>1. liczba_oddzialow \in Id /\ liczba_oddzialow < liczba_oddzialow'
    BY <1>3 DEF TypeOK, Id
  <2>2. nazwy_oddzialow'[liczba_oddzialow] = nazwa
    BY <1>3, <2>1 DEF TypeOK
  <2>3. \A i \in 0..(liczba_oddzialow - 1) :
          nazwy_oddzialow'[i] = nazwy_oddzialow[i] /\ nazwy_oddzialow[i] # nazwa
    BY <1>3 DEF TypeOK, Id, IdNazwy
  <2>4. NazwyRozne'
    <3>1. 0..(liczba_oddzialow' - 1) = 0..(liczba_oddzialow - 1) \cup {liczba_oddzialow}
      BY <1>3 DEF TypeOK
    <3>. QED
      BY <1>1, <2>2, <2>3, <3>1, NiktAssumption DEF NazwyRozne
  <2>. QED
    BY <1>3, <2>1, <2>2, <2>4 DEF Idz
<1>4. CASE Skoncz(a) /\ UNCHANGED <<nazwy_oddzialow, liczba_oddzialow>>
  BY <1>4 DEF NazwyRozne
<1>. QED
  BY <1>2, <1>3, <1>4 DEF Rejestruj

(* No step enters a name a second time. *)
LEMMA NazwyLemma ==
  ASSUME IInv, NazwyRozne, [Next]_vars
  PROVE  NazwyRozne'
<1>1. CASE Ciche
  BY <1>1 DEF Ciche, rejestr, NazwyRozne
<1>2. CASE KrokNapoleona
  BY <1>2 DEF KrokNapoleona, rejestr, NazwyRozne
<1>3. ASSUME NEW a \in Adiutanci,
             Zdejmij(a) \/ Parsuj(a) \/ Zapisz(a) \/ CzyscWiersz(a) \/ Ustaw(a)
      PROVE  NazwyRozne'
  BY <1>3 DEF Zdejmij, Parsuj, Zapisz, CzyscWiersz, Ustaw, rejestr, NazwyRozne
<1>. QED
  BY <1>1, <1>2, <1>3, RejestrujLemma, KrokiLemma DEF IInv

(* The ids in use stay below liczba_oddzialow and keep their names. *)
LEMMA IdLemma ==
  ASSUME IInv, IInv', RekaPusta, NazwyRozne, IdUzywane, [Next]_vars
  PROVE  IdUzywane'
<1> DEFINE Adiutanta(b) == pc[b] \in ZOddzialem =>
             /\ id_oddzialu[b] < liczba_oddzialow
             /\ nazwy_oddzialow[id_oddzialu[b]] = raport[b].tekst.nazwa
           Nadawce == \A i \in Id : ostatni_nadawca[i] # Nikt => i < liczba_oddzialow
           Rozkaz == napoleon = "rozkaz" =>
             id_rozkazu \in Id /\ ostatni_nadawca[id_rozkazu] # Nikt
           Mapa == \A y, x \in Wiersze : mapa[y][x] < liczba_oddzialow
<1> USE DEF IInv
<1>0. Rosnie
  BY WzrostLemma
<1>1. ASSUME NEW b \in Adiutanci,
             pc'[b] \in ZOddzialem => pc[b] \in ZOddzialem,
             id_oddzialu'[b] = id_oddzialu[b], raport'[b] = raport[b]
      PROVE  Adiutanta(b)'
  <2> SUFFICES ASSUME pc'[b] \in ZOddzialem
               PROVE  /\ id_oddzialu'[b] < liczba_oddzialow'
                      /\ nazwy_oddzialow'[id_oddzialu'[b]] = raport'[b].tekst.nazwa
    OBVIOUS
  <2>1. /\ id_oddzialu[b] \in Id /\ id_oddzialu[b] < liczba_oddzialow
        /\ nazwy_oddzialow[id_oddzialu[b]] = raport[b].tekst.nazwa
    BY <1>1 DEF IdUzywane, Lokalne
  <2>2. nazwy_oddzialow'[id_oddzialu[b]] = raport[b].tekst.nazwa
    BY <1>0, <2>1 DEF Rosnie
  <2>3. id_oddzialu[b] < liczba_oddzialow'
    BY <1>0, <2>1 DEF Rosnie, TypeOK, Id
  <2>. QED
    BY <1>1, <2>2, <2>3
<1>2. liczba_oddzialow <= liczba_oddzialow' /\ liczba_oddzialow' \in Int /\ liczba_oddzialow \in Int
  BY <1>0 DEF Rosnie, TypeOK
<1>3. UNCHANGED ostatni_nadawca => Nadawce'
  BY <1>2 DEF IdUzywane, Id
<1>4. UNCHANGED mapa => Mapa'
  <2>1. \A y, x \in Wiersze : mapa[y][x] \in Int /\ mapa[y][x] < liczba_oddzialow
    BY DEF IdUzywane, TypeOK, Id
  <2>. QED
    BY <1>2, <2>1
<1>5. UNCHANGED <<cesarz, ostatni_nadawca>> => Rozkaz'
  BY DEF IdUzywane, cesarz
<1>6. CASE Ciche
  BY <1>1, <1>3, <1>4, <1>5, <1>6 DEF Ciche, rejestr, lokalne, IdUzywane, ZRaportem, ZOddzialem
<1>7. CASE KrokNapoleona
  <2>1. Rozkaz'
    BY <1>7 DEF KrokNapoleona, SprawdzPraceNapoleona, drukuj_mape, losowy_sojusznik,
                WyslijRozkaz, Kandydaci, rejestr, TypeOK, Id
  <2>. QED
    BY <1>1, <1>3, <1>4, <1>7, <2>1 DEF KrokNapoleona, rejestr, lokalne, IdUzywane
<1>8. ASSUME NEW a \in Adiutanci, Zdejmij(a), UNCHANGED cesarz PROVE IdUzywane'
  <2>1. \A b \in Adiutanci : Adiutanta(b)'
    <3>1. pc'[a] \notin ZOddzialem
      BY <1>8 DEF Zdejmij, Idz, TypeOK, ZOddzialem
    <3>2. \A b \in Adiutanci \ {a} : pc'[b] = pc[b] /\ raport'[b] = raport[b]
      BY <1>8 DEF Zdejmij, Idz, TypeOK
    <3>. QED
      BY <1>1, <1>8, <3>1, <3>2 DEF Zdejmij
  <2>. QED
    BY <1>3, <1>4, <1>5, <1>8, <2>1 DEF Zdejmij, rejestr, IdUzywane
<1>9. ASSUME NEW a \in Adiutanci, Skoncz(a), UNCHANGED <<cesarz, ostatni_nadawca, mapa>>
      PROVE  IdUzywane'
  <2>1. \A b \in Adiutanci : Adiutanta(b)'
    <3>1. pc'[a] \notin ZOddzialem
      BY <1>9 DEF Skoncz, Idz, TypeOK, ZOddzialem
    <3>2. \A b \in Adiutanci \ {a} :
            pc'[b] = pc[b] /\ raport'[b] = raport[b] /\ id_oddzialu'[b] = id_oddzialu[b]
      BY <1>9 DEF Skoncz, Idz, TypeOK
    <3>. QED
      BY <1>1, <3>1, <3>2
  <2>. QED
    BY <1>3, <1>4, <1>5, <1>9, <2>1 DEF IdUzywane
<1>10. ASSUME NEW a \in Adiutanci, Parsuj(a), UNCHANGED cesarz PROVE IdUzywane'
  <2>1. CASE Idz(a, "rejestr") /\ UNCHANGED <<raport, id_oddzialu, obsluzone>>
    <3>1. \A b \in Adiutanci : pc'[b] \in ZOddzialem => pc[b] \in ZOddzialem
      BY <2>1 DEF Idz, TypeOK, ZOddzialem
    <3>. QED
      BY <1>1, <1>3, <1>4, <1>5, <1>10, <2>1, <3>1 DEF Parsuj, rejestr, IdUzywane
  <2>. QED
    BY <1>9, <1>10, <2>1 DEF Parsuj, rejestr
<1>11. ASSUME NEW a \in Adiutanci, Rejestruj(a), UNCHANGED cesarz PROVE IdUzywane'
  <2>0. UNCHANGED <<ostatni_nadawca, mapa>>
    BY <1>11 DEF Rejestruj
  <2>1. CASE ~Skoncz(a)
    <3>1. PICK i \in Id : /\ id_oddzialu' = [id_oddzialu EXCEPT ![a] = i]
                          /\ i < liczba_oddzialow'
                          /\ nazwy_oddzialow'[i] = raport[a].tekst.nazwa
      BY <1>11, <2>1, RejestrujLemma
    <3>2. pc' = [pc EXCEPT ![a] = "zapisz"] /\ raport' = raport
      BY <1>11, <2>1, RejestrujLemma
    <3>3. Adiutanta(a)'
      BY <3>1, <3>2 DEF TypeOK
    <3>4. \A b \in Adiutanci \ {a} : pc'[b] = pc[b] /\ id_oddzialu'[b] = id_oddzialu[b]
      BY <3>1, <3>2 DEF TypeOK
    <3>. QED
      BY <1>1, <1>3, <1>4, <1>5, <1>11, <2>0, <3>2, <3>3, <3>4 DEF IdUzywane
  <2>. QED
    BY <1>9, <1>11, <2>0, <2>1
<1>12. ASSUME NEW a \in Adiutanci, Zapisz(a), UNCHANGED cesarz PROVE IdUzywane'
  <2>1. \A b \in Adiutanci : pc'[b] \in ZOddzialem => pc[b] \in ZOddzialem
    BY <1>12 DEF Zapisz, Idz, TypeOK, ZOddzialem
  <2>2. id_oddzialu[a] \in Id /\ id_oddzialu[a] < liczba_oddzialow
    BY <1>12 DEF Zapisz, Lokalne, IdUzywane, ZOddzialem
  <2>3. raport[a].nadawca # Nikt
    BY <1>12, NiktAssumption DEF Zapisz, Lokalne, ZRaportem, Wiadomosc
  <2>4. ostatni_nadawca' = [ostatni_nadawca EXCEPT ![id_oddzialu[a]] = raport[a].nadawca]
    BY <1>12 DEF Zapisz
  <2>5. Nadawce'
    BY <1>2, <2>2, <2>4 DEF IdUzywane, TypeOK, Id
  <2>6. Rozkaz'
    BY <1>12, <2>2, <2>3, <2>4 DEF IdUzywane, TypeOK, cesarz
  <2>. QED
    BY <1>1, <1>4, <1>12, <2>1, <2>5, <2>6 DEF Zapisz, lokalne, IdUzywane
<1>13. ASSUME NEW a \in Adiutanci, CzyscWiersz(a), UNCHANGED cesarz PROVE IdUzywane'
  <2>1. \A b \in Adiutanci : pc'[b] \in ZOddzialem => pc[b] \in ZOddzialem
    BY <1>13 DEF CzyscWiersz, Idz, TypeOK, ZOddzialem
  <2>2. \A y, x \in Wiersze : mapa'[y][x] \in {mapa[y][x], -1}
    BY <1>13 DEF CzyscWiersz, TypeOK
  <2>3. Mapa'
    BY <1>13, <2>2 DEF CzyscWiersz, rejestr, IdUzywane, TypeOK, Id
  <2>. QED
    BY <1>1, <1>3, <1>5, <1>13, <2>1, <2>3 DEF CzyscWiersz, rejestr, IdUzywane
<1>14. ASSUME NEW a \in Adiutanci, Ustaw(a), UNCHANGED cesarz PROVE IdUzywane'
  <2>1. \A b \in Adiutanci : Adiutanta(b)'
    <3>1. pc'[a] \notin ZOddzialem
      BY <1>14 DEF Ustaw, Skoncz, Idz, TypeOK, ZOddzialem
    <3>2. \A b \in Adiutanci \ {a} :
            pc'[b] = pc[b] /\ raport'[b] = raport[b] /\ id_oddzialu'[b] = id_oddzialu[b]
      BY <1>14 DEF Ustaw, Skoncz, Idz, TypeOK
    <3>. QED
      BY <1>1, <3>1, <3>2
  <2>2. \A y, x \in Wiersze : mapa'[y][x] \in {mapa[y][x], id_oddzialu[a]}
    BY <1>14 DEF Ustaw, TypeOK
  <2>3. id_oddzialu[a] < liczba_oddzialow
    BY <1>14 DEF Ustaw, IdUzywane, ZOddzialem
  <2>4. Mapa'
    BY <1>14, <2>2, <2>3 DEF Ustaw, rejestr, IdUzywane, TypeOK, Id
  <2>. QED
    BY <1>3, <1>5, <1>14, <2>1, <2>4 DEF Ustaw, rejestr, IdUzywane
<1>. QED
  BY <1>6, <1>7, <1>8, <1>10, <1>11, <1>12, <1>13, <1>14, KrokiLemma

-----------------------------------------------------------------------------
(* Affiliation and sender change in one section, to those of one report. *)
LEMMA MeldunekLemma ==
  ASSUME IInv, RekaPusta, IdUzywane, JedenMeldunekOddzialu, [Next]_vars
  PROVE  JedenMeldunekOddzialu'
<1> DEFINE Jeden(i) == ostatni_nadawca[i] # Nikt =>
             \E m \in Widziane : /\ m.tekst.nazwa = nazwy_oddzialow[i]
                                 /\ m.tekst.p = przynaleznosc[i]
                                 /\ m.nadawca = ostatni_nadawca[i]
<1> USE DEF IInv
<1>0. Rosnie
  BY WzrostLemma
<1>1. ASSUME NEW i \in Id, ostatni_nadawca'[i] = ostatni_nadawca[i],
             przynaleznosc'[i] = przynaleznosc[i]
      PROVE  Jeden(i)'
  <2> SUFFICES ASSUME ostatni_nadawca'[i] # Nikt
               PROVE \E m \in Widziane' : /\ m.tekst.nazwa = nazwy_oddzialow'[i]
                                          /\ m.tekst.p = przynaleznosc'[i]
                                          /\ m.nadawca = ostatni_nadawca'[i]
    OBVIOUS
  <2>1. PICK m \in Widziane : /\ m.tekst.nazwa = nazwy_oddzialow[i]
                              /\ m.tekst.p = przynaleznosc[i]
                              /\ m.nadawca = ostatni_nadawca[i]
    BY <1>1 DEF JedenMeldunekOddzialu
  <2>2. nazwy_oddzialow'[i] = nazwy_oddzialow[i] /\ m \in Widziane'
    BY <1>0, <1>1, <2>1 DEF Rosnie, IdUzywane
  <2>. QED
    BY <1>1, <2>1, <2>2
<1>2. UNCHANGED <<ostatni_nadawca, przynaleznosc>> => JedenMeldunekOddzialu'
  BY <1>1 DEF JedenMeldunekOddzialu
<1>3. ASSUME NEW a \in Adiutanci, Zapisz(a) PROVE JedenMeldunekOddzialu'
  <2>0. PICK i0 \in Id : i0 = id_oddzialu[a]
    BY <1>3 DEF Zapisz, Lokalne, ZOddzialem
  <2>1. /\ i0 < liczba_oddzialow
        /\ raport[a] \in Wiadomosc
        /\ nazwy_oddzialow[i0] = raport[a].tekst.nazwa
    BY <1>3, <2>0 DEF Zapisz, Lokalne, IdUzywane, ZRaportem, ZOddzialem
  <2>2. raport[a] \in Widziane'
    BY <1>3, <2>1, NiktAssumption DEF Zapisz, lokalne, Widziane, WRekach
  <2>3. /\ nazwy_oddzialow'[i0] = raport[a].tekst.nazwa
        /\ przynaleznosc'[i0] = raport[a].tekst.p
        /\ ostatni_nadawca'[i0] = raport[a].nadawca
    BY <1>3, <2>0, <2>1 DEF Zapisz, TypeOK
  <2>4. ASSUME NEW i \in Id, i # i0 PROVE Jeden(i)'
    <3>1. ostatni_nadawca'[i] = ostatni_nadawca[i] /\ przynaleznosc'[i] = przynaleznosc[i]
      BY <1>3, <2>0, <2>4 DEF Zapisz, TypeOK
    <3>. QED
      BY <1>1, <3>1
  <2>5. Jeden(i0)'
    BY <2>2, <2>3
  <2>. QED
    BY <2>4, <2>5 DEF JedenMeldunekOddzialu
<1>4. CASE Ciche \/ KrokNapoleona
  BY <1>2, <1>4 DEF Ciche, KrokNapoleona, rejestr
<1>5. ASSUME NEW a \in Adiutanci,
             Zdejmij(a) \/ Parsuj(a) \/ Rejestruj(a) \/ CzyscWiersz(a) \/ Ustaw(a)
      PROVE  UNCHANGED <<ostatni_nadawca, przynaleznosc>>
  BY <1>5 DEF Zdejmij, Parsuj, Rejestruj, CzyscWiersz, Ustaw, rejestr
<1>. QED
  BY <1>2, <1>3, <1>4, <1>5, KrokiLemma

(* Between the choice of a unit and the order to it the address may change,
   but only to that of another report on the unit. *)
LEMMA RozkazLemma ==
  ASSUME IInv, RekaPusta, NazwyRozne, IdUzywane, IdUzywane', JedenMeldunekOddzialu,
         JedenMeldunekOddzialu', RozkazMaAdres, [Next]_vars
  PROVE  RozkazMaAdres'
<1> USE DEF IInv
<1>0. Rosnie
  BY WzrostLemma
<1> SUFFICES ASSUME napoleon' = "rozkaz"
             PROVE  /\ \E m \in Widziane' :
                         /\ m.tekst.nazwa = nazwy_oddzialow'[id_rozkazu']
                         /\ m.nadawca = ostatni_nadawca'[id_rozkazu']
                    /\ \E m \in Widziane' :
                         m.tekst.nazwa = nazwy_oddzialow'[id_rozkazu'] /\ m.tekst.p = 1
  BY DEF RozkazMaAdres
<1>3. \E m \in Widziane' : /\ m.tekst.nazwa = nazwy_oddzialow'[id_rozkazu']
                           /\ m.nadawca = ostatni_nadawca'[id_rozkazu']
  <2>1. id_rozkazu' \in Id /\ ostatni_nadawca'[id_rozkazu'] # Nikt
    BY DEF IdUzywane
  <2>. QED
    BY <2>1 DEF JedenMeldunekOddzialu
<1> SUFFICES \E m \in Widziane' :
               m.tekst.nazwa = nazwy_oddzialow'[id_rozkazu'] /\ m.tekst.p = 1
  BY <1>3
<1>1. CASE UNCHANGED cesarz
  <2>1. /\ id_rozkazu' = id_rozkazu /\ id_rozkazu \in Id
        /\ id_rozkazu < liczba_oddzialow
    BY <1>1 DEF cesarz, IdUzywane
  <2>2. \E m \in Widziane : m.tekst.nazwa = nazwy_oddzialow[id_rozkazu] /\ m.tekst.p = 1
    BY <1>1 DEF cesarz, RozkazMaAdres
  <2>. QED
    BY <1>0, <2>1, <2>2 DEF Rosnie
<1>2. CASE KrokNapoleona
  <2>0. losowy_sojusznik
    BY <1>2 DEF KrokNapoleona, SprawdzPraceNapoleona, drukuj_mape, WyslijRozkaz
  <2>1. PICK i \in Kandydaci : id_rozkazu' = i
    BY <2>0 DEF losowy_sojusznik
  <2>2. i \in Id /\ przynaleznosc[i] = 1 /\ ostatni_nadawca[i] # Nikt
    BY <2>1, StaleAssumption DEF Kandydaci, TypeOK, Id
  <2>3. UNCHANGED nazwy_oddzialow
    BY <1>2 DEF KrokNapoleona, rejestr
  <2>. QED
    BY <1>0, <2>1, <2>2, <2>3 DEF Rosnie, JedenMeldunekOddzialu
<1>. QED
  BY <1>1, <1>2, KrokiLemma DEF Ciche

(* A cell is written only when its report is done, with the id whose name is
   the report's. *)
LEMMA PoleLemma ==
  ASSUME IInv, RekaPusta, IdUzywane, PoleZMeldunku, [Next]_vars
  PROVE  PoleZMeldunku'
<1> DEFINE Pole(y, x) == mapa[y][x] # -1 =>
             \E m \in obsluzone : /\ Poprawny(m.tekst)
                                  /\ m.tekst.nazwa = nazwy_oddzialow[mapa[y][x]]
                                  /\ m.tekst.y = y /\ m.tekst.x = x
<1> USE DEF IInv
<1>0. Rosnie
  BY WzrostLemma
<1>1. ASSUME NEW y \in Wiersze, NEW x \in Wiersze, mapa'[y][x] \in {mapa[y][x], -1}
      PROVE  Pole(y, x)'
  <2> SUFFICES ASSUME mapa'[y][x] # -1
               PROVE \E m \in obsluzone' :
                       /\ Poprawny(m.tekst)
                       /\ m.tekst.nazwa = nazwy_oddzialow'[mapa'[y][x]]
                       /\ m.tekst.y = y /\ m.tekst.x = x
    BY DEF Poprawny
  <2>1. mapa'[y][x] = mapa[y][x] /\ mapa[y][x] \in Id /\ mapa[y][x] < liczba_oddzialow
    BY <1>1 DEF IdUzywane, TypeOK
  <2>2. nazwy_oddzialow'[mapa[y][x]] = nazwy_oddzialow[mapa[y][x]]
    BY <1>0, <2>1 DEF Rosnie
  <2>3. PICK m \in obsluzone : /\ Poprawny(m.tekst)
                               /\ m.tekst.nazwa = nazwy_oddzialow[mapa[y][x]]
                               /\ m.tekst.y = y /\ m.tekst.x = x
    BY <2>1 DEF PoleZMeldunku
  <2>. QED
    BY <1>0, <2>1, <2>2, <2>3 DEF Rosnie
<1>2. ASSUME \A y, x \in Wiersze : mapa'[y][x] \in {mapa[y][x], -1}
      PROVE  PoleZMeldunku'
  BY <1>1, <1>2 DEF PoleZMeldunku, Poprawny
<1>3. CASE Ciche \/ KrokNapoleona
  BY <1>2, <1>3 DEF Ciche, KrokNapoleona
<1>4. ASSUME NEW a \in Adiutanci, Zdejmij(a) \/ Parsuj(a) \/ Rejestruj(a) \/ Zapisz(a)
      PROVE  PoleZMeldunku'
  BY <1>2, <1>4 DEF Zdejmij, Parsuj, Rejestruj, Zapisz
<1>5. ASSUME NEW a \in Adiutanci, CzyscWiersz(a) PROVE PoleZMeldunku'
  <2>1. \A y, x \in Wiersze : mapa'[y][x] \in {mapa[y][x], -1}
    BY <1>5 DEF CzyscWiersz, TypeOK
  <2>. QED
    BY <1>2, <2>1
<1>6. ASSUME NEW a \in Adiutanci, Ustaw(a) PROVE PoleZMeldunku'
  <2>1. /\ id_oddzialu[a] \in Id
        /\ Poprawny(raport[a].tekst)
        /\ nazwy_oddzialow[id_oddzialu[a]] = raport[a].tekst.nazwa
    BY <1>6 DEF Ustaw, Lokalne, IdUzywane, ZSprawdzonym, ZOddzialem
  <2>2. PICK yy \in Wiersze, xx \in Wiersze :
          yy = raport[a].tekst.y /\ xx = raport[a].tekst.x
    BY <2>1 DEF Poprawny
  <2>3. raport[a] \in obsluzone' /\ UNCHANGED nazwy_oddzialow
    BY <1>6 DEF Ustaw, Skoncz, rejestr
  <2>4. /\ mapa'[yy][xx] = id_oddzialu[a]
        /\ \A y, x \in Wiersze : y # yy \/ x # xx => mapa'[y][x] = mapa[y][x]
    BY <1>6, <2>2 DEF Ustaw, TypeOK
  <2>5. Pole(yy, xx)'
    BY <2>1, <2>2, <2>3, <2>4 DEF Poprawny
  <2>6. ASSUME NEW y \in Wiersze, NEW x \in Wiersze, y # yy \/ x # xx
        PROVE  Pole(y, x)'
    BY <1>1, <2>4, <2>6
  <2>. QED
    BY <2>5, <2>6 DEF PoleZMeldunku, Poprawny
<1>. QED
  BY <1>3, <1>4, <1>5, <1>6, KrokiLemma

-----------------------------------------------------------------------------
(* The invariant of the register holds in every state. *)
THEOREM RegisterInductive == Spec => []RInv
<1>1. Init => RInv
  <2> SUFFICES ASSUME Init PROVE RInv
    OBVIOUS
  <2>1. RekaPusta /\ JedenMeldunekOddzialu /\ RozkazMaAdres
    BY DEF Init, RekaPusta, JedenMeldunekOddzialu, RozkazMaAdres
  <2>2. IdUzywane
    BY DEF Init, IdUzywane, ZOddzialem
  <2>3. NazwyRozne /\ PoleZMeldunku
    BY DEF Init, NazwyRozne, PoleZMeldunku
  <2>. QED
    BY <2>1, <2>2, <2>3 DEF RInv
<1>2. IInv /\ IInv' /\ RInv /\ [Next]_vars => RInv'
  <2> SUFFICES ASSUME IInv, IInv', RInv, [Next]_vars PROVE RInv'
    OBVIOUS
  <2> USE DEF RInv
  <2>1. RekaPusta' /\ NazwyRozne'
    BY WzrostLemma, NazwyLemma
  <2>2. IdUzywane'
    BY IdLemma
  <2>3. JedenMeldunekOddzialu' /\ PoleZMeldunku'
    BY MeldunekLemma, PoleLemma
  <2>4. RozkazMaAdres'
    BY <2>2, <2>3, RozkazLemma
  <2>. QED
    BY <2>1, <2>2, <2>3, <2>4
<1>. QED
  BY <1>1, <1>2, Inductive, PTL DEF Spec

(* Two adjutants that meet a new unit at the same time never register it
   twice, whatever the size of the register and the number of adjutants. *)
THEOREM NamesUnique == Spec => []NazwyRozne
<1>1. RInv => NazwyRozne
  BY DEF RInv
<1>. QED
  BY <1>1, RegisterInductive, PTL

(* The affiliation and the last sender of a unit always stem from one report
   on that unit. *)
THEOREM OneReportPerUnit == Spec => []JedenMeldunekOddzialu
<1>1. RInv => JedenMeldunekOddzialu
  BY DEF RInv
<1>. QED
  BY <1>1, RegisterInductive, PTL

(* An order of napoleon_work goes to an address the unit was reported from,
   and some report called the unit an ally, although the address is read in a
   second section after the choice. *)
THEOREM OrdersAddressed == Spec => []RozkazMaAdres
<1>1. RInv => RozkazMaAdres
  BY DEF RInv
<1>. QED
  BY <1>1, RegisterInductive, PTL

(* A unit is on the map only where a handled report on it says. *)
THEOREM CellsReported == Spec => []PoleZMeldunku
<1>1. RInv => PoleZMeldunku
  BY DEF RInv
<1>. QED
  BY <1>1, RegisterInductive, PTL

(* Nothing seen is forgotten, and a name in the register never changes. *)
THEOREM RegisterGrows == Spec => [][Rosnie]_vars
<1>1. IInv /\ RInv /\ [Next]_vars => Rosnie
  BY WzrostLemma DEF RInv
<1>. QED
  BY <1>1, Inductive, RegisterInductive, PTL DEF Spec

-----------------------------------------------------------------------------
(* The counter of an adjutant is back at row 0 when it has cleared the map. *)
LEMMA OdPoczatkuLemma ==
  ASSUME IInv, OdPoczatku, [Next]_vars
  PROVE  OdPoczatku'
<1> USE DEF IInv, OdPoczatku
<1>1. CASE Ciche
  BY <1>1 DEF Ciche, lokalne, ZRaportem
<1>2. CASE KrokNapoleona
  BY <1>2 DEF KrokNapoleona, lokalne
<1>3. ASSUME NEW a \in Adiutanci, CzyscWiersz(a) PROVE OdPoczatku'
  <2>1. wiersz[a] + 1 >= ROZMIAR => (wiersz[a] + 1) % ROZMIAR = 0
    <3>1. wiersz[a] + 1 >= ROZMIAR => wiersz[a] + 1 = ROZMIAR
      BY StaleAssumption DEF TypeOK, Wiersze
    <3>2. ROZMIAR % ROZMIAR = 0
      BY StaleAssumption
    <3>. QED
      BY <3>1, <3>2
  <2>2. wiersz'[a] = (wiersz[a] + 1) % ROZMIAR
    BY <1>3 DEF CzyscWiersz, TypeOK
  <2>3. pc'[a] # "czysc" => wiersz[a] + 1 >= ROZMIAR
    BY <1>3, StaleAssumption DEF CzyscWiersz, Idz, TypeOK, Wiersze
  <2>4. \A b \in Adiutanci \ {a} : wiersz'[b] = wiersz[b] /\ pc'[b] = pc[b]
    BY <1>3 DEF CzyscWiersz, Idz, TypeOK
  <2>. QED
    BY <2>1, <2>2, <2>3, <2>4
<1>4. ASSUME NEW a \in Adiutanci,
             Zdejmij(a) \/ Parsuj(a) \/ Rejestruj(a) \/ Zapisz(a) \/ Ustaw(a)
      PROVE  OdPoczatku'
  <2>1. wiersz' = wiersz /\ pc[a] # "czysc"
    BY <1>4 DEF Zdejmij, Parsuj, Rejestruj, Zapisz, Ustaw, lokalne
  <2>2. \A b \in Adiutanci \ {a} : pc'[b] = pc[b]
    BY <1>4 DEF Zdejmij, Parsuj, Rejestruj, Zapisz, Ustaw, Skoncz, Idz, TypeOK
  <2>. QED
    BY <2>1, <2>2
<1>. QED
  BY <1>1, <1>2, <1>3, <1>4, KrokiLemma

(* When unit i gains no cell, the owners of its cells remain, as long as the
   step respects what is said of adjutants that clear or have cleared. *)
LEMMA WlascicieleZostaja ==
  ASSUME NEW i \in Id, NEW f \in [Pola(i) -> Adiutanci], Wlasciciele(i, f),
         Pola(i)' \subseteq Pola(i),
         \A p \in Pola(i)' : id_oddzialu'[f[p]] = i =>
           /\ pc'[f[p]] = "czysc" => p[1] >= wiersz'[f[p]]
           /\ pc'[f[p]] # "ustaw"
  PROVE  \E g \in [Pola(i)' -> Adiutanci] : Wlasciciele(i, g)'
<1> DEFINE g == [p \in Pola(i)' |-> f[p]]
<1>1. g \in [Pola(i)' -> Adiutanci] /\ \A p \in Pola(i)' : g[p] = f[p]
  OBVIOUS
<1> HIDE DEF g
<1>2. PICK h \in [Pola(i)' -> Adiutanci] : h = g
  BY <1>1
<1>3. Wlasciciele(i, h)'
  BY <1>1, <1>2 DEF Wlasciciele
<1>. QED
  BY <1>3

(* Steps that leave the map alone: an adjutant that starts clearing does so
   from row 0, one that clears or has cleared goes on as before. *)
LEMMA MapaBezZmian ==
  ASSUME IInv, OdPoczatku, NEW i \in Id, NEW f \in [Pola(i) -> Adiutanci],
         Wlasciciele(i, f), UNCHANGED mapa,
         \A b \in Adiutanci : pc'[b] \in {"czysc", "ustaw"} =>
           /\ id_oddzialu'[b] = id_oddzialu[b] /\ wiersz'[b] = wiersz[b]
           /\ pc'[b] = pc[b] \/ (pc[b] = "zapisz" /\ pc'[b] = "czysc")
  PROVE  \E g \in [Pola(i)' -> Adiutanci] : Wlasciciele(i, g)'
<1>1. Pola(i)' = Pola(i)
  BY DEF Pola
<1>2. ASSUME NEW p \in Pola(i), id_oddzialu'[f[p]] = i
      PROVE  /\ pc'[f[p]] = "czysc" => p[1] >= wiersz'[f[p]]
             /\ pc'[f[p]] # "ustaw"
  <2>1. p[1] \in Nat /\ f[p] \in Adiutanci
    BY DEF Pola, Wiersze
  <2>2. pc[f[p]] = "zapisz" => wiersz[f[p]] = 0
    BY <2>1 DEF OdPoczatku
  <2>. QED
    BY <1>2, <2>1, <2>2 DEF Wlasciciele
<1>. QED
  BY <1>1, <1>2, WlascicieleZostaja

(* A cleared row holds no cell of the unit, so of the cells of an adjutant
   that clears only the rows ahead of it remain. *)
LEMMA MapaCzysc ==
  ASSUME IInv, OdPoczatku, NEW i \in Id, NEW f \in [Pola(i) -> Adiutanci],
         Wlasciciele(i, f), NEW a \in Adiutanci, CzyscWiersz(a)
  PROVE  \E g \in [Pola(i)' -> Adiutanci] : Wlasciciele(i, g)'
<1> USE StaleAssumption DEF IInv
<1>1. wiersz[a] \in Wiersze /\ id_oddzialu[a] \in Id
  BY DEF CzyscWiersz, TypeOK, Lokalne, ZOddzialem
<1>2. \A y, x \in Wiersze :
        mapa'[y][x] = IF y = wiersz[a] /\ mapa[y][x] = id_oddzialu[a] THEN -1
                      ELSE mapa[y][x]
  BY <1>1 DEF CzyscWiersz, TypeOK
<1>3. \A p \in Pola(i)' : p \in Pola(i) /\ (id_oddzialu[a] = i => p[1] # wiersz[a])
  BY <1>1, <1>2 DEF Pola, Id
<1>4. ASSUME NEW p \in Pola(i)', id_oddzialu'[f[p]] = i
      PROVE  /\ pc'[f[p]] = "czysc" => p[1] >= wiersz'[f[p]]
             /\ pc'[f[p]] # "ustaw"
  <2>0. p \in Pola(i) /\ f[p] \in Adiutanci /\ p[1] \in Wiersze
    BY <1>3 DEF Pola
  <2>1. CASE f[p] # a
    BY <1>4, <2>0, <2>1 DEF CzyscWiersz, Idz, TypeOK, Wlasciciele
  <2>2. CASE f[p] = a
    <3>1. id_oddzialu[a] = i /\ pc[a] = "czysc"
      BY <1>4, <2>2 DEF CzyscWiersz
    <3>2. p[1] >= wiersz[a] /\ p[1] # wiersz[a]
      BY <1>3, <2>0, <2>2, <3>1 DEF Wlasciciele
    <3>3. wiersz[a] + 1 < ROZMIAR /\ p[1] >= wiersz[a] + 1
      BY <1>1, <2>0, <3>2 DEF Wiersze
    <3>4. pc'[a] = "czysc"
      BY <3>3 DEF CzyscWiersz, Idz, TypeOK
    <3>5. wiersz'[a] = wiersz[a] + 1
      <4>1. (wiersz[a] + 1) % ROZMIAR = wiersz[a] + 1
        BY <1>1, <3>3 DEF Wiersze
      <4>. QED
        BY <4>1 DEF CzyscWiersz, TypeOK
    <3>. QED
      BY <2>2, <3>3, <3>4, <3>5
  <2>. QED
    BY <2>1, <2>2
<1>. QED
  BY <1>3, <1>4, WlascicieleZostaja

(* The adjutant that puts unit j down owned no cell of j any more: it owns the
   new one.  Another unit can only lose that cell. *)
LEMMA MapaUstaw ==
  ASSUME IInv, OdPoczatku, NEW i \in Id, NEW f \in [Pola(i) -> Adiutanci],
         Wlasciciele(i, f), NEW a \in Adiutanci, Ustaw(a)
  PROVE  \E g \in [Pola(i)' -> Adiutanci] : Wlasciciele(i, g)'
<1> USE DEF IInv
<1>1. Poprawny(raport[a].tekst) /\ id_oddzialu[a] \in Id
  BY DEF Ustaw, Lokalne, ZSprawdzonym, ZOddzialem
<1>2. PICK yy \in Wiersze, xx \in Wiersze :
        yy = raport[a].tekst.y /\ xx = raport[a].tekst.x
  BY <1>1 DEF Poprawny
<1>3. \A y, x \in Wiersze :
        mapa'[y][x] = IF y = yy /\ x = xx THEN id_oddzialu[a] ELSE mapa[y][x]
  BY <1>2 DEF Ustaw, TypeOK
<1>4. /\ id_oddzialu'[a] = -1
      /\ \A b \in Adiutanci \ {a} :
           pc'[b] = pc[b] /\ wiersz'[b] = wiersz[b] /\ id_oddzialu'[b] = id_oddzialu[b]
  BY DEF Ustaw, Skoncz, Idz, TypeOK
<1>5. CASE id_oddzialu[a] # i
  <2>1. \A p \in Pola(i)' : p \in Pola(i)
    BY <1>3, <1>5 DEF Pola
  <2>2. ASSUME NEW p \in Pola(i)', id_oddzialu'[f[p]] = i
        PROVE  /\ pc'[f[p]] = "czysc" => p[1] >= wiersz'[f[p]]
               /\ pc'[f[p]] # "ustaw"
    <3>1. p \in Pola(i) /\ f[p] \in Adiutanci
      BY <2>1
    <3>2. f[p] # a
      BY <1>4, <2>2 DEF Id
    <3>. QED
      BY <1>4, <2>2, <3>1, <3>2 DEF Wlasciciele
  <2>. QED
    BY <2>1, <2>2, WlascicieleZostaja
<1>6. CASE id_oddzialu[a] = i
  <2> DEFINE c == <<yy, xx>>
             g == [p \in Pola(i)' |-> IF p = c THEN a ELSE f[p]]
  <2>1. \A p \in Pola(i) : f[p] # a
    BY <1>6 DEF Wlasciciele, Ustaw
  <2>2. \A p \in Pola(i)' : p = c \/ p \in Pola(i)
    BY <1>3, <1>6 DEF Pola
  <2>3. /\ g \in [Pola(i)' -> Adiutanci]
        /\ \A p \in Pola(i)' : g[p] = IF p = c THEN a ELSE f[p]
    BY <2>2
  <2> HIDE DEF g
  <2>4. PICK h \in [Pola(i)' -> Adiutanci] : h = g
    BY <2>3
  <2>5. \A p, q \in Pola(i)' : h[p] = h[q] => p = q
    BY <2>1, <2>2, <2>3, <2>4 DEF Wlasciciele
  <2>6. ASSUME NEW p \in Pola(i)', id_oddzialu'[h[p]] = i
        PROVE  /\ pc'[h[p]] = "czysc" => p[1] >= wiersz'[h[p]]
               /\ pc'[h[p]] # "ustaw"
    <3>1. h[p] # a
      BY <1>4, <2>6 DEF Id
    <3>2. p \in Pola(i) /\ h[p] = f[p] /\ h[p] \in Adiutanci
      BY <2>2, <2>3, <2>4, <3>1
    <3>. QED
      BY <1>4, <2>6, <3>1, <3>2 DEF Wlasciciele
  <2>. QED
    BY <2>5, <2>6 DEF Wlasciciele
<1>. QED
  BY <1>5, <1>6

(* The invariant of the map holds in every state. *)
THEOREM MapInductive == Spec => []MInv
<1>1. Init => MInv
  <2> SUFFICES ASSUME Init PROVE MInv
    OBVIOUS
  <2>1. OdPoczatku
    BY DEF Init, OdPoczatku
  <2>2. ASSUME NEW i \in Id PROVE \E f \in [Pola(i) -> Adiutanci] : Wlasciciele(i, f)
    <3>1. Pola(i) = {}
      BY DEF Init, Pola, Id
    <3>2. [p \in {} |-> Nikt] \in [Pola(i) -> Adiutanci]
      BY <3>1
    <3>. QED
      BY <3>1, <3>2 DEF Wlasciciele
  <2>. QED
    BY <2>1, <2>2 DEF MInv
<1>2. IInv /\ MInv /\ [Next]_vars => MInv'
  <2> SUFFICES ASSUME IInv, MInv, [Next]_vars PROVE MInv'
    OBVIOUS
  <2> USE DEF MInv
  <2>1. OdPoczatku'
    BY OdPoczatkuLemma
  <2>2. ASSUME NEW i \in Id PROVE \E g \in [Pola(i)' -> Adiutanci] : Wlasciciele(i, g)'
    <3>0. PICK f \in [Pola(i) -> Adiutanci] : Wlasciciele(i, f)
      OBVIOUS
    <3>1. CASE Ciche
      BY <3>0, <3>1, MapaBezZmian DEF Ciche, lokalne, ZRaportem
    <3>2. CASE KrokNapoleona
      BY <3>0, <3>2, MapaBezZmian DEF KrokNapoleona, lokalne
    <3>3. ASSUME NEW a \in Adiutanci, Zdejmij(a) \/ Parsuj(a) \/ Rejestruj(a) \/ Zapisz(a)
          PROVE  \E g \in [Pola(i)' -> Adiutanci] : Wlasciciele(i, g)'
      <4>1. UNCHANGED mapa
        BY <3>3 DEF Zdejmij, Parsuj, Rejestruj, Zapisz
      <4>2. \A b \in Adiutanci \ {a} :
              pc'[b] = pc[b] /\ wiersz'[b] = wiersz[b] /\ id_oddzialu'[b] = id_oddzialu[b]
        BY <3>3 DEF IInv, Zdejmij, Parsuj, Rejestruj, Zapisz, Skoncz, Idz, TypeOK, lokalne
      <4>3. pc'[a] \in {"czysc", "ustaw"} =>
              /\ id_oddzialu'[a] = id_oddzialu[a] /\ wiersz'[a] = wiersz[a]
              /\ pc[a] = "zapisz" /\ pc'[a] = "czysc"
        BY <3>3 DEF IInv, Zdejmij, Parsuj, Rejestruj, Zapisz, Skoncz, Idz, TypeOK, lokalne
      <4>. QED
        BY <3>0, <4>1, <4>2, <4>3, MapaBezZmian
    <3>. QED
      BY <3>0, <3>1, <3>2, <3>3, MapaCzysc, MapaUstaw, KrokiLemma DEF IInv
  <2>. QED
    BY <2>1, <2>2
<1>. QED
  BY <1>1, <1>2, Inductive, PTL DEF Spec

(* Concurrent reports on one unit leave it on at most as many cells as there
   are adjutants, however the clearing of the rows and the placements of
   several adjutants interleave. *)
THEOREM AtMostOneCellPerAdjutant == Spec => []NajwyzejPoJednymNaAdiutanta
<1>1. MInv => NajwyzejPoJednymNaAdiutanta
  <2> SUFFICES ASSUME MInv, NEW i \in Id
               PROVE  Cardinality(Pola(i)) <= Cardinality(Adiutanci)
    BY DEF NajwyzejPoJednymNaAdiutanta
  <2>1. PICK f \in [Pola(i) -> Adiutanci] : Wlasciciele(i, f)
    BY DEF MInv
  <2>2. f \in Injection(Pola(i), Adiutanci)
    BY <2>1 DEF Wlasciciele, Injection, IsInjective
  <2>. QED
    BY <2>2, FS_Injection, AdiutanciAssumption
<1>. QED
  BY <1>1, MapInductive, PTL
=============================================================================
