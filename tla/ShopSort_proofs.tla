--------------------------- MODULE ShopSort_proofs ---------------------------
(***************************************************************************)
(* Proofs about ShopSort, for any number of shelves, workers and rounds:   *)
(* typing, that workers who swap at the same time neither lose nor         *)
(* duplicate a product, and that no step makes the shelves less sorted.    *)
(***************************************************************************)
EXTENDS ShopSort, FiniteSetTheorems, WellFoundedInduction, TLAPS

(* Where a worker holds the mutex of its lower and of its higher shelf. *)
ZLow == {"lock_high", "porownaj", "swap", "swap_low", "unlock_high", "unlock_low"}
ZHigh == {"porownaj", "swap", "swap_low", "unlock_high"}

(* The mutexes a worker holds, and the order in which it took them. *)
Blokady ==
  \A p \in Pracownicy :
    /\ low[p] < high[p]
    /\ pc[p] \in ZLow => mutexes[low[p]] = p
    /\ pc[p] \in ZHigh => mutexes[high[p]] = p
    /\ pc[p] \in ZLow \cup {"lock_low"} => runda[p] < ITERACJE

(* What a worker that swaps knows of its two shelves: nobody else writes them.
   Half way through, its lower shelf is still to receive tmp. *)
Zamiana ==
  \A p \in Pracownicy :
    /\ pc[p] = "swap" => shelves[low[p]] > shelves[high[p]]
    /\ pc[p] = "swap_low" => tmp[p] \in Produkty

Skonczyli == {p \in Pracownicy : pc[p] = "koniec"}

(* The manager compares two neighbours; ile counts those who have finished. *)
Dozor ==
  /\ kierownik = "porownaj" => indeks < N
  /\ ile = Cardinality(Skonczyli)

(* The inductive invariant. *)
IInv == TypeOK /\ Blokady /\ Zamiana /\ Dozor /\ TowarZachowany

-----------------------------------------------------------------------------
(* The initial state satisfies the inductive invariant. *)
LEMMA InitIInv == Init => IInv
<1> SUFFICES ASSUME Init PROVE IInv
  OBVIOUS
<1> USE StaleAssumption
<1>1. TypeOK
  <2>1. Cardinality(Pracownicy) \in Nat
    BY FS_CardinalityType
  <2>2. sd_mutex \in BOOLEAN
    BY Zenon DEF Init
  <2>3. /\ 0 \in Polki /\ 1 \in Polki /\ 1 \in 1..N /\ 0 \in 0..ITERACJE
        /\ 0 \in 0..Cardinality(Pracownicy)
    BY <2>1 DEF Polki
  <2>. QED
    BY <2>2, <2>3 DEF Init, TypeOK
<1>2. Blokady /\ Zamiana
  BY DEF Init, Blokady, Zamiana, ZLow, ZHigh
<1>3. Dozor
  <2>1. Skonczyli = {}
    BY DEF Init, Skonczyli
  <2>. QED
    BY <2>1, FS_EmptySet DEF Init, Dozor
<1>4. TowarZachowany
  <2>1. \A i \in Polki : Docelowe[i] = shelves[i]
    BY DEF Init, Docelowe
  <2>. QED
    BY <2>1 DEF Init, TowarZachowany, Permutacja
<1>. QED
  BY <1>1, <1>2, <1>3, <1>4 DEF IInv

(* Typing. *)
LEMMA TypLemma ==
  ASSUME IInv, Dozor', [Next]_vars
  PROVE  TypeOK'
<1> USE StaleAssumption DEF IInv, praca, dozor
<1>0. Cardinality(Pracownicy) \in Nat
  BY FS_CardinalityType
<1>1. sd_mutex' \in BOOLEAN
  <2>1. CASE sd_mutex' = sd_mutex
    BY <2>1, Zenon DEF TypeOK
  <2>. QED
    BY <2>1, Zenon DEF Next, KrokPracownika, KrokKierownika, Zbudz, CzytajLewa, CzytajPrawa,
                       Oglos, KoniecZmiany, vars
<1>2. ile' \in 0..Cardinality(Pracownicy)
  <2>1. Skonczyli' \in SUBSET Pracownicy
    BY DEF Skonczyli
  <2>2. /\ Cardinality(Skonczyli') <= Cardinality(Pracownicy)
        /\ Cardinality(Skonczyli') \in Nat
    BY <2>1, FS_Subset, FS_CardinalityType
  <2>. QED
    BY <1>0, <2>2 DEF Dozor
<1>3. CASE UNCHANGED vars
  BY <1>1, <1>3 DEF vars, TypeOK
<1>4. ASSUME NEW p \in Pracownicy, KrokPracownika(p) PROVE TypeOK'
  <2>0. UNCHANGED <<kierownik, indeks, lewa, zmiana>>
    BY <1>4 DEF KrokPracownika
  <2>1. CASE Wybierz(p)
    <3>1. low' \in [Pracownicy -> Polki] /\ high' \in [Pracownicy -> Polki]
      BY <2>1 DEF Wybierz, TypeOK
    <3>. QED
      BY <1>1, <1>2, <2>0, <2>1, <3>1 DEF Wybierz, Idz, TypeOK
  <2>2. CASE Przerwij(p) \/ Porownaj(p) \/ Melduj(p)
    <3>1. CASE Porownaj(p)
      BY <1>1, <1>2, <2>0, <3>1 DEF Porownaj, Idz, TypeOK
    <3>2. CASE Przerwij(p) \/ Melduj(p)
      BY <1>1, <1>2, <2>0, <3>2 DEF Przerwij, Melduj, Idz, TypeOK
    <3>. QED
      BY <2>2, <3>1, <3>2
  <2>3. CASE BlokujLow(p) \/ BlokujHigh(p)
    BY <1>1, <1>2, <2>0, <2>3 DEF BlokujLow, BlokujHigh, Idz, TypeOK
  <2>4. CASE SwapHigh(p)
    BY <1>1, <1>2, <2>0, <2>4 DEF SwapHigh, Idz, TypeOK
  <2>5. CASE SwapLow(p)
    <3>1. tmp[p] \in Produkty
      BY <2>5 DEF SwapLow, Zamiana
    <3>. QED
      BY <1>1, <1>2, <2>0, <2>5, <3>1 DEF SwapLow, Idz, TypeOK
  <2>6. CASE OdblokujHigh(p)
    BY <1>1, <1>2, <2>0, <2>6 DEF OdblokujHigh, Idz, TypeOK
  <2>7. CASE OdblokujLow(p)
    <3>1. runda[p] + 1 \in 0..ITERACJE
      BY <2>7 DEF OdblokujLow, TypeOK, Blokady, ZLow
    <3>2. runda' \in [Pracownicy -> 0..ITERACJE]
      BY <2>7, <3>1 DEF OdblokujLow, TypeOK
    <3>. QED
      BY <1>1, <1>2, <2>0, <2>7, <3>2 DEF OdblokujLow, Idz, TypeOK
  <2>. QED
    BY <1>4, <2>1, <2>2, <2>3, <2>4, <2>5, <2>6, <2>7 DEF KrokPracownika
<1>5. CASE KrokKierownika
  <2>0. UNCHANGED <<shelves, mutexes, pc, runda, low, high, tmp, zmiana>>
    BY <1>5 DEF KrokKierownika
  <2>1. /\ running' \in {0, 1}
        /\ kierownik' \in {"spi", "czytaj", "porownaj", "koniec", "oglosil"}
    BY <1>5 DEF KrokKierownika, Zbudz, CzytajLewa, CzytajPrawa, Oglos, TypeOK
  <2>2. indeks' \in 1..N
    BY <1>5 DEF KrokKierownika, Zbudz, CzytajLewa, CzytajPrawa, Oglos, TypeOK, Dozor
  <2>3. lewa' \in Produkty \cup {0}
    <3>1. indeks < N => shelves[indeks - 1] \in Produkty
      BY DEF TypeOK, Polki
    <3>. QED
      BY <1>5, <3>1 DEF KrokKierownika, Zbudz, CzytajLewa, CzytajPrawa, Oglos, TypeOK
  <2>. QED
    BY <1>1, <1>2, <2>0, <2>1, <2>2, <2>3 DEF TypeOK
<1>6. CASE KoniecZmiany
  BY <1>1, <1>2, <1>6 DEF KoniecZmiany, TypeOK
<1>. QED
  BY <1>3, <1>4, <1>5, <1>6 DEF Next

(* The manager's counter, and the count of the finished workers. *)
LEMMA DozorLemma ==
  ASSUME IInv, [Next]_vars
  PROVE  Dozor'
<1> USE StaleAssumption DEF IInv, praca, dozor
<1>0. IsFiniteSet(Skonczyli)
  BY FS_Subset DEF Skonczyli
<1>1. CASE UNCHANGED vars
  BY <1>1 DEF vars, Dozor, Skonczyli
<1>2. ASSUME NEW p \in Pracownicy, KrokPracownika(p) PROVE Dozor'
  <2>1. CASE Melduj(p)
    <3>1. Skonczyli' = Skonczyli \cup {p} /\ p \notin Skonczyli
      BY <2>1 DEF Melduj, Idz, Skonczyli, TypeOK
    <3>2. Cardinality(Skonczyli') = Cardinality(Skonczyli) + 1
      BY <1>0, <3>1, FS_AddElement
    <3>. QED
      BY <1>2, <2>1, <3>2 DEF KrokPracownika, Melduj, Dozor
  <2>2. CASE ~Melduj(p)
    <3>1. ile' = ile /\ pc[p] # "koniec" /\ \E m : m # "koniec" /\ pc' = [pc EXCEPT ![p] = m]
      BY <1>2, <2>2 DEF KrokPracownika, Wybierz, Przerwij, BlokujLow, BlokujHigh, Porownaj,
                        SwapHigh, SwapLow, OdblokujHigh, OdblokujLow, Idz
    <3>2. Skonczyli' = Skonczyli
      BY <3>1 DEF Skonczyli, TypeOK
    <3>. QED
      BY <1>2, <3>1, <3>2 DEF KrokPracownika, Dozor
  <2>. QED
    BY <2>1, <2>2
<1>3. CASE KrokKierownika
  <2>1. Skonczyli' = Skonczyli /\ ile' = ile
    BY <1>3 DEF KrokKierownika, Skonczyli
  <2>2. kierownik' = "porownaj" => indeks' < N'
    BY <1>3 DEF KrokKierownika, Zbudz, CzytajLewa, CzytajPrawa, Oglos
  <2>. QED
    BY <2>1, <2>2 DEF Dozor
<1>4. CASE KoniecZmiany
  BY <1>4 DEF KoniecZmiany, Dozor, Skonczyli
<1>. QED
  BY <1>1, <1>2, <1>3, <1>4 DEF Next

-----------------------------------------------------------------------------
(* A worker that holds the mutex of a shelf is alone there. *)
LEMMA WylacznoscLemma ==
  ASSUME IInv, NEW p \in Pracownicy, NEW q \in Pracownicy, p # q
  PROVE  /\ pc[p] \in ZLow /\ pc[q] \in ZLow => low[p] # low[q]
         /\ pc[p] \in ZHigh /\ pc[q] \in ZLow => high[p] # low[q]
         /\ pc[p] \in ZLow /\ pc[q] \in ZHigh => low[p] # high[q]
         /\ pc[p] \in ZHigh /\ pc[q] \in ZHigh => high[p] # high[q]
BY DEF IInv, Blokady

(* A step of worker p changes the place and the locals of p only. *)
LEMMA InniLemma ==
  ASSUME IInv, NEW p \in Pracownicy, KrokPracownika(p), NEW q \in Pracownicy, q # p
  PROVE  /\ pc'[q] = pc[q] /\ low'[q] = low[q] /\ high'[q] = high[q]
         /\ tmp'[q] = tmp[q] /\ runda'[q] = runda[q]
<1>1. /\ \E m : pc' = [pc EXCEPT ![p] = m]
      /\ \E m : low' = [low EXCEPT ![p] = m]
      /\ \E m : high' = [high EXCEPT ![p] = m]
      /\ \E m : tmp' = [tmp EXCEPT ![p] = m]
      /\ \E m : runda' = [runda EXCEPT ![p] = m]
  <2> USE DEF IInv, Idz
  <2>0. /\ pc = [pc EXCEPT ![p] = pc[p]] /\ low = [low EXCEPT ![p] = low[p]]
        /\ high = [high EXCEPT ![p] = high[p]] /\ tmp = [tmp EXCEPT ![p] = tmp[p]]
        /\ runda = [runda EXCEPT ![p] = runda[p]]
    BY DEF TypeOK
  <2>1. CASE Wybierz(p)
    BY <2>0, <2>1 DEF Wybierz
  <2>2. CASE Przerwij(p) \/ Porownaj(p) \/ Melduj(p)
    BY <2>0, <2>2 DEF Przerwij, Porownaj, Melduj
  <2>3. CASE BlokujLow(p) \/ BlokujHigh(p) \/ OdblokujHigh(p)
    BY <2>0, <2>3 DEF BlokujLow, BlokujHigh, OdblokujHigh
  <2>4. CASE SwapHigh(p) \/ SwapLow(p)
    BY <2>0, <2>4 DEF SwapHigh, SwapLow
  <2>5. CASE OdblokujLow(p)
    BY <2>0, <2>5 DEF OdblokujLow
  <2>. QED
    BY <2>1, <2>2, <2>3, <2>4, <2>5 DEF KrokPracownika
<1>. QED
  BY <1>1 DEF IInv, TypeOK

(* A worker takes only free mutexes and gives back only its own. *)
LEMMA BlokadyLemma ==
  ASSUME IInv, TypeOK', [Next]_vars
  PROVE  Blokady'
<1> USE StaleAssumption DEF IInv, praca
<1>1. CASE UNCHANGED vars
  BY <1>1 DEF vars, Blokady
<1>2. ASSUME NEW p \in Pracownicy, KrokPracownika(p) PROVE Blokady'
  <2> DEFINE Trzyma(q) == /\ low[q] < high[q]
                          /\ pc[q] \in ZLow => mutexes[low[q]] = q
                          /\ pc[q] \in ZHigh => mutexes[high[q]] = q
                          /\ pc[q] \in ZLow \cup {"lock_low"} => runda[q] < ITERACJE
  <2>1. Trzyma(p)'
    <3> USE DEF Blokady, TypeOK, Idz, ZLow, ZHigh
    <3>1. CASE Wybierz(p)
      <4>1. PICK s1 \in Polki, s2 \in Polki :
              /\ s1 < s2 /\ low' = [low EXCEPT ![p] = s1] /\ high' = [high EXCEPT ![p] = s2]
        BY <3>1 DEF Wybierz
      <4>. QED
        BY <3>1, <4>1 DEF Wybierz
    <3>2. CASE Przerwij(p) \/ Melduj(p)
      BY <3>2 DEF Przerwij, Melduj
    <3>3. CASE BlokujLow(p)
      BY <3>3 DEF BlokujLow
    <3>4. CASE BlokujHigh(p)
      BY <3>4 DEF BlokujHigh, Polki
    <3>5. CASE Porownaj(p)
      BY <3>5 DEF Porownaj
    <3>6. CASE SwapHigh(p) \/ SwapLow(p)
      BY <3>6 DEF SwapHigh, SwapLow
    <3>7. CASE OdblokujHigh(p)
      BY <3>7 DEF OdblokujHigh, Polki
    <3>8. CASE OdblokujLow(p)
      BY <3>8 DEF OdblokujLow
    <3>. QED
      BY <1>2, <3>1, <3>2, <3>3, <3>4, <3>5, <3>6, <3>7, <3>8 DEF KrokPracownika
  <2>2. ASSUME NEW q \in Pracownicy, q # p PROVE Trzyma(q)'
    <3>1. /\ pc'[q] = pc[q] /\ low'[q] = low[q] /\ high'[q] = high[q] /\ runda'[q] = runda[q]
      BY <1>2, <2>2, InniLemma
    <3>2. \A i \in Polki : mutexes[i] = q => mutexes'[i] = q
      <4> USE DEF TypeOK, Blokady, ZLow, ZHigh
      <4>1. CASE BlokujLow(p) \/ BlokujHigh(p)
        BY <4>1 DEF BlokujLow, BlokujHigh
      <4>2. CASE OdblokujHigh(p)
        BY <2>2, <4>2 DEF OdblokujHigh
      <4>3. CASE OdblokujLow(p)
        BY <2>2, <4>3 DEF OdblokujLow
      <4>4. CASE mutexes' = mutexes
        BY <4>4
      <4>. QED
        BY <1>2, <4>1, <4>2, <4>3, <4>4
        DEF KrokPracownika, Wybierz, Przerwij, Porownaj, SwapHigh, SwapLow, Melduj
    <3>3. low[q] \in Polki /\ high[q] \in Polki
      BY DEF TypeOK
    <3>. QED
      BY <3>1, <3>2, <3>3 DEF Blokady
  <2>. QED
    BY <2>1, <2>2 DEF Blokady
<1>3. CASE KrokKierownika
  BY <1>3 DEF KrokKierownika, Blokady
<1>4. CASE KoniecZmiany
  BY <1>4 DEF KoniecZmiany, Blokady
<1>. QED
  BY <1>1, <1>2, <1>3, <1>4 DEF Next

(* Nobody else writes the shelves of a worker that swaps. *)
LEMMA ZamianaLemma ==
  ASSUME IInv, TypeOK', [Next]_vars
  PROVE  Zamiana'
<1> USE StaleAssumption DEF IInv, praca
<1>1. CASE UNCHANGED vars
  BY <1>1 DEF vars, Zamiana
<1>2. ASSUME NEW p \in Pracownicy, KrokPracownika(p) PROVE Zamiana'
  <2> DEFINE Wie(q) == /\ pc[q] = "swap" => shelves[low[q]] > shelves[high[q]]
                       /\ pc[q] = "swap_low" => tmp[q] \in Produkty
  <2>1. Wie(p)'
    <3> USE DEF Zamiana, TypeOK, Idz
    <3>1. CASE Porownaj(p)
      BY <3>1 DEF Porownaj
    <3>2. CASE SwapHigh(p)
      BY <3>2 DEF SwapHigh
    <3>3. CASE pc'[p] \notin {"swap", "swap_low"}
      BY <3>3
    <3>. QED
      BY <1>2, <3>1, <3>2, <3>3
      DEF KrokPracownika, Wybierz, Przerwij, BlokujLow, BlokujHigh, SwapLow, OdblokujHigh,
          OdblokujLow, Melduj
  <2>2. ASSUME NEW q \in Pracownicy, q # p PROVE Wie(q)'
    <3>1. /\ pc'[q] = pc[q] /\ low'[q] = low[q] /\ high'[q] = high[q] /\ tmp'[q] = tmp[q]
      BY <1>2, <2>2, InniLemma
    <3>2. ASSUME pc[q] = "swap"
          PROVE  shelves'[low[q]] = shelves[low[q]] /\ shelves'[high[q]] = shelves[high[q]]
      <4>1. CASE SwapHigh(p)
        <5>1. high[p] # low[q] /\ high[p] # high[q]
          BY <2>2, <3>2, <4>1, WylacznoscLemma DEF SwapHigh, ZLow, ZHigh
        <5>. QED
          BY <4>1, <5>1 DEF SwapHigh, TypeOK
      <4>2. CASE SwapLow(p)
        <5>1. low[p] # low[q] /\ low[p] # high[q]
          BY <2>2, <3>2, <4>2, WylacznoscLemma DEF SwapLow, ZLow, ZHigh
        <5>. QED
          BY <4>2, <5>1 DEF SwapLow, TypeOK
      <4>. QED
        BY <1>2, <4>1, <4>2
        DEF KrokPracownika, Wybierz, Przerwij, BlokujLow, BlokujHigh, Porownaj, OdblokujHigh,
            OdblokujLow, Melduj
    <3>. QED
      BY <3>1, <3>2 DEF Zamiana
  <2>. QED
    BY <2>1, <2>2 DEF Zamiana
<1>3. CASE KrokKierownika
  BY <1>3 DEF KrokKierownika, Zamiana
<1>4. CASE KoniecZmiany
  BY <1>4 DEF KoniecZmiany, Zamiana
<1>. QED
  BY <1>1, <1>2, <1>3, <1>4 DEF Next

-----------------------------------------------------------------------------
Mocne == TypeOK /\ Blokady /\ Zamiana

(* The shelf of a swap that has begun holds, in effect, the product in the
   hands of the one worker that swaps there; any other shelf what is on it. *)
OpisDocelowych ==
  /\ Docelowe \in [Polki -> Produkty]
  /\ \A p \in Pracownicy : pc[p] = "swap_low" => Docelowe[low[p]] = tmp[p]
  /\ \A i \in Polki :
       (\A p \in Pracownicy : pc[p] = "swap_low" => low[p] # i) => Docelowe[i] = shelves[i]

(* OpisDocelowych describes Docelowe, because a mutex has one holder. *)
LEMMA OpisLemma == Mocne => OpisDocelowych
<1> SUFFICES ASSUME Mocne PROVE OpisDocelowych
  OBVIOUS
<1> USE DEF Mocne
<1> DEFINE Tu(i, p) == p \in Pracownicy /\ pc[p] = "swap_low" /\ low[p] = i
           kto(i) == CHOOSE p \in Pracownicy : pc[p] = "swap_low" /\ low[p] = i
<1>1. ASSUME NEW i \in Polki, NEW p, Tu(i, p) PROVE kto(i) = p
  <2>1. Tu(i, kto(i))
    BY <1>1
  <2> HIDE DEF kto
  <2>. QED
    BY <1>1, <2>1 DEF Blokady, ZLow
<1>2. ASSUME NEW i \in Polki, NEW p, Tu(i, p)
      PROVE  Docelowe[i] = tmp[p] /\ Docelowe[i] \in Produkty
  <2>1. Docelowe[i] = tmp[kto(i)]
    BY <1>2 DEF Docelowe
  <2> HIDE DEF kto
  <2>. QED
    BY <1>1, <1>2, <2>1 DEF Zamiana
<1>3. ASSUME NEW i \in Polki, \A p \in Pracownicy : pc[p] = "swap_low" => low[p] # i
      PROVE  Docelowe[i] = shelves[i] /\ Docelowe[i] \in Produkty
  BY <1>3 DEF Docelowe, TypeOK
<1>4. Docelowe \in [Polki -> Produkty]
  <2>1. Docelowe = [i \in Polki |-> Docelowe[i]]
    BY DEF Docelowe
  <2>2. \A i \in Polki : Docelowe[i] \in Produkty
    BY <1>2, <1>3
  <2>. QED
    BY <2>1, <2>2
<1>5. \A p \in Pracownicy : pc[p] = "swap_low" => Docelowe[low[p]] = tmp[p]
  BY <1>2 DEF TypeOK
<1>. QED
  BY <1>3, <1>4, <1>5 DEF OpisDocelowych

(* The products of shelves l and h exchanged. *)
Zamienione(s, l, h) == [i \in Polki |-> IF i = l THEN s[h] ELSE IF i = h THEN s[l] ELSE s[i]]

WymianaPary(s, t) == \E l, h \in Polki : l < h /\ s[l] > s[h] /\ t = Zamienione(s, l, h)

(* The swap takes effect with its first write, and exchanges a pair that was
   out of order; no other step has an effect. *)
LEMMA EfektLemma ==
  ASSUME IInv, Mocne', [Next]_vars
  PROVE  Docelowe' = Docelowe \/ WymianaPary(Docelowe, Docelowe')
<1> USE DEF IInv, praca
<1>0. OpisDocelowych /\ OpisDocelowych'
  <2>1. Mocne' => OpisDocelowych'
    BY OpisLemma, PTL
  <2>. QED
    BY <2>1, OpisLemma DEF Mocne
<1>1. CASE UNCHANGED <<shelves, pc, low, tmp>>
  BY <1>1 DEF Docelowe
<1>2. ASSUME NEW p \in Pracownicy, KrokPracownika(p)
      PROVE  Docelowe' = Docelowe \/ WymianaPary(Docelowe, Docelowe')
  <2>0. \A q \in Pracownicy : q # p =>
          pc'[q] = pc[q] /\ low'[q] = low[q] /\ high'[q] = high[q] /\ tmp'[q] = tmp[q]
    BY <1>2, InniLemma
  <2>1. CASE SwapHigh(p)
    <3> DEFINE l == low[p]
               h == high[p]
    <3>1. /\ l \in Polki /\ h \in Polki /\ l < h /\ shelves[l] > shelves[h]
          /\ pc[p] = "swap" /\ pc'[p] = "swap_low" /\ low'[p] = l
          /\ tmp'[p] = shelves[h]
          /\ shelves'[h] = shelves[l]
          /\ \A i \in Polki : i # h => shelves'[i] = shelves[i]
      BY <2>1 DEF SwapHigh, Idz, TypeOK, Blokady, Zamiana
    <3>2. \A q \in Pracownicy : pc[q] = "swap_low" => low[q] # l /\ low[q] # h
      BY <3>1, WylacznoscLemma DEF ZLow, ZHigh
    <3>3. Docelowe[l] = shelves[l] /\ Docelowe[h] = shelves[h]
      BY <1>0, <3>1, <3>2 DEF OpisDocelowych
    <3>4. Docelowe'[l] = shelves[h]
      BY <1>0, <3>1 DEF OpisDocelowych
    <3>5. Docelowe'[h] = shelves[l]
      <4>1. \A q \in Pracownicy : pc'[q] = "swap_low" => low'[q] # h
        BY <2>0, <3>1, <3>2 DEF Polki
      <4>. QED
        BY <1>0, <3>1, <4>1 DEF OpisDocelowych
    <3>6. ASSUME NEW i \in Polki, i # l, i # h PROVE Docelowe'[i] = Docelowe[i]
      <4>1. ASSUME NEW q \in Pracownicy, pc[q] = "swap_low", low[q] = i
            PROVE  Docelowe'[i] = Docelowe[i]
        <5>1. q # p
          BY <3>1, <4>1
        <5>. QED
          BY <1>0, <2>0, <4>1, <5>1 DEF OpisDocelowych
      <4>2. ASSUME \A q \in Pracownicy : pc[q] = "swap_low" => low[q] # i
            PROVE  Docelowe'[i] = Docelowe[i]
        <5>1. \A q \in Pracownicy : pc'[q] = "swap_low" => low'[q] # i
          BY <2>0, <3>1, <3>6, <4>2
        <5>2. Docelowe'[i] = shelves'[i] /\ Docelowe[i] = shelves[i]
          BY <1>0, <4>2, <5>1 DEF OpisDocelowych
        <5>. QED
          BY <3>1, <3>6, <5>2
      <4>. QED
        BY <4>1, <4>2
    <3> HIDE DEF l, h
    <3>7. Docelowe' = Zamienione(Docelowe, l, h)
      <4>1. Docelowe' \in [Polki -> Produkty]
        BY <1>0 DEF OpisDocelowych
      <4>. QED
        BY <3>3, <3>4, <3>5, <3>6, <4>1 DEF Zamienione
    <3>. QED
      BY <3>1, <3>3, <3>7 DEF WymianaPary
  <2>2. CASE SwapLow(p)
    <3>1. /\ pc[p] = "swap_low" /\ pc'[p] = "unlock_high" /\ low[p] \in Polki
          /\ shelves'[low[p]] = tmp[p]
          /\ \A i \in Polki : i # low[p] => shelves'[i] = shelves[i]
      BY <2>2 DEF SwapLow, Idz, TypeOK
    <3>2. ASSUME NEW i \in Polki PROVE Docelowe'[i] = Docelowe[i]
      <4>1. CASE i = low[p]
        <5>1. \A q \in Pracownicy : pc'[q] = "swap_low" => low'[q] # i
          BY <2>0, <3>1, <4>1, WylacznoscLemma DEF ZLow
        <5>. QED
          BY <1>0, <3>1, <4>1, <5>1 DEF OpisDocelowych
      <4>2. ASSUME NEW q \in Pracownicy, pc[q] = "swap_low", low[q] = i, q # p
            PROVE  Docelowe'[i] = Docelowe[i]
        BY <1>0, <2>0, <4>2 DEF OpisDocelowych
      <4>3. ASSUME \A q \in Pracownicy : pc[q] = "swap_low" => low[q] # i
            PROVE  Docelowe'[i] = Docelowe[i]
        <5>1. \A q \in Pracownicy : pc'[q] = "swap_low" => low'[q] # i
          BY <2>0, <3>1, <4>3
        <5>. QED
          BY <1>0, <3>1, <4>3, <5>1 DEF OpisDocelowych
      <4>. QED
        BY <4>1, <4>2, <4>3
    <3>. QED
      BY <1>0, <3>2 DEF OpisDocelowych
  <2>3. CASE ~SwapHigh(p) /\ ~SwapLow(p)
    <3>1. /\ shelves' = shelves /\ pc[p] # "swap_low" /\ pc'[p] # "swap_low"
      <4>1. CASE Porownaj(p)
        BY <4>1 DEF Porownaj, Idz, TypeOK
      <4>2. CASE ~Porownaj(p)
        BY <1>2, <2>3, <4>2
        DEF KrokPracownika, Wybierz, Przerwij, BlokujLow, BlokujHigh, OdblokujHigh,
            OdblokujLow, Melduj, Idz, TypeOK
      <4>. QED
        BY <4>1, <4>2
    <3>2. ASSUME NEW i \in Polki PROVE Docelowe'[i] = Docelowe[i]
      <4>1. ASSUME NEW q \in Pracownicy, pc[q] = "swap_low", low[q] = i
            PROVE  Docelowe'[i] = Docelowe[i]
        BY <1>0, <2>0, <3>1, <4>1 DEF OpisDocelowych
      <4>2. ASSUME \A q \in Pracownicy : pc[q] = "swap_low" => low[q] # i
            PROVE  Docelowe'[i] = Docelowe[i]
        <5>1. \A q \in Pracownicy : pc'[q] = "swap_low" => low'[q] # i
          BY <2>0, <3>1, <4>2
        <5>. QED
          BY <1>0, <3>1, <4>2, <5>1 DEF OpisDocelowych
      <4>. QED
        BY <4>1, <4>2
    <3>. QED
      BY <1>0, <3>2 DEF OpisDocelowych
  <2>. QED
    BY <2>1, <2>2, <2>3
<1>. QED
  BY <1>1, <1>2 DEF Next, KrokKierownika, KoniecZmiany, vars

-----------------------------------------------------------------------------
(* Exchanging two products keeps a permutation a permutation. *)
LEMMA PermutacjaLemma ==
  ASSUME NEW s, Permutacja(s), NEW t, WymianaPary(s, t)
  PROVE  Permutacja(t)
<1>1. PICK l \in Polki, h \in Polki : t = Zamienione(s, l, h)
  BY DEF WymianaPary
<1>2. /\ t[l] = s[h] /\ t[h] = s[l]
      /\ \A i \in Polki : i # l /\ i # h => t[i] = s[i]
  BY <1>1 DEF Zamienione
<1>. QED
  BY <1>2 DEF Permutacja

(* There are finitely many pairs of shelves, and so of inversions. *)
LEMMA SkonczoneLemma == \A s : IsFiniteSet(Inwersje(s))
<1>1. IsFiniteSet(Polki)
  BY FS_Interval, StaleAssumption DEF Polki
<1>2. IsFiniteSet(Polki \X Polki)
  BY <1>1, FS_Product
<1>3. \A s : Inwersje(s) \in SUBSET (Polki \X Polki)
  BY DEF Inwersje
<1>. QED
  BY <1>2, <1>3, FS_Subset

(* Exchanging a pair that is out of order creates no inversion.  An inversion
   of the result is charged to the same two products, where they were, if they
   were in the same order there, and to the same two shelves otherwise; no
   two inversions are charged to the same pair. *)
LEMMA InwersjeLemma ==
  ASSUME NEW s \in [Polki -> Produkty], NEW t, WymianaPary(s, t)
  PROVE  Cardinality(Inwersje(t)) <= Cardinality(Inwersje(s))
<1> USE StaleAssumption
<1>1. PICK l \in Polki, h \in Polki : l < h /\ s[l] > s[h] /\ t = Zamienione(s, l, h)
  BY DEF WymianaPary
<1>2. /\ t[l] = s[h] /\ t[h] = s[l]
      /\ \A i \in Polki : i # l /\ i # h => t[i] = s[i]
      /\ \A i \in Polki : s[i] \in Int
      /\ Polki \subseteq Int
  BY <1>1 DEF Zamienione, Produkty, Polki
<1> DEFINE z(i) == IF i = l THEN h ELSE IF i = h THEN l ELSE i
           Obciaz(p) == IF z(p[1]) < z(p[2]) THEN <<z(p[1]), z(p[2])>> ELSE p
           f == [p \in Inwersje(t) |-> Obciaz(p)]
<1>3. \A p \in Inwersje(t) : Obciaz(p) \in Inwersje(s)
  <2> SUFFICES ASSUME NEW p \in Inwersje(t) PROVE Obciaz(p) \in Inwersje(s)
    OBVIOUS
  <2>1. PICK i \in Polki, j \in Polki : p = <<i, j>> /\ i < j /\ t[i] > t[j]
    BY DEF Inwersje
  <2>2. CASE z(i) < z(j)
    <3>1. z(i) \in Polki /\ z(j) \in Polki /\ s[z(i)] = t[i] /\ s[z(j)] = t[j]
      BY <1>2
    <3>2. Obciaz(p) = <<z(i), z(j)>>
      BY <2>1, <2>2
    <3>. QED
      BY <2>1, <2>2, <3>1, <3>2 DEF Inwersje
  <2>3. CASE ~(z(i) < z(j))
    <3>1. s[i] > s[j]
      BY <1>1, <1>2, <2>1, <2>3
    <3>2. Obciaz(p) = <<i, j>>
      BY <2>1, <2>3
    <3>. QED
      BY <2>1, <3>1, <3>2 DEF Inwersje
  <2>. QED
    BY <2>2, <2>3
<1>4. \A p, q \in Inwersje(t) : Obciaz(p) = Obciaz(q) => p = q
  <2> SUFFICES ASSUME NEW p \in Inwersje(t), NEW q \in Inwersje(t), Obciaz(p) = Obciaz(q)
               PROVE  p = q
    OBVIOUS
  <2>1. PICK i \in Polki, j \in Polki : p = <<i, j>> /\ i < j
    BY DEF Inwersje
  <2>2. PICK k \in Polki, m \in Polki : q = <<k, m>> /\ k < m
    BY DEF Inwersje
  <2>3. /\ Obciaz(p) = IF z(i) < z(j) THEN <<z(i), z(j)>> ELSE <<i, j>>
        /\ Obciaz(q) = IF z(k) < z(m) THEN <<z(k), z(m)>> ELSE <<k, m>>
    BY <2>1, <2>2
  <2> HIDE DEF Obciaz
  <2>4. i = k /\ j = m
    BY <1>1, <1>2, <2>1, <2>2, <2>3
  <2>. QED
    BY <2>1, <2>2, <2>4
<1> HIDE DEF Obciaz
<1>5. f \in Injection(Inwersje(t), Inwersje(s))
  BY <1>3, <1>4 DEF Injection, IsInjective
<1>6. IsFiniteSet(Inwersje(s))
  BY SkonczoneLemma
<1>. QED
  BY <1>5, <1>6, FS_Injection

-----------------------------------------------------------------------------
(* The invariant is inductive. *)
THEOREM Inductive == Spec => []IInv
<1>1. IInv /\ [Next]_vars => IInv'
  <2> SUFFICES ASSUME IInv, [Next]_vars PROVE IInv'
    OBVIOUS
  <2>1. Dozor'
    BY DozorLemma
  <2>2. TypeOK'
    BY <2>1, TypLemma
  <2>3. Blokady' /\ Zamiana'
    BY <2>2, BlokadyLemma, ZamianaLemma
  <2>4. TowarZachowany'
    <3>1. Docelowe' = Docelowe \/ WymianaPary(Docelowe, Docelowe')
      BY <2>2, <2>3, EfektLemma DEF Mocne
    <3>2. Permutacja(Docelowe')
      BY <3>1, PermutacjaLemma DEF IInv, TowarZachowany
    <3>. QED
      BY <3>2 DEF TowarZachowany, Permutacja
  <2>. QED
    BY <2>1, <2>2, <2>3, <2>4 DEF IInv
<1>. QED
  BY <1>1, InitIInv, PTL DEF Spec

(* Every state is well typed: no worker does more than ITERACJE rounds, ile
   never exceeds the number of workers, and the manager reads no shelf past
   the last one. *)
THEOREM TypeCorrect == Spec => []TypeOK
<1>1. IInv => TypeOK
  BY DEF IInv
<1>. QED
  BY <1>1, Inductive, PTL

(* No product is lost or duplicated by workers that swap at the same time. *)
THEOREM ProductsKept == Spec => []TowarZachowany
<1>1. IInv => TowarZachowany
  BY DEF IInv
<1>. QED
  BY <1>1, Inductive, PTL

(* Two workers are never at one shelf between its lock and its unlock. *)
Wylacznosc ==
  \A p, q \in Pracownicy :
    p # q /\ pc[p] \in ZHigh /\ pc[q] \in ZHigh => {low[p], high[p]} \cap {low[q], high[q]} = {}

(* Mutual exclusion on the shelves: two workers that compare or swap work on
   four different shelves. *)
THEOREM ShelvesExclusive == Spec => []Wylacznosc
<1>1. IInv => Wylacznosc
  <2>1. ZHigh \subseteq ZLow
    BY DEF ZLow, ZHigh
  <2>. QED
    BY <2>1, WylacznoscLemma DEF Wylacznosc
<1>. QED
  BY <1>1, Inductive, PTL

(* No step of anybody makes the shelves less sorted, for any number of shelves
   and workers: the number of inversions never grows. *)
THEOREM OrderGrows == Spec => PorzadekRosnie
<1>1. IInv /\ IInv' /\ [Next]_vars =>
        Cardinality(Inwersje(Docelowe')) <= Cardinality(Inwersje(Docelowe))
  <2> SUFFICES ASSUME IInv, IInv', [Next]_vars
               PROVE  Cardinality(Inwersje(Docelowe')) <= Cardinality(Inwersje(Docelowe))
    OBVIOUS
  <2>1. Docelowe' = Docelowe \/ WymianaPary(Docelowe, Docelowe')
    BY EfektLemma DEF IInv, Mocne
  <2>2. Docelowe \in [Polki -> Produkty]
    BY OpisLemma DEF IInv, Mocne, OpisDocelowych
  <2>3. Cardinality(Inwersje(Docelowe)) \in Nat
    BY SkonczoneLemma, FS_CardinalityType
  <2>. QED
    BY <2>1, <2>2, <2>3, InwersjeLemma
<1>. QED
  BY <1>1, Inductive, PTL DEF Spec, PorzadekRosnie

-----------------------------------------------------------------------------
(* A mutex that is taken is held by a worker that has taken it and has not
   given it back. *)
Trzymane ==
  \A i \in Polki : mutexes[i] # Nikt =>
    \E q \in Pracownicy : /\ mutexes[i] = q
                          /\ \/ pc[q] \in ZLow /\ low[q] = i
                             \/ pc[q] \in ZHigh /\ high[q] = i

(* The shelf whose mutex a worker waits for. *)
Czekajacy == {p \in Pracownicy : pc[p] \in {"lock_low", "lock_high"}}
Chce(p) == IF pc[p] = "lock_low" THEN low[p] ELSE high[p]

(* Workers that wait for mutexes never all wait for one another: one of them
   finds its mutex free, or some worker holds mutexes and waits for none. *)
BrakZakleszczenia ==
  Czekajacy # {} =>
    \/ \E p \in Czekajacy : mutexes[Chce(p)] = Nikt
    \/ \E p \in Pracownicy : pc[p] \in ZHigh \cup {"unlock_low"}

(* No mutex is left behind by a worker that moves on. *)
LEMMA TrzymaneLemma ==
  ASSUME IInv, IInv', Trzymane, [Next]_vars
  PROVE  Trzymane'
<1> USE StaleAssumption DEF IInv, praca
<1>1. CASE UNCHANGED <<mutexes, pc, low, high>>
  BY <1>1 DEF Trzymane
<1>2. ASSUME NEW p \in Pracownicy, KrokPracownika(p), NEW i \in Polki, mutexes'[i] # Nikt
      PROVE  \E q \in Pracownicy : /\ mutexes'[i] = q
                                   /\ \/ pc'[q] \in ZLow /\ low'[q] = i
                                      \/ pc'[q] \in ZHigh /\ high'[q] = i
  <2>1. CASE mutexes'[i] = p
    <3> USE DEF TypeOK, ZLow, ZHigh, Idz
    <3>0. mutexes[i] = p => \/ pc[p] \in ZLow /\ low[p] = i
                            \/ pc[p] \in ZHigh /\ high[p] = i
      BY DEF Trzymane
    <3>1. CASE BlokujLow(p) \/ BlokujHigh(p)
      BY <2>1, <3>0, <3>1 DEF BlokujLow, BlokujHigh
    <3>2. CASE OdblokujHigh(p)
      BY <2>1, <3>0, <3>2 DEF OdblokujHigh
    <3>3. CASE OdblokujLow(p)
      BY <2>1, <3>0, <3>3 DEF OdblokujLow
    <3>4. CASE Porownaj(p)
      BY <2>1, <3>0, <3>4 DEF Porownaj
    <3>5. CASE Wybierz(p) \/ Przerwij(p) \/ Melduj(p)
      BY <2>1, <3>0, <3>5 DEF Wybierz, Przerwij, Melduj
    <3>6. CASE SwapHigh(p) \/ SwapLow(p)
      BY <2>1, <3>0, <3>6 DEF SwapHigh, SwapLow
    <3>. QED
      BY <1>2, <3>1, <3>2, <3>3, <3>4, <3>5, <3>6 DEF KrokPracownika
  <2>2. CASE mutexes'[i] # p
    <3>1. mutexes'[i] = mutexes[i]
      BY <1>2, <2>2 DEF KrokPracownika, Wybierz, Przerwij, BlokujLow, BlokujHigh, Porownaj,
                        SwapHigh, SwapLow, OdblokujHigh, OdblokujLow, Melduj, TypeOK
    <3>2. PICK q \in Pracownicy : /\ mutexes[i] = q
                                  /\ \/ pc[q] \in ZLow /\ low[q] = i
                                     \/ pc[q] \in ZHigh /\ high[q] = i
      BY <1>2, <3>1 DEF Trzymane
    <3>3. pc'[q] = pc[q] /\ low'[q] = low[q] /\ high'[q] = high[q]
      BY <1>2, <2>2, <3>1, <3>2, InniLemma
    <3>. QED
      BY <3>1, <3>2, <3>3
  <2>. QED
    BY <2>1, <2>2
<1>. QED
  BY <1>1, <1>2 DEF Next, KrokKierownika, KoniecZmiany, vars, Trzymane

(* Among the shelves wanted by waiting workers there is a highest one. *)
LEMMA NajwyzszaLemma ==
  ASSUME NEW S \in SUBSET Polki, S # {}
  PROVE  \E i \in S : \A j \in S : j <= i
<1> USE StaleAssumption
<1> DEFINE T == {N - i : i \in S}
<1>1. T \in SUBSET Nat /\ T # {}
  BY DEF Polki
<1>2. PICK n \in T : \A m \in T : ~(<<m, n>> \in OpToRel(<, Nat))
  BY <1>1, NatLessThanWellFounded, WFMin
<1>3. \A m \in T : ~(m < n)
  BY <1>1, <1>2 DEF OpToRel
<1>4. PICK i \in S : n = N - i
  BY <1>2
<1>5. ASSUME NEW j \in S PROVE j <= i
  <2>1. N - j \in T
    OBVIOUS
  <2>2. ~(N - j < N - i)
    BY <1>3, <1>4, <2>1
  <2>. QED
    BY <2>2 DEF Polki
<1>. QED
  BY <1>5

(* The order of the two locks excludes deadlock, for any number of workers and
   shelves: whoever holds the highest shelf that is wanted has both of its
   locks. *)
THEOREM NoDeadlock == Spec => []BrakZakleszczenia
<1>1. Init => Trzymane
  BY DEF Init, Trzymane
<1>2. IInv /\ IInv' /\ Trzymane /\ [Next]_vars => Trzymane'
  BY TrzymaneLemma
<1>3. IInv /\ Trzymane => BrakZakleszczenia
  <2> SUFFICES ASSUME IInv, Trzymane, Czekajacy # {},
                      \A p \in Czekajacy : mutexes[Chce(p)] # Nikt
               PROVE  \E p \in Pracownicy : pc[p] \in ZHigh \cup {"unlock_low"}
    BY DEF BrakZakleszczenia
  <2> USE StaleAssumption DEF IInv
  <2> DEFINE S == {Chce(p) : p \in Czekajacy}
  <2>1. S \in SUBSET Polki /\ S # {}
    BY DEF Czekajacy, Chce, TypeOK
  <2>2. PICK i \in S : \A j \in S : j <= i
    BY <2>1, NajwyzszaLemma
  <2>3. PICK p \in Czekajacy : i = Chce(p)
    BY <2>2
  <2>4. PICK q \in Pracownicy : \/ pc[q] \in ZLow /\ low[q] = i
                                \/ pc[q] \in ZHigh /\ high[q] = i
    BY <2>1, <2>2, <2>3 DEF Trzymane
  <2>5. CASE pc[q] = "lock_high"
    <3>1. q \in Czekajacy /\ Chce(q) = high[q] /\ low[q] = i
      BY <2>4, <2>5 DEF Czekajacy, Chce, ZHigh
    <3>2. high[q] <= low[q] /\ low[q] < high[q]
      BY <2>2, <3>1 DEF Blokady
    <3>. QED
      BY <3>2 DEF TypeOK, Polki
  <2>6. CASE pc[q] # "lock_high"
    BY <2>4, <2>6 DEF ZLow, ZHigh
  <2>. QED
    BY <2>5, <2>6
<1>. QED
  BY <1>1, <1>2, <1>3, Inductive, PTL DEF Spec
=============================================================================
