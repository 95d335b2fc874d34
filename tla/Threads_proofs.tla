-------------------------- MODULE Threads_proofs --------------------------
(***************************************************************************)
(* Proofs about the programs whose threads meet in memory, for any number  *)
(* of them and any sizes of their buffers.                                 *)
(***************************************************************************)
EXTENDS Threads, DataLemmas

(* The processes of S that are in places of Z. *)
WMiejscu(S, Z) == {w \in S : pc[w] \in Z}

(* Counting the processes of S that are in places of Z when at most one, w,
   crosses the border of Z. *)
LEMMA MiejscaLemma ==
  ASSUME NEW S, IsFiniteSet(S), NEW Z, NEW w,
         \A v \in S : v # w => (pc[v] \in Z <=> pc'[v] \in Z)
  PROVE  /\ Cardinality(WMiejscu(S, Z)) \in Nat
         /\ (w \notin S \/ (pc[w] \in Z <=> pc'[w] \in Z))
              => Cardinality(WMiejscu(S, Z)') = Cardinality(WMiejscu(S, Z))
         /\ (w \in S /\ pc[w] \notin Z /\ pc'[w] \in Z)
              => Cardinality(WMiejscu(S, Z)') = Cardinality(WMiejscu(S, Z)) + 1
         /\ (w \in S /\ pc[w] \in Z /\ pc'[w] \notin Z)
              => /\ Cardinality(WMiejscu(S, Z)) >= 1
                 /\ Cardinality(WMiejscu(S, Z)') = Cardinality(WMiejscu(S, Z)) - 1
<1> DEFINE P == {v \in S : pc[v] \in Z}
           Q == {v \in S : pc'[v] \in Z}
<1>1. IsFiniteSet(P) /\ IsFiniteSet(Q) /\ Cardinality(P) \in Nat /\ Cardinality(Q) \in Nat
  BY FS_Subset, FS_CardinalityType
<1>2. ASSUME w \notin S \/ (pc[w] \in Z <=> pc'[w] \in Z)
      PROVE  Cardinality(Q) = Cardinality(P)
  <2>1. P = Q
    BY <1>2
  <2>. QED
    BY <2>1
<1>3. ASSUME w \in S, pc[w] \notin Z, pc'[w] \in Z
      PROVE  Cardinality(Q) = Cardinality(P) + 1
  <2>1. Q = P \cup {w} /\ w \notin P
    BY <1>3
  <2>. QED
    BY <1>1, <2>1, FS_AddElement
<1>4. ASSUME w \in S, pc[w] \in Z, pc'[w] \notin Z
      PROVE  Cardinality(P) >= 1 /\ Cardinality(Q) = Cardinality(P) - 1
  <2>1. P = Q \cup {w} /\ w \notin Q
    BY <1>4
  <2>2. Cardinality(P) = Cardinality(Q) + 1
    BY <1>1, <2>1, FS_AddElement
  <2>. QED
    BY <1>1, <2>2
<1>5. WMiejscu(S, Z) = P /\ WMiejscu(S, Z)' = Q
  BY DEF WMiejscu
<1> HIDE DEF P, Q
<1>. QED
  BY <1>1, <1>2, <1>3, <1>4, <1>5

-----------------------------------------------------------------------------
(* The dining philosophers. *)
MaLewa == {"prawa", "oddaj_prawa", "oddaj_lewa"}

TypeF ==
  /\ chopsticks \in [F!Filozofowie -> {0, 1}]
  /\ pc \in [F!Filozofowie -> {"lewa", "koniec"} \cup MaLewa]
  /\ i \in [F!Filozofowie -> Nat]

(* A chopstick is down exactly when one of its two philosophers holds it, and
   they never both do. *)
Paleczki ==
  \A f \in F!Filozofowie :
    /\ pc[f] = "oddaj_prawa" => chopsticks[F!right(f)] = 0 /\ pc[F!right(f)] \notin MaLewa
    /\ pc[f] \in MaLewa => chopsticks[f] = 0
    /\ chopsticks[F!right(f)] = 0 => pc[f] = "oddaj_prawa" \/ pc[F!right(f)] \in MaLewa

(* The inductive invariant. *)
IInvF == TypeF /\ Paleczki

(* The only deadlock there is: everybody holds the left chopstick and waits
   for the right one, so nobody has left the table. *)
TylkoPelnyKrag == F!Zakleszczenie => \A f \in F!Filozofowie : pc[f] = "prawa"

(* Neighbours: everybody has one on the right and one on the left. *)
LEMMA SasiadLemma ==
  ASSUME StolStaly
  PROVE  /\ \A f \in F!Filozofowie :
              /\ F!right(f) \in F!Filozofowie /\ F!right(f) # f
              /\ f < N - 1 => F!right(f) = f + 1
         /\ F!right(N - 1) = 0
         /\ \A f, g \in F!Filozofowie : F!right(f) = F!right(g) => f = g
         /\ \A c \in F!Filozofowie : \E f \in F!Filozofowie : F!right(f) = c
<1>1. ASSUME NEW f \in 0..(N - 1)
      PROVE  (f + 1) % N = IF f + 1 < N THEN f + 1 ELSE 0
  BY DEF StolStaly
<1>2. \A f \in 0..(N - 1) : F!right(f) = IF f + 1 < N THEN f + 1 ELSE 0
  BY <1>1 DEF F!right
<1>3. N - 1 \in 0..(N - 1) /\ F!Filozofowie = 0..(N - 1)
  BY DEF StolStaly, F!Filozofowie
<1>4. ASSUME NEW c \in 0..(N - 1)
      PROVE  \E f \in 0..(N - 1) : F!right(f) = c
  <2>1. CASE c = 0
    BY <1>2, <1>3, <2>1 DEF StolStaly
  <2>2. CASE c # 0
    <3>1. c - 1 \in 0..(N - 1) /\ (c - 1) + 1 < N /\ (c - 1) + 1 = c
      BY <2>2 DEF StolStaly
    <3>. QED
      BY <1>2, <3>1
  <2>. QED
    BY <2>1, <2>2
<1>5. \A f \in 0..(N - 1) :
        F!right(f) \in 0..(N - 1) /\ F!right(f) # f /\ (f < N - 1 => F!right(f) = f + 1)
  BY <1>2 DEF StolStaly
<1>6. F!right(N - 1) = 0
  BY <1>2, <1>3 DEF StolStaly
<1>7. \A f, g \in 0..(N - 1) : F!right(f) = F!right(g) => f = g
  BY <1>2 DEF StolStaly
<1>. QED
  BY <1>3, <1>4, <1>5, <1>6, <1>7, Zenon

(* A set of philosophers that holds with everybody its right neighbour is
   the whole table. *)
LEMMA KragLemma ==
  ASSUME StolStaly, NEW D \in SUBSET F!Filozofowie, D # {},
         \A f \in D : F!right(f) \in D
  PROVE  D = F!Filozofowie
<1>1. F!Filozofowie = 0..(N - 1) /\ N \in Nat /\ N >= 2
  BY DEF StolStaly, F!Filozofowie
<1>2. ASSUME NEW d \in D PROVE d..(N - 1) \subseteq D
  <2> DEFINE T == {k \in d..(N - 1) : k \notin D}
  <2>1. SUFFICES ASSUME T # {} PROVE FALSE
    OBVIOUS
  <2>2. d \in 0..(N - 1) /\ T \in SUBSET Nat
    BY <1>1
  <2>3. PICK k \in T : \A m \in T : ~(<<m, k>> \in OpToRel(<, Nat))
    BY <2>1, <2>2, NatLessThanWellFounded, WFMin
  <2>4. k \in d..(N - 1) /\ k \notin D /\ k # d
    BY <2>3
  <2>5. k - 1 \in d..(N - 1) /\ k - 1 < k /\ k - 1 < N - 1 /\ (k - 1) + 1 = k
    BY <1>1, <2>2, <2>4
  <2>6. k - 1 \in D
    <3>1. k - 1 \in Nat /\ k \in Nat
      BY <2>2, <2>4, <2>5
    <3>. QED
      BY <2>3, <2>5, <3>1 DEF OpToRel
  <2>7. F!right(k - 1) = k
    BY <1>1, <2>5, <2>6, SasiadLemma
  <2>. QED
    BY <2>4, <2>6, <2>7
<1>3. PICK d \in D : TRUE
  OBVIOUS
<1>4. N - 1 \in D
  <2>1. N - 1 \in d..(N - 1)
    BY <1>1
  <2>. QED
    BY <1>2, <2>1
<1>5. 0 \in D
  BY <1>4, SasiadLemma
<1>. QED
  BY <1>1, <1>2, <1>5

(* Every step of a philosopher keeps the invariant. *)
LEMMA FilozofLemma ==
  ASSUME StolStaly, IInvF, NEW f \in F!Filozofowie, F!philosopher(f)
  PROVE  IInvF'
<1> DEFINE r == F!right(f)
<1>1. /\ r \in F!Filozofowie /\ r # f
      /\ \A g \in F!Filozofowie : F!right(g) \in F!Filozofowie /\ F!right(g) # g
                                    /\ (F!right(g) = r => g = f)
      /\ \A g \in F!Filozofowie : F!right(g)' = F!right(g)
  BY SasiadLemma DEF F!right
<1>2. F!Filozofowie' = F!Filozofowie
  BY DEF F!Filozofowie
<1>3. TypeF /\ Paleczki
  BY DEF IInvF
<1> HIDE DEF r
<1> USE DEF F!left, F!sem_wait, F!sem_post, F!Idz, F!Pierwsza, F!OddajLewa
<1>4. CASE /\ pc[f] = "lewa" /\ chopsticks[f] > 0
           /\ chopsticks' = [chopsticks EXCEPT ![f] = @ - 1]
           /\ pc' = [pc EXCEPT ![f] = "prawa"] /\ i' = i
  BY <1>1, <1>2, <1>3, <1>4 DEF IInvF, TypeF, Paleczki, MaLewa
<1>5. CASE /\ pc[f] = "prawa" /\ chopsticks[r] > 0
           /\ chopsticks' = [chopsticks EXCEPT ![r] = @ - 1]
           /\ pc' = [pc EXCEPT ![f] = "oddaj_prawa"] /\ i' = i
  BY <1>1, <1>2, <1>3, <1>5 DEF IInvF, TypeF, Paleczki, MaLewa, r
<1>6. CASE /\ pc[f] = "oddaj_prawa" /\ chopsticks' = [chopsticks EXCEPT ![r] = @ + 1]
           /\ pc' = [pc EXCEPT ![f] = "oddaj_lewa"] /\ i' = i
  BY <1>1, <1>2, <1>3, <1>6 DEF IInvF, TypeF, Paleczki, MaLewa, r
<1>7. CASE /\ pc[f] = "oddaj_lewa" /\ chopsticks' = [chopsticks EXCEPT ![f] = @ + 1]
           /\ pc' = [pc EXCEPT ![f] = "lewa"] /\ i' = [i EXCEPT ![f] = @ + 1]
  BY <1>1, <1>2, <1>3, <1>7 DEF IInvF, TypeF, Paleczki, MaLewa
<1>8. CASE /\ pc[f] = "lewa" /\ pc' = [pc EXCEPT ![f] = "koniec"]
           /\ UNCHANGED <<chopsticks, i>>
  BY <1>1, <1>2, <1>3, <1>8 DEF IInvF, TypeF, Paleczki, MaLewa
<1>. QED
  BY <1>4, <1>5, <1>6, <1>7, <1>8 DEF F!philosopher, r

(* The state of the chopsticks follows from where the philosophers are. *)
LEMMA StolInduktywny ==
  ASSUME StolStaly
  PROVE  /\ F!Init => IInvF
         /\ IInvF /\ [F!Next]_(F!vars) => IInvF'
<1>1. F!Init => IInvF
  BY SasiadLemma DEF F!Init, IInvF, TypeF, Paleczki, MaLewa
<1>2. IInvF /\ [F!Next]_(F!vars) => IInvF'
  <2>1. ASSUME IInvF, F!Next PROVE IInvF'
    BY <2>1, FilozofLemma DEF F!Next
  <2>2. ASSUME IInvF, UNCHANGED F!vars PROVE IInvF'
    BY <2>2 DEF F!vars, IInvF, TypeF, Paleczki, F!Filozofowie, F!right
  <2>. QED
    BY <2>1, <2>2
<1>. QED
  BY <1>1, <1>2

(* The philosophers can block one another in one way only, the full circle:
   once one of them has left the table a deadlock is impossible. *)
LEMMA JedenKrag ==
  ASSUME StolStaly
  PROVE  IInvF => TylkoPelnyKrag
<1>1. ASSUME IInvF, F!Zakleszczenie, NEW f \in F!Filozofowie
      PROVE  pc[f] = "prawa"
  <2> DEFINE D == {g \in F!Filozofowie : pc[g] # "koniec"}
  <2>1. TypeF /\ Paleczki
    BY <1>1 DEF IInvF
  <2>2. D # {}
    BY <1>1 DEF F!Zakleszczenie, F!Zakonczone
  <2>3. ASSUME NEW g \in D PROVE pc[g] = "prawa" /\ chopsticks[F!right(g)] = 0
    <3>1. CASE pc[g] = "lewa"
      <4>1. chopsticks[g] = 0
        BY <1>1, <3>1 DEF F!Zakleszczenie, F!left
      <4>2. PICK h \in F!Filozofowie : F!right(h) = g
        BY SasiadLemma
      <4>3. pc[h] = "oddaj_prawa"
        BY <2>1, <3>1, <4>1, <4>2 DEF Paleczki, MaLewa
      <4>. QED
        BY <1>1, <4>3 DEF F!Zakleszczenie
    <3>2. CASE pc[g] # "lewa"
      BY <1>1, <3>2 DEF F!Zakleszczenie
    <3>. QED
      BY <3>1, <3>2
  <2>4. ASSUME NEW g \in D PROVE F!right(g) \in D
    <3>1. pc[F!right(g)] \in MaLewa
      BY <2>1, <2>3 DEF Paleczki
    <3>. QED
      BY <3>1, SasiadLemma DEF MaLewa
  <2>5. D = F!Filozofowie
    BY <2>2, <2>4, KragLemma
  <2>. QED
    BY <2>3, <2>5
<1>. QED
  BY <1>1 DEF TylkoPelnyKrag

-----------------------------------------------------------------------------
(* The reading room. *)
WSrodku(S) == {w \in S : pc[w] = "w_srodku"}

TypeR ==
  /\ pc \in [R!Watki -> {"poza", "obudzony", "spi", "w_srodku"}]
  /\ readers_count \in Nat /\ writers_count \in Nat

(* The counters count the threads inside. *)
Liczniki ==
  /\ readers_count = Cardinality(WSrodku(Czytelnicy))
  /\ writers_count = Cardinality(WSrodku(Pisarze))

(* A writer is alone. *)
Wykluczanie == writers_count <= 1 /\ (writers_count = 1 => readers_count = 0)

(* When the room is empty and threads sleep, one has been woken; and readers
   sleep only while a writer is inside. *)
Pamietani ==
  /\ R!Zapomniani => \E w \in R!Watki : pc[w] = "obudzony"
  /\ ~R!CzytelnikSpiBezPisarza

(* The inductive invariant. *)
IInvR == TypeR /\ Liczniki /\ Wykluczanie /\ Pamietani

(* Counting the threads of a group that are inside when one of them enters or
   leaves, or when nobody of the group does. *)
LEMMA GrupaLemma ==
  ASSUME NEW S, IsFiniteSet(S), NEW w,
         \A v \in S : v # w => (pc[v] = "w_srodku" <=> pc'[v] = "w_srodku")
  PROVE  /\ Cardinality(WSrodku(S)) \in Nat
         /\ (w \notin S \/ (pc[w] = "w_srodku" <=> pc'[w] = "w_srodku"))
              => Cardinality(WSrodku(S)') = Cardinality(WSrodku(S))
         /\ (w \in S /\ pc[w] # "w_srodku" /\ pc'[w] = "w_srodku")
              => Cardinality(WSrodku(S)') = Cardinality(WSrodku(S)) + 1
         /\ (w \in S /\ pc[w] = "w_srodku" /\ pc'[w] # "w_srodku")
              => /\ Cardinality(WSrodku(S)) >= 1
                 /\ Cardinality(WSrodku(S)') = Cardinality(WSrodku(S)) - 1
<1>1. \A v \in S : v # w => (pc[v] \in {"w_srodku"} <=> pc'[v] \in {"w_srodku"})
  OBVIOUS
<1>2. WSrodku(S) = WMiejscu(S, {"w_srodku"}) /\ WSrodku(S)' = WMiejscu(S, {"w_srodku"})'
  BY DEF WSrodku, WMiejscu
<1>3. /\ Cardinality(WMiejscu(S, {"w_srodku"})) \in Nat
      /\ (w \notin S \/ (pc[w] \in {"w_srodku"} <=> pc'[w] \in {"w_srodku"}))
           => Cardinality(WMiejscu(S, {"w_srodku"})') = Cardinality(WMiejscu(S, {"w_srodku"}))
      /\ (w \in S /\ pc[w] \notin {"w_srodku"} /\ pc'[w] \in {"w_srodku"})
           => Cardinality(WMiejscu(S, {"w_srodku"})')
                = Cardinality(WMiejscu(S, {"w_srodku"})) + 1
      /\ (w \in S /\ pc[w] \in {"w_srodku"} /\ pc'[w] \notin {"w_srodku"})
           => /\ Cardinality(WMiejscu(S, {"w_srodku"})) >= 1
              /\ Cardinality(WMiejscu(S, {"w_srodku"})')
                   = Cardinality(WMiejscu(S, {"w_srodku"})) - 1
  BY <1>1, MiejscaLemma
<1>. QED
  BY <1>2, <1>3

(* Entering, or falling asleep at the door. *)
LEMMA WejscieLemma ==
  ASSUME CzytelniaStala, IInvR, NEW w \in R!Watki, R!Wejdz(w)
  PROVE  IInvR'
<1> DEFINE czeka == writers_count > 0 \/ (w \in Pisarze /\ readers_count > 0)
<1>1. TypeR /\ Liczniki /\ Wykluczanie /\ Pamietani
  BY DEF IInvR
<1>2. /\ pc[w] \in {"poza", "obudzony"}
      /\ pc' = [pc EXCEPT ![w] = IF czeka THEN "spi" ELSE "w_srodku"]
      /\ readers_count' = readers_count + (IF ~czeka /\ w \in Czytelnicy THEN 1 ELSE 0)
      /\ writers_count' = writers_count + (IF ~czeka /\ w \in Pisarze THEN 1 ELSE 0)
  BY DEF R!Wejdz
<1>3. /\ pc'[w] = (IF czeka THEN "spi" ELSE "w_srodku")
      /\ \A v \in R!Watki : v # w => pc'[v] = pc[v]
      /\ pc' \in [R!Watki -> {"poza", "obudzony", "spi", "w_srodku"}]
  BY <1>1, <1>2 DEF TypeR
<1>4. R!Watki = Czytelnicy \cup Pisarze /\ R!Watki' = R!Watki /\ Czytelnicy \cap Pisarze = {}
      /\ w \in Czytelnicy \cup Pisarze
  BY DEF R!Watki, CzytelniaStala
<1>5. TypeR'
  BY <1>1, <1>2, <1>3, <1>4 DEF TypeR
<1>6. Liczniki'
  <2>1. /\ \A v \in Czytelnicy : v # w => (pc[v] = "w_srodku" <=> pc'[v] = "w_srodku")
        /\ \A v \in Pisarze : v # w => (pc[v] = "w_srodku" <=> pc'[v] = "w_srodku")
        /\ pc[w] # "w_srodku" /\ (pc'[w] = "w_srodku" <=> ~czeka)
    BY <1>2, <1>3, <1>4
  <2>2. IsFiniteSet(Czytelnicy) /\ IsFiniteSet(Pisarze)
    BY DEF CzytelniaStala
  <2> HIDE DEF czeka
  <2>3. Cardinality(WSrodku(Czytelnicy)')
          = Cardinality(WSrodku(Czytelnicy)) + (IF ~czeka /\ w \in Czytelnicy THEN 1 ELSE 0)
    BY <2>1, <2>2, GrupaLemma
  <2>4. Cardinality(WSrodku(Pisarze)')
          = Cardinality(WSrodku(Pisarze)) + (IF ~czeka /\ w \in Pisarze THEN 1 ELSE 0)
    BY <2>1, <2>2, GrupaLemma
  <2>. QED
    BY <1>1, <1>2, <2>3, <2>4 DEF Liczniki
<1>7. Wykluczanie'
  BY <1>1, <1>2, <1>4 DEF Wykluczanie, TypeR
<1>8. Pamietani'
  <2>1. CASE czeka
    BY <1>1, <1>2, <1>3, <1>4, <2>1
       DEF Pamietani, R!Zapomniani, R!CzytelnikSpiBezPisarza, R!Spiacy, TypeR
  <2>2. CASE ~czeka
    BY <1>1, <1>2, <1>3, <1>4, <2>2
       DEF Pamietani, R!Zapomniani, R!CzytelnikSpiBezPisarza, R!Spiacy, TypeR
  <2>. QED
    BY <2>1, <2>2
<1>. QED
  BY <1>5, <1>6, <1>7, <1>8 DEF IInvR

(* Leaving: nobody but w crosses the door, sleepers only wake. *)
LEMMA WyjscieLemma ==
  ASSUME CzytelniaStala, IInvR, NEW w \in R!Watki, R!WyjdzPisarz(w) \/ R!WyjdzCzytelnik(w)
  PROVE  /\ pc[w] = "w_srodku" /\ pc'[w] = "poza"
         /\ pc' \in [R!Watki -> {"poza", "obudzony", "spi", "w_srodku"}]
         /\ \A v \in R!Watki : v # w => pc'[v] = pc[v] \/ (pc[v] = "spi" /\ pc'[v] = "obudzony")
         /\ R!WyjdzPisarz(w) => R!Spiacy' = {}
         /\ R!WyjdzCzytelnik(w) /\ readers_count = 1 /\ R!Spiacy # {}
              => \E v \in R!Watki : pc'[v] = "obudzony"
<1>1. pc \in [R!Watki -> {"poza", "obudzony", "spi", "w_srodku"}] /\ R!Watki' = R!Watki
  BY DEF IInvR, TypeR, R!Watki
<1>2. CASE R!WyjdzPisarz(w)
  BY <1>1, <1>2 DEF R!WyjdzPisarz, R!WyjdzCzytelnik, R!Broadcast, R!Spiacy, R!Watki, CzytelniaStala
<1>3. CASE R!WyjdzCzytelnik(w)
  <2>1. pc[w] = "w_srodku" /\ ~R!WyjdzPisarz(w)
    BY <1>3 DEF R!WyjdzCzytelnik, R!WyjdzPisarz, CzytelniaStala
  <2>2. CASE pc' = [pc EXCEPT ![w] = "poza"] /\ ~(readers_count = 1 /\ R!Spiacy # {})
    BY <1>1, <2>1, <2>2
  <2>3. CASE \E v \in R!Spiacy : pc' = [pc EXCEPT ![w] = "poza", ![v] = "obudzony"]
    <3>1. PICK v \in R!Spiacy : pc' = [pc EXCEPT ![w] = "poza", ![v] = "obudzony"]
      BY <2>3
    <3>2. v \in R!Watki /\ v # w /\ pc[v] = "spi"
      BY <2>1, <3>1 DEF R!Spiacy
    <3>. QED
      BY <1>1, <2>1, <3>1, <3>2
  <2>. QED
    BY <1>3, <2>2, <2>3 DEF R!WyjdzCzytelnik, R!Ostatni, R!Sygnal
<1>. QED
  BY <1>2, <1>3

(* The counters follow the one who leaves. *)
LEMMA WyjscieLicznikow ==
  ASSUME CzytelniaStala, IInvR, NEW w \in R!Watki, R!WyjdzPisarz(w) \/ R!WyjdzCzytelnik(w)
  PROVE  /\ Liczniki'
         /\ R!WyjdzPisarz(w) => /\ writers_count = 1 /\ writers_count' = 0
                                /\ readers_count' = readers_count
         /\ R!WyjdzCzytelnik(w) => /\ readers_count >= 1 /\ readers_count' = readers_count - 1
                                   /\ writers_count = 0 /\ writers_count' = 0
<1>1. TypeR /\ Liczniki /\ Wykluczanie
  BY DEF IInvR
<1>2. /\ pc[w] = "w_srodku" /\ pc'[w] # "w_srodku"
      /\ \A v \in R!Watki : v # w => (pc[v] = "w_srodku" <=> pc'[v] = "w_srodku")
  BY <1>1, WyjscieLemma
<1>3. /\ \A v \in Czytelnicy : v # w => (pc[v] = "w_srodku" <=> pc'[v] = "w_srodku")
      /\ \A v \in Pisarze : v # w => (pc[v] = "w_srodku" <=> pc'[v] = "w_srodku")
  BY <1>2 DEF R!Watki
<1>4. IsFiniteSet(Czytelnicy) /\ IsFiniteSet(Pisarze) /\ Czytelnicy \cap Pisarze = {}
  BY DEF CzytelniaStala
<1>5. CASE R!WyjdzPisarz(w)
  <2>1. w \in Pisarze /\ w \notin Czytelnicy
        /\ writers_count' = writers_count - 1 /\ readers_count' = readers_count
    BY <1>4, <1>5 DEF R!WyjdzPisarz
  <2>2. /\ Cardinality(WSrodku(Pisarze)) >= 1
        /\ Cardinality(WSrodku(Pisarze)') = Cardinality(WSrodku(Pisarze)) - 1
        /\ Cardinality(WSrodku(Czytelnicy)') = Cardinality(WSrodku(Czytelnicy))
    BY <1>2, <1>3, <1>4, <2>1, GrupaLemma
  <2>3. ~R!WyjdzCzytelnik(w)
    BY <2>1 DEF R!WyjdzCzytelnik
  <2>4. Liczniki'
    BY <1>1, <2>1, <2>2 DEF Liczniki
  <2>5. writers_count = 1
    BY <1>1, <2>2 DEF Liczniki, Wykluczanie, TypeR
  <2>. QED
    BY <2>1, <2>3, <2>4, <2>5
<1>6. CASE R!WyjdzCzytelnik(w)
  <2>1. w \in Czytelnicy /\ w \notin Pisarze
        /\ readers_count' = readers_count - 1 /\ writers_count' = writers_count
    BY <1>4, <1>6 DEF R!WyjdzCzytelnik
  <2>2. /\ Cardinality(WSrodku(Czytelnicy)) >= 1
        /\ Cardinality(WSrodku(Czytelnicy)') = Cardinality(WSrodku(Czytelnicy)) - 1
        /\ Cardinality(WSrodku(Pisarze)') = Cardinality(WSrodku(Pisarze))
    BY <1>2, <1>3, <1>4, <2>1, GrupaLemma
  <2>3. ~R!WyjdzPisarz(w)
    BY <2>1 DEF R!WyjdzPisarz
  <2>4. Liczniki'
    BY <1>1, <2>1, <2>2 DEF Liczniki
  <2>5. readers_count >= 1 /\ writers_count = 0
    BY <1>1, <2>2 DEF Liczniki, Wykluczanie, TypeR
  <2>. QED
    BY <2>1, <2>3, <2>4, <2>5
<1>. QED
  BY <1>5, <1>6

(* Every step keeps the invariant of the reading room. *)
LEMMA CzytelniaLemma ==
  ASSUME CzytelniaStala, IInvR, NEW w \in R!Watki, R!WyjdzPisarz(w) \/ R!WyjdzCzytelnik(w)
  PROVE  IInvR'
<1>1. TypeR /\ Wykluczanie /\ Pamietani
  BY DEF IInvR
<1>2. R!Watki' = R!Watki /\ Czytelnicy \subseteq R!Watki
  BY DEF R!Watki
<1>3. /\ Liczniki'
      /\ R!WyjdzPisarz(w) => /\ writers_count = 1 /\ writers_count' = 0
                             /\ readers_count' = readers_count
      /\ R!WyjdzCzytelnik(w) => /\ readers_count >= 1 /\ readers_count' = readers_count - 1
                                /\ writers_count = 0 /\ writers_count' = 0
  BY WyjscieLicznikow
<1>4. /\ pc[w] = "w_srodku" /\ pc'[w] = "poza"
      /\ pc' \in [R!Watki -> {"poza", "obudzony", "spi", "w_srodku"}]
      /\ \A v \in R!Watki : v # w => pc'[v] = pc[v] \/ (pc[v] = "spi" /\ pc'[v] = "obudzony")
      /\ R!WyjdzPisarz(w) => R!Spiacy' = {}
      /\ R!WyjdzCzytelnik(w) /\ readers_count = 1 /\ R!Spiacy # {}
           => \E v \in R!Watki : pc'[v] = "obudzony"
  BY WyjscieLemma
<1>5. TypeR'
  BY <1>1, <1>2, <1>3, <1>4 DEF TypeR
<1>6. Wykluczanie'
  BY <1>1, <1>3 DEF Wykluczanie, TypeR
<1>7. R!Spiacy' \subseteq R!Spiacy
  BY <1>2, <1>4 DEF R!Spiacy
<1>8. Pamietani'
  <2>1. CASE R!WyjdzPisarz(w)
    BY <1>4, <2>1 DEF Pamietani, R!Zapomniani, R!CzytelnikSpiBezPisarza
  <2>2. CASE R!WyjdzCzytelnik(w)
    <3>1. R!Zapomniani' => \E v \in R!Watki : pc'[v] = "obudzony"
      BY <1>1, <1>3, <1>4, <1>7, <2>2 DEF R!Zapomniani, TypeR
    <3>2. ~R!CzytelnikSpiBezPisarza'
      BY <1>1, <1>3, <1>7, <2>2 DEF Pamietani, R!CzytelnikSpiBezPisarza
    <3>. QED
      BY <1>2, <3>1, <3>2 DEF Pamietani
  <2>. QED
    BY <2>1, <2>2
<1>. QED
  BY <1>3, <1>5, <1>6, <1>8 DEF IInvR

(* The counters count, a writer is alone and nobody is forgotten. *)
LEMMA CzytelniaInduktywna ==
  ASSUME CzytelniaStala
  PROVE  /\ R!Init => IInvR
         /\ IInvR /\ [R!Next]_(R!vars) => IInvR'
<1>1. R!Init => IInvR
  <2> SUFFICES ASSUME R!Init PROVE IInvR
    OBVIOUS
  <2>1. WSrodku(Czytelnicy) = {} /\ WSrodku(Pisarze) = {} /\ R!Spiacy = {}
    BY DEF R!Init, WSrodku, R!Watki, R!Spiacy
  <2>2. TypeR
    BY DEF R!Init, TypeR
  <2>3. Liczniki
    BY <2>1, FS_EmptySet DEF R!Init, Liczniki
  <2>. QED
    BY <2>1, <2>2, <2>3 DEF R!Init, IInvR, Wykluczanie, Pamietani, R!Zapomniani,
                            R!CzytelnikSpiBezPisarza
<1>2. IInvR /\ [R!Next]_(R!vars) => IInvR'
  <2>1. ASSUME IInvR, R!Next PROVE IInvR'
    BY <2>1, WejscieLemma, CzytelniaLemma DEF R!Next
  <2>2. ASSUME IInvR, UNCHANGED R!vars PROVE IInvR'
    BY <2>2 DEF R!vars, IInvR, TypeR, Liczniki, WSrodku, Wykluczanie, Pamietani,
                R!Watki, R!Zapomniani, R!CzytelnikSpiBezPisarza, R!Spiacy
  <2>. QED
    BY <2>1, <2>2
<1>. QED
  BY <1>1, <1>2

(* A writer shares the room with nobody: the counters readers_writers_cv.c
   tests are enough for the exclusion. *)
LEMMA PisarzSam ==
  ASSUME CzytelniaStala
  PROVE  IInvR => \A p \in WSrodku(Pisarze), w \in WSrodku(R!Watki) : w = p
<1>1. ASSUME IInvR, NEW p \in WSrodku(Pisarze), NEW w \in WSrodku(R!Watki)
      PROVE  w = p
  <2>1. TypeR /\ Liczniki /\ Wykluczanie
    BY <1>1 DEF IInvR
  <2>2. IsFiniteSet(WSrodku(Pisarze)) /\ IsFiniteSet(WSrodku(Czytelnicy))
    BY FS_Subset DEF CzytelniaStala, WSrodku
  <2>3. writers_count = 1 /\ readers_count = 0
    <3>1. Cardinality(WSrodku(Pisarze)) # 0
      BY <1>1, <2>2, FS_EmptySet
    <3>. QED
      BY <2>1, <3>1 DEF TypeR, Liczniki, Wykluczanie
  <2>4. WSrodku(Czytelnicy) = {}
    BY <2>1, <2>2, <2>3, FS_EmptySet DEF Liczniki
  <2>5. PICK x : WSrodku(Pisarze) = {x}
    BY <2>1, <2>2, <2>3, FS_Singleton DEF Liczniki
  <2>6. w \in WSrodku(Pisarze)
    BY <1>1, <2>4 DEF WSrodku, R!Watki
  <2>. QED
    BY <1>1, <2>5, <2>6
<1>. QED
  BY <1>1

-----------------------------------------------------------------------------
(* The bounded buffers. *)
Pozycje == 0..(BUFFER_SIZE - 1)

TypeB ==
  /\ wariant \in {"cv", "sem"}
  /\ items \in [Pozycje -> B!Elementy \cup {<<>>}]
  /\ in \in Pozycje /\ out \in Pozycje /\ size \in 0..BUFFER_SIZE
  /\ mtx \in Nat /\ empty \in Nat /\ nonempty \in Nat
  /\ pc \in [B!Uczestnicy -> IF wariant = "cv"
               THEN {"petla", "spi", "obudzony", "koniec"}
               ELSE {"petla", "wait_mtx", "sekcja", "post_mtx", "post", "koniec"}]
  /\ i \in [B!Uczestnicy -> 0..OBROTY]
  /\ \A p \in B!Uczestnicy : pc[p] \notin {"petla", "koniec"} => i[p] < OBROTY

(* in is size entries behind out, and those entries have been produced. *)
PierscienB ==
  /\ in = (out + size) % BUFFER_SIZE
  /\ \A n \in 1..size : items[(out + n - 1) % BUFFER_SIZE] \in B!Elementy

(* The semaphores of bounded_buffer_sem.c and the processes between their
   waits and posts: mtx admits one, empty and nonempty count with those on
   the way the free and the used places. *)
Ile(S, Z) == Cardinality(WMiejscu(S, Z))
Przed == {"wait_mtx", "sekcja"}
Po == {"post_mtx", "post"}
Semafory ==
  wariant = "sem" =>
    /\ mtx + Ile(B!Procesy, {"sekcja", "post_mtx"}) = 1
    /\ empty + Ile(Producenci, Przed) + size + Ile(Konsumenci, Po) = BUFFER_SIZE
    /\ nonempty + Ile(Konsumenci, Przed) + Ile(Producenci, Po) = size

(* The inductive invariant. *)
IInvB == TypeB /\ PierscienB /\ Semafory

(* The participants of the two programs. *)
LEMMA UczestnicyLemma ==
  ASSUME SkladStaly
  PROVE  /\ B!Uczestnicy \subseteq Producenci \cup Konsumenci
         /\ wariant = "sem" => B!Uczestnicy = Producenci \cup Konsumenci
         /\ B!Procesy = Producenci \cup Konsumenci /\ IsFiniteSet(B!Procesy)
<1>1. /\ (CHOOSE p \in Producenci : TRUE) \in Producenci
      /\ (CHOOSE k \in Konsumenci : TRUE) \in Konsumenci
  BY DEF SkladStaly
<1>2. IsFiniteSet(Producenci \cup Konsumenci)
  BY FS_Union DEF SkladStaly
<1>. QED
  BY <1>1, <1>2 DEF B!Uczestnicy, B!Procesy

(* What is in the ring, as a sequence. *)
LEMMA ZawartoscLemma ==
  ASSUME PierscienB
  PROVE  /\ B!Zawartosc \in [1..size -> B!Elementy]
         /\ \A n \in 1..size : B!Zawartosc[n] = items[(out + n - 1) % BUFFER_SIZE]
<1>1. \A n \in 1..size : items[(out + n - 1) % BUFFER_SIZE] \in B!Elementy
  BY DEF PierscienB
<1>2. B!Zawartosc = [n \in 1..size |-> items[(out + n - 1) % BUFFER_SIZE]]
  BY DEF B!Zawartosc
<1>. QED
  BY <1>1, <1>2, Zenon

(* The same of the next state. *)
LEMMA ZawartoscPotemLemma ==
  ASSUME PierscienB'
  PROVE  /\ B!Zawartosc' \in [1..size' -> B!Elementy]
         /\ \A n \in 1..size' : B!Zawartosc'[n] = items'[(out' + n - 1) % BUFFER_SIZE]
<1>0. B!Elementy' = B!Elementy
  BY DEF B!Elementy
<1>1. \A n \in 1..size' : items'[(out' + n - 1) % BUFFER_SIZE] \in B!Elementy
  BY <1>0 DEF PierscienB
<1>2. B!Zawartosc' = [n \in 1..size' |-> items'[(out' + n - 1) % BUFFER_SIZE]]
  BY DEF B!Zawartosc
<1>. QED
  BY <1>1, <1>2, Zenon

(* A producer with room in the ring: its element goes behind the others. *)
LEMMA WlozLemma ==
  ASSUME SkladStaly, TypeB, PierscienB, NEW p \in B!Uczestnicy, p \in Producenci,
         i[p] < OBROTY, size < BUFFER_SIZE, B!Wloz(p)
  PROVE  /\ size' = size + 1 /\ size' \in 0..BUFFER_SIZE
         /\ in' \in Pozycje /\ out' \in Pozycje
         /\ items' \in [Pozycje -> B!Elementy \cup {<<>>}]
         /\ PierscienB'
         /\ B!Fifo!Wloz
<1> DEFINE e == <<p, i[p]>>
<1>1. /\ BUFFER_SIZE \in Nat \ {0} /\ out \in 0..(BUFFER_SIZE - 1)
      /\ size \in 0..(BUFFER_SIZE - 1) /\ in = (out + size) % BUFFER_SIZE
  BY DEF SkladStaly, TypeB, Pozycje, PierscienB
<1>2. /\ items' = [items EXCEPT ![in] = e] /\ in' = (in + 1) % BUFFER_SIZE
      /\ size' = size + 1 /\ out' = out /\ item' = item
  BY DEF B!Wloz
<1>3. e \in B!Elementy /\ B!Elementy' = B!Elementy
  <2>1. i[p] \in 0..(OBROTY - 1)
    BY DEF TypeB, SkladStaly
  <2>. QED
    BY <2>1 DEF B!Elementy
<1> HIDE DEF e
<1>4. /\ (out + size) % BUFFER_SIZE \in 0..(BUFFER_SIZE - 1)
      /\ (((out + size) % BUFFER_SIZE) + 1) % BUFFER_SIZE \in 0..(BUFFER_SIZE - 1)
      /\ (((out + size) % BUFFER_SIZE) + 1) % BUFFER_SIZE = (out + (size + 1)) % BUFFER_SIZE
      /\ \A n \in 1..size : /\ (out + n - 1) % BUFFER_SIZE \in 0..(BUFFER_SIZE - 1)
                            /\ (out + n - 1) % BUFFER_SIZE # (out + size) % BUFFER_SIZE
  BY <1>1, OgonLemma, Zenon
<1>5. in' \in 0..(BUFFER_SIZE - 1) /\ in' = (out' + size') % BUFFER_SIZE
  BY <1>1, <1>2, <1>4, Zenon
<1>6. items \in [0..(BUFFER_SIZE - 1) -> B!Elementy \cup {<<>>}] /\ in \in 0..(BUFFER_SIZE - 1)
  BY DEF TypeB, Pozycje
<1>7. items' \in [0..(BUFFER_SIZE - 1) -> B!Elementy \cup {<<>>}] /\ items'[in] = e
  BY <1>2, <1>3, <1>6, Zenon
<1>8. \A k \in 0..(BUFFER_SIZE - 1) : k # in => items'[k] = items[k]
  BY <1>2, <1>6, Zenon
<1>9. \A n \in 1..size :
        items'[(out' + n - 1) % BUFFER_SIZE] = items[(out + n - 1) % BUFFER_SIZE]
  BY <1>1, <1>2, <1>4, <1>8, Zenon
<1>10. items'[(out' + (size + 1) - 1) % BUFFER_SIZE] = e
  <2>1. out + (size + 1) - 1 = out + size
    BY <1>1
  <2>. QED
    BY <1>1, <1>2, <1>7, <2>1, Zenon
<1>11. PierscienB'
  <2>1. ASSUME NEW n \in 1..size'
        PROVE  items'[(out' + n - 1) % BUFFER_SIZE] \in B!Elementy
    <3>1. n \in 1..size \/ n = size + 1
      BY <1>1, <1>2
    <3>2. CASE n \in 1..size
      BY <1>9, <3>2, Zenon DEF PierscienB
    <3>3. CASE n = size + 1
      BY <1>3, <1>10, <3>3, Zenon
    <3>. QED
      BY <3>1, <3>2, <3>3
  <2>. QED
    BY <1>3, <1>5, <2>1, Zenon DEF PierscienB
<1>12. /\ B!Zawartosc \in [1..size -> B!Elementy]
       /\ \A n \in 1..size : B!Zawartosc[n] = items[(out + n - 1) % BUFFER_SIZE]
  BY ZawartoscLemma
<1>13. /\ B!Zawartosc' \in [1..size' -> B!Elementy]
       /\ \A n \in 1..size' : B!Zawartosc'[n] = items'[(out' + n - 1) % BUFFER_SIZE]
  BY <1>11, ZawartoscPotemLemma
<1>14. \A n \in 1..size : B!Zawartosc'[n] = B!Zawartosc[n]
  <2>1. \A n \in 1..size : n \in 1..size'
    BY <1>1, <1>2
  <2>. QED
    BY <1>9, <1>12, <1>13, <2>1, Zenon
<1>15. B!Zawartosc'[size + 1] = e
  <2>1. size + 1 \in 1..size'
    BY <1>1, <1>2
  <2>. QED
    BY <1>10, <1>13, <2>1, Zenon
<1>16. Len(B!Zawartosc) = size /\ B!Zawartosc' = Append(B!Zawartosc, e)
  <2>1. B!Zawartosc' \in [1..(size + 1) -> B!Elementy] /\ size \in Nat
    BY <1>1, <1>2, <1>13
  <2>. QED
    BY <1>3, <1>12, <1>14, <1>15, <2>1, DopisanieLemma
<1>17. B!Fifo!Wloz
  BY <1>2, <1>3, <1>16 DEF B!Fifo!Wloz
<1>18. size' \in 0..BUFFER_SIZE
  BY <1>1, <1>2
<1>. QED
  BY <1>1, <1>2, <1>5, <1>7, <1>11, <1>17, <1>18 DEF Pozycje

(* A consumer with something in the ring: it takes the oldest element. *)
LEMMA WyjmijLemma ==
  ASSUME SkladStaly, TypeB, PierscienB, NEW k \in Konsumenci, size > 0, B!Wyjmij(k)
  PROVE  /\ size' = size - 1 /\ size' \in 0..BUFFER_SIZE
         /\ in' \in Pozycje /\ out' \in Pozycje
         /\ items' \in [Pozycje -> B!Elementy \cup {<<>>}]
         /\ PierscienB'
         /\ B!Fifo!Wyjmij
<1>1. /\ BUFFER_SIZE \in Nat \ {0} /\ out \in 0..(BUFFER_SIZE - 1)
      /\ size \in 1..BUFFER_SIZE /\ in = (out + size) % BUFFER_SIZE
  BY DEF SkladStaly, TypeB, Pozycje, PierscienB
<1>2. /\ item' = [item EXCEPT ![k] = items[out]] /\ out' = (out + 1) % BUFFER_SIZE
      /\ size' = size - 1 /\ items' = items /\ in' = in
  BY DEF B!Wyjmij
<1>3. B!Elementy' = B!Elementy
  BY DEF B!Elementy
<1>4. ASSUME NEW n \in 0..(BUFFER_SIZE - 1)
      PROVE  /\ (out + 1) % BUFFER_SIZE \in 0..(BUFFER_SIZE - 1)
             /\ (((out + 1) % BUFFER_SIZE) + n) % BUFFER_SIZE = (out + (n + 1)) % BUFFER_SIZE
             /\ out % BUFFER_SIZE = out
  BY <1>1, PrzesuniecieLemma, Zenon
<1>5. 0 \in 0..(BUFFER_SIZE - 1)
  BY <1>1
<1>6. out' \in 0..(BUFFER_SIZE - 1) /\ out % BUFFER_SIZE = out
  BY <1>2, <1>4, <1>5, Zenon
<1>7. \A n \in 0..(BUFFER_SIZE - 1) : (out' + n) % BUFFER_SIZE = (out + (n + 1)) % BUFFER_SIZE
  BY <1>2, <1>4, Zenon
<1>8. in' = (out' + size') % BUFFER_SIZE
  <2>1. size' \in 0..(BUFFER_SIZE - 1) /\ size' + 1 = size
    BY <1>1, <1>2
  <2>2. (out' + size') % BUFFER_SIZE = (out + (size' + 1)) % BUFFER_SIZE
    BY <1>7, <2>1, Zenon
  <2>. QED
    BY <1>1, <1>2, <2>1, <2>2, Zenon
<1>9. ASSUME NEW n \in 1..(size - 1)
      PROVE  items'[(out' + n - 1) % BUFFER_SIZE] = items[(out + (n + 1) - 1) % BUFFER_SIZE]
  <2>1. /\ n - 1 \in 0..(BUFFER_SIZE - 1)
        /\ out' + n - 1 = out' + (n - 1)
        /\ out + (n + 1) - 1 = out + ((n - 1) + 1)
    BY <1>1, <1>6
  <2>2. (out' + (n - 1)) % BUFFER_SIZE = (out + ((n - 1) + 1)) % BUFFER_SIZE
    BY <1>7, <2>1, Zenon
  <2>. QED
    BY <1>2, <2>1, <2>2, Zenon
<1>10. PierscienB'
  <2>1. ASSUME NEW n \in 1..size'
        PROVE  items'[(out' + n - 1) % BUFFER_SIZE] \in B!Elementy
    <3>1. n \in 1..(size - 1) /\ n + 1 \in 1..size
      BY <1>1, <1>2
    <3>2. items[(out + (n + 1) - 1) % BUFFER_SIZE] \in B!Elementy
      BY <3>1, Zenon DEF PierscienB
    <3>. QED
      BY <1>9, <3>1, <3>2, Zenon
  <2>. QED
    BY <1>3, <1>8, <2>1, Zenon DEF PierscienB
<1>11. /\ B!Zawartosc \in [1..size -> B!Elementy]
       /\ \A n \in 1..size : B!Zawartosc[n] = items[(out + n - 1) % BUFFER_SIZE]
  BY ZawartoscLemma
<1>12. /\ B!Zawartosc' \in [1..size' -> B!Elementy]
       /\ \A n \in 1..size' : B!Zawartosc'[n] = items'[(out' + n - 1) % BUFFER_SIZE]
  BY <1>10, ZawartoscPotemLemma
<1>13. ASSUME NEW n \in 1..(size - 1) PROVE B!Zawartosc'[n] = B!Zawartosc[n + 1]
  <2>1. n \in 1..size' /\ n + 1 \in 1..size
    BY <1>1, <1>2
  <2>. QED
    BY <1>9, <1>11, <1>12, <2>1, Zenon
<1>14. B!Zawartosc[1] = items[out]
  <2>1. 1 \in 1..size /\ out + 1 - 1 = out
    BY <1>1
  <2>. QED
    BY <1>6, <1>11, <2>1, Zenon
<1>15. /\ B!Zawartosc # <<>> /\ Head(B!Zawartosc) = B!Zawartosc[1]
       /\ B!Zawartosc' = Tail(B!Zawartosc)
  <2>1. B!Zawartosc' \in [1..(size - 1) -> B!Elementy] /\ size \in Nat \ {0}
    BY <1>1, <1>2, <1>12
  <2>. QED
    BY <1>11, <1>13, <2>1, OdjecieLemma, Zenon
<1>16. B!Fifo!Wyjmij
  <2>1. item' = [item EXCEPT ![k] = Head(B!Zawartosc)]
    BY <1>2, <1>14, <1>15, Zenon
  <2>. QED
    BY <1>15, <2>1, Zenon DEF B!Fifo!Wyjmij
<1>17. size' \in 0..BUFFER_SIZE
  BY <1>1, <1>2
<1>18. items' \in [Pozycje -> B!Elementy \cup {<<>>}] /\ in' \in Pozycje
  BY <1>2 DEF TypeB
<1>. QED
  BY <1>2, <1>6, <1>10, <1>16, <1>17, <1>18 DEF Pozycje

(* A process of bounded_buffer_sem.c goes from one place to another: how many
   processes of S are in places of Z changes by that process alone. *)
LEMMA PrzejscieLemma ==
  ASSUME NEW P, NEW S, S \subseteq P, IsFiniteSet(S), NEW Z, NEW p, NEW x,
         pc = [q \in P |-> pc[q]], p \in P, pc' = [pc EXCEPT ![p] = x]
  PROVE  /\ Ile(S, Z) \in Nat
         /\ p \in S /\ pc[p] \in Z => Ile(S, Z) >= 1
         /\ Ile(S, Z)' = (Ile(S, Z) - (IF p \in S /\ pc[p] \in Z THEN 1 ELSE 0))
                            + (IF p \in S /\ x \in Z THEN 1 ELSE 0)
<1>1. pc'[p] = x /\ \A v \in S : v # p => (pc[v] \in Z <=> pc'[v] \in Z)
  OBVIOUS
<1>2. /\ Cardinality(WMiejscu(S, Z)) \in Nat
      /\ (p \notin S \/ (pc[p] \in Z <=> pc'[p] \in Z))
           => Cardinality(WMiejscu(S, Z)') = Cardinality(WMiejscu(S, Z))
      /\ (p \in S /\ pc[p] \notin Z /\ pc'[p] \in Z)
           => Cardinality(WMiejscu(S, Z)') = Cardinality(WMiejscu(S, Z)) + 1
      /\ (p \in S /\ pc[p] \in Z /\ pc'[p] \notin Z)
           => /\ Cardinality(WMiejscu(S, Z)) >= 1
              /\ Cardinality(WMiejscu(S, Z)') = Cardinality(WMiejscu(S, Z)) - 1
  BY <1>1, MiejscaLemma
<1>3. Ile(S, Z) = Cardinality(WMiejscu(S, Z)) /\ Ile(S, Z)' = Cardinality(WMiejscu(S, Z)')
  BY DEF Ile
<1>4. ASSUME p \in S, pc[p] \in Z PROVE Ile(S, Z) >= 1
  <2>1. IsFiniteSet(WMiejscu(S, Z)) /\ WMiejscu(S, Z) # {}
    BY <1>4, FS_Subset DEF WMiejscu
  <2>. QED
    BY <1>2, <1>3, <2>1, FS_EmptySet
<1>. QED
  BY <1>1, <1>2, <1>3, <1>4

(* The five numbers Semafory is about, when p goes to x. *)
LEMMA LiczenieLemma ==
  ASSUME SkladStaly, TypeB, wariant = "sem", NEW p \in B!Uczestnicy, NEW x,
         pc' = [pc EXCEPT ![p] = x],
         NEW S \in {Producenci, Konsumenci, B!Procesy}, NEW Z
  PROVE  /\ Ile(S, Z) \in Nat
         /\ p \in S /\ pc[p] \in Z => Ile(S, Z) >= 1
         /\ Ile(S, Z)' = (Ile(S, Z) - (IF p \in S /\ pc[p] \in Z THEN 1 ELSE 0))
                            + (IF p \in S /\ x \in Z THEN 1 ELSE 0)
<1>1. S \subseteq B!Uczestnicy /\ IsFiniteSet(S)
  BY UczestnicyLemma DEF SkladStaly
<1>2. pc = [q \in B!Uczestnicy |-> pc[q]]
  BY DEF TypeB
<1>. QED
  BY <1>1, <1>2, PrzejscieLemma

(* A step outside the ring buffer keeps the types when p goes to x. *)
LEMMA TypySem ==
  ASSUME SkladStaly, IInvB, wariant = "sem", wariant' = wariant, NEW p \in B!Uczestnicy,
         NEW x \in {"petla", "wait_mtx", "sekcja", "post_mtx", "post"},
         pc' = [pc EXCEPT ![p] = x],
         \/ i' = i /\ i[p] < OBROTY
         \/ i' = [i EXCEPT ![p] = @ + 1] /\ i[p] < OBROTY /\ x = "petla",
         mtx' \in Nat, empty' \in Nat, nonempty' \in Nat,
         size' \in 0..BUFFER_SIZE, in' \in Pozycje, out' \in Pozycje,
         items' \in [Pozycje -> B!Elementy \cup {<<>>}]
  PROVE  TypeB'
<1>1. B!Uczestnicy' = B!Uczestnicy /\ B!Elementy' = B!Elementy /\ Pozycje' = Pozycje
  BY DEF B!Uczestnicy, B!Procesy, B!Elementy, Pozycje
<1>2. TypeB /\ OBROTY \in Nat
  BY DEF IInvB, SkladStaly
<1>3. /\ pc' \in [B!Uczestnicy -> {"petla", "wait_mtx", "sekcja", "post_mtx", "post", "koniec"}]
      /\ pc'[p] = x /\ \A q \in B!Uczestnicy : q # p => pc'[q] = pc[q]
  BY <1>2 DEF TypeB
<1>4. /\ i' \in [B!Uczestnicy -> 0..OBROTY]
      /\ \A q \in B!Uczestnicy : pc'[q] \notin {"petla", "koniec"} => i'[q] < OBROTY
  <2>1. CASE i' = i /\ i[p] < OBROTY
    BY <1>2, <1>3, <2>1 DEF TypeB
  <2>2. CASE i' = [i EXCEPT ![p] = @ + 1] /\ i[p] < OBROTY /\ x = "petla"
    <3>1. i \in [B!Uczestnicy -> 0..OBROTY] /\ i[p] + 1 \in 0..OBROTY
      BY <1>2, <2>2 DEF TypeB
    <3>2. i' \in [B!Uczestnicy -> 0..OBROTY] /\ \A q \in B!Uczestnicy : q # p => i'[q] = i[q]
      BY <2>2, <3>1
    <3>. QED
      BY <1>2, <1>3, <2>2, <3>2 DEF TypeB
  <2>. QED
    BY <2>1, <2>2
<1>. QED
  BY <1>1, <1>3, <1>4 DEF TypeB

(* sem_wait(empty), sem_wait(nonempty), sem_wait(mtx) and the posts: the ring
   stays as it is, and the sums with it. *)
LEMMA SemaforLemma ==
  ASSUME SkladStaly, IInvB, NEW p \in B!Uczestnicy, B!KrokSem(p), pc[p] # "sekcja"
  PROVE  IInvB' /\ UNCHANGED <<B!Zawartosc, item>>
<1>1. TypeB /\ PierscienB /\ Semafory /\ wariant = "sem" /\ wariant' = wariant
  BY DEF IInvB, B!KrokSem
<1>2. /\ items' = items /\ in' = in /\ out' = out /\ size' = size /\ item' = item
  BY DEF B!KrokSem
<1>3. PierscienB' /\ B!Zawartosc' = B!Zawartosc
  <2>1. B!Elementy' = B!Elementy
    BY DEF B!Elementy
  <2>. QED
    BY <1>1, <1>2, <2>1 DEF PierscienB, B!Zawartosc
<1>4. /\ p \in Producenci \/ p \in Konsumenci
      /\ ~(p \in Producenci /\ p \in Konsumenci)
      /\ p \in B!Procesy
  BY <1>1, UczestnicyLemma DEF SkladStaly
<1>5. PICK x \in {"petla", "wait_mtx", "sekcja", "post"} :
        /\ pc' = [pc EXCEPT ![p] = x]
        /\ \/ /\ pc[p] = "petla" /\ x = "wait_mtx" /\ i[p] < OBROTY
              /\ \/ p \in Producenci /\ empty > 0 /\ empty' = empty - 1 /\ nonempty' = nonempty
                 \/ p \in Konsumenci /\ nonempty > 0 /\ nonempty' = nonempty - 1 /\ empty' = empty
              /\ mtx' = mtx /\ i' = i
           \/ /\ pc[p] = "wait_mtx" /\ x = "sekcja" /\ mtx > 0 /\ mtx' = mtx - 1
              /\ empty' = empty /\ nonempty' = nonempty /\ i' = i
           \/ /\ pc[p] = "post_mtx" /\ x = "post" /\ mtx' = mtx + 1
              /\ empty' = empty /\ nonempty' = nonempty /\ i' = i
           \/ /\ pc[p] = "post" /\ x = "petla"
              /\ \/ p \in Producenci /\ nonempty' = nonempty + 1 /\ empty' = empty
                 \/ p \in Konsumenci /\ empty' = empty + 1 /\ nonempty' = nonempty
              /\ mtx' = mtx /\ i' = [i EXCEPT ![p] = @ + 1]
  BY DEF B!KrokSem, B!Idz
<1>6. \A S \in {Producenci, Konsumenci, B!Procesy} : \A Z :
        /\ Ile(S, Z) \in Nat
        /\ p \in S /\ pc[p] \in Z => Ile(S, Z) >= 1
        /\ Ile(S, Z)' = (Ile(S, Z) - (IF p \in S /\ pc[p] \in Z THEN 1 ELSE 0))
                           + (IF p \in S /\ x \in Z THEN 1 ELSE 0)
  BY <1>1, <1>5, LiczenieLemma
<1>7. Ile(B!Procesy, {"sekcja", "post_mtx"})'
        = (Ile(B!Procesy, {"sekcja", "post_mtx"}) - (IF pc[p] \in {"sekcja", "post_mtx"} THEN 1 ELSE 0))
             + (IF x \in {"sekcja", "post_mtx"} THEN 1 ELSE 0)
  BY <1>4, <1>6
<1>8. /\ Ile(Producenci, Przed)'
           = (Ile(Producenci, Przed) - (IF p \in Producenci /\ pc[p] \in Przed THEN 1 ELSE 0))
                + (IF p \in Producenci /\ x \in Przed THEN 1 ELSE 0)
      /\ Ile(Producenci, Po)'
           = (Ile(Producenci, Po) - (IF p \in Producenci /\ pc[p] \in Po THEN 1 ELSE 0))
                + (IF p \in Producenci /\ x \in Po THEN 1 ELSE 0)
  BY <1>6
<1>9. /\ Ile(Konsumenci, Przed)'
           = (Ile(Konsumenci, Przed) - (IF p \in Konsumenci /\ pc[p] \in Przed THEN 1 ELSE 0))
                + (IF p \in Konsumenci /\ x \in Przed THEN 1 ELSE 0)
      /\ Ile(Konsumenci, Po)'
           = (Ile(Konsumenci, Po) - (IF p \in Konsumenci /\ pc[p] \in Po THEN 1 ELSE 0))
                + (IF p \in Konsumenci /\ x \in Po THEN 1 ELSE 0)
  BY <1>6
<1>10. /\ Ile(B!Procesy, {"sekcja", "post_mtx"}) \in Nat
       /\ Ile(Producenci, Przed) \in Nat /\ Ile(Producenci, Po) \in Nat
       /\ Ile(Konsumenci, Przed) \in Nat /\ Ile(Konsumenci, Po) \in Nat
       /\ size \in Nat /\ mtx \in Nat /\ empty \in Nat /\ nonempty \in Nat
       /\ BUFFER_SIZE \in Nat
  BY <1>1, <1>6 DEF TypeB, SkladStaly
<1>11. Semafory'
  <2>1. /\ mtx' + Ile(B!Procesy, {"sekcja", "post_mtx"})' = 1
    BY <1>1, <1>5, <1>7, <1>10 DEF Semafory
  <2>2. empty' + Ile(Producenci, Przed)' + size' + Ile(Konsumenci, Po)' = BUFFER_SIZE
    BY <1>1, <1>2, <1>4, <1>5, <1>8, <1>9, <1>10 DEF Semafory, Przed, Po
  <2>3. nonempty' + Ile(Konsumenci, Przed)' + Ile(Producenci, Po)' = size'
    BY <1>1, <1>2, <1>4, <1>5, <1>8, <1>9, <1>10 DEF Semafory, Przed, Po
  <2>. QED
    BY <2>1, <2>2, <2>3 DEF Semafory, B!Procesy
<1>12. TypeB'
  <2>1. mtx' \in Nat /\ empty' \in Nat /\ nonempty' \in Nat
    BY <1>5, <1>10
  <2>2. /\ \/ i' = i /\ i[p] < OBROTY
           \/ i' = [i EXCEPT ![p] = @ + 1] /\ i[p] < OBROTY /\ x = "petla"
    BY <1>1, <1>5 DEF TypeB
  <2>3. /\ size' \in 0..BUFFER_SIZE /\ in' \in Pozycje /\ out' \in Pozycje
        /\ items' \in [Pozycje -> B!Elementy \cup {<<>>}]
    BY <1>1, <1>2 DEF TypeB
  <2>. QED
    BY <1>1, <1>5, <2>1, <2>2, <2>3, TypySem
<1>. QED
  BY <1>2, <1>3, <1>11, <1>12 DEF IInvB

(* Under mtx the ring is used: the semaphores have seen to it that a producer
   finds room and a consumer an element. *)
LEMMA SekcjaSemLemma ==
  ASSUME SkladStaly, IInvB, NEW p \in B!Uczestnicy, B!KrokSem(p), pc[p] = "sekcja"
  PROVE  IInvB' /\ B!Fifo!Next
<1>1. TypeB /\ PierscienB /\ Semafory /\ wariant = "sem" /\ wariant' = wariant
  BY DEF IInvB, B!KrokSem
<1>2. /\ IF p \in Producenci THEN B!Wloz(p) ELSE B!Wyjmij(p)
      /\ pc' = [pc EXCEPT ![p] = "post_mtx"]
      /\ mtx' = mtx /\ empty' = empty /\ nonempty' = nonempty /\ i' = i
  BY DEF B!KrokSem, B!Idz
<1>3. /\ p \in Producenci \/ p \in Konsumenci
      /\ ~(p \in Producenci /\ p \in Konsumenci)
      /\ p \in B!Procesy
  BY <1>1, UczestnicyLemma DEF SkladStaly
<1>4. i[p] < OBROTY
  BY <1>1 DEF TypeB
<1>5. \A S \in {Producenci, Konsumenci, B!Procesy} : \A Z :
        /\ Ile(S, Z) \in Nat
        /\ p \in S /\ pc[p] \in Z => Ile(S, Z) >= 1
        /\ Ile(S, Z)' = (Ile(S, Z) - (IF p \in S /\ pc[p] \in Z THEN 1 ELSE 0))
                           + (IF p \in S /\ "post_mtx" \in Z THEN 1 ELSE 0)
  BY <1>1, <1>2, LiczenieLemma
<1>6. /\ Ile(B!Procesy, {"sekcja", "post_mtx"})' = Ile(B!Procesy, {"sekcja", "post_mtx"})
      /\ Ile(B!Procesy, {"sekcja", "post_mtx"}) \in Nat
      /\ Ile(Producenci, Przed) \in Nat /\ Ile(Producenci, Po) \in Nat
      /\ Ile(Konsumenci, Przed) \in Nat /\ Ile(Konsumenci, Po) \in Nat
      /\ size \in Nat /\ mtx \in Nat /\ empty \in Nat /\ nonempty \in Nat
      /\ BUFFER_SIZE \in Nat
  <2>1. /\ Ile(B!Procesy, {"sekcja", "post_mtx"}) \in Nat
        /\ Ile(B!Procesy, {"sekcja", "post_mtx"})'
             = (Ile(B!Procesy, {"sekcja", "post_mtx"})
                  - (IF pc[p] \in {"sekcja", "post_mtx"} THEN 1 ELSE 0))
                + (IF "post_mtx" \in {"sekcja", "post_mtx"} THEN 1 ELSE 0)
    BY <1>3, <1>5
  <2>2. /\ Ile(Producenci, Przed) \in Nat /\ Ile(Producenci, Po) \in Nat
        /\ Ile(Konsumenci, Przed) \in Nat /\ Ile(Konsumenci, Po) \in Nat
    BY <1>5
  <2>. QED
    BY <1>1, <2>1, <2>2 DEF TypeB, SkladStaly
<1>7. /\ mtx + Ile(B!Procesy, {"sekcja", "post_mtx"}) = 1
      /\ empty + Ile(Producenci, Przed) + size + Ile(Konsumenci, Po) = BUFFER_SIZE
      /\ nonempty + Ile(Konsumenci, Przed) + Ile(Producenci, Po) = size
      /\ mtx' = mtx /\ empty' = empty /\ nonempty' = nonempty
  BY <1>1, <1>2 DEF Semafory
<1>8. CASE p \in Producenci
  <2>1. /\ Ile(Producenci, Przed) >= 1
        /\ Ile(Producenci, Przed)' = Ile(Producenci, Przed) - 1
        /\ Ile(Producenci, Po)' = Ile(Producenci, Po) + 1
        /\ Ile(Konsumenci, Przed)' = Ile(Konsumenci, Przed)
        /\ Ile(Konsumenci, Po)' = Ile(Konsumenci, Po)
    <3>1. /\ Ile(Producenci, Przed) >= 1
          /\ Ile(Producenci, Przed)' = (Ile(Producenci, Przed) - 1) + 0
          /\ Ile(Producenci, Po)' = (Ile(Producenci, Po) - 0) + 1
      BY <1>5, <1>8 DEF Przed, Po
    <3>2. /\ Ile(Konsumenci, Przed)' = (Ile(Konsumenci, Przed) - 0) + 0
          /\ Ile(Konsumenci, Po)' = (Ile(Konsumenci, Po) - 0) + 0
      BY <1>3, <1>5, <1>8
    <3>. QED
      BY <1>6, <3>1, <3>2
  <2>2. size < BUFFER_SIZE
    BY <1>1, <1>6, <2>1 DEF Semafory
  <2>3. /\ size' = size + 1 /\ size' \in 0..BUFFER_SIZE
        /\ in' \in Pozycje /\ out' \in Pozycje
        /\ items' \in [Pozycje -> B!Elementy \cup {<<>>}]
        /\ PierscienB' /\ B!Fifo!Wloz
    BY <1>1, <1>2, <1>4, <1>8, <2>2, WlozLemma
  <2>4. Semafory'
    <3>1. size' = size + 1
      BY <2>3
    <3>2. mtx' + Ile(B!Procesy, {"sekcja", "post_mtx"})' = 1
      BY <1>6, <1>7
    <3>3. empty' + Ile(Producenci, Przed)' + size' + Ile(Konsumenci, Po)' = BUFFER_SIZE
      BY <1>6, <1>7, <2>1, <3>1
    <3>4. nonempty' + Ile(Konsumenci, Przed)' + Ile(Producenci, Po)' = size'
      BY <1>6, <1>7, <2>1, <3>1
    <3>. QED
      BY <3>2, <3>3, <3>4 DEF Semafory, B!Procesy
  <2>5. TypeB'
    BY <1>1, <1>2, <1>4, <1>6, <2>3, TypySem
  <2>. QED
    BY <2>3, <2>4, <2>5 DEF IInvB, B!Fifo!Next
<1>9. CASE p \in Konsumenci
  <2>1. /\ Ile(Konsumenci, Przed) >= 1
        /\ Ile(Konsumenci, Przed)' = Ile(Konsumenci, Przed) - 1
        /\ Ile(Konsumenci, Po)' = Ile(Konsumenci, Po) + 1
        /\ Ile(Producenci, Przed)' = Ile(Producenci, Przed)
        /\ Ile(Producenci, Po)' = Ile(Producenci, Po)
    <3>1. /\ Ile(Konsumenci, Przed) >= 1
          /\ Ile(Konsumenci, Przed)' = (Ile(Konsumenci, Przed) - 1) + 0
          /\ Ile(Konsumenci, Po)' = (Ile(Konsumenci, Po) - 0) + 1
      BY <1>5, <1>9 DEF Przed, Po
    <3>2. /\ Ile(Producenci, Przed)' = (Ile(Producenci, Przed) - 0) + 0
          /\ Ile(Producenci, Po)' = (Ile(Producenci, Po) - 0) + 0
      BY <1>3, <1>5, <1>9
    <3>. QED
      BY <1>6, <3>1, <3>2
  <2>2. size > 0
    BY <1>1, <1>6, <2>1 DEF Semafory
  <2>3. /\ size' = size - 1 /\ size' \in 0..BUFFER_SIZE
        /\ in' \in Pozycje /\ out' \in Pozycje
        /\ items' \in [Pozycje -> B!Elementy \cup {<<>>}]
        /\ PierscienB' /\ B!Fifo!Wyjmij
    BY <1>1, <1>2, <1>3, <1>9, <2>2, WyjmijLemma
  <2>4. Semafory'
    <3>1. size' = size - 1
      BY <2>3
    <3>2. mtx' + Ile(B!Procesy, {"sekcja", "post_mtx"})' = 1
      BY <1>6, <1>7
    <3>3. empty' + Ile(Producenci, Przed)' + size' + Ile(Konsumenci, Po)' = BUFFER_SIZE
      BY <1>6, <1>7, <2>1, <3>1
    <3>4. nonempty' + Ile(Konsumenci, Przed)' + Ile(Producenci, Po)' = size'
      BY <1>6, <1>7, <2>1, <3>1
    <3>. QED
      BY <3>2, <3>3, <3>4 DEF Semafory, B!Procesy
  <2>5. TypeB'
    BY <1>1, <1>2, <1>4, <1>6, <2>3, TypySem
  <2>. QED
    BY <2>3, <2>4, <2>5 DEF IInvB, B!Fifo!Next
<1>. QED
  BY <1>3, <1>8, <1>9

(* bounded_buffer_cv.c: the one who signals and the one who is woken. *)
LEMMA SygnalLemma ==
  ASSUME SkladStaly, TypeB, wariant = "cv", NEW p \in B!Uczestnicy,
         pc[p] # "spi", B!Sygnal(p)
  PROVE  /\ pc' \in [B!Uczestnicy -> {"petla", "spi", "obudzony", "koniec"}]
         /\ pc'[p] = "petla"
         /\ \A q \in B!Uczestnicy : q # p => pc'[q] = pc[q] \/ (pc[q] = "spi" /\ pc'[q] = "obudzony")
<1>1. pc \in [B!Uczestnicy -> {"petla", "spi", "obudzony", "koniec"}]
  BY DEF TypeB
<1>2. CASE pc' = [pc EXCEPT ![p] = "petla"]
  BY <1>1, <1>2
<1>3. CASE \E q \in B!Uczestnicy : pc[q] = "spi" /\ pc' = [pc EXCEPT ![p] = "petla", ![q] = "obudzony"]
  <2>1. PICK q \in B!Uczestnicy :
          pc[q] = "spi" /\ pc' = [pc EXCEPT ![p] = "petla", ![q] = "obudzony"]
    BY <1>3
  <2>. QED
    BY <1>1, <2>1
<1>. QED
  BY <1>2, <1>3 DEF B!Sygnal, B!Idz

(* A section of bounded_buffer_cv.c. *)
LEMMA SekcjaCvLemma ==
  ASSUME SkladStaly, IInvB, NEW p \in B!Uczestnicy, B!SekcjaCv(p)
  PROVE  IInvB' /\ (B!Fifo!Next \/ UNCHANGED <<B!Zawartosc, item>>)
<1> DEFINE czeka == IF p \in Producenci THEN size >= BUFFER_SIZE ELSE size = 0
<1>1. TypeB /\ PierscienB /\ wariant = "cv" /\ wariant' = wariant /\ OBROTY \in Nat
      /\ mtx' = mtx /\ empty' = empty /\ nonempty' = nonempty
  BY DEF IInvB, B!SekcjaCv, SkladStaly
<1>2. B!Uczestnicy' = B!Uczestnicy /\ B!Elementy' = B!Elementy
  BY <1>1 DEF B!Uczestnicy, B!Procesy, B!Elementy
<1>3. pc[p] # "spi" /\ i[p] < OBROTY
  BY <1>1 DEF B!SekcjaCv, TypeB
<1>4. Semafory'
  BY <1>1 DEF Semafory
<1>5. CASE czeka /\ pc' = [pc EXCEPT ![p] = "spi"] /\ UNCHANGED <<i, item, items, in, out, size>>
  <2>1. PierscienB' /\ UNCHANGED <<B!Zawartosc, item>>
    BY <1>1, <1>2, <1>5 DEF PierscienB, B!Zawartosc
  <2>2. TypeB'
    BY <1>1, <1>2, <1>3, <1>5 DEF TypeB, Pozycje
  <2>. QED
    BY <1>4, <2>1, <2>2 DEF IInvB
<1>6. CASE /\ ~czeka /\ (IF p \in Producenci THEN B!Wloz(p) ELSE B!Wyjmij(p))
           /\ B!Sygnal(p) /\ i' = [i EXCEPT ![p] = @ + 1]
  <2>1. /\ size' \in 0..BUFFER_SIZE /\ in' \in Pozycje /\ out' \in Pozycje
        /\ items' \in [Pozycje -> B!Elementy \cup {<<>>}]
        /\ PierscienB' /\ (B!Fifo!Wloz \/ B!Fifo!Wyjmij)
    <3>1. CASE p \in Producenci
      <4>1. size < BUFFER_SIZE
        BY <1>1, <1>6, <3>1 DEF TypeB, SkladStaly
      <4>. QED
        BY <1>1, <1>3, <1>6, <3>1, <4>1, WlozLemma
    <3>2. CASE p \notin Producenci
      <4>1. size > 0 /\ p \in Konsumenci
        BY <1>1, <1>6, <3>2, UczestnicyLemma DEF TypeB, SkladStaly
      <4>. QED
        BY <1>1, <1>6, <3>2, <4>1, WyjmijLemma
    <3>. QED
      BY <3>1, <3>2
  <2>2. /\ pc' \in [B!Uczestnicy -> {"petla", "spi", "obudzony", "koniec"}]
        /\ pc'[p] = "petla"
        /\ \A q \in B!Uczestnicy : q # p => pc'[q] = pc[q] \/ (pc[q] = "spi" /\ pc'[q] = "obudzony")
    BY <1>1, <1>3, <1>6, SygnalLemma
  <2>3. /\ i' \in [B!Uczestnicy -> 0..OBROTY]
        /\ \A q \in B!Uczestnicy : q # p => i'[q] = i[q]
    <3>1. i \in [B!Uczestnicy -> 0..OBROTY] /\ i[p] + 1 \in 0..OBROTY
      BY <1>1, <1>3 DEF TypeB
    <3>. QED
      BY <1>6, <3>1
  <2>4. \A q \in B!Uczestnicy : pc'[q] \notin {"petla", "koniec"} => i'[q] < OBROTY
    BY <1>1, <2>2, <2>3 DEF TypeB
  <2>5. TypeB'
    BY <1>1, <1>2, <2>1, <2>2, <2>3, <2>4 DEF TypeB, Pozycje
  <2>. QED
    BY <1>4, <2>1, <2>5 DEF IInvB, B!Fifo!Next
<1>. QED
  BY <1>5, <1>6 DEF B!SekcjaCv, B!Idz

(* The end of a process. *)
LEMMA KoniecLemma ==
  ASSUME SkladStaly, IInvB, NEW p \in B!Uczestnicy, B!Koniec(p)
  PROVE  IInvB' /\ UNCHANGED <<B!Zawartosc, item>>
<1>1. /\ TypeB /\ PierscienB /\ Semafory
      /\ pc[p] = "petla" /\ pc' = [pc EXCEPT ![p] = "koniec"]
      /\ wariant' = wariant /\ items' = items /\ in' = in /\ out' = out /\ size' = size
      /\ mtx' = mtx /\ empty' = empty /\ nonempty' = nonempty /\ i' = i /\ item' = item
  BY DEF IInvB, B!Koniec, B!Idz, B!wspolne
<1>2. B!Uczestnicy' = B!Uczestnicy /\ B!Elementy' = B!Elementy
  BY <1>1 DEF B!Uczestnicy, B!Procesy, B!Elementy
<1>3. PierscienB' /\ UNCHANGED <<B!Zawartosc, item>>
  BY <1>1, <1>2 DEF PierscienB, B!Zawartosc
<1>4. TypeB'
  BY <1>1, <1>2 DEF TypeB, Pozycje
<1>5. Semafory'
  <2>1. CASE wariant = "cv"
    BY <1>1, <2>1 DEF Semafory
  <2>2. CASE wariant = "sem"
    <3>1. /\ pc'[p] = "koniec" /\ \A q \in B!Uczestnicy : q # p => pc'[q] = pc[q]
          /\ B!Uczestnicy = Producenci \cup Konsumenci /\ B!Procesy = Producenci \cup Konsumenci
      BY <1>1, <2>2, UczestnicyLemma DEF TypeB
    <3>2. ASSUME NEW S \in {Producenci, Konsumenci, B!Procesy},
                 NEW Z \in {Przed, Po, {"sekcja", "post_mtx"}}
          PROVE  Ile(S, Z)' = Ile(S, Z)
      <4>1. pc[p] \notin Z /\ pc'[p] \notin Z
        BY <1>1, <3>1 DEF Przed, Po
      <4>2. S \subseteq B!Uczestnicy
        BY <3>1
      <4>3. {w \in S : pc'[w] \in Z} = {w \in S : pc[w] \in Z}
        BY <3>1, <4>1, <4>2
      <4>. QED
        BY <4>3 DEF Ile, WMiejscu
    <3>3. /\ Ile(B!Procesy, {"sekcja", "post_mtx"})' = Ile(B!Procesy, {"sekcja", "post_mtx"})
          /\ Ile(Producenci, Przed)' = Ile(Producenci, Przed)
          /\ Ile(Producenci, Po)' = Ile(Producenci, Po)
          /\ Ile(Konsumenci, Przed)' = Ile(Konsumenci, Przed)
          /\ Ile(Konsumenci, Po)' = Ile(Konsumenci, Po)
      BY <3>2
    <3>. QED
      BY <1>1, <3>3 DEF Semafory, B!Procesy
  <2>. QED
    BY <1>1, <2>1, <2>2 DEF TypeB
<1>. QED
  BY <1>3, <1>4, <1>5 DEF IInvB

(* Every step of either program keeps the invariant and is a step of the
   bounded queue, or leaves the queue alone. *)
LEMMA BuforLemma ==
  ASSUME SkladStaly, IInvB, [B!Next]_(B!vars)
  PROVE  IInvB' /\ [B!Fifo!Next]_<<B!Zawartosc, item>>
<1>1. ASSUME NEW p \in B!Uczestnicy, B!Krok(p)
      PROVE  IInvB' /\ (B!Fifo!Next \/ UNCHANGED <<B!Zawartosc, item>>)
  <2>1. CASE B!SekcjaCv(p)
    BY <2>1, SekcjaCvLemma
  <2>2. CASE B!KrokSem(p) /\ pc[p] = "sekcja"
    BY <2>2, SekcjaSemLemma
  <2>3. CASE B!KrokSem(p) /\ pc[p] # "sekcja"
    BY <2>3, SemaforLemma
  <2>4. CASE B!Koniec(p)
    BY <2>4, KoniecLemma
  <2>. QED
    BY <1>1, <2>1, <2>2, <2>3, <2>4 DEF B!Krok
<1>2. CASE UNCHANGED B!vars
  <2>1. /\ wariant' = wariant /\ items' = items /\ in' = in /\ out' = out /\ size' = size
        /\ mtx' = mtx /\ empty' = empty /\ nonempty' = nonempty
        /\ pc' = pc /\ i' = i /\ item' = item
    BY <1>2 DEF B!vars, B!wspolne
  <2>2. B!Uczestnicy' = B!Uczestnicy /\ B!Elementy' = B!Elementy
    BY <2>1 DEF B!Uczestnicy, B!Procesy, B!Elementy
  <2>3. TypeB'
    BY <2>1, <2>2 DEF IInvB, TypeB, Pozycje
  <2>4. PierscienB' /\ UNCHANGED <<B!Zawartosc, item>>
    BY <2>1, <2>2 DEF IInvB, PierscienB, B!Zawartosc
  <2>5. Semafory'
    BY <2>1 DEF IInvB, Semafory, Ile, WMiejscu, B!Procesy
  <2>. QED
    BY <2>3, <2>4, <2>5 DEF IInvB
<1>. QED
  BY <1>1, <1>2 DEF B!Next

(* Both programs start with an empty ring and all places free. *)
LEMMA BuforPoczatek ==
  ASSUME SkladStaly, B!Init
  PROVE  IInvB /\ B!Fifo!Init
<1>1. BUFFER_SIZE \in Nat \ {0} /\ OBROTY \in Nat
  BY DEF SkladStaly
<1>2. TypeB
  <2>1. items \in [Pozycje -> B!Elementy \cup {<<>>}] /\ 0 \in Pozycje
    BY <1>1 DEF B!Init, Pozycje
  <2>2. pc \in [B!Uczestnicy -> {"petla"}] /\ i \in [B!Uczestnicy -> 0..OBROTY]
    BY <1>1 DEF B!Init
  <2>. QED
    BY <1>1, <2>1, <2>2 DEF B!Init, TypeB
<1>3. PierscienB
  <2>1. 0 % BUFFER_SIZE = 0
    BY <1>1
  <2>. QED
    BY <2>1 DEF B!Init, PierscienB
<1>4. Semafory
  <2>1. SUFFICES ASSUME wariant = "sem" PROVE Semafory
    BY DEF Semafory
  <2>2. \A q \in Producenci \cup Konsumenci : pc[q] = "petla"
    BY <2>1, UczestnicyLemma DEF B!Init
  <2>3. ASSUME NEW S \in {Producenci, Konsumenci, B!Procesy},
               NEW Z \in {Przed, Po, {"sekcja", "post_mtx"}}
        PROVE  Ile(S, Z) = 0
    <3>1. WMiejscu(S, Z) = {}
      BY <2>2, UczestnicyLemma DEF WMiejscu, Przed, Po
    <3>. QED
      BY <3>1, FS_EmptySet DEF Ile
  <2>. QED
    BY <1>1, <2>3 DEF B!Init, Semafory
<1>5. B!Fifo!Init
  BY DEF B!Init, B!Zawartosc, B!Fifo!Init
<1>. QED
  BY <1>2, <1>3, <1>4, <1>5 DEF IInvB

(* mtx of bounded_buffer_sem.c admits one process to the ring at a time. *)
LEMMA JedenWSekcji ==
  ASSUME SkladStaly
  PROVE  IInvB => (wariant = "sem" =>
           \A p, q \in B!Uczestnicy : pc[p] = "sekcja" /\ pc[q] = "sekcja" => p = q)
<1>1. ASSUME IInvB, wariant = "sem", NEW p \in B!Uczestnicy, NEW q \in B!Uczestnicy,
             pc[p] = "sekcja", pc[q] = "sekcja"
      PROVE  p = q
  <2> DEFINE W == WMiejscu(B!Procesy, {"sekcja", "post_mtx"})
  <2>1. p \in W /\ q \in W
    BY <1>1, UczestnicyLemma DEF WMiejscu
  <2>2. IsFiniteSet(W) /\ Cardinality(W) \in Nat
    BY UczestnicyLemma, FS_Subset, FS_CardinalityType DEF WMiejscu
  <2>3. mtx \in Nat /\ mtx + Cardinality(W) = 1
    BY <1>1 DEF IInvB, TypeB, Semafory, Ile
  <2> HIDE DEF W
  <2>4. Cardinality(W) # 0
    BY <2>1, <2>2, FS_EmptySet
  <2>5. Cardinality(W) = 1
    BY <2>2, <2>3, <2>4
  <2>6. PICK x : W = {x}
    BY <2>2, <2>5, FS_Singleton
  <2>. QED
    BY <2>1, <2>6
<1>. QED
  BY <1>1

-----------------------------------------------------------------------------
(* The headquarters with a ring. *)
PozycjeH == 0..(STACK_SIZE - 1)
MiejscaH == {"lock", "sekcja", "zasypia", "spi", "parsuj", "czysc", "koniec"}

TypeH ==
  /\ kolejka \in [PozycjeH -> Nat]
  /\ head \in PozycjeH /\ tail \in PozycjeH /\ count \in 0..STACK_SIZE
  /\ pracujemy \in {0, 1}
  /\ serwer \in {"petla", "przed_recvfrom", "recvfrom", "wstaw", "alarm", "join", "zamkniety"}
  /\ numer \in Nat
  /\ pc \in [Adiutanci -> MiejscaH]
  /\ dane \in [Adiutanci -> Nat]

(* tail is count entries behind head, and those entries are datagrams. *)
PierscienH ==
  /\ tail = (head + count) % STACK_SIZE
  /\ \A n \in 1..count : kolejka[(head + n - 1) % STACK_SIZE] \in H!Meldunki
  /\ serwer = "wstaw" => numer \in H!Meldunki

(* One adjutant at most is in the section, and it falls asleep only over an
   empty ring. *)
SekcjaH ==
  /\ \A a, b \in Adiutanci : pc[a] \in {"sekcja", "zasypia"} /\ pc[b] \in {"sekcja", "zasypia"}
                               => a = b
  /\ \A a \in Adiutanci : pc[a] = "zasypia" => count = 0
  /\ \A a \in Adiutanci : pc[a] \in {"parsuj", "czysc"} => dane[a] \in H!Meldunki

(* The inductive invariant. *)
IInvH == TypeH /\ PierscienH /\ SekcjaH /\ H!PracaNieCzeka
-----------------------------------------------------------------------------
(* What an adjutant does with its report leaves the queue alone. *)
LEMMA ObrobkaLemma ==
  ASSUME NEW a \in Adiutanci, H!Rejestruj(a) \/ H!Rysuj(a)
  PROVE  /\ UNCHANGED <<H!bufor, pracujemy, serwer, numer, dane>>
         /\ \/ pc[a] = "parsuj" /\ pc' = [pc EXCEPT ![a] = "lock"]
            \/ pc[a] = "parsuj" /\ pc' = [pc EXCEPT ![a] = "czysc"]
            \/ pc[a] = "czysc" /\ pc' = [pc EXCEPT ![a] = "lock"]
            \/ pc' = pc
<1>1. CASE H!Rejestruj(a)
  BY <1>1 DEF H!Rejestruj, H!Idz
<1>2. CASE H!Rysuj(a)
  BY <1>2 DEF H!Rysuj, H!Idz
<1>. QED
  BY <1>1, <1>2

(* pthread_cond_signal wakes one sleeper, if there is one, and nobody else. *)
LEMMA BudzLemma ==
  ASSUME TypeH, H!BudzJednego
  PROVE  /\ pc' \in [Adiutanci -> MiejscaH]
         /\ \A a \in Adiutanci : pc'[a] = pc[a] \/ (pc[a] = "spi" /\ pc'[a] = "lock")
         /\ (\E a \in Adiutanci : pc[a] = "spi") => \E a \in Adiutanci : pc'[a] = "lock"
<1> DEFINE spiacy == {a \in Adiutanci : pc[a] = "spi"}
<1>1. CASE spiacy = {}
  BY <1>1 DEF H!BudzJednego, TypeH
<1>2. CASE spiacy # {}
  <2>1. PICK a \in spiacy : pc' = [pc EXCEPT ![a] = "lock"]
    BY <1>2 DEF H!BudzJednego
  <2>. QED
    BY <2>1 DEF TypeH, MiejscaH
<1>. QED
  BY <1>1, <1>2


-----------------------------------------------------------------------------
(* The oldest entry leaves, the others move up by one. *)
LEMMA ZdjecieLemma ==
  ASSUME SztabStaly, TypeH, PierscienH, NEW a \in Adiutanci, H!Pobierz(a)
  PROVE  /\ count \in 1..STACK_SIZE /\ count' = count - 1 /\ kolejka' = kolejka
         /\ head' \in PozycjeH /\ tail' = (head' + count') % STACK_SIZE
         /\ \A n \in 1..(count - 1) :
              kolejka'[(head' + n - 1) % STACK_SIZE] = kolejka[(head + (n + 1) - 1) % STACK_SIZE]
         /\ kolejka[head] = kolejka[(head + 1 - 1) % STACK_SIZE]
<1>1. STACK_SIZE \in Nat \ {0} /\ head \in 0..(STACK_SIZE - 1) /\ count \in 0..STACK_SIZE
  BY DEF SztabStaly, TypeH, PozycjeH
<1>2. /\ count > 0 /\ count' = count - 1 /\ kolejka' = kolejka /\ tail' = tail
      /\ head' = (head + 1) % STACK_SIZE
  BY DEF H!Pobierz, H!Nastepny
<1>3. count \in 1..STACK_SIZE
  BY <1>1, <1>2
<1>4. ASSUME NEW n \in 0..(STACK_SIZE - 1)
      PROVE  /\ (head + 1) % STACK_SIZE \in 0..(STACK_SIZE - 1)
             /\ (((head + 1) % STACK_SIZE) + n) % STACK_SIZE = (head + (n + 1)) % STACK_SIZE
             /\ head % STACK_SIZE = head
  BY <1>1, PrzesuniecieLemma, Zenon
<1>5. 0 \in 0..(STACK_SIZE - 1)
  BY <1>1
<1>6. head' \in 0..(STACK_SIZE - 1) /\ head % STACK_SIZE = head
  BY <1>2, <1>4, <1>5, Zenon
<1>7. \A n \in 0..(STACK_SIZE - 1) : (head' + n) % STACK_SIZE = (head + (n + 1)) % STACK_SIZE
  BY <1>2, <1>4, Zenon
<1>8. tail' = (head' + count') % STACK_SIZE
  <2>1. count' \in 0..(STACK_SIZE - 1) /\ count' + 1 = count
    BY <1>1, <1>2, <1>3
  <2>2. (head' + count') % STACK_SIZE = (head + (count' + 1)) % STACK_SIZE
    BY <1>7, <2>1, Zenon
  <2>. QED
    BY <1>2, <2>1, <2>2, Zenon DEF PierscienH
<1>9. ASSUME NEW n \in 1..(count - 1)
      PROVE  kolejka'[(head' + n - 1) % STACK_SIZE] = kolejka[(head + (n + 1) - 1) % STACK_SIZE]
  <2>1. /\ n - 1 \in 0..(STACK_SIZE - 1)
        /\ head' + n - 1 = head' + (n - 1)
        /\ head + (n + 1) - 1 = head + ((n - 1) + 1)
    BY <1>1, <1>3, <1>6
  <2>2. (head' + (n - 1)) % STACK_SIZE = (head + ((n - 1) + 1)) % STACK_SIZE
    BY <1>7, <2>1, Zenon
  <2>. QED
    BY <1>2, <2>1, <2>2, Zenon
<1>10. kolejka[head] = kolejka[(head + 1 - 1) % STACK_SIZE]
  <2>1. head + 1 - 1 = head
    BY <1>1
  <2>. QED
    BY <1>6, <2>1, Zenon
<1>. QED
  BY <1>2, <1>3, <1>6, <1>8, <1>9, <1>10 DEF PozycjeH

(* A new entry goes behind the others and overwrites none of them. *)
LEMMA WstawienieLemma ==
  ASSUME SztabStaly, TypeH, PierscienH, H!Wstaw, count < STACK_SIZE
  PROVE  /\ count \in 0..(STACK_SIZE - 1) /\ count' = count + 1 /\ head' = head
         /\ kolejka' \in [PozycjeH -> Nat]
         /\ tail' \in PozycjeH /\ tail' = (head' + count') % STACK_SIZE
         /\ \A n \in 1..count :
              kolejka'[(head' + n - 1) % STACK_SIZE] = kolejka[(head + n - 1) % STACK_SIZE]
         /\ kolejka'[(head' + (count + 1) - 1) % STACK_SIZE] = numer
         /\ numer \in H!Meldunki
         /\ H!BudzJednego
<1>1. /\ STACK_SIZE \in Nat \ {0} /\ head \in 0..(STACK_SIZE - 1)
      /\ count \in 0..(STACK_SIZE - 1) /\ tail = (head + count) % STACK_SIZE
  BY DEF SztabStaly, TypeH, PozycjeH, PierscienH
<1>2. /\ count' = count + 1 /\ head' = head
      /\ kolejka' = [kolejka EXCEPT ![tail] = numer]
      /\ tail' = (tail + 1) % STACK_SIZE
      /\ numer \in H!Meldunki
      /\ H!BudzJednego
  BY DEF H!Wstaw, H!JestMiejsce, H!Nastepny, PierscienH
<1>3. /\ (head + count) % STACK_SIZE \in 0..(STACK_SIZE - 1)
      /\ (((head + count) % STACK_SIZE) + 1) % STACK_SIZE \in 0..(STACK_SIZE - 1)
      /\ (((head + count) % STACK_SIZE) + 1) % STACK_SIZE = (head + (count + 1)) % STACK_SIZE
      /\ \A n \in 1..count : /\ (head + n - 1) % STACK_SIZE \in 0..(STACK_SIZE - 1)
                             /\ (head + n - 1) % STACK_SIZE # (head + count) % STACK_SIZE
  BY <1>1, OgonLemma, Zenon
<1>4. tail' \in 0..(STACK_SIZE - 1) /\ tail' = (head' + count') % STACK_SIZE
  BY <1>1, <1>2, <1>3, Zenon
<1>5. kolejka \in [0..(STACK_SIZE - 1) -> Nat] /\ tail \in 0..(STACK_SIZE - 1) /\ numer \in Nat
  BY DEF TypeH, PozycjeH
<1>6. kolejka' \in [0..(STACK_SIZE - 1) -> Nat] /\ kolejka'[tail] = numer
  BY <1>2, <1>5, Zenon
<1>7. \A k \in 0..(STACK_SIZE - 1) : k # tail => kolejka'[k] = kolejka[k]
  BY <1>2, <1>5, Zenon
<1>8. \A n \in 1..count :
        kolejka'[(head' + n - 1) % STACK_SIZE] = kolejka[(head + n - 1) % STACK_SIZE]
  BY <1>1, <1>2, <1>3, <1>7, Zenon
<1>9. kolejka'[(head' + (count + 1) - 1) % STACK_SIZE] = numer
  <2>1. head + (count + 1) - 1 = head + count
    BY <1>1
  <2>. QED
    BY <1>1, <1>2, <1>6, <2>1, Zenon
<1>. QED
  BY <1>1, <1>2, <1>4, <1>6, <1>8, <1>9 DEF PozycjeH

-----------------------------------------------------------------------------
(* main's steps outside its section, and an adjutant at work on its report,
   touch neither the ring nor the section. *)
LEMMA BezBuforaLemma ==
  ASSUME SztabStaly, IInvH, UNCHANGED <<H!bufor, dane>>,
         pracujemy' \in {0, 1}, numer' \in Nat,
         serwer' \in {"petla", "przed_recvfrom", "recvfrom", "wstaw", "alarm", "join", "zamkniety"},
         serwer' = "wstaw" => numer' \in H!Meldunki,
         pc' \in [Adiutanci -> MiejscaH],
         \A a \in Adiutanci :
           \/ pc'[a] = pc[a]
           \/ pc[a] = "spi" /\ pc'[a] = "lock"
           \/ pc[a] = "parsuj" /\ pc'[a] \in {"lock", "czysc"}
           \/ pc[a] = "czysc" /\ pc'[a] = "lock"
  PROVE  IInvH'
<1>1. kolejka' = kolejka /\ head' = head /\ tail' = tail /\ count' = count /\ dane' = dane
  BY DEF H!bufor
<1>2. TypeH'
  BY <1>1 DEF IInvH, TypeH, PozycjeH
<1>3. PierscienH'
  BY <1>1 DEF IInvH, PierscienH
<1>4. SekcjaH'
  BY <1>1 DEF IInvH, SekcjaH
<1>5. H!PracaNieCzeka'
  BY <1>1 DEF IInvH, H!PracaNieCzeka
<1>. QED
  BY <1>2, <1>3, <1>4, <1>5 DEF IInvH

(* The steps of an adjutant up to and into its sleep. *)
LEMMA CzekanieLemma ==
  ASSUME SztabStaly, IInvH, NEW a \in Adiutanci, H!CzekajNaMeldunek(a)
  PROVE  IInvH'
<1>1. /\ kolejka' = kolejka /\ head' = head /\ tail' = tail /\ count' = count /\ dane' = dane
      /\ pracujemy' = pracujemy /\ serwer' = serwer /\ numer' = numer
  BY DEF H!CzekajNaMeldunek, H!bufor
<1>2. pc \in [Adiutanci -> MiejscaH]
  BY DEF IInvH, TypeH
<1>3. PICK cel \in {"sekcja", "zasypia", "koniec", "spi"} :
        /\ pc' = [pc EXCEPT ![a] = cel]
        /\ \/ pc[a] = "lock" /\ H!MutexWolny /\ cel = "sekcja"
           \/ pc[a] = "sekcja" /\ count = 0 /\ cel \in {"zasypia", "koniec"}
           \/ pc[a] = "zasypia" /\ cel = "spi"
  BY DEF H!CzekajNaMeldunek, H!Idz
<1>4. /\ pc' \in [Adiutanci -> MiejscaH]
      /\ pc'[a] = cel
      /\ \A b \in Adiutanci : b # a => pc'[b] = pc[b]
  BY <1>2, <1>3 DEF MiejscaH
<1>5. TypeH'
  BY <1>1, <1>4 DEF IInvH, TypeH, PozycjeH
<1>6. PierscienH'
  BY <1>1 DEF IInvH, PierscienH
<1>7. SekcjaH'
  BY <1>1, <1>3, <1>4 DEF IInvH, SekcjaH, H!MutexWolny
<1>8. H!PracaNieCzeka'
  <2>1. CASE count > 0
    <3>1. pc[a] = "lock" /\ pc'[a] = "sekcja"
      BY <1>3, <1>4, <2>1 DEF IInvH, SekcjaH
    <3>. QED
      BY <3>1 DEF H!PracaNieCzeka
  <2>2. CASE ~(count > 0)
    BY <1>1, <2>2 DEF H!PracaNieCzeka
  <2>. QED
    BY <2>1, <2>2
<1>. QED
  BY <1>5, <1>6, <1>7, <1>8 DEF IInvH

(* The adjutant that takes a report is awake afterwards. *)
LEMMA PobranieLemma ==
  ASSUME SztabStaly, IInvH, NEW a \in Adiutanci, H!Pobierz(a)
  PROVE  IInvH'
<1>1. TypeH /\ PierscienH /\ SekcjaH
  BY DEF IInvH
<1>2. /\ pc[a] = "sekcja" /\ dane' = [dane EXCEPT ![a] = kolejka[head]]
      /\ pc' = [pc EXCEPT ![a] = "parsuj"]
      /\ tail' = tail /\ pracujemy' = pracujemy /\ serwer' = serwer /\ numer' = numer
  BY DEF H!Pobierz, H!Idz, H!Najstarszy
<1>3. /\ count \in 1..STACK_SIZE /\ count' = count - 1 /\ kolejka' = kolejka
      /\ head' \in PozycjeH /\ tail' = (head' + count') % STACK_SIZE
      /\ \A n \in 1..(count - 1) :
           kolejka'[(head' + n - 1) % STACK_SIZE] = kolejka[(head + (n + 1) - 1) % STACK_SIZE]
      /\ kolejka[head] = kolejka[(head + 1 - 1) % STACK_SIZE]
  BY <1>1, ZdjecieLemma
<1>4. STACK_SIZE \in Nat \ {0}
  BY DEF SztabStaly
<1>5. \A n \in 1..count : kolejka[(head + n - 1) % STACK_SIZE] \in H!Meldunki
  BY <1>1 DEF PierscienH
<1>6. kolejka[head] \in H!Meldunki
  <2>1. 1 \in 1..count
    BY <1>3, <1>4
  <2>. QED
    BY <1>3, <1>5, <2>1, Zenon
<1>7. TypeH'
  <2>1. count' \in 0..STACK_SIZE
    BY <1>3, <1>4
  <2>2. dane' \in [Adiutanci -> Nat] /\ pc' \in [Adiutanci -> MiejscaH]
    BY <1>1, <1>2, <1>6 DEF TypeH, MiejscaH, SztabStaly
  <2>. QED
    BY <1>1, <1>2, <1>3, <2>1, <2>2 DEF TypeH, PozycjeH
<1>8. PierscienH'
  <2>1. ASSUME NEW n \in 1..count'
        PROVE  kolejka'[(head' + n - 1) % STACK_SIZE] \in H!Meldunki
    <3>1. n \in 1..(count - 1) /\ n + 1 \in 1..count
      BY <1>3, <1>4
    <3>2. kolejka[(head + (n + 1) - 1) % STACK_SIZE] \in H!Meldunki
      BY <1>5, <3>1, Zenon
    <3>. QED
      BY <1>3, <3>1, <3>2, Zenon
  <2>2. serwer' = "wstaw" => numer' \in H!Meldunki
    BY <1>1, <1>2 DEF PierscienH
  <2>. QED
    BY <1>3, <2>1, <2>2 DEF PierscienH
<1>9. SekcjaH'
  <2>1. /\ pc'[a] = "parsuj" /\ dane'[a] \in H!Meldunki
        /\ \A b \in Adiutanci : b # a => pc'[b] = pc[b] /\ dane'[b] = dane[b]
    BY <1>1, <1>2, <1>6 DEF TypeH
  <2>2. \A b \in Adiutanci : pc'[b] \notin {"sekcja", "zasypia"}
    BY <1>1, <1>2, <2>1 DEF SekcjaH
  <2>. QED
    BY <1>1, <2>1, <2>2 DEF SekcjaH
<1>10. H!PracaNieCzeka'
  <2>1. pc'[a] = "parsuj"
    BY <1>1, <1>2 DEF TypeH
  <2>. QED
    BY <2>1 DEF H!PracaNieCzeka
<1>. QED
  BY <1>7, <1>8, <1>9, <1>10 DEF IInvH

(* main wakes an adjutant for the report it puts into the ring. *)
LEMMA WstawLemma ==
  ASSUME SztabStaly, IInvH, H!Wstaw
  PROVE  IInvH'
<1>1. TypeH /\ PierscienH /\ SekcjaH
  BY DEF IInvH
<1>2. /\ H!MutexWolny /\ serwer' = "petla" /\ pracujemy' = pracujemy /\ numer' = numer /\ dane' = dane
      /\ head' = head
  BY DEF H!Wstaw
<1>3. CASE count < STACK_SIZE
  <2>1. /\ count \in 0..(STACK_SIZE - 1) /\ count' = count + 1 /\ head' = head
        /\ kolejka' \in [PozycjeH -> Nat]
        /\ tail' \in PozycjeH /\ tail' = (head' + count') % STACK_SIZE
        /\ \A n \in 1..count :
             kolejka'[(head' + n - 1) % STACK_SIZE] = kolejka[(head + n - 1) % STACK_SIZE]
        /\ kolejka'[(head' + (count + 1) - 1) % STACK_SIZE] = numer
        /\ numer \in H!Meldunki
        /\ H!BudzJednego
    BY <1>1, <1>3, WstawienieLemma
  <2>2. /\ pc' \in [Adiutanci -> MiejscaH]
        /\ \A a \in Adiutanci : pc'[a] = pc[a] \/ (pc[a] = "spi" /\ pc'[a] = "lock")
        /\ (\E a \in Adiutanci : pc[a] = "spi") => \E a \in Adiutanci : pc'[a] = "lock"
    BY <1>1, <2>1, BudzLemma
  <2>3. STACK_SIZE \in Nat \ {0}
    BY DEF SztabStaly
  <2>4. TypeH'
    <3>1. count' \in 0..STACK_SIZE
      BY <2>1, <2>3
    <3>. QED
      BY <1>1, <1>2, <2>1, <2>2, <3>1 DEF TypeH, PozycjeH
  <2>5. PierscienH'
    <3>1. ASSUME NEW n \in 1..count'
          PROVE  kolejka'[(head' + n - 1) % STACK_SIZE] \in H!Meldunki
      <4>1. n \in 1..count \/ n = count + 1
        BY <2>1, <2>3
      <4>2. CASE n \in 1..count
        BY <1>1, <2>1, <4>2, Zenon DEF PierscienH
      <4>3. CASE n = count + 1
        BY <2>1, <4>3, Zenon
      <4>. QED
        BY <4>1, <4>2, <4>3
    <3>2. serwer' # "wstaw"
      BY <1>2
    <3>. QED
      BY <2>1, <3>1, <3>2 DEF PierscienH
  <2>6. SekcjaH'
    BY <1>1, <1>2, <2>2 DEF SekcjaH, H!MutexWolny
  <2>7. H!PracaNieCzeka'
    BY <1>2, <2>2 DEF H!PracaNieCzeka, H!MutexWolny
  <2>. QED
    BY <2>4, <2>5, <2>6, <2>7 DEF IInvH
<1>4. CASE ~(count < STACK_SIZE)
  <2>1. UNCHANGED <<H!bufor, dane>> /\ pc' = pc
    BY <1>2, <1>4 DEF H!Wstaw, H!JestMiejsce, H!bufor
  <2>2. pracujemy' \in {0, 1} /\ numer' \in Nat /\ pc' \in [Adiutanci -> MiejscaH]
    BY <1>1, <1>2, <2>1 DEF TypeH
  <2>. QED
    BY <1>2, <2>1, <2>2, BezBuforaLemma
<1>. QED
  BY <1>3, <1>4
-----------------------------------------------------------------------------
(* Every step of the program keeps the invariant. *)
LEMMA KrokH ==
  ASSUME SztabStaly, IInvH, [H!Next]_(H!vars)
  PROVE  IInvH'
<1>1. TypeH /\ PierscienH
  BY DEF IInvH
<1>2. CASE H!sigint_handler
  BY <1>1, <1>2, BezBuforaLemma DEF H!sigint_handler, TypeH, PierscienH, H!adiutant
<1>3. CASE H!Odbierz
  BY <1>1, <1>3, BezBuforaLemma DEF H!Odbierz, TypeH, H!adiutant
<1>4. CASE H!TestPetli
  BY <1>1, <1>4, BezBuforaLemma DEF H!TestPetli, TypeH, H!adiutant
<1>5. CASE H!Wstaw
  BY <1>5, WstawLemma
<1>6. CASE H!Alarm
  <2>1. /\ pc' \in [Adiutanci -> MiejscaH]
        /\ \A a \in Adiutanci : pc'[a] = pc[a] \/ (pc[a] = "spi" /\ pc'[a] = "lock")
    BY <1>1, <1>6 DEF H!Alarm, H!BudzWszystkich, TypeH, MiejscaH
  <2>. QED
    BY <1>1, <1>6, <2>1, BezBuforaLemma DEF H!Alarm, TypeH
<1>7. CASE H!Zamknij
  BY <1>1, <1>7, BezBuforaLemma DEF H!Zamknij, TypeH, H!adiutant
<1>8. ASSUME NEW a \in Adiutanci, H!KrokAdiutanta(a)
      PROVE  IInvH'
  <2>1. CASE H!CzekajNaMeldunek(a)
    BY <2>1, CzekanieLemma
  <2>2. CASE H!Pobierz(a)
    BY <2>2, PobranieLemma
  <2>3. CASE H!Rejestruj(a) \/ H!Rysuj(a)
    <3>1. /\ UNCHANGED <<H!bufor, pracujemy, serwer, numer, dane>>
          /\ \/ pc[a] = "parsuj" /\ pc' = [pc EXCEPT ![a] = "lock"]
             \/ pc[a] = "parsuj" /\ pc' = [pc EXCEPT ![a] = "czysc"]
             \/ pc[a] = "czysc" /\ pc' = [pc EXCEPT ![a] = "lock"]
             \/ pc' = pc
      BY <2>3, ObrobkaLemma
    <3>2. /\ pc' \in [Adiutanci -> MiejscaH]
          /\ \A b \in Adiutanci :
               \/ pc'[b] = pc[b]
               \/ pc[b] = "parsuj" /\ pc'[b] \in {"lock", "czysc"}
               \/ pc[b] = "czysc" /\ pc'[b] = "lock"
      BY <1>1, <3>1 DEF TypeH, MiejscaH
    <3>. QED
      BY <1>1, <3>1, <3>2, BezBuforaLemma DEF TypeH, PierscienH
  <2>. QED
    BY <1>8, <2>1, <2>2, <2>3 DEF H!KrokAdiutanta
<1>9. CASE UNCHANGED H!vars
  BY <1>1, <1>9, BezBuforaLemma DEF H!vars, H!adiutant, TypeH, PierscienH
<1>. QED
  BY <1>2, <1>3, <1>4, <1>5, <1>6, <1>7, <1>8, <1>9 DEF H!Next, H!KrokSerwera

(* The state the program starts in satisfies the invariant. *)
LEMMA PoczatekH ==
  ASSUME SztabStaly, H!Init
  PROVE  IInvH
<1>1. TypeH
  BY DEF SztabStaly, H!Init, TypeH, PozycjeH, MiejscaH
<1>2. PierscienH
  <2>1. 0 % STACK_SIZE = 0
    BY DEF SztabStaly
  <2>. QED
    BY <2>1 DEF H!Init, PierscienH
<1>3. SekcjaH /\ H!PracaNieCzeka
  BY DEF H!Init, SekcjaH, H!PracaNieCzeka
<1>. QED
  BY <1>1, <1>2, <1>3 DEF IInvH

(* What is in the ring is a function from 1..count to datagrams. *)
LEMMA ZawartoscH ==
  ASSUME SztabStaly, TypeH, PierscienH
  PROVE  /\ count \in Nat
         /\ H!Zawartosc \in [1..count -> H!Meldunki]
         /\ \A n \in 1..count : H!Zawartosc[n] = kolejka[(head + n - 1) % STACK_SIZE]
<1>1. \A n \in 1..count : kolejka[(head + n - 1) % STACK_SIZE] \in H!Meldunki
  BY DEF PierscienH
<1>2. H!Zawartosc = [n \in 1..count |-> kolejka[(head + n - 1) % STACK_SIZE]]
  BY DEF H!Zawartosc
<1>3. count \in Nat
  BY DEF SztabStaly, TypeH
<1>. QED
  BY <1>1, <1>2, <1>3, Zenon

(* The same of the next state. *)
LEMMA ZawartoscPotemH ==
  ASSUME PierscienH'
  PROVE  /\ H!Zawartosc' \in [1..count' -> H!Meldunki]
         /\ \A n \in 1..count' : H!Zawartosc'[n] = kolejka'[(head' + n - 1) % STACK_SIZE]
<1>1. \A n \in 1..count' : kolejka'[(head' + n - 1) % STACK_SIZE] \in H!Meldunki
  BY DEF PierscienH
<1>2. H!Zawartosc' = [n \in 1..count' |-> kolejka'[(head' + n - 1) % STACK_SIZE]]
  BY DEF H!Zawartosc
<1>. QED
  BY <1>1, <1>2, Zenon

(* pthread_mutex_lock ... kolejka[tail] = ... is the queue's Wloz. *)
LEMMA WstawWklada ==
  ASSUME SztabStaly, IInvH, IInvH', H!Wstaw
  PROVE  H!Fifo!Wloz \/ UNCHANGED <<H!Zawartosc, dane>>
<1>1. TypeH /\ PierscienH /\ TypeH' /\ PierscienH' /\ dane' = dane
  BY DEF IInvH, H!Wstaw
<1>2. CASE count < STACK_SIZE
  <2>1. /\ count \in 0..(STACK_SIZE - 1) /\ count' = count + 1 /\ numer \in H!Meldunki
        /\ \A n \in 1..count :
             kolejka'[(head' + n - 1) % STACK_SIZE] = kolejka[(head + n - 1) % STACK_SIZE]
        /\ kolejka'[(head' + (count + 1) - 1) % STACK_SIZE] = numer
    BY <1>1, <1>2, WstawienieLemma
  <2>2. /\ count \in Nat
        /\ H!Zawartosc \in [1..count -> H!Meldunki]
        /\ \A n \in 1..count : H!Zawartosc[n] = kolejka[(head + n - 1) % STACK_SIZE]
    BY <1>1, ZawartoscH
  <2>4. /\ H!Zawartosc' \in [1..count' -> H!Meldunki]
        /\ \A n \in 1..count' : H!Zawartosc'[n] = kolejka'[(head' + n - 1) % STACK_SIZE]
    BY <1>1, ZawartoscPotemH
  <2>5. \A n \in 1..count : H!Zawartosc'[n] = H!Zawartosc[n]
    <3>1. \A n \in 1..count : n \in 1..count'
      BY <2>1, <2>2
    <3>. QED
      BY <2>1, <2>2, <2>4, <3>1, Zenon
  <2>6. H!Zawartosc'[count + 1] = numer
    <3>1. count + 1 \in 1..count'
      BY <2>1, <2>2
    <3>. QED
      BY <2>1, <2>4, <3>1, Zenon
  <2>7. Len(H!Zawartosc) = count /\ H!Zawartosc' = Append(H!Zawartosc, numer)
    <3>1. H!Zawartosc' \in [1..(count + 1) -> H!Meldunki]
      BY <2>1, <2>4, Zenon
    <3>. QED
      BY <2>1, <2>2, <2>5, <2>6, <3>1, DopisanieLemma
  <2>. QED
    BY <1>1, <1>2, <2>1, <2>7 DEF H!Fifo!Wloz
<1>3. CASE ~(count < STACK_SIZE)
  BY <1>1, <1>3 DEF H!Wstaw, H!JestMiejsce, H!Zawartosc
<1>. QED
  BY <1>2, <1>3

(* dane = kolejka[head] is the queue's Wyjmij. *)
LEMMA PobierzWyjmuje ==
  ASSUME SztabStaly, IInvH, IInvH', NEW a \in Adiutanci, H!Pobierz(a)
  PROVE  H!Fifo!Wyjmij
<1>1. TypeH /\ PierscienH /\ TypeH' /\ PierscienH' /\ dane' = [dane EXCEPT ![a] = kolejka[head]]
  BY DEF IInvH, H!Pobierz, H!Najstarszy
<1>2. /\ count \in 1..STACK_SIZE /\ count' = count - 1
      /\ \A n \in 1..(count - 1) :
           kolejka'[(head' + n - 1) % STACK_SIZE] = kolejka[(head + (n + 1) - 1) % STACK_SIZE]
      /\ kolejka[head] = kolejka[(head + 1 - 1) % STACK_SIZE]
  BY <1>1, ZdjecieLemma
<1>3. /\ count \in Nat \ {0}
      /\ H!Zawartosc \in [1..count -> H!Meldunki]
      /\ \A n \in 1..count : H!Zawartosc[n] = kolejka[(head + n - 1) % STACK_SIZE]
  <2>1. count # 0
    BY <1>2 DEF SztabStaly
  <2>. QED
    BY <1>1, <2>1, ZawartoscH
<1>5. /\ H!Zawartosc' \in [1..count' -> H!Meldunki]
      /\ \A n \in 1..count' : H!Zawartosc'[n] = kolejka'[(head' + n - 1) % STACK_SIZE]
  BY <1>1, ZawartoscPotemH
<1>6. ASSUME NEW n \in 1..(count - 1) PROVE H!Zawartosc'[n] = H!Zawartosc[n + 1]
  <2>1. n \in 1..count' /\ n + 1 \in 1..count
    BY <1>2, <1>3
  <2>. QED
    BY <1>2, <1>3, <1>5, <2>1, Zenon
<1>7. H!Zawartosc[1] = kolejka[head]
  <2>1. 1 \in 1..count
    BY <1>3
  <2>. QED
    BY <1>2, <1>3, <2>1, Zenon
<1>8. H!Zawartosc # <<>> /\ Head(H!Zawartosc) = H!Zawartosc[1] /\ H!Zawartosc' = Tail(H!Zawartosc)
  <2>1. H!Zawartosc' \in [1..(count - 1) -> H!Meldunki]
    BY <1>2, <1>5, Zenon
  <2>. QED
    BY <1>3, <1>6, <2>1, OdjecieLemma, Zenon
<1>9. /\ H!Zawartosc # <<>>
      /\ dane' = [dane EXCEPT ![a] = Head(H!Zawartosc)]
      /\ H!Zawartosc' = Tail(H!Zawartosc)
  BY <1>1, <1>7, <1>8, Zenon
<1>. QED
  BY <1>9, Zenon DEF H!Fifo!Wyjmij

(* Every step of the program is a step of the bounded queue, or leaves the
   queue and what was taken from it alone. *)
LEMMA KrokKolejki ==
  ASSUME SztabStaly, IInvH, IInvH', [H!Next]_(H!vars)
  PROVE  [H!Fifo!Next]_<<H!Zawartosc, dane>>
<1>1. ASSUME UNCHANGED <<H!bufor, dane>> PROVE UNCHANGED <<H!Zawartosc, dane>>
  BY <1>1 DEF H!bufor, H!Zawartosc
<1>2. CASE H!Wstaw
  BY <1>2, WstawWklada DEF H!Fifo!Next
<1>3. ASSUME NEW a \in Adiutanci, H!Pobierz(a) PROVE H!Fifo!Next
  BY <1>3, PobierzWyjmuje DEF H!Fifo!Next
<1>4. ASSUME NEW a \in Adiutanci, H!Rejestruj(a) \/ H!Rysuj(a) PROVE UNCHANGED <<H!bufor, dane>>
  BY <1>4, ObrobkaLemma
<1>5. ASSUME NEW a \in Adiutanci, H!CzekajNaMeldunek(a) PROVE UNCHANGED <<H!bufor, dane>>
  BY <1>5 DEF H!CzekajNaMeldunek
<1>6. CASE H!sigint_handler \/ H!Odbierz \/ H!TestPetli \/ H!Alarm \/ H!Zamknij \/ UNCHANGED H!vars
  BY <1>6, <1>1 DEF H!sigint_handler, H!Odbierz, H!TestPetli, H!Alarm, H!Zamknij, H!vars, H!adiutant
<1>. QED
  BY <1>1, <1>2, <1>3, <1>4, <1>5, <1>6 DEF H!Next, H!KrokSerwera, H!KrokAdiutanta

-----------------------------------------------------------------------------
(* The lock programs.  What is kept in the accounts and in the counter. *)
Skarbiec == Konta \cup {"licznik"}
SumaPamieci == SumaNa(pam, Skarbiec)
Razem == Cardinality(Konta) * INITIAL_BALANCE

(* The places of a thread that owns the lock, and all the others. *)
WSekcjiL == {"sprawdz", "czytaj_src", "pisz_src", "czytaj_dst", "pisz_dst", "unlock", "store"}
Oczekuje == {"lock", "turn", "flag_j", "turn_j", "exchange", "FUTEX_WAIT", "spi"}
PozaSekcjaL == {"petla", "koniec", "FUTEX_WAKE"} \cup Oczekuje

WolnyL == \A w \in L!Watki : pc[w] \notin WSekcjiL

TypL ==
  /\ wariant \in L!Bezpieczne
  /\ pc \in [L!Watki -> WSekcjiL \cup PozaSekcjaL]
  /\ i \in [L!Watki -> 0..ITERATIONS[wariant]]
  /\ \A w \in L!Watki : pc[w] = "koniec" => i[w] = ITERATIONS[wariant]
  /\ rejestr \in [L!Watki -> Int]
  /\ pam \in [L!Adresy -> Int]
  /\ DOMAIN bufor = L!Watki /\ DOMAIN zlecenie = L!Watki

(* Where a thread of each program can be, and its order. *)
MiejscaL ==
  \A w \in L!Watki :
    /\ wariant \in L!Liczniki => pc[w] \notin {"sprawdz", "czytaj_src", "pisz_src"}
    /\ pc[w] \in {"store", "exchange", "FUTEX_WAIT", "spi", "FUTEX_WAKE"} => wariant = "futex"
    /\ pc[w] \in {"turn", "flag_j", "turn_j"} => wariant = "peterson_atomic"

Znak(w) == IF w % 2 = 0 THEN 1 ELSE -1
DobreZlecenie(w, z) ==
  \/ wariant \in L!Liczniki /\ z = [src |-> "licznik", dst |-> "licznik", amount |-> Znak(w)]
  \/ wariant \notin L!Liczniki
     /\ \E s, d \in Konta, k \in Kwoty : s # d /\ z = [src |-> s, dst |-> d, amount |-> k]
ZleceniaL ==
  \A w \in L!Watki : pc[w] \notin {"petla", "koniec"} => DobreZlecenie(w, zlecenie[w])

(* One thread at a time owns the lock, and what the lock's word says of it. *)
WykluczanieL ==
  \A w, v \in L!Watki : pc[w] \in WSekcjiL /\ pc[v] \in WSekcjiL => w = v

ZamekL ==
  /\ wariant \in {"atomic_swap", "atomic_tas"} => pam["lck"] \in {0, 1} /\ (pam["lck"] = 0 <=> WolnyL)
  /\ wariant = "semaphore" => pam["lck"] \in {0, 1} /\ (pam["lck"] = 1 <=> WolnyL)
  /\ wariant = "futex" => pam["lck"] \in 0..2 /\ (pam["lck"] = 0 <=> WolnyL)

(* Peterson's lock: a flag is up from the first line of lock to the last of
   unlock, and while one thread is inside the other one, if it has already
   given way, waits. *)
PetersonL ==
  wariant = "peterson_atomic" =>
    /\ pam["turn"] \in {0, 1}
    /\ \A w \in L!Watki :
         /\ pam[L!Flagi[w + 1]] = IF pc[w] \in {"turn", "flag_j", "turn_j"} \cup WSekcjiL THEN 1 ELSE 0
         /\ pc[w] \in WSekcjiL /\ pc[1 - w] \in {"flag_j", "turn_j"} => pam["turn"] = w

(* Only the owner has stores on their way to memory. *)
BuforyL ==
  \A w \in L!Watki : pc[w] \notin WSekcjiL \/ pc[w] \in {"sprawdz", "czytaj_src", "pisz_src", "store"}
                       => bufor[w] = <<>>

Wpis(a, v) == [adres |-> a, wart |-> v]

(* What the owner, in the middle of a transfer, has taken and not given. *)
PrzelewL(w) ==
  LET z == zlecenie[w]
      zSrc == Wpis(z.src, pam[z.src] - z.amount)
      naDst == Wpis(z.dst, pam[z.dst] + z.amount)
  IN /\ pc[w] \in {"sprawdz", "czytaj_src", "pisz_src"} => SumaPamieci = Razem
     /\ pc[w] \in {"czytaj_src", "pisz_src"} => pam[z.src] >= z.amount
     /\ pc[w] = "pisz_src" => rejestr[w] = pam[z.src]
     /\ pc[w] \in {"czytaj_dst", "pisz_dst"} =>
          \/ bufor[w] = <<zSrc>> /\ pam[z.src] >= z.amount /\ SumaPamieci = Razem
          \/ bufor[w] = <<>> /\ SumaPamieci = Razem - z.amount
     /\ pc[w] = "pisz_dst" => rejestr[w] = pam[z.dst]
     /\ pc[w] = "unlock" =>
          \/ bufor[w] = <<>> /\ SumaPamieci = Razem
          \/ bufor[w] = <<zSrc, naDst>> /\ pam[z.src] >= z.amount /\ SumaPamieci = Razem
          \/ bufor[w] = <<naDst>> /\ SumaPamieci = Razem - z.amount

PrzelewyL ==
  wariant \in L!Przelewy =>
    /\ pam["licznik"] = 0 /\ \A k \in Konta : pam[k] >= 0
    /\ WolnyL => SumaPamieci = Razem
    /\ \A w \in L!Watki : pc[w] \in WSekcjiL => PrzelewL(w)

(* The updates of the counter that thread w has made, with their sign. *)
Zrobione(w) == IF pc[w] \in {"czytaj_dst", "pisz_dst"} \cup Oczekuje THEN i[w] - 1 ELSE i[w]
Wklad == [w \in L!Watki |-> IF Znak(w) = 1 THEN Zrobione(w) ELSE -Zrobione(w)]
SumaWkladow == SumaNa(Wklad, L!Watki)

LicznikL(w) ==
  /\ pc[w] \in {"czytaj_dst", "pisz_dst", "store"} => bufor[w] = <<>> /\ pam["licznik"] = SumaWkladow
  /\ pc[w] = "pisz_dst" => rejestr[w] = pam["licznik"]
  /\ pc[w] = "unlock" =>
       \/ bufor[w] = <<>> /\ pam["licznik"] = SumaWkladow
       \/ bufor[w] = <<Wpis("licznik", SumaWkladow)>>

LicznikiL ==
  wariant \in L!Liczniki =>
    /\ \A k \in Konta : pam[k] = INITIAL_BALANCE
    /\ WolnyL => pam["licznik"] = SumaWkladow
    /\ \A w \in L!Watki : pc[w] \in WSekcjiL => LicznikL(w)

StanL == TypL /\ MiejscaL /\ ZleceniaL /\ WykluczanieL /\ ZamekL /\ PetersonL /\ BuforyL

(* The inductive invariant, of the programs with a real lock. *)
IInvL == wariant \in L!Bezpieczne => StanL /\ PrzelewyL /\ LicznikiL
-----------------------------------------------------------------------------
(* The constants of the lock programs: addresses, threads, flags. *)
LEMMA AdresyLemma ==
  ASSUME BankStaly
  PROVE  /\ Konta \subseteq L!Adresy /\ Skarbiec \subseteq L!Adresy
         /\ {"licznik", "lck", "turn", "flag0", "flag1"} \subseteq L!Adresy
         /\ "lck" \notin Skarbiec /\ "turn" \notin Skarbiec
         /\ "flag0" \notin Skarbiec /\ "flag1" \notin Skarbiec
         /\ "licznik" \notin Konta
         /\ IsFiniteSet(Skarbiec)
<1>1. IsFiniteSet(Skarbiec)
  BY FS_AddElement DEF BankStaly, Skarbiec
<1>. QED
  BY <1>1 DEF BankStaly, Skarbiec, L!Adresy

(* The threads: two, or twice NUM_THREADS in futex.c, and always the same. *)
LEMMA WatkiLemma ==
  ASSUME BankStaly
  PROVE  /\ wariant # "futex" => L!Watki = {0, 1}
         /\ L!Watki \subseteq Nat /\ IsFiniteSet(L!Watki)
         /\ wariant' = wariant => L!Watki' = L!Watki
<1>1. L!Watki = 0..(IF wariant = "futex" THEN 2 * NUM_THREADS - 1 ELSE 1)
  BY DEF L!Watki
<1> DEFINE m == IF wariant = "futex" THEN 2 * NUM_THREADS - 1 ELSE 1
<1>2. IsFiniteSet(L!Watki)
  <2>1. m \in Int
    BY DEF BankStaly
  <2> HIDE DEF m
  <2>2. IsFiniteSet(0..m)
    BY <2>1, FS_Interval
  <2>. QED
    BY <1>1, <2>2 DEF m
<1>3. L!Watki \subseteq Nat
  BY <1>1
<1>. QED
  BY <1>1, <1>2, <1>3 DEF L!Watki

(* The flag of a thread of Peterson's lock, and that of the other one. *)
LEMMA FlagiLemma ==
  ASSUME BankStaly, NEW w \in {0, 1}
  PROVE  /\ L!Flagi[w + 1] = (IF w = 0 THEN "flag0" ELSE "flag1")
         /\ L!Flagi[2 - w] = (IF w = 0 THEN "flag1" ELSE "flag0")
BY DEF L!Flagi

(* A load finds memory when the store buffer is empty, and memory or the one
   store when it has one entry. *)
LEMMA OdczytLemma ==
  ASSUME NEW w \in L!Watki, NEW a
  PROVE  /\ bufor[w] = <<>> => L!Odczyt(w, a) = pam[a]
         /\ \A x, v : bufor[w] = <<Wpis(x, v)>> => L!Odczyt(w, a) = IF x = a THEN v ELSE pam[a]
<1>1. ASSUME bufor[w] = <<>> PROVE L!Odczyt(w, a) = pam[a]
  BY <1>1 DEF L!Odczyt
<1>2. ASSUME NEW x, NEW v, bufor[w] = <<Wpis(x, v)>>
      PROVE  L!Odczyt(w, a) = IF x = a THEN v ELSE pam[a]
  <2>1. DOMAIN bufor[w] = {1} /\ bufor[w][1].adres = x /\ bufor[w][1].wart = v
    BY <1>2 DEF Wpis
  <2>2. CASE x = a
    <3>1. {n \in DOMAIN bufor[w] : bufor[w][n].adres = a} = {1}
      BY <2>1, <2>2
    <3>2. (CHOOSE n \in {1} : \A m \in {1} : m <= n) = 1
      OBVIOUS
    <3>. QED
      BY <2>1, <2>2, <3>1, <3>2 DEF L!Odczyt
  <2>3. CASE x # a
    <3>1. {n \in DOMAIN bufor[w] : bufor[w][n].adres = a} = {}
      BY <2>1, <2>3
    <3>. QED
      BY <2>3, <3>1 DEF L!Odczyt
  <2>. QED
    BY <2>2, <2>3
<1>. QED
  BY <1>1, <1>2

(* The oldest store and the others, of a buffer with one or two entries. *)
LEMMA BuforLemmaL ==
  ASSUME NEW x, NEW y
  PROVE  /\ <<x>> # <<>> /\ Head(<<x>>) = x /\ Tail(<<x>>) = <<>>
         /\ <<x, y>> # <<>> /\ Head(<<x, y>>) = x /\ Tail(<<x, y>>) = <<y>>
         /\ Append(<<>>, x) = <<x>> /\ Append(<<x>>, y) = <<x, y>>
<1> DEFINE Z == {x, y}
<1>1. <<>> \in Seq(Z) /\ <<x>> \in Seq(Z) /\ <<y>> \in Seq(Z) /\ <<x, y>> \in Seq(Z)
  OBVIOUS
<1>2. Len(<<x>>) = 1 /\ Len(<<y>>) = 1 /\ Len(<<x, y>>) = 2 /\ Len(<<>>) = 0
  OBVIOUS
<1>3. Tail(<<x>>) \in Seq(Z) /\ Len(Tail(<<x>>)) = 0
  BY <1>1, <1>2, HeadTailProperties
<1>4. Tail(<<x, y>>) \in Seq(Z) /\ Len(Tail(<<x, y>>)) = 1 /\ Tail(<<x, y>>)[1] = y
  BY <1>1, <1>2, HeadTailProperties
<1>5. Append(<<>>, x) \in Seq(Z) /\ Len(Append(<<>>, x)) = 1 /\ Append(<<>>, x)[1] = x
  BY <1>1, <1>2, AppendProperties
<1>6. /\ Append(<<x>>, y) \in Seq(Z) /\ Len(Append(<<x>>, y)) = 2
      /\ Append(<<x>>, y)[1] = x /\ Append(<<x>>, y)[2] = y
  BY <1>1, <1>2, AppendProperties
<1>7. Tail(<<x>>) = <<>>
  BY <1>3
<1>8. Tail(<<x, y>>) = <<y>>
  BY <1>1, <1>2, <1>4, SeqEqual
<1>9. Append(<<>>, x) = <<x>>
  BY <1>1, <1>2, <1>5, SeqEqual
<1>10. Append(<<x>>, y) = <<x, y>>
  <2>1. <<x, y>>[1] = x /\ <<x, y>>[2] = y
    OBVIOUS
  <2>2. \A n \in 1..Len(Append(<<x>>, y)) : Append(<<x>>, y)[n] = <<x, y>>[n]
    BY <1>6, <2>1
  <2>. QED
    BY <1>1, <1>2, <1>6, <2>2, SeqEqual
<1>. QED
  BY <1>2, <1>7, <1>8, <1>9, <1>10

(* A step that stores nothing in the accounts leaves their sum alone. *)
LEMMA SumaPamieciLemma ==
  ASSUME BankStaly, pam \in [L!Adresy -> Int], \A a \in Skarbiec : pam'[a] = pam[a]
  PROVE  SumaPamieci' = SumaPamieci
<1>1. IsFiniteSet(Skarbiec) /\ \A a \in Skarbiec : pam[a] \in Int
  BY AdresyLemma
<1>2. Skarbiec' = Skarbiec
  BY DEF Skarbiec
<1>3. SumaNa(pam', Skarbiec) = SumaNa(pam, Skarbiec)
  BY <1>1, SumaRowna
<1>. QED
  BY <1>2, <1>3 DEF SumaPamieci

(* The order of a thread that has one. *)
LEMMA ZlecenieLemma ==
  ASSUME BankStaly, ZleceniaL, NEW w \in L!Watki, pc[w] \notin {"petla", "koniec"}
  PROVE  /\ wariant \in L!Liczniki =>
              /\ zlecenie[w].src = "licznik" /\ zlecenie[w].dst = "licznik"
              /\ zlecenie[w].amount = Znak(w)
         /\ wariant \notin L!Liczniki =>
              /\ zlecenie[w].src \in Konta /\ zlecenie[w].dst \in Konta
              /\ zlecenie[w].src # zlecenie[w].dst /\ zlecenie[w].amount \in Nat
<1>1. CASE wariant \in L!Liczniki
  <2>1. DobreZlecenie(w, zlecenie[w])
    BY DEF ZleceniaL
  <2>2. zlecenie[w] = [src |-> "licznik", dst |-> "licznik", amount |-> Znak(w)]
    BY <1>1, <2>1 DEF DobreZlecenie
  <2>3. zlecenie[w].src = "licznik" /\ zlecenie[w].dst = "licznik" /\ zlecenie[w].amount = Znak(w)
    BY <2>2
  <2>. QED
    BY <1>1, <2>3
<1>2. CASE wariant \notin L!Liczniki
  <2>1. PICK s \in Konta, d \in Konta, k \in Kwoty :
          s # d /\ zlecenie[w] = [src |-> s, dst |-> d, amount |-> k]
    BY <1>2 DEF ZleceniaL, DobreZlecenie
  <2>2. k \in Nat
    BY DEF BankStaly
  <2>. QED
    BY <1>2, <2>1, <2>2
<1>. QED
  BY <1>1, <1>2

(* A transfer program, when no account is touched: nobody enters or leaves
   the section, or w enters it, or leaves it with nothing left to store. *)
LEMMA PrzelewBezZmian ==
  ASSUME BankStaly, StanL, StanL', PrzelewyL, NEW w \in L!Watki,
         wariant \in L!Przelewy, wariant' = wariant, rejestr' = rejestr, bufor' = bufor,
         \A a \in Skarbiec : pam'[a] = pam[a],
         \A v \in L!Watki : v # w => pc'[v] = pc[v] /\ zlecenie'[v] = zlecenie[v],
         \/ pc[w] \notin WSekcjiL /\ pc'[w] \notin WSekcjiL
         \/ pc[w] \notin WSekcjiL /\ pc'[w] = "sprawdz"
         \/ pc[w] = "unlock" /\ bufor[w] = <<>> /\ pc'[w] \notin WSekcjiL
  PROVE  PrzelewyL'
<1>1. /\ L!Watki' = L!Watki /\ "licznik" \in Skarbiec /\ Konta \subseteq Skarbiec
      /\ WSekcjiL' = WSekcjiL /\ Razem' = Razem
  BY WatkiLemma DEF Skarbiec, WSekcjiL, Razem
<1>2. SumaPamieci' = SumaPamieci
  BY SumaPamieciLemma DEF StanL, TypL
<1>3. /\ pam["licznik"] = 0 /\ \A k \in Konta : pam[k] >= 0
      /\ WolnyL => SumaPamieci = Razem
      /\ \A v \in L!Watki : pc[v] \in WSekcjiL => PrzelewL(v)
  BY DEF PrzelewyL
<1>4. \A v, u \in L!Watki : pc[v] \in WSekcjiL /\ pc[u] \in WSekcjiL => v = u
  BY DEF StanL, WykluczanieL
<1>5. \A v, u \in L!Watki : pc'[v] \in WSekcjiL /\ pc'[u] \in WSekcjiL => v = u
  BY <1>1 DEF StanL, WykluczanieL
<1>6. ASSUME NEW v \in L!Watki, v # w, pc'[v] \in WSekcjiL
      PROVE  PrzelewL(v)'
  <2>1. pc[v] = pc'[v] /\ zlecenie'[v] = zlecenie[v] /\ PrzelewL(v)
    BY <1>3, <1>6
  <2>2. wariant \notin L!Liczniki /\ pc[v] \notin {"petla", "koniec"}
    BY <1>6, <2>1 DEF L!Przelewy, L!Liczniki, WSekcjiL
  <2>3. zlecenie[v].src \in Konta /\ zlecenie[v].dst \in Konta
    BY <2>2, ZlecenieLemma DEF StanL
  <2>4. pam'[zlecenie[v].src] = pam[zlecenie[v].src] /\ pam'[zlecenie[v].dst] = pam[zlecenie[v].dst]
    BY <1>1, <2>3
  <2>. QED
    BY <1>1, <1>2, <2>1, <2>4 DEF PrzelewL, Wpis
<1>7. ASSUME pc'[w] \in WSekcjiL
      PROVE  PrzelewL(w)'
  <2>1. pc[w] \notin WSekcjiL /\ pc'[w] = "sprawdz"
    BY <1>7
  <2>2. WolnyL
    <3>1. SUFFICES ASSUME NEW v \in L!Watki, pc[v] \in WSekcjiL PROVE FALSE
      BY DEF WolnyL
    <3>2. v # w /\ pc'[v] = pc[v]
      BY <2>1, <3>1
    <3>. QED
      BY <1>5, <1>7, <3>1, <3>2
  <2>. QED
    BY <1>1, <1>2, <1>3, <2>1, <2>2 DEF PrzelewL
<1>8. ASSUME WolnyL'
      PROVE  SumaPamieci' = Razem
  <2>1. \A v \in L!Watki : pc'[v] \notin WSekcjiL
    BY <1>1, <1>8 DEF WolnyL
  <2>2. CASE pc[w] = "unlock" /\ bufor[w] = <<>>
    <3>1. PrzelewL(w)
      BY <1>3, <2>2 DEF WSekcjiL
    <3>. QED
      BY <1>2, <2>2, <3>1 DEF PrzelewL
  <2>3. CASE ~(pc[w] = "unlock" /\ bufor[w] = <<>>)
    <3>1. WolnyL
      BY <2>1, <2>3 DEF WolnyL
    <3>. QED
      BY <1>2, <1>3, <3>1
  <2>. QED
    BY <2>2, <2>3
<1>. QED
  BY <1>1, <1>3, <1>6, <1>7, <1>8 DEF PrzelewyL

(* The same of a counting program: besides, the updates made do not change. *)
LEMMA LicznikBezZmian ==
  ASSUME BankStaly, StanL, StanL', LicznikiL, NEW w \in L!Watki,
         wariant \in L!Liczniki, wariant' = wariant, rejestr' = rejestr, bufor' = bufor,
         \A a \in Skarbiec : pam'[a] = pam[a],
         \A v \in L!Watki : v # w =>
           i'[v] = i[v] /\ (pc'[v] = pc[v] \/ (pc[v] = "spi" /\ pc'[v] = "exchange")),
         Zrobione(w)' = Zrobione(w),
         \/ pc[w] \notin WSekcjiL /\ pc'[w] \notin WSekcjiL
         \/ pc[w] \notin WSekcjiL /\ pc'[w] = "czytaj_dst"
         \/ pc[w] = "unlock" /\ bufor[w] = <<>> /\ pc'[w] = "store"
         \/ pc[w] \in {"unlock", "store"} /\ bufor[w] = <<>> /\ pc'[w] \notin WSekcjiL
  PROVE  LicznikiL'
<1>1. /\ L!Watki' = L!Watki /\ "licznik" \in Skarbiec /\ Konta \subseteq Skarbiec
      /\ WSekcjiL' = WSekcjiL
  BY WatkiLemma DEF Skarbiec, WSekcjiL
<1>2. SumaWkladow' = SumaWkladow
  <2>1. \A v \in L!Watki : Zrobione(v)' = Zrobione(v)
    BY DEF Zrobione, Oczekuje
  <2>2. Wklad' = Wklad
    BY <1>1, <2>1 DEF Wklad
  <2>. QED
    BY <1>1, <2>2 DEF SumaWkladow
<1>3. /\ \A k \in Konta : pam[k] = INITIAL_BALANCE
      /\ WolnyL => pam["licznik"] = SumaWkladow
      /\ \A v \in L!Watki : pc[v] \in WSekcjiL => LicznikL(v)
  BY DEF LicznikiL
<1>5. \A v, u \in L!Watki : pc'[v] \in WSekcjiL /\ pc'[u] \in WSekcjiL => v = u
  BY <1>1 DEF StanL, WykluczanieL
<1>6. ASSUME NEW v \in L!Watki, v # w, pc'[v] \in WSekcjiL
      PROVE  LicznikL(v)'
  <2>1. pc[v] = pc'[v] /\ LicznikL(v)
    BY <1>3, <1>6 DEF WSekcjiL
  <2>. QED
    BY <1>1, <1>2, <2>1 DEF LicznikL, Wpis
<1>7. ASSUME pc'[w] \in WSekcjiL
      PROVE  LicznikL(w)'
  <2>1. CASE pc[w] \notin WSekcjiL /\ pc'[w] = "czytaj_dst"
    <3>1. WolnyL
      <4>1. SUFFICES ASSUME NEW v \in L!Watki, pc[v] \in WSekcjiL PROVE FALSE
        BY DEF WolnyL
      <4>2. v # w /\ pc'[v] = pc[v]
        BY <2>1, <4>1 DEF WSekcjiL
      <4>. QED
        BY <1>5, <1>7, <4>1, <4>2
    <3>2. bufor[w] = <<>>
      BY <2>1 DEF StanL, BuforyL
    <3>. QED
      BY <1>1, <1>2, <1>3, <2>1, <3>1, <3>2 DEF LicznikL
  <2>2. CASE pc[w] = "unlock" /\ bufor[w] = <<>> /\ pc'[w] = "store"
    <3>1. LicznikL(w)
      BY <1>3, <2>2 DEF WSekcjiL
    <3>. QED
      BY <1>1, <1>2, <2>2, <3>1 DEF LicznikL
  <2>. QED
    BY <1>7, <2>1, <2>2
<1>8. ASSUME WolnyL'
      PROVE  pam'["licznik"] = SumaWkladow'
  <2>1. \A v \in L!Watki : pc'[v] \notin WSekcjiL
    BY <1>1, <1>8 DEF WolnyL
  <2>2. CASE pc[w] \in {"unlock", "store"} /\ bufor[w] = <<>>
    <3>1. LicznikL(w)
      BY <1>3, <2>2 DEF WSekcjiL
    <3>. QED
      BY <1>1, <1>2, <2>2, <3>1 DEF LicznikL
  <2>3. CASE ~(pc[w] \in {"unlock", "store"} /\ bufor[w] = <<>>)
    <3>1. WolnyL
      BY <2>1, <2>3 DEF WolnyL, WSekcjiL
    <3>. QED
      BY <1>1, <1>2, <1>3, <3>1
  <2>. QED
    BY <2>2, <2>3
<1>. QED
  BY <1>1, <1>3, <1>6, <1>7, <1>8 DEF LicznikiL

-----------------------------------------------------------------------------
(* The control of the lock programs, action by action: the loop. *)
LEMMA PetlaStan ==
  ASSUME BankStaly, StanL, NEW w \in L!Watki, L!Petla(w)
  PROVE  StanL'
<1>1. /\ wariant' = wariant /\ L!Watki' = L!Watki /\ rejestr' = rejestr /\ pam' = pam /\ bufor' = bufor
      /\ pc[w] = "petla" /\ pc' = [pc EXCEPT ![w] = "lock"] /\ i' = [i EXCEPT ![w] = @ + 1]
      /\ i[w] < ITERATIONS[wariant]
  BY WatkiLemma DEF L!Petla, L!Idz
<1>2. TypL' /\ MiejscaL'
  <2>1. ITERATIONS[wariant] \in Nat
    BY DEF BankStaly, StanL, TypL, L!Bezpieczne, L!Liczniki
  <2>2. DOMAIN zlecenie' = L!Watki
    BY DEF L!Petla, L!client_simulator, L!incrementer, L!decrementer, L!Zlec, StanL, TypL
  <2>3. i' \in [L!Watki -> 0..ITERATIONS[wariant]]
    BY <1>1, <2>1 DEF StanL, TypL
  <2>. QED
    BY <1>1, <2>2, <2>3 DEF StanL, TypL, MiejscaL, WSekcjiL, PozaSekcjaL, Oczekuje
<1>3. ZleceniaL'
  <2>1. \E z : DobreZlecenie(w, z) /\ L!Zlec(w, z.src, z.dst, z.amount)
                 /\ z = [src |-> z.src, dst |-> z.dst, amount |-> z.amount]
    <3>1. CASE wariant \in L!Przelewy /\ L!client_simulator(w)
      <4>1. wariant \notin L!Liczniki
        BY <3>1 DEF L!Przelewy, L!Liczniki
      <4>2. PICK s \in Konta, d \in Konta, k \in Kwoty : s # d /\ L!Zlec(w, s, d, k)
        BY <3>1 DEF L!client_simulator
      <4> DEFINE z == [src |-> s, dst |-> d, amount |-> k]
      <4>3. z.src = s /\ z.dst = d /\ z.amount = k
        OBVIOUS
      <4>4. DobreZlecenie(w, z)
        BY <4>1, <4>2 DEF DobreZlecenie
      <4> HIDE DEF z
      <4>5. z = [src |-> z.src, dst |-> z.dst, amount |-> z.amount]
        BY <4>3 DEF z
      <4>. QED
        BY <4>2, <4>3, <4>4, <4>5
    <3>2. CASE wariant \in L!Liczniki
      <4>1. \A v \in L!Watki : v \in Nat
        BY WatkiLemma
      <4>2. L!Zlec(w, "licznik", "licznik", Znak(w))
        <5>1. L!incrementer(w) \/ L!decrementer(w)
          BY <3>2 DEF L!Petla, L!Przelewy, L!Liczniki
        <5>2. CASE L!incrementer(w)
          BY <5>2 DEF L!incrementer, Znak
        <5>3. CASE L!decrementer(w)
          BY <5>3 DEF L!decrementer, Znak
        <5>. QED
          BY <5>1, <5>2, <5>3
      <4> DEFINE z == [src |-> "licznik", dst |-> "licznik", amount |-> Znak(w)]
      <4>3. z.src = "licznik" /\ z.dst = "licznik" /\ z.amount = Znak(w)
        OBVIOUS
      <4>4. DobreZlecenie(w, z)
        BY <3>2 DEF DobreZlecenie
      <4> HIDE DEF z
      <4>5. z = [src |-> z.src, dst |-> z.dst, amount |-> z.amount]
        BY <4>3 DEF z
      <4>. QED
        BY <4>2, <4>3, <4>4, <4>5
    <3>. QED
      BY <3>1, <3>2 DEF L!Petla
  <2>2. PICK z : DobreZlecenie(w, z) /\ zlecenie' = [zlecenie EXCEPT ![w] = z]
    BY <2>1 DEF L!Zlec
  <2>3. zlecenie'[w] = z /\ \A v \in L!Watki : v # w => zlecenie'[v] = zlecenie[v] /\ pc'[v] = pc[v]
    BY <1>1, <2>2 DEF StanL, TypL
  <2>4. \A v \in L!Watki : DobreZlecenie(v, zlecenie[v]) /\ zlecenie'[v] = zlecenie[v]
                             => DobreZlecenie(v, zlecenie[v])'
    BY <1>1 DEF DobreZlecenie, L!Liczniki, Znak
  <2>5. DobreZlecenie(w, zlecenie[w])'
    BY <1>1, <2>2, <2>3 DEF DobreZlecenie, L!Liczniki, Znak
  <2>6. \A v \in L!Watki : v # w /\ pc[v] \notin {"petla", "koniec"} => DobreZlecenie(v, zlecenie[v])
    BY DEF StanL, ZleceniaL
  <2>. QED
    BY <1>1, <2>3, <2>4, <2>5, <2>6 DEF ZleceniaL
<1>4. \A v \in L!Watki : pc'[v] \in WSekcjiL <=> pc[v] \in WSekcjiL
  BY <1>1 DEF StanL, TypL, WSekcjiL
<1>5. WykluczanieL' /\ (WolnyL' <=> WolnyL)
  BY <1>1, <1>4 DEF StanL, WykluczanieL, WolnyL, WSekcjiL
<1>6. ZamekL'
  BY <1>1, <1>5 DEF StanL, ZamekL
<1>7. PetersonL'
  BY <1>1, WatkiLemma DEF StanL, TypL, PetersonL, WSekcjiL
<1>8. BuforyL'
  BY <1>1 DEF StanL, TypL, BuforyL, WSekcjiL
<1>. QED
  BY <1>2, <1>3, <1>5, <1>6, <1>7, <1>8 DEF StanL

(* Orders stay what they are when nobody gets a new one. *)
LEMMA ZleceniaTrwaja ==
  ASSUME BankStaly, StanL, wariant' = wariant, zlecenie' = zlecenie,
         \A v \in L!Watki : pc'[v] \notin {"petla", "koniec"} => pc[v] \notin {"petla", "koniec"}
  PROVE  ZleceniaL'
<1>1. L!Watki' = L!Watki
  BY WatkiLemma
<1>2. \A v \in L!Watki : DobreZlecenie(v, zlecenie[v]) => DobreZlecenie(v, zlecenie[v])'
  BY DEF DobreZlecenie, L!Liczniki, Znak
<1>. QED
  BY <1>1, <1>2 DEF StanL, ZleceniaL

(* The end of a thread. *)
LEMMA KoniecStan ==
  ASSUME BankStaly, StanL, NEW w \in L!Watki, L!Koniec(w)
  PROVE  StanL'
<1>1. /\ wariant' = wariant /\ L!Watki' = L!Watki /\ rejestr' = rejestr /\ pam' = pam /\ bufor' = bufor
      /\ zlecenie' = zlecenie /\ i' = i /\ i[w] = ITERATIONS[wariant]
      /\ pc[w] = "petla" /\ pc' = [pc EXCEPT ![w] = "koniec"]
  BY WatkiLemma DEF L!Koniec, L!Idz
<1>2. TypL' /\ MiejscaL'
  BY <1>1 DEF StanL, TypL, MiejscaL, WSekcjiL, PozaSekcjaL, Oczekuje
<1>3. ZleceniaL'
  BY <1>1, ZleceniaTrwaja DEF StanL, TypL
<1>4. \A v \in L!Watki : pc'[v] \in WSekcjiL <=> pc[v] \in WSekcjiL
  BY <1>1 DEF StanL, TypL, WSekcjiL
<1>5. WykluczanieL' /\ (WolnyL' <=> WolnyL)
  BY <1>1, <1>4 DEF StanL, WykluczanieL, WolnyL, WSekcjiL
<1>6. ZamekL'
  BY <1>1, <1>5 DEF StanL, ZamekL
<1>7. PetersonL'
  BY <1>1, WatkiLemma DEF StanL, TypL, PetersonL, WSekcjiL
<1>8. BuforyL'
  BY <1>1 DEF StanL, TypL, BuforyL, WSekcjiL
<1>. QED
  BY <1>2, <1>3, <1>5, <1>6, <1>7, <1>8 DEF StanL

(* What every step on the word of a lock has in common. *)
RuchZamka(w, a, x, q) ==
  /\ bufor[w] = <<>> /\ bufor' = bufor /\ pam' = [pam EXCEPT ![a] = x]
  /\ pc' = [pc EXCEPT ![w] = q]
  /\ UNCHANGED <<wariant, i, zlecenie, rejestr>>

(* The ways through lock and unlock: waiting, going in, letting go. *)
PrzejscieZamka(w, q) ==
  \/ pc[w] \in Oczekuje /\ q \in Oczekuje \cup {L!Sekcja}
  \/ pc[w] = "unlock" /\ q \in {"petla", "store"}
  \/ pc[w] = "store" /\ q = "FUTEX_WAKE"

(* A step of a lock that is one word: what is left to show is that the word
   still says who is inside. *)
LEMMA ZamekStan ==
  ASSUME BankStaly, StanL, NEW w \in L!Watki, NEW x \in Int, NEW q \in WSekcjiL \cup PozaSekcjaL,
         wariant # "peterson_atomic", RuchZamka(w, "lck", x, q),
         pc[w] \notin {"petla", "koniec"}, q # "koniec",
         wariant \in L!Liczniki => q \notin {"sprawdz", "czytaj_src", "pisz_src"},
         q \in {"store", "exchange", "FUTEX_WAIT", "spi", "FUTEX_WAKE"} => wariant = "futex",
         q \notin {"turn", "flag_j", "turn_j"},
         WykluczanieL', ZamekL'
  PROVE  StanL'
<1>1. /\ wariant' = wariant /\ L!Watki' = L!Watki /\ rejestr' = rejestr /\ bufor' = bufor
      /\ zlecenie' = zlecenie /\ i' = i /\ pc' = [pc EXCEPT ![w] = q]
      /\ pam' = [pam EXCEPT !["lck"] = x] /\ bufor[w] = <<>>
  BY WatkiLemma DEF RuchZamka
<1>2. TypL' /\ MiejscaL'
  BY <1>1, AdresyLemma DEF StanL, TypL, MiejscaL, L!Liczniki, L!Bezpieczne, L!Adresy, WSekcjiL, PozaSekcjaL, Oczekuje
<1>3. ZleceniaL'
  BY <1>1, ZleceniaTrwaja DEF StanL, TypL
<1>4. PetersonL'
  BY <1>1 DEF PetersonL
<1>5. BuforyL'
  BY <1>1 DEF StanL, TypL, BuforyL, WSekcjiL
<1>. QED
  BY <1>2, <1>3, <1>4, <1>5 DEF StanL

(* atomic_exchange and atomic_flag_test_and_set. *)
LEMMA WymianaStan ==
  ASSUME BankStaly, StanL, NEW w \in L!Watki, L!LockWymiana(w) \/ L!UnlockWymiana(w),
         UNCHANGED <<wariant, i, zlecenie, rejestr>>
  PROVE  StanL' /\ \E x, q : RuchZamka(w, "lck", x, q) /\ PrzejscieZamka(w, q)
<1> DEFINE x == IF pc[w] = "lock" THEN 1 ELSE 0
           q == IF pc[w] = "lock" THEN IF pam["lck"] = 0 THEN L!Sekcja ELSE "lock" ELSE "petla"
<1>1. /\ RuchZamka(w, "lck", x, q) /\ wariant \in {"atomic_swap", "atomic_tas"}
      /\ pc[w] \in {"lock", "unlock"} /\ x \in Int
  BY DEF L!LockWymiana, L!UnlockWymiana, RuchZamka, L!Atomowo, L!Idz
<1>2. /\ q \in {"sprawdz", "czytaj_dst", "lock", "petla"}
      /\ q = "sprawdz" => wariant \notin L!Liczniki
      /\ pc[w] = "lock" /\ pam["lck"] = 0 => q \in {"sprawdz", "czytaj_dst"}
      /\ pc[w] = "lock" /\ pam["lck"] # 0 => q = "lock"
      /\ pc[w] = "unlock" => q = "petla"
  BY <1>1 DEF L!Sekcja, L!Przelewy, L!Liczniki
<1>3. (x = IF pc[w] = "lock" THEN 1 ELSE 0) /\ PrzejscieZamka(w, q)
  BY <1>1 DEF PrzejscieZamka, Oczekuje
<1> HIDE DEF x, q
<1>4. /\ L!Watki' = L!Watki /\ pc' = [pc EXCEPT ![w] = q] /\ pam'["lck"] = x /\ wariant' = wariant
      /\ pc \in [L!Watki -> WSekcjiL \cup PozaSekcjaL]
  BY <1>1, WatkiLemma, AdresyLemma DEF RuchZamka, StanL, TypL
<1>5. pam["lck"] \in {0, 1} /\ (pam["lck"] = 0 <=> WolnyL) /\ WykluczanieL
  BY <1>1 DEF StanL, ZamekL
<1>6. WykluczanieL'
  BY <1>1, <1>2, <1>4, <1>5 DEF WykluczanieL, WolnyL, WSekcjiL
<1>7. pam'["lck"] = 0 <=> WolnyL'
  BY <1>1, <1>2, <1>3, <1>4, <1>5 DEF WykluczanieL, WolnyL, WSekcjiL
<1>8. ZamekL'
  BY <1>1, <1>3, <1>4, <1>7 DEF ZamekL
<1>9. q \in WSekcjiL \cup PozaSekcjaL
  BY <1>2 DEF WSekcjiL, PozaSekcjaL, Oczekuje
<1>10. StanL'
  BY <1>1, <1>2, <1>6, <1>8, <1>9, ZamekStan
<1>. QED
  BY <1>1, <1>3, <1>10

(* sem_wait and sem_post. *)
LEMMA SemaforStan ==
  ASSUME BankStaly, StanL, NEW w \in L!Watki, L!Semafor(w),
         UNCHANGED <<wariant, i, zlecenie, rejestr>>
  PROVE  StanL' /\ \E x, q : RuchZamka(w, "lck", x, q) /\ PrzejscieZamka(w, q)
<1> DEFINE x == IF pc[w] = "lock" THEN pam["lck"] - 1 ELSE pam["lck"] + 1
           q == IF pc[w] = "lock" THEN "czytaj_dst" ELSE "petla"
<1>0. pam["lck"] \in {0, 1} /\ (pam["lck"] = 1 <=> WolnyL) /\ WykluczanieL
  BY DEF StanL, ZamekL, L!Semafor
<1>1. /\ RuchZamka(w, "lck", x, q) /\ wariant = "semaphore"
      /\ pc[w] \in {"lock", "unlock"} /\ x \in Int
      /\ pc[w] = "lock" => pam["lck"] > 0
  BY <1>0 DEF L!Semafor, RuchZamka, L!Atomowo, L!Idz, L!Sekcja, L!Przelewy
<1>2. /\ pc[w] = "lock" => q = "czytaj_dst" /\ x = pam["lck"] - 1
      /\ pc[w] = "unlock" => q = "petla" /\ x = pam["lck"] + 1
  OBVIOUS
<1>3. PrzejscieZamka(w, q)
  BY <1>1, <1>2 DEF PrzejscieZamka, Oczekuje, L!Sekcja, L!Przelewy
<1> HIDE DEF x, q
<1>4. /\ L!Watki' = L!Watki /\ pc' = [pc EXCEPT ![w] = q] /\ pam'["lck"] = x /\ wariant' = wariant
      /\ pc \in [L!Watki -> WSekcjiL \cup PozaSekcjaL]
  BY <1>1, WatkiLemma, AdresyLemma DEF RuchZamka, StanL, TypL
<1>6. WykluczanieL'
  BY <1>0, <1>1, <1>2, <1>4 DEF WykluczanieL, WolnyL, WSekcjiL
<1>7. pam'["lck"] \in {0, 1} /\ (pam'["lck"] = 1 <=> WolnyL')
  BY <1>0, <1>1, <1>2, <1>4 DEF WykluczanieL, WolnyL, WSekcjiL
<1>8. ZamekL'
  BY <1>1, <1>4, <1>7 DEF ZamekL
<1>9. q \in WSekcjiL \cup PozaSekcjaL /\ q \in {"czytaj_dst", "petla"}
  BY <1>1, <1>2 DEF WSekcjiL, PozaSekcjaL, Oczekuje
<1>10. StanL'
  BY <1>1, <1>6, <1>8, <1>9, ZamekStan
<1>. QED
  BY <1>1, <1>3, <1>10

(* lock and unlock of futex.c, up to the call that wakes. *)
LEMMA FutexRuch ==
  ASSUME BankStaly, StanL, NEW w \in L!Watki, L!LockFutex(w) \/ L!UnlockFutex(w), pc[w] # "FUTEX_WAKE",
         UNCHANGED <<wariant, i, zlecenie, rejestr>>
  PROVE  /\ wariant = "futex" /\ pc[w] \in {"lock", "exchange", "FUTEX_WAIT", "unlock", "store"}
         /\ pam["lck"] \in 0..2
         /\ \E x \in 0..2, q \in {"czytaj_dst", "exchange", "FUTEX_WAIT", "spi", "petla", "store", "FUTEX_WAKE"} :
              /\ RuchZamka(w, "lck", x, q)
              /\ pc[w] \in {"lock", "exchange", "FUTEX_WAIT"} =>
                   \/ q = "czytaj_dst" /\ pam["lck"] = 0 /\ x > 0
                   \/ q \in {"exchange", "FUTEX_WAIT", "spi"} /\ (x = 0 <=> pam["lck"] = 0)
              /\ pc[w] = "unlock" => (q = "petla" /\ x = 0) \/ (q = "store" /\ x > 0)
              /\ pc[w] = "store" => q = "FUTEX_WAKE" /\ x = 0
<1>1. wariant = "futex"
  BY DEF L!LockFutex, L!UnlockFutex
<1>2. pam["lck"] \in 0..2 /\ (pam["lck"] = 0 <=> WolnyL) /\ L!Sekcja = "czytaj_dst"
  BY <1>1 DEF StanL, ZamekL, L!Sekcja, L!Przelewy
<1>3. CASE pc[w] = "lock"
  <2>1. /\ L!Atomowo(w, "lck", IF pam["lck"] = 0 THEN 1 ELSE pam["lck"])
        /\ L!Idz(w, IF pam["lck"] = 0 THEN "czytaj_dst" ELSE "exchange")
    BY <1>2, <1>3 DEF L!LockFutex, L!UnlockFutex
  <2>2. CASE pam["lck"] = 0
    <3>1. RuchZamka(w, "lck", 1, "czytaj_dst")
      BY <2>1, <2>2 DEF RuchZamka, L!Atomowo, L!Idz
    <3>. QED
      BY <1>1, <1>2, <1>3, <2>2, <3>1
  <2>3. CASE pam["lck"] # 0
    <3>1. RuchZamka(w, "lck", pam["lck"], "exchange")
      BY <2>1, <2>3 DEF RuchZamka, L!Atomowo, L!Idz
    <3>. QED
      BY <1>1, <1>2, <1>3, <2>3, <3>1
  <2>. QED
    BY <2>2, <2>3
<1>4. CASE pc[w] = "exchange"
  <2>1. L!Atomowo(w, "lck", 2) /\ L!Idz(w, IF pam["lck"] = 0 THEN "czytaj_dst" ELSE "FUTEX_WAIT")
    BY <1>2, <1>4 DEF L!LockFutex, L!UnlockFutex
  <2>2. RuchZamka(w, "lck", 2, IF pam["lck"] = 0 THEN "czytaj_dst" ELSE "FUTEX_WAIT")
    BY <2>1 DEF RuchZamka, L!Atomowo, L!Idz
  <2>. QED
    BY <1>1, <1>2, <1>4, <2>2
<1>5. CASE pc[w] = "FUTEX_WAIT"
  <2>1. pam' = pam /\ bufor' = bufor /\ L!Idz(w, IF pam["lck"] = 2 THEN "spi" ELSE "exchange")
    BY <1>5 DEF L!LockFutex, L!UnlockFutex
  <2>2. bufor[w] = <<>>
    BY <1>5 DEF StanL, BuforyL, WSekcjiL
  <2>3. pam' = [pam EXCEPT !["lck"] = pam["lck"]]
    BY <2>1 DEF StanL, TypL
  <2>4. RuchZamka(w, "lck", pam["lck"], IF pam["lck"] = 2 THEN "spi" ELSE "exchange")
    BY <2>1, <2>2, <2>3 DEF RuchZamka, L!Idz
  <2>. QED
    BY <1>1, <1>2, <1>5, <2>4
<1>6. CASE pc[w] = "unlock"
  <2>1. L!Atomowo(w, "lck", pam["lck"] - 1) /\ L!Idz(w, IF pam["lck"] = 1 THEN "petla" ELSE "store")
    BY <1>6 DEF L!LockFutex, L!UnlockFutex
  <2>2. pam["lck"] \in 1..2
    BY <1>2, <1>6 DEF WolnyL, WSekcjiL
  <2>3. RuchZamka(w, "lck", pam["lck"] - 1, IF pam["lck"] = 1 THEN "petla" ELSE "store")
    BY <2>1 DEF RuchZamka, L!Atomowo, L!Idz
  <2>4. pam["lck"] - 1 \in 0..2 /\ (pam["lck"] = 1 <=> pam["lck"] - 1 = 0)
    BY <2>2
  <2>. QED
    BY <1>1, <1>2, <1>6, <2>2, <2>3, <2>4
<1>7. CASE pc[w] = "store"
  <2>1. RuchZamka(w, "lck", 0, "FUTEX_WAKE")
    BY <1>7 DEF L!LockFutex, L!UnlockFutex, RuchZamka, L!Atomowo, L!Idz
  <2>. QED
    BY <1>1, <1>2, <1>7, <2>1
<1>. QED
  BY <1>3, <1>4, <1>5, <1>6, <1>7 DEF L!LockFutex, L!UnlockFutex

(* lock and unlock of futex.c, but for the wake-up, keep the state. *)
LEMMA FutexStan ==
  ASSUME BankStaly, StanL, NEW w \in L!Watki, L!LockFutex(w) \/ L!UnlockFutex(w), pc[w] # "FUTEX_WAKE",
         UNCHANGED <<wariant, i, zlecenie, rejestr>>
  PROVE  StanL'
<1>1. PICK x \in 0..2, q \in {"czytaj_dst", "exchange", "FUTEX_WAIT", "spi", "petla", "store", "FUTEX_WAKE"} :
        /\ RuchZamka(w, "lck", x, q)
        /\ pc[w] \in {"lock", "exchange", "FUTEX_WAIT"} =>
             \/ q = "czytaj_dst" /\ pam["lck"] = 0 /\ x > 0
             \/ q \in {"exchange", "FUTEX_WAIT", "spi"} /\ (x = 0 <=> pam["lck"] = 0)
        /\ pc[w] = "unlock" => (q = "petla" /\ x = 0) \/ (q = "store" /\ x > 0)
        /\ pc[w] = "store" => q = "FUTEX_WAKE" /\ x = 0
  BY FutexRuch
<1>2. /\ wariant = "futex" /\ pc[w] \in {"lock", "exchange", "FUTEX_WAIT", "unlock", "store"}
      /\ pam["lck"] \in 0..2
  BY FutexRuch
<1>4. /\ L!Watki' = L!Watki /\ pc' = [pc EXCEPT ![w] = q] /\ pam'["lck"] = x /\ wariant' = wariant
      /\ pc \in [L!Watki -> WSekcjiL \cup PozaSekcjaL]
  BY <1>1, WatkiLemma, AdresyLemma DEF RuchZamka, StanL, TypL
<1>5. (pam["lck"] = 0 <=> WolnyL) /\ WykluczanieL
  BY <1>2 DEF StanL, ZamekL
<1>6. WykluczanieL'
  <2>1. CASE q = "czytaj_dst"
    BY <1>1, <1>2, <1>4, <1>5, <2>1 DEF WykluczanieL, WolnyL, WSekcjiL
  <2>2. CASE q # "czytaj_dst"
    BY <1>1, <1>2, <1>4, <1>5, <2>2 DEF WykluczanieL, WSekcjiL
  <2>. QED
    BY <2>1, <2>2
<1>7. pam'["lck"] = 0 <=> WolnyL'
  <2>1. CASE pc[w] \in {"lock", "exchange", "FUTEX_WAIT"}
    BY <1>1, <1>4, <1>5, <2>1 DEF WolnyL, WSekcjiL
  <2>2. CASE pc[w] = "unlock"
    BY <1>1, <1>4, <1>5, <2>2 DEF WykluczanieL, WolnyL, WSekcjiL
  <2>3. CASE pc[w] = "store"
    BY <1>1, <1>4, <1>5, <2>3 DEF WykluczanieL, WolnyL, WSekcjiL
  <2>. QED
    BY <1>2, <2>1, <2>2, <2>3
<1>8. ZamekL'
  BY <1>2, <1>4, <1>7 DEF ZamekL
<1>9. q \in WSekcjiL \cup PozaSekcjaL /\ x \in Int
  BY <1>1 DEF WSekcjiL, PozaSekcjaL, Oczekuje
<1>. QED
  BY <1>1, <1>2, <1>6, <1>8, <1>9, ZamekStan

(* FUTEX_WAKE: at most one sleeper goes back to its exchange. *)
LEMMA WakeStan ==
  ASSUME BankStaly, StanL, NEW w \in L!Watki, L!UnlockFutex(w), pc[w] = "FUTEX_WAKE",
         UNCHANGED <<wariant, i, zlecenie, rejestr>>
  PROVE  /\ StanL' /\ wariant = "futex" /\ pc'[w] = "petla" /\ pam' = pam /\ bufor' = bufor
         /\ \A v \in L!Watki : v # w => pc'[v] = pc[v] \/ (pc[v] = "spi" /\ pc'[v] = "exchange")
<1>1. /\ wariant = "futex" /\ wariant' = wariant /\ L!Watki' = L!Watki /\ pam' = pam /\ bufor' = bufor
      /\ L!FutexWake(w)
  BY WatkiLemma DEF L!UnlockFutex
<1>2. /\ pc' \in [L!Watki -> WSekcjiL \cup PozaSekcjaL] /\ pc'[w] = "petla"
      /\ \A v \in L!Watki : v # w => pc'[v] = pc[v] \/ (pc[v] = "spi" /\ pc'[v] = "exchange")
  <2>1. pc \in [L!Watki -> WSekcjiL \cup PozaSekcjaL]
    BY DEF StanL, TypL
  <2>2. "petla" \in PozaSekcjaL /\ "exchange" \in PozaSekcjaL
    BY DEF PozaSekcjaL, Oczekuje
  <2>3. CASE pc' = [pc EXCEPT ![w] = "petla"]
    BY <2>1, <2>2, <2>3
  <2>4. ASSUME NEW u \in L!Watki, pc[u] = "spi", pc' = [pc EXCEPT ![w] = "petla", ![u] = "exchange"]
        PROVE  /\ pc' \in [L!Watki -> WSekcjiL \cup PozaSekcjaL] /\ pc'[w] = "petla"
               /\ \A v \in L!Watki : v # w => pc'[v] = pc[v] \/ (pc[v] = "spi" /\ pc'[v] = "exchange")
    BY <2>1, <2>2, <2>4
  <2>. QED
    BY <1>1, <2>3, <2>4 DEF L!FutexWake, L!Idz
<1>3. \A v \in L!Watki : pc'[v] \in WSekcjiL <=> pc[v] \in WSekcjiL
  BY <1>2 DEF WSekcjiL
<1>4. TypL' /\ MiejscaL'
  BY <1>1, <1>2 DEF StanL, TypL, MiejscaL
<1>5. ZleceniaL'
  BY <1>1, <1>2, ZleceniaTrwaja
<1>6. WykluczanieL' /\ (WolnyL' <=> WolnyL)
  BY <1>1, <1>3 DEF StanL, WykluczanieL, WolnyL, WSekcjiL
<1>7. ZamekL' /\ PetersonL'
  BY <1>1, <1>6 DEF StanL, ZamekL, PetersonL
<1>8. BuforyL'
  BY <1>1, <1>2, <1>3 DEF StanL, BuforyL, WSekcjiL
<1>. QED
  BY <1>1, <1>2, <1>4, <1>5, <1>6, <1>7, <1>8 DEF StanL

(* Peterson's lock on atomic variables.  What one step of it does. *)
LEMMA PetersonRuch ==
  ASSUME BankStaly, StanL, NEW w \in L!Watki, L!peterson_mutex_lock(w) \/ L!peterson_mutex_unlock(w),
         UNCHANGED <<wariant, i, zlecenie, rejestr>>
  PROVE  /\ wariant = "peterson_atomic" /\ w \in {0, 1} /\ 1 - w \in {0, 1} /\ 1 - w # w
         /\ \/ pc[w] = "lock" /\ RuchZamka(w, L!Flagi[w + 1], 1, "turn")
            \/ pc[w] = "turn" /\ RuchZamka(w, "turn", 1 - w, "flag_j")
            \/ pc[w] = "flag_j" /\ pam[L!Flagi[(1 - w) + 1]] = 1 /\ RuchZamka(w, "turn", pam["turn"], "turn_j")
            \/ pc[w] = "flag_j" /\ pam[L!Flagi[(1 - w) + 1]] # 1 /\ RuchZamka(w, "turn", pam["turn"], "sprawdz")
            \/ pc[w] = "turn_j" /\ pam["turn"] = 1 - w /\ RuchZamka(w, "turn", pam["turn"], "flag_j")
            \/ pc[w] = "turn_j" /\ pam["turn"] # 1 - w /\ RuchZamka(w, "turn", pam["turn"], "sprawdz")
            \/ pc[w] = "unlock" /\ RuchZamka(w, L!Flagi[w + 1], 0, "petla")
<1>1. wariant = "peterson_atomic"
  BY DEF L!peterson_mutex_lock, L!peterson_mutex_unlock, StanL, TypL, L!Bezpieczne, L!Liczniki
<1>2. w \in {0, 1} /\ L!Sekcja = "sprawdz" /\ 2 - w = (1 - w) + 1 /\ 1 - w \in {0, 1} /\ 1 - w # w
  BY <1>1, WatkiLemma DEF L!Sekcja, L!Przelewy
<1>3. \A a, v : L!Pamiec(w, a, v) <=> L!Atomowo(w, a, v)
  BY <1>1 DEF L!Pamiec
<1>4. CASE pc[w] \in {"lock", "turn", "unlock"}
  BY <1>1, <1>2, <1>3, <1>4 DEF L!peterson_mutex_lock, L!peterson_mutex_unlock, L!Atomowo, L!Idz, RuchZamka
<1>5. CASE pc[w] \in {"flag_j", "turn_j"}
  <2>1. bufor[w] = <<>>
    BY <1>5 DEF StanL, BuforyL, WSekcjiL
  <2>2. \A a : L!Odczyt(w, a) = pam[a]
    BY <2>1, OdczytLemma
  <2>3. pam' = pam /\ bufor' = bufor
    BY <1>5 DEF L!peterson_mutex_lock, L!peterson_mutex_unlock
  <2>4. pam' = [pam EXCEPT !["turn"] = pam["turn"]]
    BY <2>3 DEF StanL, TypL
  <2>5. ASSUME NEW q, pc' = [pc EXCEPT ![w] = q] PROVE RuchZamka(w, "turn", pam["turn"], q)
    BY <2>1, <2>3, <2>4, <2>5 DEF RuchZamka
  <2>6. CASE pc[w] = "flag_j"
    <3>1. L!Odczyt(w, L!Flagi[2 - w]) = pam[L!Flagi[(1 - w) + 1]]
      BY <1>2, <2>2
    <3>2. pc' = [pc EXCEPT ![w] = IF pam[L!Flagi[(1 - w) + 1]] = 1 THEN "turn_j" ELSE "sprawdz"]
      BY <1>2, <2>6, <3>1 DEF L!peterson_mutex_lock, L!peterson_mutex_unlock, L!Idz
    <3>. QED
      BY <1>1, <1>2, <2>5, <2>6, <3>2
  <2>7. CASE pc[w] = "turn_j"
    <3>1. pc' = [pc EXCEPT ![w] = IF pam["turn"] = 1 - w THEN "flag_j" ELSE "sprawdz"]
      BY <1>2, <2>2, <2>7 DEF L!peterson_mutex_lock, L!peterson_mutex_unlock, L!Idz
    <3>. QED
      BY <1>1, <1>2, <2>5, <2>7, <3>1
  <2>. QED
    BY <1>5, <2>6, <2>7
<1>. QED
  BY <1>4, <1>5 DEF L!peterson_mutex_lock, L!peterson_mutex_unlock

(* Peterson's lock on atomic variables keeps the state: the thread that
   enters has seen the other flag down or the turn its own. *)
LEMMA PetersonStan ==
  ASSUME BankStaly, StanL, NEW w \in L!Watki, L!peterson_mutex_lock(w) \/ L!peterson_mutex_unlock(w),
         UNCHANGED <<wariant, i, zlecenie, rejestr>>
  PROVE  StanL'
<1> DEFINE j == 1 - w
           Wewnatrz == {"turn", "flag_j", "turn_j"} \cup WSekcjiL
           fw == L!Flagi[w + 1]
           fj == L!Flagi[j + 1]
<1>1. /\ wariant = "peterson_atomic" /\ w \in {0, 1} /\ j \in {0, 1} /\ j # w /\ L!Watki = {w, j} /\ 1 - j = w
      /\ wariant' = wariant /\ L!Watki' = L!Watki
  BY PetersonRuch, WatkiLemma
<1>2. fw \in {"flag0", "flag1"} /\ fj \in {"flag0", "flag1"} /\ fw # fj
  BY <1>1, FlagiLemma
<1>3. \/ pc[w] = "lock" /\ RuchZamka(w, fw, 1, "turn")
      \/ pc[w] = "turn" /\ RuchZamka(w, "turn", j, "flag_j")
      \/ pc[w] = "flag_j" /\ pam[fj] = 1 /\ RuchZamka(w, "turn", pam["turn"], "turn_j")
      \/ pc[w] = "flag_j" /\ pam[fj] # 1 /\ RuchZamka(w, "turn", pam["turn"], "sprawdz")
      \/ pc[w] = "turn_j" /\ pam["turn"] = j /\ RuchZamka(w, "turn", pam["turn"], "flag_j")
      \/ pc[w] = "turn_j" /\ pam["turn"] # j /\ RuchZamka(w, "turn", pam["turn"], "sprawdz")
      \/ pc[w] = "unlock" /\ RuchZamka(w, fw, 0, "petla")
  BY PetersonRuch
<1>4. /\ pam["turn"] \in {0, 1}
      /\ pam[fw] = IF pc[w] \in Wewnatrz THEN 1 ELSE 0
      /\ pam[fj] = IF pc[j] \in Wewnatrz THEN 1 ELSE 0
      /\ pc[w] \in WSekcjiL /\ pc[j] \in {"flag_j", "turn_j"} => pam["turn"] = w
      /\ pc[j] \in WSekcjiL /\ pc[w] \in {"flag_j", "turn_j"} => pam["turn"] = j
      /\ ~(pc[w] \in WSekcjiL /\ pc[j] \in WSekcjiL)
  BY <1>1 DEF StanL, PetersonL, WykluczanieL
<1>5. /\ pc \in [L!Watki -> WSekcjiL \cup PozaSekcjaL] /\ pam \in [L!Adresy -> Int]
      /\ "turn" \in L!Adresy /\ fw \in L!Adresy /\ fj \in L!Adresy /\ BuforyL /\ MiejscaL
  BY <1>2, AdresyLemma DEF StanL, TypL
<1>6. \E q \in {"turn", "flag_j", "turn_j", "sprawdz", "petla"}, a \in {fw, "turn"}, x \in {0, 1} :
        RuchZamka(w, a, x, q) /\ pc[w] \notin {"petla", "koniec"}
  BY <1>1, <1>3, <1>4
<1> USE DEF RuchZamka
<1>7. TypL' /\ MiejscaL'
  <2>1. PICK q \in {"turn", "flag_j", "turn_j", "sprawdz", "petla"}, a \in {fw, "turn"}, x \in {0, 1} :
          RuchZamka(w, a, x, q) /\ pc[w] \notin {"petla", "koniec"}
    BY <1>6
  <2>2. q \in WSekcjiL \cup PozaSekcjaL /\ a \in L!Adresy /\ x \in Int
    BY <1>5 DEF WSekcjiL, PozaSekcjaL, Oczekuje
  <2>3. L!Liczniki' = L!Liczniki /\ wariant \notin L!Liczniki
    BY <1>1 DEF L!Liczniki
  <2> HIDE DEF fw, fj
  <2>4. TypL'
    BY <1>1, <2>1, <2>2 DEF StanL, TypL, L!Bezpieczne, L!Liczniki, L!Adresy
  <2>5. MiejscaL'
    BY <1>1, <1>5, <2>1, <2>2, <2>3 DEF MiejscaL
  <2>. QED
    BY <2>4, <2>5
<1>8. ZleceniaL'
  BY <1>1, <1>5, <1>6, ZleceniaTrwaja
<1>9. /\ pc'[j] = pc[j] /\ (pc'[w] \in WSekcjiL => pc[j] \notin WSekcjiL)
  BY <1>1, <1>3, <1>4, <1>5 DEF WSekcjiL
<1>10. WykluczanieL' /\ ZamekL'
  BY <1>1, <1>9 DEF WykluczanieL, ZamekL, WSekcjiL
<1>11. BuforyL'
  BY <1>1, <1>3, <1>5 DEF BuforyL, WSekcjiL
<1>12. PetersonL'
  <2>1. /\ pam'["turn"] \in {0, 1}
        /\ pam'[fw] = IF pc'[w] \in Wewnatrz THEN 1 ELSE 0
        /\ pam'[fj] = IF pc'[j] \in Wewnatrz THEN 1 ELSE 0
        /\ pc'[w] \in WSekcjiL /\ pc'[j] \in {"flag_j", "turn_j"} => pam'["turn"] = w
        /\ pc'[j] \in WSekcjiL /\ pc'[w] \in {"flag_j", "turn_j"} => pam'["turn"] = j
    <3> HIDE DEF fw, fj, j
    <3>1. CASE pc[w] = "lock" /\ RuchZamka(w, fw, 1, "turn")
      BY <1>1, <1>2, <1>4, <1>5, <3>1 DEF WSekcjiL
    <3>2. CASE pc[w] = "turn" /\ RuchZamka(w, "turn", j, "flag_j")
      BY <1>1, <1>2, <1>4, <1>5, <3>2 DEF WSekcjiL
    <3>3. CASE pc[w] = "flag_j" /\ pam[fj] = 1 /\ RuchZamka(w, "turn", pam["turn"], "turn_j")
      BY <1>1, <1>2, <1>4, <1>5, <3>3 DEF WSekcjiL
    <3>4. CASE pc[w] = "flag_j" /\ pam[fj] # 1 /\ RuchZamka(w, "turn", pam["turn"], "sprawdz")
      BY <1>1, <1>2, <1>4, <1>5, <3>4 DEF WSekcjiL
    <3>5. CASE pc[w] = "turn_j" /\ pam["turn"] = j /\ RuchZamka(w, "turn", pam["turn"], "flag_j")
      BY <1>1, <1>2, <1>4, <1>5, <3>5 DEF WSekcjiL
    <3>6. CASE pc[w] = "turn_j" /\ pam["turn"] # j /\ RuchZamka(w, "turn", pam["turn"], "sprawdz")
      BY <1>1, <1>2, <1>4, <1>5, <3>6 DEF WSekcjiL
    <3>7. CASE pc[w] = "unlock" /\ RuchZamka(w, fw, 0, "petla")
      BY <1>1, <1>2, <1>4, <1>5, <3>7 DEF WSekcjiL
    <3>. QED
      BY <1>3, <3>1, <3>2, <3>3, <3>4, <3>5, <3>6, <3>7
  <2>2. fw' = fw /\ fj' = fj /\ WSekcjiL' = WSekcjiL
    BY DEF L!Flagi, WSekcjiL
  <2>. QED
    BY <1>1, <2>1, <2>2 DEF PetersonL
<1>. QED
  BY <1>7, <1>8, <1>10, <1>11, <1>12 DEF StanL

(* A step inside the section: the owner goes from p to q. *)
RuchSekcji(w, p, q) ==
  /\ pc[w] = p /\ pc' = [pc EXCEPT ![w] = q]
  /\ UNCHANGED <<wariant, i, zlecenie>>

(* A step inside the section keeps the state of the lock. *)
LEMMA SekcjaStan ==
  ASSUME BankStaly, StanL, NEW w \in L!Watki, NEW p \in WSekcjiL, NEW q \in WSekcjiL,
         RuchSekcji(w, p, q), p # "store", q # "store", pam' = pam, rejestr' \in [L!Watki -> Int],
         DOMAIN bufor' = L!Watki, \A v \in L!Watki : v # w => bufor'[v] = bufor[v],
         wariant \in L!Liczniki => q \notin {"sprawdz", "czytaj_src", "pisz_src"},
         q \in {"sprawdz", "czytaj_src", "pisz_src"} => bufor'[w] = <<>>
  PROVE  StanL'
<1>1. /\ wariant' = wariant /\ L!Watki' = L!Watki /\ zlecenie' = zlecenie /\ i' = i
      /\ pc[w] = p /\ pc' = [pc EXCEPT ![w] = q] /\ L!Liczniki' = L!Liczniki
      /\ pc \in [L!Watki -> WSekcjiL \cup PozaSekcjaL]
  BY WatkiLemma DEF RuchSekcji, L!Liczniki, StanL, TypL
<1>2. q \notin {"petla", "koniec", "store", "exchange", "FUTEX_WAIT", "spi", "FUTEX_WAKE", "turn", "flag_j", "turn_j"}
      /\ p \notin {"petla", "koniec", "turn", "flag_j", "turn_j"}
  BY DEF WSekcjiL
<1>3. TypL' /\ MiejscaL'
  BY <1>1, <1>2 DEF StanL, TypL, MiejscaL, L!Bezpieczne, L!Adresy
<1>4. ZleceniaL'
  BY <1>1, <1>2, ZleceniaTrwaja
<1>5. \A v \in L!Watki : pc'[v] \in WSekcjiL <=> pc[v] \in WSekcjiL
  BY <1>1
<1>6. WykluczanieL' /\ (WolnyL' <=> WolnyL)
  BY <1>1, <1>5 DEF StanL, WykluczanieL, WolnyL, WSekcjiL
<1>7. ZamekL'
  BY <1>1, <1>6 DEF StanL, ZamekL
<1>8. PetersonL'
  BY <1>1, <1>2, WatkiLemma DEF StanL, PetersonL, WSekcjiL
<1>9. BuforyL'
  BY <1>1, <1>2, <1>5 DEF StanL, BuforyL, WSekcjiL
<1>. QED
  BY <1>3, <1>4, <1>6, <1>7, <1>8, <1>9 DEF StanL

(* transfer(), and the update of a counter, step by step. *)
LEMMA TransferRuch ==
  ASSUME NEW w \in L!Watki, L!transfer(w), UNCHANGED <<wariant, i, zlecenie>>
  PROVE  LET z == zlecenie[w] IN
         /\ pam' = pam
         /\ \/ /\ RuchSekcji(w, "sprawdz", "czytaj_src") /\ L!Odczyt(w, z.src) >= z.amount
               /\ rejestr' = rejestr /\ bufor' = bufor
            \/ RuchSekcji(w, "sprawdz", "unlock") /\ rejestr' = rejestr /\ bufor' = bufor
            \/ /\ RuchSekcji(w, "czytaj_src", "pisz_src") /\ bufor' = bufor
               /\ rejestr' = [rejestr EXCEPT ![w] = L!Odczyt(w, z.src)]
            \/ /\ RuchSekcji(w, "czytaj_dst", "pisz_dst") /\ bufor' = bufor
               /\ rejestr' = [rejestr EXCEPT ![w] = L!Odczyt(w, z.dst)]
            \/ /\ RuchSekcji(w, "pisz_src", "czytaj_dst") /\ rejestr' = rejestr
               /\ bufor' = [bufor EXCEPT ![w] = Append(@, Wpis(z.src, rejestr[w] - z.amount))]
            \/ /\ RuchSekcji(w, "pisz_dst", "unlock") /\ rejestr' = rejestr
               /\ bufor' = [bufor EXCEPT ![w] = Append(@, Wpis(z.dst, rejestr[w] + z.amount))]
<1>1. CASE pc[w] = "sprawdz"
  BY <1>1 DEF L!transfer, L!StacNa, L!Idz, RuchSekcji
<1>2. CASE pc[w] \in {"czytaj_src", "czytaj_dst"}
  BY <1>2 DEF L!transfer, L!Idz, RuchSekcji
<1>3. CASE pc[w] \in {"pisz_src", "pisz_dst"}
  BY <1>3 DEF L!transfer, L!Idz, L!Zapis, RuchSekcji, Wpis
<1>. QED
  BY <1>1, <1>2, <1>3 DEF L!transfer

(* While w owns the lock, only w's part of the invariant says anything. *)
LEMMA WlascicielLemma ==
  ASSUME BankStaly, StanL', NEW w \in L!Watki, wariant' = wariant, pc'[w] \in WSekcjiL
  PROVE  /\ pam'["licznik"] = 0 /\ (\A k \in Konta : pam'[k] >= 0) /\ PrzelewL(w)' => PrzelewyL'
         /\ (\A k \in Konta : pam'[k] = INITIAL_BALANCE) /\ LicznikL(w)' => LicznikiL'
<1>1. L!Watki' = L!Watki /\ WSekcjiL' = WSekcjiL
  BY WatkiLemma DEF WSekcjiL
<1>2. \A v \in L!Watki' : pc'[v] \in WSekcjiL => v = w
  BY <1>1 DEF StanL, WykluczanieL
<1>3. ~WolnyL'
  BY <1>1 DEF WolnyL
<1>. QED
  BY <1>1, <1>2, <1>3 DEF PrzelewyL, LicznikiL

(* A step of transfer() moves on with the transfer; memory does not change. *)
LEMMA TransferPrzelew ==
  ASSUME BankStaly, StanL, PrzelewyL, wariant \in L!Przelewy, NEW w \in L!Watki, L!transfer(w),
         UNCHANGED <<wariant, i, zlecenie>>
  PROVE  StanL' /\ PrzelewyL'
<1> DEFINE z == zlecenie[w]
<1>1. pam' = pam /\ wariant \notin L!Liczniki
  BY TransferRuch DEF L!Przelewy, L!Liczniki
<1>2. pc[w] \in {"sprawdz", "czytaj_src", "pisz_src", "czytaj_dst", "pisz_dst"}
  BY TransferRuch DEF RuchSekcji
<1>3. PrzelewL(w) /\ pam["licznik"] = 0 /\ \A k \in Konta : pam[k] >= 0
  BY <1>2 DEF PrzelewyL, WSekcjiL
<1>4. z.src \in Konta /\ z.dst \in Konta /\ z.src # z.dst /\ z.amount \in Nat
  BY <1>1, <1>2, ZlecenieLemma DEF StanL
<1>5. /\ pam[z.src] \in Int /\ pam[z.dst] \in Int
      /\ rejestr \in [L!Watki -> Int] /\ DOMAIN bufor = L!Watki /\ pc \in [L!Watki -> WSekcjiL \cup PozaSekcjaL]
  BY <1>4, AdresyLemma DEF StanL, TypL
<1>6. SumaPamieci' = SumaPamieci /\ Razem' = Razem /\ zlecenie' = zlecenie
  BY <1>1, SumaPamieciLemma DEF StanL, TypL, Razem
<1>7. pc[w] \in {"sprawdz", "czytaj_src", "pisz_src"} => bufor[w] = <<>>
  BY DEF StanL, BuforyL
<1>8. /\ bufor[w] = <<>> => L!Odczyt(w, z.src) = pam[z.src] /\ L!Odczyt(w, z.dst) = pam[z.dst]
      /\ bufor[w] = <<Wpis(z.src, pam[z.src] - z.amount)>> => L!Odczyt(w, z.dst) = pam[z.dst]
  BY <1>4, OdczytLemma
<1>9. WSekcjiL' = WSekcjiL /\ {"sprawdz", "czytaj_src", "pisz_src", "czytaj_dst", "pisz_dst", "unlock"} \subseteq WSekcjiL
  BY DEF WSekcjiL
<1> HIDE DEF z
<1>10. ASSUME StanL', PrzelewL(w)', pc'[w] \in WSekcjiL PROVE PrzelewyL'
  BY <1>1, <1>3, <1>10, WlascicielLemma
<1>11. CASE /\ RuchSekcji(w, "sprawdz", "czytaj_src") /\ L!Odczyt(w, z.src) >= z.amount
            /\ rejestr' = rejestr /\ bufor' = bufor
  <2>1. StanL'
    BY <1>1, <1>5, <1>7, <1>9, <1>11, SekcjaStan DEF RuchSekcji
  <2>2. pc[w] = "sprawdz" /\ pc'[w] = "czytaj_src"
    BY <1>5, <1>11 DEF RuchSekcji
  <2>3. PrzelewL(w)'
    BY <1>1, <1>3, <1>6, <1>7, <1>8, <1>11, <2>2 DEF PrzelewL, z
  <2>. QED
    BY <1>9, <1>10, <2>1, <2>2, <2>3
<1>12. CASE RuchSekcji(w, "sprawdz", "unlock") /\ rejestr' = rejestr /\ bufor' = bufor
  <2>1. StanL'
    BY <1>1, <1>5, <1>9, <1>12, SekcjaStan
  <2>2. pc[w] = "sprawdz" /\ pc'[w] = "unlock"
    BY <1>5, <1>12 DEF RuchSekcji
  <2>3. PrzelewL(w)'
    BY <1>1, <1>3, <1>6, <1>7, <1>12, <2>2 DEF PrzelewL
  <2>. QED
    BY <1>9, <1>10, <2>1, <2>2, <2>3
<1>13. CASE /\ RuchSekcji(w, "czytaj_src", "pisz_src") /\ bufor' = bufor
            /\ rejestr' = [rejestr EXCEPT ![w] = L!Odczyt(w, z.src)]
  <2>1. pc[w] = "czytaj_src" /\ pc'[w] = "pisz_src"
    BY <1>5, <1>13 DEF RuchSekcji
  <2>2. bufor'[w] = <<>> /\ rejestr'[w] = pam[z.src] /\ rejestr' \in [L!Watki -> Int]
    BY <1>5, <1>7, <1>8, <1>13, <2>1
  <2>3. StanL'
    BY <1>1, <1>5, <1>9, <1>13, <2>2, SekcjaStan
  <2>4. PrzelewL(w)'
    BY <1>1, <1>3, <1>6, <2>1, <2>2 DEF PrzelewL, z
  <2>. QED
    BY <1>9, <1>10, <2>1, <2>3, <2>4
<1>14. CASE /\ RuchSekcji(w, "czytaj_dst", "pisz_dst") /\ bufor' = bufor
            /\ rejestr' = [rejestr EXCEPT ![w] = L!Odczyt(w, z.dst)]
  <2>1. pc[w] = "czytaj_dst" /\ pc'[w] = "pisz_dst"
    BY <1>5, <1>14 DEF RuchSekcji
  <2>2. \/ bufor[w] = <<Wpis(z.src, pam[z.src] - z.amount)>> /\ pam[z.src] >= z.amount /\ SumaPamieci = Razem
        \/ bufor[w] = <<>> /\ SumaPamieci = Razem - z.amount
    BY <1>3, <2>1 DEF PrzelewL, z
  <2>3. rejestr'[w] = pam[z.dst] /\ rejestr' \in [L!Watki -> Int]
    BY <1>5, <1>8, <1>14, <2>2
  <2>4. StanL'
    BY <1>1, <1>5, <1>9, <1>14, <2>3, SekcjaStan
  <2>5. PrzelewL(w)'
    BY <1>1, <1>6, <1>14, <2>1, <2>2, <2>3 DEF PrzelewL, z, Wpis
  <2>. QED
    BY <1>9, <1>10, <2>1, <2>4, <2>5
<1>15. CASE /\ RuchSekcji(w, "pisz_src", "czytaj_dst") /\ rejestr' = rejestr
            /\ bufor' = [bufor EXCEPT ![w] = Append(@, Wpis(z.src, rejestr[w] - z.amount))]
  <2>1. pc[w] = "pisz_src" /\ pc'[w] = "czytaj_dst"
    BY <1>5, <1>15 DEF RuchSekcji
  <2>2. SumaPamieci = Razem /\ pam[z.src] >= z.amount /\ rejestr[w] = pam[z.src]
    BY <1>3, <2>1 DEF PrzelewL, z
  <2>3. bufor'[w] = <<Wpis(z.src, pam[z.src] - z.amount)>> /\ DOMAIN bufor' = L!Watki
        /\ \A v \in L!Watki : v # w => bufor'[v] = bufor[v]
    BY <1>5, <1>7, <1>15, <2>1, <2>2, BuforLemmaL
  <2>4. StanL'
    BY <1>1, <1>5, <1>9, <1>15, <2>3, SekcjaStan
  <2>5. PrzelewL(w)'
    BY <1>1, <1>6, <2>1, <2>2, <2>3 DEF PrzelewL, z, Wpis
  <2>. QED
    BY <1>9, <1>10, <2>1, <2>4, <2>5
<1>16. CASE /\ RuchSekcji(w, "pisz_dst", "unlock") /\ rejestr' = rejestr
            /\ bufor' = [bufor EXCEPT ![w] = Append(@, Wpis(z.dst, rejestr[w] + z.amount))]
  <2>1. pc[w] = "pisz_dst" /\ pc'[w] = "unlock"
    BY <1>5, <1>16 DEF RuchSekcji
  <2> DEFINE zSrc == Wpis(z.src, pam[z.src] - z.amount)
             naDst == Wpis(z.dst, pam[z.dst] + z.amount)
  <2>2. /\ \/ bufor[w] = <<zSrc>> /\ pam[z.src] >= z.amount /\ SumaPamieci = Razem
           \/ bufor[w] = <<>> /\ SumaPamieci = Razem - z.amount
        /\ rejestr[w] = pam[z.dst]
    BY <1>3, <2>1 DEF PrzelewL, z
  <2>3. /\ bufor'[w] = Append(bufor[w], naDst) /\ DOMAIN bufor' = L!Watki
        /\ \A v \in L!Watki : v # w => bufor'[v] = bufor[v]
    BY <1>5, <1>16, <2>2
  <2>4. StanL'
    BY <1>1, <1>5, <1>9, <1>16, <2>3, SekcjaStan
  <2> HIDE DEF zSrc, naDst
  <2>5. \/ bufor'[w] = <<zSrc, naDst>> /\ pam[z.src] >= z.amount /\ SumaPamieci = Razem
        \/ bufor'[w] = <<naDst>> /\ SumaPamieci = Razem - z.amount
    BY <2>2, <2>3, BuforLemmaL
  <2>6. PrzelewL(w)'
    BY <1>1, <1>6, <2>1, <2>5 DEF PrzelewL, z, Wpis, zSrc, naDst
  <2>. QED
    BY <1>9, <1>10, <2>1, <2>4, <2>6
<1>. QED
  BY <1>11, <1>12, <1>13, <1>14, <1>15, <1>16, TransferRuch DEF z

(* The updates made are integers, one for each iteration. *)
LEMMA WkladLemma ==
  ASSUME BankStaly, TypL
  PROVE  /\ \A v \in L!Watki : Zrobione(v) \in Int /\ Znak(v) \in {1, -1}
         /\ \A v \in L!Watki : Wklad[v] \in Int
         /\ SumaWkladow \in Int
<1>1. ITERATIONS[wariant] \in Nat
  BY DEF TypL, BankStaly, L!Bezpieczne, L!Liczniki
<1>2. \A v \in L!Watki : i[v] \in Int
  BY <1>1 DEF TypL
<1>3. \A v \in L!Watki : Zrobione(v) \in Int /\ Znak(v) \in {1, -1}
  BY <1>2 DEF Zrobione, Znak
<1>4. \A v \in L!Watki : Wklad[v] \in Int
  BY <1>3 DEF Wklad
<1>5. SumaWkladow \in Int
  BY <1>4, WatkiLemma, SumaTyp DEF SumaWkladow
<1>. QED
  BY <1>3, <1>4, <1>5

(* The same of a step of the counter update. *)
LEMMA TransferLicznik ==
  ASSUME BankStaly, StanL, LicznikiL, wariant \in L!Liczniki, NEW w \in L!Watki, L!transfer(w),
         UNCHANGED <<wariant, i, zlecenie>>
  PROVE  StanL' /\ LicznikiL'
<1> DEFINE z == zlecenie[w]
<1>1. pam' = pam /\ wariant' = wariant /\ L!Watki' = L!Watki /\ i' = i
  BY TransferRuch, WatkiLemma
<1>2. pc[w] \in {"czytaj_dst", "pisz_dst"}
  BY TransferRuch DEF RuchSekcji, StanL, MiejscaL
<1>3. LicznikL(w) /\ \A k \in Konta : pam[k] = INITIAL_BALANCE
  BY <1>2 DEF LicznikiL, WSekcjiL
<1>4. z.dst = "licznik" /\ z.amount = Znak(w)
  BY <1>2, ZlecenieLemma DEF StanL
<1>5. /\ pam["licznik"] \in Int
      /\ rejestr \in [L!Watki -> Int] /\ DOMAIN bufor = L!Watki /\ pc \in [L!Watki -> WSekcjiL \cup PozaSekcjaL]
  BY AdresyLemma DEF StanL, TypL
<1>6. bufor[w] = <<>> /\ L!Odczyt(w, z.dst) = pam["licznik"] /\ pam["licznik"] = SumaWkladow
  BY <1>2, <1>3, <1>4, OdczytLemma DEF LicznikL
<1>7. WSekcjiL' = WSekcjiL /\ {"czytaj_dst", "pisz_dst", "unlock"} \subseteq WSekcjiL
  BY DEF WSekcjiL
<1>8. ASSUME StanL', LicznikL(w)', pc'[w] \in WSekcjiL PROVE LicznikiL'
  BY <1>1, <1>3, <1>8, WlascicielLemma
<1>9. /\ \A v \in L!Watki : Zrobione(v) \in Int /\ Znak(v) \in {1, -1}
      /\ \A v \in L!Watki : Wklad[v] \in Int
      /\ SumaWkladow \in Int
  BY WkladLemma DEF StanL
<1> HIDE DEF z
<1>10. CASE /\ RuchSekcji(w, "czytaj_dst", "pisz_dst") /\ bufor' = bufor
            /\ rejestr' = [rejestr EXCEPT ![w] = L!Odczyt(w, z.dst)]
  <2>1. pc[w] = "czytaj_dst" /\ pc'[w] = "pisz_dst" /\ \A v \in L!Watki : v # w => pc'[v] = pc[v]
    BY <1>5, <1>10 DEF RuchSekcji
  <2>2. rejestr'[w] = pam["licznik"] /\ rejestr' \in [L!Watki -> Int]
    BY <1>5, <1>6, <1>10
  <2>3. StanL'
    BY <1>1, <1>5, <1>7, <1>10, <2>2, SekcjaStan
  <2>4. \A v \in L!Watki : Zrobione(v)' = Zrobione(v)
    BY <1>1, <2>1 DEF Zrobione, Oczekuje
  <2>5. Wklad' = Wklad
    BY <1>1, <2>4 DEF Wklad, Znak
  <2>6. SumaWkladow' = SumaWkladow
    BY <1>1, <2>5 DEF SumaWkladow
  <2>7. LicznikL(w)'
    BY <1>1, <1>6, <1>10, <2>1, <2>2, <2>6 DEF LicznikL
  <2>. QED
    BY <1>7, <1>8, <2>1, <2>3, <2>7
<1>11. CASE /\ RuchSekcji(w, "pisz_dst", "unlock") /\ rejestr' = rejestr
            /\ bufor' = [bufor EXCEPT ![w] = Append(@, Wpis(z.dst, rejestr[w] + z.amount))]
  <2>1. pc[w] = "pisz_dst" /\ pc'[w] = "unlock" /\ \A v \in L!Watki : v # w => pc'[v] = pc[v]
    BY <1>5, <1>11 DEF RuchSekcji
  <2>2. rejestr[w] = pam["licznik"]
    BY <1>3, <2>1 DEF LicznikL
  <2>3. /\ bufor'[w] = <<Wpis("licznik", SumaWkladow + Znak(w))>> /\ DOMAIN bufor' = L!Watki
        /\ \A v \in L!Watki : v # w => bufor'[v] = bufor[v]
    BY <1>4, <1>5, <1>6, <1>11, <2>2, BuforLemmaL
  <2>4. StanL'
    BY <1>1, <1>5, <1>7, <1>11, <2>3, SekcjaStan
  <2>5. /\ Zrobione(w)' = Zrobione(w) + 1
        /\ \A v \in L!Watki : v # w => Zrobione(v)' = Zrobione(v)
    <3>1. i[w] \in Int
      <4>1. ITERATIONS[wariant] \in Nat
        BY DEF BankStaly, L!Liczniki
      <4>. QED
        BY <4>1 DEF StanL, TypL
    <3>. QED
      BY <1>1, <2>1, <3>1 DEF Zrobione, Oczekuje
  <2>6. /\ Wklad'[w] = Wklad[w] + Znak(w)
        /\ \A v \in L!Watki : v # w => Wklad'[v] = Wklad[v]
    <3>1. \A v \in L!Watki : Znak(v)' = Znak(v)
      BY DEF Znak
    <3>. QED
      BY <1>1, <1>9, <2>5, <3>1 DEF Wklad
  <2>7. SumaWkladow' = SumaWkladow + Znak(w)
    <3>1. IsFiniteSet(L!Watki) /\ Wklad'[w] \in Int
      BY <1>9, <2>6, WatkiLemma
    <3>2. SumaNa(Wklad', L!Watki) = SumaNa(Wklad, L!Watki) + Wklad'[w] - Wklad[w]
      BY <1>9, <2>6, <3>1, SumaZmiana
    <3>. QED
      BY <1>1, <1>9, <2>6, <3>2 DEF SumaWkladow
  <2>8. LicznikL(w)'
    BY <1>1, <2>1, <2>3, <2>7 DEF LicznikL, Wpis
  <2>. QED
    BY <1>7, <1>8, <2>1, <2>4, <2>8
<1>. QED
  BY <1>2, <1>10, <1>11, TransferRuch DEF z, RuchSekcji

-----------------------------------------------------------------------------
(* A store that reaches memory: the sum changes by as much as the entry. *)
LEMMA SumaPamieciZmiana ==
  ASSUME BankStaly, pam \in [L!Adresy -> Int], NEW a \in Skarbiec, NEW x \in Int,
         pam' = [pam EXCEPT ![a] = x]
  PROVE  /\ SumaPamieci \in Int /\ SumaPamieci' = SumaPamieci + x - pam[a]
         /\ pam' \in [L!Adresy -> Int] /\ pam'[a] = x
         /\ \A b \in L!Adresy : b # a => pam'[b] = pam[b]
<1>1. IsFiniteSet(Skarbiec) /\ Skarbiec \subseteq L!Adresy /\ Skarbiec' = Skarbiec
  BY AdresyLemma DEF Skarbiec
<1>2. \A b \in Skarbiec : pam[b] \in Int
  BY <1>1
<1>3. /\ pam' \in [L!Adresy -> Int] /\ pam'[a] = x
      /\ \A b \in L!Adresy : b # a => pam'[b] = pam[b]
  BY <1>1
<1>4. SumaNa(pam', Skarbiec) = SumaNa(pam, Skarbiec) + pam'[a] - pam[a]
  <2> DEFINE e == pam'
  <2>1. e[a] \in Int /\ \A b \in Skarbiec : b # a => e[b] = pam[b]
    BY <1>1, <1>3
  <2> HIDE DEF e
  <2>2. SumaNa(e, Skarbiec) = SumaNa(pam, Skarbiec) + e[a] - pam[a]
    BY <1>1, <1>2, <2>1, SumaZmiana
  <2>. QED
    BY <2>2 DEF e
<1>5. SumaNa(pam, Skarbiec) \in Int
  BY <1>1, <1>2, SumaTyp
<1>. QED
  BY <1>1, <1>3, <1>4, <1>5 DEF SumaPamieci

(* A store that reaches memory is one of the owner of the lock. *)
LEMMA OproznijStan ==
  ASSUME BankStaly, StanL, NEW w \in L!Watki, L!Oproznij(w),
         NEW a \in Skarbiec, NEW x \in Int, Head(bufor[w]) = Wpis(a, x)
  PROVE  /\ StanL' /\ pam' = [pam EXCEPT ![a] = x] /\ pam \in [L!Adresy -> Int]
         /\ bufor'[w] = Tail(bufor[w]) /\ pc[w] \in {"czytaj_dst", "pisz_dst", "unlock"}
         /\ UNCHANGED <<wariant, pc, i, zlecenie, rejestr>> /\ L!Watki' = L!Watki
<1>1. /\ wariant' = wariant /\ L!Watki' = L!Watki /\ zlecenie' = zlecenie /\ i' = i /\ pc' = pc
      /\ rejestr' = rejestr /\ L!Liczniki' = L!Liczniki /\ WSekcjiL' = WSekcjiL
  BY WatkiLemma DEF L!Oproznij, L!Liczniki, WSekcjiL
<1>2. /\ bufor[w] # <<>> /\ bufor' = [bufor EXCEPT ![w] = Tail(@)] /\ pam' = [pam EXCEPT ![a] = x]
  <2>1. Head(bufor[w]).adres = a /\ Head(bufor[w]).wart = x
    BY DEF Wpis
  <2>. QED
    BY <2>1 DEF L!Oproznij
<1>3. pc[w] \in {"czytaj_dst", "pisz_dst", "unlock"}
  BY <1>2 DEF StanL, BuforyL, WSekcjiL
<1>4. /\ pam \in [L!Adresy -> Int] /\ DOMAIN bufor = L!Watki
      /\ pc \in [L!Watki -> WSekcjiL \cup PozaSekcjaL]
  BY DEF StanL, TypL
<1>5. /\ bufor'[w] = Tail(bufor[w]) /\ DOMAIN bufor' = L!Watki
      /\ \A v \in L!Watki : v # w => bufor'[v] = bufor[v]
  BY <1>2, <1>4
<1>6. /\ pam' \in [L!Adresy -> Int] /\ pam'["lck"] = pam["lck"] /\ pam'["turn"] = pam["turn"]
      /\ pam'["flag0"] = pam["flag0"] /\ pam'["flag1"] = pam["flag1"]
  BY <1>2, <1>4, AdresyLemma
<1>7. TypL' /\ MiejscaL'
  BY <1>1, <1>5, <1>6 DEF StanL, TypL, MiejscaL, L!Bezpieczne, L!Adresy
<1>8. ZleceniaL'
  BY <1>1, ZleceniaTrwaja
<1>9. WykluczanieL' /\ (WolnyL' <=> WolnyL)
  BY <1>1 DEF StanL, WykluczanieL, WolnyL
<1>10. ZamekL'
  BY <1>1, <1>6, <1>9 DEF StanL, ZamekL
<1>11. PetersonL'
  <2>1. SUFFICES ASSUME wariant = "peterson_atomic" PROVE PetersonL'
    BY <1>1 DEF PetersonL
  <2>2. \A v \in L!Watki : pam'[L!Flagi[v + 1]] = pam[L!Flagi[v + 1]]
    BY <1>6, <2>1, WatkiLemma, FlagiLemma
  <2>3. L!Flagi' = L!Flagi
    BY DEF L!Flagi
  <2>. QED
    BY <1>1, <1>6, <2>2, <2>3 DEF StanL, PetersonL
<1>12. BuforyL'
  BY <1>1, <1>3, <1>5 DEF StanL, BuforyL, WSekcjiL
<1>. QED
  BY <1>1, <1>2, <1>3, <1>4, <1>5, <1>7, <1>8, <1>9, <1>10, <1>11, <1>12 DEF StanL

(* The withdrawal reaches memory, or the deposit does. *)
LEMMA OproznijPrzelew ==
  ASSUME BankStaly, StanL, PrzelewyL, wariant \in L!Przelewy, NEW w \in L!Watki, L!Oproznij(w)
  PROVE  StanL' /\ PrzelewyL'
<1> DEFINE z == zlecenie[w]
           zSrc == Wpis(z.src, pam[z.src] - z.amount)
           naDst == Wpis(z.dst, pam[z.dst] + z.amount)
<1>1. bufor[w] # <<>> /\ pc[w] \in {"czytaj_dst", "pisz_dst", "unlock"}
  BY DEF L!Oproznij, StanL, BuforyL, WSekcjiL
<1>2. PrzelewL(w) /\ pam["licznik"] = 0 /\ \A k \in Konta : pam[k] >= 0
  BY <1>1 DEF PrzelewyL, WSekcjiL
<1>3. z.src \in Konta /\ z.dst \in Konta /\ z.src # z.dst /\ z.amount \in Nat
  BY <1>1, ZlecenieLemma DEF StanL, L!Przelewy, L!Liczniki
<1>4. /\ z.src \in Skarbiec /\ z.dst \in Skarbiec /\ z.src # "licznik" /\ z.dst # "licznik"
      /\ Konta \subseteq L!Adresy /\ "licznik" \in L!Adresy /\ pam \in [L!Adresy -> Int]
      /\ Razem \in Int /\ Razem' = Razem
  <2>1. Razem \in Int
    BY FS_CardinalityType DEF BankStaly, Razem
  <2>. QED
    BY <1>3, <2>1, AdresyLemma DEF Skarbiec, StanL, TypL, Razem
<1>5. pam[z.src] - z.amount \in Int /\ pam[z.dst] + z.amount \in Int /\ pam[z.src] \in Int /\ pam[z.dst] \in Int
  BY <1>3, <1>4
<1>6. ASSUME StanL', PrzelewL(w)', pc'[w] \in WSekcjiL, wariant' = wariant,
             pam'["licznik"] = 0, \A k \in Konta : pam'[k] >= 0
      PROVE  PrzelewyL'
  BY <1>6, WlascicielLemma
<1>7. {"czytaj_dst", "pisz_dst", "unlock"} \subseteq WSekcjiL
  BY DEF WSekcjiL
<1>8. CASE /\ pc[w] \in {"czytaj_dst", "pisz_dst"} /\ bufor[w] = <<zSrc>>
           /\ pam[z.src] >= z.amount /\ SumaPamieci = Razem
  <2>1. Head(bufor[w]) = zSrc /\ Tail(bufor[w]) = <<>>
    BY <1>8, BuforLemmaL
  <2>2. /\ StanL' /\ pam' = [pam EXCEPT ![z.src] = pam[z.src] - z.amount] /\ bufor'[w] = <<>>
        /\ UNCHANGED <<wariant, pc, i, zlecenie, rejestr>> /\ L!Watki' = L!Watki
    BY <1>4, <1>5, <2>1, OproznijStan
  <2>3. /\ SumaPamieci' = Razem - z.amount /\ pam'[z.src] = pam[z.src] - z.amount
        /\ \A b \in L!Adresy : b # z.src => pam'[b] = pam[b]
    <3> DEFINE a == z.src
               x == pam[z.src] - z.amount
    <3>1. a \in Skarbiec /\ x \in Int /\ pam' = [pam EXCEPT ![a] = x]
      BY <1>4, <1>5, <2>2
    <3> HIDE DEF a, x
    <3>2. /\ SumaPamieci' = SumaPamieci + x - pam[a] /\ pam'[a] = x
          /\ \A b \in L!Adresy : b # a => pam'[b] = pam[b]
      BY <1>4, <3>1, SumaPamieciZmiana
    <3>. QED
      BY <1>3, <1>4, <1>5, <1>8, <3>2 DEF a, x
  <2>4. pam'["licznik"] = 0 /\ pam'[z.dst] = pam[z.dst] /\ \A k \in Konta : pam'[k] >= 0
    BY <1>2, <1>3, <1>4, <1>5, <1>8, <2>3
  <2>5. PrzelewL(w)'
    BY <1>2, <1>4, <1>8, <2>2, <2>3, <2>4 DEF PrzelewL
  <2>. QED
    BY <1>1, <1>6, <1>7, <2>2, <2>4, <2>5
<1>9. CASE /\ pc[w] = "unlock" /\ bufor[w] = <<zSrc, naDst>>
           /\ pam[z.src] >= z.amount /\ SumaPamieci = Razem
  <2>1. Head(bufor[w]) = zSrc /\ Tail(bufor[w]) = <<naDst>>
    BY <1>9, BuforLemmaL
  <2>2. /\ StanL' /\ pam' = [pam EXCEPT ![z.src] = pam[z.src] - z.amount] /\ bufor'[w] = <<naDst>>
        /\ UNCHANGED <<wariant, pc, i, zlecenie, rejestr>> /\ L!Watki' = L!Watki
    BY <1>4, <1>5, <2>1, OproznijStan
  <2>3. /\ SumaPamieci' = Razem - z.amount /\ pam'[z.src] = pam[z.src] - z.amount
        /\ \A b \in L!Adresy : b # z.src => pam'[b] = pam[b]
    <3> DEFINE a == z.src
               x == pam[z.src] - z.amount
    <3>1. a \in Skarbiec /\ x \in Int /\ pam' = [pam EXCEPT ![a] = x]
      BY <1>4, <1>5, <2>2
    <3> HIDE DEF a, x
    <3>2. /\ SumaPamieci' = SumaPamieci + x - pam[a] /\ pam'[a] = x
          /\ \A b \in L!Adresy : b # a => pam'[b] = pam[b]
      BY <1>4, <3>1, SumaPamieciZmiana
    <3>. QED
      BY <1>3, <1>4, <1>5, <1>9, <3>2 DEF a, x
  <2>4. pam'["licznik"] = 0 /\ pam'[z.dst] = pam[z.dst] /\ \A k \in Konta : pam'[k] >= 0
    BY <1>2, <1>3, <1>4, <1>5, <1>9, <2>3
  <2>5. PrzelewL(w)'
    BY <1>4, <1>9, <2>2, <2>3, <2>4 DEF PrzelewL, Wpis
  <2>. QED
    BY <1>1, <1>6, <1>7, <2>2, <2>4, <2>5
<1>10. CASE pc[w] = "unlock" /\ bufor[w] = <<naDst>> /\ SumaPamieci = Razem - z.amount
  <2>1. Head(bufor[w]) = naDst /\ Tail(bufor[w]) = <<>>
    BY <1>10, BuforLemmaL
  <2>2. /\ StanL' /\ pam' = [pam EXCEPT ![z.dst] = pam[z.dst] + z.amount] /\ bufor'[w] = <<>>
        /\ UNCHANGED <<wariant, pc, i, zlecenie, rejestr>> /\ L!Watki' = L!Watki
    BY <1>4, <1>5, <2>1, OproznijStan
  <2>3. /\ SumaPamieci' = Razem /\ pam'[z.dst] = pam[z.dst] + z.amount
        /\ \A b \in L!Adresy : b # z.dst => pam'[b] = pam[b]
    <3> DEFINE a == z.dst
               x == pam[z.dst] + z.amount
    <3>1. a \in Skarbiec /\ x \in Int /\ pam' = [pam EXCEPT ![a] = x]
      BY <1>4, <1>5, <2>2
    <3> HIDE DEF a, x
    <3>2. /\ SumaPamieci' = SumaPamieci + x - pam[a] /\ pam'[a] = x
          /\ \A b \in L!Adresy : b # a => pam'[b] = pam[b]
      BY <1>4, <3>1, SumaPamieciZmiana
    <3>. QED
      BY <1>3, <1>4, <1>5, <1>10, <3>2 DEF a, x
  <2>4. pam'["licznik"] = 0 /\ \A k \in Konta : pam'[k] >= 0
    BY <1>2, <1>3, <1>4, <1>5, <2>3
  <2>5. PrzelewL(w)'
    BY <1>4, <1>10, <2>2, <2>3 DEF PrzelewL
  <2>. QED
    BY <1>1, <1>6, <1>7, <2>2, <2>4, <2>5
<1>11. \/ /\ pc[w] \in {"czytaj_dst", "pisz_dst"} /\ bufor[w] = <<zSrc>>
          /\ pam[z.src] >= z.amount /\ SumaPamieci = Razem
       \/ /\ pc[w] = "unlock" /\ bufor[w] = <<zSrc, naDst>>
          /\ pam[z.src] >= z.amount /\ SumaPamieci = Razem
       \/ pc[w] = "unlock" /\ bufor[w] = <<naDst>> /\ SumaPamieci = Razem - z.amount
  BY <1>1, <1>2 DEF PrzelewL
<1>. QED
  BY <1>8, <1>9, <1>10, <1>11

(* The new value of the counter reaches memory. *)
LEMMA OproznijLicznik ==
  ASSUME BankStaly, StanL, LicznikiL, wariant \in L!Liczniki, NEW w \in L!Watki, L!Oproznij(w)
  PROVE  StanL' /\ LicznikiL'
<1>1. bufor[w] # <<>> /\ pc[w] \in {"czytaj_dst", "pisz_dst", "unlock"}
  BY DEF L!Oproznij, StanL, BuforyL, WSekcjiL
<1>2. LicznikL(w) /\ \A k \in Konta : pam[k] = INITIAL_BALANCE
  BY <1>1 DEF LicznikiL, WSekcjiL
<1>3. pc[w] = "unlock" /\ bufor[w] = <<Wpis("licznik", SumaWkladow)>>
  BY <1>1, <1>2 DEF LicznikL
<1>4. Head(bufor[w]) = Wpis("licznik", SumaWkladow) /\ Tail(bufor[w]) = <<>>
  BY <1>3, BuforLemmaL
<1>5. SumaWkladow \in Int /\ "licznik" \in Skarbiec
  BY WkladLemma DEF StanL, Skarbiec
<1>6. /\ StanL' /\ pam' = [pam EXCEPT !["licznik"] = SumaWkladow] /\ bufor'[w] = <<>>
      /\ UNCHANGED <<wariant, pc, i, zlecenie, rejestr>> /\ L!Watki' = L!Watki
      /\ pam \in [L!Adresy -> Int]
  BY <1>4, <1>5, OproznijStan
<1>7. SumaWkladow' = SumaWkladow
  BY <1>6 DEF SumaWkladow, Wklad, Zrobione, Znak
<1>8. pam'["licznik"] = SumaWkladow /\ \A k \in Konta : pam'[k] = INITIAL_BALANCE
  BY <1>2, <1>6, AdresyLemma
<1>9. LicznikL(w)'
  BY <1>3, <1>6, <1>7, <1>8 DEF LicznikL
<1>. QED
  BY <1>3, <1>6, <1>8, <1>9, WlascicielLemma DEF WSekcjiL

-----------------------------------------------------------------------------
(* A step of lock or unlock touches neither the accounts nor the counter. *)
LEMMA ZamekKrok ==
  ASSUME BankStaly, StanL, PrzelewyL, LicznikiL, NEW w \in L!Watki, NEW a, a \notin Skarbiec, NEW x, NEW q,
         StanL', RuchZamka(w, a, x, q), PrzejscieZamka(w, q)
  PROVE  PrzelewyL' /\ LicznikiL'
<1>1. /\ wariant' = wariant /\ rejestr' = rejestr /\ bufor' = bufor /\ i' = i /\ zlecenie' = zlecenie
      /\ bufor[w] = <<>> /\ pc' = [pc EXCEPT ![w] = q] /\ pam' = [pam EXCEPT ![a] = x]
      /\ L!Watki' = L!Watki /\ L!Przelewy' = L!Przelewy /\ L!Liczniki' = L!Liczniki
  BY WatkiLemma DEF RuchZamka, L!Przelewy, L!Liczniki
<1>2. \A b \in Skarbiec : pam'[b] = pam[b]
  BY <1>1, AdresyLemma DEF StanL, TypL
<1>3. pc'[w] = q /\ \A v \in L!Watki : v # w => pc'[v] = pc[v]
  BY <1>1 DEF StanL, TypL
<1>4. Oczekuje \cap WSekcjiL = {} /\ {"petla", "FUTEX_WAKE"} \cap WSekcjiL = {}
  BY DEF Oczekuje, WSekcjiL
<1>5. CASE wariant \in L!Przelewy
  <2>1. wariant \notin L!Liczniki /\ wariant # "futex" /\ L!Sekcja = "sprawdz"
    BY <1>5 DEF L!Przelewy, L!Liczniki, L!Sekcja
  <2>2. pc[w] # "store" /\ q # "store"
    BY <1>1, <1>3, <2>1 DEF StanL, MiejscaL
  <2>3. \/ pc[w] \notin WSekcjiL /\ pc'[w] \notin WSekcjiL
        \/ pc[w] \notin WSekcjiL /\ pc'[w] = "sprawdz"
        \/ pc[w] = "unlock" /\ bufor[w] = <<>> /\ pc'[w] \notin WSekcjiL
    BY <1>1, <1>3, <1>4, <2>1, <2>2 DEF PrzejscieZamka
  <2>4. PrzelewyL'
    BY <1>1, <1>2, <1>3, <1>5, <2>3, PrzelewBezZmian
  <2>. QED
    BY <1>1, <2>1, <2>4 DEF LicznikiL
<1>6. CASE wariant \notin L!Przelewy
  <2>1. wariant \in L!Liczniki /\ L!Sekcja = "czytaj_dst"
    BY <1>6 DEF L!Przelewy, L!Liczniki, L!Sekcja, L!Bezpieczne, StanL, TypL
  <2>2. \/ pc[w] \notin WSekcjiL /\ pc'[w] \notin WSekcjiL
        \/ pc[w] \notin WSekcjiL /\ pc'[w] = "czytaj_dst"
        \/ pc[w] = "unlock" /\ bufor[w] = <<>> /\ pc'[w] = "store"
        \/ pc[w] \in {"unlock", "store"} /\ bufor[w] = <<>> /\ pc'[w] \notin WSekcjiL
    BY <1>1, <1>3, <1>4, <2>1 DEF PrzejscieZamka
  <2>3. Zrobione(w)' = Zrobione(w)
    BY <1>1, <1>3, <2>1 DEF PrzejscieZamka, Zrobione, Oczekuje
  <2>4. LicznikiL'
    BY <1>1, <1>2, <1>3, <2>1, <2>2, <2>3, LicznikBezZmian
  <2>. QED
    BY <1>1, <1>6, <2>4 DEF PrzelewyL
<1>. QED
  BY <1>5, <1>6

(* Every step of a thread with a real lock keeps the invariant. *)
LEMMA KrokWatkuL ==
  ASSUME BankStaly, StanL, PrzelewyL, LicznikiL, NEW w \in L!Watki, L!KrokWatku(w) \/ L!Oproznij(w)
  PROVE  StanL' /\ PrzelewyL' /\ LicznikiL'
<1>1. /\ wariant \in L!Przelewy \/ wariant \in L!Liczniki
      /\ ~(wariant \in L!Przelewy /\ wariant \in L!Liczniki) /\ wariant # "race"
      /\ L!Przelewy' = L!Przelewy /\ L!Liczniki' = L!Liczniki
  BY DEF StanL, TypL, L!Bezpieczne, L!Przelewy, L!Liczniki
<1>2. CASE L!Petla(w) \/ L!Koniec(w)
  <2>1. StanL'
    BY <1>2, PetlaStan, KoniecStan
  <2>2. /\ pc[w] = "petla" /\ wariant' = wariant /\ rejestr' = rejestr /\ bufor' = bufor /\ pam' = pam
        /\ \/ pc' = [pc EXCEPT ![w] = "lock"] /\ i' = [i EXCEPT ![w] = @ + 1]
           \/ pc' = [pc EXCEPT ![w] = "koniec"] /\ i' = i
    BY <1>2 DEF L!Petla, L!Koniec, L!Idz
  <2>3. \A v \in L!Watki : v # w => zlecenie'[v] = zlecenie[v]
    BY <1>2 DEF L!Petla, L!Koniec, L!client_simulator, L!incrementer, L!decrementer, L!Zlec, StanL, TypL
  <2>4. /\ pc[w] \notin WSekcjiL /\ pc'[w] \notin WSekcjiL
        /\ \A v \in L!Watki : v # w => pc'[v] = pc[v] /\ i'[v] = i[v]
    BY <2>2 DEF StanL, TypL, WSekcjiL
  <2>5. Zrobione(w)' = Zrobione(w)
    <3>1. i[w] \in Int
      <4>1. ITERATIONS[wariant] \in Nat
        BY DEF BankStaly, StanL, TypL, L!Bezpieczne, L!Liczniki
      <4>. QED
        BY <4>1 DEF StanL, TypL
    <3>. QED
      BY <2>2, <3>1 DEF StanL, TypL, Zrobione, Oczekuje
  <2>6. \A b \in Skarbiec : pam'[b] = pam[b]
    BY <2>2
  <2>7. CASE wariant \in L!Przelewy
    <3>1. PrzelewyL'
      BY <2>1, <2>2, <2>3, <2>4, <2>6, <2>7, PrzelewBezZmian
    <3>. QED
      BY <1>1, <2>1, <2>2, <2>7, <3>1 DEF LicznikiL
  <2>8. CASE wariant \in L!Liczniki
    <3>1. LicznikiL'
      BY <2>1, <2>2, <2>4, <2>5, <2>6, <2>8, LicznikBezZmian
    <3>. QED
      BY <1>1, <2>1, <2>2, <2>8, <3>1 DEF PrzelewyL
  <2>. QED
    BY <1>1, <2>7, <2>8
<1>3. CASE (L!LockWymiana(w) \/ L!UnlockWymiana(w)) /\ UNCHANGED <<wariant, i, zlecenie, rejestr>>
  BY <1>3, WymianaStan, ZamekKrok, AdresyLemma
<1>4. CASE L!Semafor(w) /\ UNCHANGED <<wariant, i, zlecenie, rejestr>>
  BY <1>4, SemaforStan, ZamekKrok, AdresyLemma
<1>5. CASE (L!LockFutex(w) \/ L!UnlockFutex(w)) /\ UNCHANGED <<wariant, i, zlecenie, rejestr>>
  <2>1. CASE pc[w] # "FUTEX_WAKE"
    <3>1. StanL'
      BY <1>5, <2>1, FutexStan
    <3>2. /\ wariant = "futex" /\ pc[w] \in {"lock", "exchange", "FUTEX_WAIT", "unlock", "store"}
          /\ \E x \in 0..2, q \in {"czytaj_dst", "exchange", "FUTEX_WAIT", "spi", "petla", "store", "FUTEX_WAKE"} :
               /\ RuchZamka(w, "lck", x, q)
               /\ pc[w] \in {"lock", "exchange", "FUTEX_WAIT"} =>
                    \/ q = "czytaj_dst" /\ pam["lck"] = 0 /\ x > 0
                    \/ q \in {"exchange", "FUTEX_WAIT", "spi"} /\ (x = 0 <=> pam["lck"] = 0)
               /\ pc[w] = "unlock" => (q = "petla" /\ x = 0) \/ (q = "store" /\ x > 0)
               /\ pc[w] = "store" => q = "FUTEX_WAKE" /\ x = 0
      BY <1>5, <2>1, FutexRuch
    <3>3. \E x, q : RuchZamka(w, "lck", x, q) /\ PrzejscieZamka(w, q)
      BY <3>2 DEF PrzejscieZamka, Oczekuje, L!Sekcja, L!Przelewy
    <3>. QED
      BY <3>1, <3>3, ZamekKrok, AdresyLemma
  <2>2. CASE pc[w] = "FUTEX_WAKE"
    <3>1. L!UnlockFutex(w)
      BY <1>5, <2>2 DEF L!LockFutex
    <3>2. /\ StanL' /\ wariant = "futex" /\ pc'[w] = "petla" /\ pam' = pam /\ bufor' = bufor
          /\ \A v \in L!Watki : v # w => pc'[v] = pc[v] \/ (pc[v] = "spi" /\ pc'[v] = "exchange")
      BY <1>5, <2>2, <3>1, WakeStan
    <3>3. Zrobione(w)' = Zrobione(w) /\ pc[w] \notin WSekcjiL /\ pc'[w] \notin WSekcjiL
          /\ wariant \in L!Liczniki /\ wariant \notin L!Przelewy
      BY <1>5, <2>2, <3>2 DEF Zrobione, Oczekuje, WSekcjiL, L!Liczniki, L!Przelewy
    <3>4. LicznikiL'
      BY <1>5, <3>2, <3>3, LicznikBezZmian
    <3>. QED
      BY <1>1, <1>5, <3>2, <3>3, <3>4 DEF PrzelewyL
  <2>. QED
    BY <2>1, <2>2
<1>6. CASE (L!peterson_mutex_lock(w) \/ L!peterson_mutex_unlock(w)) /\ UNCHANGED <<wariant, i, zlecenie, rejestr>>
  <2>1. StanL' /\ wariant = "peterson_atomic" /\ w \in {0, 1}
    BY <1>6, PetersonStan, PetersonRuch
  <2>2. L!Flagi[w + 1] \notin Skarbiec /\ "turn" \notin Skarbiec
    BY <2>1, AdresyLemma, FlagiLemma
  <2>3. \E a, x, q : a \notin Skarbiec /\ RuchZamka(w, a, x, q) /\ PrzejscieZamka(w, q)
    <3>1. L!Sekcja = "sprawdz"
      BY <2>1 DEF L!Sekcja, L!Przelewy
    <3>2. \E a, x, q : /\ a \in {L!Flagi[w + 1], "turn"} /\ RuchZamka(w, a, x, q)
                       /\ \/ pc[w] \in Oczekuje /\ q \in Oczekuje \cup {"sprawdz"}
                          \/ pc[w] = "unlock" /\ q = "petla"
      BY <1>6, PetersonRuch DEF Oczekuje
    <3>. QED
      BY <2>2, <3>1, <3>2 DEF PrzejscieZamka
  <2>. QED
    BY <2>1, <2>3, ZamekKrok
<1>7. CASE L!transfer(w) /\ UNCHANGED <<wariant, i, zlecenie>>
  BY <1>1, <1>7, TransferPrzelew, TransferLicznik DEF PrzelewyL, LicznikiL
<1>8. CASE L!Oproznij(w)
  <2>1. wariant' = wariant
    BY <1>8 DEF L!Oproznij
  <2>. QED
    BY <1>1, <1>8, <2>1, OproznijPrzelew, OproznijLicznik DEF PrzelewyL, LicznikiL
<1>. QED
  BY <1>1, <1>2, <1>3, <1>4, <1>5, <1>6, <1>7, <1>8 DEF L!KrokWatku, L!lock, L!unlock, L!BezZamka

-----------------------------------------------------------------------------
(* When main starts the threads the memory holds the balances, a free lock,
   and nothing else. *)
LEMMA PamiecNaPoczatku ==
  ASSUME BankStaly, L!Init
  PROVE  /\ pam \in [L!Adresy -> Int]
         /\ \A k \in Konta : pam[k] = INITIAL_BALANCE
         /\ \A a \in {"licznik", "turn", "flag0", "flag1"} : pam[a] = 0
         /\ pam["lck"] = IF wariant = "semaphore" THEN 1 ELSE 0
<1> DEFINE p(a) == CASE a \in Konta -> INITIAL_BALANCE
                     [] a = "lck" /\ wariant = "semaphore" -> L!sem_init
                     [] OTHER -> 0
<1>1. pam = [a \in L!Adresy |-> p(a)] /\ L!sem_init = 1
  BY DEF L!Init, L!sem_init
<1>2. INITIAL_BALANCE \in Nat
  BY DEF BankStaly
<1>3. \A k \in Konta : k # "lck" /\ p(k) = INITIAL_BALANCE
  <2>1. "lck" \notin Konta
    BY DEF BankStaly
  <2>. QED
    BY <2>1, Zenon
<1>4. ASSUME NEW a, a \notin Konta, a # "lck" PROVE p(a) = 0
  BY <1>4, Zenon
<1>5. p("lck") = IF wariant = "semaphore" THEN 1 ELSE 0
  <2>1. "lck" \notin Konta
    BY DEF BankStaly
  <2>2. CASE wariant = "semaphore"
    <3>1. p("lck") = L!sem_init
      BY <2>1, <2>2, Zenon
    <3>. QED
      BY <1>1, <2>2, <3>1
  <2>3. CASE wariant # "semaphore"
    <3>1. p("lck") = 0
      BY <2>1, <2>3, Zenon
    <3>. QED
      BY <2>3, <3>1
  <2>. QED
    BY <2>2, <2>3
<1> HIDE DEF p
<1>6. \A a \in {"licznik", "turn", "flag0", "flag1"} : a \notin Konta /\ a # "lck" /\ a \in L!Adresy
  BY DEF BankStaly, L!Adresy
<1>7. \A a \in L!Adresy : p(a) \in Int
  <2> SUFFICES ASSUME NEW a \in L!Adresy PROVE p(a) \in Int
    OBVIOUS
  <2>1. CASE a \in Konta
    BY <1>2, <1>3, <2>1
  <2>2. CASE a = "lck"
    BY <1>5, <2>2
  <2>3. CASE a \notin Konta /\ a # "lck"
    BY <1>4, <2>3
  <2>. QED
    BY <2>1, <2>2, <2>3
<1>8. Konta \subseteq L!Adresy /\ "lck" \in L!Adresy
  BY DEF L!Adresy
<1>9. pam \in [L!Adresy -> Int]
  BY <1>1, <1>7
<1>10. \A k \in Konta : pam[k] = INITIAL_BALANCE
  BY <1>1, <1>3, <1>8
<1>11. \A a \in {"licznik", "turn", "flag0", "flag1"} : pam[a] = 0
  BY <1>1, <1>4, <1>6
<1>12. pam["lck"] = IF wariant = "semaphore" THEN 1 ELSE 0
  BY <1>1, <1>5, <1>8
<1>. QED
  BY <1>9, <1>10, <1>11, <1>12

(* The counter is zero and every account has its balance: that is all the
   money there is. *)
LEMMA RazemLemma ==
  ASSUME BankStaly, pam \in [L!Adresy -> Int], pam["licznik"] = 0,
         \A k \in Konta : pam[k] = INITIAL_BALANCE
  PROVE  SumaPamieci = Razem
<1>1. /\ IsFiniteSet(Skarbiec) /\ "licznik" \in Skarbiec /\ \A a \in Skarbiec : pam[a] \in Int
      /\ Skarbiec \ {"licznik"} = Konta /\ IsFiniteSet(Konta) /\ INITIAL_BALANCE \in Int
  BY AdresyLemma DEF Skarbiec, BankStaly
<1>2. SumaNa(pam, Skarbiec) = pam["licznik"] + SumaNa(pam, Skarbiec \ {"licznik"})
  BY <1>1, SumaElement
<1>3. SumaNa(pam, Konta) = Cardinality(Konta) * INITIAL_BALANCE
  BY <1>1, SumaStala
<1> DEFINE r == Cardinality(Konta) * INITIAL_BALANCE
<1>4. r \in Int
  BY <1>1, FS_CardinalityType
<1>5. SumaNa(pam, Skarbiec \ {"licznik"}) = r
  BY <1>1, <1>3
<1> HIDE DEF r
<1>6. SumaNa(pam, Skarbiec) = r
  BY <1>2, <1>4, <1>5
<1>. QED
  BY <1>6 DEF SumaPamieci, Razem, r

(* main starts the threads of any of the programs in a good state. *)
LEMMA PoczatekL ==
  ASSUME BankStaly, L!Init
  PROVE  IInvL
<1> SUFFICES ASSUME wariant \in L!Bezpieczne PROVE StanL /\ PrzelewyL /\ LicznikiL
  BY DEF IInvL
<1>1. /\ pam \in [L!Adresy -> Int]
      /\ \A k \in Konta : pam[k] = INITIAL_BALANCE
      /\ \A a \in {"licznik", "turn", "flag0", "flag1"} : pam[a] = 0
      /\ pam["lck"] = IF wariant = "semaphore" THEN 1 ELSE 0
  BY PamiecNaPoczatku
<1>2. /\ pc = [w \in L!Watki |-> "petla"] /\ i = [w \in L!Watki |-> 0]
      /\ rejestr = [w \in L!Watki |-> 0] /\ bufor = [w \in L!Watki |-> <<>>]
      /\ DOMAIN zlecenie = L!Watki
  BY DEF L!Init
<1>3. ITERATIONS[wariant] \in Nat
  BY DEF BankStaly, L!Bezpieczne, L!Liczniki
<1>4. \A w \in L!Watki : pc[w] = "petla" /\ pc[w] \notin WSekcjiL
  BY <1>2 DEF WSekcjiL
<1>5. WolnyL
  BY <1>4 DEF WolnyL
<1>6. TypL
  BY <1>1, <1>2, <1>3 DEF TypL, PozaSekcjaL
<1>7. MiejscaL /\ ZleceniaL /\ WykluczanieL /\ BuforyL
  BY <1>2, <1>4 DEF MiejscaL, ZleceniaL, WykluczanieL, BuforyL
<1>8. ZamekL
  BY <1>1, <1>5 DEF ZamekL
<1>9. PetersonL
  <2> SUFFICES ASSUME wariant = "peterson_atomic", NEW w \in L!Watki
               PROVE  pam[L!Flagi[w + 1]] = 0 /\ pc[w] \notin {"turn", "flag_j", "turn_j"} /\ pam["turn"] = 0
    BY <1>1, <1>4 DEF PetersonL
  <2>1. w \in {0, 1}
    BY WatkiLemma
  <2>2. L!Flagi[w + 1] \in {"flag0", "flag1"}
    BY <2>1, FlagiLemma
  <2>. QED
    BY <1>1, <1>4, <2>2
<1>10. StanL
  BY <1>6, <1>7, <1>8, <1>9 DEF StanL
<1>11. PrzelewyL
  <2>1. SumaPamieci = Razem
    BY <1>1, RazemLemma
  <2>2. INITIAL_BALANCE >= 0
    BY DEF BankStaly
  <2>. QED
    BY <1>1, <1>4, <2>1, <2>2 DEF PrzelewyL
<1>12. LicznikiL
  <2>1. ASSUME NEW w \in L!Watki PROVE Wklad[w] = 0
    <3>1. Zrobione(w) = 0
      BY <1>2 DEF Zrobione, Oczekuje
    <3>2. Wklad[w] = IF Znak(w) = 1 THEN Zrobione(w) ELSE -Zrobione(w)
      BY DEF Wklad
    <3>3. \A z \in Int : z >= 0 /\ z <= 0 => -z = 0
      OBVIOUS
    <3>4. Zrobione(w) \in Int /\ Zrobione(w) >= 0 /\ Zrobione(w) <= 0
      BY <3>1
    <3>5. -Zrobione(w) = 0
      BY <3>3, <3>4, Zenon
    <3>. QED
      BY <3>1, <3>2, <3>5, Zenon
  <2>2. SumaWkladow = 0
    <3> DEFINE f == Wklad
               S == L!Watki
    <3>1. IsFiniteSet(S) /\ \A w \in S : f[w] = 0
      BY <2>1, WatkiLemma
    <3> HIDE DEF f, S
    <3>2. SumaNa(f, S) = 0
      BY <3>1, SumaZer
    <3>. QED
      BY <3>2 DEF SumaWkladow, f, S
  <2>. QED
    BY <1>1, <1>4, <2>2 DEF LicznikiL
<1>. QED
  BY <1>10, <1>11, <1>12

(* Every step keeps the invariant, and the program stays the same. *)
LEMMA KrokL ==
  ASSUME BankStaly, IInvL, [L!Next]_(L!vars)
  PROVE  IInvL'
<1>1. wariant' = wariant
  BY DEF L!Next, L!vars, L!KrokWatku, L!Petla, L!Koniec, L!Oproznij
<1>2. L!Bezpieczne' = L!Bezpieczne
  BY DEF L!Bezpieczne, L!Liczniki
<1> SUFFICES ASSUME wariant \in L!Bezpieczne PROVE StanL' /\ PrzelewyL' /\ LicznikiL'
  BY <1>1, <1>2 DEF IInvL
<1>3. StanL /\ PrzelewyL /\ LicznikiL
  BY DEF IInvL
<1>4. CASE L!Next
  BY <1>3, <1>4, KrokWatkuL DEF L!Next
<1>5. CASE UNCHANGED L!vars
  <2>1. /\ wariant' = wariant /\ pc' = pc /\ i' = i /\ zlecenie' = zlecenie /\ rejestr' = rejestr
        /\ pam' = pam /\ bufor' = bufor /\ L!Watki' = L!Watki
    BY <1>5, WatkiLemma DEF L!vars
  <2>2. StanL'
    BY <1>3, <2>1 DEF StanL, TypL, MiejscaL, ZleceniaL, WykluczanieL, ZamekL, PetersonL, BuforyL,
       WolnyL, DobreZlecenie, L!Bezpieczne, L!Liczniki, L!Adresy, L!Flagi
  <2>3. SumaPamieci' = SumaPamieci
    BY <1>3, <2>1, SumaPamieciLemma DEF StanL, TypL
  <2>4. WolnyL' = WolnyL
    BY <2>1 DEF WolnyL
  <2>5. PrzelewyL'
    BY <1>3, <2>1, <2>3, <2>4 DEF PrzelewyL, PrzelewL, Wpis, Razem, L!Przelewy
  <2>6. Wklad' = Wklad
    BY <2>1 DEF Wklad, Zrobione, Znak
  <2>7. SumaWkladow' = SumaWkladow
    BY <2>1, <2>6 DEF SumaWkladow
  <2>8. LicznikiL'
    BY <1>3, <2>1, <2>4, <2>7 DEF LicznikiL, LicznikL, Wpis, L!Liczniki
  <2>. QED
    BY <2>2, <2>5, <2>8
<1>. QED
  BY <1>4, <1>5

(* A thread that has ended has made all its updates. *)
LEMMA WkladyKonca ==
  ASSUME BankStaly, StanL, L!Zakonczone
  PROVE  SumaWkladow = 0
<1> DEFINE c == ITERATIONS[wariant]
           m == IF wariant = "futex" THEN NUM_THREADS ELSE 1
           f == Wklad
<1>1. c \in Int /\ m \in Nat
  BY DEF BankStaly, StanL, TypL, L!Bezpieczne, L!Liczniki
<1>2. L!Watki = 0..(2 * m - 1)
  BY DEF L!Watki, BankStaly
<1>3. ASSUME NEW w \in L!Watki PROVE f[w] = IF w % 2 = 0 THEN c ELSE -c
  <2>1. pc[w] = "koniec" /\ i[w] = c
    BY DEF L!Zakonczone, StanL, TypL
  <2>2. Zrobione(w) = c
    BY <2>1 DEF Zrobione, Oczekuje
  <2>3. f[w] = IF Znak(w) = 1 THEN Zrobione(w) ELSE -Zrobione(w)
    BY DEF Wklad
  <2>. QED
    BY <2>2, <2>3 DEF Znak
<1>4. \A w \in 0..(2 * m - 1) : f[w] = IF w % 2 = 0 THEN c ELSE -c
  BY <1>2, <1>3
<1> HIDE DEF c, m, f
<1>5. SumaNa(f, 0..(2 * m - 1)) = 0
  BY <1>1, <1>4, SumaParami
<1>. QED
  BY <1>2, <1>5 DEF SumaWkladow, f

(* The invariant says what main prints: no update is lost. *)
LEMMA NicNieZgineloL ==
  ASSUME BankStaly, IInvL
  PROVE  L!NicNieZginelo /\ L!BezDebetu
<1>1. L!total_balance = SumaPamieci
  BY Zenon DEF L!total_balance, L!FoldFunctionOnSet, L!MapThenFoldSet, SumaNa, FoldFunctionOnSet,
     MapThenFoldSet, Skarbiec, SumaPamieci
<1>2. ASSUME wariant \in L!Bezpieczne
      PROVE  \A k \in Konta : pam[k] >= 0
  <2>1. \/ wariant \in L!Przelewy
        \/ wariant \in L!Liczniki
    BY <1>2 DEF L!Bezpieczne, L!Przelewy
  <2>2. INITIAL_BALANCE >= 0
    BY DEF BankStaly
  <2>. QED
    BY <1>2, <2>1, <2>2 DEF IInvL, PrzelewyL, LicznikiL
<1>3. ASSUME wariant \in L!Bezpieczne, L!Zakonczone
      PROVE  SumaPamieci = Razem
  <2>1. StanL /\ PrzelewyL /\ LicznikiL
    BY <1>3 DEF IInvL
  <2>2. WolnyL
    BY <1>3 DEF L!Zakonczone, WolnyL, WSekcjiL
  <2>3. CASE wariant \in L!Przelewy
    BY <2>1, <2>2, <2>3 DEF PrzelewyL
  <2>4. CASE wariant \in L!Liczniki
    <3>1. pam["licznik"] = SumaWkladow /\ \A k \in Konta : pam[k] = INITIAL_BALANCE
      BY <2>1, <2>2, <2>4 DEF LicznikiL
    <3>2. SumaWkladow = 0
      BY <1>3, <2>1, WkladyKonca
    <3>. QED
      BY <2>1, <3>1, <3>2, RazemLemma DEF StanL, TypL
  <2>. QED
    BY <1>3, <2>3, <2>4 DEF L!Bezpieczne, L!Przelewy
<1>4. Razem = L!Cardinality(Konta) * INITIAL_BALANCE
  BY Zenon DEF Razem, Cardinality, L!Cardinality
<1>. QED
  BY <1>1, <1>2, <1>3, <1>4 DEF L!NicNieZginelo, L!BezDebetu

-----------------------------------------------------------------------------
(* The inductive invariant: that of the program that runs. *)
IInv ==
  /\ program \in {"zamki", "sztab", "bufor", "czytelnia", "filozofowie"}
  /\ program = "zamki" => IInvL
  /\ program = "sztab" => IInvH
  /\ program = "bufor" => IInvB
  /\ program = "czytelnia" => IInvR
  /\ program = "filozofowie" => IInvF

(* A step is one of the program that runs. *)
LEMMA KrokProgramu ==
  ASSUME [Next]_vars, program \in {"zamki", "sztab", "bufor", "czytelnia", "filozofowie"}
  PROVE  /\ program' = program
         /\ program = "zamki" => [L!Next]_(L!vars)
         /\ program = "sztab" => [H!Next]_(H!vars)
         /\ program = "bufor" => [B!Next]_(B!vars)
         /\ program = "czytelnia" => [R!Next]_(R!vars)
         /\ program = "filozofowie" => [F!Next]_(F!vars)
<1>1. program' = program
  BY DEF Next, Zamki, Sztab, Bufory, Czytelnia, Filozofowie, vars
<1>2. ASSUME program = "zamki" PROVE [L!Next]_(L!vars)
  BY <1>2 DEF Next, Zamki, Sztab, Bufory, Czytelnia, Filozofowie, vars, zamki, L!vars
<1>3. ASSUME program = "sztab" PROVE [H!Next]_(H!vars)
  BY <1>3 DEF Next, Zamki, Sztab, Bufory, Czytelnia, Filozofowie, vars, sztab, H!vars, H!bufor, H!adiutant
<1>4. ASSUME program = "bufor" PROVE [B!Next]_(B!vars)
  BY <1>4 DEF Next, Zamki, Sztab, Bufory, Czytelnia, Filozofowie, vars, pierscien, B!vars, B!wspolne
<1>5. ASSUME program = "czytelnia" PROVE [R!Next]_(R!vars)
  BY <1>5 DEF Next, Zamki, Sztab, Bufory, Czytelnia, Filozofowie, vars, czytelnia, R!vars
<1>6. ASSUME program = "filozofowie" PROVE [F!Next]_(F!vars)
  BY <1>6 DEF Next, Zamki, Sztab, Bufory, Czytelnia, Filozofowie, vars, F!vars
<1>. QED
  BY <1>1, <1>2, <1>3, <1>4, <1>5, <1>6

(* The invariant holds at first and every step keeps it. *)
LEMMA KrokThreads ==
  /\ Init => IInv
  /\ IInv /\ [Next]_vars => IInv'
<1>. USE ThreadsAssumption
<1>1. Init => IInv
  <2> SUFFICES ASSUME Init PROVE IInv
    OBVIOUS
  <2>1. CASE program = "zamki" /\ L!Init
    BY <2>1, PoczatekL DEF IInv
  <2>2. CASE program = "sztab" /\ H!Init
    BY <2>2, PoczatekH DEF IInv
  <2>3. CASE program = "bufor" /\ B!Init
    BY <2>3, BuforPoczatek DEF IInv
  <2>4. CASE program = "czytelnia" /\ R!Init
    BY <2>4, CzytelniaInduktywna DEF IInv
  <2>5. CASE program = "filozofowie" /\ F!Init
    BY <2>5, StolInduktywny DEF IInv
  <2>. QED
    BY <2>1, <2>2, <2>3, <2>4, <2>5 DEF Init
<1>2. IInv /\ [Next]_vars => IInv'
  <2> SUFFICES ASSUME IInv, [Next]_vars PROVE IInv'
    OBVIOUS
  <2>0. program' = program
    BY KrokProgramu DEF IInv
  <2>1. CASE program = "zamki"
    <3>1. IInvL'
      BY <2>1, KrokProgramu, KrokL DEF IInv
    <3>. QED
      BY <2>0, <2>1, <3>1 DEF IInv
  <2>2. CASE program = "sztab"
    <3>1. IInvH'
      BY <2>2, KrokProgramu, KrokH DEF IInv
    <3>. QED
      BY <2>0, <2>2, <3>1 DEF IInv
  <2>3. CASE program = "bufor"
    <3>1. IInvB'
      BY <2>3, KrokProgramu, BuforLemma DEF IInv
    <3>. QED
      BY <2>0, <2>3, <3>1 DEF IInv
  <2>4. CASE program = "czytelnia"
    <3>1. IInvR'
      BY <2>4, KrokProgramu, CzytelniaInduktywna DEF IInv
    <3>. QED
      BY <2>0, <2>4, <3>1 DEF IInv
  <2>5. CASE program = "filozofowie"
    <3>1. IInvF'
      BY <2>5, KrokProgramu, StolInduktywny DEF IInv
    <3>. QED
      BY <2>0, <2>5, <3>1 DEF IInv
  <2>. QED
    BY <2>1, <2>2, <2>3, <2>4, <2>5 DEF IInv
<1>. QED
  BY <1>1, <1>2

(* Whichever program runs, its invariant holds throughout. *)
THEOREM Inductive == Spec => []IInv
BY KrokThreads, PTL DEF Spec

(* A lock that is real protects what is under it, for any number of accounts,
   amounts, iterations and futex.c threads: with Peterson's lock on atomic
   variables, an exchange, a test-and-set, a semaphore or a futex, main
   reports what it started with and no account is overdrawn on the way,
   although plain stores wait in store buffers. *)
THEOREM LocksProtect == Spec => []ZamkiChronia
<1>1. IInv => ZamkiChronia
  BY ThreadsAssumption, NicNieZgineloL DEF IInv, ZamkiChronia, NicNieZginelo, BezDebetu
<1>. QED
  BY <1>1, Inductive, PTL

(* No thread sleeps through what it waits for: no report waits in the ring of
   zadanie1_buforcykliczny.c while every adjutant that is left sleeps, and one
   signal of the last reader of readers_writers_cv.c is enough. *)
THEOREM NobodyOversleeps == Spec => []NiktNiePrzespi
<1>1. IInv => NiktNiePrzespi
  BY DEF IInv, IInvH, IInvR, Pamietani, NiktNiePrzespi, PracaNieCzeka, NiktNieZapomniany
<1>. QED
  BY <1>1, Inductive, PTL

(* A writer shares the room with nobody: the counters readers_writers_cv.c
   tests are enough for the exclusion. *)
THEOREM WriterAlone ==
  Spec => [](program = "czytelnia" => \A p \in WSrodku(Pisarze), w \in WSrodku(R!Watki) : w = p)
<1>1. IInv => (program = "czytelnia" => \A p \in WSrodku(Pisarze), w \in WSrodku(R!Watki) : w = p)
  BY ThreadsAssumption, PisarzSam DEF IInv
<1>. QED
  BY <1>1, Inductive, PTL

(* mtx of bounded_buffer_sem.c admits one process to the ring at a time. *)
THEOREM BufferSectionExclusive ==
  Spec => [](program = "bufor" /\ wariant = "sem" =>
               \A p, q \in B!Uczestnicy : pc[p] = "sekcja" /\ pc[q] = "sekcja" => p = q)
<1>1. IInv => (program = "bufor" /\ wariant = "sem" =>
                 \A p, q \in B!Uczestnicy : pc[p] = "sekcja" /\ pc[q] = "sekcja" => p = q)
  BY ThreadsAssumption, JedenWSekcji DEF IInv
<1>. QED
  BY <1>1, Inductive, PTL

(* The philosophers can block one another in one way only, the full circle:
   once one of them has left the table a deadlock is impossible. *)
THEOREM OnlyFullCircle == Spec => []TylkoKrag
<1>1. IInv => TylkoKrag
  BY ThreadsAssumption, JedenKrag DEF IInv, TylkoPelnyKrag, TylkoKrag
<1>. QED
  BY <1>1, Inductive, PTL

(* The rings of zadanie1_buforcykliczny.c, bounded_buffer_cv.c and
   bounded_buffer_sem.c implement a bounded FIFO queue: nothing is
   overwritten, taken twice or overtaken, for any numbers of processes and
   any sizes of the rings. *)
THEOREM QueuesAreFifo == Spec => KolejkiFifo
<1>. USE ThreadsAssumption
<1>1. Init => (program = "sztab" => H!Fifo!Init)
  BY DEF Init, H!Init, H!Zawartosc, H!Fifo!Init
<1>2. Init => (program = "bufor" => B!Fifo!Init)
  BY BuforPoczatek DEF Init
<1>3. IInv /\ [Next]_vars => (program = "sztab" => H!Fifo!Next \/ UNCHANGED <<H!Zawartosc, dane>>)
  <2> SUFFICES ASSUME IInv, [Next]_vars, program = "sztab"
               PROVE  H!Fifo!Next \/ UNCHANGED <<H!Zawartosc, dane>>
    OBVIOUS
  <2>1. IInvH /\ [H!Next]_(H!vars)
    BY KrokProgramu DEF IInv
  <2>2. IInvH'
    BY <2>1, KrokH
  <2>. QED
    BY <2>1, <2>2, KrokKolejki
<1>4. IInv /\ [Next]_vars => (program = "bufor" => B!Fifo!Next \/ UNCHANGED <<B!Zawartosc, item>>)
  <2> SUFFICES ASSUME IInv, [Next]_vars, program = "bufor"
               PROVE  B!Fifo!Next \/ UNCHANGED <<B!Zawartosc, item>>
    OBVIOUS
  <2>1. IInvB /\ [B!Next]_(B!vars)
    BY KrokProgramu DEF IInv
  <2>. QED
    BY <2>1, BuforLemma
<1>. QED
  BY <1>1, <1>2, <1>3, <1>4, Inductive, PTL DEF Spec, KolejkiFifo, SztabFifo, BuforFifo
=============================================================================
