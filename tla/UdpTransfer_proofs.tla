------------------------- MODULE UdpTransfer_proofs -------------------------
(***************************************************************************)
(* Proofs about UdpTransfer, for any number of clients, slots, attempts    *)
(* and chunks: what findIndex returns, typing, the uniqueness of a         *)
(* client's slot, and that client_work and server_work implement           *)
(* FileTransfer over a network that loses, reorders and duplicates.        *)
(***************************************************************************)
EXTENDS UdpTransfer, WellFoundedInduction, TLAPS

-----------------------------------------------------------------------------
(* The loop of findIndex. *)

(* A non-empty set of slots has a first one. *)
LEMMA PierwszySlot ==
  ASSUME NEW S, S \subseteq Nat, S # {}
  PROVE  \E i \in S : \A j \in S : i <= j
<1>1. PICK i \in S : \A j \in S : ~(<<j, i>> \in OpToRel(<, Nat))
  BY NatLessThanWellFounded, WFMin
<1>2. \A j \in S : ~(j < i)
  BY <1>1 DEF OpToRel
<1>3. QED
  BY <1>2

(* A non-empty set of slots has a last one. *)
LEMMA OstatniSlot ==
  ASSUME NEW S, S \subseteq Sloty, S # {}
  PROVE  \E i \in S : \A j \in S : j <= i
<1> DEFINE T == {MAXCLIENTS - i : i \in S}
<1>1. T \subseteq Nat /\ T # {}
  <2>1. \A i \in S : MAXCLIENTS - i \in Nat
    BY StaleAssumption DEF Sloty
  <2>2. QED
    BY <2>1
<1>2. PICK t \in T : \A u \in T : t <= u
  BY <1>1, PierwszySlot
<1>3. PICK i \in S : t = MAXCLIENTS - i
  BY <1>2
<1>4. ASSUME NEW j \in S PROVE j <= i
  <2>1. MAXCLIENTS - j \in T
    OBVIOUS
  <2>2. MAXCLIENTS - i <= MAXCLIENTS - j
    BY <1>2, <1>3, <2>1
  <2>3. QED
    BY <2>2, StaleAssumption DEF Sloty
<1>5. QED
  BY <1>4

(* findIndex returns -1, or a slot: the client's own, or a free one when the
   client has none. *)
LEMMA FindIndex ==
  ASSUME NEW adres \in Klienci
  PROVE  LET i == findIndex(adres)
         IN  \/ i = -1 /\ SlotyKlienta(adres) = {}
             \/ i \in SlotyKlienta(adres)
             \/ i \in SlotyKlienta(Nikt) /\ SlotyKlienta(adres) = {}
<1>1. CASE SlotyKlienta(adres) # {}
  <2>1. SlotyKlienta(adres) \subseteq Nat
    BY DEF SlotyKlienta, Sloty
  <2>2. \E i \in SlotyKlienta(adres) : \A j \in SlotyKlienta(adres) : i <= j
    BY <1>1, <2>1, PierwszySlot
  <2>3. QED
    BY <1>1, <2>2 DEF findIndex
<1>2. CASE SlotyKlienta(adres) = {} /\ SlotyKlienta(Nikt) # {}
  <2>1. SlotyKlienta(Nikt) \subseteq Sloty
    BY DEF SlotyKlienta
  <2>2. \E i \in SlotyKlienta(Nikt) : \A j \in SlotyKlienta(Nikt) : j <= i
    BY <1>2, <2>1, OstatniSlot
  <2>3. QED
    BY <1>2, <2>2 DEF findIndex
<1>3. CASE SlotyKlienta(adres) = {} /\ SlotyKlienta(Nikt) = {}
  BY <1>3 DEF findIndex
<1>4. QED
  BY <1>1, <1>2, <1>3

-----------------------------------------------------------------------------
(* Typing. *)

(* An attempt is only begun while counter is at most PROBY. *)
Licznik == \A c \in Klienci : faza[c] = "wyslij" => counter[c] <= PROBY

Typy == TypeOK /\ Licznik

LEMMA InitTypy == Init => Typy
BY StaleAssumption DEF Init, Typy, TypeOK, Licznik, Wolny

LEMMA NieudanaProbaTypy ==
  ASSUME Typy, NEW c \in Klienci, NieudanaProba(c)
  PROVE  /\ faza' \in [Klienci -> {"wyslij", "recv", "sukces", "porazka"}]
         /\ UNCHANGED <<chunkNo, counter>>
         /\ Licznik'
<1>1. \/ counter[c] <= PROBY /\ faza' = [faza EXCEPT ![c] = "wyslij"]
      \/ faza' = [faza EXCEPT ![c] = "porazka"]
  BY DEF NieudanaProba
<1>2. QED
  BY <1>1 DEF NieudanaProba, Typy, TypeOK, Licznik

LEMMA NastepnaPaczkaTypy ==
  ASSUME Typy, NEW c \in Klienci, NastepnaPaczka(c)
  PROVE  /\ faza' \in [Klienci -> {"wyslij", "recv", "sukces", "porazka"}]
         /\ chunkNo' \in [Klienci -> Nat \ {0}]
         /\ counter' \in [Klienci -> 0..(PROBY + 1)]
         /\ Licznik'
<1> USE StaleAssumption DEF Typy, TypeOK, Licznik
<1>1. counter' \in [Klienci -> 0..(PROBY + 1)] /\ counter'[c] = 0
      /\ \A x \in Klienci \ {c} : counter'[x] = counter[x]
  BY DEF NastepnaPaczka
<1>2. CASE /\ chunkNo' = [chunkNo EXCEPT ![c] = @ + 1]
           /\ faza' = [faza EXCEPT ![c] = "wyslij"]
  BY <1>1, <1>2
<1>3. CASE faza' = [faza EXCEPT ![c] = "sukces"] /\ UNCHANGED chunkNo
  BY <1>1, <1>3
<1>4. QED
  BY <1>2, <1>3 DEF NastepnaPaczka

(* One step of a client. *)
LEMMA KlientTypy ==
  ASSUME Typy, NEW c \in Klienci, KrokKlienta(c)
  PROVE  Typy'
<1> USE StaleAssumption DEF Typy, TypeOK
<1>1. CASE Wyslij(c)
  <2>1. dane' \in SUBSET Dane
    <3>1. [od |-> c, nr |-> chunkNo[c], koniec |-> chunkNo[c] = Paczki[c]] \in Dane
      BY Zenon DEF Dane
    <3>2. QED
      BY <1>1, <3>1 DEF Wyslij
  <2>2. budzik' \in [Klienci -> BOOLEAN]
    BY <1>1, Zenon DEF Wyslij
  <2>3. counter' \in [Klienci -> 0..(PROBY + 1)]
    BY <1>1 DEF Wyslij, Licznik
  <2>4. faza' \in [Klienci -> {"wyslij", "recv", "sukces", "porazka"}]
    BY <1>1 DEF Wyslij
  <2>5. Licznik'
    BY <1>1 DEF Wyslij, Licznik
  <2>6. QED
    BY <1>1, <2>1, <2>2, <2>3, <2>4, <2>5 DEF Wyslij
<1>2. CASE Budzik(c)
  <2>1. budzik' \in [Klienci -> BOOLEAN]
    BY <1>2, Zenon DEF Budzik
  <2>2. QED
    BY <1>2, <2>1, NieudanaProbaTypy DEF Budzik
<1>3. ASSUME NEW a \in acki, OdbierzAck(c, a) PROVE Typy'
  <2>1. budzik' \in [Klienci -> BOOLEAN]
    BY <1>3, Zenon DEF OdbierzAck
  <2>2. acki' \in SUBSET Ack
    BY <1>3 DEF OdbierzAck
  <2>3. CASE NieudanaProba(c)
    BY <1>3, <2>1, <2>2, <2>3, NieudanaProbaTypy DEF OdbierzAck
  <2>4. CASE NastepnaPaczka(c)
    BY <1>3, <2>1, <2>2, <2>4, NastepnaPaczkaTypy DEF OdbierzAck
  <2>5. QED
    BY <1>3, <2>3, <2>4 DEF OdbierzAck
<1>4. QED
  BY <1>1, <1>2, <1>3 DEF KrokKlienta

(* The slot that server_work uses: the client's own, or a free one that is
   taken when the client has none. *)
SlotDla(adres, i) ==
  /\ i \in Sloty
  /\ \/ clients[i].clientAddr = adres
     \/ clients[i].clientAddr = Nikt /\ \A j \in Sloty : clients[j].clientAddr # adres

(* What one datagram makes the server do. *)
LEMMA Serwer ==
  ASSUME NEW d \in dane, d.od \in Klienci, server_work(d)
  PROVE  \/ UNCHANGED <<clients, acki, wydruk, powtorzone>>
         \/ \E i : SlotDla(d.od, i) /\ (Przyszla(d, i) \/ Kolejna(d, i) \/ Duplikat(d, i))
<1> DEFINE i == findIndex(d.od)
<1>1. CASE i = -1
  <2>1. ~(i # -1)
    BY <1>1
  <2>2. QED
    BY <2>1 DEF server_work
<1>2. CASE i # -1
  <2>1. SlotDla(d.od, i)
    BY <1>2, FindIndex DEF SlotyKlienta, SlotDla
  <2>2. QED
    BY <1>2, <2>1 DEF server_work
<1>3. QED
  BY <1>1, <1>2

LEMMA WidzianeTyp ==
  ASSUME TypeOK, NEW d \in Dane, NEW i \in Sloty
  PROVE  Widziane(d, i) \in Nat
BY DEF TypeOK, Widziane

LEMMA SerwerTypy ==
  ASSUME Typy, NEW d \in dane, server_work(d)
  PROVE  Typy'
<1> USE DEF Typy
<1>1. d \in Dane /\ d.od \in Klienci /\ d.nr \in Nat \ {0}
  BY DEF TypeOK, Dane
<1>2. /\ faza' \in [Klienci -> {"wyslij", "recv", "sukces", "porazka"}]
      /\ chunkNo' \in [Klienci -> Nat \ {0}]
      /\ counter' \in [Klienci -> 0..(PROBY + 1)]
      /\ budzik' \in [Klienci -> BOOLEAN]
      /\ dane' \in SUBSET Dane
      /\ Licznik'
  <2>1. UNCHANGED klient /\ dane' \in {dane, dane \ {d}}
    BY DEF server_work
  <2>2. budzik' \in [Klienci -> BOOLEAN]
    BY <2>1, Zenon DEF TypeOK, klient
  <2>3. QED
    BY <2>1, <2>2 DEF TypeOK, klient, Licznik
<1> DEFINE T == /\ clients \in [Sloty -> [clientAddr : Klienci \cup {Nikt}, chunkNo : Nat]]
                /\ acki \in SUBSET Ack
                /\ wydruk \in [Klienci -> SUBSET (Nat \ {0})]
                /\ powtorzone \in [Klienci -> SUBSET (Nat \ {0})]
<1>3. T'
  <2>1. CASE UNCHANGED <<clients, acki, wydruk, powtorzone>>
    BY <2>1 DEF TypeOK
  <2>2. ASSUME NEW i, SlotDla(d.od, i),
               Przyszla(d, i) \/ Kolejna(d, i) \/ Duplikat(d, i)
        PROVE  T'
    <3> i \in Sloty
      BY <2>2 DEF SlotDla
    <3>1. Widziane(d, i) \in Nat
      BY <1>1, WidzianeTyp
    <3>2. /\ [clientAddr |-> d.od, chunkNo |-> Widziane(d, i)]
               \in [clientAddr : Klienci \cup {Nikt}, chunkNo : Nat]
          /\ [clientAddr |-> d.od, chunkNo |-> d.nr]
               \in [clientAddr : Klienci \cup {Nikt}, chunkNo : Nat]
          /\ Wolny \in [clientAddr : Klienci \cup {Nikt}, chunkNo : Nat]
          /\ [do |-> d.od, nr |-> d.nr] \in Ack
      BY <1>1, <3>1 DEF Wolny, Ack
    <3>3. CASE Przyszla(d, i)
      BY <3>2, <3>3 DEF Przyszla, ZapiszSlot, TypeOK
    <3>4. CASE Kolejna(d, i)
      <4>1. clients' \in [Sloty -> [clientAddr : Klienci \cup {Nikt}, chunkNo : Nat]]
        BY <3>2, <3>4 DEF Kolejna, ZapiszSlot, TypeOK
      <4>2. acki' \in SUBSET Ack
        BY <3>2, <3>4 DEF Kolejna, Odeslij, TypeOK
      <4>3. QED
        BY <1>1, <4>1, <4>2, <3>4 DEF Kolejna, TypeOK
    <3>5. CASE Duplikat(d, i)
      BY <3>2, <3>5 DEF Duplikat, Odeslij, TypeOK
    <3>6. QED
      BY <2>2, <3>3, <3>4, <3>5
  <2>3. QED
    BY <1>1, <2>1, <2>2, Serwer
<1>4. QED
  BY <1>2, <1>3 DEF TypeOK

LEMMA KrokTypy == Typy /\ [Next]_vars => Typy'
<1> SUFFICES ASSUME Typy, [Next]_vars PROVE Typy'
  OBVIOUS
<1>1. CASE Zgub
  <2>1. /\ UNCHANGED <<klient, clients, wydruk, powtorzone>>
        /\ dane' \subseteq dane /\ acki' \subseteq acki
    BY <1>1 DEF Zgub
  <2>2. budzik' \in [Klienci -> BOOLEAN]
    BY <2>1, Zenon DEF klient, Typy, TypeOK
  <2>3. QED
    BY <2>1, <2>2 DEF klient, Typy, TypeOK, Licznik
<1>2. CASE UNCHANGED vars
  <2>1. budzik' \in [Klienci -> BOOLEAN]
    BY <1>2, Zenon DEF vars, klient, Typy, TypeOK
  <2>2. QED
    BY <1>2, <2>1 DEF vars, klient, Typy, TypeOK, Licznik
<1>3. QED
  BY <1>1, <1>2, KlientTypy, SerwerTypy DEF Next

(* Every state is well typed; in particular client_work sends no chunk more
   than PROBY + 1 times, whatever the network does.  That is its actual limit,
   six; the five of the documents (NajwyzejPROBYProb) is not what it keeps. *)
THEOREM TypeCorrect == Spec => []TypeOK
<1>1. Typy => TypeOK
  BY DEF Typy
<1>2. QED
  BY <1>1, InitTypy, KrokTypy, PTL DEF Spec
-----------------------------------------------------------------------------
(* The slots. *)

LEMMA SlotSerwer ==
  ASSUME Typy, JedenSlot, NEW d \in dane, server_work(d)
  PROVE  JedenSlot'
<1>1. d \in Dane /\ d.od \in Klienci
  BY DEF Typy, TypeOK, Dane
<1>2. CASE UNCHANGED clients
  BY <1>2 DEF JedenSlot
<1>3. ASSUME NEW i, SlotDla(d.od, i), NEW k, ZapiszSlot(d, i, k) PROVE JedenSlot'
  <2>1. /\ clients'[i].clientAddr = d.od
        /\ \A j \in Sloty \ {i} : clients'[j] = clients[j]
    BY <1>3 DEF ZapiszSlot, SlotDla, Typy, TypeOK
  <2>2. \A j \in Sloty \ {i} : clients[j].clientAddr # d.od
    BY <1>1, <1>3, StaleAssumption DEF SlotDla, JedenSlot
  <2>3. QED
    BY <2>1, <2>2 DEF JedenSlot
<1>4. ASSUME NEW i \in Sloty, clients' = [clients EXCEPT ![i] = Wolny] PROVE JedenSlot'
  <2>1. /\ clients'[i].clientAddr = Nikt
        /\ \A j \in Sloty \ {i} : clients'[j] = clients[j]
    BY <1>4 DEF Wolny, Typy, TypeOK
  <2>2. QED
    BY <2>1 DEF JedenSlot
<1>5. QED
  <2>1. ASSUME NEW i, SlotDla(d.od, i),
               Przyszla(d, i) \/ Kolejna(d, i) \/ Duplikat(d, i)
        PROVE  JedenSlot'
    BY <1>2, <1>3, <1>4, <2>1 DEF SlotDla, Przyszla, Kolejna, Duplikat
  <2>2. QED
    BY <1>1, <1>2, <2>1, Serwer

(* The steps of the clients and of the network leave the server alone. *)
LEMMA BezSerwera ==
  ASSUME [Next]_vars, ~\E d \in dane : server_work(d)
  PROVE  UNCHANGED <<clients, wydruk, powtorzone>>
BY DEF Next, vars, KrokKlienta, Wyslij, Budzik, OdbierzAck, Zgub

(* A client never holds two slots, whatever datagrams arrive in which order
   and whichever slots were freed meanwhile: findIndex looks behind the free
   slots before it takes one. *)
THEOREM OneSlot == Spec => []JedenSlot
<1>1. Init => JedenSlot
  BY DEF Init, JedenSlot, Wolny
<1>2. Typy /\ JedenSlot /\ [Next]_vars => JedenSlot'
  <2> SUFFICES ASSUME Typy, JedenSlot, [Next]_vars PROVE JedenSlot'
    OBVIOUS
  <2>1. CASE \E d \in dane : server_work(d)
    BY <2>1, SlotSerwer
  <2>2. CASE ~\E d \in dane : server_work(d)
    BY <2>2, BezSerwera DEF JedenSlot
  <2>3. QED
    BY <2>1, <2>2
<1>3. QED
  BY <1>1, <1>2, InitTypy, KrokTypy, PTL DEF Spec

-----------------------------------------------------------------------------
(* What is shown, what is in transit and what the two sides count. *)

(* The chunks of a client that were shown are a beginning of its file. *)
Poczatek == \A c \in Klienci : \E k \in 0..Paczki[c] : wydruk[c] = 1..k

(* A client is past a chunk only if it was shown. *)
Klient == \A c \in Klienci :
            /\ chunkNo[c] <= Paczki[c]
            /\ \A n \in 1..(chunkNo[c] - 1) : n \in wydruk[c]

(* A datagram carries a chunk of the file, and the flag iff it is the last. *)
Datagramy == \A d \in dane :
               /\ d.nr <= Paczki[d.od]
               /\ d.koniec => d.nr = Paczki[d.od]
               /\ d.nr = Paczki[d.od] => d.koniec

(* What is echoed was shown. *)
Echa == \A a \in acki : a.nr \in wydruk[a.do]

(* What a slot counts was shown. *)
Zliczone == \A i \in Sloty : clients[i].clientAddr # Nikt =>
              \A n \in 1..clients[i].chunkNo : n \in wydruk[clients[i].clientAddr]

Niezmiennik == Typy /\ JedenSlot /\ Poczatek /\ Klient /\ Datagramy /\ Echa /\ Zliczone

LEMMA InitNiezmiennik == Init => Niezmiennik
<1> SUFFICES ASSUME Init PROVE Niezmiennik
  OBVIOUS
<1>1. Poczatek
  <2>1. 1..0 = {}
    OBVIOUS
  <2>2. QED
    BY <2>1, StaleAssumption DEF Init, Poczatek
<1>2. QED
  BY <1>1, InitTypy, StaleAssumption
     DEF Init, Niezmiennik, JedenSlot, Klient, Datagramy, Echa, Zliczone, Wolny

(* A step of a client keeps the invariant. *)
LEMMA NiezmiennikKlient ==
  ASSUME Niezmiennik, NEW c \in Klienci, KrokKlienta(c)
  PROVE  Klient' /\ Datagramy' /\ Echa'
<1> USE StaleAssumption DEF Niezmiennik, Typy
<1>1. UNCHANGED wydruk
  BY DEF KrokKlienta, Wyslij, Budzik, OdbierzAck
<1>2. CASE Wyslij(c)
  <2> DEFINE d == [od |-> c, nr |-> chunkNo[c], koniec |-> chunkNo[c] = Paczki[c]]
  <2>1. d.od = c /\ d.nr = chunkNo[c] /\ (d.koniec <=> chunkNo[c] = Paczki[c])
    OBVIOUS
  <2>2. dane' = dane \cup {d} /\ UNCHANGED <<chunkNo, acki>>
    BY <1>2 DEF Wyslij
  <2> HIDE DEF d
  <2>3. Datagramy'
    BY <2>1, <2>2 DEF Datagramy, Klient
  <2>4. QED
    BY <1>1, <2>2, <2>3 DEF Klient, Echa
<1>3. CASE Budzik(c)
  BY <1>1, <1>3 DEF Budzik, NieudanaProba, Klient, Datagramy, Echa
<1>4. ASSUME NEW a \in acki, OdbierzAck(c, a) PROVE Klient' /\ Datagramy' /\ Echa'
  <2>1. Datagramy' /\ Echa'
    BY <1>1, <1>4 DEF OdbierzAck, Datagramy, Echa
  <2>2. CASE UNCHANGED chunkNo
    BY <1>1, <2>1, <2>2 DEF Klient
  <2>3. CASE /\ a.do = c /\ a.nr = chunkNo[c] /\ chunkNo[c] < Paczki[c]
             /\ chunkNo' = [chunkNo EXCEPT ![c] = @ + 1]
    <3>1. chunkNo[c] \in wydruk[c]
      BY <2>3 DEF Echa
    <3>2. QED
      BY <1>1, <2>1, <2>3, <3>1 DEF Klient, TypeOK
  <2>4. QED
    BY <1>4, <2>2, <2>3 DEF OdbierzAck, NastepnaPaczka, NieudanaProba
<1>5. QED
  BY <1>2, <1>3, <1>4 DEF KrokKlienta
(* When the server shows a chunk, the chunks shown stay a beginning of the
   file: it is the next one, or one shown before. *)
LEMMA Pokazanie ==
  ASSUME Niezmiennik, NEW d \in dane, NEW i, SlotDla(d.od, i), Kolejna(d, i)
  PROVE  \E k \in 0..Paczki[d.od] :
           /\ wydruk[d.od] = 1..k
           /\ \/ d.nr \in 1..k /\ wydruk' = wydruk
              \/ /\ d.nr = k + 1 /\ k + 1 \in 1..Paczki[d.od]
                 /\ wydruk' = [wydruk EXCEPT ![d.od] = 1..(k + 1)]
<1> USE StaleAssumption DEF Niezmiennik, Typy
<1>1. d \in Dane /\ d.od \in Klienci /\ d.nr \in Nat \ {0} /\ d.nr <= Paczki[d.od]
  BY DEF TypeOK, Dane, Datagramy
<1>2. i \in Sloty /\ Widziane(d, i) \in Nat /\ d.nr = Widziane(d, i) + 1
  BY <1>1, WidzianeTyp DEF SlotDla, Kolejna
<1>3. PICK k \in 0..Paczki[d.od] : wydruk[d.od] = 1..k
  BY <1>1 DEF Poczatek
<1>4. Paczki[d.od] \in Nat \ {0}
  BY <1>1
<1>5. \A n \in 1..Widziane(d, i) : n \in 1..k
  <2>1. CASE clients[i].clientAddr = d.od
    BY <1>1, <1>2, <1>3, <2>1 DEF Widziane, Zliczone
  <2>2. CASE clients[i].clientAddr # d.od
    BY <2>2 DEF Widziane
  <2>3. QED
    BY <2>1, <2>2
<1>6. Widziane(d, i) <= k
  BY <1>2, <1>4, <1>5
<1>7. wydruk' = [wydruk EXCEPT ![d.od] = (1..k) \cup {d.nr}]
  BY <1>3 DEF Kolejna
<1>8. CASE d.nr \in 1..k
  <2>1. (1..k) \cup {d.nr} = 1..k
    BY <1>8
  <2>2. wydruk' = wydruk
    BY <1>3, <1>7, <2>1 DEF TypeOK
  <2>3. QED
    BY <1>3, <1>8, <2>2
<1>9. CASE d.nr \notin 1..k
  <2>1. d.nr = k + 1 /\ k + 1 \in 1..Paczki[d.od]
    BY <1>1, <1>2, <1>4, <1>6, <1>9
  <2>2. (1..k) \cup {d.nr} = 1..(k + 1)
    BY <2>1
  <2>3. QED
    BY <1>3, <1>7, <2>1, <2>2
<1>10. QED
  BY <1>8, <1>9

(* What has been shown stays shown. *)
LEMMA Rosnie ==
  ASSUME Niezmiennik, NEW d \in dane, NEW i, Kolejna(d, i)
  PROVE  \A c \in Klienci : wydruk[c] \subseteq wydruk'[c]
BY DEF Niezmiennik, Typy, TypeOK, Kolejna

LEMMA NiezmiennikSlotu ==
  ASSUME Niezmiennik, NEW d \in dane, NEW i, SlotDla(d.od, i),
         UNCHANGED klient, dane' \subseteq dane,
         Przyszla(d, i) \/ Kolejna(d, i) \/ Duplikat(d, i)
  PROVE  Poczatek' /\ Klient' /\ Datagramy' /\ Echa' /\ Zliczone'
<1> USE StaleAssumption DEF Niezmiennik, Typy
<1>1. /\ d \in Dane /\ d.od \in Klienci /\ d.nr \in Nat \ {0}
      /\ i \in Sloty /\ Widziane(d, i) \in Nat
  BY WidzianeTyp DEF TypeOK, Dane, SlotDla
<1>2. Datagramy'
  BY DEF Datagramy
<1>3. \A n \in 1..Widziane(d, i) : n \in wydruk[d.od]
  <2>1. CASE clients[i].clientAddr = d.od
    BY <1>1, <2>1 DEF Widziane, Zliczone
  <2>2. CASE clients[i].clientAddr # d.od
    BY <2>2 DEF Widziane
  <2>3. QED
    BY <2>1, <2>2
<1>4. CASE Przyszla(d, i)
  <2>1. Poczatek' /\ Klient' /\ Echa'
    BY <1>4 DEF Przyszla, Poczatek, Klient, Echa, klient
  <2>2. /\ clients'[i].clientAddr = d.od /\ clients'[i].chunkNo = Widziane(d, i)
        /\ \A j \in Sloty \ {i} : clients'[j] = clients[j]
    BY <1>1, <1>4 DEF Przyszla, ZapiszSlot, TypeOK
  <2>3. Zliczone'
    BY <1>3, <1>4, <2>2 DEF Zliczone, Przyszla
  <2>4. QED
    BY <1>2, <2>1, <2>3
<1>5. CASE Duplikat(d, i)
  <2>1. Poczatek' /\ Klient' /\ Zliczone'
    BY <1>5 DEF Duplikat, Poczatek, Klient, Zliczone, klient
  <2>2. d.nr \in wydruk[d.od]
    BY <1>1, <1>3, <1>5 DEF Duplikat
  <2>3. Echa'
    BY <1>5, <2>2 DEF Duplikat, Odeslij, Echa
  <2>4. QED
    BY <1>2, <2>1, <2>3
<1>6. CASE Kolejna(d, i)
  <2>1. Poczatek'
    <3>1. PICK k \in 0..Paczki[d.od] :
           /\ wydruk[d.od] = 1..k
           /\ \/ d.nr \in 1..k /\ wydruk' = wydruk
              \/ /\ d.nr = k + 1 /\ k + 1 \in 1..Paczki[d.od]
                 /\ wydruk' = [wydruk EXCEPT ![d.od] = 1..(k + 1)]
      BY <1>6, Pokazanie
    <3>2. CASE wydruk' = wydruk
      BY <3>2 DEF Poczatek
    <3>3. CASE /\ k + 1 \in 1..Paczki[d.od]
               /\ wydruk' = [wydruk EXCEPT ![d.od] = 1..(k + 1)]
      <4> SUFFICES ASSUME NEW c \in Klienci
                   PROVE  \E m \in 0..Paczki[c] : wydruk'[c] = 1..m
        BY DEF Poczatek
      <4>1. CASE c = d.od
        <5>1. k + 1 \in 0..Paczki[c] /\ wydruk'[c] = 1..(k + 1)
          BY <3>3, <4>1 DEF TypeOK
        <5>2. QED
          BY <5>1
      <4>2. CASE c # d.od
        BY <3>3, <4>2 DEF TypeOK, Poczatek
      <4>3. QED
        BY <4>1, <4>2
    <3>4. QED
      BY <3>1, <3>2, <3>3
  <2>2. \A c \in Klienci : wydruk[c] \subseteq wydruk'[c]
    BY <1>6, Rosnie
  <2>3. d.nr \in wydruk'[d.od]
    BY <1>1, <1>6 DEF Kolejna, TypeOK
  <2>4. Klient'
    BY <2>2 DEF Klient, klient
  <2>5. Echa'
    <3>1. acki' = acki \cup {[do |-> d.od, nr |-> d.nr]}
      BY <1>6 DEF Kolejna, Odeslij
    <3>2. \A a \in acki : a.do \in Klienci
      BY DEF TypeOK, Ack
    <3>3. QED
      BY <2>2, <2>3, <3>1, <3>2 DEF Echa
  <2>6. Zliczone'
    <3>1. \A j \in Sloty : clients[j].clientAddr \in Klienci \cup {Nikt}
      BY DEF TypeOK
    <3>2. CASE d.koniec
      <4>1. /\ clients'[i].clientAddr = Nikt
            /\ \A j \in Sloty \ {i} : clients'[j] = clients[j]
        BY <1>1, <1>6, <3>2 DEF Kolejna, Wolny, TypeOK
      <4>2. QED
        BY <2>2, <3>1, <4>1 DEF Zliczone
    <3>3. CASE ~d.koniec
      <4>1. /\ clients'[i].clientAddr = d.od /\ clients'[i].chunkNo = d.nr
            /\ \A j \in Sloty \ {i} : clients'[j] = clients[j]
        BY <1>1, <1>6, <3>3 DEF Kolejna, ZapiszSlot, TypeOK
      <4>2. \A n \in 1..d.nr : n \in wydruk'[d.od]
        BY <1>1, <1>3, <1>6, <2>2, <2>3 DEF Kolejna
      <4>3. QED
        BY <2>2, <3>1, <4>1, <4>2 DEF Zliczone
    <3>4. QED
      BY <3>2, <3>3
  <2>7. QED
    BY <1>2, <2>1, <2>4, <2>5, <2>6
<1>7. QED
  BY <1>4, <1>5, <1>6

LEMMA KrokNiezmiennik == Niezmiennik /\ [Next]_vars => Niezmiennik'
<1> SUFFICES ASSUME Niezmiennik, [Next]_vars PROVE Niezmiennik'
  OBVIOUS
<1>1. Typy'
  BY KrokTypy DEF Niezmiennik
<1>2. ASSUME NEW d \in dane, server_work(d) PROVE Niezmiennik'
  <2>1. d.od \in Klienci
    BY DEF Niezmiennik, Typy, TypeOK, Dane
  <2>2. UNCHANGED klient /\ dane' \subseteq dane
    BY <1>2 DEF server_work
  <2>3. JedenSlot'
    BY <1>2, SlotSerwer DEF Niezmiennik
  <2>4. CASE UNCHANGED <<clients, acki, wydruk, powtorzone>>
    BY <1>1, <2>2, <2>3, <2>4
       DEF Niezmiennik, Poczatek, Klient, Datagramy, Echa, Zliczone, klient
  <2>5. QED
    BY <1>1, <1>2, <2>1, <2>2, <2>3, <2>4, Serwer, NiezmiennikSlotu DEF Niezmiennik
<1>3. CASE ~\E d \in dane : server_work(d)
  <2>1. JedenSlot' /\ Poczatek' /\ Zliczone'
    BY <1>3, BezSerwera DEF Niezmiennik, JedenSlot, Poczatek, Zliczone
  <2>2. CASE \E c \in Klienci : KrokKlienta(c)
    BY <1>1, <2>1, <2>2, NiezmiennikKlient DEF Niezmiennik
  <2>3. CASE Zgub
    <3>1. /\ UNCHANGED <<klient, wydruk>> /\ dane' \subseteq dane /\ acki' \subseteq acki
      BY <2>3 DEF Zgub
    <3>2. QED
      BY <1>1, <2>1, <3>1 DEF Niezmiennik, Klient, Datagramy, Echa, klient
  <2>4. CASE UNCHANGED vars
    BY <1>1, <2>1, <2>4 DEF Niezmiennik, Klient, Datagramy, Echa, vars, klient
  <2>5. QED
    BY <1>3, <2>2, <2>3, <2>4 DEF Next
<1>4. QED
  BY <1>2, <1>3
-----------------------------------------------------------------------------
(* The refinement. *)

(* A failed attempt is a stutter, or the client gives up. *)
LEMMA KrokNieudanej ==
  ASSUME Niezmiennik, NEW c \in Klienci, faza[c] = "recv", NieudanaProba(c), UNCHANGED wydruk
  PROVE  [FT!Next]_(FT!vars)
<1> USE DEF Niezmiennik, Typy, TypeOK
<1>1. CASE faza' = [faza EXCEPT ![c] = "wyslij"]
  <2>1. Stan' = Stan /\ Potwierdzone' = Potwierdzone
    BY <1>1 DEF NieudanaProba, Stan, Potwierdzone
  <2>2. QED
    BY <2>1 DEF FT!vars
<1>2. CASE faza' = [faza EXCEPT ![c] = "porazka"]
  <2>1. Stan[c] = "trwa" /\ Stan' = [Stan EXCEPT ![c] = "porazka"]
    BY <1>2 DEF Stan
  <2>2. Potwierdzone' = Potwierdzone
    BY <1>2 DEF NieudanaProba, Potwierdzone
  <2>3. QED
    BY <2>1, <2>2 DEF FT!Next, FT!Zrezygnuj
<1>3. QED
  BY <1>1, <1>2 DEF NieudanaProba

(* The echo of the current chunk is the client's confirmation of it. *)
LEMMA KrokPotwierdzenia ==
  ASSUME Niezmiennik, NEW c \in Klienci, faza[c] = "recv", chunkNo[c] \in wydruk[c],
         NastepnaPaczka(c), UNCHANGED wydruk
  PROVE  FT!Potwierdz(c)
<1> USE StaleAssumption DEF Niezmiennik, Typy, TypeOK
<1>1. Stan[c] = "trwa" /\ Potwierdzone[c] + 1 = chunkNo[c]
  BY DEF Stan, Potwierdzone
<1>2. CASE /\ chunkNo[c] < Paczki[c]
           /\ chunkNo' = [chunkNo EXCEPT ![c] = @ + 1]
           /\ faza' = [faza EXCEPT ![c] = "wyslij"]
  <2>1. Potwierdzone' = [Potwierdzone EXCEPT ![c] = Potwierdzone[c] + 1]
    <3>1. /\ faza[c] # "sukces" /\ faza'[c] # "sukces"
          /\ chunkNo[c] \in Nat /\ chunkNo'[c] = chunkNo[c] + 1
      BY <1>2
    <3>2. \A x \in Klienci \ {c} : faza'[x] = faza[x] /\ chunkNo'[x] = chunkNo[x]
      BY <1>2
    <3>3. Potwierdzone'[c] = Potwierdzone[c] + 1
      <4>1. Potwierdzone[c] = chunkNo[c] - 1
        BY <3>1, Zenon DEF Potwierdzone
      <4>2. Potwierdzone'[c] = chunkNo'[c] - 1
        BY <3>1, Zenon DEF Potwierdzone
      <4>3. QED
        BY <3>1, <4>1, <4>2
    <3>4. \A x \in Klienci \ {c} : Potwierdzone'[x] = Potwierdzone[x]
      BY <3>2 DEF Potwierdzone
    <3>5. QED
      BY <3>3, <3>4, Zenon DEF Potwierdzone
  <2>2. Stan' = [Stan EXCEPT ![c] = "trwa"]
    BY <1>2 DEF Stan
  <2>3. ~(Potwierdzone[c] + 1 = Paczki[c])
    BY <1>1, <1>2
  <2>4. QED
    BY <1>1, <2>1, <2>2, <2>3 DEF FT!Potwierdz
<1>3. CASE /\ chunkNo[c] = Paczki[c]
           /\ faza' = [faza EXCEPT ![c] = "sukces"]
           /\ UNCHANGED chunkNo
  <2>1. Potwierdzone' = [Potwierdzone EXCEPT ![c] = Potwierdzone[c] + 1]
    BY <1>1, <1>3 DEF Potwierdzone
  <2>2. Stan' = [Stan EXCEPT ![c] = "sukces"]
    BY <1>3 DEF Stan
  <2>3. Potwierdzone[c] + 1 = Paczki[c]
    BY <1>1, <1>3
  <2>4. QED
    BY <1>1, <2>1, <2>2, <2>3 DEF FT!Potwierdz
<1>4. QED
  BY <1>2, <1>3 DEF NastepnaPaczka

LEMMA KrokSerwera ==
  ASSUME Niezmiennik, NEW d \in dane, server_work(d)
  PROVE  [FT!Next]_(FT!vars)
<1>1. d.od \in Klienci
  BY DEF Niezmiennik, Typy, TypeOK, Dane
<1>2. Stan' = Stan /\ Potwierdzone' = Potwierdzone
  BY DEF server_work, klient, Stan, Potwierdzone
<1>3. CASE wydruk' = wydruk
  BY <1>2, <1>3 DEF FT!vars
<1>4. ASSUME NEW i, SlotDla(d.od, i), Kolejna(d, i) PROVE [FT!Next]_(FT!vars)
  <2>1. PICK k \in 0..Paczki[d.od] :
           /\ wydruk[d.od] = 1..k
           /\ \/ d.nr \in 1..k /\ wydruk' = wydruk
              \/ /\ d.nr = k + 1 /\ k + 1 \in 1..Paczki[d.od]
                 /\ wydruk' = [wydruk EXCEPT ![d.od] = 1..(k + 1)]
    BY <1>4, Pokazanie
  <2>2. CASE /\ k + 1 \in 1..Paczki[d.od]
             /\ wydruk' = [wydruk EXCEPT ![d.od] = 1..(k + 1)]
    <3>1. k = (k + 1) - 1
      BY <1>1, <2>1, StaleAssumption
    <3>2. FT!Pokaz(d.od)
      BY <1>2, <2>1, <2>2, <3>1 DEF FT!Pokaz
    <3>3. QED
      BY <1>1, <3>2 DEF FT!Next
  <2>3. QED
    BY <1>3, <2>1, <2>2
<1>5. QED
  BY <1>1, <1>3, <1>4, Serwer DEF Przyszla, Duplikat

(* client_work and server_work implement FileTransfer for any files, slots
   and attempts, whatever the network loses, delays, repeats or reorders:
   chunks are shown in order and without gaps, and a client passes a chunk, or
   ends with success, only after the server has shown it. *)
THEOREM ImplementsTransfer == Spec => RealizujeTransfer
<1>1. Init => FT!Init
  BY StaleAssumption DEF Init, FT!Init, Stan, Potwierdzone
<1>2. Niezmiennik /\ [Next]_vars => [FT!Next]_(FT!vars)
  <2> SUFFICES ASSUME Niezmiennik, [Next]_vars PROVE [FT!Next]_(FT!vars)
    OBVIOUS
  <2>1. ASSUME UNCHANGED <<wydruk, chunkNo>>, UNCHANGED Stan PROVE [FT!Next]_(FT!vars)
    <3>1. UNCHANGED Potwierdzone
      <4>1. \A c \in Klienci : faza'[c] = "sukces" <=> faza[c] = "sukces"
        <5> SUFFICES ASSUME NEW c \in Klienci
                     PROVE  faza'[c] = "sukces" <=> faza[c] = "sukces"
          OBVIOUS
        <5>1. Stan'[c] = Stan[c]
          BY <2>1
        <5>2. QED
          BY <5>1 DEF Stan
      <4>2. QED
        BY <2>1, <4>1 DEF Potwierdzone
    <3>2. QED
      BY <2>1, <3>1 DEF FT!vars
  <2>2. ASSUME NEW c \in Klienci, Wyslij(c) PROVE [FT!Next]_(FT!vars)
    <3>1. faza' = [faza EXCEPT ![c] = "recv"] /\ faza[c] = "wyslij"
      BY <2>2 DEF Wyslij
    <3>2. UNCHANGED Stan
      BY <3>1 DEF Stan, Niezmiennik, Typy, TypeOK
    <3>3. QED
      BY <2>1, <2>2, <3>2 DEF Wyslij
  <2>3. ASSUME NEW c \in Klienci, Budzik(c) PROVE [FT!Next]_(FT!vars)
    BY <2>3, KrokNieudanej DEF Budzik
  <2>4. ASSUME NEW c \in Klienci, NEW a \in acki, OdbierzAck(c, a)
        PROVE  [FT!Next]_(FT!vars)
    <3>1. a.nr = chunkNo[c] => chunkNo[c] \in wydruk[c]
      BY <2>4 DEF OdbierzAck, Niezmiennik, Echa
    <3>2. QED
      BY <2>4, <3>1, KrokNieudanej, KrokPotwierdzenia DEF OdbierzAck, FT!Next
  <2>5. CASE Zgub
    BY <2>1, <2>5 DEF Zgub, klient, Stan
  <2>6. CASE UNCHANGED vars
    BY <2>1, <2>6 DEF vars, klient, Stan
  <2>7. QED
    BY <2>2, <2>3, <2>4, <2>5, <2>6, KrokSerwera DEF Next, KrokKlienta
<1>3. QED
  BY <1>1, <1>2, InitNiezmiennik, KrokNiezmiennik, PTL DEF Spec, RealizujeTransfer, FT!Spec
-----------------------------------------------------------------------------
(* No repetition before the end of a file. *)

(* Until the last chunk is shown, what was shown is counted in the client's
   slot: the server has not forgotten it. *)
Pamieta == \A c \in Klienci : Paczki[c] \notin wydruk[c] =>
             \A n \in wydruk[c] : \E i \in Sloty : clients[i].clientAddr = c
                                                   /\ n <= clients[i].chunkNo

LEMMA PamietaSlot ==
  ASSUME Niezmiennik, Pamieta, BezPowtorzenPrzedKoncem,
         NEW d \in dane, NEW i, SlotDla(d.od, i),
         Przyszla(d, i) \/ Kolejna(d, i) \/ Duplikat(d, i)
  PROVE  Pamieta' /\ BezPowtorzenPrzedKoncem'
<1> USE StaleAssumption DEF Niezmiennik, Typy
<1>1. /\ d \in Dane /\ d.od \in Klienci /\ d.nr \in Nat \ {0}
      /\ i \in Sloty /\ Widziane(d, i) \in Nat
  BY WidzianeTyp DEF TypeOK, Dane, SlotDla
<1>2. /\ \A j \in Sloty : clients[j].clientAddr = d.od => j = i
      /\ clients[i].clientAddr = d.od \/ clients[i].clientAddr = Nikt
  BY <1>1 DEF SlotDla, JedenSlot
<1>3. Paczki[d.od] \notin wydruk[d.od] => \A n \in wydruk[d.od] : n <= Widziane(d, i)
  BY <1>1, <1>2 DEF Pamieta, Widziane
<1>4. CASE Duplikat(d, i)
  BY <1>4 DEF Duplikat, Pamieta, BezPowtorzenPrzedKoncem
<1>5. ASSUME NEW k \in Nat, ZapiszSlot(d, i, k),
             \A c \in Klienci \ {d.od} : wydruk'[c] = wydruk[c],
             Paczki[d.od] \notin wydruk'[d.od] => \A n \in wydruk'[d.od] : n <= k
      PROVE  Pamieta'
  <2>1. /\ clients'[i].clientAddr = d.od /\ clients'[i].chunkNo = k
        /\ \A j \in Sloty \ {i} : clients'[j] = clients[j]
    BY <1>1, <1>5 DEF ZapiszSlot, TypeOK
  <2>2. \A c \in Klienci \ {d.od} : \A j \in Sloty : clients[j].clientAddr = c => j # i
    BY <1>2
  <2>3. QED
    BY <1>1, <1>5, <2>1, <2>2 DEF Pamieta
<1>6. CASE Przyszla(d, i)
  <2>1. BezPowtorzenPrzedKoncem'
    BY <1>6 DEF Przyszla, BezPowtorzenPrzedKoncem
  <2>2. QED
    BY <1>1, <1>3, <1>5, <1>6, <2>1 DEF Przyszla
<1>7. CASE Kolejna(d, i)
  <2>1. /\ d.nr = Widziane(d, i) + 1
        /\ wydruk'[d.od] = wydruk[d.od] \cup {d.nr}
        /\ powtorzone'[d.od] = powtorzone[d.od] \cup ({d.nr} \cap wydruk[d.od])
        /\ \A c \in Klienci \ {d.od} : wydruk'[c] = wydruk[c] /\ powtorzone'[c] = powtorzone[c]
    BY <1>1, <1>7 DEF Kolejna, TypeOK
  <2>2. Paczki[d.od] \notin wydruk'[d.od] => d.nr \notin wydruk[d.od]
    BY <1>1, <1>3, <2>1
  <2>3. BezPowtorzenPrzedKoncem'
    BY <2>1, <2>2 DEF BezPowtorzenPrzedKoncem
  <2>4. CASE ~d.koniec
    <3>1. ZapiszSlot(d, i, d.nr)
      BY <1>7, <2>4 DEF Kolejna
    <3>2. Paczki[d.od] \notin wydruk'[d.od] => \A n \in wydruk'[d.od] : n <= d.nr
      BY <1>1, <1>3, <2>1 DEF TypeOK
    <3>3. QED
      BY <1>1, <1>5, <2>1, <2>3, <3>1, <3>2
  <2>5. CASE d.koniec
    <3>1. Paczki[d.od] \in wydruk'[d.od]
      BY <2>1, <2>5 DEF Datagramy
    <3>2. \A j \in Sloty \ {i} : clients'[j] = clients[j]
      BY <1>7, <2>5 DEF Kolejna, TypeOK
    <3>3. \A c \in Klienci \ {d.od} : \A j \in Sloty : clients[j].clientAddr = c => j # i
      BY <1>2
    <3>4. Pamieta'
      BY <2>1, <3>1, <3>2, <3>3 DEF Pamieta
    <3>5. QED
      BY <2>3, <3>4
  <2>6. QED
    BY <2>4, <2>5
<1>8. QED
  BY <1>4, <1>6, <1>7

(* Until the last chunk of a file is shown, none of its chunks is shown twice,
   whatever is retransmitted or duplicated: the slot of the client is neither
   lost nor given to another before that. *)
THEOREM NoRepetition == Spec => []BezPowtorzenPrzedKoncem
<1>1. Init => Pamieta /\ BezPowtorzenPrzedKoncem
  BY DEF Init, Pamieta, BezPowtorzenPrzedKoncem
<1>2. Niezmiennik /\ Pamieta /\ BezPowtorzenPrzedKoncem /\ [Next]_vars
        => Pamieta' /\ BezPowtorzenPrzedKoncem'
  <2> SUFFICES ASSUME Niezmiennik, Pamieta, BezPowtorzenPrzedKoncem, [Next]_vars
               PROVE  Pamieta' /\ BezPowtorzenPrzedKoncem'
    OBVIOUS
  <2>1. CASE UNCHANGED <<clients, wydruk, powtorzone>>
    BY <2>1 DEF Pamieta, BezPowtorzenPrzedKoncem
  <2>2. ASSUME NEW d \in dane, server_work(d)
        PROVE  Pamieta' /\ BezPowtorzenPrzedKoncem'
    <3>1. d.od \in Klienci
      BY DEF Niezmiennik, Typy, TypeOK, Dane
    <3>2. QED
      BY <2>1, <2>2, <3>1, Serwer, PamietaSlot
  <2>3. QED
    BY <2>1, <2>2, BezSerwera
<1>3. QED
  BY <1>1, <1>2, InitNiezmiennik, KrokNiezmiennik, PTL DEF Spec
=============================================================================
