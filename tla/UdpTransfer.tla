---------------------------- MODULE UdpTransfer -----------------------------
(***************************************************************************)
(* The UDP file transfer of lab_8/zadanie_1: client_work sends a file      *)
(* chunk by chunk, each one until its echo comes back or the attempts are  *)
(* used up; server_work shows the chunks and keeps a slot per client.      *)
(*                                                                         *)
(* The network loses, delays, reorders and duplicates datagrams: what is   *)
(* in transit is a set, a delivery may leave the datagram in it.           *)
(***************************************************************************)
EXTENDS Integers, FiniteSets

CONSTANTS
  Klienci,      \* addresses of clients, one transfer each
  Paczki,       \* Paczki[c]: chunks of the file of c; only the last is short
  MAXCLIENTS,   \* slots of the server, 5 in the code
  PROBY,        \* the limit that counter is compared with after an attempt, 5
  Zwloka,       \* may a client be held up for 0.5 s before it is in recv?
  Nikt          \* the address in a free slot

ASSUME StaleAssumption ==
  /\ Paczki \in [Klienci -> Nat \ {0}]
  /\ MAXCLIENTS \in Nat \ {0}
  /\ PROBY \in Nat
  /\ Zwloka \in BOOLEAN
  /\ Nikt \notin Klienci

Sloty == 0..(MAXCLIENTS - 1)
Dane == [od : Klienci, nr : Nat \ {0}, koniec : BOOLEAN]
Ack == [do : Klienci, nr : Nat \ {0}]
Wolny == [clientAddr |-> Nikt, chunkNo |-> 0]

VARIABLES
  faza,         \* faza[c]: "wyslij", "recv", "sukces" or "porazka"
  chunkNo,      \* chunkNo[c] in client_work
  counter,      \* counter[c] in client_work
  budzik,       \* budzik[c]: SIGALRM is still to come in this recv
  clients,      \* the server's slots; a free one is Wolny
  dane,         \* datagrams on their way to the server
  acki,         \* echoes on their way to the clients
  wydruk,       \* history: wydruk[c], the numbers of the chunks shown
  powtorzone    \* history: powtorzone[c], those shown more than once

klient == <<faza, chunkNo, counter, budzik>>
vars == <<klient, clients, dane, acki, wydruk, powtorzone>>

(* client_work reads the first chunk before it sends anything. *)
Init ==
  /\ faza = [c \in Klienci |-> "wyslij"]
  /\ chunkNo = [c \in Klienci |-> 1]
  /\ counter = [c \in Klienci |-> 0]
  /\ budzik = [c \in Klienci |-> FALSE]
  /\ clients = [i \in Sloty |-> Wolny]
  /\ dane = {}
  /\ acki = {}
  /\ wydruk = [c \in Klienci |-> {}]
  /\ powtorzone = [c \in Klienci |-> {}]

-----------------------------------------------------------------------------
(* The client. *)

(* Mutant of Wyslij: counter = 0 stands inside the loop of attempts. *)
WyslijBezLiczenia(c) ==
  /\ faza[c] = "wyslij"
  /\ counter' = [counter EXCEPT ![c] = 1]
  /\ dane' = dane \cup {[od |-> c, nr |-> chunkNo[c], koniec |-> chunkNo[c] = Paczki[c]]}
  /\ budzik' = [budzik EXCEPT ![c] = TRUE]
  /\ faza' = [faza EXCEPT ![c] = "recv"]
  /\ UNCHANGED <<chunkNo, clients, acki, wydruk, powtorzone>>

(* sendto, setitimer, last_signal = 0.  If the client is held up here for
   0.5 s, SIGALRM comes before recv and will not interrupt it. *)
Wyslij(c) ==
  /\ faza[c] = "wyslij"
  /\ counter' = [counter EXCEPT ![c] = @ + 1]
  /\ dane' = dane \cup {[od |-> c, nr |-> chunkNo[c], koniec |-> chunkNo[c] = Paczki[c]]}
  /\ \E b \in {TRUE, ~Zwloka} : budzik' = [budzik EXCEPT ![c] = b]
  /\ faza' = [faza EXCEPT ![c] = "recv"]
  /\ UNCHANGED <<chunkNo, clients, acki, wydruk, powtorzone>>

(* Mutant of NieudanaProba: the limit is off by one. *)
NieudanaProbaDalej(c) ==
  /\ faza' = [faza EXCEPT ![c] = IF counter[c] <= PROBY + 1 THEN "wyslij" ELSE "porazka"]
  /\ UNCHANGED <<chunkNo, counter>>

(* The attempt brought no echo of this chunk: another one, or give up. *)
NieudanaProba(c) ==
  /\ faza' = [faza EXCEPT ![c] = IF counter[c] <= PROBY THEN "wyslij" ELSE "porazka"]
  /\ UNCHANGED <<chunkNo, counter>>

(* The chunk is confirmed: read the next one, or leave after the last. *)
NastepnaPaczka(c) ==
  /\ \/ /\ chunkNo[c] < Paczki[c]
        /\ chunkNo' = [chunkNo EXCEPT ![c] = @ + 1]
        /\ faza' = [faza EXCEPT ![c] = "wyslij"]
     \/ /\ chunkNo[c] = Paczki[c]
        /\ faza' = [faza EXCEPT ![c] = "sukces"]
        /\ UNCHANGED chunkNo
  /\ counter' = [counter EXCEPT ![c] = 0]

(* SIGALRM interrupts recv. *)
Budzik(c) ==
  /\ faza[c] = "recv"
  /\ budzik[c]
  /\ NieudanaProba(c)
  /\ budzik' = [budzik EXCEPT ![c] = FALSE]
  /\ UNCHANGED <<clients, dane, acki, wydruk, powtorzone>>

(* Mutant of OdbierzAck: the number in the echo is not compared. *)
OdbierzByleAck(c, a) ==
  /\ faza[c] = "recv"
  /\ a.do = c
  /\ NastepnaPaczka(c)
  /\ budzik' = [budzik EXCEPT ![c] = FALSE]
  /\ acki' \in {acki, acki \ {a}}
  /\ UNCHANGED <<clients, dane, wydruk, powtorzone>>

(* recv returns a datagram: any echo, also of an earlier chunk, ends it. *)
OdbierzAck(c, a) ==
  /\ faza[c] = "recv"
  /\ a.do = c
  /\ \/ a.nr = chunkNo[c] /\ NastepnaPaczka(c)
     \/ a.nr # chunkNo[c] /\ NieudanaProba(c)
  /\ budzik' = [budzik EXCEPT ![c] = FALSE]
  /\ acki' \in {acki, acki \ {a}}
  /\ UNCHANGED <<clients, dane, wydruk, powtorzone>>

-----------------------------------------------------------------------------
(* The server. *)

SlotyKlienta(adres) == {i \in Sloty : clients[i].clientAddr = adres}

(* Mutant of findIndex: the search ends at the first free slot. *)
findIndexPierwszy(adres) ==
  LET S == SlotyKlienta(adres) \cup SlotyKlienta(Nikt)
  IN  IF S # {} THEN CHOOSE i \in S : \A j \in S : i <= j ELSE -1

(* The slot of the client; else the last free slot; else -1. *)
findIndex(adres) ==
  IF SlotyKlienta(adres) # {}
  THEN CHOOSE i \in SlotyKlienta(adres) : \A j \in SlotyKlienta(adres) : i <= j
  ELSE IF SlotyKlienta(Nikt) # {}
       THEN CHOOSE i \in SlotyKlienta(Nikt) : \A j \in SlotyKlienta(Nikt) : j <= i
       ELSE -1

(* How many chunks the slot has seen; 0 when findIndex has just taken it. *)
Widziane(d, i) == IF clients[i].clientAddr = d.od THEN clients[i].chunkNo ELSE 0

ZapiszSlot(d, i, k) ==
  clients' = [clients EXCEPT ![i] = [clientAddr |-> d.od, chunkNo |-> k]]

Odeslij(d) == acki' = acki \cup {[do |-> d.od, nr |-> d.nr]}

(* A chunk from the future: no answer, but the slot is taken. *)
Przyszla(d, i) ==
  /\ d.nr > Widziane(d, i) + 1
  /\ ZapiszSlot(d, i, Widziane(d, i))
  /\ UNCHANGED <<acki, wydruk, powtorzone>>

(* Mutant of Kolejna: chunkNo++ is missing. *)
KolejnaBezLiczenia(d, i) ==
  /\ d.nr = Widziane(d, i) + 1
  /\ wydruk' = [wydruk EXCEPT ![d.od] = @ \cup {d.nr}]
  /\ powtorzone' = [powtorzone EXCEPT ![d.od] = @ \cup ({d.nr} \cap wydruk[d.od])]
  /\ \/ d.koniec /\ clients' = [clients EXCEPT ![i] = Wolny]
     \/ ~d.koniec /\ ZapiszSlot(d, i, Widziane(d, i))
  /\ Odeslij(d)

(* The next chunk is shown; after the last one the slot is free. *)
Kolejna(d, i) ==
  /\ d.nr = Widziane(d, i) + 1
  /\ wydruk' = [wydruk EXCEPT ![d.od] = @ \cup {d.nr}]
  /\ powtorzone' = [powtorzone EXCEPT ![d.od] = @ \cup ({d.nr} \cap wydruk[d.od])]
  /\ \/ d.koniec /\ clients' = [clients EXCEPT ![i] = Wolny]
     \/ ~d.koniec /\ ZapiszSlot(d, i, d.nr)
  /\ Odeslij(d)

(* A chunk seen before is only echoed. *)
Duplikat(d, i) ==
  /\ d.nr <= Widziane(d, i)
  /\ Odeslij(d)
  /\ UNCHANGED <<clients, wydruk, powtorzone>>

server_work(d) ==
  /\ LET i == findIndex(d.od)
     IN  \/ /\ i = -1
            /\ UNCHANGED <<clients, acki, wydruk, powtorzone>>
         \/ /\ i # -1
            /\ Przyszla(d, i) \/ Kolejna(d, i) \/ Duplikat(d, i)
  /\ dane' \in {dane, dane \ {d}}
  /\ UNCHANGED klient

-----------------------------------------------------------------------------
(* The network loses a datagram. *)
Zgub ==
  /\ \/ \E d \in dane : dane' = dane \ {d} /\ UNCHANGED acki
     \/ \E a \in acki : acki' = acki \ {a} /\ UNCHANGED dane
  /\ UNCHANGED <<klient, clients, wydruk, powtorzone>>

KrokKlienta(c) == Wyslij(c) \/ Budzik(c) \/ \E a \in acki : OdbierzAck(c, a)

Next ==
  \/ \E c \in Klienci : KrokKlienta(c)
  \/ \E d \in dane : server_work(d)
  \/ Zgub

Spec == Init /\ [][Next]_vars

(* A client that can send, or whose timer is running, goes on; nothing is
   promised of the network or the server. *)
FairSpec == Spec /\ \A c \in Klienci : WF_vars(Wyslij(c)) /\ WF_vars(Budzik(c))

-----------------------------------------------------------------------------
(* Types.  The bound of counter is what client.c does, with counter + 1 before
   the attempt and <= PROBY after it; it is one more than the documents say
   (NajwyzejPROBYProb, below, does not hold). *)
TypeOK ==
  /\ faza \in [Klienci -> {"wyslij", "recv", "sukces", "porazka"}]
  /\ chunkNo \in [Klienci -> Nat \ {0}]
  /\ counter \in [Klienci -> 0..(PROBY + 1)]
  /\ budzik \in [Klienci -> BOOLEAN]
  /\ clients \in [Sloty -> [clientAddr : Klienci \cup {Nikt}, chunkNo : Nat]]
  /\ dane \in SUBSET Dane
  /\ acki \in SUBSET Ack
  /\ wydruk \in [Klienci -> SUBSET (Nat \ {0})]
  /\ powtorzone \in [Klienci -> SUBSET (Nat \ {0})]

(* No client ever holds two slots, whichever slots were freed around its own
   (findIndex must look behind the free slots it meets first). *)
JedenSlot ==
  \A i, j \in Sloty :
    (clients[i].clientAddr # Nikt /\ clients[i].clientAddr = clients[j].clientAddr)
      => i = j

(* As long as the last chunk of a file has not been shown, no chunk of it has
   been shown twice, whatever was retransmitted or duplicated. *)
BezPowtorzenPrzedKoncem ==
  \A c \in Klienci : Paczki[c] \notin wydruk[c] => powtorzone[c] = {}

(* The transfer as its user sees it. *)
Stan == [c \in Klienci |-> IF faza[c] \in {"sukces", "porazka"} THEN faza[c] ELSE "trwa"]
Potwierdzone == [c \in Klienci |-> IF faza[c] = "sukces" THEN Paczki[c] ELSE chunkNo[c] - 1]

FT == INSTANCE FileTransfer WITH potwierdzone <- Potwierdzone, stan <- Stan

(* client_work and server_work over this network implement FileTransfer:
   chunks are shown in order, and a client passes a chunk, or ends with
   success, only after it was shown. *)
RealizujeTransfer == FT!Spec

(* Every client ends: with its last chunk confirmed, or by giving up after
   all its attempts, however many.  (Zwloka = FALSE.) *)
KlientKonczy == \A c \in Klienci : <>(faza[c] \in {"sukces", "porazka"})

-----------------------------------------------------------------------------
(* What dane.txt says of the programs and they do not do. *)

(* dane.txt, line 7: "Maksymalna liczba prób wynosi 5"; client.c, line 75: "Pętla
   powtarza się maksymalnie 5 razy"; line 81: "po 5 próbach".  An answer that
   does not come, or is late, makes client_work send a chunk once more. *)
NajwyzejPROBYProb == \A c \in Klienci : counter[c] <= PROBY

(* dane.txt, line 9: the server ignores duplicates of datagrams. *)
DuplikatyIgnorowane == \A c \in Klienci : powtorzone[c] = {}
=============================================================================
