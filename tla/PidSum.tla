------------------------------- MODULE PidSum -------------------------------
(***************************************************************************)
(* zadania_7/zadanie_1: a client sends its PID as text, the server answers *)
(* with the sum of its digits (16 bits, network order), closes the         *)
(* connection and keeps the largest sum for its farewell.                  *)
(***************************************************************************)
EXTENDS Integers, Sequences, FiniteSets, SequencesExt

CONSTANTS Klienci, Cyfry,   \* Cyfry[k]: the digits of client k's PID
          Gniazdo,          \* the listening socket it connects to
          MaxZabic          \* bound: clients killed from outside

VARIABLES
  kolejka, epoll,          \* connections waiting on a socket, and the clients epoll watches
  serwer, zdarzenia,       \* the server: place, events still to handle
  do_work, max_sum,
  pc, bufor, odebrane,     \* clients; text sent to the server, answer sent back
  zabici

vars == <<kolejka, epoll, serwer, zdarzenia, do_work, max_sum, pc, bufor, odebrane, zabici>>

\* The listening sockets, as bind_local_socket and bind_tcp_port leave them;
\* all that is kept of one is its queue of connections.
Gniazda == {"local", "tcp"}

Init ==
  /\ kolejka = [g \in Gniazda |-> <<>>] /\ epoll = {} /\ serwer = "while" /\ zdarzenia = {}
  /\ do_work = TRUE /\ max_sum = 0
  /\ pc = [k \in Klienci |-> "connect"] /\ bufor = [k \in Klienci |-> <<>>]
  /\ odebrane = [k \in Klienci |-> -1] /\ zabici = {}

calculate_digit_sum(str) == FoldSeq(+, 0, str) % 65536

\* Mutant: the bytes are left in the order of the host.
htonsBez(x) == x

\* The two bytes of x in the other order (htons on this host; ntohs is the same).
htons(x) == (x % 256) * 256 + (x \div 256)
ntohs(x) == (x % 256) * 256 + (x \div 256)

\* SIGINT only clears the flag: TEMP_FAILURE_RETRY starts epoll_wait again,
\* and the branch for EINTR is never taken.
sigint_handler ==
  /\ do_work /\ do_work' = FALSE
  /\ UNCHANGED <<kolejka, epoll, serwer, zdarzenia, max_sum, pc, bufor, odebrane, zabici>>

\* What epoll_wait reports: sockets with a connection, clients with text or gone.
Gotowe == {g \in Gniazda : kolejka[g] # <<>>}
            \union {k \in epoll : bufor[k] # <<>> \/ k \in zabici}

\* Mutant: the loop does not look at the flag.
WarunekPetliZawsze == TRUE

WarunekPetli == do_work

Czekaj ==
  /\ \/ serwer = "while" /\ serwer' = (IF WarunekPetli THEN "epoll" ELSE "koniec") /\ UNCHANGED zdarzenia
     \/ serwer = "epoll" /\ Gotowe # {} /\ zdarzenia' = Gotowe /\ serwer' = "for"
     \/ serwer = "for" /\ zdarzenia = {} /\ serwer' = "while" /\ UNCHANGED zdarzenia
  /\ UNCHANGED <<kolejka, epoll, do_work, max_sum, pc, bufor, odebrane, zabici>>

\* Mutant: the new connection is not added to epoll.
EpollDodajNic(k) == UNCHANGED epoll

EpollDodaj(k) == epoll' = epoll \union {k}

NowePolaczenie(g) ==
  /\ serwer = "for" /\ g \in zdarzenia \intersect Gniazda /\ zdarzenia' = zdarzenia \ {g}
  /\ EpollDodaj(Head(kolejka[g]))
  /\ kolejka' = [kolejka EXCEPT ![g] = Tail(@)]
  /\ UNCHANGED <<serwer, do_work, max_sum, pc, bufor, odebrane, zabici>>

\* Mutant: the last sum instead of the largest.
WiekszaOstatnia(sum) == sum

Wieksza(sum) == IF sum > max_sum THEN sum ELSE max_sum

\* One read, the answer (a client that is gone does not matter), close.
StaryKlient(k) ==
  /\ serwer = "for" /\ k \in zdarzenia \intersect Klienci /\ zdarzenia' = zdarzenia \ {k}
  /\ IF bufor[k] # <<>>
     THEN LET sum == calculate_digit_sum(bufor[k]) IN
          /\ max_sum' = Wieksza(sum) /\ odebrane' = [odebrane EXCEPT ![k] = htons(sum)]
          /\ bufor' = [bufor EXCEPT ![k] = <<>>]
     ELSE UNCHANGED <<max_sum, odebrane, bufor>>
  /\ epoll' = epoll \ {k}
  /\ UNCHANGED <<kolejka, serwer, do_work, pc, zabici>>

Serwer == Czekaj \/ (\E g \in Gniazda : NowePolaczenie(g)) \/ \E k \in Klienci : StaryKlient(k)

Idz(k, x) == pc' = [pc EXCEPT ![k] = x]

\* A client; without the server its connect, write or read fails, and an
\* empty answer is reported as incomplete.
Klient(k) ==
  /\ \/ /\ pc[k] = "connect" /\ serwer # "koniec" /\ Idz(k, "write")
        /\ kolejka' = [kolejka EXCEPT ![Gniazdo[k]] = Append(@, k)] /\ UNCHANGED bufor
     \/ /\ pc[k] = "write" /\ serwer # "koniec" /\ Idz(k, "read")
        /\ bufor' = [bufor EXCEPT ![k] = Cyfry[k]] /\ UNCHANGED kolejka
     \/ pc[k] = "read" /\ odebrane[k] # -1 /\ Idz(k, "wypisal") /\ UNCHANGED <<kolejka, bufor>>
     \/ /\ pc[k] \in {"connect", "write", "read"} /\ serwer = "koniec" /\ odebrane[k] = -1
        /\ Idz(k, "err") /\ UNCHANGED <<kolejka, bufor>>
  /\ UNCHANGED <<epoll, serwer, zdarzenia, do_work, max_sum, odebrane, zabici>>

Zabij(k) ==
  /\ pc[k] \in {"write", "read"} /\ Cardinality(zabici) < MaxZabic
  /\ zabici' = zabici \union {k} /\ Idz(k, "zabity")
  /\ UNCHANGED <<kolejka, epoll, serwer, zdarzenia, do_work, max_sum, bufor, odebrane>>

Next == sigint_handler \/ Serwer \/ \E k \in Klienci : Klient(k) \/ Zabij(k)
----------------------------------------------------------------------------
\* The sum a client prints.
SUM(k) == ntohs(odebrane[k])
=============================================================================
