----------------------------- MODULE Calculator -----------------------------
(***************************************************************************)
(* lab_7/zadanie1: the calculator server on a local and a TCP socket and   *)
(* its clients.  A request is five words in network order: two operands, a *)
(* place for the result, the operation and a status; the server fills in   *)
(* result and status and sends the five words back.  Network order swaps   *)
(* the two halves of a word; the code's words have 32 bits, halves of 16.  *)
(***************************************************************************)
EXTENDS Integers, Sequences, FiniteSets

CONSTANTS Klienci, Gniazdo,   \* Gniazdo[k]: the listening socket client k connects to
          Zadania,            \* Zadania[k]: requests [op1, op2, op] it may send
          POLSLOWA,           \* values of half a word (2^16 in the code)
          MaxZabic            \* bound: clients killed from outside

VARIABLES
  kolejka,             \* connections waiting on each socket
  serwer, zdarzenia,   \* the server: place, events still to handle
  klient, data, size,  \* the client it serves, its buffer, words read
  do_work, sigint,     \* SIGINT pending
  pc, zadanie,
  nadane, odebrane,    \* words of k's request that have arrived, and k's answer
  zabici

vars == <<kolejka, serwer, zdarzenia, klient, data, size, do_work, sigint, pc, zadanie, nadane, odebrane, zabici>>
klienci == <<pc, zadanie, nadane, zabici>>

\* The listening sockets, as bind_local_socket and bind_tcp_socket leave them;
\* all that is kept of one is its queue of connections.
Gniazda == {"local", "tcp"}

\* Values of a word, and its range MIN..MAX.
SLOWO == POLSLOWA * POLSLOWA
MAX == SLOWO \div 2 - 1
MIN == -(SLOWO \div 2)

\* The sockets are bound and listen.
Init ==
  /\ kolejka = [g \in Gniazda |-> <<>>] /\ serwer = "while" /\ zdarzenia = {}
  /\ klient = "-" /\ data = <<0, 0, 0, 0, 0>> /\ size = 0 /\ do_work = TRUE /\ sigint = FALSE
  /\ pc = [k \in Klienci |-> "connect"] /\ zadanie \in [Klienci -> UNION {Zadania[k] : k \in Klienci}]
  /\ \A k \in Klienci : zadanie[k] \in Zadania[k]
  /\ nadane = [k \in Klienci |-> 0] /\ odebrane = [k \in Klienci |-> <<>>] /\ zabici = {}

\* Conversion between signed host words and network words (0..SLOWO - 1).
Zamien(u) == (u % POLSLOWA) * POLSLOWA + (u \div POLSLOWA)

htonl(x) == Zamien(x % SLOWO)
ntohl(u) == LET h == Zamien(u) IN IF h > MAX THEN h - SLOWO ELSE h

\* A sum, difference or product as the build computes it (it wraps).
Zawin(x) == ((x - MIN) % SLOWO) + MIN

\* Mutant: the quotient is rounded down.
IlorazWDol(a, b) == IF b > 0 THEN a \div b ELSE (-a) \div (-b)

\* Division of C, towards zero.
Iloraz(a, b) ==
  LET m(x) == IF x < 0 THEN -x ELSE x
      q == m(a) \div m(b)
  IN  IF (a < 0) = (b < 0) THEN q ELSE -q

Plus == 1
Minus == 2
Razy == 3
Dziel == 4

calculate(d) ==
  LET op1 == ntohl(d[1])
      op2 == ntohl(d[2])
      op == ntohl(d[4])
      ok == op \in {Plus, Minus, Razy} \/ (op = Dziel /\ op2 # 0)
      result == CASE op = Plus -> Zawin(op1 + op2) [] op = Minus -> Zawin(op1 - op2)
                  [] op = Razy -> Zawin(op1 * op2) [] op = Dziel /\ op2 # 0 -> Iloraz(op1, op2)
                  [] OTHER -> -1
  IN  [d EXCEPT ![5] = htonl(IF ok THEN 1 ELSE 0), ![3] = htonl(result)]

\* The quotient that does not fit in a word: the division raises SIGFPE.
Wyjatek(d) == ntohl(d[4]) = Dziel /\ ntohl(d[1]) = MIN /\ ntohl(d[2]) = -1

prepare_request(z) == <<htonl(z.op1), htonl(z.op2), htonl(0), htonl(z.op), htonl(1)>>
----------------------------------------------------------------------------
CtrlC ==
  /\ ~sigint /\ do_work /\ sigint' = TRUE
  /\ UNCHANGED <<kolejka, serwer, zdarzenia, klient, data, size, do_work, odebrane, klienci>>

\* Mutant: SIGINT stays blocked during the wait.
MaskaCzekaniaPelna == FALSE

\* epoll_pwait waits with the old mask, in which SIGINT is not blocked.
MaskaCzekania == TRUE

\* Nothing but the wait is interrupted, and only when there is no event to
\* return; SIGINT during the service of a client is taken at such a wait.
Czekaj ==
  /\ \/ serwer = "while" /\ serwer' = (IF do_work THEN "epoll" ELSE "koniec") /\ UNCHANGED <<zdarzenia, do_work, sigint>>
     \/ /\ serwer = "epoll" /\ (\A g \in Gniazda : kolejka[g] = <<>>)
        /\ sigint /\ MaskaCzekania /\ sigint' = FALSE /\ do_work' = FALSE
        /\ serwer' = "while" /\ UNCHANGED zdarzenia
     \/ /\ serwer = "epoll"
        /\ zdarzenia' = {g \in Gniazda : kolejka[g] # <<>>} /\ zdarzenia' # {}
        /\ serwer' = "accept" /\ UNCHANGED <<do_work, sigint>>
  /\ UNCHANGED <<kolejka, klient, data, size, odebrane, klienci>>

add_new_client ==
  /\ serwer = "accept"
  /\ \/ /\ zdarzenia = {} /\ serwer' = "while" /\ UNCHANGED <<kolejka, zdarzenia, klient, size>>
     \/ \E g \in zdarzenia :
          /\ zdarzenia' = zdarzenia \ {g} /\ klient' = Head(kolejka[g])
          /\ kolejka' = [kolejka EXCEPT ![g] = Tail(@)] /\ serwer' = "read" /\ size' = 0
  /\ UNCHANGED <<data, do_work, sigint, odebrane, klienci>>

\* Mutant: one read only, however little it brings.
PelneRaz == size > 0

\* bulk_read has what it was asked for.
Pelne == size = 5

\* bulk_read: words as they arrive, until five or the end of the connection.
bulk_read ==
  /\ serwer = "read"
  /\ \/ /\ ~Pelne /\ nadane[klient] > size /\ size' = nadane[klient]
        /\ data' = [w \in 1..5 |-> IF w \in (size + 1)..nadane[klient]
                                   THEN prepare_request(zadanie[klient])[w] ELSE data[w]]
        /\ UNCHANGED serwer
     \/ /\ Pelne \/ (nadane[klient] = size /\ klient \in zabici)
        /\ serwer' = (IF size = 5 /\ Wyjatek(data) THEN "sigfpe" ELSE "write")
        /\ data' = (IF size = 5 /\ ~Wyjatek(data) THEN calculate(data) ELSE data) /\ UNCHANGED size
  /\ UNCHANGED <<kolejka, zdarzenia, klient, do_work, sigint, odebrane, klienci>>

\* bulk_write and close; a client that is gone costs EPIPE, which is ignored.
Odpowiedz ==
  /\ serwer = "write" /\ serwer' = "accept" /\ klient' = "-" /\ size' = 0
  /\ odebrane' = [odebrane EXCEPT ![klient] = data]
  /\ UNCHANGED <<kolejka, zdarzenia, data, do_work, sigint, klienci>>

Serwer == Czekaj \/ add_new_client \/ bulk_read \/ Odpowiedz
SerwerZyje == serwer \notin {"koniec", "sigfpe"}

Idz(k, x) == pc' = [pc EXCEPT ![k] = x]

\* connect_tcp_socket or connect_local_socket.
Polacz(k) ==
  /\ pc[k] = "connect" /\ SerwerZyje /\ Idz(k, "pisz")
  /\ kolejka' = [kolejka EXCEPT ![Gniazdo[k]] = Append(@, k)] /\ UNCHANGED nadane

\* bulk_write of the request, which travels in one segment or in two.
Poslij(k) ==
  /\ pc[k] = "pisz" /\ UNCHANGED kolejka
  /\ \/ /\ SerwerZyje /\ nadane[k] < 5
        /\ \E w \in {2, 5} : w > nadane[k] /\ nadane' = [nadane EXCEPT ![k] = w]
        /\ UNCHANGED pc
     \/ nadane[k] = 5 /\ Idz(k, "czeka") /\ UNCHANGED nadane

\* bulk_read of the answer.
OdbierzOdpowiedz(k) ==
  /\ pc[k] = "czeka" /\ odebrane[k] # <<>> /\ Idz(k, "koniec")
  /\ UNCHANGED <<kolejka, nadane>>

\* A client; when the server has gone, connect, write or read is an error.
Klient(k) ==
  /\ \/ Polacz(k) \/ Poslij(k) \/ OdbierzOdpowiedz(k)
     \/ /\ pc[k] \in {"connect", "pisz"} \/ (pc[k] = "czeka" /\ odebrane[k] = <<>>)
        /\ ~SerwerZyje /\ Idz(k, "err") /\ UNCHANGED <<kolejka, nadane>>
  /\ UNCHANGED <<serwer, zdarzenia, klient, data, size, do_work, sigint, zadanie, odebrane, zabici>>

\* A client is killed; what it has sent still arrives.
Zabij(k) ==
  /\ pc[k] \in {"pisz", "czeka"} /\ Cardinality(zabici) < MaxZabic
  /\ zabici' = zabici \union {k} /\ Idz(k, "zabity")
  /\ UNCHANGED <<kolejka, serwer, zdarzenia, klient, data, size, do_work, sigint, zadanie, nadane, odebrane>>

Next == CtrlC \/ Serwer \/ \E k \in Klienci : Klient(k) \/ Zabij(k)
----------------------------------------------------------------------------
\* What the client prints: its operands, the operation and the result, or
\* "Operation impossible".
print_answer(k) ==
  LET d == odebrane[k] IN
  [op1 |-> ntohl(d[1]), op2 |-> ntohl(d[2]), op |-> ntohl(d[4]), ok |-> ntohl(d[5]) = 1, wynik |-> ntohl(d[3])]
=============================================================================
