------------------------------ MODULE Sockets ------------------------------
(***************************************************************************)
(* The stream socket servers with their clients.  A behaviour runs the one *)
(* that Init chooses; the variables of the others hold Brak.               *)
(***************************************************************************)
EXTENDS Integers, Sequences, FiniteSetsExt

CONSTANTS
  Programy,                                          \* the programs Init may choose
  KlienciKalk, GniazdoKalk, ZadaniaKalk, POLSLOWA,   \* of the calculator
  KlienciSumy, GniazdoSumy, Cyfry,                   \* of the PID sum server
  MaxZabic,                                          \* of both: bound on clients killed
  Fds, Elektorzy, Kandydaci, MaxLinii                \* of the vote server

VARIABLES
  program, kolejka, serwer, zdarzenia, do_work, pc, odebrane, zabici,
  klient, data, size, sigint, zadanie, nadane,
  epoll, max_sum, bufor,
  oczekujacy, otwarte, strumien, stan, client_elector_id, connected_electors, elector_votes

kalkulatorVars == <<klient, data, size, sigint, zadanie, nadane>>
sumaVars == <<epoll, max_sum, bufor>>
wspolne == <<kolejka, zdarzenia, do_work, pc, odebrane, zabici>>
glosyVars == <<oczekujacy, otwarte, strumien, stan, client_elector_id, connected_electors, elector_votes>>
vars == <<program, serwer, wspolne, kalkulatorVars, sumaVars, glosyVars>>

Brak == "-"

C == INSTANCE Calculator WITH Klienci <- KlienciKalk, Gniazdo <- GniazdoKalk, Zadania <- ZadaniaKalk

S == INSTANCE PidSum WITH Klienci <- KlienciSumy, Gniazdo <- GniazdoSumy

E == INSTANCE ElectorServer

(* A client asks with three words; a word has two equal halves of at least
   one bit each. *)
ASSUME KalkulatorStaly ==
  /\ POLSLOWA \in Nat /\ POLSLOWA >= 2 /\ POLSLOWA % 2 = 0
  /\ GniazdoKalk \in [KlienciKalk -> {"local", "tcp"}]
  /\ \A k \in KlienciKalk : \A z \in ZadaniaKalk[k] :
       z.op1 \in C!MIN..C!MAX /\ z.op2 \in C!MIN..C!MAX /\ z.op \in C!MIN..C!MAX

(* A PID has at least one digit. *)
ASSUME PidyStale ==
  \A k \in KlienciSumy : Cyfry[k] \in Seq(0..9) /\ Cyfry[k] # <<>>

(* Descriptors, electors and candidates are positive numbers: 0 in a table
   means none. *)
ASSUME GlosyStale ==
  /\ Fds \subseteq Nat \ {0} /\ Elektorzy \subseteq Nat \ {0} /\ Kandydaci \subseteq Nat \ {0}
  /\ MaxLinii \in Nat

BezKalkulatora ==
  klient = Brak /\ data = Brak /\ size = Brak /\ sigint = Brak /\ zadanie = Brak /\ nadane = Brak
BezSumy == epoll = Brak /\ max_sum = Brak /\ bufor = Brak
BezGlosow ==
  /\ oczekujacy = Brak /\ otwarte = Brak /\ strumien = Brak /\ stan = Brak
  /\ client_elector_id = Brak /\ connected_electors = Brak /\ elector_votes = Brak
BezWspolnych ==
  /\ kolejka = Brak /\ zdarzenia = Brak /\ do_work = Brak
  /\ pc = Brak /\ odebrane = Brak /\ zabici = Brak

Init ==
  /\ program \in Programy
  /\ \/ program = "kalkulator" /\ C!Init /\ BezSumy /\ BezGlosow
     \/ program = "suma" /\ S!Init /\ BezKalkulatora /\ BezGlosow
     \/ program = "glosy" /\ E!Init /\ BezWspolnych /\ BezKalkulatora /\ BezSumy

PozaKalkulatorem == UNCHANGED <<program, sumaVars, glosyVars>>
PozaSuma == UNCHANGED <<program, kalkulatorVars, glosyVars>>
PozaGlosami == UNCHANGED <<program, wspolne, kalkulatorVars, sumaVars>>

Next ==
  \/ program = "kalkulator" /\ C!Next /\ PozaKalkulatorem
  \/ program = "suma" /\ S!Next /\ PozaSuma
  \/ program = "glosy" /\ E!Next /\ PozaGlosami

\* The servers run when they can, the loop over events[] serves every
\* descriptor, and the clients of the first two go on; nobody has to press
\* Ctrl+C or to kill a client, and electors owe nothing.
Fairness ==
  /\ WF_vars(program = "kalkulator" /\ C!Serwer /\ PozaKalkulatorem)
  /\ \A k \in KlienciKalk : WF_vars(program = "kalkulator" /\ C!Klient(k) /\ PozaKalkulatorem)
  /\ WF_vars(program = "suma" /\ S!Serwer /\ PozaSuma)
  /\ \A k \in KlienciSumy : WF_vars(program = "suma" /\ S!Klient(k) /\ PozaSuma)
  /\ \A f \in Fds : WF_vars(program = "glosy" /\ E!Obsluz(f) /\ PozaGlosami)

Spec == Init /\ [][Next]_vars /\ Fairness
----------------------------------------------------------------------------
\* Calculator: an answer repeats the request of the very client that gets
\* it, whether it arrived in one segment or two, and although the buffer
\* still holds what a client that died half-way had sent.
OdpowiedzWlasna == program = "kalkulator" => \A k \in KlienciKalk : pc[k] = "koniec" =>
  LET a == C!print_answer(k) IN
  /\ a.op1 = zadanie[k].op1 /\ a.op2 = zadanie[k].op2 /\ a.op = zadanie[k].op
  /\ a.ok <=> a.op \in {C!Plus, C!Minus, C!Razy} \/ (a.op = C!Dziel /\ a.op2 # 0)

\* Calculator: the result is right modulo the word, and a quotient is the one
\* of division towards zero: its remainder is smaller than the divisor and
\* has the sign of the dividend.
KalkulatorLiczy == program = "kalkulator" => \A k \in KlienciKalk :
  pc[k] = "koniec" /\ C!print_answer(k).ok =>
    LET a == C!print_answer(k)
        reszta == a.op1 - a.wynik * a.op2
        Modul(x) == IF x < 0 THEN -x ELSE x
    IN  /\ a.wynik \in C!MIN..C!MAX
        /\ a.op = C!Plus => (a.wynik - a.op1 - a.op2) % C!SLOWO = 0
        /\ a.op = C!Minus => (a.wynik - a.op1 + a.op2) % C!SLOWO = 0
        /\ a.op = C!Razy => (a.wynik - a.op1 * a.op2) % C!SLOWO = 0
        /\ a.op = C!Dziel => Modul(reszta) < Modul(a.op2) /\ reszta * a.op1 >= 0

\* Calculator: SIGINT, blocked but in the wait, is never lost: the server
\* ends (if not before, of the one division that does not fit in a word),
\* and every client comes to its end, with an answer or with an error.
SigintKonczy == (program = "kalkulator" /\ sigint) ~>
  (program = "kalkulator" /\ ~C!SerwerZyje /\ \A k \in KlienciKalk : pc[k] \in {"koniec", "err", "zabity"})

\* PID sum: a client prints the digit sum of its own PID.
SumaWlasna == program = "suma" => \A k \in KlienciSumy :
  pc[k] = "wypisal" => S!SUM(k) = S!calculate_digit_sum(Cyfry[k])

\* PID sum: HIGH SUM is the largest of the sums sent, to clients that have
\* died in the meantime too.
HighSum == program = "suma" =>
  max_sum = Max({0} \union {S!calculate_digit_sum(Cyfry[k]) : k \in {l \in KlienciSumy : odebrane[l] # -1}})

\* PID sum: a client that has connected is not forgotten between accept and
\* epoll: it prints a sum, or an error after the server has gone.
KlientSumyKonczy == \A k \in KlienciSumy :
  (program = "suma" /\ pc[k] \in {"write", "read"}) ~> (program = "suma" /\ pc[k] \in {"wypisal", "err", "zabity"})

\* PID sum: once SIGINT has come, the server ends with the next event (the
\* wait itself is not cut off).
SumaKonczy == (program = "suma" /\ ~do_work /\ (serwer = "epoll" => S!Gotowe # {})) ~>
  (program = "suma" /\ serwer = "koniec")

\* Calculator: every client gets the answer to its own request, and it is
\* right in the width of a word.
OdpowiedzDobra == OdpowiedzWlasna /\ KalkulatorLiczy

\* PID sum: every client gets the sum of its own PID, and the server keeps
\* the largest one.
SumyDobre == SumaWlasna /\ HighSum

\* Vote server: types.  The indices the code uses in its arrays are within
\* them, and a vote is for a candidate.
TypeOK == program = "glosy" => E!TypeOK

\* Vote server: the two tables are inverse to each other and speak of open
\* connections only: one connection per elector, and a reused descriptor
\* never inherits the identity of the connection that had it before.
TabliceZgodne == program = "glosy" => E!TabliceZgodne

\* Vote server: once its connection is closed or gone, an elector's place
\* becomes free again, unless the server goes down.
MiejsceSieZwalnia == \A e \in Elektorzy, f \in Fds :
  (program = "glosy" /\ connected_electors[e] = f /\ stan[f] # "otwarty") ~>
  (program = "glosy" /\ (connected_electors[e] # f \/ serwer = "padl"))

\* SIGINT ends the first two servers, and clients come to their ends with them or
\* without.
KoniecUslugi == SigintKonczy /\ KlientSumyKonczy /\ SumaKonczy
=============================================================================
