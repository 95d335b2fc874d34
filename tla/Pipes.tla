------------------------------- MODULE Pipes -------------------------------
(***************************************************************************)
(* The programs whose processes talk through pipes and FIFOs.  A behaviour *)
(* runs the one that Init chooses; the variables of the others hold Brak.  *)
(***************************************************************************)
EXTENDS Integers, Sequences, Functions, FiniteSetsExt

CONSTANTS
  Klienci, MaxBlokow, POJEMNOSC,               \* of the FIFO transfer
  N, Dlugosci, MaxSigint,                      \* of the letters
  Losowe, MaxLiczba,                           \* of the number ring
  LiczbaGraczy, LiczbaKart, MaxZabic,          \* of the cards
  LiczbaWezlow, Siec, TTL, SCIEZKA, MaxZiemniakow   \* of the potato

VARIABLES
  program, pc, serwer, rodzic, i, sig,
  plik, fifo, pisarze, rozmiar, nr, wypisane, spoznieni,
  wariant, P, otwarta, R, sigint_received, ile, wiadomosc, odebrano, sigchld, ileSigint,
  rura, running, number, sigint,
  SP, PS, zamkniete, odwiedzone_karty, r, rzucone_karty, max_points, zwyciezcy, sum_points, zabici,
  rury, raport, msg, zebrane, wyslij_wiadomosc, dziala_program, wyslane, trasa

plikVars == <<plik, fifo, pisarze, rozmiar, nr, wypisane, spoznieni>>
literkiVars == <<wariant, P, otwarta, R, sigint_received, ile, wiadomosc, odebrano, sigchld, ileSigint>>
liczbyVars == <<rura, running, number, sigint>>
kartyVars == <<SP, PS, zamkniete, odwiedzone_karty, r, rzucone_karty, max_points, zwyciezcy, sum_points, zabici>>
ziemniakVars == <<rury, raport, msg, zebrane, wyslij_wiadomosc, dziala_program, wyslane, trasa>>
vars == <<program, pc, serwer, rodzic, i, sig, plikVars, literkiVars, liczbyVars, kartyVars, ziemniakVars>>

Brak == "-"

F == INSTANCE FifoTransfer
L == INSTANCE LetterPipes
Z == INSTANCE NumberRing
K == INSTANCE CardGame WITH n <- LiczbaGraczy, m <- LiczbaKart
H == INSTANCE HotPotato WITH n <- LiczbaWezlow, sasiedzi <- Siec

(* A file has at most MaxBlokow blocks, and the FIFO has room for one. *)
ASSUME PlikiStale == MaxBlokow \in Nat /\ POJEMNOSC \in Nat

(* The argument of both programs is positive; a text has at least one letter. *)
ASSUME LiterkiStale == N \in Nat \ {0} /\ Dlugosci \subseteq Nat \ {0}

(* Amounts that are added are integers. *)
ASSUME LiczbyStale == Losowe \subseteq Int /\ MaxLiczba \in Nat

(* There are players and rounds. *)
ASSUME KartyStale == LiczbaGraczy \in Nat \ {0} /\ LiczbaKart \in Nat \ {0}

(* The rows of the matrix name nodes; path has room for a message that is
   handed on until its ttl is used up. *)
ASSUME SiecStala ==
  /\ LiczbaWezlow \in Nat /\ Siec \in [H!Wezly -> SUBSET H!Wezly]
  /\ TTL \in Nat \ {0} /\ SCIEZKA \in Nat /\ TTL <= SCIEZKA

BezPliku ==
  /\ plik = Brak /\ fifo = Brak /\ pisarze = Brak /\ rozmiar = Brak
  /\ nr = Brak /\ wypisane = Brak /\ spoznieni = Brak
BezLiterek ==
  /\ wariant = Brak /\ P = Brak /\ otwarta = Brak /\ R = Brak
  /\ sigint_received = Brak /\ ile = Brak /\ wiadomosc = Brak /\ odebrano = Brak
  /\ sigchld = Brak /\ ileSigint = Brak
BezLiczb ==
  /\ rura = Brak /\ running = Brak /\ number = Brak /\ sigint = Brak
BezKart ==
  /\ SP = Brak /\ PS = Brak /\ zamkniete = Brak /\ odwiedzone_karty = Brak
  /\ r = Brak /\ rzucone_karty = Brak /\ max_points = Brak
  /\ zwyciezcy = Brak /\ sum_points = Brak /\ zabici = Brak
BezZiemniaka ==
  /\ rury = Brak /\ raport = Brak /\ msg = Brak /\ zebrane = Brak
  /\ wyslij_wiadomosc = Brak /\ dziala_program = Brak /\ wyslane = Brak /\ trasa = Brak

Init ==
  \/ /\ program = "plik" /\ F!Init /\ rodzic = Brak /\ i = Brak /\ sig = Brak
     /\ BezLiterek /\ BezLiczb /\ BezKart /\ BezZiemniaka
  \/ /\ program = "literki" /\ L!Init /\ serwer = Brak /\ i = Brak
     /\ BezPliku /\ BezLiczb /\ BezKart /\ BezZiemniaka
  \/ /\ program = "liczby" /\ Z!Init /\ serwer = Brak /\ rodzic = Brak /\ i = Brak /\ sig = Brak
     /\ BezPliku /\ BezLiterek /\ BezKart /\ BezZiemniaka
  \/ /\ program = "karty" /\ K!Init /\ rodzic = Brak /\ sig = Brak
     /\ BezPliku /\ BezLiterek /\ BezLiczb /\ BezZiemniaka
  \/ /\ program = "ziemniak" /\ H!Init /\ serwer = Brak
     /\ BezPliku /\ BezLiterek /\ BezLiczb /\ BezKart

PozaPlikiem == UNCHANGED <<program, rodzic, i, sig, literkiVars, liczbyVars, kartyVars, ziemniakVars>>
PozaLiterkami == UNCHANGED <<program, serwer, i, plikVars, liczbyVars, kartyVars, ziemniakVars>>
PozaLiczbami == UNCHANGED <<program, serwer, rodzic, i, sig, plikVars, literkiVars, kartyVars, ziemniakVars>>
PozaKartami == UNCHANGED <<program, rodzic, sig, plikVars, literkiVars, liczbyVars, ziemniakVars>>
PozaZiemniakiem == UNCHANGED <<program, serwer, plikVars, literkiVars, liczbyVars, kartyVars>>

Next ==
  \/ program = "plik" /\ F!Next /\ PozaPlikiem
  \/ program = "literki" /\ L!Next /\ PozaLiterkami
  \/ program = "liczby" /\ Z!Next /\ PozaLiczbami
  \/ program = "karty" /\ K!Next /\ PozaKartami
  \/ program = "ziemniak" /\ H!Next /\ PozaZiemniakiem

\* Every process that can run is scheduled and every signal sent is
\* delivered.  Nobody has to press Ctrl+C or to kill a process.
Fairness ==
  /\ WF_vars(program = "plik" /\ F!Serwer /\ PozaPlikiem)
  /\ \A k \in Klienci : WF_vars(program = "plik" /\ F!Klient(k) /\ PozaPlikiem)
  /\ WF_vars(program = "literki" /\ (L!Rodzic1 \/ L!Rodzic2) /\ PozaLiterkami)
  /\ WF_vars(program = "literki" /\ L!Sygnaly /\ PozaLiterkami)
  /\ \A k \in L!Dzieci : WF_vars(program = "literki" /\ L!Dziecko(k) /\ PozaLiterkami)
  /\ WF_vars(program = "liczby" /\ Z!Czekaj /\ PozaLiczbami)
  /\ \A p \in Z!Procesy :
       /\ WF_vars(program = "liczby" /\ Z!Krok(p) /\ PozaLiczbami)
       /\ WF_vars(program = "liczby" /\ Z!sigint_handler(p) /\ PozaLiczbami)
  /\ WF_vars(program = "karty" /\ K!Serwer /\ PozaKartami)
  /\ \A k \in K!Gracze : WF_vars(program = "karty" /\ K!player(k) /\ PozaKartami)
  /\ WF_vars(program = "ziemniak" /\ (H!Petla \/ H!Sprzataj) /\ PozaZiemniakiem)
  /\ \A k \in H!Wezly :
       /\ WF_vars(program = "ziemniak" /\ H!Wezel(k) /\ PozaZiemniakiem)
       /\ WF_vars(program = "ziemniak" /\ H!Zgin(k) /\ PozaZiemniakiem)

Spec == Init /\ [][Next]_vars /\ Fairness
----------------------------------------------------------------------------
\* FIFO transfer: everything a client has sent is printed, or in the FIFO
\* while the server has it open, in the order of its file, however the
\* blocks of several clients alternate; only a client that opens the FIFO
\* when the server has already seen end of file can lose blocks.
PlikiWCalosci == program = "plik" => \A k \in Klienci \ spoznieni :
  F!WCalosci(k, IF serwer \in {"unlink", "koniec"} THEN wypisane ELSE wypisane \o fifo, nr[k])

\* FIFO transfer: a server that one client has reached comes to its end and
\* has by then printed the whole file of every client it did not miss.
SerwerOdbierze == (program = "plik" /\ serwer = "read") ~>
  /\ program = "plik" /\ serwer = "koniec"
  /\ \A k \in Klienci \ spoznieni : pc[k] = "koniec" => F!WCalosci(k, wypisane, rozmiar[k])

\* Letters: the text the parent prints is exactly as long as announced and
\* has no length byte in it, whichever children answer at the same time or
\* die; with zad_2_1 the parent ends only with all the letters.
RamkiCale == program = "literki" =>
  /\ rodzic # "err" /\ (\A k \in L!Dzieci : pc[k] # "err")
  /\ wiadomosc # <<>> => \A l \in DOMAIN wiadomosc : wiadomosc[l] = L!LITERA
  /\ rodzic = "dane" => ile > 0 /\ Len(R) >= ile
  /\ wariant = "2_1" /\ rodzic = "koniec" => odebrano = N

\* Letters: when the last child has died the parent ends, even if no signal
\* wakes it; SIGCHLD between an interrupted read and the test of its errno
\* may make that an end by ERR.
LiterkiKoncza == (program = "literki" /\ \A k \in L!Dzieci : pc[k] = "koniec") ~>
  (program = "literki" /\ rodzic \in {"koniec", "echild"})

\* Number ring: there is never more than one number on its way, so that no
\* read takes two for one, and there is one as long as nobody has stopped.
JedenZeton == program = "liczby" =>
  /\ Z!WDrodze <= 1
  /\ (\A p \in Z!Procesy : pc[p] \notin {"close"} /\ ~Z!Zamkniete(p)) => Z!WDrodze = 1

\* Number ring: when one process stops, for a 0 or for SIGINT, all three come
\* to their end, although SIGINT may arrive just before a read.
PierscienKonczy ==
  (program = "liczby" /\ \E p \in Z!Procesy : ~running[p] \/ (pc[p] = "odebrano" /\ number[p] = 0)) ~>
  (program = "liczby" /\ \A p \in Z!Procesy : pc[p] = "koniec")

\* Cards: as long as no player is killed, nobody runs out of cards, no round
\* is without a winner (a division by zero) and no write meets a closed pipe.
KartyBezAwarii == program = "karty" /\ zabici = {} =>
  /\ serwer \notin {"sigpipe", "sigfpe"}
  /\ \A k \in K!Gracze : pc[k] \notin {"petla", "sigpipe"}

\* Cards: after r rounds the players have r times the n points, but for what
\* the division between winners leaves over.
PunktyRund == program = "karty" /\ serwer \in {"new_round", "end_game"} =>
  LET razem == FoldFunction(+, 0, sum_points) IN
  /\ razem <= r * LiczbaGraczy
  /\ razem >= r * Min({w * (LiczbaGraczy \div w) : w \in 1..LiczbaGraczy})

\* Cards: the server and all players end, also when a player is killed.
KartyKoncza == (program = "karty") ~>
  (program = "karty" /\ ~K!SerwerZyje /\ \A k \in K!Gracze : ~K!Zyje(k))

\* Potato: a route that is reported is a walk along edges of the network
\* that meets its target at its end and nowhere before, no longer than the
\* ttl or the room in path.
TrasaPrawdziwa == program = "ziemniak" => \A w \in Range(raport) \union {trasa} :
  LET d == Len(w.path) IN
  w # H!Nic =>
    /\ d = TTL - w.ttl /\ d \in 1..SCIEZKA
    /\ \A l \in 1..d : w.path[l] = w.target_id <=> l = d
    /\ \A l \in 1..d - 1 : w.path[l + 1] \in Siec[w.path[l]] \ {w.path[l]}

\* Potato: a message does not go round for ever.
ZiemniakStygnie == (program = "ziemniak" /\ H!WDrodze # {}) ~> (program = "ziemniak" /\ H!WDrodze = {})

\* Potato: SIGQUIT ends the parent and every node, and every node has been
\* waited for; only a message sent to a node that SIGQUIT has killed before
\* ends the parent without that.
SprzatanieKonczy == (program = "ziemniak" /\ ~dziala_program) ~>
  /\ program = "ziemniak" /\ \A k \in H!Wezly : ~H!Zyje(k)
  /\ rodzic = "sigpipe" \/ (rodzic = "koniec" /\ zebrane = LiczbaWezlow)

\* What the readers of the pipes take for one message is one message that
\* somebody has written, and none is lost on the way.
WiadomosciCale == PlikiWCalosci /\ RamkiCale /\ JedenZeton

\* Cards: the rounds go on without a failure and give out the points there are.
KartyWPorzadku == KartyBezAwarii /\ PunktyRund

\* End of file does its work: when the other side has gone, the programs
\* over pipes come to their ends.
KoniecPoEof == SerwerOdbierze /\ LiterkiKoncza /\ PierscienKonczy /\ KartyKoncza

\* Potato: messages and, after SIGQUIT, all the processes come to an end.
ZiemniakSieKonczy == ZiemniakStygnie /\ SprzatanieKonczy
=============================================================================
