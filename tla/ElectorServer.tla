--------------------------- MODULE ElectorServer ----------------------------
(***************************************************************************)
(* The vote server of zadania_7/warsztatowe/sop-hre.c: one thread, epoll   *)
(* over non-blocking TCP connections.  A connection first names an         *)
(* elector, then votes.  Descriptors are reused: accept gives the server   *)
(* any descriptor that is closed at that moment.                           *)
(*                                                                         *)
(* A client sends lines; a line is the number it consists of, or 0 for any *)
(* other text.  TCP keeps no boundaries: one read may return several       *)
(* lines, and everything after the first newline is thrown away.           *)
(***************************************************************************)
EXTENDS Integers, Sequences

CONSTANTS
  Fds,          \* descriptors the process may open for connections
  Elektorzy,    \* 1..7 in the code
  Kandydaci,    \* 1..3 in the code
  MaxLinii      \* bound: lines of one connection the server has not read

Linie == Elektorzy \cup Kandydaci \cup {0}

VARIABLES
  serwer,               \* "dziala", or "padl" after ERR
  oczekujacy,           \* connections that accept has not taken yet
  otwarte,              \* descriptors of connections the server has open
  strumien,             \* strumien[f]: lines sent on f and not yet read
  stan,                 \* stan[f]: "otwarty", "zamkniety" (FIN) or "zerwany" (RST)
  client_elector_id,    \* by descriptor: 0 or the elector
  connected_electors,   \* by elector: 0 or the descriptor
  elector_votes         \* by elector: 0 or the candidate

tablice == <<client_elector_id, connected_electors, elector_votes>>
polaczenia == <<otwarte, strumien, stan>>
vars == <<serwer, oczekujacy, polaczenia, tablice>>

Init ==
  /\ serwer = "dziala"
  /\ oczekujacy = 0
  /\ otwarte = {}
  /\ strumien = [f \in Fds |-> <<>>]
  /\ stan = [f \in Fds |-> "otwarty"]
  /\ client_elector_id = [f \in Fds |-> 0]
  /\ connected_electors = [e \in Elektorzy |-> 0]
  /\ elector_votes = [e \in Elektorzy |-> 0]

-----------------------------------------------------------------------------
(* The clients. *)

Polacz ==
  /\ oczekujacy = 0
  /\ oczekujacy' = 1
  /\ UNCHANGED <<serwer, polaczenia, tablice>>

Wyslij(f, l) ==
  /\ f \in otwarte
  /\ stan[f] = "otwarty"
  /\ Len(strumien[f]) < MaxLinii
  /\ strumien' = [strumien EXCEPT ![f] = Append(@, l)]
  /\ UNCHANGED <<serwer, oczekujacy, otwarte, stan, tablice>>

(* The client closes the connection, or the connection is reset. *)
Rozlacz(f, jak) ==
  /\ f \in otwarte
  /\ stan[f] = "otwarty"
  /\ stan' = [stan EXCEPT ![f] = jak]
  /\ UNCHANGED <<serwer, oczekujacy, otwarte, strumien, tablice>>

-----------------------------------------------------------------------------
(* The server: one event of the loop over events[]. *)

(* accept takes a free descriptor; the new client is not identified. *)
NowyKlient(f) ==
  /\ f \in Fds \ otwarte
  /\ oczekujacy' = 0
  /\ otwarte' = otwarte \cup {f}
  /\ strumien' = [strumien EXCEPT ![f] = <<>>]
  /\ stan' = [stan EXCEPT ![f] = "otwarty"]
  /\ client_elector_id' = [client_elector_id EXCEPT ![f] = 0]
  /\ UNCHANGED <<serwer, connected_electors, elector_votes>>

(* accept fails with EMFILE: ERR ends the server. *)
BrakDeskryptora ==
  /\ Fds \subseteq otwarte
  /\ serwer' = "padl"
  /\ UNCHANGED <<oczekujacy, polaczenia, tablice>>

Zamknij(f) ==
  /\ otwarte' = otwarte \ {f}
  /\ strumien' = [strumien EXCEPT ![f] = <<>>]
  /\ UNCHANGED <<serwer, oczekujacy, stan>>

(* Mutant of Zaloguj: the place of the elector is not checked. *)
ZalogujZawsze(f, l) ==
  /\ client_elector_id[f] = 0
  /\ l \in Elektorzy
  /\ connected_electors' = [connected_electors EXCEPT ![l] = f]
  /\ client_elector_id' = [client_elector_id EXCEPT ![f] = l]
  /\ UNCHANGED elector_votes

(* An unidentified client: log in, or be disconnected when the elector is
   connected already or is none. *)
Zaloguj(f, l) ==
  /\ client_elector_id[f] = 0
  /\ l \in Elektorzy
  /\ connected_electors[l] = 0
  /\ connected_electors' = [connected_electors EXCEPT ![l] = f]
  /\ client_elector_id' = [client_elector_id EXCEPT ![f] = l]
  /\ UNCHANGED elector_votes

OdrzucLogowanie(f, l) ==
  /\ client_elector_id[f] = 0
  /\ l \in Elektorzy => connected_electors[l] # 0
  /\ Zamknij(f)
  /\ UNCHANGED tablice

(* Mutant of Glos: the number of the candidate is not checked. *)
GlosNaKazdego(f, l) ==
  /\ client_elector_id[f] # 0
  /\ elector_votes' = [elector_votes EXCEPT ![client_elector_id[f]] = l]
  /\ UNCHANGED <<client_elector_id, connected_electors>>

(* An identified client: a vote, or a line that is ignored. *)
Glos(f, l) ==
  /\ client_elector_id[f] # 0
  /\ elector_votes' = IF l \in Kandydaci
                      THEN [elector_votes EXCEPT ![client_elector_id[f]] = l]
                      ELSE elector_votes
  /\ UNCHANGED <<client_elector_id, connected_electors>>

(* read returns k lines; the text is cut at the first newline.  On a
   connection that was reset the reply consumes the error, so that the next
   read returns 0. *)
Dane(f, k) ==
  LET l == Head(strumien[f])
      odpowiedz == client_elector_id[f] = 0 \/ l \in Kandydaci
  IN  \/ /\ Zaloguj(f, l) \/ Glos(f, l)
         /\ strumien' = [strumien EXCEPT ![f] = SubSeq(@, k + 1, Len(@))]
         /\ stan' = [stan EXCEPT ![f] =
                       IF @ = "zerwany" /\ odpowiedz THEN "zamkniety" ELSE @]
         /\ UNCHANGED <<serwer, oczekujacy, otwarte>>
      \/ OdrzucLogowanie(f, l)

(* Mutant of Rozlaczony: the place of the elector is not freed. *)
RozlaczonyBezZwolnienia(f) ==
  /\ strumien[f] = <<>>
  /\ stan[f] = "zamkniety"
  /\ client_elector_id' = [client_elector_id EXCEPT ![f] = 0]
  /\ Zamknij(f)
  /\ UNCHANGED <<connected_electors, elector_votes>>

(* read returns 0: the elector may connect again. *)
Rozlaczony(f) ==
  /\ strumien[f] = <<>>
  /\ stan[f] = "zamkniety"
  /\ LET e_id == client_elector_id[f]
     IN  /\ connected_electors' = IF e_id > 0
                                  THEN [connected_electors EXCEPT ![e_id] = 0]
                                  ELSE connected_electors
         /\ client_elector_id' = [client_elector_id EXCEPT ![f] = 0]
  /\ Zamknij(f)
  /\ UNCHANGED elector_votes

(* read fails with ECONNRESET: ERR ends the server. *)
BladRead(f) ==
  /\ strumien[f] = <<>>
  /\ stan[f] = "zerwany"
  /\ serwer' = "padl"
  /\ UNCHANGED <<oczekujacy, polaczenia, tablice>>

(* An event on a connection. *)
Obsluz(f) ==
  /\ serwer = "dziala" /\ f \in otwarte
  /\ \/ \E k \in 1..Len(strumien[f]) : Dane(f, k)
     \/ Rozlaczony(f)
     \/ BladRead(f)

(* An event on the listening socket. *)
Accept ==
  /\ serwer = "dziala" /\ oczekujacy = 1
  /\ BrakDeskryptora \/ \E f \in Fds : NowyKlient(f)

Next ==
  \/ Polacz
  \/ \E f \in Fds : \/ \E l \in Linie : Wyslij(f, l)
                    \/ \E jak \in {"zamkniety", "zerwany"} : Rozlacz(f, jak)
  \/ Accept
  \/ \E f \in Fds : Obsluz(f)

-----------------------------------------------------------------------------
(* Types. *)
TypeOK ==
  /\ serwer \in {"dziala", "padl"}
  /\ oczekujacy \in {0, 1}
  /\ otwarte \in SUBSET Fds
  /\ strumien \in [Fds -> Seq(Linie)]
  /\ stan \in [Fds -> {"otwarty", "zamkniety", "zerwany"}]
  /\ client_elector_id \in [Fds -> Elektorzy \cup {0}]
  /\ connected_electors \in [Elektorzy -> Fds \cup {0}]
  /\ elector_votes \in [Elektorzy -> Kandydaci \cup {0}]

(* The two tables are inverse to each other and speak of open connections
   only: one connection per elector, and a reused descriptor never inherits
   the identity of the connection that had it before. *)
TabliceZgodne ==
  /\ \A f \in Fds : client_elector_id[f] # 0 =>
       f \in otwarte /\ connected_electors[client_elector_id[f]] = f
  /\ \A e \in Elektorzy : connected_electors[e] # 0 =>
       client_elector_id[connected_electors[e]] = e
=============================================================================
