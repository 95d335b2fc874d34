------------------------------ MODULE CardGame ------------------------------
(***************************************************************************)
(* zadania_5/zadanie_2.c: in each of m rounds the server asks n players    *)
(* for a card, each plays one of 1..m it has not played yet, and the       *)
(* players with the highest card share n points.  All messages have the    *)
(* same length, so a read takes exactly one.                               *)
(***************************************************************************)
EXTENDS Integers, Sequences, FiniteSets

CONSTANTS n, m,        \* the arguments
          MaxZabic     \* bound: players killed from outside

VARIABLES
  SP, PS,              \* the pipes server -> player and player -> server
  zamkniete,           \* players whose pipes the server has closed
  pc, odwiedzone_karty,
  serwer, r, i,        \* the server: place, round, player of the current loop
  rzucone_karty, max_points, zwyciezcy, sum_points,
  zabici

vars == <<SP, PS, zamkniete, pc, odwiedzone_karty,
          serwer, r, i, rzucone_karty, max_points, zwyciezcy, sum_points, zabici>>
gracze == <<pc, odwiedzone_karty, zabici>>

Gracze == 0..n-1
Pusta == [k \in Gracze |-> 0]

Init ==
  /\ SP = [k \in Gracze |-> <<>>] /\ PS = [k \in Gracze |-> <<>>] /\ zamkniete = {}
  /\ pc = [k \in Gracze |-> "read"] /\ odwiedzone_karty = [k \in Gracze |-> {}]
  /\ serwer = "new_round" /\ r = 0 /\ i = 0
  /\ rzucone_karty = Pusta /\ max_points = -1 /\ zwyciezcy = {} /\ sum_points = Pusta
  /\ zabici = {}

Zyje(k) == pc[k] \in {"read", "petla"}
SerwerZyje == serwer \notin {"koniec", "sigpipe", "sigfpe"}

\* Nobody has the writing end of SP[k] any more.
KoniecSP(k) == ~SerwerZyje \/ k \in zamkniete

\* Mutant: the server keeps the writing ends of PS, so that it never sees a player go.
KoniecPSNigdy(k) == FALSE

\* Nobody has the writing end of PS[k] any more, and it is empty.
KoniecPS(k) == PS[k] = <<>> /\ ~Zyje(k)

Idz(k, x) == pc' = [pc EXCEPT ![k] = x]

\* A player: what it reads, and the card it draws among those not played
\* (with none left it would draw for ever) and writes to the server.
player(k) ==
  /\ pc[k] = "read"
  /\ \/ /\ SP[k] # <<>> /\ SP' = [SP EXCEPT ![k] = Tail(@)]
        /\ \/ Head(SP[k]) = "l" /\ UNCHANGED <<PS, pc, odwiedzone_karty>>
           \/ Head(SP[k]) = "end_game" /\ Idz(k, "koniec") /\ UNCHANGED <<PS, odwiedzone_karty>>
           \/ /\ Head(SP[k]) = "new_round" /\ \E card \in (1..m) \ odwiedzone_karty[k] :
                   /\ odwiedzone_karty' = [odwiedzone_karty EXCEPT ![k] = @ \union {card}]
                   /\ IF SerwerZyje THEN PS' = [PS EXCEPT ![k] = Append(@, card)] /\ UNCHANGED pc
                                    ELSE Idz(k, "sigpipe") /\ UNCHANGED PS
           \/ /\ Head(SP[k]) = "new_round" /\ odwiedzone_karty[k] = 1..m /\ Idz(k, "petla")
              /\ UNCHANGED <<PS, odwiedzone_karty>>
     \/ SP[k] = <<>> /\ KoniecSP(k) /\ Idz(k, "koniec") /\ UNCHANGED <<SP, PS, odwiedzone_karty>>
  /\ UNCHANGED <<zamkniete, serwer, r, i, rzucone_karty, max_points, zwyciezcy, sum_points, zabici>>

Zabij(k) ==
  /\ Zyje(k) /\ Cardinality(zabici) < MaxZabic /\ zabici' = zabici \union {k} /\ Idz(k, "zabity")
  /\ UNCHANGED <<SP, PS, zamkniete, odwiedzone_karty,
                 serwer, r, i, rzucone_karty, max_points, zwyciezcy, sum_points>>

\* write to player i, then x; without a reader SIGPIPE kills the server.
Pisz(msg, x) ==
  IF Zyje(i) THEN SP' = [SP EXCEPT ![i] = Append(@, msg)] /\ x /\ i' = i + 1 /\ UNCHANGED serwer
  ELSE serwer' = "sigpipe" /\ UNCHANGED <<SP, i, zamkniete, sum_points>>

\* The end of a loop over the players.
Dalej(x) == i' = 0 /\ serwer' = x

NowaRunda ==
  /\ serwer = "new_round"
  /\ \/ i < n /\ Pisz("new_round", UNCHANGED <<zamkniete, sum_points>>)
     \/ i = n /\ Dalej("odbierz") /\ UNCHANGED <<SP, zamkniete, sum_points>>
  /\ UNCHANGED <<PS, r, rzucone_karty, max_points, zwyciezcy>>

\* A player that is gone ends the loop: the cards after it are not read.
OdbierzKarty ==
  /\ serwer = "odbierz"
  /\ \/ /\ i < n /\ PS[i] # <<>> /\ PS' = [PS EXCEPT ![i] = Tail(@)]
        /\ rzucone_karty' = [rzucone_karty EXCEPT ![i] = Head(PS[i])]
        /\ max_points' = IF Head(PS[i]) > max_points THEN Head(PS[i]) ELSE max_points
        /\ i' = i + 1 /\ UNCHANGED serwer
     \/ /\ \/ i < n /\ KoniecPS(i)
           \/ i = n
        /\ Dalej("licz") /\ UNCHANGED <<PS, rzucone_karty, max_points>>
  /\ UNCHANGED <<SP, zamkniete, r, zwyciezcy, sum_points>>

\* Entries of rzucone_karty that were not read are uninitialised: each may
\* equal max_points or not.  n / winners with no winner raises SIGFPE.
Licz ==
  /\ serwer = "licz"
  /\ \E nieznane \in SUBSET {k \in Gracze : rzucone_karty[k] = 0} :
       zwyciezcy' = {k \in Gracze : rzucone_karty[k] = max_points} \union nieznane
  /\ Dalej(IF zwyciezcy' = {} THEN "sigfpe" ELSE "rozdaj")
  /\ UNCHANGED <<SP, PS, zamkniete, r, rzucone_karty, max_points, sum_points>>

\* Mutant: every winner gets all the points.
PunktyBezPodzialu(winners) == n

points_to_send(winners) == n \div winners

\* Mutant: one round more than there are cards.
JeszczeRundaPonad == r < m

JeszczeRunda == r + 1 < m

\* The points, and the end of a round with its local variables.
Rozdaj ==
  /\ serwer = "rozdaj"
  /\ \/ /\ i < n /\ UNCHANGED <<r, rzucone_karty, max_points, zwyciezcy>>
        /\ Pisz("l", /\ sum_points' = [sum_points EXCEPT ![i] =
                          IF i \in zwyciezcy THEN @ + points_to_send(Cardinality(zwyciezcy)) ELSE @]
                     /\ UNCHANGED zamkniete)
     \/ /\ i = n /\ r' = r + 1 /\ Dalej(IF JeszczeRunda THEN "new_round" ELSE "end_game")
        /\ rzucone_karty' = Pusta /\ max_points' = -1 /\ zwyciezcy' = {}
        /\ UNCHANGED <<SP, zamkniete, sum_points>>
  /\ UNCHANGED PS

KoniecGry ==
  /\ \/ /\ serwer = "end_game" /\ i < n
        /\ Pisz("end_game", zamkniete' = zamkniete \union {i} /\ UNCHANGED sum_points)
     \/ serwer = "end_game" /\ i = n /\ Dalej("wait") /\ UNCHANGED <<SP, zamkniete, sum_points>>
     \/ /\ serwer = "wait" /\ (\A k \in Gracze : ~Zyje(k)) /\ serwer' = "koniec"
        /\ UNCHANGED <<SP, i, zamkniete, sum_points>>
  /\ UNCHANGED <<PS, r, rzucone_karty, max_points, zwyciezcy>>

Serwer == (NowaRunda \/ OdbierzKarty \/ Licz \/ Rozdaj \/ KoniecGry) /\ UNCHANGED gracze

Next == Serwer \/ \E k \in Gracze : player(k) \/ Zabij(k)
=============================================================================
