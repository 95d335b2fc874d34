------------------------------ MODULE HotPotato ------------------------------
(***************************************************************************)
(* zadania_5/zadanie_ziemniak/ziemniak.c: a network of processes passes    *)
(* messages ("potatoes") to random neighbours until they meet their target *)
(* or their ttl is used up; the target reports the route to the parent     *)
(* through a FIFO.  SIGINT makes the parent send a potato, SIGQUIT ends    *)
(* the program.  The pipes hold some 300 messages and are never full here. *)
(***************************************************************************)
EXTENDS Integers, Sequences, FiniteSets

CONSTANTS n, sasiedzi,      \* nodes 0..n-1 and their rows of the matrix (sets of neighbours)
          TTL,              \* 20 in the code
          SCIEZKA,          \* room in path
          MaxZiemniakow     \* bound: messages the parent sends

VARIABLES
  rury, raport,        \* the pipe of every node and the FIFO of the reports
  pc, msg,             \* the nodes, and what each one holds
  rodzic, i, zebrane,  \* the parent: place, loop counter, children waited for
  wyslij_wiadomosc, dziala_program, wyslane,
  trasa,               \* the last route printed
  sig                  \* SIGQUIT or SIGTERM not yet delivered

vars == <<rury, raport, pc, msg, rodzic, i, zebrane, wyslij_wiadomosc, dziala_program, wyslane, trasa, sig>>

Wezly == 0..n-1
Nic == [target_id |-> -1, path |-> <<>>, ttl |-> 0]

\* The children are forked and have set their signals.
Init ==
  /\ rury = [k \in Wezly |-> <<>>] /\ raport = <<>>
  /\ pc = [k \in Wezly |-> "open"] /\ msg = [k \in Wezly |-> Nic]
  /\ rodzic = "open" /\ i = 0 /\ zebrane = 0
  /\ wyslij_wiadomosc = FALSE /\ dziala_program = TRUE /\ wyslane = 0
  /\ trasa = Nic /\ sig = {}

Zyje(k) == pc[k] # "zabity"
Idz(k, x) == pc' = [pc EXCEPT ![k] = x]

\* Mutant: only the target records its visit.
OdnotujTylkoCel(k, w) ==
  IF w.target_id = k THEN [w EXCEPT !.path = Append(@, k), !.ttl = @ - 1] ELSE w

Odnotuj(k, w) == [w EXCEPT !.path = Append(@, k), !.ttl = @ - 1]

Zywy(w) == w.ttl > 0

\* Mutant: the number drawn is taken for the index of a node.
SasiadIndeks(k) == 0..Cardinality(sasiedzi[k]) - 1

\* The neighbours node k may draw.
Sasiad(k) == sasiedzi[k]

\* A node opens the FIFO once the parent has, then reads its pipe, decides
\* and writes.  A message that is used up, or has no way to go, is dropped.
OtworzRaport(k) ==
  /\ pc[k] = "open" /\ rodzic # "open" /\ Idz(k, "read")
  /\ UNCHANGED <<rury, raport, msg, rodzic, i, zebrane, wyslij_wiadomosc, dziala_program, wyslane, trasa, sig>>

Odbierz(k) ==
  /\ pc[k] = "read" /\ rury[k] # <<>> /\ rury' = [rury EXCEPT ![k] = Tail(@)]
  /\ LET w == Odnotuj(k, Head(rury[k])) IN
     \/ w.target_id = k /\ Idz(k, "raport") /\ msg' = [msg EXCEPT ![k] = w]
     \/ w.target_id # k /\ Zywy(w) /\ Sasiad(k) # {} /\ Idz(k, "podaj") /\ msg' = [msg EXCEPT ![k] = w]
     \/ w.target_id # k /\ ~(Zywy(w) /\ Sasiad(k) # {}) /\ UNCHANGED <<pc, msg>>
  /\ UNCHANGED <<raport, rodzic, i, zebrane, wyslij_wiadomosc, dziala_program, wyslane, trasa, sig>>

\* A node that still opens the FIFO has the reading ends of all pipes.
MaCzytelnika(j) == Zyje(j) \/ \E k \in Wezly : pc[k] = "open"

\* A node has closed the writing end of its own pipe, so that the write to
\* itself fails and the message is lost; a write to a pipe nobody reads kills.
Podaj(k) ==
  /\ pc[k] = "podaj" /\ msg' = [msg EXCEPT ![k] = Nic]
  /\ \E j \in Sasiad(k) :
       \/ j = k /\ Idz(k, "read") /\ UNCHANGED rury
       \/ j # k /\ MaCzytelnika(j) /\ Idz(k, "read") /\ rury' = [rury EXCEPT ![j] = Append(@, msg[k])]
       \/ j # k /\ ~MaCzytelnika(j) /\ Idz(k, "zabity") /\ UNCHANGED rury
  /\ UNCHANGED <<raport, rodzic, i, zebrane, wyslij_wiadomosc, dziala_program, wyslane, trasa, sig>>

Raportuj(k) ==
  /\ pc[k] = "raport" /\ Idz(k, "read") /\ msg' = [msg EXCEPT ![k] = Nic]
  /\ raport' = Append(raport, msg[k])
  /\ UNCHANGED <<rury, rodzic, i, zebrane, wyslij_wiadomosc, dziala_program, wyslane, trasa, sig>>

Wezel(k) == OtworzRaport(k) \/ Odbierz(k) \/ Podaj(k) \/ Raportuj(k)

\* Ctrl+C: only the parent takes notice, and a second one may be merged with the first.
sigint_handler ==
  /\ wyslane < MaxZiemniakow /\ dziala_program /\ ~wyslij_wiadomosc /\ wyslij_wiadomosc' = TRUE
  /\ UNCHANGED <<rury, raport, pc, msg, rodzic, i, zebrane, dziala_program, wyslane, trasa, sig>>

\* SIGQUIT ends the loop of the parent; sent from the keyboard it kills the nodes as well.
sigquit_handler ==
  /\ dziala_program /\ dziala_program' = FALSE
  /\ sig' \in {{}, Wezly}
  /\ UNCHANGED <<rury, raport, pc, msg, rodzic, i, zebrane, wyslij_wiadomosc, wyslane, trasa>>

Zgin(k) ==
  /\ k \in sig /\ sig' = sig \ {k} /\ Idz(k, "zabity")
  /\ UNCHANGED <<rury, raport, msg, rodzic, i, zebrane, wyslij_wiadomosc, dziala_program, wyslane, trasa>>

\* The parent's loop: test of the flags, a new message, a look at the FIFO.
Petla ==
  /\ \/ rodzic = "open" /\ rodzic' = "while" /\ UNCHANGED <<rury, raport, wyslij_wiadomosc, wyslane, trasa>>
     \/ /\ rodzic = "while" /\ rodzic' = IF dziala_program THEN "wyslij" ELSE "kill"
        /\ UNCHANGED <<rury, raport, wyslij_wiadomosc, wyslane, trasa>>
     \/ /\ rodzic = "wyslij" /\ ~wyslij_wiadomosc /\ rodzic' = "raport"
        /\ UNCHANGED <<rury, raport, wyslij_wiadomosc, wyslane, trasa>>
     \/ /\ rodzic = "wyslij" /\ wyslij_wiadomosc /\ wyslij_wiadomosc' = FALSE
        /\ wyslane' = wyslane + 1
        /\ \E start_node \in Wezly, target_id \in Wezly :
             IF MaCzytelnika(start_node)
             THEN /\ rury' = [rury EXCEPT ![start_node] =
                       Append(@, [target_id |-> target_id, path |-> <<>>, ttl |-> TTL])]
                  /\ rodzic' = "raport"
             ELSE rodzic' = "sigpipe" /\ UNCHANGED rury
        /\ UNCHANGED <<raport, trasa>>
     \/ /\ rodzic = "raport" /\ rodzic' = "while"
        /\ IF raport = <<>> THEN UNCHANGED <<raport, trasa>>
           ELSE raport' = Tail(raport) /\ trasa' = Head(raport)
        /\ UNCHANGED <<rury, wyslij_wiadomosc, wyslane>>
  /\ UNCHANGED <<pc, msg, i, zebrane, dziala_program, sig>>

\* Mutant: the parent waits for a child without having ended it.
KillNikogo(k) == UNCHANGED sig

kill(k) == sig' = sig \union (IF Zyje(k) THEN {k} ELSE {})

\* Every wait collects one dead child, not necessarily the one just killed.
Sprzataj ==
  /\ \/ rodzic = "kill" /\ i < n /\ kill(i) /\ rodzic' = "wait" /\ UNCHANGED <<i, zebrane>>
     \/ rodzic = "kill" /\ i = n /\ rodzic' = "koniec" /\ UNCHANGED <<sig, i, zebrane>>
     \/ /\ rodzic = "wait" /\ zebrane < Cardinality({k \in Wezly : ~Zyje(k)})
        /\ zebrane' = zebrane + 1 /\ i' = i + 1 /\ rodzic' = "kill" /\ UNCHANGED sig
  /\ UNCHANGED <<rury, raport, pc, msg, wyslij_wiadomosc, dziala_program, wyslane, trasa>>

Next == Petla \/ Sprzataj \/ sigint_handler \/ sigquit_handler \/ \E k \in Wezly : Wezel(k) \/ Zgin(k)
----------------------------------------------------------------------------
\* Messages that are still on their way.
WDrodze == {k \in Wezly : Zyje(k) /\ (rury[k] # <<>> \/ pc[k] = "podaj")}
=============================================================================
