---------------------------- MODULE FileTransfer ----------------------------
(***************************************************************************)
(* What the UDP file transfer of lab_8/zadanie_1 promises its user: the    *)
(* server shows the chunks of a file in order and without gaps, a client   *)
(* goes past a chunk only after the server has shown it, and it ends with  *)
(* the whole file shown or by giving up.                                   *)
(***************************************************************************)
EXTENDS Naturals

CONSTANTS
  Klienci,   \* the clients, by address
  Paczki     \* Paczki[c]: the number of chunks of the file of c

VARIABLES
  wydruk,         \* wydruk[c]: the numbers of the chunks of c shown so far
  potwierdzone,   \* potwierdzone[c]: how many chunks c knows to be shown
  stan            \* stan[c]: "trwa", "sukces" or "porazka"

vars == <<wydruk, potwierdzone, stan>>

Init ==
  /\ wydruk = [c \in Klienci |-> {}]
  /\ potwierdzone = [c \in Klienci |-> 0]
  /\ stan = [c \in Klienci |-> "trwa"]

(* The server shows the next chunk; also for a client that has given up. *)
Pokaz(c) ==
  /\ \E k \in 1..Paczki[c] :
       /\ wydruk[c] = 1..(k - 1)
       /\ wydruk' = [wydruk EXCEPT ![c] = 1..k]
  /\ UNCHANGED <<potwierdzone, stan>>

Potwierdz(c) ==
  /\ stan[c] = "trwa"
  /\ potwierdzone[c] + 1 \in wydruk[c]
  /\ potwierdzone' = [potwierdzone EXCEPT ![c] = @ + 1]
  /\ stan' = [stan EXCEPT ![c] =
                IF potwierdzone[c] + 1 = Paczki[c] THEN "sukces" ELSE "trwa"]
  /\ UNCHANGED wydruk

Zrezygnuj(c) ==
  /\ stan[c] = "trwa"
  /\ stan' = [stan EXCEPT ![c] = "porazka"]
  /\ UNCHANGED <<wydruk, potwierdzone>>

Next == \E c \in Klienci : Pokaz(c) \/ Potwierdz(c) \/ Zrezygnuj(c)

Spec == Init /\ [][Next]_vars
=============================================================================
