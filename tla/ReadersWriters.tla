--------------------------- MODULE ReadersWriters ---------------------------
(***************************************************************************)
(* wyk/sync2/code/readers_writers_cv.c: readers and writers that share one *)
(* mutex and one condition variable.  A writer broadcasts when it leaves,  *)
(* a reader signals once, and only if it is the last one.  The counters    *)
(* are used under the mutex only: a section is one action.                 *)
(***************************************************************************)
EXTENDS Integers, FiniteSets

CONSTANTS Czytelnicy, Pisarze

VARIABLES readers_count, writers_count, pc

vars == <<readers_count, writers_count, pc>>
Watki == Czytelnicy \cup Pisarze

Init ==
  /\ readers_count = 0 /\ writers_count = 0
  /\ pc = [w \in Watki |-> "poza"]

\* reader and writer, entry section; pthread_cond_wait returns to its test.
Wejdz(w) ==
  LET czeka == writers_count > 0 \/ (w \in Pisarze /\ readers_count > 0) IN
  /\ pc[w] \in {"poza", "obudzony"}
  /\ pc' = [pc EXCEPT ![w] = IF czeka THEN "spi" ELSE "w_srodku"]
  /\ readers_count' = readers_count + (IF ~czeka /\ w \in Czytelnicy THEN 1 ELSE 0)
  /\ writers_count' = writers_count + (IF ~czeka /\ w \in Pisarze THEN 1 ELSE 0)

Spiacy == {w \in Watki : pc[w] = "spi"}

\* pthread_cond_signal by w, which leaves.
Sygnal(w) ==
  IF Spiacy = {} THEN pc' = [pc EXCEPT ![w] = "poza"]
  ELSE \E v \in Spiacy : pc' = [pc EXCEPT ![w] = "poza", ![v] = "obudzony"]

Broadcast(w) ==
  pc' = [v \in Watki |-> CASE v = w -> "poza" [] v \in Spiacy -> "obudzony" [] OTHER -> pc[v]]

WyjdzPisarz(w) ==
  /\ w \in Pisarze /\ pc[w] = "w_srodku"
  /\ writers_count' = writers_count - 1
  /\ Broadcast(w)
  /\ UNCHANGED readers_count

\* Mutant: a reader signals only when it is not the last one.
OstatniOdwrotnie == readers_count > 1

Ostatni == readers_count = 1

WyjdzCzytelnik(w) ==
  /\ w \in Czytelnicy /\ pc[w] = "w_srodku"
  /\ readers_count' = readers_count - 1
  /\ IF Ostatni THEN Sygnal(w) ELSE pc' = [pc EXCEPT ![w] = "poza"]
  /\ UNCHANGED writers_count

Next == \E w \in Watki : Wejdz(w) \/ WyjdzPisarz(w) \/ WyjdzCzytelnik(w)

Spec == Init /\ [][Next]_vars
----------------------------------------------------------------------------
\* Nobody is inside and somebody sleeps: then a thread was woken to go in.
Zapomniani == readers_count = 0 /\ writers_count = 0 /\ Spiacy # {}
CzytelnikSpiBezPisarza == writers_count = 0 /\ Spiacy \cap Czytelnicy # {}
=============================================================================
