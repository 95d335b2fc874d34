-------------------------- MODULE SensorAggregator --------------------------
(***************************************************************************)
(* wyk/sync2/code: sensor.c and aggregator.c.  Every sensor rewrites its   *)
(* file, posts data_ready and waits for can_overwrite; the aggregator      *)
(* collects num_sensors posts, reads all the files and posts as many       *)
(* permissions, which any sensor may take.                                 *)
(***************************************************************************)
EXTENDS Integers, FiniteSets

CONSTANTS Czujniki, CYCLES

VARIABLES
  data_ready, can_overwrite,   \* the semaphores
  agregator, s, cykl,          \* the aggregator: place, inner and outer loop counters
  pc, i                        \* the sensors and their cycles

vars == <<data_ready, can_overwrite, agregator, s, cykl, pc, i>>

num_sensors == Cardinality(Czujniki)

\* The aggregator has created the semaphores; a sensor that comes earlier exits.
Init ==
  /\ data_ready = 0 /\ can_overwrite = 0
  /\ agregator = "zbierz" /\ s = 0 /\ cykl = 1
  /\ pc = [c \in Czujniki |-> "pisz"] /\ i = [c \in Czujniki |-> 1]

Czujnik(c) ==
  /\ \/ /\ pc[c] = "pisz" /\ pc' = [pc EXCEPT ![c] = "sem_post"]
        /\ UNCHANGED <<data_ready, can_overwrite, i>>
     \/ /\ pc[c] = "sem_post" /\ data_ready' = data_ready + 1
        /\ pc' = [pc EXCEPT ![c] = "sem_wait"]
        /\ UNCHANGED <<can_overwrite, i>>
     \/ /\ pc[c] = "sem_wait" /\ can_overwrite > 0 /\ can_overwrite' = can_overwrite - 1
        /\ i' = [i EXCEPT ![c] = @ + 1]
        /\ pc' = [pc EXCEPT ![c] = IF i[c] < CYCLES THEN "pisz" ELSE "koniec"]
        /\ UNCHANGED data_ready
  /\ UNCHANGED <<agregator, s, cykl>>

\* Mutant: the aggregator starts one post too early.
ZebranoBezJednego == s = num_sensors - 1

\* Mutant: the aggregator waits for one post too many.
ZebranoZaDuzo == s > num_sensors

Zebrano == s = num_sensors

Zbierz ==
  /\ agregator = "zbierz"
  /\ \/ ~Zebrano /\ data_ready > 0 /\ data_ready' = data_ready - 1 /\ s' = s + 1 /\ UNCHANGED agregator
     \/ Zebrano /\ agregator' = "czytaj" /\ s' = 0 /\ UNCHANGED data_ready
  /\ UNCHANGED <<can_overwrite, cykl, pc, i>>

\* The files are read one after another, sensor_0.dat to sensor_<num_sensors>.dat.
Czytaj ==
  /\ agregator = "czytaj"
  /\ IF s < num_sensors THEN s' = s + 1 /\ UNCHANGED agregator ELSE s' = 0 /\ agregator' = "pozwol"
  /\ UNCHANGED <<data_ready, can_overwrite, cykl, pc, i>>

Pozwol ==
  /\ agregator = "pozwol"
  /\ \/ s < num_sensors /\ can_overwrite' = can_overwrite + 1 /\ s' = s + 1 /\ UNCHANGED <<agregator, cykl>>
     \/ /\ s = num_sensors /\ s' = 0 /\ cykl' = cykl + 1
        /\ agregator' = IF cykl < CYCLES THEN "zbierz" ELSE "koniec"
        /\ UNCHANGED can_overwrite
  /\ UNCHANGED <<data_ready, pc, i>>

Agregator == Zbierz \/ Czytaj \/ Pozwol

Next == Agregator \/ \E c \in Czujniki : Czujnik(c)
----------------------------------------------------------------------------
Pisza == {c \in Czujniki : pc[c] = "pisz"}
=============================================================================
