---------------------------- MODULE SemaforDemo ----------------------------
(***************************************************************************)
(* zadania_6/semafor.c, started NUM_PROCS times: the process that creates  *)
(* the named semaphore creates and initialises the shared memory, the      *)
(* others join it; all meet at a barrier, the creator works and tells the  *)
(* others with a condition variable, all meet again and the creator cleans *)
(* up.  Nothing checks the results of shm_open and mmap.                   *)
(***************************************************************************)
EXTENDS Integers, FiniteSets

CONSTANT Procesy   \* NUM_PROCS of them

VARIABLES
  sem,         \* value of the named semaphore, -1 when it does not exist
  shm,         \* does the shared memory object exist?
  sd,          \* its objects: "surowe", "gotowe" or "zniszczone"
  work_done,
  pc, tworca,  \* where each process is, and the creators
  mapa         \* the processes whose mmap has succeeded

vars == <<sem, shm, sd, work_done, pc, tworca, mapa>>

Init ==
  /\ sem = -1 /\ shm = FALSE /\ sd = "surowe" /\ work_done = 0
  /\ pc = [p \in Procesy |-> "sem_open"] /\ tworca = {} /\ mapa = {}

Idz(p, dokad) == pc' = [pc EXCEPT ![p] = dokad]

\* sem_open with O_CREAT | O_EXCL, and again without; the semaphore may be
\* gone between the two.
Otworz(p) ==
  /\ \/ /\ pc[p] = "sem_open" /\ sem = -1
        /\ sem' = 0 /\ tworca' = tworca \cup {p} /\ Idz(p, "shm_create")
     \/ /\ pc[p] = "sem_open" /\ sem # -1
        /\ Idz(p, "sem_open2") /\ UNCHANGED <<sem, tworca>>
     \/ /\ pc[p] = "sem_open2"
        /\ Idz(p, IF sem = -1 THEN "blad" ELSE "shm_open") /\ UNCHANGED <<sem, tworca>>
  /\ UNCHANGED <<shm, sd, work_done, mapa>>

\* The creator's shm_open, then its ftruncate and mmap; a joiner that maps the
\* object in between has memory that it may not touch yet.
Mapuj(p) ==
  /\ \/ pc[p] = "shm_create" /\ shm' = TRUE /\ Idz(p, "ftruncate") /\ UNCHANGED mapa
     \/ /\ pc[p] = "ftruncate"
        /\ mapa' = mapa \cup {p} /\ Idz(p, "inicjalizuj") /\ UNCHANGED shm
     \/ /\ pc[p] = "shm_open"
        /\ mapa' = IF shm THEN mapa \cup {p} ELSE mapa
        /\ Idz(p, "sem_wait") /\ UNCHANGED shm
  /\ UNCHANGED <<sem, sd, work_done, tworca>>

Inicjalizuj(p) ==
  /\ pc[p] = "inicjalizuj"
  /\ sd' = "gotowe" /\ work_done' = 0
  /\ Idz(p, "sem_post")
  /\ UNCHANGED <<sem, shm, tworca, mapa>>

CzekajNaTworce(p) ==
  /\ pc[p] = "sem_wait" /\ sem > 0 /\ sem' = sem - 1 /\ Idz(p, "sem_post")
  /\ UNCHANGED <<shm, sd, work_done, tworca, mapa>>

OddajKlucz(p) ==
  /\ pc[p] = "sem_post" /\ sem' = sem + 1 /\ Idz(p, "bariera")
  /\ UNCHANGED <<shm, sd, work_done, tworca, mapa>>

\* A process whose mmap has failed dies at its first use of sd.
Awaria(p) ==
  /\ pc[p] = "bariera" /\ p \notin mapa /\ Idz(p, "awaria")
  /\ UNCHANGED <<sem, shm, sd, work_done, tworca, mapa>>

\* pthread_barrier_wait by the last of NUM_PROCS processes lets all of them go.
Bariera(gdzie, dalej) ==
  /\ \A p \in Procesy : pc[p] = gdzie /\ p \in mapa
  /\ pc' = [p \in Procesy |-> IF p \in tworca THEN dalej[1] ELSE dalej[2]]
  /\ UNCHANGED <<sem, shm, sd, work_done, tworca, mapa>>

\* Mutant: the sleepers are not woken.
BroadcastNikt(p) == Idz(p, "bariera2")

Broadcast(p) ==
  pc' = [q \in Procesy |-> CASE q = p -> "bariera2" [] pc[q] = "spi" -> "warunek" [] OTHER -> pc[q]]

\* The creator's section under sd->mutex, with the broadcast.
Pracuj(p) ==
  /\ pc[p] = "pracuj" /\ work_done' = 1 /\ Broadcast(p)
  /\ UNCHANGED <<sem, shm, sd, tworca, mapa>>

CzekajNaPrace(p) ==
  /\ pc[p] = "warunek"
  /\ Idz(p, IF work_done = 0 THEN "spi" ELSE "bariera2")
  /\ UNCHANGED <<sem, shm, sd, work_done, tworca, mapa>>

Sprzataj(p) ==
  /\ \/ pc[p] = "destroy" /\ sd' = "zniszczone" /\ Idz(p, "shm_unlink") /\ UNCHANGED <<sem, shm>>
     \/ pc[p] = "shm_unlink" /\ shm' = FALSE /\ Idz(p, "sem_unlink") /\ UNCHANGED <<sem, sd>>
     \/ pc[p] = "sem_unlink" /\ sem' = -1 /\ Idz(p, "koniec") /\ UNCHANGED <<shm, sd>>
  /\ UNCHANGED <<work_done, tworca, mapa>>

\* Mutant: the creator cleans up without meeting the others again.
SpotkaniaJedno ==
  \/ Bariera("bariera", <<"pracuj", "warunek">>)
  \/ \E p \in Procesy :
       /\ pc[p] = "bariera2" /\ Idz(p, IF p \in tworca THEN "destroy" ELSE "koniec")
       /\ UNCHANGED <<sem, shm, sd, work_done, tworca, mapa>>

Spotkania ==
  \/ Bariera("bariera", <<"pracuj", "warunek">>)
  \/ Bariera("bariera2", <<"destroy", "koniec">>)

Krok(p) ==
  \/ Otworz(p) \/ Mapuj(p) \/ Inicjalizuj(p) \/ CzekajNaTworce(p) \/ OddajKlucz(p)
  \/ Awaria(p) \/ Pracuj(p) \/ CzekajNaPrace(p) \/ Sprzataj(p)

Next == Spotkania \/ \E p \in Procesy : Krok(p)
----------------------------------------------------------------------------
UzywaSd(p) == p \in mapa /\ pc[p] \in {"bariera", "pracuj", "warunek", "spi", "bariera2"}
=============================================================================
