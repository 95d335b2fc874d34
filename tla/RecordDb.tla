------------------------------ MODULE RecordDb ------------------------------
(***************************************************************************)
(* wyk/sync2/code/record_db*.c: workers that process records in shared     *)
(* memory, with a mutex per record, one global mutex, or robust mutexes    *)
(* and a worker that recovers them.  recursive_chain_hash may run out of   *)
(* stack and kill the worker inside its section.                           *)
(***************************************************************************)
EXTENDS Integers, RobustMutex

CONSTANTS Pracownicy, Rekordy

VARIABLES
  wariant,                                     \* "rekord", "globalny" or "robust"
  mtx,                                         \* the mutex of each record, and the global one
  base_value, processing_count, last_result,   \* the records
  pc, cel                                      \* the workers and their target_id

GLOBAL == -1   \* the place of global_mtx among the mutexes
rekord == <<base_value, processing_count, last_result>>
vars == <<wariant, mtx, rekord, pc, cel>>

\* record_db_setup.c; a worker gets its record as an argument.
Init ==
  /\ wariant \in {"rekord", "globalny", "robust"}
  /\ mtx = [r \in Rekordy \cup {GLOBAL} |-> "wolny"]
  /\ base_value = [r \in Rekordy |-> 100 + r]
  /\ processing_count = [r \in Rekordy |-> 0] /\ last_result = processing_count
  /\ pc = [p \in Pracownicy |-> "lock"]
  /\ cel \in [Pracownicy -> Rekordy]

Idz(p, dokad) == pc' = [pc EXCEPT ![p] = dokad]

\* Mutant: one worker was built with RECORD_DB_GLOBAL_LOCK, the others were not.
ZamekMieszany(p) == IF p = CHOOSE q \in Pracownicy : TRUE THEN GLOBAL ELSE cel[p]

Zamek(p) == IF wariant = "globalny" THEN GLOBAL ELSE cel[p]

\* Mutant: the worker goes on after EOWNERDEAD without pthread_mutex_consistent.
BezOdzyskania(m) == m

\* Only record_db_worker_robust.c knows EOWNERDEAD.
Odzyskaj(m) == IF wariant = "robust" THEN PoConsistent(m) ELSE m

record_db_lock(p) ==
  LET z == Zamek(p) IN
  /\ pc[p] = "lock"
  /\ \/ MoznaZajac(mtx[z]) /\ mtx' = [mtx EXCEPT ![z] = Odzyskaj(PoLock(@))] /\ Idz(p, "base")
     \/ BladLock(mtx[z]) /\ Idz(p, "blad") /\ UNCHANGED mtx
  /\ UNCHANGED <<wariant, rekord, cel>>

process(p) ==
  LET r == cel[p] IN
  /\ \/ pc[p] = "base" /\ base_value' = [base_value EXCEPT ![r] = @ + 5] /\ Idz(p, "count")
        /\ UNCHANGED <<processing_count, last_result>>
     \/ pc[p] = "count" /\ processing_count' = [processing_count EXCEPT ![r] = @ + 1] /\ Idz(p, "hash")
        /\ UNCHANGED <<base_value, last_result>>
     \/ pc[p] = "hash" /\ last_result' = [last_result EXCEPT ![r] = base_value[r]] /\ Idz(p, "unlock")
        /\ UNCHANGED <<base_value, processing_count>>
  /\ UNCHANGED <<wariant, mtx, cel>>

\* recursive_chain_hash overflows the stack; a mutex that is not robust stays locked.
Przepelnienie(p) ==
  /\ pc[p] = "hash" /\ Idz(p, "zabity")
  /\ mtx' = IF wariant = "robust" THEN [mtx EXCEPT ![Zamek(p)] = PoSmierci(@)] ELSE mtx
  /\ UNCHANGED <<wariant, rekord, cel>>

record_db_unlock(p) ==
  /\ pc[p] = "unlock" /\ Idz(p, "koniec")
  /\ mtx' = [mtx EXCEPT ![Zamek(p)] = PoUnlock(@)]
  /\ UNCHANGED <<wariant, rekord, cel>>

Krok(p) == record_db_lock(p) \/ process(p) \/ Przepelnienie(p) \/ record_db_unlock(p)

Next == \E p \in Pracownicy : Krok(p)
=============================================================================
