--------------------------- MODULE BoundedBuffer ---------------------------
(***************************************************************************)
(* Producers and consumers over a ring in shared memory, as in             *)
(* wyk/sync2/code: bounded_buffer_cv.c with a mutex and two condition      *)
(* variables, one producer and one consumer, and bounded_buffer_sem.c with *)
(* three semaphores and two of each.                                       *)
(*                                                                         *)
(* In the first program everything is read and written under the mutex:    *)
(* one action is a section from lock (or the return of pthread_cond_wait)  *)
(* to unlock (or the next wait).                                           *)
(***************************************************************************)
EXTENDS Integers, Sequences, FiniteSets

CONSTANTS Producenci, Konsumenci, BUFFER_SIZE, ITERATIONS

VARIABLES
  wariant,           \* "cv" or "sem"
  items, in, out,    \* the ring
  size,              \* its field size (history only in the semaphore program)
  mtx, empty, nonempty,  \* values of the semaphores
  pc, i,             \* each process: where it is, and its loop counter
  item               \* item of each consumer

Procesy == Producenci \cup Konsumenci
\* bounded_buffer_cv.c forks one consumer; the parent is the producer.
Uczestnicy == IF wariant = "sem" THEN Procesy
              ELSE {CHOOSE p \in Producenci : TRUE, CHOOSE k \in Konsumenci : TRUE}
Elementy == Producenci \X (0..(ITERATIONS - 1))

wspolne == <<items, in, out, size, mtx, empty, nonempty>>
vars == <<wariant, wspolne, pc, i, item>>

Init ==
  /\ wariant \in {"cv", "sem"}
  /\ items = [k \in 0..(BUFFER_SIZE - 1) |-> <<>>] /\ in = 0 /\ out = 0 /\ size = 0
  /\ mtx = 1 /\ empty = BUFFER_SIZE /\ nonempty = 0
  /\ pc = [p \in Uczestnicy |-> "petla"]
  /\ i = [p \in Uczestnicy |-> 0]
  /\ item = [k \in Konsumenci |-> <<>>]

Idz(p, dokad) == pc' = [pc EXCEPT ![p] = dokad]

\* Mutant: a producer writes one cell behind in.
WlozDalej(p) ==
  /\ items' = [items EXCEPT ![(in + 1) % BUFFER_SIZE] = <<p, i[p]>>]
  /\ in' = (in + 1) % BUFFER_SIZE
  /\ size' = size + 1
  /\ UNCHANGED <<out, item>>

Wloz(p) ==
  /\ items' = [items EXCEPT ![in] = <<p, i[p]>>]
  /\ in' = (in + 1) % BUFFER_SIZE
  /\ size' = size + 1
  /\ UNCHANGED <<out, item>>

Wyjmij(k) ==
  /\ item' = [item EXCEPT ![k] = items[out]]
  /\ out' = (out + 1) % BUFFER_SIZE
  /\ size' = size - 1
  /\ UNCHANGED <<items, in>>

\* Mutant: no signal is sent.
BezSygnalu(p) == Idz(p, "petla")

\* pthread_cond_signal on the condition the other side sleeps on.
Sygnal(p) ==
  LET spiacy == {q \in Uczestnicy : pc[q] = "spi" /\ (q \in Producenci <=> p \in Konsumenci)}
  IN IF spiacy = {} THEN Idz(p, "petla")
     ELSE \E q \in spiacy : pc' = [pc EXCEPT ![p] = "petla", ![q] = "obudzony"]

\* A section of bounded_buffer_cv.c: wait, or use the ring and signal.
SekcjaCv(p) ==
  LET czeka == IF p \in Producenci THEN size >= BUFFER_SIZE ELSE size = 0 IN
  /\ wariant = "cv"
  /\ pc[p] = "obudzony" \/ (pc[p] = "petla" /\ i[p] < ITERATIONS)
  /\ \/ czeka /\ Idz(p, "spi") /\ UNCHANGED <<i, item, items, in, out, size>>
     \/ /\ ~czeka
        /\ IF p \in Producenci THEN Wloz(p) ELSE Wyjmij(p)
        /\ Sygnal(p)
        /\ i' = [i EXCEPT ![p] = @ + 1]
  /\ UNCHANGED <<wariant, mtx, empty, nonempty>>

\* The five steps of an iteration of bounded_buffer_sem.c.
KrokSem(p) ==
  /\ wariant = "sem"
  /\ \/ /\ pc[p] = "petla" /\ i[p] < ITERATIONS
        /\ \/ p \in Producenci /\ empty > 0 /\ empty' = empty - 1 /\ UNCHANGED nonempty
           \/ p \in Konsumenci /\ nonempty > 0 /\ nonempty' = nonempty - 1 /\ UNCHANGED empty
        /\ Idz(p, "wait_mtx")
        /\ UNCHANGED <<items, in, out, size, mtx, i, item>>
     \/ /\ pc[p] = "wait_mtx" /\ mtx > 0 /\ mtx' = mtx - 1
        /\ Idz(p, "sekcja")
        /\ UNCHANGED <<items, in, out, size, empty, nonempty, i, item>>
     \/ /\ pc[p] = "sekcja"
        /\ IF p \in Producenci THEN Wloz(p) ELSE Wyjmij(p)
        /\ Idz(p, "post_mtx")
        /\ UNCHANGED <<mtx, empty, nonempty, i>>
     \/ /\ pc[p] = "post_mtx" /\ mtx' = mtx + 1
        /\ Idz(p, "post")
        /\ UNCHANGED <<items, in, out, size, empty, nonempty, i, item>>
     \/ /\ pc[p] = "post"
        /\ \/ p \in Producenci /\ nonempty' = nonempty + 1 /\ UNCHANGED empty
           \/ p \in Konsumenci /\ empty' = empty + 1 /\ UNCHANGED nonempty
        /\ i' = [i EXCEPT ![p] = @ + 1]
        /\ Idz(p, "petla")
        /\ UNCHANGED <<items, in, out, size, mtx, item>>
  /\ UNCHANGED wariant

\* The end of a process; the parent waits for all of them.
Koniec(p) ==
  /\ pc[p] = "petla" /\ i[p] = ITERATIONS
  /\ Idz(p, "koniec")
  /\ UNCHANGED <<wariant, wspolne, i, item>>

Krok(p) == SekcjaCv(p) \/ KrokSem(p) \/ Koniec(p)

Next == \E p \in Uczestnicy : Krok(p)

Fairness == \A p \in Procesy : WF_vars(p \in Uczestnicy /\ Krok(p))

Spec == Init /\ [][Next]_vars /\ Fairness
----------------------------------------------------------------------------
Zawartosc == [n \in 1..size |-> items[(out + n - 1) % BUFFER_SIZE]]
Fifo == INSTANCE BoundedFifo WITH Pojemnosc <- BUFFER_SIZE,
          zawartosc <- Zawartosc, wziety <- item

Zakonczone == \A p \in Uczestnicy : pc[p] = "koniec"
=============================================================================
