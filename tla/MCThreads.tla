----------------------------- MODULE MCThreads -----------------------------
(***************************************************************************)
(* Threads on a small instance: values that a configuration cannot write.  *)
(***************************************************************************)
EXTENDS Threads, TLC

MCITERATIONS == [w \in {"race", "peterson_naive", "futex"} |-> 1]
                  @@ [w \in {"peterson_atomic", "atomic_swap", "atomic_tas", "semaphore"} |-> 2]

Raport(w, k, n, ok) == [y |-> w, x |-> k, nazwa |-> n, poprawny |-> ok]

MCTresc == <<Raport(0, 0, "Garda", TRUE), Raport(1, 0, "Garda", TRUE),
             Raport(0, 0, "Garda", FALSE), Raport(1, 0, "Huzarzy", TRUE)>>
=============================================================================
