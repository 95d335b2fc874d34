---------------------------- MODULE RobustMutex ----------------------------
(***************************************************************************)
(* A process-shared pthread mutex as the programs use it (glibc).  Its     *)
(* state is one word: "zerowy" before pthread_mutex_init, when the zeroed  *)
(* memory acts as an ordinary mutex ("zerowy_zajety" when locked),         *)
(* "wolny", "zajety", "porzucony" after the death of an owner, "niespojny" *)
(* when locked with EOWNERDEAD and not made consistent, "stracony"         *)
(* (ENOTRECOVERABLE) and "zniszczony".                                     *)
(***************************************************************************)
MoznaZajac(m) == m \in {"zerowy", "wolny", "porzucony"}
BladLock(m) == m \in {"stracony", "zniszczony"}

\* pthread_mutex_lock; with EOWNERDEAD the state is "niespojny".
PoLock(m) == CASE m = "zerowy" -> "zerowy_zajety" [] m = "wolny" -> "zajety" [] m = "porzucony" -> "niespojny"

PoConsistent(m) == IF m = "niespojny" THEN "zajety" ELSE m

PoUnlock(m) == CASE m = "zerowy_zajety" -> "zerowy" [] m = "zajety" -> "wolny"
                 [] m = "niespojny" -> "stracony" [] OTHER -> m

\* The owner of a robust mutex dies; a zeroed mutex is not robust.
PoSmierci(m) == IF m \in {"zajety", "niespojny"} THEN "porzucony" ELSE m
=============================================================================
