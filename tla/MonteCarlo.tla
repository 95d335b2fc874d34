----------------------------- MODULE MonteCarlo -----------------------------
(***************************************************************************)
(* lab_6/zad1.c, and the program of the course it follows (l6-1.c): n      *)
(* children estimate pi, each writes its result to pi[i] and a line to the *)
(* mapped log; the parent waits for all of them and prints the average.    *)
(* zad1.c sizes the log for 8 lines whatever n is, so the lines of further *)
(* children land behind the end of the file and are not kept.              *)
(***************************************************************************)
EXTENDS Integers, FiniteSets, Functions

CONSTANTS
  NMax,      \* children
  LINIE,     \* lines zad1.c makes room for, 8 in the code
  Wyniki     \* estimates a child may come to

VARIABLES
  wariant,        \* "zad1" or "l6_1"
  N, i,           \* the argument, and children forked
  wynik, pi, log, \* what each child has computed, the shared array and the file
  pc, suma        \* the children, and the parent's sum (-1 before it is known)

vars == <<wariant, N, i, wynik, pi, log, pc, suma>>

Dzieci == 0..(N - 1)

Init ==
  /\ wariant \in {"zad1", "l6_1"} /\ N \in 1..NMax /\ i = 0
  /\ wynik = [d \in Dzieci |-> 0] /\ pi = wynik /\ log = wynik
  /\ pc = [d \in Dzieci |-> "brak"] /\ suma = -1

\* zad1.c forks 0, 1, ..., create_children of l6-1.c counts n down.
Fork ==
  LET d == IF wariant = "zad1" THEN i ELSE N - 1 - i IN
  /\ i < N /\ i' = i + 1
  /\ pc' = [pc EXCEPT ![d] = "licz"]
  /\ UNCHANGED <<wariant, N, wynik, pi, log, suma>>

WPliku(d) == wariant = "l6_1" \/ d < LINIE

\* children_work of zad1.c, child_work of l6-1.c.
children_work(d) ==
  /\ \/ /\ pc[d] = "licz"
        /\ \E w \in Wyniki : wynik' = [wynik EXCEPT ![d] = w] /\ pi' = [pi EXCEPT ![d] = w]
        /\ pc' = [pc EXCEPT ![d] = "log"] /\ UNCHANGED log
     \/ /\ pc[d] = "log"
        /\ log' = [log EXCEPT ![d] = IF WPliku(d) THEN pi[d] ELSE @]
        /\ pc' = [pc EXCEPT ![d] = "koniec"] /\ UNCHANGED <<wynik, pi>>
  /\ UNCHANGED <<wariant, N, i, suma>>

\* Mutant: one wait() in place of the loop.
WaitRaz == \E d \in Dzieci : pc[d] = "koniec"

WaitDoKonca == \A d \in Dzieci : pc[d] = "koniec"

Suma(f) == FoldFunction(+, 0, f)

parent_work ==
  /\ i = N /\ suma = -1 /\ WaitDoKonca
  /\ suma' = Suma(pi)
  /\ UNCHANGED <<wariant, N, i, wynik, pi, log, pc>>

Next == Fork \/ parent_work \/ \E d \in Dzieci : children_work(d)
=============================================================================
