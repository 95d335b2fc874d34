----------------------------- MODULE NumberRing -----------------------------
(***************************************************************************)
(* zadania_5/zadanie_1.c: the parent and two children pass one number      *)
(* round a ring of pipes, each adding a random amount, until somebody      *)
(* receives 0, sees a closed pipe or gets SIGINT.  read takes all the text *)
(* that is in the pipe, so two numbers there would be read as one.         *)
(***************************************************************************)
EXTENDS Integers, Sequences, FiniteSets

CONSTANTS Losowe,       \* the amounts rand() % 21 - 10 can give
          MaxLiczba     \* bound: numbers stay within -MaxLiczba..MaxLiczba

VARIABLES
  rura,      \* rura[p]: the numbers in the pipe that p reads
  pc, running, number,
  sigint     \* processes SIGINT has not reached yet; {"nikt"} before Ctrl+C

vars == <<rura, pc, running, number, sigint>>

Dzieci == {"d1", "d2"}
Procesy == Dzieci \union {"rodzic"}

\* P1 leads to d1, B to d2, P2 to the parent.
Nastepny(p) == CASE p = "rodzic" -> "d1" [] p = "d1" -> "d2" [] p = "d2" -> "rodzic"
Poprzedni(p) == CASE p = "rodzic" -> "d2" [] p = "d1" -> "rodzic" [] p = "d2" -> "d1"

\* The children are forked and the unused ends closed; the parent has written 1.
Init ==
  /\ rura = [p \in Procesy |-> IF p = "d1" THEN <<1>> ELSE <<>>]
  /\ pc = [p \in Procesy |-> "while"] /\ running = [p \in Procesy |-> TRUE]
  /\ number = [p \in Procesy |-> 0] /\ sigint = {"nikt"}

\* p has closed its ends of the pipes.
Zamkniete(p) == pc[p] \in {"wait", "wait2", "wait1", "koniec"}
Idz(p, x) == pc' = [pc EXCEPT ![p] = x]

CtrlC == sigint = {"nikt"} /\ sigint' = Procesy /\ UNCHANGED <<rura, pc, running, number>>

\* The handler; a read that is waiting fails with EINTR, and the loop ends.
\* A wait for a child fails as well, and is not repeated.
sigint_handler(p) ==
  /\ p \in sigint /\ sigint' = sigint \ {p}
  /\ running' = [running EXCEPT ![p] = FALSE]
  /\ Idz(p, CASE pc[p] = "czeka" -> "close" [] pc[p] = "wait" -> "wait1" [] pc[p] = "wait2" -> "koniec"
               [] OTHER -> pc[p])
  /\ UNCHANGED <<rura, number>>

\* Mutant: only an error of read ends the loop, not the end of file.
PoEofDalej(p) == Idz(p, "while")

PoEof(p) == Idz(p, "close")

Czytaj(p) ==
  /\ pc[p] \in {"read", "czeka"}
  /\ \/ /\ rura[p] # <<>> /\ number' = [number EXCEPT ![p] = Head(rura[p])]
        /\ rura' = [rura EXCEPT ![p] = <<>>] /\ Idz(p, "odebrano")
     \/ /\ rura[p] = <<>> /\ Zamkniete(Poprzedni(p)) /\ PoEof(p)
        /\ UNCHANGED <<rura, number>>
     \/ /\ rura[p] = <<>> /\ ~Zamkniete(Poprzedni(p)) /\ pc[p] = "read" /\ Idz(p, "czeka")
        /\ UNCHANGED <<rura, number>>
  /\ UNCHANGED <<running, sigint>>

\* Mutant: the number is written once more after a write that has succeeded.
PodajDwaRazy(p, x) ==
  IF number[p] # 0 /\ ~Zamkniete(Nastepny(p))
  THEN Idz(p, "while") /\ rura' = [rura EXCEPT ![Nastepny(p)] = @ \o <<x, x>>]
  ELSE Idz(p, "close") /\ UNCHANGED rura

\* write to a pipe nobody reads fails (SIGPIPE is ignored), and the loop ends.
Podaj(p, x) ==
  IF number[p] # 0 /\ ~Zamkniete(Nastepny(p))
  THEN Idz(p, "while") /\ rura' = [rura EXCEPT ![Nastepny(p)] = Append(@, x)]
  ELSE Idz(p, "close") /\ UNCHANGED rura

\* An iteration of the loop of children_work and of main.
Krok(p) ==
  \/ /\ pc[p] = "while" /\ Idz(p, IF running[p] THEN "read" ELSE "close")
     /\ UNCHANGED <<rura, running, number, sigint>>
  \/ Czytaj(p)
  \/ /\ pc[p] = "odebrano"
     /\ \E d \in Losowe : number[p] + d \in -MaxLiczba..MaxLiczba /\ Podaj(p, number[p] + d)
     /\ number' = [number EXCEPT ![p] = 0] /\ UNCHANGED <<running, sigint>>
  \/ /\ pc[p] = "close" /\ Idz(p, IF p = "rodzic" THEN "wait" ELSE "koniec")
     /\ UNCHANGED <<rura, running, number, sigint>>

\* Two waits of the parent: "wait1" is the second after one that SIGINT cut
\* off, "wait2" the second after one that collected a child.
Czekaj ==
  /\ \/ pc["rodzic"] = "wait" /\ (\E d \in Dzieci : pc[d] = "koniec") /\ Idz("rodzic", "wait2")
     \/ pc["rodzic"] = "wait2" /\ (\A d \in Dzieci : pc[d] = "koniec") /\ Idz("rodzic", "koniec")
     \/ pc["rodzic"] = "wait1" /\ (\E d \in Dzieci : pc[d] = "koniec") /\ Idz("rodzic", "koniec")
  /\ UNCHANGED <<rura, running, number, sigint>>

Next == CtrlC \/ Czekaj \/ \E p \in Procesy : sigint_handler(p) \/ Krok(p)
----------------------------------------------------------------------------
\* Numbers on their way: in the pipes or in the hands of a process.
WDrodze == Len(rura["rodzic"]) + Len(rura["d1"]) + Len(rura["d2"])
             + Cardinality({p \in Procesy : pc[p] = "odebrano"})
=============================================================================
