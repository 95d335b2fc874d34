----------------------------- MODULE LetterPipes -----------------------------
(***************************************************************************)
(* lab_5/zadanie_2.  In zad_2_1.c every child sends one letter through the *)
(* common pipe R.  In zad_2_2.c the parent, on SIGINT, sends a letter to a *)
(* random child through its pipe P, and the child answers with a length s  *)
(* and s copies of the letter; SIGINT reaches the children too, and kills  *)
(* some of them.  A byte of R is a length s or LITERA.                     *)
(***************************************************************************)
EXTENDS Integers, Sequences

CONSTANTS N,            \* children 0..N-1
          Dlugosci,     \* lengths a child may draw, of 1..MAX_BUFF
          MaxSigint     \* bound: how often Ctrl+C is pressed

VARIABLES
  wariant,                     \* "2_1" or "2_2"
  P, otwarta,                  \* letters in the pipe of child k; the parent still has its end (P[k][1] # -1)
  R, pc, rodzic,
  sigint_received, ile, wiadomosc, odebrano,
  sig, sigchld, ileSigint      \* SIGINT not yet delivered, SIGCHLD of the parent, presses of Ctrl+C

vars == <<wariant, P, otwarta, R, pc, rodzic, sigint_received, ile, wiadomosc, odebrano, sig, sigchld, ileSigint>>

Dzieci == 0..N-1
LITERA == 0

Init ==
  /\ wariant \in {"2_1", "2_2"}
  /\ P = [k \in Dzieci |-> 0] /\ otwarta = [k \in Dzieci |-> TRUE] /\ R = <<>>
  /\ pc = [k \in Dzieci |-> IF wariant = "2_1" THEN "pisz" ELSE "read"]
  /\ rodzic = IF wariant = "2_1" THEN "read" ELSE "test"
  /\ sigint_received = FALSE /\ ile = 0 /\ wiadomosc = <<>> /\ odebrano = 0
  /\ sig = {} /\ sigchld = FALSE /\ ileSigint = 0

\* Mutant: the parent keeps its own writing end of R.
PisarzeZRodzicem == Dzieci

\* The processes that have R open for writing: the children that live.
Pisarze == {k \in Dzieci : pc[k] # "koniec"}

Idz(k, x) == pc' = [pc EXCEPT ![k] = x]

\* zad_2_1.c: the child's letter and its exit; the parent's loop, its wait.
Dziecko1(k) ==
  /\ \/ pc[k] = "pisz" /\ R' = Append(R, LITERA) /\ Idz(k, "close")
     \/ pc[k] = "close" /\ Idz(k, "koniec") /\ UNCHANGED R
  /\ UNCHANGED <<wariant, P, otwarta, rodzic, sigint_received, ile, wiadomosc, odebrano, sig, sigchld, ileSigint>>

Rodzic1 ==
  /\ wariant = "2_1"
  /\ \/ rodzic = "read" /\ R # <<>> /\ R' = Tail(R) /\ odebrano' = odebrano + 1 /\ UNCHANGED rodzic
     \/ rodzic = "read" /\ R = <<>> /\ Pisarze = {} /\ rodzic' = "wait" /\ UNCHANGED <<R, odebrano>>
     \/ rodzic = "wait" /\ (\A k \in Dzieci : pc[k] = "koniec") /\ rodzic' = "koniec" /\ UNCHANGED <<R, odebrano>>
  /\ UNCHANGED <<wariant, P, otwarta, pc, sigint_received, ile, wiadomosc, sig, sigchld, ileSigint>>

\* Mutant: s bytes are written instead of s + 1.
OdpowiedzKrotka(s) == <<s>> \o [l \in 1..s - 1 |-> LITERA]

\* The bytes of a child's answer: one write, shorter than PIPE_BUF.
Odpowiedz(s) == <<s>> \o [l \in 1..s |-> LITERA]

child_work(k) ==
  /\ \/ pc[k] = "read" /\ P[k] > 0 /\ P' = [P EXCEPT ![k] = @ - 1] /\ Idz(k, "pisz") /\ UNCHANGED R
     \/ pc[k] = "read" /\ P[k] = 0 /\ (~otwarta[k] \/ rodzic = "koniec") /\ Idz(k, "err") /\ UNCHANGED <<P, R>>
     \/ /\ pc[k] = "pisz" /\ Idz(k, "read") /\ UNCHANGED P
        /\ \E s \in Dlugosci : R' = R \o Odpowiedz(s)
  /\ UNCHANGED <<wariant, otwarta, rodzic, sigint_received, ile, wiadomosc, odebrano, sig, sigchld, ileSigint>>

\* Ctrl+C reaches every process of the group that lives.
CtrlC ==
  /\ wariant = "2_2" /\ ileSigint < MaxSigint /\ ileSigint' = ileSigint + 1
  /\ rodzic \notin {"koniec", "echild"} /\ sig' = Pisarze \union {N}
  /\ UNCHANGED <<wariant, P, otwarta, R, pc, rodzic, sigint_received, ile, wiadomosc, odebrano, sigchld>>

\* One child in five exits in the handler.
sigint_child(k) ==
  /\ k \in sig /\ sig' = sig \ {k}
  /\ \/ Idz(k, "koniec") /\ sigchld' = TRUE
     \/ UNCHANGED <<pc, sigchld>>
  /\ UNCHANGED <<wariant, P, otwarta, R, rodzic, sigint_received, ile, wiadomosc, odebrano, ileSigint>>

\* A handler of the parent (number N) cuts off a read that is waiting; errno
\* is EINTR then, and the parent is about to test it.
Przerwij == IF rodzic = "czeka" THEN "eintr" ELSE rodzic

sigint_parent ==
  /\ N \in sig /\ sig' = sig \ {N} /\ sigint_received' = TRUE /\ rodzic' = Przerwij
  /\ UNCHANGED <<wariant, P, otwarta, R, pc, ile, wiadomosc, odebrano, sigchld, ileSigint>>

\* When no child is left the last waitpid sets errno to ECHILD; a parent that
\* has not tested its EINTR yet then takes it for an error of read.
sigchild_handler ==
  /\ sigchld /\ sigchld' = FALSE
  /\ rodzic' = IF rodzic = "eintr" /\ \A k \in Dzieci : pc[k] = "koniec" THEN "echild" ELSE Przerwij
  /\ UNCHANGED <<wariant, P, otwarta, R, pc, sigint_received, ile, wiadomosc, odebrano, sig, ileSigint>>

\* The first child from w on, cyclically, whose pipe is open (w if there is none).
Wylosowane(w) ==
  LET Od(p) == (w + p) % N IN
  IF \A k \in Dzieci : ~otwarta[k] THEN w
  ELSE Od(CHOOSE p \in Dzieci : otwarta[Od(p)] /\ \A q \in 0..p - 1 : ~otwarta[Od(q)])

\* The letter for one child; a pipe whose child is dead is closed instead.
PoslijLitere(k) ==
  IF otwarta[k] /\ pc[k] \in {"koniec", "err"}
  THEN otwarta' = [otwarta EXCEPT ![k] = FALSE] /\ UNCHANGED P
  ELSE P' = (IF otwarta[k] THEN [P EXCEPT ![k] = @ + 1] ELSE P) /\ UNCHANGED otwarta

TestFlagi ==
  /\ \/ rodzic = "test" /\ ~sigint_received /\ rodzic' = "przed" /\ UNCHANGED <<P, otwarta, sigint_received>>
     \/ /\ rodzic = "test" /\ sigint_received /\ rodzic' = "zeruj"
        /\ \E w \in Dzieci : PoslijLitere(Wylosowane(w))
        /\ UNCHANGED sigint_received
     \/ rodzic = "zeruj" /\ sigint_received' = FALSE /\ rodzic' = "przed" /\ UNCHANGED <<P, otwarta>>
     \/ rodzic = "eintr" /\ rodzic' = "test" /\ UNCHANGED <<P, otwarta, sigint_received>>
  /\ UNCHANGED <<R, ile, wiadomosc, odebrano>>

\* The length, then the text; too little of it is an error.
CzytajRamke ==
  /\ \/ /\ rodzic \in {"przed", "czeka"} /\ R # <<>> /\ ile' = Head(R) /\ R' = Tail(R) /\ rodzic' = "dane"
        /\ UNCHANGED <<wiadomosc, odebrano>>
     \/ /\ rodzic \in {"przed", "czeka"} /\ R = <<>> /\ Pisarze = {} /\ rodzic' = "koniec"
        /\ UNCHANGED <<R, ile, wiadomosc, odebrano>>
     \/ /\ rodzic = "przed" /\ R = <<>> /\ Pisarze # {} /\ rodzic' = "czeka"
        /\ UNCHANGED <<R, ile, wiadomosc, odebrano>>
     \/ /\ rodzic = "dane" /\ Len(R) < ile /\ rodzic' = "err"
        /\ UNCHANGED <<R, ile, wiadomosc, odebrano>>
     \/ /\ rodzic = "dane" /\ Len(R) >= ile /\ rodzic' = "test"
        /\ wiadomosc' = SubSeq(R, 1, ile) /\ R' = SubSeq(R, ile + 1, Len(R))
        /\ odebrano' = odebrano + 1 /\ UNCHANGED ile
  /\ UNCHANGED <<P, otwarta, sigint_received>>

Rodzic2 ==
  /\ wariant = "2_2" /\ (TestFlagi \/ CzytajRamke)
  /\ UNCHANGED <<wariant, pc, sig, sigchld, ileSigint>>

Dziecko(k) == IF wariant = "2_1" THEN Dziecko1(k) ELSE child_work(k)
Sygnaly == sigint_parent \/ sigchild_handler \/ \E k \in Dzieci : sigint_child(k)

Next == Rodzic1 \/ Rodzic2 \/ CtrlC \/ Sygnaly \/ \E k \in Dzieci : Dziecko(k)
=============================================================================
