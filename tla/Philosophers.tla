---------------------------- MODULE Philosophers ----------------------------
(***************************************************************************)
(* wyk/deadlocks/code/dining_philosophers.c: N philosophers, a semaphore   *)
(* per chopstick; everyone takes the left one first.  (The nanosleeps fail *)
(* with EINVAL and return at once: their tv_nsec is out of range.)         *)
(***************************************************************************)
EXTENDS Integers

CONSTANTS N, ITERATIONS

VARIABLES chopsticks, pc, i

vars == <<chopsticks, pc, i>>

Filozofowie == 0..(N - 1)

Init ==
  /\ chopsticks = [c \in Filozofowie |-> 1]
  /\ pc = [f \in Filozofowie |-> "lewa"] /\ i = [f \in Filozofowie |-> 0]

left(f) == f
right(f) == (f + 1) % N

sem_wait(c) == chopsticks[c] > 0 /\ chopsticks' = [chopsticks EXCEPT ![c] = @ - 1]

sem_post(c) == chopsticks' = [chopsticks EXCEPT ![c] = @ + 1]

\* Mutant: the last iteration returns before its second sem_post.
OddajLewaZPowrotem(f) == IF i[f] + 1 < ITERATIONS THEN sem_post(left(f)) ELSE UNCHANGED chopsticks

OddajLewa(f) == sem_post(left(f))

Idz(f, dokad) == pc' = [pc EXCEPT ![f] = dokad]

\* Mutant: a philosopher may begin with either chopstick.
PierwszaDowolna(f) == sem_wait(left(f)) \/ sem_wait(right(f))

Pierwsza(f) == sem_wait(left(f))

philosopher(f) ==
  \/ /\ pc[f] = "lewa" /\ i[f] < ITERATIONS
     /\ Pierwsza(f) /\ Idz(f, "prawa") /\ UNCHANGED i
  \/ /\ pc[f] = "prawa" /\ sem_wait(right(f)) /\ Idz(f, "oddaj_prawa") /\ UNCHANGED i
  \/ /\ pc[f] = "oddaj_prawa" /\ sem_post(right(f)) /\ Idz(f, "oddaj_lewa") /\ UNCHANGED i
  \/ /\ pc[f] = "oddaj_lewa" /\ OddajLewa(f) /\ Idz(f, "lewa")
     /\ i' = [i EXCEPT ![f] = @ + 1]
  \/ /\ pc[f] = "lewa" /\ i[f] = ITERATIONS /\ Idz(f, "koniec") /\ UNCHANGED <<chopsticks, i>>

Next == \E f \in Filozofowie : philosopher(f)
----------------------------------------------------------------------------
Zakonczone == \A f \in Filozofowie : pc[f] = "koniec"

\* Nobody can take a step: everybody left waits for a chopstick that is taken.
Zakleszczenie ==
  /\ ~Zakonczone
  /\ \A f \in Filozofowie :
       \/ pc[f] = "koniec"
       \/ pc[f] = "lewa" /\ i[f] < ITERATIONS /\ chopsticks[left(f)] = 0
       \/ pc[f] = "prawa" /\ chopsticks[right(f)] = 0
=============================================================================
