---------------------------- MODULE BoundedFifo ----------------------------
(***************************************************************************)
(* What a bounded queue between threads promises: elements leave in the    *)
(* order in which they came, each of them to one consumer, and there are   *)
(* never more of them inside than the queue has room for.                  *)
(***************************************************************************)
EXTENDS Naturals, Sequences

CONSTANTS Elementy, Konsumenci, Pojemnosc

VARIABLES
  zawartosc,   \* the elements inside, oldest first
  wziety       \* the last element each consumer has taken

Init == zawartosc = <<>>

Wloz == \E e \in Elementy :
  /\ Len(zawartosc) < Pojemnosc
  /\ zawartosc' = Append(zawartosc, e)
  /\ UNCHANGED wziety

Wyjmij == \E k \in Konsumenci :
  /\ zawartosc # <<>>
  /\ wziety' = [wziety EXCEPT ![k] = Head(zawartosc)]
  /\ zawartosc' = Tail(zawartosc)

Next == Wloz \/ Wyjmij
=============================================================================
