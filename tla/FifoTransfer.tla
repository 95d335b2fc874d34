---------------------------- MODULE FifoTransfer ----------------------------
(***************************************************************************)
(* lab_5/zadanie_1: clients send their files through one FIFO in blocks of *)
(* PIPE_BUF bytes, each with the sender's PID in front; the server prints  *)
(* the blocks until it sees end of file, then removes the FIFO.  A block   *)
(* is [pid, nr]: its letters and the zeros of its padding, which isalnum   *)
(* skips, are not told apart.                                              *)
(***************************************************************************)
EXTENDS Integers, Sequences

CONSTANTS Klienci, MaxBlokow, POJEMNOSC    \* POJEMNOSC: blocks the FIFO holds

VARIABLES
  plik,        \* the name: "brak", "jest", or "nowy" once the server has removed its FIFO
  fifo,        \* blocks in the FIFO
  pisarze,     \* processes that have it open for writing (or wait in open)
  serwer, pc,
  rozmiar, nr, \* blocks of a client's file, and how many it has sent
  wypisane,    \* what the server has printed
  spoznieni    \* history: clients that opened the FIFO after the server saw end of file

vars == <<plik, fifo, pisarze, serwer, pc, rozmiar, nr, wypisane, spoznieni>>

Init ==
  /\ plik \in {"brak", "jest"} /\ fifo = <<>> /\ pisarze = {}
  /\ serwer = "mkfifo" /\ pc = [k \in Klienci |-> "mkfifo"]
  /\ rozmiar \in [Klienci -> 0..MaxBlokow] /\ nr = [k \in Klienci |-> 0]
  /\ wypisane = <<>> /\ spoznieni = {}

Idz(k, x) == pc' = [pc EXCEPT ![k] = x]

\* The server has the FIFO open for reading (or waits in open).
JestCzytelnik == serwer \in {"open_czeka", "read", "close"}

\* open of either side waits for the other one, and each arrival wakes it.
SerwerOtwiera ==
  /\ \/ serwer = "mkfifo" /\ serwer' = "open" /\ plik' = "jest" /\ UNCHANGED pc
     \/ /\ serwer = "open" /\ serwer' = IF pisarze = {} THEN "open_czeka" ELSE "read"
        /\ pc' = [k \in Klienci |-> IF pc[k] = "open_czeka" THEN "pisz" ELSE pc[k]]
        /\ UNCHANGED plik
  /\ UNCHANGED <<fifo, pisarze, rozmiar, nr, wypisane, spoznieni>>

\* Mutant: an empty FIFO is taken for the end of file.
EofPusty == fifo = <<>>

Eof == fifo = <<>> /\ pisarze = {}

read_from_fifo ==
  /\ serwer = "read"
  /\ \/ Eof /\ serwer' = "close" /\ UNCHANGED <<fifo, wypisane>>
     \/ /\ fifo # <<>> /\ fifo' = Tail(fifo) /\ wypisane' = Append(wypisane, Head(fifo))
        /\ UNCHANGED serwer
  /\ UNCHANGED <<plik, pisarze, pc, rozmiar, nr, spoznieni>>

SerwerKonczy ==
  /\ \/ serwer = "close" /\ serwer' = "unlink" /\ UNCHANGED plik
     \/ serwer = "unlink" /\ serwer' = "koniec" /\ plik' = "brak"
  /\ UNCHANGED <<fifo, pisarze, pc, rozmiar, nr, wypisane, spoznieni>>

\* A client that creates the FIFO after the server has gone creates one
\* that nobody reads; open without the name is an error.
KlientOtwiera(k) ==
  /\ \/ /\ pc[k] = "mkfifo" /\ Idz(k, "open")
        /\ plik' = IF plik # "brak" THEN plik ELSE IF serwer = "koniec" THEN "nowy" ELSE "jest"
        /\ UNCHANGED <<pisarze, serwer, spoznieni>>
     \/ /\ pc[k] = "open" /\ plik = "brak" /\ Idz(k, "err")
        /\ UNCHANGED <<plik, pisarze, serwer, spoznieni>>
     \/ /\ pc[k] = "open" /\ plik # "brak" /\ pisarze' = pisarze \union {k}
        /\ Idz(k, IF JestCzytelnik THEN "pisz" ELSE "open_czeka")
        /\ serwer' = IF serwer = "open_czeka" THEN "read" ELSE serwer
        /\ spoznieni' = IF serwer = "close" THEN spoznieni \union {k} ELSE spoznieni
        /\ UNCHANGED plik
  /\ UNCHANGED <<fifo, rozmiar, nr, wypisane>>

\* Mutant: a client does not close the FIFO at the end of its file.
ZamknijNic(k) == Idz(k, "koniec") /\ UNCHANGED pisarze

Zamknij(k) == Idz(k, "koniec") /\ pisarze' = pisarze \ {k}

\* write waits for room, and without a reader it kills the client (SIGPIPE).
write_to_fifo(k) ==
  /\ pc[k] = "pisz"
  /\ \/ /\ nr[k] < rozmiar[k] /\ JestCzytelnik /\ Len(fifo) < POJEMNOSC
        /\ nr' = [nr EXCEPT ![k] = @ + 1]
        /\ fifo' = Append(fifo, [pid |-> k, nr |-> nr[k] + 1])
        /\ UNCHANGED <<pisarze, pc>>
     \/ /\ nr[k] < rozmiar[k] /\ ~JestCzytelnik /\ Idz(k, "sigpipe") /\ pisarze' = pisarze \ {k}
        /\ UNCHANGED <<fifo, nr>>
     \/ nr[k] = rozmiar[k] /\ Zamknij(k) /\ UNCHANGED <<fifo, nr>>
  /\ UNCHANGED <<plik, serwer, rozmiar, wypisane, spoznieni>>

Serwer == SerwerOtwiera \/ read_from_fifo \/ SerwerKonczy
Klient(k) == KlientOtwiera(k) \/ write_to_fifo(k)

Next == Serwer \/ \E k \in Klienci : Klient(k)
----------------------------------------------------------------------------
\* The blocks of client k in s are the first j of its file, each once and in order.
WCalosci(k, s, j) ==
  LET Jego == {l \in DOMAIN s : s[l].pid = k} IN
  /\ \A l \in Jego : s[l].nr \in 1..j
  /\ \A b \in 1..j : \E l \in Jego : s[l].nr = b
  /\ \A l1, l2 \in Jego : l1 < l2 => s[l1].nr < s[l2].nr
=============================================================================
