--------------------------- MODULE Sockets_proofs ---------------------------
(***************************************************************************)
(* Proofs about the stream socket servers (Sockets), for any clients, any  *)
(* requests, PIDs, descriptors and electors and words of any even width:   *)
(* first the arithmetic of words and of their network order, then an       *)
(* inductive invariant for each server, then the theorems about Spec.      *)
(***************************************************************************)
EXTENDS Sockets, DataLemmas

(* Quotient and remainder are the only pair that satisfies the equation of
   the division. *)
LEMMA DzielenieJedno ==
  ASSUME NEW n \in Nat \ {0}, NEW q \in Int, NEW r \in 0..(n - 1), NEW x \in Int, x = q * n + r
  PROVE  x % n = r /\ x \div n = q
<1>1. PICK p \in Int, s \in 0..(n - 1) : p = x \div n /\ s = x % n /\ x = p * n + s
  <2>1. x \div n \in Int /\ x % n \in 0..(n - 1) /\ x = (x \div n) * n + (x % n)
    BY Dzielenie
  <2>. QED
    BY <2>1
<1>2. (p - q) * n = r - s
  BY <1>1
<1>3. ~(p >= q + 1)
  <2>1. p - q >= 1 => (p - q) * n >= n
    OBVIOUS
  <2>. QED
    BY <1>1, <1>2, <2>1
<1>4. ~(q >= p + 1)
  <2>1. q - p >= 1 => (q - p) * n >= n
    OBVIOUS
  <2>. QED
    BY <1>1, <1>2, <2>1
<1>5. p = q
  BY <1>1, <1>3, <1>4
<1>. QED
  BY <1>1, <1>2, <1>5

(* A multiple of n leaves no remainder. *)
LEMMA Wielokrotnosc ==
  ASSUME NEW n \in Nat \ {0}, NEW q \in Int
  PROVE  (q * n) % n = 0
<1>1. q * n \in Int /\ q * n = q * n + 0 /\ 0 \in 0..(n - 1)
  OBVIOUS
<1>. QED
  BY <1>1, DzielenieJedno

(* A word has twice as many values as numbers below MAX + 1. *)
LEMMA SlowoLemma ==
  /\ C!SLOWO \in Nat /\ C!SLOWO >= 4 /\ C!SLOWO = POLSLOWA * POLSLOWA
  /\ C!MAX \in Nat /\ C!MAX >= 1 /\ C!MIN \in Int /\ C!MIN = -(C!MAX + 1)
  /\ C!SLOWO = 2 * (C!MAX + 1)
<1>1. PICK j \in Nat : POLSLOWA = 2 * j /\ j >= 1
  <2>1. /\ POLSLOWA \div 2 \in Int /\ POLSLOWA = 2 * (POLSLOWA \div 2) + (POLSLOWA % 2)
        /\ POLSLOWA >= 2 /\ POLSLOWA % 2 = 0
    BY KalkulatorStaly
  <2>. QED
    BY <2>1
<1>2. POLSLOWA \in Nat /\ C!SLOWO = POLSLOWA * POLSLOWA
  BY KalkulatorStaly DEF C!SLOWO
<1> DEFINE p == j * POLSLOWA
<1>3. p \in Nat /\ C!SLOWO = p * 2 + 0
  BY <1>1, <1>2
<1>4. p >= 2
  BY <1>1, <1>2
<1> HIDE DEF p
<1>5. C!SLOWO \div 2 = p
  BY <1>3, DzielenieJedno
<1>. QED
  BY <1>2, <1>3, <1>4, <1>5 DEF C!MAX, C!MIN

(* A number below SLOWO has two halves, and the conversion swaps them. *)
LEMMA ZamienLemma ==
  ASSUME NEW u \in 0..(C!SLOWO - 1)
  PROVE  C!Zamien(u) \in 0..(C!SLOWO - 1) /\ C!Zamien(C!Zamien(u)) = u
<1> DEFINE h == POLSLOWA
           a == u % h
           b == u \div h
           v == a * h + b
<1>1. h \in Nat \ {0} /\ C!SLOWO = h * h /\ u \in Int /\ 0 <= u /\ u < h * h
  BY KalkulatorStaly, SlowoLemma
<1> HIDE DEF h
<1>2. a \in 0..(h - 1) /\ b \in Int /\ u = b * h + a
  BY <1>1, Dzielenie
<1> HIDE DEF a, b
<1>3. b >= 0
  <2>1. b <= -1 => b * h <= -h
    BY <1>1, <1>2
  <2>. QED
    BY <1>1, <1>2, <2>1
<1>4. b <= h - 1
  <2>1. b >= h => b * h >= h * h
    BY <1>1, <1>2
  <2>. QED
    BY <1>1, <1>2, <2>1
<1>5. a * h <= h * h - h /\ a * h >= 0
  BY <1>1, <1>2
<1>6. v \in 0..(h * h - 1)
  BY <1>1, <1>2, <1>3, <1>4, <1>5
<1>7. v % h = b /\ v \div h = a
  <2>1. b \in 0..(h - 1) /\ a \in Int /\ v \in Int /\ v = a * h + b
    BY <1>1, <1>2, <1>3, <1>4, <1>6
  <2> HIDE DEF v
  <2>. QED
    BY <1>1, <2>1, DzielenieJedno
<1>8. C!Zamien(u) = v
  BY DEF C!Zamien, h, a, b
<1>9. C!Zamien(v) = b * h + a
  BY <1>7 DEF C!Zamien, h
<1>. QED
  BY <1>1, <1>2, <1>6, <1>8, <1>9

(* A word that is sent arrives as it was. *)
LEMMA SiecLemma ==
  ASSUME NEW x \in C!MIN..C!MAX
  PROVE  C!htonl(x) \in 0..(C!SLOWO - 1) /\ C!ntohl(C!htonl(x)) = x
<1> DEFINE s == C!SLOWO
           u == x % s
<1>1. s \in Nat \ {0} /\ s = 2 * (C!MAX + 1) /\ C!MIN = -(C!MAX + 1) /\ C!MAX \in Nat /\ x \in Int
  BY SlowoLemma
<1> HIDE DEF s
<1>2. u = IF x < 0 THEN x + s ELSE x
  <2>1. CASE x < 0
    <3>1. x = (-1) * s + (x + s) /\ x + s \in 0..(s - 1) /\ -1 \in Int
      BY <1>1, <2>1
    <3> DEFINE t == x + s
    <3> HIDE DEF t
    <3>2. x = (-1) * s + t /\ t \in 0..(s - 1)
      BY <3>1 DEF t
    <3>3. u = t
      BY <1>1, <3>1, <3>2, DzielenieJedno
    <3>. QED
      BY <2>1, <3>3 DEF t
  <2>2. CASE ~(x < 0)
    <3>1. x = 0 * s + x /\ x \in 0..(s - 1)
      BY <1>1, <2>2
    <3>2. u = x
      BY <1>1, <3>1, DzielenieJedno
    <3>. QED
      BY <2>2, <3>2
  <2>. QED
    BY <2>1, <2>2
<1>3. u \in 0..(s - 1)
  BY <1>1, <1>2
<1> HIDE DEF u
<1>4. C!Zamien(u) \in 0..(s - 1) /\ C!Zamien(C!Zamien(u)) = u
  BY <1>3, ZamienLemma DEF s
<1>5. C!htonl(x) = C!Zamien(u)
  BY DEF C!htonl, u, s
<1>6. C!ntohl(C!Zamien(u)) = IF u > C!MAX THEN u - s ELSE u
  BY <1>4 DEF C!ntohl, s
<1>. QED
  BY <1>1, <1>2, <1>4, <1>5, <1>6 DEF s

(* Wrapping gives a word that differs from the number by a multiple of SLOWO. *)
LEMMA ZawinLemma ==
  ASSUME NEW x \in Int
  PROVE  C!Zawin(x) \in C!MIN..C!MAX /\ (C!Zawin(x) - x) % C!SLOWO = 0
<1> DEFINE s == C!SLOWO
           y == x - C!MIN
           q == y \div s
<1>1. s \in Nat \ {0} /\ s = 2 * (C!MAX + 1) /\ C!MIN = -(C!MAX + 1) /\ C!MAX \in Nat /\ y \in Int
  BY SlowoLemma
<1>2. C!Zawin(x) = (y % s) + C!MIN
  BY DEF C!Zawin
<1> HIDE DEF s, y
<1>3. y % s \in 0..(s - 1) /\ q \in Int /\ y = q * s + (y % s)
  BY <1>1, Dzielenie
<1> HIDE DEF q
<1>4. C!Zawin(x) - x = (-q) * s /\ -q \in Int
  BY <1>1, <1>2, <1>3 DEF y
<1>5. ((-q) * s) % s = 0
  BY <1>1, <1>4, Wielokrotnosc
<1>. QED
  BY <1>1, <1>2, <1>3, <1>4, <1>5 DEF s

(* A quotient that exists is a word, and its remainder is smaller than the
   divisor and has the sign of the dividend. *)
DobryIloraz(a, b, w) ==
  LET reszta == a - w * b
      Modul(x) == IF x < 0 THEN -x ELSE x
  IN  Modul(reszta) < Modul(b) /\ reszta * a >= 0

LEMMA IlorazLemma ==
  ASSUME NEW a \in C!MIN..C!MAX, NEW b \in C!MIN..C!MAX, b # 0, ~(a = C!MIN /\ b = -1)
  PROVE  C!Iloraz(a, b) \in C!MIN..C!MAX /\ DobryIloraz(a, b, C!Iloraz(a, b))
<1> DEFINE A == IF a < 0 THEN -a ELSE a
           B == IF b < 0 THEN -b ELSE b
           q == A \div B
           s == A % B
<1>1. a \in Int /\ b \in Int /\ C!MAX \in Nat /\ C!MIN = -(C!MAX + 1) /\ a >= C!MIN /\ a <= C!MAX
  BY SlowoLemma
<1>2. A \in Nat /\ B \in Nat \ {0} /\ A <= C!MAX + 1
  BY <1>1
<1>3. C!Iloraz(a, b) = IF (a < 0) = (b < 0) THEN q ELSE -q
  BY DEF C!Iloraz
<1>4. (a < 0 => A = -a) /\ (~(a < 0) => A = a) /\ (b < 0 => B = -b) /\ (~(b < 0) => B = b)
  OBVIOUS
<1> HIDE DEF A, B
<1>5. q \in Int /\ s \in 0..(B - 1) /\ A = q * B + s
  BY <1>2, Dzielenie
<1> HIDE DEF q, s
<1>6. q >= 0
  <2>1. q <= -1 => q * B <= -B
    BY <1>2, <1>5
  <2>. QED
    BY <1>2, <1>5, <2>1
<1>7. q <= A /\ (B >= 2 /\ A >= 1 => q < A)
  <2>1. q * B >= q
    BY <1>2, <1>5, <1>6
  <2>2. B >= 2 => q * B >= 2 * q
    BY <1>2, <1>5, <1>6
  <2>. QED
    BY <1>2, <1>5, <1>6, <2>1, <2>2
<1>8. CASE a < 0 /\ b < 0
  <2>1. C!Iloraz(a, b) = q
    BY <1>3, <1>8
  <2>2. B = 1 => A # C!MAX + 1
    BY <1>1, <1>4, <1>8
  <2>3. q <= C!MAX
    BY <1>1, <1>2, <1>5, <1>7, <2>2
  <2>4. q * B = -(q * b)
    BY <1>1, <1>4, <1>5, <1>8
  <2>5. a - q * b = -s
    BY <1>1, <1>4, <1>5, <1>8, <2>4
  <2>6. (-s) * a >= 0
    BY <1>1, <1>5, <1>8
  <2>7. DobryIloraz(a, b, q)
    BY <1>1, <1>4, <1>5, <1>8, <2>5, <2>6 DEF DobryIloraz
  <2>. QED
    BY <1>1, <1>5, <1>6, <2>1, <2>3, <2>7
<1>9. CASE ~(a < 0) /\ ~(b < 0)
  <2>1. C!Iloraz(a, b) = q
    BY <1>3, <1>9
  <2>2. q <= C!MAX
    BY <1>1, <1>2, <1>4, <1>5, <1>7, <1>9
  <2>3. a - q * b = s
    BY <1>1, <1>4, <1>5, <1>9
  <2>4. s * a >= 0
    BY <1>1, <1>5, <1>9
  <2>5. DobryIloraz(a, b, q)
    BY <1>1, <1>4, <1>5, <1>9, <2>3, <2>4 DEF DobryIloraz
  <2>. QED
    BY <1>1, <1>5, <1>6, <2>1, <2>2, <2>5
<1>10. CASE a < 0 /\ ~(b < 0)
  <2>1. C!Iloraz(a, b) = -q
    BY <1>3, <1>10
  <2>2. (-q) * b = -(q * B)
    BY <1>1, <1>4, <1>5, <1>10
  <2>3. a - (-q) * b = -s
    BY <1>1, <1>2, <1>4, <1>5, <1>10, <2>2
  <2>4. (-s) * a >= 0
    BY <1>1, <1>5, <1>10
  <2>5. DobryIloraz(a, b, -q)
    BY <1>1, <1>4, <1>5, <1>10, <2>3, <2>4 DEF DobryIloraz
  <2>. QED
    BY <1>1, <1>2, <1>5, <1>6, <1>7, <2>1, <2>5
<1>11. CASE ~(a < 0) /\ b < 0
  <2>1. C!Iloraz(a, b) = -q
    BY <1>3, <1>11
  <2>2. (-q) * b = q * B
    BY <1>1, <1>4, <1>5, <1>11
  <2>3. a - (-q) * b = s
    BY <1>1, <1>2, <1>4, <1>5, <1>11, <2>2
  <2>4. s * a >= 0
    BY <1>1, <1>5, <1>11
  <2>5. DobryIloraz(a, b, -q)
    BY <1>1, <1>4, <1>5, <1>11, <2>3, <2>4 DEF DobryIloraz
  <2>. QED
    BY <1>1, <1>2, <1>5, <1>6, <1>7, <2>1, <2>5
<1>. QED
  BY <1>8, <1>9, <1>10, <1>11

-----------------------------------------------------------------------------
(* The calculator. *)

Slowa(z) == z.op1 \in C!MIN..C!MAX /\ z.op2 \in C!MIN..C!MAX /\ z.op \in C!MIN..C!MAX

(* The operations that have a result. *)
Wykonalne(z) == z.op \in {C!Plus, C!Minus, C!Razy} \/ (z.op = C!Dziel /\ z.op2 # 0)

(* w is the result of request z. *)
DobryWynik(z, w) ==
  /\ w \in C!MIN..C!MAX
  /\ z.op = C!Plus => (w - z.op1 - z.op2) % C!SLOWO = 0
  /\ z.op = C!Minus => (w - z.op1 + z.op2) % C!SLOWO = 0
  /\ z.op = C!Razy => (w - z.op1 * z.op2) % C!SLOWO = 0
  /\ z.op = C!Dziel => DobryIloraz(z.op1, z.op2, w)

(* The five words d are the answer to request z. *)
DobraOdpowiedz(z, d) ==
  /\ C!ntohl(d[1]) = z.op1 /\ C!ntohl(d[2]) = z.op2 /\ C!ntohl(d[4]) = z.op
  /\ C!ntohl(d[5]) = 1 <=> Wykonalne(z)
  /\ Wykonalne(z) => DobryWynik(z, C!ntohl(d[3]))

(* What calculate makes of a request that raises no exception. *)
LEMMA CalculateLemma ==
  ASSUME NEW z, Slowa(z), ~C!Wyjatek(C!prepare_request(z))
  PROVE  DobraOdpowiedz(z, C!calculate(C!prepare_request(z)))
<1> DEFINE d == C!prepare_request(z)
           e == C!calculate(d)
           wynik == CASE z.op = C!Plus -> C!Zawin(z.op1 + z.op2) [] z.op = C!Minus -> C!Zawin(z.op1 - z.op2)
                      [] z.op = C!Razy -> C!Zawin(z.op1 * z.op2)
                      [] z.op = C!Dziel /\ z.op2 # 0 -> C!Iloraz(z.op1, z.op2)
                      [] OTHER -> -1
           ok == IF Wykonalne(z) THEN 1 ELSE 0
<1>1. /\ C!MIN \in Int /\ C!MAX \in Nat /\ C!MAX >= 1 /\ C!MIN <= -1
      /\ z.op1 \in Int /\ z.op2 \in Int /\ z.op \in Int
  BY SlowoLemma DEF Slowa
<1>2. C!ntohl(d[1]) = z.op1 /\ C!ntohl(d[2]) = z.op2 /\ C!ntohl(d[4]) = z.op
  <2>1. d[1] = C!htonl(z.op1) /\ d[2] = C!htonl(z.op2) /\ d[4] = C!htonl(z.op)
    BY DEF C!prepare_request
  <2>. QED
    BY <2>1, SiecLemma DEF Slowa
<1>3. e = [d EXCEPT ![5] = C!htonl(ok), ![3] = C!htonl(wynik)]
  BY <1>2, Zenon DEF C!calculate, Wykonalne
<1> HIDE DEF wynik, ok
<1>4. DOMAIN d = 1..5
  BY DEF C!prepare_request
<1> HIDE DEF d
<1>5. /\ e[1] = d[1] /\ e[2] = d[2] /\ e[4] = d[4]
      /\ e[3] = C!htonl(wynik) /\ e[5] = C!htonl(ok)
  BY <1>3, <1>4
<1> HIDE DEF e
<1>6. C!ntohl(e[5]) = ok
  <2>1. ok \in C!MIN..C!MAX
    BY <1>1 DEF ok
  <2>. QED
    BY <1>5, <2>1, SiecLemma
<1>7. /\ C!Plus = 1 /\ C!Minus = 2 /\ C!Razy = 3 /\ C!Dziel = 4
  BY DEF C!Plus, C!Minus, C!Razy, C!Dziel
<1>8. ASSUME Wykonalne(z)
      PROVE  DobryWynik(z, wynik)
  <2>1. CASE z.op = C!Plus
    <3>1. wynik = C!Zawin(z.op1 + z.op2)
      <4>1. z.op # C!Minus /\ z.op # C!Razy /\ z.op # C!Dziel
        BY <1>7, <2>1
      <4>. QED
        BY <2>1, <4>1, Zenon DEF wynik
    <3>2. z.op1 + z.op2 \in Int
      BY <1>1
    <3>3. wynik \in C!MIN..C!MAX /\ (wynik - (z.op1 + z.op2)) % C!SLOWO = 0
      BY <3>1, <3>2, ZawinLemma
    <3>4. wynik - z.op1 - z.op2 = wynik - (z.op1 + z.op2)
      BY <1>1, <3>3
    <3>. QED
      BY <1>7, <2>1, <3>3, <3>4 DEF DobryWynik
  <2>2. CASE z.op = C!Minus
    <3>1. wynik = C!Zawin(z.op1 - z.op2)
      <4>1. z.op # C!Plus /\ z.op # C!Razy /\ z.op # C!Dziel
        BY <1>7, <2>2
      <4>. QED
        BY <2>2, <4>1, Zenon DEF wynik
    <3>2. z.op1 - z.op2 \in Int
      BY <1>1
    <3>3. wynik \in C!MIN..C!MAX /\ (wynik - (z.op1 - z.op2)) % C!SLOWO = 0
      BY <3>1, <3>2, ZawinLemma
    <3>4. wynik - z.op1 + z.op2 = wynik - (z.op1 - z.op2)
      BY <1>1, <3>3
    <3>. QED
      BY <1>7, <2>2, <3>3, <3>4 DEF DobryWynik
  <2>3. CASE z.op = C!Razy
    <3>1. wynik = C!Zawin(z.op1 * z.op2)
      <4>1. z.op # C!Plus /\ z.op # C!Minus /\ z.op # C!Dziel
        BY <1>7, <2>3
      <4>. QED
        BY <2>3, <4>1, Zenon DEF wynik
    <3>2. z.op1 * z.op2 \in Int
      BY <1>1
    <3>3. wynik \in C!MIN..C!MAX /\ (wynik - z.op1 * z.op2) % C!SLOWO = 0
      BY <3>1, <3>2, ZawinLemma
    <3>. QED
      BY <1>7, <2>3, <3>3 DEF DobryWynik
  <2>4. CASE z.op = C!Dziel /\ z.op2 # 0
    <3>1. wynik = C!Iloraz(z.op1, z.op2)
      <4>1. z.op # C!Plus /\ z.op # C!Minus /\ z.op # C!Razy
        BY <1>7, <2>4
      <4>. QED
        BY <2>4, <4>1, Zenon DEF wynik
    <3>2. ~(z.op1 = C!MIN /\ z.op2 = -1)
      BY <1>2, <2>4 DEF C!Wyjatek, d
    <3>3. wynik \in C!MIN..C!MAX /\ DobryIloraz(z.op1, z.op2, wynik)
      BY <2>4, <3>1, <3>2, IlorazLemma DEF Slowa
    <3>. QED
      BY <1>7, <2>4, <3>3 DEF DobryWynik
  <2>. QED
    BY <1>8, <2>1, <2>2, <2>3, <2>4 DEF Wykonalne
<1>9. Wykonalne(z) => C!ntohl(e[3]) = wynik
  BY <1>5, <1>8, SiecLemma DEF DobryWynik
<1>10. C!ntohl(e[5]) = 1 <=> Wykonalne(z)
  BY <1>6 DEF ok
<1>. QED
  BY <1>2, <1>5, <1>8, <1>9, <1>10 DEF DobraOdpowiedz, d, e

Gniazda == {"local", "tcp"}

PiecSlow(d) == d = [w \in 1..5 |-> d[w]]

LEMMA PiecSlowLemma ==
  /\ \A a, b, c, d, e : PiecSlow(<<a, b, c, d, e>>)
  /\ \A d : PiecSlow(d) => PiecSlow(C!calculate(d)) /\ d # <<>>
<1>1. ASSUME NEW a, NEW b, NEW c, NEW d, NEW e PROVE PiecSlow(<<a, b, c, d, e>>)
  BY DEF PiecSlow
<1>2. ASSUME NEW d, PiecSlow(d)
      PROVE  PiecSlow(C!calculate(d)) /\ d # <<>>
  <2>1. DOMAIN d = 1..5
    BY <1>2 DEF PiecSlow
  <2>2. ASSUME NEW x, NEW y PROVE PiecSlow([d EXCEPT ![5] = x, ![3] = y])
    BY <2>1 DEF PiecSlow
  <2>3. PiecSlow(C!calculate(d))
    BY <2>2, Zenon DEF C!calculate
  <2>4. d # <<>>
    <3>1. 1 \in DOMAIN d
      BY <2>1
    <3>. QED
      BY <3>1
  <2>. QED
    BY <2>3, <2>4
<1>. QED
  BY <1>1, <1>2

(* What the control of the calculator relies on: a socket that epoll has
   reported still has its connection, a client is killed for good, and the
   client that is served has sent no less than was read from it. *)
TypC ==
  /\ kolejka \in [Gniazda -> Seq(KlienciKalk)]
  /\ zdarzenia \subseteq Gniazda /\ \A g \in zdarzenia : kolejka[g] # <<>>
  /\ serwer \in {"while", "epoll", "accept", "read", "write", "koniec", "sigfpe"}
  /\ serwer \in {"while", "epoll"} => zdarzenia = {}
  /\ serwer \in {"read", "write"} => klient \in KlienciKalk
  /\ PiecSlow(data) /\ size \in {0, 2, 5}
  /\ pc \in [KlienciKalk -> {"connect", "pisz", "czeka", "koniec", "err", "zabity"}]
  /\ \A k \in KlienciKalk : Slowa(zadanie[k])
  /\ nadane \in [KlienciKalk -> {0, 2, 5}]
  /\ DOMAIN odebrane = KlienciKalk
  /\ zabici \subseteq KlienciKalk /\ \A k \in zabici : pc[k] = "zabity"

Prosba(k) == C!prepare_request(zadanie[k])

(* The words in the buffer that belong to the client being served. *)
BuforC ==
  /\ serwer = "read" => /\ size <= nadane[klient]
                        /\ \A w \in 1..size : data[w] = Prosba(klient)[w]
  /\ serwer = "write" /\ size = 5 => ~C!Wyjatek(Prosba(klient)) /\ data = C!calculate(Prosba(klient))
  /\ serwer = "write" /\ size # 5 => klient \in zabici

(* An answer that a live client has got is the one to its request. *)
OdebraneC ==
  /\ \A k \in KlienciKalk : odebrane[k] # <<>> /\ k \notin zabici =>
       ~C!Wyjatek(Prosba(k)) /\ odebrane[k] = C!calculate(Prosba(k))
  /\ \A k \in KlienciKalk : pc[k] = "koniec" => odebrane[k] # <<>>

StanC == TypC /\ BuforC /\ OdebraneC

LEMMA InitC == C!Init => StanC
<1> SUFFICES ASSUME C!Init PROVE StanC
  OBVIOUS
<1>1. \A k \in KlienciKalk : Slowa(zadanie[k])
  BY KalkulatorStaly DEF C!Init, Slowa
<1>2. PiecSlow(data)
  BY PiecSlowLemma DEF C!Init
<1>3. TypC
  BY <1>1, <1>2 DEF C!Init, TypC, Gniazda, C!Gniazda
<1>4. BuforC /\ OdebraneC
  BY DEF C!Init, BuforC, OdebraneC
<1>. QED
  BY <1>3, <1>4 DEF StanC

(* Steps of clients: what was read and what was answered stays. *)
LEMMA KlientC ==
  ASSUME StanC, NEW k \in KlienciKalk, C!Klient(k) \/ C!Zabij(k)
  PROVE  StanC'
<1> USE DEF StanC
<1>1. UNCHANGED <<serwer, zdarzenia, klient, data, size, zadanie, odebrane>>
  BY DEF C!Klient, C!Zabij
<1>2. /\ nadane' \in [KlienciKalk -> {0, 2, 5}]
      /\ \A l \in KlienciKalk : nadane'[l] >= nadane[l]
  <2>1. CASE UNCHANGED nadane
    BY <2>1 DEF TypC
  <2>2. ASSUME NEW w \in {2, 5}, w > nadane[k], nadane' = [nadane EXCEPT ![k] = w]
        PROVE  /\ nadane' \in [KlienciKalk -> {0, 2, 5}]
               /\ \A l \in KlienciKalk : nadane'[l] >= nadane[l]
    BY <2>2 DEF TypC
  <2>. QED
    BY <2>1, <2>2 DEF C!Klient, C!Zabij, C!Polacz, C!Poslij, C!OdbierzOdpowiedz
<1>3. /\ pc' \in [KlienciKalk -> {"connect", "pisz", "czeka", "koniec", "err", "zabity"}]
      /\ \A l \in KlienciKalk : pc'[l] = "koniec" => odebrane[l] # <<>>
  BY DEF C!Klient, C!Zabij, C!Polacz, C!Poslij, C!OdbierzOdpowiedz, C!Idz, TypC, OdebraneC
<1>4. zabici \subseteq zabici' /\ zabici' \subseteq KlienciKalk /\ \A l \in zabici' : pc'[l] = "zabity"
  <2>1. CASE C!Klient(k)
    <3>1. zabici' = zabici /\ pc[k] # "zabity"
      BY <2>1 DEF C!Klient, C!Polacz, C!Poslij, C!OdbierzOdpowiedz
    <3>2. \A l \in KlienciKalk : l # k => pc'[l] = pc[l]
      BY <2>1 DEF C!Klient, C!Polacz, C!Poslij, C!OdbierzOdpowiedz, C!Idz, TypC
    <3>. QED
      BY <3>1, <3>2 DEF TypC
  <2>2. CASE C!Zabij(k)
    BY <2>2 DEF C!Zabij, C!Idz, TypC
  <2>. QED
    BY <2>1, <2>2
<1>5. kolejka' \in [Gniazda -> Seq(KlienciKalk)] /\ \A g \in zdarzenia : kolejka'[g] # <<>>
  <2>1. CASE UNCHANGED kolejka
    BY <2>1 DEF TypC
  <2>2. CASE kolejka' = [kolejka EXCEPT ![GniazdoKalk[k]] = Append(@, k)]
    <3>1. GniazdoKalk[k] \in Gniazda
      BY KalkulatorStaly DEF Gniazda
    <3> DEFINE h == GniazdoKalk[k]
    <3> HIDE DEF h
    <3>2. Append(kolejka[h], k) \in Seq(KlienciKalk) /\ Append(kolejka[h], k) # <<>>
      <4>1. kolejka[h] \in Seq(KlienciKalk)
        BY <3>1 DEF TypC, h
      <4>. QED
        BY <4>1
    <3>. QED
      BY <2>2, <3>1, <3>2 DEF TypC, h
  <2>. QED
    BY <2>1, <2>2 DEF C!Klient, C!Zabij, C!Polacz, C!Poslij, C!OdbierzOdpowiedz
<1>6. TypC'
  BY <1>1, <1>2, <1>3, <1>4, <1>5 DEF TypC
<1>7. BuforC'
  BY <1>1, <1>2, <1>4 DEF TypC, BuforC, Prosba
<1>8. OdebraneC'
  BY <1>1, <1>3, <1>4 DEF OdebraneC, Prosba
<1>. QED
  BY <1>6, <1>7, <1>8

(* Steps of the server. *)
LEMMA SerwerC ==
  ASSUME StanC, C!Serwer
  PROVE  StanC'
<1> USE DEF StanC
<1>1. CASE C!Czekaj
  <2>1. UNCHANGED <<kolejka, klient, data, size, odebrane, pc, zadanie, nadane, zabici>>
    BY <1>1 DEF C!Czekaj, C!klienci
  <2>2. TypC'
    BY <1>1, <2>1 DEF C!Czekaj, TypC, Gniazda, C!Gniazda
  <2>3. BuforC'
    BY <1>1 DEF C!Czekaj, BuforC
  <2>. QED
    BY <2>1, <2>2, <2>3 DEF OdebraneC, Prosba
<1>2. CASE C!add_new_client
  <2>1. UNCHANGED <<data, odebrane, pc, zadanie, nadane, zabici>> /\ serwer = "accept"
    BY <1>2 DEF C!add_new_client, C!klienci
  <2>2. CASE serwer' = "while" /\ zdarzenia = {} /\ UNCHANGED <<kolejka, zdarzenia, klient, size>>
    BY <2>1, <2>2 DEF TypC, BuforC, OdebraneC, Prosba
  <2>3. ASSUME NEW g \in zdarzenia,
               zdarzenia' = zdarzenia \ {g}, klient' = Head(kolejka[g]),
               kolejka' = [kolejka EXCEPT ![g] = Tail(@)], serwer' = "read", size' = 0
        PROVE  StanC'
    <3>1. kolejka[g] \in Seq(KlienciKalk) /\ kolejka[g] # <<>> /\ g \in Gniazda
      BY DEF TypC
    <3>2. klient' \in KlienciKalk /\ Tail(kolejka[g]) \in Seq(KlienciKalk)
      BY <2>3, <3>1
    <3>3. TypC'
      BY <2>1, <2>3, <3>1, <3>2 DEF TypC
    <3>4. BuforC'
      <4>1. nadane[klient'] \in {0, 2, 5}
        BY <3>2 DEF TypC
      <4>2. size' <= nadane'[klient'] /\ ~\E w \in 1..size' : TRUE
        BY <2>1, <2>3, <4>1
      <4>. QED
        BY <2>3, <4>2 DEF BuforC
    <3>. QED
      BY <2>1, <3>3, <3>4 DEF OdebraneC, Prosba
  <2>. QED
    BY <1>2, <2>2, <2>3 DEF C!add_new_client
<1>3. CASE C!bulk_read
  <2>1. /\ UNCHANGED <<kolejka, zdarzenia, klient, odebrane, pc, zadanie, nadane, zabici>>
        /\ serwer = "read" /\ klient \in KlienciKalk
    BY <1>3 DEF C!bulk_read, C!klienci, TypC
  <2>2. OdebraneC'
    BY <2>1 DEF OdebraneC, Prosba
  <2> DEFINE p == Prosba(klient)
  <2>3. p' = p
    BY <2>1 DEF Prosba
  <2>4. CASE /\ size' = nadane[klient] /\ UNCHANGED serwer /\ nadane[klient] > size
             /\ data' = [w \in 1..5 |-> IF w \in (size + 1)..nadane[klient] THEN p[w] ELSE data[w]]
    <3>1. nadane[klient] \in {0, 2, 5} /\ size \in {0, 2, 5}
      BY <2>1 DEF TypC
    <3>2. TypC'
      <4>1. PiecSlow(data')
        BY <2>4 DEF PiecSlow
      <4>. QED
        BY <2>1, <2>4, <3>1, <4>1 DEF TypC
    <3>3. ASSUME NEW w \in 1..size' PROVE data'[w] = p[w]
      BY <2>1, <2>4, <3>1, <3>3 DEF BuforC
    <3>4. BuforC'
      BY <2>1, <2>3, <2>4, <3>1, <3>3 DEF BuforC
    <3>. QED
      BY <2>2, <3>2, <3>4
  <2>5. CASE /\ size = 5 \/ (nadane[klient] = size /\ klient \in zabici)
             /\ serwer' = (IF size = 5 /\ C!Wyjatek(data) THEN "sigfpe" ELSE "write")
             /\ data' = (IF size = 5 /\ ~C!Wyjatek(data) THEN C!calculate(data) ELSE data)
             /\ UNCHANGED size
    <3>1. size = 5 => data = p
      <4>1. ASSUME size = 5
            PROVE  \A w \in 1..5 : data[w] = p[w]
        BY <2>1, <4>1 DEF BuforC
      <4> HIDE DEF p
      <4>2. PiecSlow(data) /\ PiecSlow(p)
        BY PiecSlowLemma DEF TypC, p, Prosba, C!prepare_request
      <4>. QED
        BY <4>1, <4>2 DEF PiecSlow
    <3>2. PiecSlow(data')
      BY <2>5, PiecSlowLemma DEF TypC
    <3>3. TypC'
      BY <2>1, <2>5, <3>2 DEF TypC
    <3>4. BuforC'
      BY <2>1, <2>3, <2>5, <3>1 DEF BuforC
    <3>. QED
      BY <2>2, <3>3, <3>4
  <2>. QED
    BY <1>3, <2>4, <2>5 DEF C!bulk_read, C!Pelne, Prosba
<1>4. CASE C!Odpowiedz
  <2>1. /\ UNCHANGED <<kolejka, zdarzenia, data, pc, zadanie, nadane, zabici>>
        /\ serwer = "write" /\ serwer' = "accept" /\ size' = 0 /\ klient \in KlienciKalk
        /\ odebrane' = [odebrane EXCEPT ![klient] = data]
    BY <1>4 DEF C!Odpowiedz, C!klienci, TypC
  <2>2. TypC'
    BY <2>1 DEF TypC
  <2>3. BuforC'
    BY <2>1 DEF BuforC
  <2>4. data # <<>>
    BY PiecSlowLemma DEF TypC
  <2>5. OdebraneC'
    <3>1. ASSUME NEW k \in KlienciKalk, odebrane'[k] # <<>>, k \notin zabici
          PROVE  ~C!Wyjatek(Prosba(k)) /\ odebrane'[k] = C!calculate(Prosba(k))
      <4>1. CASE k = klient
        BY <2>1, <3>1, <4>1 DEF TypC, BuforC
      <4>2. CASE k # klient
        BY <2>1, <3>1, <4>2 DEF TypC, OdebraneC
      <4>. QED
        BY <4>1, <4>2
    <3>2. \A k \in KlienciKalk : pc[k] = "koniec" => odebrane'[k] # <<>>
      BY <2>1, <2>4 DEF TypC, OdebraneC
    <3>3. \A k \in KlienciKalk : Prosba(k)' = Prosba(k)
      BY <2>1 DEF Prosba
    <3>. QED
      BY <2>1, <3>1, <3>2, <3>3 DEF OdebraneC
  <2>. QED
    BY <2>2, <2>3, <2>5
<1>. QED
  BY <1>1, <1>2, <1>3, <1>4 DEF C!Serwer

LEMMA KrokC == StanC /\ [C!Next]_(C!vars) => StanC'
<1> SUFFICES ASSUME StanC, [C!Next]_(C!vars) PROVE StanC'
  OBVIOUS
<1>1. CASE C!CtrlC
  BY <1>1 DEF C!CtrlC, C!klienci, StanC, TypC, BuforC, OdebraneC, Prosba
<1>2. CASE UNCHANGED C!vars
  BY <1>2 DEF C!vars, StanC, TypC, BuforC, OdebraneC, Prosba
<1>. QED
  BY <1>1, <1>2, KlientC, SerwerC DEF C!Next

(* The answers are right in every state of the invariant. *)
LEMMA DobreC ==
  ASSUME StanC, NEW k \in KlienciKalk, pc[k] = "koniec"
  PROVE  DobraOdpowiedz(zadanie[k], odebrane[k])
<1>1. k \notin zabici /\ odebrane[k] # <<>> /\ Slowa(zadanie[k])
  BY DEF StanC, TypC, OdebraneC
<1>2. ~C!Wyjatek(Prosba(k)) /\ odebrane[k] = C!calculate(Prosba(k))
  BY <1>1 DEF StanC, OdebraneC
<1>. QED
  BY <1>1, <1>2, CalculateLemma DEF Prosba

-----------------------------------------------------------------------------
(* The PID digit sum. *)

(* The digit sum of client k. *)
Suma(k) == S!calculate_digit_sum(Cyfry[k])

(* The sums that were sent. *)
Wyslane == {l \in KlienciSumy : odebrane[l] # -1}

(* What a client has sent is its PID, what it has got is its sum, and
   max_sum is the largest sum sent. *)
StanS ==
  /\ pc \in [KlienciSumy -> {"connect", "write", "read", "wypisal", "err", "zabity"}]
  /\ DOMAIN bufor = KlienciSumy /\ \A k \in KlienciSumy : bufor[k] # <<>> => bufor[k] = Cyfry[k]
  /\ DOMAIN odebrane = KlienciSumy
  /\ \A k \in KlienciSumy : odebrane[k] # -1 => odebrane[k] = S!htons(Suma(k))
  /\ \A k \in KlienciSumy : pc[k] = "wypisal" => odebrane[k] # -1
  /\ max_sum \in Nat
  /\ max_sum = 0 \/ \E k \in Wyslane : max_sum = Suma(k)
  /\ \A k \in Wyslane : Suma(k) <= max_sum

(* A number of 16 bits. *)
DwaBajty(x) == x \in Nat /\ x < 65536

(* A sum has 16 bits. *)
LEMMA SumaCyfr ==
  ASSUME NEW k \in KlienciSumy
  PROVE  DwaBajty(Suma(k))
<1> DEFINE c == Cyfry[k]
<1>1. c \in Seq(0..9)
  BY PidyStale
<1> HIDE DEF c
<1>2. DOMAIN c = 1..Len(c) /\ Len(c) \in Nat /\ \A n \in DOMAIN c : c[n] \in Int
  BY <1>1
<1>3. IsFiniteSet(DOMAIN c)
  BY <1>2, FS_Interval
<1>4. SumaNa(c, DOMAIN c) \in Int
  BY <1>2, <1>3, SumaTyp
<1>5. Suma(k) = SumaNa(c, DOMAIN c) % 65536
  BY DEF Suma, c, S!calculate_digit_sum, S!FoldSeq, S!FoldFunction, S!FoldFunctionOnSet, S!MapThenFoldSet,
         SumaNa, FoldFunctionOnSet, MapThenFoldSet
<1> DEFINE n == SumaNa(c, DOMAIN c)
<1> HIDE DEF n
<1>6. n \in Int /\ Suma(k) = n % 65536
  BY <1>4, <1>5 DEF n
<1>. QED
  BY <1>6 DEF DwaBajty

(* Swapping the bytes of 16 bits twice. *)
LEMMA HtonsLemma ==
  ASSUME NEW x, DwaBajty(x)
  PROVE  DwaBajty(S!htons(x)) /\ S!ntohs(S!htons(x)) = x
<1> DEFINE B == 256
           a == x % B
           b == x \div B
           v == a * B + b
<1>1. x \in Int /\ B \in Nat \ {0}
  BY DEF DwaBajty
<1>2. B = 256
  OBVIOUS
<1>3. S!htons(x) = v
  BY DEF S!htons
<1>4. S!ntohs(v) = (v % B) * B + (v \div B)
  BY DEF S!ntohs
<1> HIDE DEF B
<1>5. b \in Int /\ a \in 0..(B - 1) /\ x = b * B + a
  BY <1>1, Dzielenie
<1> HIDE DEF a, b
<1>6. a \in Int /\ a >= 0 /\ a < 256 /\ x = b * 256 + a
  BY <1>1, <1>2, <1>5
<1>7. b >= 0 /\ b < 256
  BY <1>5, <1>6 DEF DwaBajty
<1>8. b \in 0..(B - 1)
  BY <1>1, <1>2, <1>5, <1>7
<1>9. v = a * B + b /\ v \in Int
  BY <1>1, <1>5
<1>10. DwaBajty(v)
  BY <1>2, <1>5, <1>6, <1>7, <1>9 DEF DwaBajty
<1> HIDE DEF v
<1>11. v % B = b /\ v \div B = a
  BY <1>1, <1>6, <1>8, <1>9, DzielenieJedno
<1>. QED
  BY <1>3, <1>4, <1>5, <1>10, <1>11

LEMMA InitS == S!Init => StanS
BY DEF S!Init, StanS, Wyslane

(* The server reads what client k has sent. *)
LEMMA OdczytS ==
  ASSUME StanS, NEW k \in KlienciSumy, bufor[k] # <<>>,
         max_sum' = S!Wieksza(S!calculate_digit_sum(bufor[k])),
         odebrane' = [odebrane EXCEPT ![k] = S!htons(S!calculate_digit_sum(bufor[k]))],
         bufor' = [bufor EXCEPT ![k] = <<>>], UNCHANGED pc
  PROVE  StanS'
<1> DEFINE x == Suma(k)
<1>1. DwaBajty(x) /\ x \in Nat /\ S!calculate_digit_sum(bufor[k]) = x
  BY SumaCyfr DEF StanS, Suma, DwaBajty
<1> HIDE DEF x
<1>2. S!htons(x) # -1
  BY <1>1, HtonsLemma DEF DwaBajty
<1>3. /\ Wyslane' = Wyslane \cup {k} /\ DOMAIN odebrane' = KlienciSumy
      /\ odebrane'[k] = S!htons(x) /\ \A l \in KlienciSumy : l # k => odebrane'[l] = odebrane[l]
  BY <1>1, <1>2 DEF StanS, Wyslane
<1>4. \A l \in KlienciSumy : odebrane'[l] # -1 => odebrane'[l] = S!htons(Suma(l))
  BY <1>3 DEF StanS, x
<1>5. \A l \in KlienciSumy : pc'[l] = "wypisal" => odebrane'[l] # -1
  BY <1>2, <1>3 DEF StanS
<1>6. max_sum' = IF x > max_sum THEN x ELSE max_sum
  BY <1>1 DEF S!Wieksza
<1>7. max_sum' \in Nat /\ max_sum' >= max_sum /\ max_sum' >= x /\ max_sum' \in {x, max_sum}
  BY <1>1, <1>6 DEF StanS
<1>8. max_sum' = 0 \/ \E l \in Wyslane' : max_sum' = Suma(l)
  BY <1>3, <1>7 DEF StanS, x
<1>9. \A l \in Wyslane' : Suma(l) <= max_sum'
  <2>1. ASSUME NEW l \in Wyslane PROVE Suma(l) <= max_sum'
    <3>1. Suma(l) \in Int /\ Suma(l) <= max_sum /\ max_sum \in Int
      BY SumaCyfr DEF StanS, Wyslane, DwaBajty
    <3>. QED
      BY <1>7, <3>1
  <2>. QED
    BY <1>1, <1>3, <1>7, <2>1 DEF x
<1>10. DOMAIN bufor' = KlienciSumy /\ \A l \in KlienciSumy : bufor'[l] # <<>> => bufor'[l] = Cyfry[l]
  BY DEF StanS
<1>. QED
  BY <1>3, <1>4, <1>5, <1>7, <1>8, <1>9, <1>10 DEF StanS

LEMMA KrokS == StanS /\ [S!Next]_(S!vars) => StanS'
<1> SUFFICES ASSUME StanS, [S!Next]_(S!vars) PROVE StanS'
  OBVIOUS
<1>1. ASSUME UNCHANGED <<pc, bufor, odebrane, max_sum>> PROVE StanS'
  BY <1>1 DEF StanS, Wyslane
<1>2. CASE S!sigint_handler
  BY <1>1, <1>2 DEF S!sigint_handler
<1>3. CASE S!Czekaj
  BY <1>1, <1>3 DEF S!Czekaj
<1>4. ASSUME NEW g \in S!Gniazda, S!NowePolaczenie(g) PROVE StanS'
  BY <1>1, <1>4 DEF S!NowePolaczenie
<1>5. ASSUME NEW k \in KlienciSumy, S!StaryKlient(k) PROVE StanS'
  <2>1. CASE bufor[k] = <<>>
    BY <1>1, <1>5, <2>1 DEF S!StaryKlient
  <2>2. CASE bufor[k] # <<>>
    BY <1>5, <2>2, OdczytS DEF S!StaryKlient
  <2>. QED
    BY <2>1, <2>2
<1>6. ASSUME NEW k \in KlienciSumy, S!Klient(k) \/ S!Zabij(k) PROVE StanS'
  <2>1. UNCHANGED <<odebrane, max_sum>>
    BY <1>6 DEF S!Klient, S!Zabij
  <2>2. DOMAIN bufor' = KlienciSumy /\ \A l \in KlienciSumy : bufor'[l] # <<>> => bufor'[l] = Cyfry[l]
    BY <1>6 DEF S!Klient, S!Zabij, StanS
  <2>3. /\ pc' \in [KlienciSumy -> {"connect", "write", "read", "wypisal", "err", "zabity"}]
        /\ \A l \in KlienciSumy : pc'[l] = "wypisal" => odebrane[l] # -1
    BY <1>6 DEF S!Klient, S!Zabij, S!Idz, StanS
  <2>. QED
    BY <2>1, <2>2, <2>3 DEF StanS, Wyslane
<1>7. CASE UNCHANGED S!vars
  BY <1>1, <1>7 DEF S!vars
<1>. QED
  BY <1>2, <1>3, <1>4, <1>5, <1>6, <1>7 DEF S!Next, S!Serwer

-----------------------------------------------------------------------------
(* The vote server. *)

LEMMA InitE == E!Init => E!TypeOK /\ E!TabliceZgodne
<1> <<>> \in Seq(E!Linie)
  OBVIOUS
<1>1. E!Init => E!TypeOK
  BY GlosyStale DEF E!Init, E!TypeOK, E!Linie
<1>2. E!Init => E!TabliceZgodne
  BY DEF E!Init, E!TabliceZgodne
<1>. QED
  BY <1>1, <1>2

LEMMA TypE == E!TypeOK /\ [E!Next]_(E!vars) => E!TypeOK'
<1> SUFFICES ASSUME E!TypeOK, [E!Next]_(E!vars) PROVE E!TypeOK'
  OBVIOUS
<1> USE GlosyStale DEF E!TypeOK
<1>1. CASE E!Polacz
  BY <1>1 DEF E!Polacz, E!polaczenia, E!tablice
<1>2. ASSUME NEW f \in Fds, NEW l \in E!Linie, E!Wyslij(f, l) PROVE E!TypeOK'
  BY <1>2 DEF E!Wyslij, E!tablice
<1>3. ASSUME NEW f \in Fds, NEW jak \in {"zamkniety", "zerwany"}, E!Rozlacz(f, jak)
      PROVE  E!TypeOK'
  BY <1>3 DEF E!Rozlacz, E!tablice
<1>4. ASSUME NEW f \in Fds, E!NowyKlient(f), UNCHANGED serwer PROVE E!TypeOK'
  BY <1>4 DEF E!NowyKlient
<1>5. CASE E!BrakDeskryptora
  BY <1>5 DEF E!BrakDeskryptora, E!polaczenia, E!tablice
<1>6. ASSUME NEW f \in otwarte, NEW k \in 1..Len(strumien[f]), E!Dane(f, k)
      PROVE  E!TypeOK'
  <2>1. f \in Fds /\ Head(strumien[f]) \in E!Linie
    BY <1>6
  <2>2. SubSeq(strumien[f], k + 1, Len(strumien[f])) \in Seq(E!Linie)
    BY <1>6, <2>1
  <2>3. CASE E!OdrzucLogowanie(f, Head(strumien[f]))
    BY <2>1, <2>3 DEF E!OdrzucLogowanie, E!Zamknij, E!tablice
  <2>4. ASSUME /\ strumien' = [strumien EXCEPT ![f] = SubSeq(@, k + 1, Len(@))]
               /\ UNCHANGED <<serwer, oczekujacy, otwarte>>
               /\ stan' \in [Fds -> {"otwarty", "zamkniety", "zerwany"}]
               /\ E!Zaloguj(f, Head(strumien[f])) \/ E!Glos(f, Head(strumien[f]))
        PROVE  E!TypeOK'
    <3>1. strumien' \in [Fds -> Seq(E!Linie)]
      BY <2>1, <2>2, <2>4
    <3>2. CASE E!Zaloguj(f, Head(strumien[f]))
      BY <2>1, <2>4, <3>1, <3>2 DEF E!Zaloguj
    <3>3. CASE E!Glos(f, Head(strumien[f]))
      <4>1. elector_votes' \in [Elektorzy -> Kandydaci \cup {0}]
        BY <2>1, <3>3 DEF E!Glos
      <4>2. QED
        BY <2>1, <2>4, <3>1, <3>3, <4>1 DEF E!Glos
    <3>4. QED
      BY <2>4, <3>2, <3>3
  <2>5. QED
    BY <1>6, <2>1, <2>3, <2>4 DEF E!Dane
<1>7. ASSUME NEW f \in otwarte, E!Rozlaczony(f) PROVE E!TypeOK'
  BY <1>7 DEF E!Rozlaczony, E!Zamknij
<1>8. ASSUME NEW f \in otwarte, E!BladRead(f) PROVE E!TypeOK'
  BY <1>8 DEF E!BladRead, E!polaczenia, E!tablice
<1>9. CASE UNCHANGED E!vars
  BY <1>9 DEF E!vars, E!polaczenia, E!tablice
<1>10. QED
  BY <1>1, <1>2, <1>3, <1>4, <1>5, <1>6, <1>7, <1>8, <1>9
  DEF E!Next, E!Accept, E!Obsluz, E!NowyKlient

(* The agreement of the two tables is inductive together with the types. *)
LEMMA TabliceE == E!TypeOK /\ E!TabliceZgodne /\ [E!Next]_(E!vars) => E!TabliceZgodne'
<1> SUFFICES ASSUME E!TypeOK, E!TabliceZgodne, [E!Next]_(E!vars) PROVE E!TabliceZgodne'
  OBVIOUS
<1> USE GlosyStale DEF E!TypeOK, E!TabliceZgodne
<1>1. ASSUME UNCHANGED <<otwarte, client_elector_id, connected_electors>>
      PROVE  E!TabliceZgodne'
  BY <1>1
<1>2. CASE E!Polacz
  BY <1>1, <1>2 DEF E!Polacz, E!polaczenia, E!tablice
<1>3. ASSUME NEW f \in Fds, NEW l \in E!Linie, E!Wyslij(f, l) PROVE E!TabliceZgodne'
  BY <1>1, <1>3 DEF E!Wyslij, E!tablice
<1>4. ASSUME NEW f \in Fds, NEW jak \in {"zamkniety", "zerwany"}, E!Rozlacz(f, jak)
      PROVE  E!TabliceZgodne'
  BY <1>1, <1>4 DEF E!Rozlacz, E!tablice
<1>5. ASSUME NEW f \in Fds, E!NowyKlient(f) PROVE E!TabliceZgodne'
  <2>1. client_elector_id[f] = 0
    BY <1>5 DEF E!NowyKlient
  <2>2. client_elector_id' = client_elector_id
    BY <1>5, <2>1 DEF E!NowyKlient
  <2>3. QED
    BY <1>5, <2>2 DEF E!NowyKlient
<1>6. ASSUME NEW f \in otwarte, NEW l, E!Zaloguj(f, l), UNCHANGED otwarte
      PROVE  E!TabliceZgodne'
  BY <1>6 DEF E!Zaloguj
<1>7. ASSUME NEW f \in otwarte, NEW l, E!Glos(f, l), UNCHANGED otwarte
      PROVE  E!TabliceZgodne'
  BY <1>1, <1>7 DEF E!Glos
<1>8. ASSUME NEW f \in otwarte, NEW l, E!OdrzucLogowanie(f, l) PROVE E!TabliceZgodne'
  BY <1>8 DEF E!OdrzucLogowanie, E!Zamknij, E!tablice
<1>9. ASSUME NEW f \in otwarte, E!Rozlaczony(f) PROVE E!TabliceZgodne'
  BY <1>9 DEF E!Rozlaczony, E!Zamknij
<1>10. CASE serwer' = "padl" /\ UNCHANGED <<oczekujacy, E!polaczenia, E!tablice>>
  BY <1>1, <1>10 DEF E!polaczenia, E!tablice
<1>11. CASE UNCHANGED E!vars
  BY <1>1, <1>11 DEF E!vars, E!polaczenia, E!tablice
<1>12. QED
  BY <1>2, <1>3, <1>4, <1>5, <1>6, <1>7, <1>8, <1>9, <1>10, <1>11
  DEF E!Next, E!Accept, E!Obsluz, E!Dane, E!BrakDeskryptora, E!BladRead

-----------------------------------------------------------------------------
(* The invariant of the program that Init has chosen. *)
IInv ==
  /\ program \in {"kalkulator", "suma", "glosy"}
  /\ program = "kalkulator" => StanC
  /\ program = "suma" => StanS
  /\ program = "glosy" => E!TypeOK /\ E!TabliceZgodne

(* The three servers keep their invariants, whatever their clients do. *)
THEOREM Inductive == Spec => []IInv
<1>1. Init => IInv
  BY InitC, InitS, InitE DEF Init, IInv
<1>2. IInv /\ [Next]_vars => IInv'
  <2> SUFFICES ASSUME IInv, [Next]_vars PROVE IInv'
    OBVIOUS
  <2>1. CASE program = "kalkulator" /\ C!Next /\ PozaKalkulatorem
    BY <2>1, KrokC DEF IInv, PozaKalkulatorem
  <2>2. CASE program = "suma" /\ S!Next /\ PozaSuma
    BY <2>2, KrokS DEF IInv, PozaSuma
  <2>3. CASE program = "glosy" /\ E!Next /\ PozaGlosami
    BY <2>3, TypE, TabliceE DEF IInv, PozaGlosami
  <2>4. CASE UNCHANGED vars
    <3>1. UNCHANGED C!vars /\ UNCHANGED S!vars /\ UNCHANGED E!vars /\ UNCHANGED program
      BY <2>4 DEF vars, kalkulatorVars, sumaVars, glosyVars, wspolne, C!vars, S!vars, E!vars, E!polaczenia, E!tablice
    <3>. QED
      BY <3>1, KrokC, KrokS, TypE, TabliceE DEF IInv
  <2>. QED
    BY <2>1, <2>2, <2>3, <2>4 DEF Next
<1>. QED
  BY <1>1, <1>2, PTL DEF Spec

(* Every client of the calculator that gets an answer gets the one to its own
   request, right in the width of a word: bulk_read, calculate and bulk_write
   of a server with one buffer, and clients killed at any moment. *)
THEOREM AnswersRight == Spec => []OdpowiedzDobra
<1>1. IInv => OdpowiedzDobra
  <2> SUFFICES ASSUME IInv, program = "kalkulator", NEW k \in KlienciKalk, pc[k] = "koniec"
               PROVE  /\ LET a == C!print_answer(k) IN
                         /\ a.op1 = zadanie[k].op1 /\ a.op2 = zadanie[k].op2 /\ a.op = zadanie[k].op
                         /\ a.ok <=> a.op \in {C!Plus, C!Minus, C!Razy} \/ (a.op = C!Dziel /\ a.op2 # 0)
                      /\ C!print_answer(k).ok => DobryWynik(C!print_answer(k), C!print_answer(k).wynik)
    BY DEF OdpowiedzDobra, OdpowiedzWlasna, KalkulatorLiczy, DobryWynik, DobryIloraz
  <2> DEFINE z == zadanie[k]
             d == odebrane[k]
             a == C!print_answer(k)
  <2>1. DobraOdpowiedz(z, d)
    BY DobreC DEF IInv
  <2>2. /\ a.op1 = C!ntohl(d[1]) /\ a.op2 = C!ntohl(d[2]) /\ a.op = C!ntohl(d[4])
        /\ a.ok = (C!ntohl(d[5]) = 1) /\ a.wynik = C!ntohl(d[3])
    BY DEF C!print_answer
  <2> HIDE DEF a, d, z
  <2>3. a.op1 = z.op1 /\ a.op2 = z.op2 /\ a.op = z.op /\ (a.ok <=> Wykonalne(z))
    BY <2>1, <2>2 DEF DobraOdpowiedz
  <2>4. a.ok => DobryWynik(z, a.wynik)
    BY <2>1, <2>2, <2>3 DEF DobraOdpowiedz
  <2>5. DobryWynik(z, a.wynik) => DobryWynik(a, a.wynik)
    BY <2>3 DEF DobryWynik
  <2>. QED
    BY <2>3, <2>4, <2>5 DEF Wykonalne, a, z
<1>. QED
  BY <1>1, Inductive, PTL

(* Every client of the PID sum server that prints a sum prints its own, and
   HIGH SUM is the largest sum sent. *)
THEOREM SumsRight == Spec => []SumyDobre
<1>1. IInv => SumyDobre
  <2> SUFFICES ASSUME StanS PROVE /\ \A k \in KlienciSumy : pc[k] = "wypisal" => S!SUM(k) = Suma(k)
                                  /\ max_sum = Max({0} \union {Suma(k) : k \in Wyslane})
    BY DEF IInv, SumyDobre, SumaWlasna, HighSum, Suma, Wyslane
  <2>1. ASSUME NEW k \in KlienciSumy, pc[k] = "wypisal"
        PROVE  S!SUM(k) = Suma(k)
    <3>1. odebrane[k] = S!htons(Suma(k))
      BY <2>1 DEF StanS
    <3>. QED
      BY <3>1, SumaCyfr, HtonsLemma DEF S!SUM
  <2> DEFINE T == {0} \union {Suma(k) : k \in Wyslane}
  <2>2. max_sum \in T /\ T \subseteq Int /\ \A y \in T : max_sum >= y
    <3>1. ASSUME NEW y \in T PROVE y \in Int /\ max_sum >= y
      BY SumaCyfr DEF StanS, Wyslane, DwaBajty
    <3>2. max_sum \in T
      BY DEF StanS
    <3>. QED
      BY <3>1, <3>2
  <2> HIDE DEF T
  <2>3. Max(T) = max_sum
    <3>1. Max(T) \in T /\ \A y \in T : Max(T) >= y
      BY <2>2 DEF Max
    <3>2. Max(T) \in Int /\ max_sum \in Int /\ Max(T) >= max_sum /\ max_sum >= Max(T)
      BY <2>2, <3>1
    <3>. QED
      BY <3>2
  <2>. QED
    BY <2>1, <2>3 DEF T
<1>. QED
  BY <1>1, Inductive, PTL

(* Every state of the vote server is well typed: the indices the code uses in
   its arrays are always within them, and a vote is for a candidate. *)
THEOREM TypeCorrect == Spec => []TypeOK
<1>1. IInv => TypeOK
  BY DEF IInv, TypeOK
<1>. QED
  BY <1>1, Inductive, PTL

(* client_elector_id and connected_electors are inverse to each other and name
   open connections only, whatever order clients connect, identify themselves,
   vote and disconnect in, and however descriptors are reused. *)
THEOREM TablesAgree == Spec => []TabliceZgodne
<1>1. IInv => TabliceZgodne
  BY DEF IInv, TabliceZgodne
<1>. QED
  BY <1>1, Inductive, PTL
=============================================================================
