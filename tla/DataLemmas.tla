----------------------------- MODULE DataLemmas -----------------------------
(***************************************************************************)
(* What the proofs about several components have in common: how positions  *)
(* of a ring buffer wrap round, how a queue read off a ring grows and      *)
(* shrinks, and the laws of the sums that the programs keep.               *)
(***************************************************************************)
EXTENDS Integers, Functions, SequenceTheorems, FiniteSetTheorems, WellFoundedInduction, TLAPS

(* Stepping the head on and then n places is the same as n + 1 places. *)
LEMMA PrzesuniecieLemma ==
  ASSUME NEW S \in Nat \ {0}, NEW h \in 0..(S - 1), NEW n \in 0..(S - 1)
  PROVE  /\ (h + 1) % S \in 0..(S - 1)
         /\ (((h + 1) % S) + n) % S = (h + (n + 1)) % S
         /\ h % S = h
<1>1. (h + 1) % S = IF h + 1 < S THEN h + 1 ELSE h + 1 - S
  <2>1. h + 1 \in Nat /\ h + 1 < 2 * S
    OBVIOUS
  <2>. QED
    BY <2>1
<1> DEFINE g == (h + 1) % S
<1>2. g \in 0..(S - 1) /\ g = IF h + 1 < S THEN h + 1 ELSE h + 1 - S
  BY <1>1
<1>3. h % S = h
  OBVIOUS
<1> HIDE DEF g
<1>4. (g + n) % S = IF g + n < S THEN g + n ELSE g + n - S
  <2>1. g + n \in Nat /\ g + n < 2 * S
    BY <1>2
  <2>. QED
    BY <1>2, <2>1
<1>5. (h + (n + 1)) % S = IF h + (n + 1) < S THEN h + (n + 1) ELSE h + (n + 1) - S
  <2>1. h + (n + 1) \in Nat /\ h + (n + 1) < 2 * S
    OBVIOUS
  <2>. QED
    BY <2>1
<1>6. (g + n) % S = (h + (n + 1)) % S
  BY <1>2, <1>4, <1>5
<1>. QED
  BY <1>2, <1>3, <1>6 DEF g

(* The place behind c < S entries is none of theirs, and the tail steps on
   with the count. *)
LEMMA OgonLemma ==
  ASSUME NEW S \in Nat \ {0}, NEW h \in 0..(S - 1), NEW c \in 0..(S - 1)
  PROVE  /\ (h + c) % S \in 0..(S - 1)
         /\ (((h + c) % S) + 1) % S \in 0..(S - 1)
         /\ (((h + c) % S) + 1) % S = (h + (c + 1)) % S
         /\ \A n \in 1..c : (h + n - 1) % S \in 0..(S - 1) /\ (h + n - 1) % S # (h + c) % S
<1> DEFINE t == (h + c) % S
<1>1. t \in 0..(S - 1) /\ t = IF h + c < S THEN h + c ELSE h + c - S
  <2>1. h + c \in Nat /\ h + c < 2 * S
    OBVIOUS
  <2>2. (h + c) % S = IF h + c < S THEN h + c ELSE h + c - S
    BY <2>1
  <2>. QED
    BY <2>2
<1> HIDE DEF t
<1>2. (t + 1) % S = IF t + 1 < S THEN t + 1 ELSE t + 1 - S
  <2>1. t + 1 \in Nat /\ t + 1 < 2 * S
    BY <1>1
  <2>. QED
    BY <1>1, <2>1
<1>3. (h + (c + 1)) % S = IF h + (c + 1) < S THEN h + (c + 1) ELSE h + (c + 1) - S
  <2>1. h + (c + 1) \in Nat /\ h + (c + 1) < 2 * S
    OBVIOUS
  <2>. QED
    BY <2>1
<1>4. (t + 1) % S \in 0..(S - 1) /\ (t + 1) % S = (h + (c + 1)) % S
  BY <1>1, <1>2, <1>3
<1>5. ASSUME NEW n \in 1..c
      PROVE  (h + n - 1) % S \in 0..(S - 1) /\ (h + n - 1) % S # t
  <2>1. h + n - 1 \in Nat /\ h + n - 1 < 2 * S
    OBVIOUS
  <2>2. (h + n - 1) % S = IF h + n - 1 < S THEN h + n - 1 ELSE h + n - 1 - S
    BY <2>1
  <2>. QED
    BY <1>1, <2>2
<1>. QED
  BY <1>1, <1>4, <1>5 DEF t

(* A sequence that repeats z and ends in e is z with e appended. *)
LEMMA DopisanieLemma ==
  ASSUME NEW M, NEW c \in Nat, NEW z \in [1..c -> M], NEW e \in M,
         NEW w \in [1..(c + 1) -> M], \A n \in 1..c : w[n] = z[n], w[c + 1] = e
  PROVE  Len(z) = c /\ w = Append(z, e)
<1>1. z \in Seq(M) /\ Len(z) = c /\ w \in Seq(M) /\ Len(w) = c + 1
  OBVIOUS
<1>2. /\ Append(z, e) \in Seq(M) /\ Len(Append(z, e)) = c + 1
      /\ \A n \in 1..c : Append(z, e)[n] = z[n]
      /\ Append(z, e)[c + 1] = e
  BY <1>1, AppendProperties
<1>3. ASSUME NEW n \in 1..Len(w) PROVE w[n] = Append(z, e)[n]
  <2>1. n \in 1..c \/ n = c + 1
    BY <1>1
  <2>. QED
    BY <1>2, <2>1
<1>. QED
  BY <1>1, <1>2, <1>3, SeqEqual

(* A sequence whose n-th entry is entry n + 1 of z is the tail of z. *)
LEMMA OdjecieLemma ==
  ASSUME NEW M, NEW c \in Nat \ {0}, NEW z \in [1..c -> M],
         NEW w \in [1..(c - 1) -> M], \A n \in 1..(c - 1) : w[n] = z[n + 1]
  PROVE  z # <<>> /\ Head(z) = z[1] /\ w = Tail(z)
<1>1. z \in Seq(M) /\ Len(z) = c /\ w \in Seq(M) /\ Len(w) = c - 1
  OBVIOUS
<1>2. z # <<>>
  BY <1>1
<1>3. Tail(z) \in Seq(M) /\ Len(Tail(z)) = c - 1 /\ \A n \in 1..(c - 1) : Tail(z)[n] = z[n + 1]
  BY <1>1, <1>2, HeadTailProperties
<1>4. w = Tail(z)
  BY <1>1, <1>3, SeqEqual
<1>. QED
  BY <1>1, <1>2, <1>4

-----------------------------------------------------------------------------
(* The equation of the division with remainder. *)
LEMMA Dzielenie ==
  ASSUME NEW n \in Nat \ {0}, NEW x \in Int
  PROVE  x \div n \in Int /\ x % n \in 0..(n - 1) /\ x = (x \div n) * n + (x % n)
OBVIOUS

(* Induction over the naturals, for a set of them. *)
LEMMA NatSetInduction ==
  ASSUME NEW P, 0 \in P, \A n \in Nat : n \in P => n + 1 \in P
  PROVE  \A n \in Nat : n \in P
<1>1. SUFFICES ASSUME NEW k \in Nat, k \notin P PROVE FALSE
  OBVIOUS
<1> DEFINE T == {n \in Nat : n \notin P}
<1>2. PICK n \in T : \A m \in T : ~(<<m, n>> \in OpToRel(<, Nat))
  <2>1. T \subseteq Nat /\ T # {}
    BY <1>1
  <2>. QED
    BY <2>1, NatLessThanWellFounded, WFMin
<1>3. \A m \in T : ~(m < n)
  BY <1>2 DEF OpToRel
<1>4. n - 1 \in Nat /\ n - 1 \in P
  BY <1>3
<1>5. n \in Nat /\ n \notin P
  OBVIOUS
<1>. QED
  BY <1>4, <1>5

Wybor(s) == CHOOSE x \in s : TRUE

(* One step of the fold, as an equation between functions on subsets. *)
Rownanie(g, f, S) ==
  g = [s \in SUBSET S |-> IF s = {} THEN 0 ELSE f[Wybor(s)] + g[s \ {Wybor(s)}]]

(* The sum of f over S. *)
SumaNa(f, S) == FoldFunctionOnSet(+, 0, f, S)

(* The library's fold solves that equation, if anything does. *)
LEMMA FoldDef ==
  ASSUME NEW f, NEW S, \E g : Rownanie(g, f, S)
  PROVE  \E g : Rownanie(g, f, S) /\ SumaNa(f, S) = g[S]
BY DEF SumaNa, Rownanie, Wybor, FoldFunctionOnSet, MapThenFoldSet

(* What a set that is not empty loses when the chosen element is taken out. *)
LEMMA WyborLemma ==
  ASSUME NEW S, IsFiniteSet(S), NEW s \in SUBSET S, s # {}
  PROVE  /\ Wybor(s) \in s /\ Wybor(s) \in S
         /\ s \ {Wybor(s)} \in SUBSET S
         /\ Cardinality(s) \in Nat /\ Cardinality(s \ {Wybor(s)}) \in Nat
         /\ Cardinality(s \ {Wybor(s)}) = Cardinality(s) - 1
<1>1. Wybor(s) \in s
  BY DEF Wybor
<1>2. IsFiniteSet(s)
  BY FS_Subset
<1> DEFINE w == Wybor(s)
<1> HIDE DEF w
<1>3. IsFiniteSet(s \ {w}) /\ Cardinality(s \ {w}) = Cardinality(s) - 1
  BY <1>1, <1>2, FS_RemoveElement DEF w
<1>4. Cardinality(s) \in Nat /\ Cardinality(s \ {w}) \in Nat
  BY <1>2, <1>3, FS_CardinalityType
<1>. QED
  BY <1>1, <1>3, <1>4 DEF w

(* Induction over the subsets of a finite set, for a set B of them: a subset
   is in B when what is left of it without the chosen element is. *)
LEMMA PodzbioryIndukcja ==
  ASSUME NEW S, IsFiniteSet(S), NEW B, {} \in B,
         \A s \in SUBSET S : s # {} /\ s \ {Wybor(s)} \in B => s \in B
  PROVE  \A s \in SUBSET S : s \in B
<1> DEFINE P == {n \in Nat : \A s \in SUBSET S : Cardinality(s) = n => s \in B}
<1>1. \A s \in SUBSET S : IsFiniteSet(s) /\ Cardinality(s) \in Nat
  BY FS_Subset, FS_CardinalityType
<1>2. 0 \in P
  BY <1>1, FS_EmptySet
<1>3. ASSUME NEW n \in Nat, n \in P
      PROVE  n + 1 \in P
  <2>1. SUFFICES ASSUME NEW s \in SUBSET S, Cardinality(s) = n + 1 PROVE s \in B
    OBVIOUS
  <2>2. s # {}
    BY <2>1, FS_EmptySet
  <2>3. Cardinality(s \ {Wybor(s)}) = n /\ s \ {Wybor(s)} \in SUBSET S
    BY <2>1, <2>2, WyborLemma
  <2>4. s \ {Wybor(s)} \in B
    BY <1>3, <2>3
  <2>. QED
    BY <2>2, <2>4
<1> HIDE DEF P
<1>4. \A n \in Nat : n \in P
  BY <1>2, <1>3, NatSetInduction
<1>. QED
  BY <1>1, <1>4 DEF P

(* The equation of the fold has a solution. *)
LEMMA RownanieMaRozwiazanie ==
  ASSUME NEW S, IsFiniteSet(S), NEW f, \A x \in S : f[x] \in Int
  PROVE  \E g : Rownanie(g, f, S)
<1> DEFINE Krok(g, s) == IF s = {} THEN 0 ELSE f[Wybor(s)] + g[s \ {Wybor(s)}]
           P == {n \in Nat : \E g \in [SUBSET S -> Int] :
                               \A s \in SUBSET S : Cardinality(s) <= n => g[s] = Krok(g, s)}
<1>1. \A s \in SUBSET S : IsFiniteSet(s) /\ Cardinality(s) \in Nat /\ Cardinality(s) <= Cardinality(S)
  BY FS_Subset, FS_CardinalityType
<1>2. 0 \in P
  <2> DEFINE g == [s \in SUBSET S |-> 0]
  <2>1. g \in [SUBSET S -> Int]
    OBVIOUS
  <2>2. \A s \in SUBSET S : Cardinality(s) <= 0 => g[s] = Krok(g, s)
    BY <1>1, FS_EmptySet
  <2> HIDE DEF g
  <2>. QED
    BY <2>1, <2>2
<1>3. ASSUME NEW n \in Nat, n \in P
      PROVE  n + 1 \in P
  <2>1. PICK g \in [SUBSET S -> Int] : \A s \in SUBSET S : Cardinality(s) <= n => g[s] = Krok(g, s)
    BY <1>3
  <2> DEFINE h == [s \in SUBSET S |-> Krok(g, s)]
  <2>2. h \in [SUBSET S -> Int]
    <3>1. ASSUME NEW s \in SUBSET S PROVE Krok(g, s) \in Int
      <4>1. CASE s = {}
        BY <4>1
      <4>2. CASE s # {}
        <5>1. Wybor(s) \in S /\ s \ {Wybor(s)} \in SUBSET S
          BY <4>2, WyborLemma
        <5>. QED
          BY <4>2, <5>1
      <4>. QED
        BY <4>1, <4>2
    <3>. QED
      BY <3>1
  <2>3. ASSUME NEW s \in SUBSET S, Cardinality(s) <= n + 1
        PROVE  h[s] = Krok(h, s)
    <3>1. CASE s = {}
      BY <3>1
    <3>2. CASE s # {}
      <4> DEFINE r == s \ {Wybor(s)}
      <4>1. r \in SUBSET S /\ Cardinality(r) <= n
        BY <1>1, <2>3, <3>2, WyborLemma
      <4>2. g[r] = h[r]
        BY <2>1, <4>1
      <4>. QED
        BY <3>2, <4>2
    <3>. QED
      BY <3>1, <3>2
  <2> HIDE DEF h
  <2>4. \A s \in SUBSET S : Cardinality(s) <= n + 1 => h[s] = Krok(h, s)
    BY <2>3
  <2> HIDE DEF Krok
  <2>. QED
    BY <2>2, <2>4
<1> HIDE DEF P
<1>4. \A n \in Nat : n \in P
  BY <1>2, <1>3, NatSetInduction
<1>5. Cardinality(S) \in P
  BY <1>4, FS_CardinalityType
<1>6. PICK g \in [SUBSET S -> Int] : \A s \in SUBSET S : g[s] = Krok(g, s)
  BY <1>1, <1>5 DEF P
<1>7. g = [s \in SUBSET S |-> Krok(g, s)]
  BY <1>6
<1>. QED
  BY <1>7 DEF Rownanie

(* The same equation case by case, and the sums are integers. *)
Rozwiniecie(g, f, S) ==
  /\ g[{}] = 0
  /\ \A s \in SUBSET S : g[s] \in Int
  /\ \A s \in SUBSET S : s # {} => g[s] = f[Wybor(s)] + g[s \ {Wybor(s)}]

(* Every solution of the equation has integer values. *)
LEMMA RownanieTyp ==
  ASSUME NEW S, IsFiniteSet(S), NEW f, \A x \in S : f[x] \in Int, NEW g, Rownanie(g, f, S)
  PROVE  Rozwiniecie(g, f, S)
<1>1. \A s \in SUBSET S : g[s] = IF s = {} THEN 0 ELSE f[Wybor(s)] + g[s \ {Wybor(s)}]
  BY DEF Rownanie
<1> DEFINE B == {s \in SUBSET S : g[s] \in Int}
<1>2. {} \in B
  <2>1. {} \in SUBSET S
    OBVIOUS
  <2>2. g[{}] = 0
    BY <1>1, <2>1
  <2>. QED
    BY <2>1, <2>2
<1>3. ASSUME NEW s \in SUBSET S, s # {} /\ s \ {Wybor(s)} \in B
      PROVE  s \in B
  <2>1. f[Wybor(s)] \in Int
    BY <1>3, WyborLemma
  <2>2. g[s \ {Wybor(s)}] \in Int
    BY <1>3
  <2>3. g[s] = f[Wybor(s)] + g[s \ {Wybor(s)}]
    BY <1>1, <1>3
  <2>4. g[s] \in Int
    BY <2>1, <2>2, <2>3
  <2>. QED
    BY <2>4
<1> HIDE DEF B
<1>4. \A s \in SUBSET S : s \in B
  BY <1>2, <1>3, PodzbioryIndukcja
<1>. QED
  BY <1>1, <1>4 DEF B, Rozwiniecie

(* A sum over a finite set is an integer, and a natural number if all its
   terms are. *)
LEMMA SumaTyp ==
  ASSUME NEW S, IsFiniteSet(S), NEW f, \A x \in S : f[x] \in Int
  PROVE  /\ SumaNa(f, S) \in Int
         /\ (\A x \in S : f[x] >= 0) => SumaNa(f, S) >= 0
<1>1. PICK g : Rownanie(g, f, S) /\ SumaNa(f, S) = g[S]
  BY RownanieMaRozwiazanie, FoldDef
<1>2. Rozwiniecie(g, f, S)
  BY <1>1, RownanieTyp
<1>3. ASSUME \A x \in S : f[x] >= 0
      PROVE  g[S] >= 0
  <2> DEFINE B == {s \in SUBSET S : g[s] >= 0}
  <2>1. {} \in B
    BY <1>2 DEF Rozwiniecie
  <2>2. ASSUME NEW s \in SUBSET S, s # {} /\ s \ {Wybor(s)} \in B
        PROVE  s \in B
    <3>1. f[Wybor(s)] \in Int /\ f[Wybor(s)] >= 0
      BY <1>3, <2>2, WyborLemma
    <3>2. g[s] = f[Wybor(s)] + g[s \ {Wybor(s)}] /\ g[s] \in Int /\ g[s \ {Wybor(s)}] \in Int
      BY <1>2, <2>2, WyborLemma DEF Rozwiniecie
    <3>3. g[s \ {Wybor(s)}] >= 0
      BY <2>2
    <3>. QED
      BY <3>1, <3>2, <3>3
  <2> HIDE DEF B
  <2>3. \A s \in SUBSET S : s \in B
    BY <2>1, <2>2, PodzbioryIndukcja
  <2>. QED
    BY <2>3 DEF B
<1>. QED
  BY <1>1, <1>2, <1>3 DEF Rozwiniecie

(* The same terms have the same sum, also as part of a larger one. *)
LEMMA RozwiniecieJedno ==
  ASSUME NEW S, IsFiniteSet(S), NEW f, NEW g, Rozwiniecie(g, f, S),
         NEW T \in SUBSET S, NEW e, NEW h, Rozwiniecie(h, e, T),
         \A x \in T : e[x] = f[x]
  PROVE  \A s \in SUBSET T : h[s] = g[s]
<1> DEFINE B == {s \in SUBSET T : h[s] = g[s]}
<1>1. {} \in B
  BY DEF Rozwiniecie
<1>2. IsFiniteSet(T)
  BY FS_Subset
<1>3. ASSUME NEW s \in SUBSET T, s # {} /\ s \ {Wybor(s)} \in B
      PROVE  s \in B
  <2>1. Wybor(s) \in T /\ s \in SUBSET S
    BY <1>2, <1>3, WyborLemma
  <2>2. h[s] = e[Wybor(s)] + h[s \ {Wybor(s)}] /\ g[s] = f[Wybor(s)] + g[s \ {Wybor(s)}]
    BY <1>3, <2>1 DEF Rozwiniecie
  <2>3. e[Wybor(s)] = f[Wybor(s)] /\ h[s \ {Wybor(s)}] = g[s \ {Wybor(s)}]
    BY <1>3, <2>1
  <2>. QED
    BY <2>2, <2>3
<1> HIDE DEF B
<1>4. \A s \in SUBSET T : s \in B
  BY <1>1, <1>2, <1>3, PodzbioryIndukcja
<1>. QED
  BY <1>4 DEF B

(* Functions that agree on S have the same sum over it. *)
LEMMA SumaRowna ==
  ASSUME NEW S, IsFiniteSet(S), NEW f, \A x \in S : f[x] \in Int, NEW e, \A x \in S : e[x] = f[x]
  PROVE  SumaNa(e, S) = SumaNa(f, S)
<1>1. PICK g : Rownanie(g, f, S) /\ SumaNa(f, S) = g[S]
  BY RownanieMaRozwiazanie, FoldDef
<1>2. PICK h : Rownanie(h, e, S) /\ SumaNa(e, S) = h[S]
  BY RownanieMaRozwiazanie, FoldDef
<1>3. Rozwiniecie(g, f, S)
  BY <1>1, RownanieTyp
<1>4. Rozwiniecie(h, e, S)
  BY <1>2, RownanieTyp
<1>5. S \in SUBSET S
  OBVIOUS
<1>6. \A s \in SUBSET S : h[s] = g[s]
  BY <1>3, <1>4, <1>5, RozwiniecieJedno
<1>. QED
  BY <1>1, <1>2, <1>6

(* The empty sum is zero. *)
LEMMA SumaPusta ==
  ASSUME NEW f
  PROVE  SumaNa(f, {}) = 0
<1>1. IsFiniteSet({}) /\ \A x \in {} : f[x] \in Int
  BY FS_EmptySet
<1>2. PICK g : Rownanie(g, f, {}) /\ SumaNa(f, {}) = g[{}]
  BY <1>1, RownanieMaRozwiazanie, FoldDef
<1>3. Rozwiniecie(g, f, {})
  BY <1>1, <1>2, RownanieTyp
<1>. QED
  BY <1>2, <1>3 DEF Rozwiniecie

(* A sum of zeros is zero. *)
LEMMA SumaZer ==
  ASSUME NEW S, IsFiniteSet(S), NEW f, \A x \in S : f[x] = 0
  PROVE  SumaNa(f, S) = 0
<1>1. \A x \in S : f[x] \in Int
  OBVIOUS
<1>2. PICK g : Rownanie(g, f, S) /\ SumaNa(f, S) = g[S]
  BY <1>1, RownanieMaRozwiazanie, FoldDef
<1>3. Rozwiniecie(g, f, S)
  BY <1>1, <1>2, RownanieTyp
<1> DEFINE B == {s \in SUBSET S : g[s] = 0}
<1>4. {} \in B
  BY <1>3 DEF Rozwiniecie
<1>5. ASSUME NEW s \in SUBSET S, s # {} /\ s \ {Wybor(s)} \in B
      PROVE  s \in B
  <2>1. f[Wybor(s)] = 0
    BY <1>5, WyborLemma
  <2>2. g[s] = f[Wybor(s)] + g[s \ {Wybor(s)}]
    BY <1>3, <1>5 DEF Rozwiniecie
  <2>. QED
    BY <1>5, <2>1, <2>2
<1> HIDE DEF B
<1>6. \A s \in SUBSET S : s \in B
  BY <1>4, <1>5, PodzbioryIndukcja
<1>. QED
  BY <1>2, <1>6 DEF B

(* Any element, not only the chosen one, can be taken out first. *)
LEMMA RozwiniecieElement ==
  ASSUME NEW S, IsFiniteSet(S), NEW f, \A x \in S : f[x] \in Int, NEW g, Rozwiniecie(g, f, S)
  PROVE  \A s \in SUBSET S : \A y \in s : g[s] = f[y] + g[s \ {y}]
<1> DEFINE P == {n \in Nat : \A s \in SUBSET S : Cardinality(s) = n => \A y \in s : g[s] = f[y] + g[s \ {y}]}
<1>1. \A s \in SUBSET S : IsFiniteSet(s) /\ Cardinality(s) \in Nat
  BY FS_Subset, FS_CardinalityType
<1>2. 0 \in P
  BY <1>1, FS_EmptySet
<1>3. ASSUME NEW n \in Nat, n \in P
      PROVE  n + 1 \in P
  <2>1. SUFFICES ASSUME NEW s \in SUBSET S, Cardinality(s) = n + 1, NEW y \in s
                 PROVE  g[s] = f[y] + g[s \ {y}]
    OBVIOUS
  <2> DEFINE w == Wybor(s)
  <2>2. w \in s /\ g[s] = f[w] + g[s \ {w}]
    BY WyborLemma DEF Rozwiniecie
  <2> HIDE DEF w
  <2>3. CASE y = w
    BY <2>2, <2>3
  <2>4. CASE y # w
    <3>1. /\ s \ {w} \in SUBSET S /\ Cardinality(s \ {w}) = n
          /\ s \ {y} \in SUBSET S /\ Cardinality(s \ {y}) = n
      <4>1. IsFiniteSet(s) /\ Cardinality(s) - 1 = n
        BY <1>1, <2>1
      <4>2. Cardinality(s \ {w}) = Cardinality(s) - 1
        BY <2>2, <4>1, FS_RemoveElement
      <4>3. Cardinality(s \ {y}) = Cardinality(s) - 1
        BY <2>1, <4>1, FS_RemoveElement
      <4>. QED
        BY <4>1, <4>2, <4>3
    <3> DEFINE r == (s \ {w}) \ {y}
    <3>2. r = (s \ {y}) \ {w} /\ r \in SUBSET S
      OBVIOUS
    <3> HIDE DEF r
    <3>3. g[s \ {w}] = f[y] + g[r]
      BY <1>3, <2>4, <3>1 DEF r
    <3>4. g[s \ {y}] = f[w] + g[r]
      BY <1>3, <2>2, <2>4, <3>1, <3>2
    <3>5. g[r] \in Int /\ f[w] \in Int /\ f[y] \in Int
      BY <2>2, <3>2 DEF Rozwiniecie
    <3>. QED
      BY <2>2, <3>3, <3>4, <3>5
  <2>. QED
    BY <2>3, <2>4
<1> HIDE DEF P
<1>4. \A n \in Nat : n \in P
  BY <1>2, <1>3, NatSetInduction
<1>. QED
  BY <1>1, <1>4 DEF P

(* One term, and the sum of the others. *)
LEMMA SumaElement ==
  ASSUME NEW S, IsFiniteSet(S), NEW f, \A x \in S : f[x] \in Int, NEW a \in S
  PROVE  SumaNa(f, S) = f[a] + SumaNa(f, S \ {a})
<1>1. PICK g : Rownanie(g, f, S) /\ SumaNa(f, S) = g[S]
  BY RownanieMaRozwiazanie, FoldDef
<1> DEFINE T == S \ {a}
<1>2. IsFiniteSet(T) /\ T \in SUBSET S /\ \A x \in T : f[x] \in Int
  BY FS_Subset
<1> HIDE DEF T
<1>3. PICK h : Rownanie(h, f, T) /\ SumaNa(f, T) = h[T]
  BY <1>2, RownanieMaRozwiazanie, FoldDef
<1>4. Rozwiniecie(g, f, S)
  BY <1>1, RownanieTyp
<1>5. Rozwiniecie(h, f, T)
  BY <1>2, <1>3, RownanieTyp
<1>6. \A x \in T : f[x] = f[x]
  OBVIOUS
<1>7. \A s \in SUBSET T : h[s] = g[s]
  BY <1>2, <1>4, <1>5, <1>6, RozwiniecieJedno
<1>8. g[S] = f[a] + g[S \ {a}]
  BY <1>4, RozwiniecieElement
<1>. QED
  BY <1>1, <1>3, <1>7, <1>8 DEF T

(* Changing the term of a changes the sum by as much. *)
LEMMA SumaZmiana ==
  ASSUME NEW S, IsFiniteSet(S), NEW f, \A x \in S : f[x] \in Int, NEW e, NEW a \in S,
         e[a] \in Int, \A x \in S : x # a => e[x] = f[x]
  PROVE  SumaNa(e, S) = SumaNa(f, S) + e[a] - f[a]
<1> DEFINE T == S \ {a}
<1>1. IsFiniteSet(T) /\ (\A x \in T : f[x] \in Int) /\ (\A x \in T : e[x] = f[x])
  BY FS_Subset
<1>2. \A x \in S : e[x] \in Int
  OBVIOUS
<1>3. SumaNa(e, S) = e[a] + SumaNa(e, T) /\ SumaNa(f, S) = f[a] + SumaNa(f, T)
  BY <1>2, SumaElement
<1> HIDE DEF T
<1>4. SumaNa(e, T) = SumaNa(f, T)
  BY <1>1, SumaRowna
<1>5. SumaNa(f, T) \in Int
  BY <1>1, SumaTyp
<1>. QED
  BY <1>3, <1>4, <1>5

(* A sum of equal terms is a product. *)
LEMMA SumaStala ==
  ASSUME NEW S, IsFiniteSet(S), NEW c \in Int, NEW f, \A x \in S : f[x] = c
  PROVE  SumaNa(f, S) = Cardinality(S) * c
<1>1. \A x \in S : f[x] \in Int
  OBVIOUS
<1>2. PICK g : Rownanie(g, f, S) /\ SumaNa(f, S) = g[S]
  BY <1>1, RownanieMaRozwiazanie, FoldDef
<1>3. Rozwiniecie(g, f, S)
  BY <1>1, <1>2, RownanieTyp
<1> DEFINE B == {s \in SUBSET S : g[s] = Cardinality(s) * c}
<1>4. {} \in B
  BY <1>3, FS_EmptySet DEF Rozwiniecie
<1>5. ASSUME NEW s \in SUBSET S, s # {} /\ s \ {Wybor(s)} \in B
      PROVE  s \in B
  <2> DEFINE k == Cardinality(s \ {Wybor(s)})
  <2>1. f[Wybor(s)] = c /\ k \in Nat /\ Cardinality(s) = k + 1
    BY <1>5, WyborLemma
  <2>2. g[s] = f[Wybor(s)] + g[s \ {Wybor(s)}]
    BY <1>3, <1>5 DEF Rozwiniecie
  <2>3. g[s \ {Wybor(s)}] = k * c
    BY <1>5
  <2> HIDE DEF k
  <2>4. (k + 1) * c = c + k * c
    BY <2>1
  <2>. QED
    BY <2>1, <2>2, <2>3, <2>4
<1> HIDE DEF B
<1>6. \A s \in SUBSET S : s \in B
  BY <1>4, <1>5, PodzbioryIndukcja
<1>. QED
  BY <1>2, <1>6 DEF B

(* Equal terms of alternating signs, as many of each, cancel out. *)
LEMMA SumaParami ==
  ASSUME NEW m \in Nat, NEW c \in Int, NEW f,
         \A x \in 0..(2 * m - 1) : f[x] = IF x % 2 = 0 THEN c ELSE -c
  PROVE  SumaNa(f, 0..(2 * m - 1)) = 0
<1> DEFINE P == {n \in Nat : n <= m => SumaNa(f, 0..(2 * n - 1)) = 0}
<1>1. 0 \in P
  <2>1. 0..(2 * 0 - 1) = {}
    OBVIOUS
  <2>. QED
    BY <2>1, SumaPusta
<1>2. ASSUME NEW n \in Nat, n \in P
      PROVE  n + 1 \in P
  <2>1. SUFFICES ASSUME n + 1 <= m PROVE SumaNa(f, 0..(2 * (n + 1) - 1)) = 0
    OBVIOUS
  <2> DEFINE S == 0..(2 * n + 1)
             T == S \ {2 * n + 1}
  <2>2. /\ S = 0..(2 * (n + 1) - 1) /\ 2 * n + 1 \in S /\ 2 * n \in T
        /\ T \ {2 * n} = 0..(2 * n - 1) /\ S \subseteq 0..(2 * m - 1)
    BY <2>1
  <2>3. IsFiniteSet(S) /\ IsFiniteSet(T)
    <3>1. IsFiniteSet(S)
      BY FS_Interval
    <3>. QED
      BY <3>1, FS_RemoveElement, <2>2
  <2>4. f[2 * n] = c /\ f[2 * n + 1] = -c
    <3>1. (2 * n) % 2 = 0 /\ (2 * n + 1) % 2 = 1
      OBVIOUS
    <3>. QED
      BY <2>2, <3>1
  <2>5. (\A x \in S : f[x] \in Int) /\ (\A x \in T : f[x] \in Int)
    BY <2>2
  <2>6. SumaNa(f, 0..(2 * n - 1)) = 0
    BY <1>2, <2>1
  <2>7. 2 * n + 1 \in S /\ 2 * n \in T
    BY <2>2
  <2> DEFINE d == 2 * n
             e == 2 * n + 1
  <2> HIDE DEF S
  <2>8. SumaNa(f, S) = f[e] + SumaNa(f, T)
    BY <2>3, <2>5, <2>7, SumaElement DEF e, T
  <2> HIDE DEF T
  <2>9. SumaNa(f, T) = f[d] + SumaNa(f, T \ {d})
    BY <2>3, <2>5, <2>7, SumaElement DEF d
  <2>10. SumaNa(f, T \ {d}) = 0 /\ f[d] = c /\ f[e] = -c
    BY <2>2, <2>4, <2>6 DEF d, e
  <2> HIDE DEF d, e
  <2>11. SumaNa(f, S) = 0
    BY <2>8, <2>9, <2>10
  <2>12. S = 0..(2 * (n + 1) - 1)
    BY <2>2
  <2>. QED
    BY <2>11, <2>12
<1> HIDE DEF P
<1>3. \A n \in Nat : n \in P
  BY <1>1, <1>2, NatSetInduction
<1>. QED
  BY <1>3 DEF P
=============================================================================
