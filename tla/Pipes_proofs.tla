---------------------------- MODULE Pipes_proofs ----------------------------
(***************************************************************************)
(* Proofs about the programs over pipes (Pipes), for any number of clients *)
(* and blocks, children and texts, players and cards, any network and ttl: *)
(* an inductive invariant for each program, then the theorems about Spec.  *)
(***************************************************************************)
EXTENDS Pipes, DataLemmas

-----------------------------------------------------------------------------
(* The hot potato. *)

Wiadomosci == [target_id : H!Wezly, path : Seq(H!Wezly), ttl : Int]

(* The nodes of a path are neighbours, one after the other. *)
Spacer(p) == \A l \in 1..Len(p) - 1 : p[l + 1] \in Siec[p[l]] \ {p[l]}

(* Messages that have not met their target, with enough ttl to go on. *)
Szukajace == {w \in Wiadomosci :
  /\ Len(w.path) = TTL - w.ttl /\ w.ttl > 0
  /\ \A l \in 1..Len(w.path) : w.path[l] # w.target_id
  /\ Spacer(w.path)}

(* Those that may be in the pipe of node k, and those that k may hold. *)
DoWezla(k) == {w \in Szukajace : Len(w.path) > 0 =>
  k \in Siec[w.path[Len(w.path)]] \ {w.path[Len(w.path)]}}
UWezla(k) == {w \in Szukajace : Len(w.path) > 0 /\ w.path[Len(w.path)] = k}

(* Those that have met it. *)
UCelu == {w \in Wiadomosci :
  /\ Len(w.path) = TTL - w.ttl /\ Len(w.path) \in 1..SCIEZKA
  /\ \A l \in 1..Len(w.path) : w.path[l] = w.target_id <=> l = Len(w.path)
  /\ Spacer(w.path)}

StanH ==
  /\ rury \in [H!Wezly -> Seq(Wiadomosci)]
  /\ \A k \in H!Wezly : rury[k] \in Seq(DoWezla(k))
  /\ pc \in [H!Wezly -> {"open", "read", "podaj", "raport", "zabity"}]
  /\ msg \in [H!Wezly -> Wiadomosci \union {H!Nic}]
  /\ \A k \in H!Wezly : pc[k] = "podaj" => msg[k] \in UWezla(k)
  /\ \A k \in H!Wezly : pc[k] = "raport" => msg[k] \in UCelu
  /\ raport \in Seq(UCelu)
  /\ trasa \in UCelu \union {H!Nic}

LEMMA InitH == H!Init => StanH
<1> SUFFICES ASSUME H!Init PROVE StanH
  OBVIOUS
<1>1. \A k \in H!Wezly : <<>> \in Seq(DoWezla(k)) /\ <<>> \in Seq(Wiadomosci)
  OBVIOUS
<1>2. <<>> \in Seq(UCelu)
  OBVIOUS
<1>. QED
  BY <1>1, <1>2 DEF H!Init, StanH

(* A visit is written down: the message has met its target, or it may go on
   from this node as long as its ttl lasts. *)
LEMMA OdnotujLemma ==
  ASSUME NEW k \in H!Wezly, NEW w \in DoWezla(k)
  PROVE  /\ H!Odnotuj(k, w) \in Wiadomosci
         /\ H!Odnotuj(k, w).target_id = k => H!Odnotuj(k, w) \in UCelu
         /\ H!Odnotuj(k, w).target_id # k /\ H!Zywy(H!Odnotuj(k, w)) => H!Odnotuj(k, w) \in UWezla(k)
<1> DEFINE v == H!Odnotuj(k, w)
           p == w.path
           q == Append(p, k)
<1>1. /\ w \in Wiadomosci /\ p \in Seq(H!Wezly) /\ w.ttl \in Int /\ w.target_id \in H!Wezly
      /\ Len(p) = TTL - w.ttl /\ w.ttl > 0
      /\ \A l \in 1..Len(p) : p[l] # w.target_id
      /\ Spacer(p)
      /\ Len(p) > 0 => k \in Siec[p[Len(p)]] \ {p[Len(p)]}
  BY DEF DoWezla, Szukajace, Wiadomosci
<1>2. v.target_id = w.target_id /\ v.path = q /\ v.ttl = w.ttl - 1
  BY <1>1 DEF H!Odnotuj, Wiadomosci
<1>3. v \in Wiadomosci
  <2>1. q \in Seq(H!Wezly) /\ w.ttl - 1 \in Int
    BY <1>1
  <2>2. \A x \in Seq(H!Wezly) : [w EXCEPT !.path = x] \in Wiadomosci /\ [w EXCEPT !.path = x].ttl = w.ttl
    BY <1>1 DEF Wiadomosci
  <2>3. \A u \in Wiadomosci : \A t \in Int : [u EXCEPT !.ttl = t] \in Wiadomosci
    BY DEF Wiadomosci
  <2>4. v = [[w EXCEPT !.path = q] EXCEPT !.ttl = w.ttl - 1]
    BY <1>1, <2>1, <2>2 DEF H!Odnotuj
  <2> HIDE DEF v, q
  <2>. QED
    BY <2>1, <2>2, <2>3, <2>4
<1> HIDE DEF v, p
<1>4. /\ q \in Seq(H!Wezly) /\ Len(q) = Len(p) + 1 /\ q[Len(p) + 1] = k
      /\ \A l \in 1..Len(p) : q[l] = p[l]
      /\ Len(p) \in Nat
  BY <1>1
<1> HIDE DEF q
<1>5. Spacer(q)
  <2> SUFFICES ASSUME NEW l \in 1..Len(q) - 1 PROVE q[l + 1] \in Siec[q[l]] \ {q[l]}
    BY DEF Spacer
  <2>1. CASE l = Len(p)
    BY <1>1, <1>4, <2>1
  <2>2. CASE l # Len(p)
    <3>1. l \in 1..Len(p) - 1 /\ l + 1 \in 1..Len(p) /\ l \in 1..Len(p)
      BY <1>4, <2>2
    <3>2. p[l + 1] \in Siec[p[l]] \ {p[l]}
      BY <1>1, <3>1 DEF Spacer
    <3>. QED
      BY <1>4, <3>1, <3>2
  <2>. QED
    BY <2>1, <2>2
<1>6. Len(q) = TTL - v.ttl
  BY <1>1, <1>2, <1>4, SiecStala
<1>7. ASSUME v.target_id = k PROVE v \in UCelu
  <2>1. Len(q) \in 1..SCIEZKA
    BY <1>1, <1>4, SiecStala
  <2>2. ASSUME NEW l \in 1..Len(q) PROVE q[l] = k <=> l = Len(q)
    BY <1>1, <1>2, <1>4, <1>7
  <2>. QED
    BY <1>2, <1>3, <1>5, <1>6, <1>7, <2>1, <2>2 DEF UCelu
<1>8. ASSUME v.target_id # k, H!Zywy(v) PROVE v \in UWezla(k)
  <2>1. v.ttl > 0
    BY <1>8 DEF H!Zywy
  <2>2. ASSUME NEW l \in 1..Len(q) PROVE q[l] # v.target_id
    BY <1>1, <1>2, <1>4, <1>8
  <2>3. Len(q) > 0 /\ q[Len(q)] = k
    BY <1>4
  <2>. QED
    BY <1>2, <1>3, <1>5, <1>6, <2>1, <2>2, <2>3 DEF UWezla, Szukajace
<1>. QED
  BY <1>3, <1>7, <1>8 DEF v

LEMMA KrokH == StanH /\ [H!Next]_(H!vars) => StanH'
<1> SUFFICES ASSUME StanH, [H!Next]_(H!vars) PROVE StanH'
  OBVIOUS
<1>1. CASE UNCHANGED <<rury, pc, msg, raport, trasa>>
  BY <1>1 DEF StanH
<1>2. ASSUME NEW k \in H!Wezly, H!OtworzRaport(k) PROVE StanH'
  BY <1>2 DEF H!OtworzRaport, H!Idz, StanH
<1>3. ASSUME NEW k \in H!Wezly, H!Odbierz(k) PROVE StanH'
  <2> DEFINE w == H!Odnotuj(k, Head(rury[k]))
  <2>1. Head(rury[k]) \in DoWezla(k) /\ Tail(rury[k]) \in Seq(DoWezla(k)) /\ Tail(rury[k]) \in Seq(Wiadomosci)
    BY <1>3 DEF H!Odbierz, StanH
  <2>2. /\ w \in Wiadomosci
        /\ w.target_id = k => w \in UCelu
        /\ w.target_id # k /\ H!Zywy(w) => w \in UWezla(k)
    BY <2>1, OdnotujLemma
  <2>3. /\ \/ w.target_id = k /\ H!Idz(k, "raport") /\ msg' = [msg EXCEPT ![k] = w]
           \/ w.target_id # k /\ H!Zywy(w) /\ H!Idz(k, "podaj") /\ msg' = [msg EXCEPT ![k] = w]
           \/ UNCHANGED <<pc, msg>>
        /\ rury' = [rury EXCEPT ![k] = Tail(@)] /\ UNCHANGED <<raport, trasa>>
    BY <1>3, Zenon DEF H!Odbierz
  <2> HIDE DEF w
  <2>4. /\ rury' \in [H!Wezly -> Seq(Wiadomosci)]
        /\ \A j \in H!Wezly : rury'[j] \in Seq(DoWezla(j))
    BY <2>1, <2>3 DEF StanH
  <2>5. CASE UNCHANGED <<pc, msg>>
    BY <2>3, <2>4, <2>5 DEF StanH
  <2>6. CASE w.target_id = k /\ H!Idz(k, "raport") /\ msg' = [msg EXCEPT ![k] = w]
    BY <2>2, <2>3, <2>4, <2>6 DEF H!Idz, StanH
  <2>7. CASE w.target_id # k /\ H!Zywy(w) /\ H!Idz(k, "podaj") /\ msg' = [msg EXCEPT ![k] = w]
    BY <2>2, <2>3, <2>4, <2>7 DEF H!Idz, StanH
  <2>. QED
    BY <2>3, <2>5, <2>6, <2>7
<1>4. ASSUME NEW k \in H!Wezly, H!Podaj(k) PROVE StanH'
  <2>1. msg[k] \in UWezla(k) /\ msg[k] \in Wiadomosci
    BY <1>4 DEF H!Podaj, StanH, UWezla, Szukajace
  <2>2. PICK j \in Siec[k] :
          \/ j = k /\ H!Idz(k, "read") /\ UNCHANGED rury
          \/ j # k /\ H!MaCzytelnika(j) /\ H!Idz(k, "read") /\ rury' = [rury EXCEPT ![j] = Append(@, msg[k])]
          \/ j # k /\ ~H!MaCzytelnika(j) /\ H!Idz(k, "zabity") /\ UNCHANGED rury
    BY <1>4 DEF H!Podaj, H!Sasiad
  <2>3. j \in H!Wezly
    BY <2>2, SiecStala
  <2>4. j # k => msg[k] \in DoWezla(j)
    BY <2>1, <2>2 DEF UWezla, DoWezla
  <2>5. /\ rury' \in [H!Wezly -> Seq(Wiadomosci)]
        /\ \A h \in H!Wezly : rury'[h] \in Seq(DoWezla(h))
    <3>1. CASE UNCHANGED rury
      BY <3>1 DEF StanH
    <3>2. CASE j # k /\ rury' = [rury EXCEPT ![j] = Append(@, msg[k])]
      <4>1. rury[j] \in Seq(DoWezla(j)) /\ rury[j] \in Seq(Wiadomosci)
        BY <2>3 DEF StanH
      <4>2. Append(rury[j], msg[k]) \in Seq(DoWezla(j)) /\ Append(rury[j], msg[k]) \in Seq(Wiadomosci)
        BY <2>1, <2>4, <3>2, <4>1
      <4>. QED
        BY <2>3, <3>2, <4>2 DEF StanH
    <3>. QED
      BY <2>2, <3>1, <3>2
  <2>6. /\ msg' = [msg EXCEPT ![k] = H!Nic] /\ UNCHANGED <<raport, trasa>>
        /\ H!Idz(k, "read") \/ H!Idz(k, "zabity")
    BY <1>4, <2>2 DEF H!Podaj
  <2>. QED
    BY <2>5, <2>6 DEF H!Idz, StanH
<1>5. ASSUME NEW k \in H!Wezly, H!Raportuj(k) PROVE StanH'
  <2>1. msg[k] \in UCelu
    BY <1>5 DEF H!Raportuj, StanH
  <2>2. Append(raport, msg[k]) \in Seq(UCelu)
    BY <2>1 DEF StanH
  <2>. QED
    BY <1>5, <2>2 DEF H!Raportuj, H!Idz, StanH
<1>6. ASSUME NEW k \in H!Wezly, H!Zgin(k) PROVE StanH'
  BY <1>6 DEF H!Zgin, H!Idz, StanH
<1>7. CASE H!Petla
  <2>1. UNCHANGED <<pc, msg>>
    BY <1>7 DEF H!Petla
  <2>2. ASSUME NEW start_node \in H!Wezly, NEW target_id \in H!Wezly,
               rury' = [rury EXCEPT ![start_node] =
                          Append(@, [target_id |-> target_id, path |-> <<>>, ttl |-> TTL])],
               UNCHANGED <<raport, trasa>>
        PROVE  StanH'
    <3> DEFINE w == [target_id |-> target_id, path |-> <<>>, ttl |-> TTL]
    <3>1. w \in Wiadomosci /\ w.path = <<>> /\ w.ttl = TTL
      BY <2>2, SiecStala DEF Wiadomosci
    <3>2. rury' = [rury EXCEPT ![start_node] = Append(@, w)]
      BY <2>2
    <3> HIDE DEF w
    <3>3. w \in DoWezla(start_node)
      BY <3>1, SiecStala DEF DoWezla, Szukajace, Spacer
    <3>4. rury[start_node] \in Seq(DoWezla(start_node)) /\ rury[start_node] \in Seq(Wiadomosci)
      BY DEF StanH
    <3>5. Append(rury[start_node], w) \in Seq(DoWezla(start_node)) /\ Append(rury[start_node], w) \in Seq(Wiadomosci)
      BY <3>1, <3>3, <3>4
    <3>. QED
      BY <2>1, <2>2, <3>2, <3>5 DEF StanH
  <2>3. CASE raport # <<>> /\ raport' = Tail(raport) /\ trasa' = Head(raport) /\ UNCHANGED rury
    <3>1. Tail(raport) \in Seq(UCelu) /\ Head(raport) \in UCelu
      BY <2>3 DEF StanH
    <3>. QED
      BY <2>1, <2>3, <3>1 DEF StanH
  <2>. QED
    BY <1>1, <1>7, <2>1, <2>2, <2>3 DEF H!Petla
<1>8. CASE H!Sprzataj \/ H!sigint_handler \/ H!sigquit_handler
  BY <1>1, <1>8 DEF H!Sprzataj, H!sigint_handler, H!sigquit_handler
<1>. QED
  BY <1>1, <1>2, <1>3, <1>4, <1>5, <1>6, <1>7, <1>8 DEF H!Next, H!Wezel, H!vars

LEMMA TrasyH == StanH => \A w \in Range(raport) \union {trasa} :
  LET d == Len(w.path) IN
  w # H!Nic =>
    /\ d = TTL - w.ttl /\ d \in 1..SCIEZKA
    /\ \A l \in 1..d : w.path[l] = w.target_id <=> l = d
    /\ \A l \in 1..d - 1 : w.path[l + 1] \in Siec[w.path[l]] \ {w.path[l]}
<1> SUFFICES ASSUME StanH, NEW w \in Range(raport) \union {trasa}, w # H!Nic PROVE w \in UCelu
  BY DEF UCelu, Spacer
<1>. QED
  BY DEF StanH, Range

-----------------------------------------------------------------------------
(* The number ring. *)

MiejscaZ == {"while", "read", "czeka", "odebrano", "close", "wait", "wait1", "wait2", "koniec"}

(* 1 for a process with the number in its hands, and the numbers in its pipe too. *)
Trzyma(p) == IF pc[p] = "odebrano" THEN 1 ELSE 0
Ma(p) == Len(rura[p]) + Trzyma(p)
Zetony == Ma("rodzic") + Ma("d1") + Ma("d2")

(* A process has left its loop. *)
KtosSkonczyl == \E p \in Z!Procesy : pc[p] = "close" \/ Z!Zamkniete(p)

StanZ ==
  /\ rura \in [Z!Procesy -> Seq(Int)]
  /\ pc \in [Z!Procesy -> MiejscaZ]
  /\ Zetony <= 1
  /\ Zetony = 1 \/ KtosSkonczyl

LEMMA ProcesyZ ==
  /\ Z!Procesy = {"rodzic", "d1", "d2"}
  /\ \A p \in Z!Procesy : Z!Nastepny(p) \in Z!Procesy /\ Z!Nastepny(p) # p
  /\ "rodzic" # "d1" /\ "rodzic" # "d2" /\ "d1" # "d2"
<1>1. Z!Procesy = {"rodzic", "d1", "d2"}
  BY DEF Z!Procesy, Z!Dzieci
<1>2. Z!Nastepny("rodzic") = "d1" /\ Z!Nastepny("d1") = "d2" /\ Z!Nastepny("d2") = "rodzic"
  BY DEF Z!Nastepny
<1>. QED
  BY <1>1, <1>2

LEMMA InitZ == Z!Init => StanZ
<1> SUFFICES ASSUME Z!Init PROVE StanZ
  OBVIOUS
<1>1. rura \in [Z!Procesy -> Seq(Int)] /\ pc \in [Z!Procesy -> MiejscaZ]
  <2>1. <<1>> \in Seq(Int) /\ <<>> \in Seq(Int)
    OBVIOUS
  <2>. QED
    BY <2>1 DEF Z!Init, MiejscaZ
<1>2. /\ rura["rodzic"] = <<>> /\ rura["d1"] = <<1>> /\ rura["d2"] = <<>>
      /\ pc["rodzic"] = "while" /\ pc["d1"] = "while" /\ pc["d2"] = "while"
  BY ProcesyZ DEF Z!Init
<1>3. Len(<<>>) = 0 /\ Len(<<1>>) = 1
  OBVIOUS
<1>4. Trzyma("rodzic") = 0 /\ Trzyma("d1") = 0 /\ Trzyma("d2") = 0
  BY <1>2 DEF Trzyma
<1>. QED
  BY <1>1, <1>2, <1>3, <1>4 DEF StanZ, Zetony, Ma

LEMMA ZetonyTyp ==
  StanZ => /\ \A p \in Z!Procesy : Len(rura[p]) \in Nat /\ Trzyma(p) \in Nat /\ Ma(p) \in Nat
           /\ Zetony \in Nat
<1> SUFFICES ASSUME StanZ
             PROVE  /\ \A p \in Z!Procesy : Len(rura[p]) \in Nat /\ Trzyma(p) \in Nat /\ Ma(p) \in Nat
                    /\ Zetony \in Nat
  OBVIOUS
<1>1. ASSUME NEW p \in Z!Procesy PROVE Len(rura[p]) \in Nat /\ Trzyma(p) \in Nat /\ Ma(p) \in Nat
  <2>1. rura[p] \in Seq(Int)
    BY DEF StanZ
  <2>. QED
    <3>1. Trzyma(p) \in Nat
      BY DEF Trzyma
    <3>2. Len(rura[p]) \in Nat
      BY <2>1
    <3>. QED
      BY <3>1, <3>2 DEF Ma
<1>2. Ma("rodzic") \in Nat /\ Ma("d1") \in Nat /\ Ma("d2") \in Nat
  BY <1>1, ProcesyZ
<1>. QED
  BY <1>1, <1>2 DEF Zetony

(* A change of what one process, or one process and another, have. *)
LEMMA ZetonyZmiana ==
  ASSUME StanZ, NEW p \in Z!Procesy, NEW a \in Int, Ma(p)' = Ma(p) + a,
         NEW q \in Z!Procesy \ {p}, NEW b \in Int, Ma(q)' = Ma(q) + b,
         \A u \in Z!Procesy \ {p, q} : Ma(u)' = Ma(u)
  PROVE  Zetony' = Zetony + a + b
<1>1. Ma("rodzic") \in Nat /\ Ma("d1") \in Nat /\ Ma("d2") \in Nat
  BY ProcesyZ, ZetonyTyp
<1>2. p \in {"rodzic", "d1", "d2"} /\ q \in {"rodzic", "d1", "d2"} \ {p}
  BY ProcesyZ
<1>3. CASE p = "rodzic" /\ q = "d1"
  <2>1. Ma("rodzic")' = Ma("rodzic") + a /\ Ma("d1")' = Ma("d1") + b /\ Ma("d2")' = Ma("d2")
    BY <1>3, ProcesyZ
  <2>. QED
    BY <1>1, <2>1 DEF Zetony
<1>4. CASE p = "rodzic" /\ q = "d2"
  <2>1. Ma("rodzic")' = Ma("rodzic") + a /\ Ma("d2")' = Ma("d2") + b /\ Ma("d1")' = Ma("d1")
    BY <1>4, ProcesyZ
  <2>. QED
    BY <1>1, <2>1 DEF Zetony
<1>5. CASE p = "d1" /\ q = "rodzic"
  <2>1. Ma("d1")' = Ma("d1") + a /\ Ma("rodzic")' = Ma("rodzic") + b /\ Ma("d2")' = Ma("d2")
    BY <1>5, ProcesyZ
  <2>. QED
    BY <1>1, <2>1 DEF Zetony
<1>6. CASE p = "d1" /\ q = "d2"
  <2>1. Ma("d1")' = Ma("d1") + a /\ Ma("d2")' = Ma("d2") + b /\ Ma("rodzic")' = Ma("rodzic")
    BY <1>6, ProcesyZ
  <2>. QED
    BY <1>1, <2>1 DEF Zetony
<1>7. CASE p = "d2" /\ q = "rodzic"
  <2>1. Ma("d2")' = Ma("d2") + a /\ Ma("rodzic")' = Ma("rodzic") + b /\ Ma("d1")' = Ma("d1")
    BY <1>7, ProcesyZ
  <2>. QED
    BY <1>1, <2>1 DEF Zetony
<1>8. CASE p = "d2" /\ q = "d1"
  <2>1. Ma("d2")' = Ma("d2") + a /\ Ma("d1")' = Ma("d1") + b /\ Ma("rodzic")' = Ma("rodzic")
    BY <1>8, ProcesyZ
  <2>. QED
    BY <1>1, <2>1 DEF Zetony
<1>. QED
  BY <1>2, <1>3, <1>4, <1>5, <1>6, <1>7, <1>8

(* A process that moves without a number. *)
LEMMA BezLiczbyZ ==
  ASSUME StanZ, NEW p \in Z!Procesy, NEW x \in MiejscaZ \ {"odebrano"},
         pc' = [pc EXCEPT ![p] = x], pc[p] # "odebrano", UNCHANGED rura,
         pc[p] = "close" \/ Z!Zamkniete(p) => x \in {"close", "wait", "wait1", "wait2", "koniec"}
  PROVE  StanZ'
<1>1. \A q \in Z!Procesy : Trzyma(q)' = Trzyma(q)
  BY DEF StanZ, Trzyma
<1>2. Zetony' = Zetony
  <2>1. \A q \in Z!Procesy : Ma(q)' = Ma(q)
    BY <1>1 DEF Ma
  <2>2. Ma("rodzic")' = Ma("rodzic") /\ Ma("d1")' = Ma("d1") /\ Ma("d2")' = Ma("d2")
    BY <2>1, ProcesyZ
  <2>. QED
    BY <2>2 DEF Zetony
<1>3. KtosSkonczyl => KtosSkonczyl'
  BY DEF StanZ, KtosSkonczyl, Z!Zamkniete
<1>4. pc' \in [Z!Procesy -> MiejscaZ]
  BY DEF StanZ
<1>. QED
  BY <1>2, <1>3, <1>4 DEF StanZ

LEMMA KrokZ == StanZ /\ [Z!Next]_(Z!vars) => StanZ'
<1> SUFFICES ASSUME StanZ, [Z!Next]_(Z!vars) PROVE StanZ'
  OBVIOUS
<1>1. CASE UNCHANGED <<rura, pc>>
  <2>1. Zetony' = Zetony /\ KtosSkonczyl' = KtosSkonczyl
    BY <1>1 DEF Zetony, Ma, Trzyma, KtosSkonczyl, Z!Zamkniete
  <2>. QED
    BY <1>1, <2>1 DEF StanZ
<1>2. CASE Z!Czekaj
  <2>1. "rodzic" \in Z!Procesy
    BY ProcesyZ
  <2>2. PICK x \in {"wait2", "koniec"} : pc' = [pc EXCEPT !["rodzic"] = x]
    BY <1>2 DEF Z!Czekaj, Z!Idz
  <2>3. pc["rodzic"] # "odebrano" /\ UNCHANGED rura
    BY <1>2 DEF Z!Czekaj
  <2>. QED
    BY <2>1, <2>2, <2>3, BezLiczbyZ DEF MiejscaZ
<1>3. ASSUME NEW p \in Z!Procesy, Z!sigint_handler(p) PROVE StanZ'
  <2> DEFINE x == CASE pc[p] = "czeka" -> "close" [] pc[p] = "wait" -> "wait1" [] pc[p] = "wait2" -> "koniec"
               [] OTHER -> pc[p]
  <2>1. pc' = [pc EXCEPT ![p] = x] /\ UNCHANGED rura
    BY <1>3 DEF Z!sigint_handler, Z!Idz
  <2>2. /\ pc[p] = "czeka" => x = "close"
        /\ pc[p] = "wait" => x = "wait1"
        /\ pc[p] = "wait2" => x = "koniec"
        /\ pc[p] \notin {"czeka", "wait", "wait2"} => x = pc[p]
    OBVIOUS
  <2> HIDE DEF x
  <2>3. pc[p] \in MiejscaZ
    BY DEF StanZ
  <2>4. CASE pc[p] \in {"czeka", "wait", "wait2"}
    BY <2>1, <2>2, <2>4, BezLiczbyZ DEF MiejscaZ
  <2>5. CASE pc[p] \notin {"czeka", "wait", "wait2"}
    <3>1. pc' = pc
      BY <2>1, <2>2, <2>5 DEF StanZ
    <3>. QED
      BY <1>1, <2>1, <3>1
  <2>. QED
    BY <2>4, <2>5
<1>4. ASSUME NEW p \in Z!Procesy, Z!Krok(p) PROVE StanZ'
  <2>1. ASSUME NEW x \in {"read", "close", "czeka", "wait", "koniec"}, pc[p] \in {"while", "read", "czeka", "close"},
               pc[p] = "close" => x \in {"wait", "koniec"}, Z!Idz(p, x), UNCHANGED rura
        PROVE  StanZ'
    BY <2>1, BezLiczbyZ DEF MiejscaZ, Z!Zamkniete, Z!Idz
  <2>2. CASE pc[p] = "while" /\ Z!Idz(p, IF running[p] THEN "read" ELSE "close") /\ UNCHANGED rura
    BY <2>1, <2>2
  <2>3. CASE pc[p] = "close" /\ Z!Idz(p, IF p = "rodzic" THEN "wait" ELSE "koniec") /\ UNCHANGED rura
    BY <2>1, <2>3
  <2>4. CASE Z!Czytaj(p)
    <3>1. CASE Z!Idz(p, "close") /\ UNCHANGED rura
      BY <2>1, <2>4, <3>1 DEF Z!Czytaj
    <3>2. CASE Z!Idz(p, "czeka") /\ UNCHANGED rura
      BY <2>1, <2>4, <3>2 DEF Z!Czytaj
    <3>3. CASE rura[p] # <<>> /\ rura' = [rura EXCEPT ![p] = <<>>] /\ Z!Idz(p, "odebrano")
      <4>1. rura[p] \in Seq(Int) /\ Len(rura[p]) > 0
        BY <3>3 DEF StanZ
      <4>2. Trzyma(p) = 0 /\ Trzyma(p)' = 1
        BY <2>4, <3>3 DEF Z!Czytaj, Z!Idz, Trzyma, StanZ
      <4>3. Len(rura'[p]) = 0
        BY <3>3 DEF StanZ
      <4>4. \A q \in Z!Procesy : q # p => Trzyma(q)' = Trzyma(q) /\ rura'[q] = rura[q]
        BY <3>3 DEF Z!Idz, Trzyma, StanZ
      <4>5. Zetony' = Zetony + (1 - Len(rura[p])) + 0
        <5>1. PICK q \in Z!Procesy : q # p
          BY ProcesyZ
        <5>2. Ma(p)' = Ma(p) + (1 - Len(rura[p])) /\ 1 - Len(rura[p]) \in Int
          BY <4>1, <4>2, <4>3, ZetonyTyp DEF Ma
        <5>3. \A u \in Z!Procesy : u # p => Ma(u)' = Ma(u) + 0 /\ Ma(u)' = Ma(u)
          BY <4>4, ZetonyTyp DEF Ma
        <5>. QED
          BY <5>1, <5>2, <5>3, ZetonyZmiana
      <4>6. rura' \in [Z!Procesy -> Seq(Int)] /\ pc' \in [Z!Procesy -> MiejscaZ]
        <5>1. <<>> \in Seq(Int)
          OBVIOUS
        <5>. QED
          BY <3>3, <5>1 DEF StanZ, Z!Idz, MiejscaZ
      <4>7. Zetony' = 1
        <5>1. Zetony >= Len(rura[p])
          <6>1. Ma("rodzic") \in Nat /\ Ma("d1") \in Nat /\ Ma("d2") \in Nat
            BY ProcesyZ, ZetonyTyp
          <6>2. Ma(p) = Len(rura[p])
            BY <4>1, <4>2 DEF Ma
          <6>3. p = "rodzic" \/ p = "d1" \/ p = "d2"
            BY ProcesyZ
          <6>. QED
            BY <4>1, <6>1, <6>2, <6>3 DEF Zetony
        <5>. QED
          BY <4>1, <4>5, <5>1, ZetonyTyp DEF StanZ
      <4>. QED
        BY <4>6, <4>7 DEF StanZ
    <3>. QED
      BY <2>4, <3>1, <3>2, <3>3 DEF Z!Czytaj, Z!PoEof
  <2>5. ASSUME pc[p] = "odebrano", NEW d \in Losowe, Z!Podaj(p, number[p] + d),
               number[p] + d \in -MaxLiczba..MaxLiczba
        PROVE  StanZ'
    <3> DEFINE y == number[p] + d
    <3>1. y \in Int
      BY <2>5, LiczbyStale
    <3>2. \/ Z!Idz(p, "while") /\ rura' = [rura EXCEPT ![Z!Nastepny(p)] = Append(@, y)]
          \/ Z!Idz(p, "close") /\ UNCHANGED rura
      BY <2>5 DEF Z!Podaj
    <3> HIDE DEF y
    <3>3. Trzyma(p) = 1 /\ Trzyma(p)' = 0
      BY <2>5, <3>2 DEF Z!Idz, Trzyma, StanZ
    <3>4. \A q \in Z!Procesy : q # p => Trzyma(q)' = Trzyma(q)
      BY <3>2 DEF Z!Idz, Trzyma, StanZ
    <3>5. pc' \in [Z!Procesy -> MiejscaZ]
      BY <3>2 DEF StanZ, Z!Idz, MiejscaZ
    <3>6. CASE Z!Idz(p, "while") /\ rura' = [rura EXCEPT ![Z!Nastepny(p)] = Append(@, y)]
      <4> DEFINE s == Z!Nastepny(p)
      <4>1. s \in Z!Procesy /\ s # p
        BY ProcesyZ
      <4>2. rura' = [rura EXCEPT ![s] = Append(@, y)]
        BY <3>6
      <4> HIDE DEF s
      <4>3. rura[s] \in Seq(Int)
        BY <4>1 DEF StanZ
      <4>4. Append(rura[s], y) \in Seq(Int) /\ Len(Append(rura[s], y)) = Len(rura[s]) + 1
        BY <3>1, <4>3
      <4>5. /\ rura' \in [Z!Procesy -> Seq(Int)]
            /\ Len(rura'[s]) = Len(rura[s]) + 1
            /\ \A q \in Z!Procesy : q # s => rura'[q] = rura[q]
        BY <4>1, <4>2, <4>4 DEF StanZ
      <4>6. Zetony' = Zetony
        <5>1. Ma(p)' = Ma(p) + (-1)
          BY <3>3, <4>1, <4>5, ZetonyTyp DEF Ma
        <5>2. Ma(s)' = Ma(s) + 1
          BY <3>4, <4>1, <4>5, ZetonyTyp DEF Ma
        <5>3. \A u \in Z!Procesy \ {p, s} : Ma(u)' = Ma(u)
          BY <3>4, <4>5 DEF Ma
        <5>4. Zetony' = Zetony + (-1) + 1
          BY <4>1, <5>1, <5>2, <5>3, ZetonyZmiana
        <5>. QED
          BY <5>4, ZetonyTyp
      <4>7. KtosSkonczyl => KtosSkonczyl'
        BY <2>5, <3>6 DEF KtosSkonczyl, Z!Zamkniete, Z!Idz, StanZ
      <4>. QED
        BY <3>5, <4>5, <4>6, <4>7 DEF StanZ
    <3>7. CASE Z!Idz(p, "close") /\ UNCHANGED rura
      <4>1. Zetony' = Zetony + (-1) + 0
        <5>1. PICK q \in Z!Procesy : q # p
          BY ProcesyZ
        <5>2. Ma(p)' = Ma(p) + (-1)
          BY <3>3, <3>7, ZetonyTyp DEF Ma
        <5>3. \A u \in Z!Procesy : u # p => Ma(u)' = Ma(u) + 0 /\ Ma(u)' = Ma(u)
          BY <3>4, <3>7, ZetonyTyp DEF Ma
        <5>. QED
          BY <5>1, <5>2, <5>3, ZetonyZmiana
      <4>2. KtosSkonczyl'
        BY <3>7 DEF KtosSkonczyl, Z!Idz, StanZ
      <4>. QED
        BY <3>5, <3>7, <4>1, <4>2, ZetonyTyp DEF StanZ
    <3>. QED
      BY <3>2, <3>6, <3>7
  <2>. QED
    BY <1>4, <2>2, <2>3, <2>4, <2>5 DEF Z!Krok
<1>5. CASE Z!CtrlC
  BY <1>1, <1>5 DEF Z!CtrlC
<1>. QED
  BY <1>1, <1>2, <1>3, <1>4, <1>5 DEF Z!Next, Z!vars

(* The count of the processes that hold a number, one by one. *)
LEMMA WDrodzeZ == StanZ => Z!WDrodze = Zetony
<1> SUFFICES ASSUME StanZ PROVE Z!WDrodze = Zetony
  OBVIOUS
<1> DEFINE T == {p \in Z!Procesy : pc[p] = "odebrano"}
           A == T \ {"rodzic"}
           B == A \ {"d1"}
           C == B \ {"d2"}
<1>1. C = {} /\ IsFiniteSet(C) /\ Cardinality(C) = 0
  BY ProcesyZ, FS_EmptySet
<1>2. IsFiniteSet(B) /\ Cardinality(B) = Cardinality(C) + Trzyma("d2")
  <2>1. CASE pc["d2"] = "odebrano"
    <3>1. B = C \union {"d2"} /\ "d2" \notin C
      BY <2>1, ProcesyZ
    <3> HIDE DEF B, C
    <3>. QED
      BY <1>1, <2>1, <3>1, FS_AddElement DEF Trzyma
  <2>2. CASE pc["d2"] # "odebrano"
    <3>1. B = C
      BY <2>2, ProcesyZ
    <3> HIDE DEF B, C
    <3>. QED
      BY <1>1, <2>2, <3>1 DEF Trzyma
  <2>. QED
    BY <2>1, <2>2
<1>3. IsFiniteSet(A) /\ Cardinality(A) = Cardinality(B) + Trzyma("d1")
  <2>1. CASE pc["d1"] = "odebrano"
    <3>1. A = B \union {"d1"} /\ "d1" \notin B
      BY <2>1, ProcesyZ
    <3> HIDE DEF A, B
    <3>. QED
      BY <1>2, <2>1, <3>1, FS_AddElement DEF Trzyma
  <2>2. CASE pc["d1"] # "odebrano"
    <3>1. A = B
      BY <2>2, ProcesyZ
    <3> HIDE DEF A, B
    <3>. QED
      BY <1>1, <1>2, <2>2, <3>1, FS_CardinalityType DEF Trzyma
  <2>. QED
    BY <2>1, <2>2
<1>4. Cardinality(T) = Cardinality(A) + Trzyma("rodzic")
  <2>1. CASE pc["rodzic"] = "odebrano"
    <3>1. T = A \union {"rodzic"} /\ "rodzic" \notin A
      BY <2>1, ProcesyZ
    <3> HIDE DEF T, A
    <3>. QED
      BY <1>3, <2>1, <3>1, FS_AddElement DEF Trzyma
  <2>2. CASE pc["rodzic"] # "odebrano"
    <3>1. T = A
      BY <2>2, ProcesyZ
    <3> HIDE DEF T, A
    <3>. QED
      BY <1>3, <2>2, <3>1, FS_CardinalityType DEF Trzyma
  <2>. QED
    BY <2>1, <2>2
<1>5. Z!WDrodze = Len(rura["rodzic"]) + Len(rura["d1"]) + Len(rura["d2"]) + Cardinality(T)
  BY DEF Z!WDrodze, Z!Cardinality, Cardinality
<1>6. /\ Len(rura["rodzic"]) \in Nat /\ Len(rura["d1"]) \in Nat /\ Len(rura["d2"]) \in Nat
      /\ Trzyma("rodzic") \in Nat /\ Trzyma("d1") \in Nat /\ Trzyma("d2") \in Nat
  <2>1. "rodzic" \in Z!Procesy /\ "d1" \in Z!Procesy /\ "d2" \in Z!Procesy
    BY ProcesyZ
  <2> HIDE DEF T, A, B, C
  <2>. QED
    BY <2>1, ZetonyTyp
<1> HIDE DEF T, A, B, C
<1>7. Cardinality(T) = Trzyma("rodzic") + Trzyma("d1") + Trzyma("d2")
  BY <1>1, <1>2, <1>3, <1>4, <1>6
<1>8. Zetony = Len(rura["rodzic"]) + Len(rura["d1"]) + Len(rura["d2"])
                  + (Trzyma("rodzic") + Trzyma("d1") + Trzyma("d2"))
  <2> DEFINE a1 == Len(rura["rodzic"])
             a2 == Len(rura["d1"])
             a3 == Len(rura["d2"])
             b1 == Trzyma("rodzic")
             b2 == Trzyma("d1")
             b3 == Trzyma("d2")
  <2>1. Zetony = (a1 + b1) + (a2 + b2) + (a3 + b3)
    BY DEF Zetony, Ma
  <2>2. a1 \in Nat /\ a2 \in Nat /\ a3 \in Nat /\ b1 \in Nat /\ b2 \in Nat /\ b3 \in Nat
    BY <1>6
  <2>3. SUFFICES Zetony = a1 + a2 + a3 + (b1 + b2 + b3)
    OBVIOUS
  <2> HIDE DEF a1, a2, a3, b1, b2, b3
  <2>. QED
    BY <2>1, <2>2
<1>. QED
  BY <1>5, <1>7, <1>8

LEMMA JedenZ ==
  StanZ => /\ Z!WDrodze <= 1
           /\ (\A p \in Z!Procesy : pc[p] \notin {"close"} /\ ~Z!Zamkniete(p)) => Z!WDrodze = 1
BY WDrodzeZ DEF StanZ, KtosSkonczyl

-----------------------------------------------------------------------------
(* The FIFO transfer. *)

BlokF == [pid : Klienci, nr : Nat]

(* Where the blocks are that the server has or will get. *)
StrumienF == IF serwer \in {"unlink", "koniec"} THEN wypisane ELSE wypisane \o fifo

TypF ==
  /\ serwer \in {"mkfifo", "open", "open_czeka", "read", "close", "unlink", "koniec"}
  /\ pc \in [Klienci -> {"mkfifo", "open", "open_czeka", "pisz", "koniec", "sigpipe", "err"}]
  /\ fifo \in Seq(BlokF) /\ wypisane \in Seq(BlokF)
  /\ nr \in [Klienci -> Nat] /\ spoznieni \in SUBSET Klienci
  /\ pisarze = {k \in Klienci : pc[k] \in {"open_czeka", "pisz"}}

(* The server saw end of file when nobody had the FIFO open: whoever has it
   open in the moment before close, or has a block there, came too late. *)
PoKoncuF == serwer = "close" =>
  pisarze \subseteq spoznieni /\ \A l \in 1..Len(fifo) : fifo[l].pid \in spoznieni

CaloscF == \A k \in Klienci \ spoznieni : F!WCalosci(k, StrumienF, nr[k])

StanF == TypF /\ PoKoncuF /\ CaloscF

LEMMA PustyF == \A k : F!WCalosci(k, <<>>, 0)
BY DEF F!WCalosci

(* One more block: of another client, or the next one of client k. *)
LEMMA DodajF ==
  ASSUME NEW s \in Seq(BlokF), NEW b \in BlokF, NEW k, NEW j \in Nat, F!WCalosci(k, s, j)
  PROVE  /\ b.pid # k => F!WCalosci(k, Append(s, b), j)
         /\ b.pid = k /\ b.nr = j + 1 => F!WCalosci(k, Append(s, b), j + 1)
<1> DEFINE t == Append(s, b)
           Jego == {l \in DOMAIN s : s[l].pid = k}
           Nowe == {l \in DOMAIN t : t[l].pid = k}
<1>1. /\ Len(s) \in Nat /\ DOMAIN s = 1..Len(s) /\ DOMAIN t = 1..(Len(s) + 1)
      /\ t[Len(s) + 1] = b /\ \A l \in 1..Len(s) : t[l] = s[l]
  OBVIOUS
<1>2. /\ \A l \in Jego : s[l].nr \in 1..j
      /\ \A n \in 1..j : \E l \in Jego : s[l].nr = n
      /\ \A l1, l2 \in Jego : l1 < l2 => s[l1].nr < s[l2].nr
  BY DEF F!WCalosci
<1> HIDE DEF t
<1>3. \A l \in Jego : l \in Nowe /\ l <= Len(s) /\ t[l] = s[l]
  BY <1>1
<1>4. ASSUME b.pid # k PROVE F!WCalosci(k, t, j)
  <2>1. Nowe = Jego
    BY <1>1, <1>4
  <2>2. /\ \A l \in Nowe : t[l].nr \in 1..j
        /\ \A n \in 1..j : \E l \in Nowe : t[l].nr = n
        /\ \A l1, l2 \in Nowe : l1 < l2 => t[l1].nr < t[l2].nr
    <3> HIDE DEF Jego, Nowe
    <3>. QED
      BY <1>2, <1>3, <2>1
  <2>. QED
    BY <2>2 DEF F!WCalosci
<1>5. ASSUME b.pid = k, b.nr = j + 1 PROVE F!WCalosci(k, t, j + 1)
  <2>1. Nowe = Jego \union {Len(s) + 1}
    BY <1>1, <1>5
  <2> HIDE DEF Jego, Nowe
  <2>2. ASSUME NEW l \in Nowe PROVE t[l].nr \in 1..(j + 1)
    BY <1>1, <1>2, <1>3, <1>5, <2>1
  <2>3. ASSUME NEW n \in 1..(j + 1) PROVE \E l \in Nowe : t[l].nr = n
    <3>1. CASE n = j + 1
      BY <1>1, <1>5, <2>1, <3>1
    <3>2. CASE n # j + 1
      <4>1. n \in 1..j
        BY <3>2
      <4>2. PICK l \in Jego : s[l].nr = n
        BY <1>2, <4>1
      <4>. QED
        BY <1>3, <4>2
    <3>. QED
      BY <3>1, <3>2
  <2>4. ASSUME NEW l1 \in Nowe, NEW l2 \in Nowe, l1 < l2 PROVE t[l1].nr < t[l2].nr
    <3>1. l1 \in Jego
      <4>1. CASE l1 = Len(s) + 1
        <5>1. l2 \in 1..(Len(s) + 1)
          BY <1>1 DEF Nowe
        <5>. QED
          BY <1>1, <2>4, <4>1, <5>1
      <4>. QED
        BY <2>1, <4>1
    <3>2. CASE l2 \in Jego
      BY <1>2, <1>3, <2>4, <3>1, <3>2
    <3>3. CASE l2 = Len(s) + 1
      <4>1. t[l1].nr \in 1..j /\ t[l2].nr = j + 1
        BY <1>1, <1>2, <1>3, <1>5, <3>1, <3>3
      <4>. QED
        BY <4>1
    <3>. QED
      BY <2>1, <3>2, <3>3
  <2>. QED
    BY <2>2, <2>3, <2>4 DEF F!WCalosci, Nowe
<1>. QED
  BY <1>4, <1>5 DEF t

(* What comes after a position that client k has no block from does not count. *)
LEMMA UtnijF ==
  ASSUME NEW s \in Seq(BlokF), NEW u \in Seq(BlokF), NEW k, NEW j \in Nat,
         F!WCalosci(k, s \o u, j), \A l \in 1..Len(u) : u[l].pid # k
  PROVE  F!WCalosci(k, s, j)
<1> DEFINE t == s \o u
           Jego == {l \in DOMAIN s : s[l].pid = k}
           Nowe == {l \in DOMAIN t : t[l].pid = k}
<1>1. /\ Len(s) \in Nat /\ Len(u) \in Nat /\ DOMAIN s = 1..Len(s) /\ DOMAIN t = 1..(Len(s) + Len(u))
      /\ \A l \in 1..Len(s) : t[l] = s[l]
      /\ \A l \in (Len(s) + 1)..(Len(s) + Len(u)) : t[l] = u[l - Len(s)] /\ l - Len(s) \in 1..Len(u)
  OBVIOUS
<1>2. /\ \A l \in Nowe : t[l].nr \in 1..j
      /\ \A n \in 1..j : \E l \in Nowe : t[l].nr = n
      /\ \A l1, l2 \in Nowe : l1 < l2 => t[l1].nr < t[l2].nr
  BY DEF F!WCalosci
<1> HIDE DEF t
<1>3. ASSUME NEW l \in Nowe PROVE l \in Jego
  <2>1. l \in 1..Len(s) \/ l \in (Len(s) + 1)..(Len(s) + Len(u))
    BY <1>1
  <2>. QED
    BY <1>1, <2>1
<1>4. ASSUME NEW l \in Jego PROVE l \in Nowe /\ t[l] = s[l]
  BY <1>1
<1> HIDE DEF Jego, Nowe
<1>5. /\ \A l \in Jego : s[l].nr \in 1..j
      /\ \A n \in 1..j : \E l \in Jego : s[l].nr = n
      /\ \A l1, l2 \in Jego : l1 < l2 => s[l1].nr < s[l2].nr
  BY <1>2, <1>3, <1>4
<1>. QED
  BY <1>5 DEF F!WCalosci, Jego

LEMMA InitF == F!Init => StanF
<1> SUFFICES ASSUME F!Init PROVE StanF
  OBVIOUS
<1>1. TypF
  BY DEF F!Init, TypF
<1>2. PoKoncuF
  BY DEF F!Init, PoKoncuF
<1>3. StrumienF = <<>>
  BY DEF F!Init, StrumienF
<1>4. CaloscF
  BY <1>3, PustyF DEF F!Init, CaloscF
<1>. QED
  BY <1>1, <1>2, <1>4 DEF StanF

(* Moving the first block of the FIFO to the end of what is printed changes
   nothing in the stream. *)
LEMMA PrzeniesF ==
  ASSUME NEW s \in Seq(BlokF), NEW u \in Seq(BlokF), u # <<>>
  PROVE  Append(s, Head(u)) \o Tail(u) = s \o u
<1> DEFINE v == Append(s, Head(u)) \o Tail(u)
<1>1. Head(u) = u[1] /\ Head(u) \in BlokF /\ Tail(u) \in Seq(BlokF) /\ Len(Tail(u)) = Len(u) - 1 /\ Len(u) > 0
  OBVIOUS
<1>2. v \in Seq(BlokF) /\ s \o u \in Seq(BlokF) /\ Len(v) = Len(s) + Len(u) /\ Len(s \o u) = Len(s) + Len(u)
  BY <1>1
<1>3. ASSUME NEW l \in 1..(Len(s) + Len(u)) PROVE v[l] = (s \o u)[l]
  <2>1. CASE l <= Len(s)
    BY <1>1, <2>1
  <2>2. CASE l = Len(s) + 1
    BY <1>1, <2>2
  <2>3. CASE l > Len(s) + 1
    BY <1>1, <2>3
  <2>. QED
    BY <2>1, <2>2, <2>3
<1> HIDE DEF v
<1>4. \A l \in 1..Len(v) : v[l] = (s \o u)[l]
  BY <1>2, <1>3
<1>5. v = s \o u
  BY <1>2, <1>4, SeqEqual
<1>. QED
  BY <1>5 DEF v

LEMMA DopiszF ==
  ASSUME NEW s \in Seq(BlokF), NEW u \in Seq(BlokF), NEW b \in BlokF
  PROVE  s \o Append(u, b) = Append(s \o u, b)
<1> DEFINE v == s \o Append(u, b)
           w == Append(s \o u, b)
<1>1. v \in Seq(BlokF) /\ w \in Seq(BlokF) /\ Len(v) = Len(s) + Len(u) + 1 /\ Len(w) = Len(s) + Len(u) + 1
  OBVIOUS
<1>2. ASSUME NEW l \in 1..(Len(s) + Len(u) + 1) PROVE v[l] = w[l]
  OBVIOUS
<1> HIDE DEF v, w
<1>3. \A l \in 1..Len(v) : v[l] = w[l]
  BY <1>1, <1>2
<1>. QED
  BY <1>1, <1>3, SeqEqual DEF v, w

LEMMA KrokF == StanF /\ [F!Next]_(F!vars) => StanF'
<1> SUFFICES ASSUME StanF, [F!Next]_(F!vars) PROVE StanF'
  OBVIOUS
<1>1. ASSUME UNCHANGED <<fifo, wypisane, nr>>,
             serwer \in {"unlink", "koniec"} <=> serwer' \in {"unlink", "koniec"},
             spoznieni \subseteq spoznieni'
      PROVE  CaloscF'
  <2>1. StrumienF' = StrumienF
    BY <1>1 DEF StrumienF
  <2>. QED
    BY <1>1, <2>1 DEF StanF, CaloscF
<1>2. CASE UNCHANGED F!vars
  BY <1>1, <1>2 DEF F!vars, StanF, TypF, PoKoncuF
<1>3. CASE F!SerwerOtwiera
  <2>1. TypF'
    BY <1>3 DEF F!SerwerOtwiera, StanF, TypF
  <2>2. PoKoncuF'
    BY <1>3 DEF F!SerwerOtwiera, PoKoncuF
  <2>3. CaloscF'
    BY <1>1, <1>3 DEF F!SerwerOtwiera
  <2>. QED
    BY <2>1, <2>2, <2>3 DEF StanF
<1>4. CASE F!read_from_fifo
  <2>1. CASE F!Eof /\ serwer' = "close" /\ UNCHANGED <<fifo, wypisane>>
    <3>1. TypF'
      BY <1>4, <2>1 DEF F!read_from_fifo, StanF, TypF
    <3>2. PoKoncuF'
      BY <1>4, <2>1 DEF F!read_from_fifo, F!Eof, PoKoncuF
    <3>3. CaloscF'
      BY <1>1, <1>4, <2>1 DEF F!read_from_fifo
    <3>. QED
      BY <3>1, <3>2, <3>3 DEF StanF
  <2>2. CASE fifo # <<>> /\ fifo' = Tail(fifo) /\ wypisane' = Append(wypisane, Head(fifo)) /\ UNCHANGED serwer
    <3>0. fifo \in Seq(BlokF) /\ wypisane \in Seq(BlokF)
      BY DEF StanF, TypF
    <3>1. Head(fifo) \in BlokF /\ Tail(fifo) \in Seq(BlokF) /\ Append(wypisane, Head(fifo)) \in Seq(BlokF)
      BY <2>2, <3>0
    <3>2. TypF'
      BY <1>4, <2>2, <3>1 DEF F!read_from_fifo, StanF, TypF
    <3>3. PoKoncuF'
      BY <1>4, <2>2 DEF F!read_from_fifo, PoKoncuF
    <3>4. StrumienF' = StrumienF
      BY <1>4, <2>2, <3>0, PrzeniesF DEF F!read_from_fifo, StrumienF
    <3>5. CaloscF'
      BY <1>4, <3>4 DEF F!read_from_fifo, StanF, CaloscF
    <3>. QED
      BY <3>2, <3>3, <3>5 DEF StanF
  <2>. QED
    BY <1>4, <2>1, <2>2 DEF F!read_from_fifo
<1>5. CASE F!SerwerKonczy
  <2>1. TypF' /\ PoKoncuF'
    BY <1>5 DEF F!SerwerKonczy, StanF, TypF, PoKoncuF
  <2>2. CaloscF'
    <3>1. CASE serwer = "unlink"
      BY <1>1, <1>5, <3>1 DEF F!SerwerKonczy
    <3>2. CASE serwer = "close"
      <4>1. serwer' = "unlink" /\ UNCHANGED <<fifo, wypisane, nr, spoznieni>>
        BY <1>5, <3>2 DEF F!SerwerKonczy
      <4>2. ASSUME NEW k \in Klienci \ spoznieni PROVE F!WCalosci(k, wypisane, nr[k])
        <5>1. F!WCalosci(k, wypisane \o fifo, nr[k])
          BY <3>2 DEF StanF, CaloscF, StrumienF
        <5>2. \A l \in 1..Len(fifo) : fifo[l].pid # k
          BY <3>2 DEF StanF, PoKoncuF
        <5>3. fifo \in Seq(BlokF) /\ wypisane \in Seq(BlokF) /\ nr[k] \in Nat
          BY DEF StanF, TypF
        <5>. QED
          BY <5>1, <5>2, <5>3, UtnijF
      <4>. QED
        BY <4>1, <4>2 DEF CaloscF, StrumienF
    <3>. QED
      BY <1>5, <3>1, <3>2 DEF F!SerwerKonczy
  <2>. QED
    BY <2>1, <2>2 DEF StanF
<1>6. ASSUME NEW k \in Klienci, F!KlientOtwiera(k) PROVE StanF'
  <2>1. TypF'
    <3>1. CASE F!Idz(k, "open") /\ pc[k] = "mkfifo" /\ UNCHANGED <<pisarze, serwer, spoznieni>>
      BY <1>6, <3>1 DEF F!KlientOtwiera, F!Idz, StanF, TypF
    <3>2. CASE F!Idz(k, "err") /\ pc[k] = "open" /\ UNCHANGED <<pisarze, serwer, spoznieni>>
      BY <1>6, <3>2 DEF F!KlientOtwiera, F!Idz, StanF, TypF
    <3>3. CASE /\ pc[k] = "open" /\ pisarze' = pisarze \union {k}
               /\ F!Idz(k, IF F!JestCzytelnik THEN "pisz" ELSE "open_czeka")
               /\ serwer' = IF serwer = "open_czeka" THEN "read" ELSE serwer
               /\ spoznieni' = IF serwer = "close" THEN spoznieni \union {k} ELSE spoznieni
      <4>1. PICK x \in {"pisz", "open_czeka"} : pc' = [pc EXCEPT ![k] = x]
        BY <3>3 DEF F!Idz
      <4>2. pisarze' = {h \in Klienci : pc'[h] \in {"open_czeka", "pisz"}}
        BY <3>3, <4>1 DEF StanF, TypF
      <4>. QED
        BY <1>6, <3>3, <4>1, <4>2 DEF F!KlientOtwiera, StanF, TypF
    <3>. QED
      BY <1>6, <3>1, <3>2, <3>3 DEF F!KlientOtwiera
  <2>2. PoKoncuF'
    BY <1>6 DEF F!KlientOtwiera, StanF, PoKoncuF
  <2>3. CaloscF'
    <3>1. UNCHANGED <<fifo, wypisane, nr>> /\ spoznieni \subseteq spoznieni'
          /\ (serwer \in {"unlink", "koniec"} <=> serwer' \in {"unlink", "koniec"})
      BY <1>6 DEF F!KlientOtwiera
    <3>. QED
      BY <1>1, <3>1
  <2>. QED
    BY <2>1, <2>2, <2>3 DEF StanF
<1>7. ASSUME NEW k \in Klienci, F!write_to_fifo(k) PROVE StanF'
  <2>1. CASE /\ F!JestCzytelnik /\ nr' = [nr EXCEPT ![k] = @ + 1]
             /\ fifo' = Append(fifo, [pid |-> k, nr |-> nr[k] + 1])
             /\ UNCHANGED <<pisarze, pc>>
    <3> DEFINE b == [pid |-> k, nr |-> nr[k] + 1]
    <3>1. /\ fifo \in Seq(BlokF) /\ wypisane \in Seq(BlokF) /\ b \in BlokF
          /\ b.pid = k /\ b.nr = nr[k] + 1 /\ nr[k] \in Nat
      BY DEF StanF, TypF, BlokF
    <3>2. fifo' = Append(fifo, b) /\ UNCHANGED <<serwer, spoznieni, wypisane, pisarze, pc>>
      BY <1>7, <2>1 DEF F!write_to_fifo
    <3> HIDE DEF b
    <3>3. TypF'
      BY <2>1, <3>1, <3>2 DEF StanF, TypF
    <3>4. PoKoncuF'
      <4> SUFFICES ASSUME serwer = "close" PROVE \A l \in 1..Len(fifo') : fifo'[l].pid \in spoznieni
        BY <3>2 DEF StanF, PoKoncuF
      <4>1. k \in spoznieni
        BY <1>7 DEF F!write_to_fifo, StanF, TypF, PoKoncuF
      <4>2. \A l \in 1..Len(fifo) : fifo[l].pid \in spoznieni
        BY DEF StanF, PoKoncuF
      <4>3. ASSUME NEW l \in 1..Len(fifo') PROVE fifo'[l] = b \/ (l \in 1..Len(fifo) /\ fifo'[l] = fifo[l])
        BY <3>1, <3>2
      <4>. QED
        BY <3>1, <4>1, <4>2, <4>3
    <3>5. CaloscF'
      <4>1. StrumienF = wypisane \o fifo /\ StrumienF' = Append(wypisane \o fifo, b)
        <5>1. serwer \notin {"unlink", "koniec"}
          BY <2>1 DEF F!JestCzytelnik
        <5>2. StrumienF = wypisane \o fifo /\ StrumienF' = wypisane \o Append(fifo, b)
          BY <3>2, <5>1 DEF StrumienF
        <5>. QED
          BY <3>1, <5>2, DopiszF
      <4>2. ASSUME NEW h \in Klienci \ spoznieni PROVE F!WCalosci(h, StrumienF', nr'[h])
        <5>1. F!WCalosci(h, wypisane \o fifo, nr[h]) /\ nr[h] \in Nat /\ wypisane \o fifo \in Seq(BlokF)
          BY <3>1, <4>1 DEF StanF, CaloscF, TypF
        <5>2. nr'[h] = IF h = k THEN nr[k] + 1 ELSE nr[h]
          BY <2>1 DEF StanF, TypF
        <5>3. CASE h = k
          BY <3>1, <4>1, <5>1, <5>2, <5>3, DodajF
        <5>4. CASE h # k
          BY <3>1, <4>1, <5>1, <5>2, <5>4, DodajF
        <5>. QED
          BY <5>3, <5>4
      <4>. QED
        BY <3>2, <4>2 DEF CaloscF
    <3>. QED
      BY <3>3, <3>4, <3>5 DEF StanF
  <2>2. ASSUME NEW x \in {"sigpipe", "koniec"}, F!Idz(k, x), pisarze' = pisarze \ {k}, UNCHANGED <<fifo, nr>>
        PROVE  StanF'
    <3>1. pisarze' = {h \in Klienci : pc'[h] \in {"open_czeka", "pisz"}}
      BY <2>2 DEF F!Idz, StanF, TypF
    <3>2. TypF'
      BY <1>7, <2>2, <3>1 DEF F!write_to_fifo, F!Idz, StanF, TypF
    <3>3. PoKoncuF'
      BY <1>7, <2>2 DEF F!write_to_fifo, StanF, PoKoncuF
    <3>4. CaloscF'
      BY <1>1, <1>7, <2>2 DEF F!write_to_fifo
    <3>. QED
      BY <3>2, <3>3, <3>4 DEF StanF
  <2>. QED
    BY <1>7, <2>1, <2>2 DEF F!write_to_fifo, F!Zamknij
<1>. QED
  BY <1>2, <1>3, <1>4, <1>5, <1>6, <1>7 DEF F!Next, F!Serwer, F!Klient

-----------------------------------------------------------------------------
(* The letters. *)

(* A length at place l of s is followed by that many letters, and then by
   another length or by nothing. *)
CalaL(s, l) ==
  /\ l + s[l] <= Len(s)
  /\ \A x \in (l + 1)..(l + s[l]) : s[x] = 0
  /\ l + s[l] < Len(s) => s[l + s[l] + 1] > 0

NaglowkiL(s) == \A l \in 1..Len(s) : s[l] > 0 => CalaL(s, l)

(* The rest of a frame, p letters, and after it whole frames. *)
RamkiL(s, p) ==
  /\ p <= Len(s)
  /\ \A x \in 1..p : s[x] = 0
  /\ p < Len(s) => s[p + 1] > 0
  /\ NaglowkiL(s)

(* zad_2_1.c: the letters that children have written, and who has gone. *)
Napisali == {k \in L!Dzieci : pc[k] # "pisz"}

StanL1 ==
  /\ rodzic \in {"read", "wait", "koniec"}
  /\ pc \in [L!Dzieci -> {"pisz", "close", "koniec"}]
  /\ R \in Seq({0}) /\ odebrano \in Nat
  /\ odebrano + Len(R) = Cardinality(Napisali)
  /\ rodzic # "read" => R = <<>> /\ \A k \in L!Dzieci : pc[k] = "koniec"
  /\ sig = {} /\ ~sigchld /\ wiadomosc = <<>>

(* zad_2_2.c: what is in R, and which children are dead. *)
StanL2 ==
  /\ rodzic \in {"test", "zeruj", "przed", "czeka", "eintr", "echild", "dane", "koniec"}
  /\ pc \in [L!Dzieci -> {"read", "pisz", "koniec"}]
  /\ R \in Seq(Nat) /\ wiadomosc \in Seq({0})
  /\ rodzic = "dane" => ile \in Nat \ {0} /\ RamkiL(R, ile)
  /\ rodzic # "dane" => RamkiL(R, 0)
  /\ otwarta \in [L!Dzieci -> BOOLEAN]
  /\ \A k \in L!Dzieci : ~otwarta[k] \/ rodzic = "koniec" => pc[k] = "koniec"

StanL ==
  /\ wariant \in {"2_1", "2_2"}
  /\ wariant = "2_1" => StanL1
  /\ wariant = "2_2" => StanL2

(* The end of a sequence keeps its whole frames. *)
LEMMA KoniecL ==
  ASSUME NEW s \in Seq(Nat), NEW d \in Nat, d <= Len(s), NEW t \in Seq(Nat),
         Len(t) = Len(s) - d, \A x \in 1..Len(t) : t[x] = s[x + d], NaglowkiL(s)
  PROVE  NaglowkiL(t)
<1> SUFFICES ASSUME NEW l \in 1..Len(t), t[l] > 0 PROVE CalaL(t, l)
  BY DEF NaglowkiL
<1> DEFINE a == l + d
           h == t[l]
           m == Len(s)
           n == Len(t)
<1>0. m \in Nat /\ n \in Nat /\ h \in Nat /\ a \in Nat /\ n = m - d /\ l \in 1..n /\ h > 0 /\ a = l + d
  <2>1. m \in Nat /\ n \in Nat /\ h \in Nat
    BY LenProperties, ElementOfSeq
  <2>2. n = m - d /\ l \in 1..n /\ h > 0 /\ a = l + d
    OBVIOUS
  <2> HIDE DEF a, h, m, n
  <2>3. a \in Nat
    BY <2>1, <2>2
  <2>. QED
    BY <2>1, <2>2, <2>3
<1>1. a \in 1..m /\ s[a] = h
  OBVIOUS
<1>2. \A x \in 1..n : t[x] = s[x + d]
  OBVIOUS
<1>3. CalaL(s, a)
  BY <1>0, <1>1 DEF NaglowkiL
<1>4. a + h <= m /\ (\A x \in (a + 1)..(a + h) : s[x] = 0) /\ (a + h < m => s[a + h + 1] > 0)
  BY <1>1, <1>3 DEF CalaL
<1>5. SUFFICES /\ l + h <= n
               /\ \A x \in (l + 1)..(l + h) : t[x] = 0
               /\ l + h < n => t[l + h + 1] > 0
  BY DEF CalaL
<1> HIDE DEF a, h, m, n
<1>6. l + h <= n
  BY <1>0, <1>4
<1>7. ASSUME NEW x \in (l + 1)..(l + h) PROVE t[x] = 0
  <2>1. x \in 1..n /\ x + d \in (a + 1)..(a + h)
    BY <1>0, <1>6
  <2>. QED
    BY <1>2, <1>4, <2>1
<1>8. ASSUME l + h < n PROVE t[l + h + 1] > 0
  <2>1. l + h + 1 \in 1..n /\ (l + h + 1) + d = a + h + 1 /\ a + h < m
    BY <1>0, <1>8
  <2>2. t[l + h + 1] = s[(l + h + 1) + d]
    BY <1>2, <2>1
  <2>3. s[(l + h + 1) + d] = s[a + h + 1]
    BY <2>1
  <2>. QED
    BY <1>4, <2>1, <2>2, <2>3
<1>. QED
  BY <1>6, <1>7, <1>8

(* The parent reads a length. *)
LEMMA DlugoscL ==
  ASSUME NEW s \in Seq(Nat), s # <<>>, RamkiL(s, 0)
  PROVE  Head(s) \in Nat \ {0} /\ Tail(s) \in Seq(Nat) /\ RamkiL(Tail(s), Head(s))
<1>1. /\ Len(s) \in Nat \ {0} /\ Head(s) = s[1] /\ s[1] \in Nat
      /\ Tail(s) \in Seq(Nat) /\ Len(Tail(s)) = Len(s) - 1
      /\ \A x \in 1..Len(Tail(s)) : Tail(s)[x] = s[x + 1]
  OBVIOUS
<1> DEFINE t == Tail(s)
           p == s[1]
<1>2. p > 0 /\ CalaL(s, 1)
  <2>1. 0 < Len(s) => s[0 + 1] > 0
    BY DEF RamkiL
  <2>2. s[1] > 0
    BY <1>1, <2>1
  <2>. QED
    BY <1>1, <2>2 DEF RamkiL, NaglowkiL
<1> HIDE DEF t
<1>3. NaglowkiL(t)
  <2>1. t \in Seq(Nat) /\ 1 \in Nat /\ 1 <= Len(s) /\ Len(t) = Len(s) - 1 /\ \A x \in 1..Len(t) : t[x] = s[x + 1]
    BY <1>1 DEF t
  <2>2. NaglowkiL(s)
    BY DEF RamkiL
  <2>. QED
    BY <2>1, <2>2, KoniecL
<1>4. p <= Len(t)
  BY <1>1, <1>2 DEF CalaL, t
<1>5. ASSUME NEW x \in 1..p PROVE t[x] = 0
  <2>1. x \in 1..Len(t) /\ x + 1 \in (1 + 1)..(1 + s[1])
    BY <1>1, <1>4
  <2>. QED
    BY <1>1, <1>2, <2>1 DEF CalaL, t
<1>6. ASSUME p < Len(t) PROVE t[p + 1] > 0
  <2>1. p + 1 \in 1..Len(t) /\ 1 + s[1] < Len(s) /\ (p + 1) + 1 = 1 + s[1] + 1
    BY <1>1, <1>6 DEF t
  <2>. QED
    BY <1>1, <1>2, <2>1 DEF CalaL, t
<1>. QED
  BY <1>1, <1>2, <1>3, <1>4, <1>5, <1>6 DEF RamkiL, t

(* The parent reads the text. *)
LEMMA TekstL ==
  ASSUME NEW s \in Seq(Nat), NEW p \in Nat, RamkiL(s, p)
  PROVE  /\ SubSeq(s, 1, p) \in Seq({0})
         /\ SubSeq(s, p + 1, Len(s)) \in Seq(Nat) /\ RamkiL(SubSeq(s, p + 1, Len(s)), 0)
<1>1. Len(s) \in Nat /\ p <= Len(s)
  BY DEF RamkiL
<1>2. SubSeq(s, 1, p) \in Seq({0})
  <2>1. SubSeq(s, 1, p) = [x \in 1..p |-> s[x]]
    BY <1>1
  <2>2. \A x \in 1..p : s[x] \in {0}
    BY DEF RamkiL
  <2>. QED
    BY <2>1, <2>2
<1> DEFINE t == SubSeq(s, p + 1, Len(s))
<1>3. t \in Seq(Nat) /\ Len(t) = Len(s) - p /\ \A x \in 1..Len(t) : t[x] = s[x + p]
  BY <1>1
<1> HIDE DEF t
<1>4. NaglowkiL(t)
  BY <1>1, <1>3, KoniecL DEF RamkiL
<1>5. ASSUME 0 < Len(t) PROVE t[0 + 1] > 0
  <2>1. 1 \in 1..Len(t) /\ 1 + p = p + 1 /\ p < Len(s)
    BY <1>1, <1>3, <1>5
  <2>. QED
    BY <1>3, <2>1 DEF RamkiL
<1>6. RamkiL(t, 0)
  BY <1>3, <1>4, <1>5 DEF RamkiL
<1>. QED
  BY <1>2, <1>3, <1>6 DEF t

(* A child writes a length and its letters at the end. *)
LEMMA OdpowiedzL ==
  ASSUME NEW s \in Seq(Nat), NEW p \in Nat, RamkiL(s, p), NEW d \in Nat \ {0}
  PROVE  s \o L!Odpowiedz(d) \in Seq(Nat) /\ RamkiL(s \o L!Odpowiedz(d), p)
<1> DEFINE u == L!Odpowiedz(d)
           t == s \o u
<1>1. u \in Seq(Nat) /\ Len(u) = d + 1 /\ u[1] = d /\ \A x \in 2..(d + 1) : u[x] = 0
  <2> DEFINE z == [l \in 1..d |-> 0]
  <2>1. z \in Seq(Nat) /\ Len(z) = d /\ \A x \in 1..d : z[x] = 0
    OBVIOUS
  <2>2. u = <<d>> \o z
    BY DEF L!Odpowiedz, L!LITERA
  <2> HIDE DEF z, u
  <2>3. <<d>> \in Seq(Nat) /\ Len(<<d>>) = 1 /\ <<d>>[1] = d
    OBVIOUS
  <2>4. u \in Seq(Nat) /\ Len(u) = d + 1 /\ u[1] = d /\ \A x \in 2..(d + 1) : u[x] = z[x - 1]
    BY <2>1, <2>2, <2>3
  <2>. QED
    BY <2>1, <2>4
<1> HIDE DEF u
<1>2. /\ t \in Seq(Nat) /\ Len(s) \in Nat /\ Len(t) = Len(s) + d + 1
      /\ \A x \in 1..Len(s) : t[x] = s[x]
      /\ t[Len(s) + 1] = d
      /\ \A x \in (Len(s) + 2)..(Len(s) + d + 1) : t[x] = 0
  <2>1. t \in Seq(Nat) /\ Len(s) \in Nat /\ Len(t) = Len(s) + d + 1
    BY <1>1
  <2>2. \A x \in 1..Len(s) : t[x] = s[x]
    OBVIOUS
  <2>3. \A x \in (Len(s) + 1)..(Len(s) + d + 1) : t[x] = u[x - Len(s)]
    BY <1>1
  <2>4. Len(s) + 1 \in (Len(s) + 1)..(Len(s) + d + 1) /\ (Len(s) + 1) - Len(s) = 1
    BY <2>1
  <2>5. ASSUME NEW x \in (Len(s) + 2)..(Len(s) + d + 1) PROVE t[x] = 0
    <3>1. x \in (Len(s) + 1)..(Len(s) + d + 1) /\ x - Len(s) \in 2..(d + 1)
      BY <2>1
    <3>. QED
      BY <1>1, <2>3, <3>1
  <2>6. t[Len(s) + 1] = d
    BY <1>1, <2>3, <2>4
  <2>. QED
    BY <2>1, <2>2, <2>5, <2>6
<1> HIDE DEF t
<1> DEFINE m == Len(s)
<1>3. /\ p <= m /\ (\A x \in 1..p : s[x] = 0) /\ (p < m => s[p + 1] > 0)
      /\ \A l \in 1..m : s[l] > 0 => CalaL(s, l)
  BY DEF RamkiL, NaglowkiL
<1>a. /\ m \in Nat /\ Len(t) = m + d + 1 /\ t \in Seq(Nat)
      /\ \A x \in 1..m : t[x] = s[x] /\ s[x] \in Nat
      /\ t[m + 1] = d
      /\ \A x \in (m + 2)..(m + d + 1) : t[x] = 0
  <2>1. \A x \in 1..m : s[x] \in Nat
    OBVIOUS
  <2>. QED
    BY <1>2, <2>1
<1> HIDE DEF m
<1>4. ASSUME NEW x \in 1..p PROVE t[x] = 0
  <2>1. x \in 1..m
    BY <1>a, <1>3
  <2>. QED
    BY <1>a, <1>3, <2>1
<1>5. t[p + 1] > 0
  <2>1. CASE p = m
    BY <1>a, <2>1
  <2>2. CASE p < m
    <3>1. p + 1 \in 1..m
      BY <1>a, <2>2
    <3>2. t[p + 1] = s[p + 1]
      BY <1>a, <3>1
    <3>. QED
      BY <1>3, <2>2, <3>2
  <2>. QED
    BY <1>a, <1>3, <2>1, <2>2
<1>6. NaglowkiL(t)
  <2> SUFFICES ASSUME NEW l \in 1..(m + d + 1), t[l] > 0 PROVE CalaL(t, l)
    BY <1>a DEF NaglowkiL
  <2>1. CASE l \in 1..m
    <3> DEFINE h == s[l]
    <3>1. t[l] = h /\ h \in Nat /\ h > 0
      BY <1>a, <2>1
    <3>2. CalaL(s, l)
      BY <1>3, <2>1, <3>1
    <3>3. l + h <= m /\ (\A x \in (l + 1)..(l + h) : s[x] = 0) /\ (l + h < m => s[l + h + 1] > 0)
      BY <3>2 DEF CalaL, m
    <3> HIDE DEF h
    <3>4. ASSUME NEW x \in (l + 1)..(l + h) PROVE t[x] = 0
      <4>1. x \in 1..m
        BY <1>a, <2>1, <3>1, <3>3
      <4>. QED
        BY <1>a, <3>3, <4>1
    <3>5. t[l + h + 1] > 0
      <4>1. CASE l + h = m
        <5>1. t[l + h + 1] = t[m + 1]
          BY <4>1
        <5>. QED
          BY <1>a, <5>1
      <4>2. CASE l + h < m
        <5>1. l + h + 1 \in 1..m
          BY <1>a, <2>1, <3>1, <4>2
        <5>2. t[l + h + 1] = s[l + h + 1]
          BY <1>a, <5>1
        <5>. QED
          BY <3>3, <4>2, <5>2
      <4>. QED
        BY <1>a, <2>1, <3>1, <3>3, <4>1, <4>2
    <3>6. l + h <= Len(t)
      BY <1>a, <2>1, <3>1, <3>3
    <3>. QED
      BY <3>1, <3>4, <3>5, <3>6 DEF CalaL
  <2>2. CASE l = m + 1
    <3>1. t[l] = d
      BY <1>a, <2>2
    <3>2. l + d = Len(t) /\ ~(l + d < Len(t))
      BY <1>a, <2>2
    <3>3. ASSUME NEW x \in (l + 1)..(l + d) PROVE t[x] = 0
      <4>1. x \in (m + 2)..(m + d + 1)
        BY <1>a, <2>2
      <4>. QED
        BY <1>a, <4>1
    <3>4. l + d <= Len(t)
      BY <1>a, <2>2
    <3>. QED
      BY <3>1, <3>2, <3>3, <3>4 DEF CalaL
  <2>3. CASE l \in (m + 2)..(m + d + 1)
    BY <1>a, <2>3
  <2>. QED
    BY <1>a, <2>1, <2>2, <2>3
<1>7. p <= Len(t)
  BY <1>a, <1>3
<1>8. RamkiL(t, p)
  BY <1>4, <1>5, <1>6, <1>7 DEF RamkiL
<1>. QED
  BY <1>2, <1>8 DEF t, u

LEMMA InitL == L!Init => StanL
<1> SUFFICES ASSUME L!Init PROVE StanL
  OBVIOUS
<1>1. R = <<>> /\ wiadomosc = <<>> /\ odebrano = 0 /\ sig = {} /\ sigchld = FALSE
  BY DEF L!Init
<1>2. ASSUME wariant = "2_1" PROVE StanL1
  <2>1. pc = [k \in L!Dzieci |-> "pisz"] /\ rodzic = "read"
    BY <1>2 DEF L!Init
  <2>2. Napisali = {}
    BY <2>1 DEF Napisali
  <2>3. Cardinality(Napisali) = 0
    BY <2>2, FS_EmptySet
  <2>. QED
    BY <1>1, <2>1, <2>3 DEF StanL1
<1>3. ASSUME wariant = "2_2" PROVE StanL2
  <2>1. RamkiL(<<>>, 0)
    BY DEF RamkiL, NaglowkiL
  <2>2. pc = [k \in L!Dzieci |-> "read"] /\ rodzic = "test" /\ otwarta = [k \in L!Dzieci |-> TRUE]
    BY <1>3 DEF L!Init
  <2>. QED
    BY <1>1, <2>1, <2>2 DEF StanL2
<1>. QED
  BY <1>2, <1>3 DEF StanL, L!Init

LEMMA Krok1L == wariant = "2_1" /\ StanL1 /\ [L!Next]_(L!vars) => StanL1'
<1> SUFFICES ASSUME wariant = "2_1", StanL1, [L!Next]_(L!vars) PROVE StanL1'
  OBVIOUS
<1>0. IsFiniteSet(L!Dzieci) /\ L!Dzieci = 0..(N - 1)
  BY LiterkiStale, FS_Interval DEF L!Dzieci
<1>1. CASE UNCHANGED L!vars
  BY <1>1 DEF L!vars, StanL1, Napisali
<1>2. CASE L!Rodzic1
  <2>1. UNCHANGED <<pc, sig, sigchld, wiadomosc>> /\ Napisali' = Napisali
    BY <1>2 DEF L!Rodzic1, Napisali
  <2>2. CASE rodzic = "read" /\ R # <<>> /\ R' = Tail(R) /\ odebrano' = odebrano + 1 /\ UNCHANGED rodzic
    <3>1. R \in Seq({0})
      BY DEF StanL1
    <3>2. Tail(R) \in Seq({0}) /\ Len(Tail(R)) = Len(R) - 1 /\ Len(R) \in Nat
      BY <2>2, <3>1
    <3>. QED
      BY <2>1, <2>2, <3>2 DEF StanL1
  <2>3. CASE rodzic = "read" /\ R = <<>> /\ L!Pisarze = {} /\ rodzic' = "wait" /\ UNCHANGED <<R, odebrano>>
    <3>1. \A k \in L!Dzieci : pc[k] = "koniec"
      BY <2>3 DEF L!Pisarze
    <3>. QED
      BY <2>1, <2>3, <3>1 DEF StanL1
  <2>4. CASE rodzic = "wait" /\ rodzic' = "koniec" /\ UNCHANGED <<R, odebrano>>
    BY <2>1, <2>4 DEF StanL1
  <2>. QED
    BY <1>2, <2>2, <2>3, <2>4 DEF L!Rodzic1
<1>3. ASSUME NEW k \in L!Dzieci, L!Dziecko1(k) PROVE StanL1'
  <2>1. UNCHANGED <<rodzic, odebrano, sig, sigchld, wiadomosc>>
    BY <1>3 DEF L!Dziecko1
  <2>2. CASE pc[k] = "pisz" /\ R' = Append(R, L!LITERA) /\ L!Idz(k, "close")
    <3>1. R \in Seq({0}) /\ R' = Append(R, 0)
      BY <2>2 DEF StanL1, L!LITERA
    <3>2. R' \in Seq({0}) /\ Len(R') = Len(R) + 1 /\ Len(R) \in Nat
      BY <3>1
    <3>3. Napisali' = Napisali \union {k} /\ k \notin Napisali
      BY <2>2 DEF Napisali, L!Idz, StanL1
    <3>4. Cardinality(Napisali') = Cardinality(Napisali) + 1
      <4>1. IsFiniteSet(Napisali)
        BY <1>0, FS_Subset DEF Napisali
      <4>. QED
        BY <3>3, <4>1, FS_AddElement
    <3>5. rodzic = "read"
      BY <2>2 DEF StanL1
    <3>6. pc' \in [L!Dzieci -> {"pisz", "close", "koniec"}]
      BY <2>2 DEF L!Idz, StanL1
    <3>7. odebrano' + Len(R') = Cardinality(Napisali')
      BY <2>1, <3>2, <3>4 DEF StanL1
    <3>. QED
      BY <2>1, <3>2, <3>5, <3>6, <3>7 DEF StanL1
  <2>3. CASE pc[k] = "close" /\ L!Idz(k, "koniec") /\ UNCHANGED R
    <3>1. Napisali' = Napisali
      BY <2>3 DEF Napisali, L!Idz, StanL1
    <3>2. pc' \in [L!Dzieci -> {"pisz", "close", "koniec"}] /\ (rodzic # "read" => \A h \in L!Dzieci : pc'[h] = "koniec")
      BY <2>3 DEF L!Idz, StanL1
    <3>. QED
      BY <2>1, <2>3, <3>1, <3>2 DEF StanL1
  <2>. QED
    BY <1>3, <2>2, <2>3 DEF L!Dziecko1
<1>. QED
  BY <1>1, <1>2, <1>3
  DEF L!Next, L!Rodzic2, L!CtrlC, L!Sygnaly, L!sigint_parent, L!sigchild_handler, L!sigint_child,
      L!Dziecko, StanL1

LEMMA Krok2L == wariant = "2_2" /\ StanL2 /\ [L!Next]_(L!vars) => StanL2'
<1> SUFFICES ASSUME wariant = "2_2", StanL2, [L!Next]_(L!vars) PROVE StanL2'
  OBVIOUS
<1>1. CASE UNCHANGED L!vars
  BY <1>1 DEF L!vars, StanL2
<1>2. CASE L!TestFlagi /\ UNCHANGED <<wariant, pc, sig, sigchld, ileSigint>>
  <2>1. UNCHANGED <<R, ile, wiadomosc, pc>> /\ rodzic \in {"test", "zeruj", "eintr"}
       /\ rodzic' \in {"przed", "zeruj", "test"}
    BY <1>2 DEF L!TestFlagi
  <2>2. otwarta' \in [L!Dzieci -> BOOLEAN] /\ \A k \in L!Dzieci : ~otwarta'[k] => pc[k] = "koniec"
    <3>1. CASE UNCHANGED otwarta
      BY <3>1 DEF StanL2
    <3>2. ASSUME NEW w, L!PoslijLitere(w)
          PROVE  otwarta' \in [L!Dzieci -> BOOLEAN] /\ \A k \in L!Dzieci : ~otwarta'[k] => pc[k] = "koniec"
      <4>1. CASE otwarta[w] /\ pc[w] \in {"koniec", "err"}
        <5>1. otwarta' = [otwarta EXCEPT ![w] = FALSE]
          BY <3>2, <4>1 DEF L!PoslijLitere
        <5>2. ASSUME NEW k \in L!Dzieci, ~otwarta'[k] PROVE pc[k] = "koniec"
          BY <4>1, <5>1, <5>2 DEF StanL2
        <5>. QED
          BY <5>1, <5>2 DEF StanL2
      <4>2. CASE ~(otwarta[w] /\ pc[w] \in {"koniec", "err"})
        BY <3>1, <3>2, <4>2 DEF L!PoslijLitere
      <4>. QED
        BY <4>1, <4>2
    <3>. QED
      BY <1>2, <3>1, <3>2 DEF L!TestFlagi
  <2>. QED
    BY <2>1, <2>2 DEF StanL2
<1>3. CASE L!CzytajRamke /\ UNCHANGED <<wariant, pc, sig, sigchld, ileSigint>>
  <2>1. UNCHANGED <<pc, otwarta>>
    BY <1>3 DEF L!CzytajRamke
  <2>2. CASE rodzic \in {"przed", "czeka"} /\ R # <<>> /\ ile' = Head(R) /\ R' = Tail(R) /\ rodzic' = "dane"
             /\ UNCHANGED wiadomosc
    <3>1. ile' \in Nat \ {0} /\ R' \in Seq(Nat) /\ RamkiL(R', ile')
      BY <2>2, DlugoscL DEF StanL2
    <3>. QED
      BY <2>1, <2>2, <3>1 DEF StanL2
  <2>3. CASE rodzic \in {"przed", "czeka"} /\ R = <<>> /\ L!Pisarze = {} /\ rodzic' = "koniec"
             /\ UNCHANGED <<R, ile, wiadomosc>>
    <3>1. \A k \in L!Dzieci : pc[k] = "koniec"
      BY <2>3 DEF L!Pisarze
    <3>. QED
      BY <2>1, <2>3, <3>1 DEF StanL2
  <2>4. CASE rodzic = "przed" /\ rodzic' = "czeka" /\ UNCHANGED <<R, ile, wiadomosc>>
    BY <2>1, <2>4 DEF StanL2
  <2>5. ~(rodzic = "dane" /\ Len(R) < ile)
    <3>1. ASSUME rodzic = "dane" PROVE ile <= Len(R) /\ ile \in Nat /\ Len(R) \in Nat
      BY <3>1 DEF StanL2, RamkiL
    <3>. QED
      BY <3>1
  <2>6. CASE /\ rodzic = "dane" /\ rodzic' = "test"
             /\ wiadomosc' = SubSeq(R, 1, ile) /\ R' = SubSeq(R, ile + 1, Len(R))
    <3>1. wiadomosc' \in Seq({0}) /\ R' \in Seq(Nat) /\ RamkiL(R', 0)
      BY <2>6, TekstL DEF StanL2
    <3>. QED
      BY <2>1, <2>6, <3>1 DEF StanL2
  <2>. QED
    BY <1>3, <2>2, <2>3, <2>4, <2>5, <2>6 DEF L!CzytajRamke
<1>4. ASSUME NEW k \in L!Dzieci, L!child_work(k) PROVE StanL2'
  <2>1. UNCHANGED <<otwarta, rodzic, ile, wiadomosc>>
    BY <1>4 DEF L!child_work
  <2>2. CASE pc[k] = "read" /\ L!Idz(k, "pisz") /\ UNCHANGED R
    BY <2>1, <2>2 DEF StanL2, L!Idz
  <2>3. ~(pc[k] = "read" /\ (~otwarta[k] \/ rodzic = "koniec"))
    BY DEF StanL2
  <2>4. ASSUME pc[k] = "pisz", L!Idz(k, "read"), NEW d \in Dlugosci, R' = R \o L!Odpowiedz(d)
        PROVE  StanL2'
    <3>1. d \in Nat \ {0}
      BY LiterkiStale
    <3>2. R' \in Seq(Nat)
      <4>1. PICK p \in Nat : RamkiL(R, p)
        BY DEF StanL2
      <4>. QED
        BY <2>4, <3>1, <4>1, OdpowiedzL DEF StanL2
    <3>3. rodzic' = "dane" => RamkiL(R', ile')
      BY <2>1, <2>4, <3>1, OdpowiedzL DEF StanL2
    <3>4. rodzic' # "dane" => RamkiL(R', 0)
      BY <2>1, <2>4, <3>1, OdpowiedzL DEF StanL2
    <3>5. /\ pc' \in [L!Dzieci -> {"read", "pisz", "koniec"}]
          /\ \A h \in L!Dzieci : ~otwarta'[h] \/ rodzic' = "koniec" => pc'[h] = "koniec"
      BY <2>1, <2>4 DEF StanL2, L!Idz
    <3>. QED
      BY <2>1, <3>2, <3>3, <3>4, <3>5 DEF StanL2
  <2>. QED
    BY <1>4, <2>2, <2>3, <2>4 DEF L!child_work
<1>5. CASE L!CtrlC
  BY <1>5 DEF L!CtrlC, StanL2
<1>6. ASSUME NEW k \in L!Dzieci, L!sigint_child(k) PROVE StanL2'
  BY <1>6 DEF L!sigint_child, L!Idz, StanL2
<1>7. CASE L!sigint_parent \/ L!sigchild_handler
  BY <1>7 DEF L!sigint_parent, L!sigchild_handler, L!Przerwij, StanL2
<1>. QED
  BY <1>1, <1>2, <1>3, <1>4, <1>5, <1>6, <1>7
  DEF L!Next, L!Rodzic1, L!Rodzic2, L!Sygnaly, L!Dziecko

LEMMA KrokL == StanL /\ [L!Next]_(L!vars) => StanL'
<1> SUFFICES ASSUME StanL, [L!Next]_(L!vars) PROVE StanL'
  OBVIOUS
<1>1. wariant' = wariant
  BY DEF L!Next, L!Rodzic1, L!Rodzic2, L!CtrlC, L!Sygnaly, L!sigint_parent, L!sigchild_handler,
         L!sigint_child, L!Dziecko, L!Dziecko1, L!child_work, L!vars
<1>. QED
  BY <1>1, Krok1L, Krok2L DEF StanL

LEMMA RamkiDobreL ==
  StanL => /\ rodzic # "err" /\ (\A k \in L!Dzieci : pc[k] # "err")
           /\ wiadomosc # <<>> => \A l \in DOMAIN wiadomosc : wiadomosc[l] = L!LITERA
           /\ rodzic = "dane" => ile > 0 /\ Len(R) >= ile
           /\ wariant = "2_1" /\ rodzic = "koniec" => odebrano = N
<1>1. ASSUME StanL, wariant = "2_1"
      PROVE  /\ rodzic # "err" /\ rodzic # "dane" /\ (\A k \in L!Dzieci : pc[k] # "err")
             /\ wiadomosc = <<>>
             /\ rodzic = "koniec" => odebrano = N
  <2>1. StanL1
    BY <1>1 DEF StanL
  <2>2. ASSUME rodzic = "koniec" PROVE odebrano = N
    <3>1. Napisali = L!Dzieci /\ odebrano + Len(R) = Cardinality(Napisali) /\ R = <<>> /\ odebrano \in Nat
      BY <2>1, <2>2 DEF StanL1, Napisali
    <3>2. L!Dzieci = 0..(N - 1) /\ Cardinality(0..(N - 1)) = N
      BY LiterkiStale, FS_Interval DEF L!Dzieci
    <3>3. Len(R) = 0
      BY <3>1
    <3>. QED
      BY <3>1, <3>2, <3>3
  <2>. QED
    BY <2>1, <2>2 DEF StanL1
<1>2. ASSUME StanL, wariant = "2_2"
      PROVE  /\ rodzic # "err" /\ (\A k \in L!Dzieci : pc[k] # "err")
             /\ \A l \in DOMAIN wiadomosc : wiadomosc[l] = 0
             /\ rodzic = "dane" => ile > 0 /\ Len(R) >= ile
  <2>1. StanL2
    BY <1>2 DEF StanL
  <2>2. \A l \in DOMAIN wiadomosc : wiadomosc[l] = 0
    <3>1. wiadomosc \in Seq({0})
      BY <2>1 DEF StanL2
    <3>. QED
      BY <3>1
  <2>3. ASSUME rodzic = "dane" PROVE ile > 0 /\ Len(R) >= ile
    <3>1. R \in Seq(Nat) /\ ile \in Nat \ {0} /\ ile <= Len(R)
      BY <2>1, <2>3 DEF StanL2, RamkiL
    <3>. QED
      BY <3>1
  <2>. QED
    BY <2>1, <2>2, <2>3 DEF StanL2
<1>. QED
  BY <1>1, <1>2 DEF StanL, L!LITERA

-----------------------------------------------------------------------------
(* The card game: types. *)

TypK ==
  /\ SP \in [K!Gracze -> Seq({"new_round", "l", "end_game"})]
  /\ PS \in [K!Gracze -> Seq(1..LiczbaKart)]
  /\ pc \in [K!Gracze -> {"read", "petla", "koniec", "sigpipe", "zabity"}]
  /\ odwiedzone_karty \in [K!Gracze -> SUBSET (1..LiczbaKart)]
  /\ serwer \in {"new_round", "odbierz", "licz", "rozdaj", "end_game", "wait", "koniec", "sigpipe", "sigfpe"}
  /\ r \in Nat /\ i \in 0..LiczbaGraczy
  /\ rzucone_karty \in [K!Gracze -> 0..LiczbaKart] /\ max_points \in Int
  /\ zwyciezcy \in SUBSET K!Gracze /\ sum_points \in [K!Gracze -> Nat]

LEMMA GlowaOgon ==
  ASSUME NEW M, NEW s \in Seq(M), s # <<>>
  PROVE  Head(s) \in M /\ Tail(s) \in Seq(M)
OBVIOUS

LEMMA GraczeK ==
  /\ K!Gracze = 0..(LiczbaGraczy - 1) /\ IsFiniteSet(K!Gracze) /\ LiczbaGraczy \in Nat \ {0}
  /\ \A h \in 0..LiczbaGraczy : h < LiczbaGraczy <=> h \in K!Gracze
BY KartyStale, FS_Interval DEF K!Gracze

LEMMA LiczbaZwyciezcow ==
  ASSUME NEW A \in SUBSET K!Gracze, A # {}
  PROVE  Cardinality(A) \in Nat \ {0}
<1>1. IsFiniteSet(A)
  BY GraczeK, FS_Subset
<1>2. Cardinality(A) \in Nat
  BY <1>1, FS_CardinalityType
<1>3. Cardinality(A) # 0
  BY <1>1, FS_EmptySet
<1>. QED
  BY <1>2, <1>3

LEMMA TypInitK == K!Init => TypK
<1> SUFFICES ASSUME K!Init PROVE TypK
  OBVIOUS
<1>1. <<>> \in Seq({"new_round", "l", "end_game"}) /\ <<>> \in Seq(1..LiczbaKart)
  OBVIOUS
<1>2. 0 \in 0..LiczbaGraczy /\ 0 \in 0..LiczbaKart
  BY KartyStale
<1>. QED
  BY <1>1, <1>2 DEF K!Init, K!Pusta, TypK

(* write to player i, with any of the three messages. *)
LEMMA PiszK ==
  ASSUME TypK, NEW w \in {"new_round", "l", "end_game"}, NEW x, i < LiczbaGraczy, K!Pisz(w, x)
  PROVE  /\ SP' \in [K!Gracze -> Seq({"new_round", "l", "end_game"})]
         /\ \/ K!Zyje(i) /\ SP' = [SP EXCEPT ![i] = Append(@, w)] /\ i' = i + 1 /\ UNCHANGED serwer /\ x
            \/ serwer' = "sigpipe" /\ UNCHANGED <<SP, i, zamkniete, sum_points>>
         /\ i' \in 0..LiczbaGraczy
         /\ i \in K!Gracze
<1>1. i \in K!Gracze /\ i + 1 \in 0..LiczbaGraczy
  BY GraczeK DEF TypK
<1>2. SP[i] \in Seq({"new_round", "l", "end_game"})
  BY <1>1 DEF TypK
<1>3. Append(SP[i], w) \in Seq({"new_round", "l", "end_game"})
  BY <1>2
<1>. QED
  BY <1>1, <1>3 DEF K!Pisz, TypK

LEMMA TypKrokK == TypK /\ [K!Next]_(K!vars) => TypK'
<1> SUFFICES ASSUME TypK, [K!Next]_(K!vars) PROVE TypK'
  OBVIOUS
<1>1. CASE UNCHANGED K!vars
  BY <1>1 DEF K!vars, TypK
<1>2. ASSUME NEW k \in K!Gracze, K!player(k) PROVE TypK'
  <2>1. CASE SP[k] # <<>> /\ SP' = [SP EXCEPT ![k] = Tail(@)]
    <3>1. SP[k] \in Seq({"new_round", "l", "end_game"}) /\ PS[k] \in Seq(1..LiczbaKart)
      BY DEF TypK
    <3>2. Tail(SP[k]) \in Seq({"new_round", "l", "end_game"})
      BY <2>1, <3>1
    <3>3. SP' \in [K!Gracze -> Seq({"new_round", "l", "end_game"})]
      BY <2>1, <3>2 DEF TypK
    <3>4. CASE UNCHANGED <<PS, odwiedzone_karty>>
               /\ (UNCHANGED pc \/ K!Idz(k, "koniec") \/ K!Idz(k, "petla"))
      BY <1>2, <3>3, <3>4 DEF K!player, K!Idz, TypK
    <3>5. ASSUME NEW card \in (1..LiczbaKart) \ odwiedzone_karty[k],
                 odwiedzone_karty' = [odwiedzone_karty EXCEPT ![k] = @ \union {card}],
                 IF K!SerwerZyje THEN PS' = [PS EXCEPT ![k] = Append(@, card)] /\ UNCHANGED pc
                                 ELSE K!Idz(k, "sigpipe") /\ UNCHANGED PS
          PROVE  TypK'
      <4>1. Append(PS[k], card) \in Seq(1..LiczbaKart)
        BY <3>1
      <4>2. PS' \in [K!Gracze -> Seq(1..LiczbaKart)]
        BY <3>5, <4>1 DEF TypK
      <4>3. pc' \in [K!Gracze -> {"read", "petla", "koniec", "sigpipe", "zabity"}]
        BY <3>5 DEF K!Idz, TypK
      <4>4. odwiedzone_karty' \in [K!Gracze -> SUBSET (1..LiczbaKart)]
        BY <3>5 DEF TypK
      <4>. QED
        BY <1>2, <3>3, <4>2, <4>3, <4>4 DEF K!player, TypK
    <3>. QED
      BY <1>2, <2>1, <3>4, <3>5 DEF K!player
  <2>2. CASE K!Idz(k, "koniec") /\ UNCHANGED <<SP, PS, odwiedzone_karty>>
    BY <1>2, <2>2 DEF K!player, K!Idz, TypK
  <2>. QED
    BY <1>2, <2>1, <2>2 DEF K!player
<1>3. ASSUME NEW k \in K!Gracze, K!Zabij(k) PROVE TypK'
  BY <1>3 DEF K!Zabij, K!Idz, TypK
<1>4. CASE K!NowaRunda /\ UNCHANGED K!gracze
  <2>1. CASE i < LiczbaGraczy /\ K!Pisz("new_round", UNCHANGED <<zamkniete, sum_points>>)
    <3>1. /\ SP' \in [K!Gracze -> Seq({"new_round", "l", "end_game"})]
          /\ i' \in 0..LiczbaGraczy
          /\ UNCHANGED sum_points /\ serwer' \in {serwer, "sigpipe"}
      BY <2>1, PiszK
    <3>. QED
      BY <1>4, <3>1 DEF K!NowaRunda, K!gracze, TypK
  <2>2. CASE i = LiczbaGraczy /\ K!Dalej("odbierz") /\ UNCHANGED <<SP, zamkniete, sum_points>>
    BY <1>4, <2>2, GraczeK DEF K!NowaRunda, K!gracze, K!Dalej, TypK
  <2>. QED
    BY <1>4, <2>1, <2>2 DEF K!NowaRunda
<1>5. CASE K!OdbierzKarty /\ UNCHANGED K!gracze
  <2>1. CASE /\ i < LiczbaGraczy /\ PS[i] # <<>> /\ PS' = [PS EXCEPT ![i] = Tail(@)]
             /\ rzucone_karty' = [rzucone_karty EXCEPT ![i] = Head(PS[i])]
             /\ max_points' = IF Head(PS[i]) > max_points THEN Head(PS[i]) ELSE max_points
             /\ i' = i + 1 /\ UNCHANGED serwer
    <3>1. i \in K!Gracze /\ i + 1 \in 0..LiczbaGraczy
      BY <2>1, GraczeK DEF TypK
    <3>2. PS[i] \in Seq(1..LiczbaKart)
      BY <3>1 DEF TypK
    <3>3. Head(PS[i]) \in 1..LiczbaKart /\ Tail(PS[i]) \in Seq(1..LiczbaKart)
      BY <2>1, <3>2, GlowaOgon
    <3>4. PS' \in [K!Gracze -> Seq(1..LiczbaKart)]
      BY <2>1, <3>3 DEF TypK
    <3>5. rzucone_karty' \in [K!Gracze -> 0..LiczbaKart] /\ max_points' \in Int
      <4>1. Head(PS[i]) \in 0..LiczbaKart /\ Head(PS[i]) \in Int
        BY <3>3, KartyStale
      <4>2. rzucone_karty \in [K!Gracze -> 0..LiczbaKart] /\ max_points \in Int
        BY DEF TypK
      <4>. QED
        BY <2>1, <4>1, <4>2
    <3>. QED
      BY <1>5, <2>1, <3>1, <3>4, <3>5 DEF K!OdbierzKarty, K!gracze, TypK
  <2>2. CASE K!Dalej("licz") /\ UNCHANGED <<PS, rzucone_karty, max_points>>
    BY <1>5, <2>2, GraczeK DEF K!OdbierzKarty, K!gracze, K!Dalej, TypK
  <2>. QED
    BY <1>5, <2>1, <2>2 DEF K!OdbierzKarty
<1>6. CASE K!Licz /\ UNCHANGED K!gracze
  <2>1. zwyciezcy' \in SUBSET K!Gracze
    BY <1>6 DEF K!Licz
  <2>2. serwer' \in {"sigfpe", "rozdaj"} /\ i' = 0
    BY <1>6 DEF K!Licz, K!Dalej
  <2>. QED
    <3>1. UNCHANGED <<SP, PS, r, rzucone_karty, max_points, sum_points, pc, odwiedzone_karty>>
      BY <1>6 DEF K!Licz, K!gracze
    <3>2. 0 \in 0..LiczbaGraczy
      BY GraczeK
    <3>. QED
      BY <2>1, <2>2, <3>1, <3>2 DEF TypK
<1>7. CASE K!Rozdaj /\ UNCHANGED K!gracze
  <2>1. CASE /\ i < LiczbaGraczy /\ UNCHANGED <<r, rzucone_karty, max_points, zwyciezcy>>
             /\ K!Pisz("l", /\ sum_points' = [sum_points EXCEPT ![i] =
                                 IF i \in zwyciezcy THEN @ + K!points_to_send(K!Cardinality(zwyciezcy)) ELSE @]
                            /\ UNCHANGED zamkniete)
    <3>1. /\ SP' \in [K!Gracze -> Seq({"new_round", "l", "end_game"})]
          /\ i' \in 0..LiczbaGraczy /\ i \in K!Gracze
          /\ \/ UNCHANGED sum_points
             \/ sum_points' = [sum_points EXCEPT ![i] =
                                 IF i \in zwyciezcy THEN @ + K!points_to_send(K!Cardinality(zwyciezcy)) ELSE @]
          /\ serwer' \in {serwer, "sigpipe"}
      BY <2>1, PiszK
    <3>2. sum_points' \in [K!Gracze -> Nat]
      <4>1. CASE UNCHANGED sum_points
        BY <4>1 DEF TypK
      <4>2. CASE i \notin zwyciezcy
        BY <3>1, <4>2 DEF TypK
      <4>3. CASE i \in zwyciezcy /\ sum_points' = [sum_points EXCEPT ![i] = @ + K!points_to_send(K!Cardinality(zwyciezcy))]
        <5>1. K!points_to_send(K!Cardinality(zwyciezcy)) \in Nat
          <6> DEFINE c == K!Cardinality(zwyciezcy)
          <6>1. c = Cardinality(zwyciezcy)
            BY Zenon DEF K!Cardinality, Cardinality
          <6>2. IsFiniteSet(zwyciezcy) /\ zwyciezcy # {}
            BY <4>3, GraczeK, FS_Subset DEF TypK
          <6> HIDE DEF c
          <6>3. c \in Nat \ {0}
            BY <6>1, <6>2, FS_CardinalityType, FS_EmptySet
          <6>4. LiczbaGraczy \div c \in Nat
            BY <6>3, GraczeK
          <6>. QED
            BY <6>4 DEF K!points_to_send, c
        <5>2. sum_points[i] + K!points_to_send(K!Cardinality(zwyciezcy)) \in Nat
          BY <3>1, <5>1 DEF TypK
        <5>. QED
          BY <4>3, <5>2 DEF TypK
      <4>. QED
        BY <3>1, <4>1, <4>2, <4>3
    <3>. QED
      BY <1>7, <2>1, <3>1, <3>2 DEF K!Rozdaj, K!gracze, TypK
  <2>2. CASE /\ r' = r + 1 /\ K!Dalej(IF K!JeszczeRunda THEN "new_round" ELSE "end_game")
             /\ rzucone_karty' = K!Pusta /\ max_points' = -1 /\ zwyciezcy' = {}
             /\ UNCHANGED <<SP, zamkniete, sum_points>>
    <3>1. K!Pusta \in [K!Gracze -> 0..LiczbaKart]
      BY KartyStale DEF K!Pusta
    <3>2. serwer' \in {"new_round", "end_game"} /\ i' = 0
      BY <2>2 DEF K!Dalej
    <3>. QED
      BY <1>7, <2>2, <3>1, <3>2, GraczeK DEF K!Rozdaj, K!gracze, TypK
  <2>. QED
    BY <1>7, <2>1, <2>2, Zenon DEF K!Rozdaj
<1>8. CASE K!KoniecGry /\ UNCHANGED K!gracze
  <2>1. CASE /\ i < LiczbaGraczy
             /\ K!Pisz("end_game", zamkniete' = zamkniete \union {i} /\ UNCHANGED sum_points)
    <3>1. /\ SP' \in [K!Gracze -> Seq({"new_round", "l", "end_game"})]
          /\ i' \in 0..LiczbaGraczy
          /\ UNCHANGED sum_points /\ serwer' \in {serwer, "sigpipe"}
      BY <2>1, PiszK
    <3>. QED
      BY <1>8, <3>1 DEF K!KoniecGry, K!gracze, TypK
  <2>2. CASE K!Dalej("wait") /\ UNCHANGED <<SP, zamkniete, sum_points>>
    <3>1. UNCHANGED <<PS, r, rzucone_karty, max_points, zwyciezcy, pc, odwiedzone_karty>>
      BY <1>8 DEF K!KoniecGry, K!gracze
    <3>2. 0 \in 0..LiczbaGraczy /\ i' = 0 /\ serwer' = "wait"
      BY <2>2, GraczeK DEF K!Dalej
    <3>. QED
      BY <2>2, <3>1, <3>2 DEF TypK
  <2>3. CASE serwer' = "koniec" /\ UNCHANGED <<SP, i, zamkniete, sum_points>>
    BY <1>8, <2>3 DEF K!KoniecGry, K!gracze, TypK
  <2>. QED
    BY <1>8, <2>1, <2>2, <2>3 DEF K!KoniecGry
<1>. QED
  BY <1>1, <1>2, <1>3, <1>4, <1>5, <1>6, <1>7, <1>8 DEF K!Next, K!Serwer

-----------------------------------------------------------------------------
(* The card game: the points. *)

RazemK == SumaNa(sum_points, K!Gracze)

(* What a round gives out at least. *)
RozdanieK(w) == w * (LiczbaGraczy \div w)
NajmniejK == Min({RozdanieK(w) : w \in 1..LiczbaGraczy})

(* The points after x rounds. *)
RundyK(x, y) == x * NajmniejK <= y /\ y <= x * LiczbaGraczy

(* Winners that have got their points in this round. *)
NagrodzeniK == {k \in zwyciezcy : k < i}
DzialK == LiczbaGraczy \div Cardinality(zwyciezcy)

PunktyK ==
  /\ serwer \in {"new_round", "odbierz", "licz", "end_game"} => RundyK(r, RazemK)
  /\ serwer = "rozdaj" => zwyciezcy # {} /\ \E y \in Int :
       RundyK(r, y) /\ RazemK = y + Cardinality(NagrodzeniK) * DzialK

(* Division between w winners gives out no more than there is. *)
LEMMA RozdanieLemma ==
  ASSUME NEW w \in 1..LiczbaGraczy
  PROVE  RozdanieK(w) \in Nat /\ RozdanieK(w) <= LiczbaGraczy
<1>1. LiczbaGraczy \in Nat /\ w \in Nat /\ w > 0
  BY GraczeK
<1> DEFINE n == LiczbaGraczy
           q == n \div w
           s == n % w
<1>2. q \in Int /\ n = q * w + s /\ s \in 0..(w - 1)
  BY <1>1, Dzielenie
<1> HIDE DEF q, s
<1>3. w * q = q * w /\ w * q \in Nat
  <2>1. q <= -1 => q * w <= -w
    BY <1>1, <1>2
  <2>2. q >= 0
    BY <1>1, <1>2, <2>1
  <2>. QED
    BY <1>1, <1>2, <2>2
<1>4. RozdanieK(w) = w * q
  BY DEF RozdanieK, q
<1>. QED
  BY <1>1, <1>2, <1>3, <1>4

LEMMA NajmniejLemma ==
  NajmniejK \in Nat /\ \A w \in 1..LiczbaGraczy : NajmniejK <= RozdanieK(w)
<1> DEFINE T == {RozdanieK(w) : w \in 1..LiczbaGraczy}
<1>1. T \subseteq Nat /\ T # {}
  <2>1. 1 \in 1..LiczbaGraczy
    BY GraczeK
  <2>. QED
    BY <2>1, RozdanieLemma
<1>2. PICK x \in T : \A y \in T : ~(<<y, x>> \in OpToRel(<, Nat))
  <2> HIDE DEF T
  <2>. QED
    BY <1>1, NatLessThanWellFounded, WFMin
<1>3. x \in T /\ \A y \in T : x <= y
  <2> HIDE DEF T
  <2>. QED
    <3>1. ASSUME NEW y \in T PROVE x <= y
      <4>1. y \in Nat /\ x \in Nat
        BY <1>1
      <4>2. ~(y < x)
        BY <1>2, <4>1 DEF OpToRel
      <4>. QED
        BY <4>1, <4>2
    <3>. QED
      BY <3>1
<1>4. NajmniejK \in T /\ \A y \in T : NajmniejK <= y
  <2>1. NajmniejK = Min(T)
    BY DEF NajmniejK
  <2> HIDE DEF T
  <2>. QED
    BY <1>3, <2>1 DEF Min
<1>. QED
  BY <1>1, <1>4

LEMMA RazemTypK == TypK => RazemK \in Nat
<1> SUFFICES ASSUME TypK PROVE RazemK \in Nat
  OBVIOUS
<1>1. \A k \in K!Gracze : sum_points[k] \in Int /\ sum_points[k] >= 0
  BY DEF TypK
<1>2. RazemK \in Int /\ RazemK >= 0
  BY <1>1, GraczeK, SumaTyp DEF RazemK
<1>. QED
  BY <1>2

LEMMA PunktyInitK == K!Init => PunktyK
<1> SUFFICES ASSUME K!Init PROVE PunktyK
  OBVIOUS
<1>1. \A k \in K!Gracze : sum_points[k] = 0
  BY DEF K!Init, K!Pusta
<1>2. RazemK = 0
  BY <1>1, GraczeK, SumaZer DEF RazemK
<1>3. RundyK(0, 0)
  BY NajmniejLemma, GraczeK DEF RundyK
<1>. QED
  BY <1>2, <1>3 DEF K!Init, PunktyK

(* A round is over: everybody has got his share. *)
LEMMA KoniecRundyK ==
  ASSUME TypK, zwyciezcy # {}, i = LiczbaGraczy, NEW y \in Int, RundyK(r, y),
         RazemK = y + Cardinality(NagrodzeniK) * DzialK
  PROVE  RundyK(r + 1, RazemK)
<1> DEFINE w == Cardinality(zwyciezcy)
           n == LiczbaGraczy
           g == RozdanieK(w)
           a == NajmniejK
<1>1. NagrodzeniK = zwyciezcy
  <2>1. \A k \in zwyciezcy : k \in 0..(LiczbaGraczy - 1)
    BY GraczeK DEF TypK
  <2>2. \A k \in zwyciezcy : k < LiczbaGraczy
    BY <2>1, GraczeK
  <2>. QED
    BY <2>2 DEF NagrodzeniK
<1>2. w \in 1..n
  <2>1. IsFiniteSet(zwyciezcy) /\ w \in Nat /\ w # 0
    BY GraczeK, FS_Subset, FS_CardinalityType, FS_EmptySet DEF TypK
  <2>2. w <= Cardinality(K!Gracze)
    BY GraczeK, FS_Subset DEF TypK
  <2>3. Cardinality(K!Gracze) = n
    BY GraczeK, FS_Interval
  <2> HIDE DEF w
  <2>. QED
    BY <2>1, <2>2, <2>3
<1>3. RazemK = y + g
  BY <1>1 DEF RozdanieK, DzialK
<1>4. g \in Nat /\ g <= n /\ a <= g /\ a \in Nat /\ n \in Nat /\ r \in Nat
  BY <1>2, RozdanieLemma, NajmniejLemma, GraczeK DEF TypK
<1>5. r * a <= y /\ y <= r * n
  BY DEF RundyK
<1> HIDE DEF w, n, g, a
<1>6. (r + 1) * a = r * a + a /\ (r + 1) * n = r * n + n /\ r * a \in Nat /\ r * n \in Nat
  BY <1>4
<1>7. (r + 1) * a <= y + g /\ y + g <= (r + 1) * n
  BY <1>4, <1>5, <1>6
<1>. QED
  BY <1>3, <1>7 DEF RundyK, a, n

LEMMA PunktyKrokK == TypK /\ TypK' /\ PunktyK /\ [K!Next]_(K!vars) => PunktyK'
<1> SUFFICES ASSUME TypK, TypK', PunktyK, [K!Next]_(K!vars) PROVE PunktyK'
  OBVIOUS
<1>1. ASSUME UNCHANGED <<serwer, r, i, zwyciezcy, sum_points>> PROVE PunktyK'
  BY <1>1 DEF PunktyK, RazemK, NagrodzeniK, DzialK
<1>2. ASSUME UNCHANGED <<r, sum_points>>,
             serwer \in {"new_round", "odbierz", "licz", "end_game"},
             serwer' # "rozdaj"
      PROVE  PunktyK'
  BY <1>2 DEF PunktyK, RazemK
<1>3. CASE serwer' \in {"sigpipe", "sigfpe", "wait", "koniec"}
  BY <1>3 DEF PunktyK
<1>4. CASE UNCHANGED K!vars
  BY <1>1, <1>4 DEF K!vars
<1>5. ASSUME NEW k \in K!Gracze, K!player(k) \/ K!Zabij(k) PROVE PunktyK'
  BY <1>1, <1>5 DEF K!player, K!Zabij
<1>6. CASE K!NowaRunda
  <2>1. UNCHANGED r /\ serwer = "new_round"
    BY <1>6 DEF K!NowaRunda
  <2>2. CASE i < LiczbaGraczy /\ K!Pisz("new_round", UNCHANGED <<zamkniete, sum_points>>)
    <3>1. UNCHANGED sum_points /\ serwer' \in {serwer, "sigpipe"}
      BY <2>2, PiszK
    <3>. QED
      BY <1>2, <2>1, <3>1
  <2>3. CASE K!Dalej("odbierz") /\ UNCHANGED <<SP, zamkniete, sum_points>>
    BY <1>2, <2>1, <2>3 DEF K!Dalej
  <2>. QED
    BY <1>6, <2>2, <2>3 DEF K!NowaRunda
<1>7. CASE K!OdbierzKarty
  BY <1>2, <1>7 DEF K!OdbierzKarty, K!Dalej
<1>8. CASE K!Licz
  <2>1. UNCHANGED <<r, sum_points>> /\ serwer = "licz" /\ i' = 0 /\ serwer' = IF zwyciezcy' = {} THEN "sigfpe" ELSE "rozdaj"
    BY <1>8 DEF K!Licz, K!Dalej
  <2>2. CASE zwyciezcy' # {}
    <3>1. serwer' = "rozdaj"
      BY <2>1, <2>2
    <3>2. NagrodzeniK' = {}
      <4>1. \A k \in zwyciezcy' : k \in 0..(LiczbaGraczy - 1)
        BY GraczeK DEF TypK
      <4>2. \A k \in zwyciezcy' : ~(k < 0)
        BY <4>1
      <4>. QED
        BY <2>1, <4>2 DEF NagrodzeniK
    <3>3. Cardinality(NagrodzeniK') = 0
      BY <3>2, FS_EmptySet
    <3>4. RundyK(r', RazemK) /\ RazemK' = RazemK
      BY <2>1 DEF PunktyK, RazemK
    <3>5. Cardinality(zwyciezcy') \in Nat \ {0}
      BY <2>2, LiczbaZwyciezcow DEF TypK
    <3>6. DzialK' \in Int
      <4> DEFINE c == Cardinality(zwyciezcy')
      <4>1. DzialK' = LiczbaGraczy \div c
        BY DEF DzialK
      <4>2. c \in Nat \ {0}
        BY <3>5
      <4> HIDE DEF c
      <4>. QED
        BY <4>1, <4>2, GraczeK
    <3>7. RazemK' = RazemK + Cardinality(NagrodzeniK') * DzialK'
      BY <3>3, <3>4, <3>6, RazemTypK
    <3>. QED
      BY <2>2, <3>1, <3>4, <3>7, RazemTypK DEF PunktyK
  <2>3. CASE zwyciezcy' = {}
    BY <1>3, <2>1, <2>3
  <2>. QED
    BY <2>2, <2>3
<1>9. CASE K!Rozdaj
  <2>0. serwer = "rozdaj"
    BY <1>9 DEF K!Rozdaj
  <2>1. PICK y \in Int : RundyK(r, y) /\ RazemK = y + Cardinality(NagrodzeniK) * DzialK
    BY <2>0 DEF PunktyK
  <2>2. zwyciezcy # {}
    BY <2>0 DEF PunktyK
  <2>3. CASE /\ i < LiczbaGraczy /\ UNCHANGED <<r, rzucone_karty, max_points, zwyciezcy>>
             /\ K!Pisz("l", /\ sum_points' = [sum_points EXCEPT ![i] =
                                 IF i \in zwyciezcy THEN @ + K!points_to_send(K!Cardinality(zwyciezcy)) ELSE @]
                            /\ UNCHANGED zamkniete)
    <3>1. CASE serwer' = "sigpipe"
      BY <1>3, <3>1
    <3>2. CASE /\ sum_points' = [sum_points EXCEPT ![i] =
                                 IF i \in zwyciezcy THEN @ + K!points_to_send(K!Cardinality(zwyciezcy)) ELSE @]
               /\ i' = i + 1 /\ UNCHANGED serwer
      <4> DEFINE c == Cardinality(NagrodzeniK)
      <4>1. i \in K!Gracze /\ i \in Int
        BY <2>3, GraczeK DEF TypK
      <4>2. K!points_to_send(K!Cardinality(zwyciezcy)) = DzialK
        <5>1. K!Cardinality(zwyciezcy) = Cardinality(zwyciezcy)
          BY Zenon DEF K!Cardinality, Cardinality
        <5>. QED
          BY <5>1 DEF K!points_to_send, DzialK
      <4>3. /\ \A k \in K!Gracze : sum_points[k] \in Int /\ sum_points'[k] \in Int
            /\ \A k \in K!Gracze : k # i => sum_points'[k] = sum_points[k]
        BY <3>2 DEF TypK
      <4>4. RazemK' = RazemK + sum_points'[i] - sum_points[i]
        <5> DEFINE f == sum_points
                   e == sum_points'
        <5>1. /\ IsFiniteSet(K!Gracze) /\ i \in K!Gracze /\ e[i] \in Int
              /\ \A k \in K!Gracze : f[k] \in Int
              /\ \A k \in K!Gracze : k # i => e[k] = f[k]
          BY <4>1, <4>3, GraczeK
        <5>2. RazemK = SumaNa(f, K!Gracze) /\ RazemK' = SumaNa(e, K!Gracze)
          BY DEF RazemK
        <5> HIDE DEF e, f
        <5>3. SumaNa(e, K!Gracze) = SumaNa(f, K!Gracze) + e[i] - f[i]
          BY <5>1, SumaZmiana
        <5>. QED
          BY <5>2, <5>3 DEF e, f
      <4>a. \A k \in zwyciezcy : k \in Int
        BY GraczeK DEF TypK
      <4>5. DzialK' = DzialK
        BY <2>3 DEF DzialK
      <4>6. DzialK \in Nat
        <5> DEFINE w == Cardinality(zwyciezcy)
        <5>1. w \in Nat \ {0}
          BY <2>2, LiczbaZwyciezcow DEF TypK
        <5>2. DzialK = LiczbaGraczy \div w
          BY DEF DzialK
        <5> HIDE DEF w
        <5>. QED
          BY <5>1, <5>2, GraczeK
      <4>7. IsFiniteSet(NagrodzeniK) /\ c \in Nat
        BY GraczeK, FS_Subset, FS_CardinalityType DEF TypK, NagrodzeniK
      <4>8. CASE i \in zwyciezcy
        <5>1. NagrodzeniK' = NagrodzeniK \union {i} /\ i \notin NagrodzeniK
          <6>1. \A k \in zwyciezcy : k < i + 1 <=> k < i \/ k = i
            BY <4>1, <4>a
          <6>2. ~(i < i)
            BY <4>1
          <6>. QED
            BY <2>3, <3>2, <4>8, <6>1, <6>2 DEF NagrodzeniK
        <5>2. Cardinality(NagrodzeniK') = c + 1
          BY <4>7, <5>1, FS_AddElement
        <5>3. sum_points'[i] = sum_points[i] + DzialK
          BY <3>2, <4>1, <4>2, <4>8 DEF TypK
        <5>4. RazemK' = RazemK + DzialK
          BY <4>1, <4>3, <4>4, <4>6, <5>3, RazemTypK
        <5> HIDE DEF c
        <5>5. (c + 1) * DzialK = c * DzialK + DzialK /\ c * DzialK \in Int
          BY <4>6, <4>7
        <5>6. RazemK = y + c * DzialK
          BY <2>1 DEF c
        <5>7. RazemK' = y + (c + 1) * DzialK
          BY <4>6, <5>4, <5>5, <5>6
        <5>. QED
          BY <2>1, <2>2, <2>3, <3>2, <2>0, <4>5, <5>2, <5>7 DEF PunktyK
      <4>9. CASE i \notin zwyciezcy
        <5>1. NagrodzeniK' = NagrodzeniK
          <6>1. \A k \in zwyciezcy : k < i + 1 <=> k < i \/ k = i
            BY <4>1, <4>a
          <6>. QED
            BY <2>3, <3>2, <4>9, <6>1 DEF NagrodzeniK
        <5>2. sum_points'[i] = sum_points[i]
          BY <3>2, <4>1, <4>9 DEF TypK
        <5>3. RazemK' = RazemK
          BY <4>1, <4>3, <4>4, <5>2, RazemTypK
        <5>. QED
          BY <2>0, <2>1, <2>2, <2>3, <3>2, <4>5, <5>1, <5>3 DEF PunktyK
      <4>. QED
        BY <4>8, <4>9
    <3>. QED
      BY <2>3, <3>1, <3>2, PiszK
  <2>4. CASE /\ i = LiczbaGraczy /\ r' = r + 1 /\ K!Dalej(IF K!JeszczeRunda THEN "new_round" ELSE "end_game")
             /\ UNCHANGED <<SP, zamkniete, sum_points>>
    <3>1. RundyK(r + 1, RazemK)
      BY <2>1, <2>2, <2>4, KoniecRundyK
    <3>2. serwer' # "rozdaj"
      BY <2>4 DEF K!Dalej
    <3>. QED
      BY <2>4, <3>1, <3>2 DEF PunktyK, RazemK
  <2>. QED
    BY <1>9, <2>3, <2>4, Zenon DEF K!Rozdaj
<1>10. CASE K!KoniecGry
  <2>1. UNCHANGED r
    BY <1>10 DEF K!KoniecGry
  <2>2. CASE /\ serwer = "end_game" /\ i < LiczbaGraczy
             /\ K!Pisz("end_game", zamkniete' = zamkniete \union {i} /\ UNCHANGED sum_points)
    <3>1. UNCHANGED sum_points /\ serwer' \in {serwer, "sigpipe"}
      BY <2>2, PiszK
    <3>. QED
      BY <1>2, <2>1, <2>2, <3>1
  <2>3. CASE serwer' \in {"wait", "koniec"}
    BY <1>3, <2>3
  <2>. QED
    BY <1>10, <2>2, <2>3 DEF K!KoniecGry, K!Dalej
<1>. QED
  BY <1>4, <1>5, <1>6, <1>7, <1>8, <1>9, <1>10 DEF K!Next, K!Serwer

(* The fold of the property is that sum. *)
LEMMA RundyDobreK ==
  ASSUME TypK, PunktyK, serwer \in {"new_round", "end_game"}
  PROVE  LET razem == FoldFunction(+, 0, sum_points) IN
         /\ razem <= r * LiczbaGraczy
         /\ razem >= r * Min({w * (LiczbaGraczy \div w) : w \in 1..LiczbaGraczy})
<1>1. DOMAIN sum_points = K!Gracze
  BY DEF TypK
<1>2. FoldFunction(+, 0, sum_points) = RazemK
  BY <1>1, Zenon DEF FoldFunction, RazemK, SumaNa
<1>3. RazemK <= r * LiczbaGraczy /\ r * NajmniejK <= RazemK
  BY DEF PunktyK, RundyK
<1>4. RazemK >= r * NajmniejK
  <2>1. r * NajmniejK \in Int /\ RazemK \in Int
    BY NajmniejLemma, RazemTypK DEF TypK
  <2>. QED
    BY <1>3, <2>1
<1>5. NajmniejK = Min({w * (LiczbaGraczy \div w) : w \in 1..LiczbaGraczy})
  BY Zenon DEF NajmniejK, RozdanieK
<1>. QED
  BY <1>2, <1>3, <1>4, <1>5, Zenon

-----------------------------------------------------------------------------
(* The card game: how far the server and each player have come, as long as
   nobody is killed. *)

(* Player k has played c cards and is ready for the next message. *)
GotowyK(k, c) ==
  /\ pc[k] = "read" /\ SP[k] \in {<<>>, <<"l">>} /\ PS[k] = <<>>
  /\ Cardinality(odwiedzone_karty[k]) = c

(* It has been asked for a card, or its card is on the way to the server. *)
ProszonyK(k) ==
  /\ pc[k] = "read"
  /\ \/ /\ SP[k] \in {<<"l", "new_round">>, <<"new_round">>} /\ PS[k] = <<>>
        /\ Cardinality(odwiedzone_karty[k]) = r
     \/ /\ SP[k] = <<>> /\ \E c \in 1..LiczbaKart : PS[k] = <<c>>
        /\ Cardinality(odwiedzone_karty[k]) = r + 1

(* The server has its card. *)
ZagralK(k) ==
  /\ pc[k] = "read" /\ SP[k] = <<>> /\ PS[k] = <<>>
  /\ Cardinality(odwiedzone_karty[k]) = r + 1

(* It has been told the end, or has ended. *)
ZegnanyK(k) ==
  \/ pc[k] = "read" /\ SP[k] \in {<<"l", "end_game">>, <<"end_game">>}
  \/ pc[k] = "koniec" /\ SP[k] = <<>>

(* The card of player k has been read. *)
KartaK(k) == rzucone_karty[k] \in 1..LiczbaKart

GraK ==
  /\ serwer \notin {"sigpipe", "sigfpe"}
  /\ serwer \in {"new_round", "odbierz", "licz", "rozdaj"} => r < LiczbaKart /\ zamkniete = {}
  /\ serwer = "new_round" \/ (serwer = "odbierz" /\ i = 0) => max_points = -1
  /\ serwer = "end_game" => \A k \in zamkniete : k \in K!Gracze /\ k < i
  /\ serwer = "new_round" => \A k \in K!Gracze : IF k < i THEN ProszonyK(k) ELSE GotowyK(k, r)
  /\ serwer = "odbierz" =>
       /\ \A k \in K!Gracze : IF k < i THEN ZagralK(k) /\ KartaK(k) ELSE ProszonyK(k)
       /\ i > 0 => \E k \in K!Gracze : k < i /\ rzucone_karty[k] = max_points
  /\ serwer = "licz" =>
       /\ i = 0 /\ \A k \in K!Gracze : ZagralK(k) /\ KartaK(k)
       /\ \E k \in K!Gracze : rzucone_karty[k] = max_points
  /\ serwer = "rozdaj" => \A k \in K!Gracze : IF k < i THEN GotowyK(k, r + 1) ELSE ZagralK(k)
  /\ serwer = "end_game" => \A k \in K!Gracze : IF k < i THEN ZegnanyK(k) ELSE GotowyK(k, r)
  /\ serwer \in {"wait", "koniec"} => \A k \in K!Gracze : ZegnanyK(k)

LEMMA GraInitK == K!Init => GraK
<1> SUFFICES ASSUME K!Init PROVE GraK
  OBVIOUS
<1>1. serwer = "new_round" /\ r = 0 /\ i = 0 /\ zamkniete = {} /\ max_points = -1
  BY DEF K!Init
<1>2. ASSUME NEW k \in K!Gracze PROVE ~(k < 0) /\ GotowyK(k, 0)
  <2>1. k \in 0..(LiczbaGraczy - 1)
    BY GraczeK
  <2>2. odwiedzone_karty[k] = {} /\ SP[k] = <<>> /\ PS[k] = <<>> /\ pc[k] = "read"
    BY DEF K!Init
  <2>. QED
    BY <2>1, <2>2, FS_EmptySet DEF GotowyK
<1>3. 0 < LiczbaKart
  BY KartyStale
<1>. QED
  BY <1>1, <1>2, <1>3 DEF GraK

(* What a player reads. *)
LEMMA KomunikatyK ==
  /\ Head(<<"l">>) = "l" /\ Tail(<<"l">>) = <<>> /\ <<"l">> # <<>>
  /\ Head(<<"l", "new_round">>) = "l" /\ Tail(<<"l", "new_round">>) = <<"new_round">>
  /\ Head(<<"new_round">>) = "new_round" /\ Tail(<<"new_round">>) = <<>>
  /\ Head(<<"l", "end_game">>) = "l" /\ Tail(<<"l", "end_game">>) = <<"end_game">>
  /\ Head(<<"end_game">>) = "end_game" /\ Tail(<<"end_game">>) = <<>>
  /\ <<"l", "new_round">> # <<>> /\ <<"new_round">> # <<>>
  /\ <<"l", "end_game">> # <<>> /\ <<"end_game">> # <<>>
OBVIOUS

LEMMA DopisanieK ==
  ASSUME NEW w
  PROVE  /\ Append(<<>>, w) = <<w>>
         /\ Append(<<"l">>, w) = <<"l", w>>
         /\ Head(<<w>>) = w /\ Tail(<<w>>) = <<>> /\ <<w>> # <<>>
<1> DEFINE M == {w, "l"}
<1>0. w \in M /\ "l" \in M /\ <<>> \in Seq(M)
  OBVIOUS
<1> HIDE DEF M
<1>1. <<w>> \in Seq(M) /\ <<"l">> \in Seq(M) /\ <<"l", w>> \in Seq(M)
  BY <1>0
<1>2. Append(<<>>, w) = <<w>>
  <2>1. Append(<<>>, w) \in Seq(M) /\ Len(Append(<<>>, w)) = 1 /\ Append(<<>>, w)[1] = w
    BY <1>0
  <2>2. Len(<<w>>) = 1 /\ <<w>>[1] = w
    OBVIOUS
  <2>3. \A x \in 1..Len(<<w>>) : Append(<<>>, w)[x] = <<w>>[x]
    BY <2>1, <2>2
  <2>. QED
    BY <1>1, <2>1, <2>2, <2>3, SeqEqual
<1>3. Append(<<"l">>, w) = <<"l", w>>
  <2>1. /\ Append(<<"l">>, w) \in Seq(M) /\ Len(Append(<<"l">>, w)) = 2
        /\ Append(<<"l">>, w)[1] = "l" /\ Append(<<"l">>, w)[2] = w
    BY <1>0, <1>1
  <2>2. Len(<<"l", w>>) = 2 /\ <<"l", w>>[1] = "l" /\ <<"l", w>>[2] = w
    OBVIOUS
  <2>3. \A x \in 1..Len(<<"l", w>>) : Append(<<"l">>, w)[x] = <<"l", w>>[x]
    BY <2>1, <2>2
  <2>. QED
    BY <1>1, <2>1, <2>2, <2>3, SeqEqual
<1>4. Head(<<w>>) = w /\ Tail(<<w>>) = <<>> /\ <<w>> # <<>>
  OBVIOUS
<1>. QED
  BY <1>2, <1>3, <1>4

(* A player's step, state by state. *)
LEMMA GraczCzytaK ==
  ASSUME TypK, NEW k \in K!Gracze, K!player(k), SP[k] # <<>>, Head(SP[k]) = "l"
  PROVE  SP'[k] = Tail(SP[k]) /\ PS'[k] = PS[k] /\ pc'[k] = pc[k] /\ odwiedzone_karty'[k] = odwiedzone_karty[k]
BY DEF K!player, TypK

LEMMA GotowyKrokK ==
  ASSUME TypK, NEW k \in K!Gracze, K!player(k), NEW c, GotowyK(k, c), ~K!KoniecSP(k)
  PROVE  GotowyK(k, c)'
<1>1. SP[k] # <<>>
  BY DEF K!player, GotowyK
<1>2. SP[k] = <<"l">>
  BY <1>1 DEF GotowyK
<1>3. Head(SP[k]) = "l" /\ Tail(SP[k]) = <<>>
  BY <1>2, KomunikatyK
<1>. QED
  BY <1>1, <1>3, GraczCzytaK DEF GotowyK

LEMMA ProszonyKrokK ==
  ASSUME TypK, NEW k \in K!Gracze, K!player(k), ProszonyK(k), ~K!KoniecSP(k), r < LiczbaKart
  PROVE  ProszonyK(k)'
<1>0. K!SerwerZyje /\ r' = r
  BY DEF K!KoniecSP, K!player
<1>1. SP[k] # <<>> /\ pc[k] = "read"
  BY DEF K!player
<1>2. PS[k] = <<>> /\ Cardinality(odwiedzone_karty[k]) = r /\ SP[k] \in {<<"l", "new_round">>, <<"new_round">>}
  BY <1>1 DEF ProszonyK
<1>3. CASE SP[k] = <<"l", "new_round">>
  <2>1. Head(SP[k]) = "l" /\ Tail(SP[k]) = <<"new_round">>
    BY <1>3, KomunikatyK
  <2>. QED
    BY <1>0, <1>1, <1>2, <2>1, GraczCzytaK DEF ProszonyK
<1>4. CASE SP[k] = <<"new_round">>
  <2>1. Head(SP[k]) = "new_round" /\ Tail(SP[k]) = <<>>
    BY <1>4, KomunikatyK
  <2>2. odwiedzone_karty[k] \in SUBSET (1..LiczbaKart)
    BY DEF TypK
  <2>3. odwiedzone_karty[k] # 1..LiczbaKart
    <3>1. Cardinality(1..LiczbaKart) = LiczbaKart
      BY KartyStale, FS_Interval
    <3>. QED
      BY <1>2, <3>1, KartyStale DEF TypK
  <2>4. PICK card \in (1..LiczbaKart) \ odwiedzone_karty[k] :
          /\ odwiedzone_karty' = [odwiedzone_karty EXCEPT ![k] = @ \union {card}]
          /\ PS' = [PS EXCEPT ![k] = Append(@, card)] /\ UNCHANGED pc
    BY <1>0, <1>1, <2>1, <2>3 DEF K!player
  <2>5. SP'[k] = <<>>
    BY <1>1, <2>1 DEF K!player, TypK
  <2>6. PS'[k] = <<card>>
    BY <1>2, <2>4, DopisanieK DEF TypK
  <2>7. Cardinality(odwiedzone_karty'[k]) = r + 1
    <3>1. IsFiniteSet(odwiedzone_karty[k])
      <4>1. IsFiniteSet(1..LiczbaKart)
        BY KartyStale, FS_Interval
      <4>. QED
        BY <2>2, <4>1, FS_Subset
    <3>2. odwiedzone_karty'[k] = odwiedzone_karty[k] \union {card}
      BY <2>4 DEF TypK
    <3>. QED
      <4> DEFINE A == odwiedzone_karty[k]
      <4>1. IsFiniteSet(A) /\ card \notin A /\ odwiedzone_karty'[k] = A \union {card} /\ Cardinality(A) = r
        BY <1>2, <2>4, <3>1, <3>2
      <4> HIDE DEF A
      <4>2. Cardinality(A \union {card}) = Cardinality(A) + 1
        BY <4>1, FS_AddElement
      <4>. QED
        BY <4>1, <4>2
  <2>. QED
    BY <1>0, <1>1, <2>4, <2>5, <2>6, <2>7 DEF ProszonyK
<1>. QED
  BY <1>2, <1>3, <1>4

LEMMA ZegnanyKrokK ==
  ASSUME TypK, NEW k \in K!Gracze, K!player(k), ZegnanyK(k)
  PROVE  ZegnanyK(k)'
<1>1. pc[k] = "read" /\ SP[k] \in {<<"l", "end_game">>, <<"end_game">>}
  BY DEF K!player, ZegnanyK
<1>2. CASE SP[k] = <<"l", "end_game">>
  <2>1. SP[k] # <<>> /\ Head(SP[k]) = "l" /\ Tail(SP[k]) = <<"end_game">>
    BY <1>2, KomunikatyK
  <2>. QED
    BY <1>1, <2>1, GraczCzytaK DEF ZegnanyK
<1>3. CASE SP[k] = <<"end_game">>
  <2>1. SP[k] # <<>> /\ Head(SP[k]) = "end_game" /\ Tail(SP[k]) = <<>>
    BY <1>3, KomunikatyK
  <2>2. SP'[k] = <<>> /\ pc'[k] = "koniec"
    BY <2>1 DEF K!player, K!Idz, TypK
  <2>. QED
    BY <2>2 DEF ZegnanyK
<1>. QED
  BY <1>1, <1>2, <1>3

(* The step of player k as the invariant sees it. *)
LEMMA GraczGraK ==
  ASSUME TypK, GraK, NEW k \in K!Gracze, K!player(k)
  PROVE  GraK'
<1>1. UNCHANGED <<zamkniete, serwer, r, i, rzucone_karty, max_points>>
  BY DEF K!player
<1>2. \A h \in K!Gracze : h # k =>
        SP'[h] = SP[h] /\ PS'[h] = PS[h] /\ pc'[h] = pc[h] /\ odwiedzone_karty'[h] = odwiedzone_karty[h]
  BY DEF K!player, K!Idz, TypK
<1>3. \A h \in K!Gracze : h # k =>
        /\ ProszonyK(h)' = ProszonyK(h) /\ ZagralK(h)' = ZagralK(h) /\ ZegnanyK(h)' = ZegnanyK(h)
        /\ GotowyK(h, r)' = GotowyK(h, r) /\ GotowyK(h, r + 1)' = GotowyK(h, r + 1)
  BY <1>1, <1>2 DEF ProszonyK, ZagralK, ZegnanyK, GotowyK
<1>4. \A h \in K!Gracze : KartaK(h)' = KartaK(h)
  BY <1>1 DEF KartaK
<1>5. k \in Int /\ i \in Int
  BY GraczeK DEF TypK
<1>6. serwer \in {"new_round", "odbierz", "licz", "rozdaj"} => ~K!KoniecSP(k) /\ r < LiczbaKart
  BY DEF GraK, K!KoniecSP, K!SerwerZyje
<1>7. serwer = "end_game" /\ ~(k < i) => ~K!KoniecSP(k)
  BY DEF GraK, K!KoniecSP, K!SerwerZyje
<1>8. ~K!KoniecSP(k) => ~ZagralK(k)
  BY DEF K!player, ZagralK
<1>9. /\ r < LiczbaKart /\ ~K!KoniecSP(k) /\ ProszonyK(k) => ProszonyK(k)'
      /\ ~K!KoniecSP(k) /\ GotowyK(k, r) => GotowyK(k, r)'
      /\ ~K!KoniecSP(k) /\ GotowyK(k, r + 1) => GotowyK(k, r + 1)'
      /\ ZegnanyK(k) => ZegnanyK(k)'
  <2>1. ASSUME NEW c, ~K!KoniecSP(k), GotowyK(k, c), c' = c PROVE GotowyK(k, c)'
    BY <2>1, GotowyKrokK
  <2>. QED
    BY <1>1, <2>1, ProszonyKrokK, ZegnanyKrokK
<1>10. CASE serwer = "new_round"
  <2>1. ASSUME NEW h \in K!Gracze PROVE (IF h < i THEN ProszonyK(h) ELSE GotowyK(h, r))'
    BY <1>1, <1>3, <1>6, <1>9, <1>10 DEF GraK
  <2>. QED
    BY <1>1, <1>10, <2>1 DEF GraK
<1>11. CASE serwer = "odbierz"
  <2>1. ASSUME NEW h \in K!Gracze PROVE (IF h < i THEN ZagralK(h) /\ KartaK(h) ELSE ProszonyK(h))'
    BY <1>1, <1>3, <1>4, <1>6, <1>8, <1>9, <1>11 DEF GraK
  <2>. QED
    BY <1>1, <1>11, <2>1 DEF GraK
<1>12. serwer # "licz"
  BY <1>6, <1>8 DEF GraK
<1>13. CASE serwer = "rozdaj"
  <2>1. ASSUME NEW h \in K!Gracze PROVE (IF h < i THEN GotowyK(h, r + 1) ELSE ZagralK(h))'
    BY <1>1, <1>3, <1>6, <1>8, <1>9, <1>13 DEF GraK
  <2>. QED
    BY <1>1, <1>13, <2>1 DEF GraK
<1>14. CASE serwer = "end_game"
  <2>1. ASSUME NEW h \in K!Gracze PROVE (IF h < i THEN ZegnanyK(h) ELSE GotowyK(h, r))'
    BY <1>1, <1>3, <1>7, <1>9, <1>14 DEF GraK
  <2>. QED
    BY <1>1, <1>14, <2>1 DEF GraK
<1>15. CASE serwer \in {"wait", "koniec"}
  <2>1. ASSUME NEW h \in K!Gracze PROVE ZegnanyK(h)'
    BY <1>3, <1>9, <1>15 DEF GraK
  <2>. QED
    BY <1>1, <1>15, <2>1 DEF GraK
<1>. QED
  BY <1>10, <1>11, <1>12, <1>13, <1>14, <1>15 DEF GraK, TypK

(* The server writes to player i, which is there to read. *)
LEMMA PiszeZywemuK ==
  ASSUME TypK, NEW w \in {"new_round", "l", "end_game"}, NEW x, i < LiczbaGraczy, K!Pisz(w, x),
         pc[i] = "read", SP[i] \in {<<>>, <<"l">>}, UNCHANGED <<PS, pc, odwiedzone_karty>>
  PROVE  /\ i \in K!Gracze /\ i' = i + 1 /\ UNCHANGED serwer /\ x
         /\ SP'[i] \in {<<w>>, <<"l", w>>} /\ (SP[i] = <<>> => SP'[i] = <<w>>)
         /\ \A h \in K!Gracze : h # i =>
              /\ SP'[h] = SP[h] /\ (h < i' <=> h < i)
         /\ i < i'
<1>1. K!Zyje(i)
  BY DEF K!Zyje
<1>2. /\ i \in K!Gracze /\ i' = i + 1 /\ UNCHANGED serwer /\ x
      /\ SP' = [SP EXCEPT ![i] = Append(@, w)]
  BY <1>1, PiszK DEF K!Pisz
<1>3. SP'[i] = Append(SP[i], w)
  BY <1>2 DEF TypK
<1>4. \A h \in K!Gracze : h # i => SP'[h] = SP[h]
  BY <1>2 DEF TypK
<1>5. \A h \in K!Gracze : h \in Int
  BY GraczeK
<1>6. i \in Int
  BY DEF TypK
<1>7. i < i' /\ \A h \in K!Gracze : h # i => (h < i' <=> h < i)
  BY <1>2, <1>5, <1>6
<1>. QED
  BY <1>2, <1>3, <1>4, <1>7, DopisanieK

LEMMA NowaRundaGraK ==
  ASSUME TypK, GraK, K!NowaRunda, UNCHANGED K!gracze
  PROVE  GraK'
<1>1. /\ serwer = "new_round" /\ UNCHANGED <<PS, r, rzucone_karty, max_points, pc, odwiedzone_karty>>
      /\ r < LiczbaKart /\ zamkniete = {} /\ max_points = -1
      /\ \A k \in K!Gracze : IF k < i THEN ProszonyK(k) ELSE GotowyK(k, r)
  BY DEF K!NowaRunda, K!gracze, GraK
<1>2. CASE i < LiczbaGraczy /\ K!Pisz("new_round", UNCHANGED <<zamkniete, sum_points>>)
  <2>1. i \in K!Gracze /\ ~(i < i)
    BY <1>2, GraczeK DEF TypK
  <2>2. GotowyK(i, r)
    BY <1>1, <2>1
  <2>3. /\ i' = i + 1 /\ UNCHANGED serwer /\ UNCHANGED <<zamkniete, sum_points>>
        /\ SP'[i] \in {<<"new_round">>, <<"l", "new_round">>}
        /\ i < i'
    BY <1>1, <1>2, <2>2, PiszeZywemuK DEF GotowyK
  <2>4. \A h \in K!Gracze : h # i => SP'[h] = SP[h] /\ (h < i' <=> h < i)
    BY <1>1, <1>2, <2>2, PiszeZywemuK DEF GotowyK
  <2>5. ProszonyK(i)
        \/ /\ pc[i] = "read" /\ PS[i] = <<>> /\ Cardinality(odwiedzone_karty[i]) = r
    BY <2>2 DEF GotowyK
  <2>6. ASSUME NEW h \in K!Gracze PROVE IF h < i' THEN ProszonyK(h)' ELSE GotowyK(h, r)'
    <3>1. CASE h = i
      BY <1>1, <2>2, <2>3, <3>1 DEF GotowyK, ProszonyK
    <3>2. CASE h # i
      BY <1>1, <2>4, <3>2 DEF GotowyK, ProszonyK
    <3>. QED
      BY <3>1, <3>2
  <2>. QED
    BY <1>1, <2>3, <2>6 DEF GraK
<1>3. CASE i = LiczbaGraczy /\ K!Dalej("odbierz") /\ UNCHANGED <<SP, zamkniete, sum_points>>
  <2>1. i' = 0 /\ serwer' = "odbierz"
    BY <1>3 DEF K!Dalej
  <2>2. \A k \in K!Gracze : k < i /\ ~(k < 0)
    BY <1>3, GraczeK
  <2>3. \A k \in K!Gracze : ProszonyK(k)'
    BY <1>1, <1>3, <2>2 DEF ProszonyK
  <2>4. ~(0 > 0)
    OBVIOUS
  <2>. QED
    BY <1>1, <1>3, <2>1, <2>2, <2>3, <2>4 DEF GraK
<1>. QED
  BY <1>2, <1>3 DEF K!NowaRunda

LEMMA OdbierzGraK ==
  ASSUME TypK, GraK, K!OdbierzKarty, UNCHANGED K!gracze
  PROVE  GraK'
<1>1. /\ serwer = "odbierz" /\ UNCHANGED <<SP, zamkniete, r, pc, odwiedzone_karty>>
      /\ r < LiczbaKart /\ zamkniete = {} /\ (i = 0 => max_points = -1)
      /\ \A k \in K!Gracze : IF k < i THEN ZagralK(k) /\ KartaK(k) ELSE ProszonyK(k)
      /\ i > 0 => \E k \in K!Gracze : k < i /\ rzucone_karty[k] = max_points
  BY DEF K!OdbierzKarty, K!gracze, GraK
<1>2. CASE /\ i < LiczbaGraczy /\ PS[i] # <<>> /\ PS' = [PS EXCEPT ![i] = Tail(@)]
           /\ rzucone_karty' = [rzucone_karty EXCEPT ![i] = Head(PS[i])]
           /\ max_points' = IF Head(PS[i]) > max_points THEN Head(PS[i]) ELSE max_points
           /\ i' = i + 1 /\ UNCHANGED serwer
  <2>1. i \in K!Gracze /\ ~(i < i) /\ i < i' /\ i' > 0 /\ i' # 0
    BY <1>2, GraczeK DEF TypK
  <2>2. ProszonyK(i)
    BY <1>1, <2>1
  <2>3. PICK c \in 1..LiczbaKart : PS[i] = <<c>>
    BY <1>2, <2>2 DEF ProszonyK
  <2>4. SP[i] = <<>> /\ pc[i] = "read" /\ Cardinality(odwiedzone_karty[i]) = r + 1
    BY <1>2, <2>2 DEF ProszonyK
  <2>5. Head(PS[i]) = c /\ Tail(PS[i]) = <<>>
    BY <2>3, DopisanieK
  <2>6. PS'[i] = <<>> /\ rzucone_karty'[i] = c
    BY <1>2, <2>1, <2>5 DEF TypK
  <2>7. \A h \in K!Gracze : h # i => PS'[h] = PS[h] /\ rzucone_karty'[h] = rzucone_karty[h]
    BY <1>2 DEF TypK
  <2>8. \A h \in K!Gracze : h # i => (h < i' <=> h < i)
    <3>1. \A h \in K!Gracze : h \in Int
      BY GraczeK
    <3>. QED
      BY <1>2, <3>1 DEF TypK
  <2>9. ASSUME NEW h \in K!Gracze PROVE IF h < i' THEN ZagralK(h)' /\ KartaK(h)' ELSE ProszonyK(h)'
    <3>1. CASE h = i
      BY <1>1, <2>1, <2>4, <2>6, <3>1 DEF ZagralK, KartaK
    <3>2. CASE h # i
      BY <1>1, <2>7, <2>8, <3>2 DEF ZagralK, KartaK, ProszonyK
    <3>. QED
      BY <3>1, <3>2
  <2>10. \E k \in K!Gracze : k < i' /\ rzucone_karty'[k] = max_points'
    <3>1. CASE c > max_points
      BY <1>2, <2>1, <2>5, <2>6, <3>1
    <3>2. CASE ~(c > max_points)
      <4>1. c > -1
        BY <2>3
      <4>2. i \in Nat /\ i # 0
        BY <1>1, <3>2, <4>1 DEF TypK
      <4>3. i > 0
        BY <4>2
      <4>4. PICK k \in K!Gracze : k < i /\ rzucone_karty[k] = max_points
        BY <1>1, <4>3
      <4>5. k # i
        BY <2>1, <4>4
      <4>. QED
        BY <1>2, <2>5, <2>7, <2>8, <3>2, <4>4, <4>5
    <3>. QED
      BY <3>1, <3>2
  <2>. QED
    BY <1>1, <1>2, <2>1, <2>9, <2>10 DEF GraK
<1>3. ASSUME i < LiczbaGraczy, K!KoniecPS(i) PROVE FALSE
  <2>1. i \in K!Gracze /\ ~(i < i)
    BY <1>3, GraczeK DEF TypK
  <2>. QED
    BY <1>1, <1>3, <2>1 DEF ProszonyK, K!KoniecPS, K!Zyje
<1>4. CASE i = LiczbaGraczy /\ K!Dalej("licz") /\ UNCHANGED <<PS, rzucone_karty, max_points>>
  <2>1. i' = 0 /\ serwer' = "licz"
    BY <1>4 DEF K!Dalej
  <2>2. i > 0 /\ \A k \in K!Gracze : k < i
    BY <1>4, GraczeK
  <2>3. \A k \in K!Gracze : ZagralK(k)' /\ KartaK(k)'
    BY <1>1, <1>4, <2>2 DEF ZagralK, KartaK
  <2>4. \E k \in K!Gracze : rzucone_karty'[k] = max_points'
    BY <1>1, <1>4, <2>2
  <2>. QED
    BY <1>1, <2>1, <2>3, <2>4 DEF GraK
<1>. QED
  BY <1>2, <1>3, <1>4 DEF K!OdbierzKarty

LEMMA LiczGraK ==
  ASSUME TypK, GraK, K!Licz, UNCHANGED K!gracze
  PROVE  GraK'
<1>1. /\ serwer = "licz"
      /\ UNCHANGED <<SP, PS, zamkniete, r, rzucone_karty, max_points, pc, odwiedzone_karty>>
      /\ r < LiczbaKart /\ zamkniete = {}
      /\ \A k \in K!Gracze : ZagralK(k)
      /\ \E k \in K!Gracze : rzucone_karty[k] = max_points
  BY DEF K!Licz, K!gracze, GraK
<1>2. zwyciezcy' # {}
  BY <1>1 DEF K!Licz
<1>3. serwer' = "rozdaj" /\ i' = 0
  BY <1>2 DEF K!Licz, K!Dalej
<1>4. \A k \in K!Gracze : ~(k < 0) /\ ZagralK(k)'
  BY <1>1, GraczeK DEF ZagralK
<1>. QED
  BY <1>1, <1>3, <1>4 DEF GraK

LEMMA RozdajGraK ==
  ASSUME TypK, GraK, K!Rozdaj, UNCHANGED K!gracze
  PROVE  GraK'
<1>1. /\ serwer = "rozdaj" /\ UNCHANGED <<PS, pc, odwiedzone_karty>>
      /\ r < LiczbaKart /\ zamkniete = {}
      /\ \A k \in K!Gracze : IF k < i THEN GotowyK(k, r + 1) ELSE ZagralK(k)
  BY DEF K!Rozdaj, K!gracze, GraK
<1> DEFINE Punkty == /\ sum_points' = [sum_points EXCEPT ![i] =
                           IF i \in zwyciezcy THEN @ + K!points_to_send(K!Cardinality(zwyciezcy)) ELSE @]
                     /\ UNCHANGED zamkniete
<1>2. CASE i < LiczbaGraczy /\ UNCHANGED <<r, rzucone_karty, max_points, zwyciezcy>> /\ K!Pisz("l", Punkty)
  <2>0. Punkty => UNCHANGED zamkniete
    OBVIOUS
  <2> HIDE DEF Punkty
  <2>1. i \in K!Gracze /\ ~(i < i)
    BY <1>2, GraczeK DEF TypK
  <2>2. ZagralK(i)
    BY <1>1, <2>1
  <2>3. i' = i + 1 /\ UNCHANGED serwer /\ Punkty /\ SP'[i] = <<"l">> /\ i < i'
    BY <1>1, <1>2, <2>2, PiszeZywemuK DEF ZagralK
  <2>4. \A h \in K!Gracze : h # i => SP'[h] = SP[h] /\ (h < i' <=> h < i)
    BY <1>1, <1>2, <2>2, PiszeZywemuK DEF ZagralK
  <2>5. r' + 1 = r + 1
    BY <1>2
  <2>6. ASSUME NEW h \in K!Gracze PROVE IF h < i' THEN GotowyK(h, r + 1)' ELSE ZagralK(h)'
    <3>1. CASE h = i
      BY <1>1, <2>2, <2>3, <2>5, <3>1 DEF GotowyK, ZagralK
    <3>2. CASE h # i
      BY <1>1, <2>4, <2>5, <3>2 DEF GotowyK, ZagralK
    <3>. QED
      BY <3>1, <3>2
  <2>. QED
    BY <1>1, <1>2, <2>0, <2>3, <2>6 DEF GraK
<1>3. CASE /\ i = LiczbaGraczy /\ r' = r + 1 /\ K!Dalej(IF K!JeszczeRunda THEN "new_round" ELSE "end_game")
           /\ max_points' = -1 /\ UNCHANGED <<SP, zamkniete>>
  <2>1. i' = 0 /\ serwer' \in {"new_round", "end_game"} /\ (serwer' = "new_round" => r + 1 < LiczbaKart)
    BY <1>3 DEF K!Dalej, K!JeszczeRunda
  <2>2. \A k \in K!Gracze : k < i /\ ~(k < 0)
    BY <1>3, GraczeK
  <2>3. \A k \in K!Gracze : GotowyK(k, r)'
    BY <1>1, <1>3, <2>2 DEF GotowyK
  <2>. QED
    BY <1>1, <1>3, <2>1, <2>2, <2>3 DEF GraK
<1>. QED
  BY <1>2, <1>3, Zenon DEF K!Rozdaj

LEMMA KoniecGraK ==
  ASSUME TypK, GraK, K!KoniecGry, UNCHANGED K!gracze
  PROVE  GraK'
<1>1. UNCHANGED <<PS, r, rzucone_karty, max_points, pc, odwiedzone_karty>>
  BY DEF K!KoniecGry, K!gracze
<1>2. CASE /\ serwer = "end_game" /\ i < LiczbaGraczy
           /\ K!Pisz("end_game", zamkniete' = zamkniete \union {i} /\ UNCHANGED sum_points)
  <2>0. \A k \in K!Gracze : IF k < i THEN ZegnanyK(k) ELSE GotowyK(k, r)
    BY <1>2 DEF GraK
  <2>1. i \in K!Gracze /\ ~(i < i)
    BY <1>2, GraczeK DEF TypK
  <2>2. GotowyK(i, r)
    BY <2>0, <2>1
  <2>3. /\ i' = i + 1 /\ UNCHANGED serwer /\ zamkniete' = zamkniete \union {i}
        /\ SP'[i] \in {<<"end_game">>, <<"l", "end_game">>} /\ i < i'
    BY <1>1, <1>2, <2>2, PiszeZywemuK DEF GotowyK
  <2>4. \A h \in K!Gracze : h # i => SP'[h] = SP[h] /\ (h < i' <=> h < i)
    BY <1>1, <1>2, <2>2, PiszeZywemuK DEF GotowyK
  <2>5. ASSUME NEW h \in K!Gracze PROVE IF h < i' THEN ZegnanyK(h)' ELSE GotowyK(h, r)'
    <3>1. CASE h = i
      BY <1>1, <2>2, <2>3, <3>1 DEF GotowyK, ZegnanyK
    <3>2. CASE h # i
      BY <1>1, <2>0, <2>4, <3>2 DEF GotowyK, ZegnanyK
    <3>. QED
      BY <3>1, <3>2
  <2>6. \A h \in zamkniete' : h \in K!Gracze /\ h < i'
    <3>1. \A h \in zamkniete : h \in K!Gracze /\ h < i
      BY <1>2 DEF GraK
    <3>. QED
      BY <2>1, <2>3, <2>4, <3>1
  <2>. QED
    BY <1>2, <2>3, <2>5, <2>6 DEF GraK
<1>3. CASE serwer = "end_game" /\ i = LiczbaGraczy /\ K!Dalej("wait") /\ UNCHANGED <<SP, zamkniete, sum_points>>
  <2>1. serwer' = "wait"
    BY <1>3 DEF K!Dalej
  <2>2. \A k \in K!Gracze : k < i
    BY <1>3, GraczeK
  <2>3. \A k \in K!Gracze : ZegnanyK(k)
    BY <1>3, <2>2 DEF GraK
  <2>4. \A k \in K!Gracze : ZegnanyK(k)'
    BY <1>1, <1>3, <2>3 DEF ZegnanyK
  <2>. QED
    BY <2>1, <2>4 DEF GraK
<1>4. CASE serwer = "wait" /\ serwer' = "koniec" /\ UNCHANGED <<SP, i, zamkniete, sum_points>>
  <2>1. \A k \in K!Gracze : ZegnanyK(k)
    BY <1>4 DEF GraK
  <2>2. \A k \in K!Gracze : ZegnanyK(k)'
    BY <1>1, <1>4, <2>1 DEF ZegnanyK
  <2>. QED
    BY <1>4, <2>2 DEF GraK
<1>. QED
  BY <1>2, <1>3, <1>4 DEF K!KoniecGry

(* What the card game keeps. *)
StanK == TypK /\ PunktyK /\ (zabici = {} => GraK)

LEMMA InitK == K!Init => StanK
BY TypInitK, PunktyInitK, GraInitK DEF StanK

LEMMA KrokK == StanK /\ [K!Next]_(K!vars) => StanK'
<1> SUFFICES ASSUME StanK, [K!Next]_(K!vars) PROVE StanK'
  OBVIOUS
<1>1. TypK /\ TypK' /\ PunktyK'
  BY TypKrokK, PunktyKrokK DEF StanK
<1>2. ASSUME zabici' = {} PROVE GraK'
  <2>1. CASE UNCHANGED K!vars
    <3>1. GraK
      BY <1>2, <2>1 DEF StanK, K!vars
    <3>. QED
      BY <2>1, <3>1 DEF K!vars, GraK, GotowyK, ProszonyK, ZagralK, ZegnanyK, KartaK
  <2>2. ASSUME NEW k \in K!Gracze, K!player(k) PROVE GraK'
    BY <1>1, <1>2, <2>2, GraczGraK DEF StanK, K!player
  <2>3. ASSUME NEW k \in K!Gracze, K!Zabij(k) PROVE GraK'
    BY <1>2, <2>3 DEF K!Zabij
  <2>4. CASE K!Serwer
    <3>1. UNCHANGED K!gracze /\ GraK
      BY <1>2, <2>4 DEF K!Serwer, K!gracze, StanK
    <3>. QED
      BY <1>1, <2>4, <3>1, NowaRundaGraK, OdbierzGraK, LiczGraK, RozdajGraK, KoniecGraK DEF K!Serwer
  <2>. QED
    BY <2>1, <2>2, <2>3, <2>4 DEF K!Next
<1>. QED
  BY <1>1, <1>2 DEF StanK

LEMMA GraDobraK ==
  ASSUME TypK, GraK
  PROVE  serwer \notin {"sigpipe", "sigfpe"} /\ \A k \in K!Gracze : pc[k] \notin {"petla", "sigpipe"}
<1>1. \A k \in K!Gracze : GotowyK(k, r) \/ GotowyK(k, r + 1) \/ ProszonyK(k) \/ ZagralK(k) \/ ZegnanyK(k)
  BY DEF GraK, TypK
<1>. QED
  BY <1>1 DEF GraK, GotowyK, ProszonyK, ZagralK, ZegnanyK

-----------------------------------------------------------------------------
(* All the programs. *)
IInv ==
  /\ program \in {"plik", "literki", "liczby", "karty", "ziemniak"}
  /\ program = "plik" => StanF
  /\ program = "literki" => StanL
  /\ program = "liczby" => StanZ
  /\ program = "karty" => StanK
  /\ program = "ziemniak" => StanH

(* The five programs keep their invariants, in every order their processes
   and signals come in. *)
THEOREM Inductive == Spec => []IInv
<1>1. Init => IInv
  BY InitF, InitL, InitZ, InitK, InitH DEF Init, IInv
<1>2. IInv /\ [Next]_vars => IInv'
  <2> SUFFICES ASSUME IInv, [Next]_vars PROVE IInv'
    OBVIOUS
  <2>1. CASE program = "plik" /\ F!Next /\ PozaPlikiem
    BY <2>1, KrokF DEF IInv, PozaPlikiem
  <2>2. CASE program = "literki" /\ L!Next /\ PozaLiterkami
    BY <2>2, KrokL DEF IInv, PozaLiterkami
  <2>3. CASE program = "liczby" /\ Z!Next /\ PozaLiczbami
    BY <2>3, KrokZ DEF IInv, PozaLiczbami
  <2>4. CASE program = "karty" /\ K!Next /\ PozaKartami
    BY <2>4, KrokK DEF IInv, PozaKartami
  <2>5. CASE program = "ziemniak" /\ H!Next /\ PozaZiemniakiem
    BY <2>5, KrokH DEF IInv, PozaZiemniakiem
  <2>6. CASE UNCHANGED vars
    <3>1. UNCHANGED F!vars /\ UNCHANGED program
      BY <2>6 DEF vars, plikVars, F!vars
    <3>2. UNCHANGED L!vars
      BY <2>6 DEF vars, literkiVars, L!vars
    <3>3. UNCHANGED Z!vars
      BY <2>6 DEF vars, liczbyVars, Z!vars
    <3>4. UNCHANGED K!vars
      BY <2>6 DEF vars, kartyVars, K!vars
    <3>5. UNCHANGED H!vars
      BY <2>6 DEF vars, ziemniakVars, H!vars
    <3>. QED
      BY <3>1, <3>2, <3>3, <3>4, <3>5, KrokF, KrokL, KrokZ, KrokK, KrokH DEF IInv
  <2>. QED
    BY <2>1, <2>2, <2>3, <2>4, <2>5, <2>6 DEF Next
<1>. QED
  BY <1>1, <1>2, PTL DEF Spec

(* What a reader of a pipe takes for one message is one message: the blocks of
   every client that the FIFO server did not miss are printed in order and
   without a gap, the parent of the letters reads whole frames, and there is
   one number in the ring until somebody stops. *)
THEOREM MessagesWhole == Spec => []WiadomosciCale
<1>1. IInv => PlikiWCalosci
  BY Zenon DEF IInv, StanF, CaloscF, StrumienF, PlikiWCalosci
<1>2. IInv => RamkiCale
  BY RamkiDobreL, Zenon DEF IInv, RamkiCale
<1>3. IInv => JedenZeton
  BY JedenZ, Zenon DEF IInv, JedenZeton
<1>. QED
  BY <1>1, <1>2, <1>3, Inductive, PTL DEF WiadomosciCale

(* The card game comes through all its rounds without SIGPIPE, SIGFPE or a
   player that draws for ever unless somebody is killed, and gives out no more
   points than the rounds have and no less than the division leaves. *)
THEOREM CardsInOrder == Spec => []KartyWPorzadku
<1>1. IInv => KartyBezAwarii
  BY GraDobraK DEF IInv, StanK, KartyBezAwarii
<1>2. IInv => PunktyRund
  <2> SUFFICES ASSUME IInv, program = "karty", serwer \in {"new_round", "end_game"}
               PROVE  LET razem == FoldFunction(+, 0, sum_points) IN
                      /\ razem <= r * LiczbaGraczy
                      /\ razem >= r * Min({w * (LiczbaGraczy \div w) : w \in 1..LiczbaGraczy})
    BY Zenon DEF PunktyRund
  <2>1. TypK /\ PunktyK
    BY DEF IInv, StanK
  <2>. QED
    BY <2>1, RundyDobreK, Zenon
<1>. QED
  BY <1>1, <1>2, Inductive, PTL DEF KartyWPorzadku

(* Every route the hot potato network reports is a walk along its edges that
   meets its target at its end and nowhere before, within the ttl and the room
   in path. *)
THEOREM RoutesTrue == Spec => []TrasaPrawdziwa
<1>1. IInv => TrasaPrawdziwa
  BY TrasyH, Zenon DEF IInv, TrasaPrawdziwa
<1>. QED
  BY <1>1, Inductive, PTL
=============================================================================
