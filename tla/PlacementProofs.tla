--------------------------- MODULE PlacementProofs ---------------------------
(***************************************************************************)
(* Theorems about the placement of loadaware, for any fleet, any beta that *)
(* float() reads, any loads, matches and prompts: select_url returns the   *)
(* engine that the class comment describes, and no other.                  *)
(***************************************************************************)
EXTENDS Placement, FiniteSetTheorems, WellFoundedInduction, TLAPS

LEMMA Induction ==
    ASSUME NEW S, 0 \in S, \A n \in Nat : n \in S => n + 1 \in S
    PROVE  Nat \subseteq S
<1>. DEFINE R == OpToRel(<, Nat)
            T == Nat \ S
<1>1. SUFFICES ASSUME T # {} PROVE FALSE
  OBVIOUS
<1>2. IsWellFoundedOn(R, Nat)
  BY NatLessThanWellFounded
<1>3. PICK x \in T : \A y \in T : ~ (<<y, x>> \in R)
  <2>1. T \subseteq Nat
    OBVIOUS
  <2>. HIDE DEF R, T
  <2>. QED
    BY <1>1, <1>2, <2>1, WFMin
<1>4. x # 0 /\ x - 1 \in Nat /\ x - 1 \notin S
  OBVIOUS
<1>5. <<x - 1, x>> \in R
  BY <1>4 DEF OpToRel
<1>. QED
  BY <1>3, <1>4, <1>5
-----------------------------------------------------------------------------
(* The order of the endpoints.                                             *)

\* sorted() has each endpoint in one place, the lesser URL before the greater.
Increasing(s, E) ==
    /\ \A n \in 1..Cardinality(E) : s[n] \in E
    /\ \A u \in E : \E n \in 1..Cardinality(E) : s[n] = u
    /\ \A n, p \in 1..Cardinality(E) : n < p => s[n] < s[p]

LEMMA Sorted ==
    ASSUME NEW E, E \subseteq Nat, IsFiniteSet(E)
    PROVE  Increasing(SortedByUrl(E), E)
<1>. DEFINE N == Cardinality(E)
            Upto(u) == {v \in E : v <= u}
            rank == [u \in E |-> Cardinality(Upto(u))]
            s == SortedByUrl(E)
<1>1. N \in Nat
  BY FS_CardinalityType
<1>2. ASSUME NEW u \in E
      PROVE  IsFiniteSet(Upto(u)) /\ rank[u] \in 1..N
  <2>1. IsFiniteSet(Upto(u)) /\ Cardinality(Upto(u)) \in Nat /\ Cardinality(Upto(u)) <= N
    BY FS_Subset, FS_CardinalityType
  <2>2. u \in Upto(u)
    OBVIOUS
  <2>3. Cardinality(Upto(u)) # 0
    BY <2>1, <2>2, FS_EmptySet
  <2>. QED
    BY <2>1, <2>3
<1>3. ASSUME NEW u \in E, NEW v \in E, u < v
      PROVE  rank[u] < rank[v]
  <2>0. u \in Nat /\ v \in Nat
    OBVIOUS
  <2>1. Upto(u) \subseteq Upto(v) /\ v \in Upto(v) /\ v \notin Upto(u)
    <3>1. ASSUME NEW w \in Upto(u) PROVE w \in Upto(v)
      <4>1. w \in E /\ w \in Nat /\ w <= u
        OBVIOUS
      <4>. QED
        BY <1>3, <2>0, <4>1
    <3>2. v <= v /\ ~(v <= u)
      BY <1>3, <2>0
    <3>. QED
      BY <3>1, <3>2
  <2>2. IsFiniteSet(Upto(v))
    BY <1>2
  <2>3. Cardinality(Upto(u)) <= Cardinality(Upto(v))
        /\ Cardinality(Upto(u)) # Cardinality(Upto(v))
    <3>. HIDE DEF Upto
    <3>. QED
      BY <2>1, <2>2, FS_Subset
  <2>4. rank[u] \in Nat /\ rank[v] \in Nat
    BY <1>2
  <2>. QED
    BY <2>3, <2>4
<1>4. \A u, v \in E : rank[u] = rank[v] => u = v
  <2>. SUFFICES ASSUME NEW u \in E, NEW v \in E, rank[u] = rank[v], u # v PROVE FALSE
    OBVIOUS
  <2>1. rank[u] \in Nat /\ rank[v] \in Nat
    BY <1>2
  <2>2. u < v \/ v < u
    OBVIOUS
  <2>. HIDE DEF rank
  <2>. QED
    BY <1>3, <2>1, <2>2
<1>5. ASSUME NEW n \in 1..N PROVE \E u \in E : rank[u] = n
  <2>1. rank \in [E -> 1..N]
    BY <1>2
  <2>. HIDE DEF rank
  <2>2. rank \in Injection(E, 1..N)
    BY <1>4, <2>1 DEF Injection, IsInjective
  <2>3. IsFiniteSet(1..N) /\ Cardinality(1..N) = N
    BY <1>1, FS_Interval
  <2>4. rank \in Surjection(E, 1..N)
    BY <2>2, <2>3, FS_Injection
  <2>. QED
    BY <2>4 DEF Surjection
<1>6. ASSUME NEW n \in 1..N PROVE s[n] \in E /\ rank[s[n]] = n
  <2>1. s[n] = CHOOSE u \in E : Cardinality(Upto(u)) = n
    BY DEF SortedByUrl
  <2>2. \E u \in E : Cardinality(Upto(u)) = n
    BY <1>5
  <2>3. s[n] \in E /\ Cardinality(Upto(s[n])) = n
    BY <2>1, <2>2
  <2>. QED
    BY <2>3
<1>. HIDE DEF rank, s
<1>7. ASSUME NEW u \in E PROVE \E n \in 1..N : s[n] = u
  BY <1>2, <1>4, <1>6
<1>8. ASSUME NEW n \in 1..N, NEW p \in 1..N, n < p PROVE s[n] < s[p]
  <2>1. s[n] \in E /\ s[p] \in E /\ rank[s[n]] = n /\ rank[s[p]] = p
    BY <1>6
  <2>2. s[n] # s[p]
    BY <1>1, <1>8, <2>1
  <2>3. ASSUME s[p] < s[n] PROVE FALSE
    <3>1. rank[s[p]] < rank[s[n]]
      BY <1>3, <2>1, <2>3
    <3>. QED
      BY <1>1, <1>8, <2>1, <3>1
  <2>4. s[n] \in Nat /\ s[p] \in Nat
    BY <2>1
  <2>. QED
    BY <2>2, <2>3, <2>4
<1>. QED
  BY <1>6, <1>7, <1>8 DEF Increasing, s
-----------------------------------------------------------------------------
(* Scores, and the loop over them.                                         *)

Score == {NaN} \union ({-1, 0, 1} \X Int)

LEMMA ScoreOrder ==
    /\ MinusInfinity \in Score
    /\ \A s \in Score : ~Exceeds(s, s) /\ ~Exceeds(NaN, s) /\ ~Exceeds(s, NaN)
    /\ \A s, t, r \in Score : Exceeds(s, t) /\ Exceeds(t, r) => Exceeds(s, r)
    /\ \A s, t \in Score \ {NaN} : Exceeds(s, t) \/ Exceeds(t, s) \/ s = t
<1>1. \A s \in Score \ {NaN} : s[1] \in Int /\ s[2] \in Int /\ s = <<s[1], s[2]>>
  BY DEF Score
<1>2. \A s, t \in Score \ {NaN} :
          Exceeds(s, t) <=> s[1] > t[1] \/ (s[1] = t[1] /\ s[2] > t[2])
  BY DEF Exceeds
<1>3. \A s \in Score : ~Exceeds(NaN, s) /\ ~Exceeds(s, NaN)
  BY DEF Exceeds
<1>4. MinusInfinity \in Score
  BY DEF MinusInfinity, Score
<1>5. \A s \in Score : ~Exceeds(s, s)
  BY <1>1, <1>2, <1>3
<1>6. ASSUME NEW s \in Score, NEW t \in Score, NEW r \in Score, Exceeds(s, t), Exceeds(t, r)
      PROVE  Exceeds(s, r)
  BY <1>1, <1>2, <1>3, <1>6
<1>7. ASSUME NEW s \in Score \ {NaN}, NEW t \in Score \ {NaN},
             ~Exceeds(s, t), ~Exceeds(t, s)
      PROVE  s = t
  <2>1. s[1] = t[1] /\ s[2] = t[2]
    BY <1>1, <1>2, <1>7
  <2>. QED
    BY <1>1, <2>1
<1>. QED
  BY <1>3, <1>4, <1>5, <1>6, <1>7

(* What select_url is asked, and the score it gives an endpoint.           *)
Asked(E, st, m, p) ==
    /\ E \in EndpointSets /\ m \in [E -> Nat] /\ p \in Nat
    /\ \A u \in E : LoadPenalty(st, u) \in Nat

ScoreOf(E, st, m, p, u) ==
    ScoreEndpoint(beta, IF u \in DOMAIN m THEN m[u] ELSE 0, p, RelativeLoad(st, E, u),
                  LoadScale(st, E))

\* One turn of the loop, given the results f of the turns before.
Turn(E, st, m, p, f, n) ==
    IF n = 0 THEN [url |-> NoUrl, score |-> MinusInfinity]
    ELSE LET before == f[n-1]
             score == ScoreOf(E, st, m, p, SortedByUrl(E)[n])
         IN  IF Better(score, before)
             THEN [url |-> SortedByUrl(E)[n], score |-> score] ELSE before

Turns(E, st, m, p, f, n) == f = [i \in 0..n |-> Turn(E, st, m, p, f, i)]

LEMMA TurnsExist ==
    ASSUME NEW E, NEW st, NEW m, NEW p, NEW N \in Nat
    PROVE  \E f : Turns(E, st, m, p, f, N)
<1>. DEFINE T(f, i) == Turn(E, st, m, p, f, i)
            Good == {n \in Nat : \E f : Turns(E, st, m, p, f, n)}
<1>1. 0 \in Good
  <2>1. Turns(E, st, m, p, [i \in 0..0 |-> [url |-> NoUrl, score |-> MinusInfinity]], 0)
    BY DEF Turns, Turn
  <2>. QED
    BY <2>1
<1>2. ASSUME NEW n \in Nat, n \in Good
      PROVE  n + 1 \in Good
  <2>1. PICK f : Turns(E, st, m, p, f, n)
    BY <1>2
  <2>. DEFINE g == [i \in 0..(n+1) |-> IF i <= n THEN f[i] ELSE T(f, n+1)]
  <2>2. ASSUME NEW i \in 0..(n+1) PROVE g[i] = T(g, i)
    <3>1. \A j \in 0..n : g[j] = f[j]
      OBVIOUS
    <3>2. T(g, i) = T(f, i)
      <4>. HIDE DEF g
      <4>1. CASE i = 0
        BY <4>1 DEF Turn
      <4>2. CASE i # 0
        <5>1. g[i-1] = f[i-1]
          BY <3>1, <4>2
        <5>. QED
          BY <4>2, <5>1 DEF Turn
      <4>. QED
        BY <4>1, <4>2
    <3>3. CASE i <= n
      <4>1. f[i] = T(f, i)
        BY <2>1, <3>3 DEF Turns
      <4>. HIDE DEF T
      <4>. QED
        BY <3>2, <3>3, <4>1
    <3>4. CASE i = n + 1
      <4>1. g[i] = T(f, n+1)
        <5>. HIDE DEF T
        <5>. QED
          BY <3>4
      <4>. HIDE DEF T, g
      <4>. QED
        BY <3>2, <3>4, <4>1
    <3>. QED
      BY <3>3, <3>4
  <2>3. Turns(E, st, m, p, g, n+1)
    <3>. HIDE DEF T
    <3>1. g = [i \in 0..(n+1) |-> T(g, i)]
      <4>1. g = [i \in 0..(n+1) |-> g[i]]
        OBVIOUS
      <4>. HIDE DEF g
      <4>. QED
        BY <2>2, <4>1
    <3>. QED
      BY <3>1 DEF Turns, T
  <2>. QED
    BY <2>3
<1>. HIDE DEF Good
<1>3. N \in Good
  BY <1>1, <1>2, Induction
<1>. QED
  BY <1>3 DEF Good

LEMMA SelectUrlTurns ==
    ASSUME NEW E, NEW st, NEW m, NEW p, Cardinality(E) \in Nat
    PROVE  \E f : /\ Turns(E, st, m, p, f, Cardinality(E))
                  /\ SelectUrl(beta, E, st, m, p) = f[Cardinality(E)].url
<1>. DEFINE f == CHOOSE g : Turns(E, st, m, p, g, Cardinality(E))
<1>1. Turns(E, st, m, p, f, Cardinality(E))
  BY TurnsExist
<1>2. SelectUrl(beta, E, st, m, p) = f[Cardinality(E)].url
  BY DEF SelectUrl, Turns, Turn, ScoreOf
<1>. QED
  BY <1>1, <1>2

\* The engine that the loop is to find: of those whose score exceeds minus
\* infinity and which no other exceeds, the one with the least URL.
Selected(score, E, u) ==
    IF \A v \in E : ~Exceeds(score[v], MinusInfinity)
    THEN u = NoUrl
    ELSE /\ u \in E /\ Exceeds(score[u], MinusInfinity)
         /\ \A v \in E : /\ ~Exceeds(score[v], score[u])
                         /\ score[v] = score[u] => u <= v

\* b is the best of the first n places of s.
Best(score, s, n, b) ==
    \/ /\ b.url = NoUrl /\ b.score = MinusInfinity
       /\ \A i \in 1..n : ~Exceeds(score[s[i]], MinusInfinity)
    \/ \E k \in 1..n :
           /\ b.url = s[k] /\ b.score = score[s[k]] /\ Exceeds(b.score, MinusInfinity)
           /\ \A i \in 1..n : /\ ~Exceeds(score[s[i]], b.score)
                              /\ score[s[i]] = b.score => k <= i

LEMMA BestOfOneMore ==
    ASSUME NEW N \in Nat, NEW score, NEW s, \A i \in 1..N : score[s[i]] \in Score,
           NEW n \in 0..(N-1), NEW b, Best(score, s, n, b),
           NEW c, c = IF Better(score[s[n+1]], b)
                      THEN [url |-> s[n+1], score |-> score[s[n+1]]] ELSE b
    PROVE  Best(score, s, n+1, c)
<1>. DEFINE x == score[s[n+1]]
<1>0. x \in Score /\ n + 1 \in 1..N /\ n \in Nat
      /\ \A i \in 1..(n+1) : i \in 1..n \/ i = n + 1
  OBVIOUS
<1>1. b.score \in Score /\ \A i \in 1..n : score[s[i]] \in Score /\ ~Exceeds(score[s[i]], b.score)
  <2>1. CASE b.score = MinusInfinity
    BY <2>1, ScoreOrder DEF Best
  <2>2. CASE b.score # MinusInfinity
    BY <2>2 DEF Best
  <2>. QED
    BY <2>1, <2>2
<1>2. CASE ~Exceeds(x, b.score)
  <2>1. c = b
    BY <1>2 DEF Better
  <2>2. CASE b.url = NoUrl /\ b.score = MinusInfinity
             /\ \A i \in 1..n : ~Exceeds(score[s[i]], MinusInfinity)
    BY <1>0, <1>2, <2>1, <2>2 DEF Best
  <2>3. ASSUME NEW k \in 1..n,
               b.url = s[k], b.score = score[s[k]], Exceeds(b.score, MinusInfinity),
               \A i \in 1..n : /\ ~Exceeds(score[s[i]], b.score)
                               /\ score[s[i]] = b.score => k <= i
        PROVE  Best(score, s, n+1, c)
    <3>1. k \in 1..(n+1) /\ k <= n+1
      BY <1>0
    <3>2. \A i \in 1..(n+1) : /\ ~Exceeds(score[s[i]], b.score)
                              /\ score[s[i]] = b.score => k <= i
      BY <1>0, <1>2, <2>3, <3>1
    <3>. QED
      BY <2>1, <2>3, <3>1, <3>2 DEF Best
  <2>. QED
    BY <2>2, <2>3 DEF Best
<1>3. CASE Exceeds(x, b.score)
  <2>1. c.url = s[n+1] /\ c.score = x
    BY <1>3 DEF Better
  <2>2. Exceeds(x, MinusInfinity)
    BY <1>0, <1>1, <1>3, ScoreOrder DEF Best
  <2>3. \A i \in 1..n : ~Exceeds(score[s[i]], x) /\ score[s[i]] # x
    BY <1>0, <1>1, <1>3, ScoreOrder
  <2>4. ~Exceeds(x, x)
    BY <1>0, ScoreOrder
  <2>5. \A i \in 1..(n+1) : /\ ~Exceeds(score[s[i]], x)
                            /\ score[s[i]] = x => n + 1 <= i
    BY <1>0, <2>3, <2>4
  <2>6. n + 1 \in 1..(n+1)
    BY <1>0
  <2>. HIDE DEF x
  <2>7. x = score[s[n+1]]
    BY DEF x
  <2>. QED
    BY <2>1, <2>2, <2>5, <2>6, <2>7 DEF Best
<1>. QED
  BY <1>2, <1>3

LEMMA BestIsSelected ==
    ASSUME NEW E, E \subseteq Nat, Cardinality(E) \in Nat, NEW score, NEW s, Increasing(s, E),
           NEW b, Best(score, s, Cardinality(E), b)
    PROVE  Selected(score, E, b.url)
<1>. DEFINE N == Cardinality(E)
<1>1. CASE /\ b.url = NoUrl
           /\ \A i \in 1..N : ~Exceeds(score[s[i]], MinusInfinity)
  <2>1. \A v \in E : ~Exceeds(score[v], MinusInfinity)
    BY <1>1 DEF Increasing
  <2>. QED
    BY <1>1, <2>1 DEF Selected
<1>2. ASSUME NEW k \in 1..N,
             b.url = s[k], b.score = score[s[k]], Exceeds(b.score, MinusInfinity),
             \A i \in 1..N : /\ ~Exceeds(score[s[i]], b.score)
                             /\ score[s[i]] = b.score => k <= i
      PROVE  Selected(score, E, b.url)
  <2>1. s[k] \in E
    BY DEF Increasing
  <2>2. ASSUME NEW v \in E
        PROVE  /\ ~Exceeds(score[v], score[s[k]])
               /\ score[v] = score[s[k]] => s[k] <= v
    <3>1. PICK i \in 1..N : s[i] = v
      BY DEF Increasing
    <3>2. s[i] \in Nat /\ s[k] \in Nat
      BY <2>1, <3>1
    <3>3. ASSUME k <= i PROVE s[k] <= s[i]
      <4>1. CASE k = i
        BY <3>2, <4>1
      <4>2. CASE k < i
        <5>1. s[k] < s[i]
          BY <4>2 DEF Increasing
        <5>. QED
          BY <3>2, <5>1
      <4>. QED
        BY <3>2, <3>3, <4>1, <4>2
    <3>. QED
      BY <1>2, <3>1, <3>3
  <2>. QED
    BY <1>2, <2>1, <2>2 DEF Selected
<1>. QED
  BY <1>1, <1>2 DEF Best

\* Whatever the scores: select_url returns the engine that it is to find.
LEMMA SelectUrlSelects ==
    ASSUME NEW E, E \subseteq Nat, IsFiniteSet(E), NEW st, NEW m, NEW p,
           \A u \in E : ScoreOf(E, st, m, p, u) \in Score
    PROVE  Selected([u \in E |-> ScoreOf(E, st, m, p, u)], E, SelectUrl(beta, E, st, m, p))
<1>. DEFINE N == Cardinality(E)
            s == SortedByUrl(E)
            score == [u \in E |-> ScoreOf(E, st, m, p, u)]
<1>1. N \in Nat
  BY FS_CardinalityType
<1>2. Increasing(s, E)
  BY Sorted
<1>3. \A i \in 1..N : s[i] \in E /\ score[s[i]] \in Score
  BY <1>2 DEF Increasing
<1>4. PICK f : Turns(E, st, m, p, f, N) /\ SelectUrl(beta, E, st, m, p) = f[N].url
  BY <1>1, SelectUrlTurns
<1>. DEFINE Good == {n \in Nat : n <= N => Best(score, s, n, f[n])}
<1>5. 0 \in Good
  <2>1. f[0] = [url |-> NoUrl, score |-> MinusInfinity]
    BY <1>1, <1>4 DEF Turns, Turn
  <2>2. Best(score, s, 0, f[0])
    BY <2>1 DEF Best
  <2>. QED
    BY <2>2
<1>6. ASSUME NEW n \in Nat, n \in Good PROVE n + 1 \in Good
  <2>. SUFFICES ASSUME n + 1 <= N PROVE Best(score, s, n+1, f[n+1])
    OBVIOUS
  <2>1. n \in 0..(N-1) /\ n + 1 \in 0..N /\ n + 1 \in 1..N /\ Best(score, s, n, f[n])
    BY <1>1, <1>6
  <2>2. f[n+1] = Turn(E, st, m, p, f, n+1)
    BY <1>4, <2>1 DEF Turns
  <2>3. score[s[n+1]] = ScoreOf(E, st, m, p, s[n+1])
    BY <1>3, <2>1
  <2>4. f[n+1] = IF Better(score[s[n+1]], f[n])
                 THEN [url |-> s[n+1], score |-> score[s[n+1]]] ELSE f[n]
    <3>. HIDE DEF score
    <3>. QED
      BY <2>1, <2>2, <2>3 DEF Turn
  <2>. HIDE DEF score, s, N
  <2>. QED
    BY <1>1, <1>3, <2>1, <2>4, BestOfOneMore
<1>7. N \in Good
  <2>. HIDE DEF Good, N
  <2>. QED
    BY <1>1, <1>5, <1>6, Induction
<1>8. Best(score, s, N, f[N])
  BY <1>1, <1>7
<1>. HIDE DEF score, s
<1>9. Selected(score, E, f[N].url)
  BY <1>1, <1>2, <1>8, BestIsSelected
<1>. QED
  BY <1>4, <1>9 DEF score

\* There is no other such engine, however the scores are scaled.
LEMMA OnlyOneSelected ==
    ASSUME NEW E, E \subseteq Nat, NEW score, NEW scaled, NEW u, NEW w,
           \A v \in E : score[v] \in Score /\ scaled[v] \in Score,
           \A v \in E : Exceeds(scaled[v], MinusInfinity) <=> Exceeds(score[v], MinusInfinity),
           \A v, x \in E : Exceeds(scaled[v], scaled[x]) <=> Exceeds(score[v], score[x]),
           Selected(score, E, u), Selected(scaled, E, w)
    PROVE  u = w
<1>1. CASE \A v \in E : ~Exceeds(score[v], MinusInfinity)
  BY <1>1 DEF Selected
<1>2. CASE \E v \in E : Exceeds(score[v], MinusInfinity)
  <2>1. u \in E /\ w \in E /\ u \in Nat /\ w \in Nat
    BY <1>2 DEF Selected
  <2>2. ~Exceeds(score[w], score[u]) /\ ~Exceeds(scaled[u], scaled[w])
    BY <1>2, <2>1 DEF Selected
  <2>3. Exceeds(score[u], MinusInfinity) /\ Exceeds(scaled[w], MinusInfinity)
    BY <1>2 DEF Selected
  <2>4. score[u] # NaN /\ score[w] # NaN /\ scaled[u] # NaN /\ scaled[w] # NaN
    BY <2>1, <2>3, ScoreOrder
  <2>5. score[u] = score[w]
    BY <2>1, <2>2, <2>4, ScoreOrder
  <2>6. scaled[u] = scaled[w]
    BY <2>1, <2>2, <2>4, ScoreOrder
  <2>7. u <= w /\ w <= u
    BY <1>2, <2>1, <2>5, <2>6 DEF Selected
  <2>. QED
    BY <2>1, <2>7
<1>. QED
  BY <1>1, <1>2
-----------------------------------------------------------------------------
(* The loads, which TotalLoad sums over the endpoints.                     *)

Chosen(s) == CHOOSE u \in s : TRUE

LEMMA Smaller ==
    ASSUME NEW s, IsFiniteSet(s), s # {}
    PROVE  /\ Chosen(s) \in s
           /\ IsFiniteSet(s \ {Chosen(s)})
           /\ Cardinality(s) \in Nat /\ Cardinality(s \ {Chosen(s)}) \in Nat
           /\ Cardinality(s \ {Chosen(s)}) = Cardinality(s) - 1
<1>1. Chosen(s) \in s
  BY DEF Chosen
<1>2. IsFiniteSet(s \ {Chosen(s)})
  BY FS_RemoveElement
<1>. QED
  BY <1>1, <1>2, FS_RemoveElement, FS_CardinalityType

\* What holds of the empty set, and of each set with one more endpoint, holds of
\* every set of endpoints.
LEMMA SetInduction ==
    ASSUME NEW E, IsFiniteSet(E), NEW G, {} \in G,
           \A s \in SUBSET E : s # {} /\ s \ {Chosen(s)} \in G => s \in G
    PROVE  SUBSET E \subseteq G
<1>. DEFINE Good == {n \in Nat : \A s \in SUBSET E : Cardinality(s) = n => s \in G}
<1>1. \A s \in SUBSET E : IsFiniteSet(s) /\ Cardinality(s) \in Nat
  BY FS_Subset, FS_CardinalityType
<1>2. 0 \in Good
  <2>1. \A s \in SUBSET E : Cardinality(s) = 0 => s = {}
    BY <1>1, FS_EmptySet
  <2>. QED
    BY <2>1
<1>3. ASSUME NEW n \in Nat, n \in Good PROVE n + 1 \in Good
  <2>. SUFFICES ASSUME NEW s \in SUBSET E, Cardinality(s) = n + 1 PROVE s \in G
    OBVIOUS
  <2>1. s # {}
    <3>1. Cardinality({}) = 0 /\ n + 1 # 0
      BY FS_EmptySet
    <3>. QED
      BY <3>1
  <2>2. Cardinality(s \ {Chosen(s)}) = n /\ s \ {Chosen(s)} \in SUBSET E
    BY <1>1, <2>1, Smaller
  <2>. QED
    BY <1>3, <2>1, <2>2
<1>4. Nat \subseteq Good
  <2>. HIDE DEF Good
  <2>. QED
    BY <1>2, <1>3, Induction
<1>. QED
  BY <1>1, <1>4

\* One turn of the sum over s, given the sums f of the sets that are smaller.
SumTurn(st, f, s) ==
    IF s = {} THEN 0
    ELSE LET u == CHOOSE v \in s : TRUE IN LoadPenalty(st, u) + f[s \ {u}]

LEMMA SumsExist ==
    ASSUME NEW E, IsFiniteSet(E), NEW st
    PROVE  \E f : f = [s \in SUBSET E |-> SumTurn(st, f, s)]
<1>. DEFINE N == Cardinality(E)
            Upto(f, n) == \A s \in SUBSET E : Cardinality(s) <= n => f[s] = SumTurn(st, f, s)
            Good == {n \in Nat : \E f : Upto(f, n)}
<1>0. /\ N \in Nat
      /\ \A s \in SUBSET E : /\ IsFiniteSet(s) /\ Cardinality(s) \in Nat /\ Cardinality(s) <= N
                             /\ Cardinality(s) <= 0 => s = {}
  BY FS_Subset, FS_CardinalityType, FS_EmptySet
<1>1. 0 \in Good
  <2>. DEFINE f == [s \in SUBSET E |-> 0]
  <2>1. ASSUME NEW s \in SUBSET E, Cardinality(s) <= 0 PROVE f[s] = SumTurn(st, f, s)
    BY <1>0, <2>1 DEF SumTurn
  <2>. QED
    BY <2>1
<1>2. ASSUME NEW n \in Nat, n \in Good PROVE n + 1 \in Good
  <2>1. PICK f : Upto(f, n)
    BY <1>2
  <2>. DEFINE g == [s \in SUBSET E |-> IF Cardinality(s) <= n THEN f[s] ELSE SumTurn(st, f, s)]
  <2>2. ASSUME NEW s \in SUBSET E, Cardinality(s) <= n + 1 PROVE g[s] = SumTurn(st, g, s)
    <3>1. SumTurn(st, g, s) = SumTurn(st, f, s)
      <4>1. CASE s = {}
        BY <4>1 DEF SumTurn
      <4>2. CASE s # {}
        <5>1. g[s \ {Chosen(s)}] = f[s \ {Chosen(s)}]
          BY <1>0, <2>2, <4>2, Smaller
        <5>. HIDE DEF g
        <5>. QED
          BY <4>2, <5>1 DEF SumTurn, Chosen
      <4>. QED
        BY <4>1, <4>2
    <3>2. CASE Cardinality(s) <= n
      BY <2>1, <3>1, <3>2
    <3>3. CASE ~(Cardinality(s) <= n)
      BY <3>1, <3>3
    <3>. QED
      BY <3>2, <3>3
  <2>3. Upto(g, n + 1)
    BY <2>2
  <2>. HIDE DEF Upto, g
  <2>. QED
    BY <2>3
<1>3. N \in Good
  <2>. HIDE DEF Good, N
  <2>. QED
    BY <1>0, <1>1, <1>2, Induction
<1>4. PICK f : Upto(f, N)
  BY <1>3
<1>. DEFINE g == [s \in SUBSET E |-> f[s]]
<1>5. ASSUME NEW s \in SUBSET E PROVE f[s] = SumTurn(st, f, s)
  BY <1>0, <1>4
<1>6. ASSUME NEW s \in SUBSET E PROVE SumTurn(st, g, s) = SumTurn(st, f, s)
  <2>1. CASE s = {}
    BY <2>1 DEF SumTurn
  <2>2. CASE s # {}
    <3>1. g[s \ {Chosen(s)}] = f[s \ {Chosen(s)}]
      BY <1>0, <2>2, Smaller
    <3>. HIDE DEF g
    <3>. QED
      BY <2>2, <3>1 DEF SumTurn, Chosen
  <2>. QED
    BY <2>1, <2>2
<1>7. g = [s \in SUBSET E |-> SumTurn(st, g, s)]
  <2>1. \A s \in SUBSET E : g[s] = SumTurn(st, g, s)
    BY <1>5, <1>6
  <2>. QED
    BY <2>1
<1>. HIDE DEF g
<1>. QED
  BY <1>7

\* f sums the loads over each set of endpoints.
Sums(st, E, f) ==
    /\ f[{}] = 0 /\ f[E] = TotalLoad(st, E)
    /\ \A s \in SUBSET E : s # {} => f[s] = LoadPenalty(st, Chosen(s)) + f[s \ {Chosen(s)}]

LEMMA LoadSums ==
    ASSUME NEW E, IsFiniteSet(E), NEW st
    PROVE  \E f : Sums(st, E, f)
<1>. DEFINE f == CHOOSE g : g = [s \in SUBSET E |-> SumTurn(st, g, s)]
<1>1. f = [s \in SUBSET E |-> SumTurn(st, f, s)]
  BY SumsExist
<1>2. TotalLoad(st, E) = f[E]
  BY DEF TotalLoad, MapThenSumSet, MapThenFoldSet, SumTurn
<1>. HIDE DEF f
<1>3. \A s \in SUBSET E : f[s] = SumTurn(st, f, s)
  BY <1>1
<1>4. f[{}] = 0
  BY <1>3 DEF SumTurn
<1>5. ASSUME NEW s \in SUBSET E, s # {}
      PROVE  f[s] = LoadPenalty(st, Chosen(s)) + f[s \ {Chosen(s)}]
  BY <1>3, <1>5 DEF SumTurn, Chosen
<1>. QED
  BY <1>2, <1>4, <1>5 DEF Sums

LEMMA TotalIsNatural ==
    ASSUME NEW E, IsFiniteSet(E), NEW st, \A u \in E : LoadPenalty(st, u) \in Nat
    PROVE  TotalLoad(st, E) \in Nat
<1>1. PICK f : Sums(st, E, f)
  BY LoadSums
<1>. DEFINE G == {s \in SUBSET E : f[s] \in Nat}
<1>2. {} \in G
  BY <1>1 DEF Sums
<1>3. ASSUME NEW s \in SUBSET E, s # {}, s \ {Chosen(s)} \in G PROVE s \in G
  <2>1. Chosen(s) \in E
    BY <1>3, FS_Subset, Smaller
  <2>2. LoadPenalty(st, Chosen(s)) \in Nat /\ f[s \ {Chosen(s)}] \in Nat
    BY <1>3, <2>1
  <2>. QED
    BY <1>1, <1>3, <2>2 DEF Sums
<1>4. SUBSET E \subseteq G
  <2>. HIDE DEF G
  <2>. QED
    BY <1>2, <1>3, SetInduction
<1>. QED
  BY <1>1, <1>4 DEF Sums

\* A common factor of the loads is one of their sum.
LEMMA TotalScales ==
    ASSUME NEW E, IsFiniteSet(E), NEW st, NEW more, NEW c \in Nat,
           \A u \in E : /\ LoadPenalty(st, u) \in Nat
                        /\ LoadPenalty(more, u) = c * LoadPenalty(st, u)
    PROVE  TotalLoad(more, E) = c * TotalLoad(st, E)
<1>1. PICK f : Sums(st, E, f)
  BY LoadSums
<1>2. PICK g : Sums(more, E, g)
  BY LoadSums
<1>. DEFINE G == {s \in SUBSET E : f[s] \in Nat /\ g[s] = c * f[s]}
<1>3. {} \in G
  <2>1. f[{}] = 0 /\ g[{}] = 0 /\ c * 0 = 0
    BY <1>1, <1>2 DEF Sums
  <2>. QED
    BY <2>1
<1>4. ASSUME NEW s \in SUBSET E, s # {}, s \ {Chosen(s)} \in G PROVE s \in G
  <2>. DEFINE x == LoadPenalty(st, Chosen(s))
              y == f[s \ {Chosen(s)}]
  <2>1. Chosen(s) \in E
    BY <1>4, FS_Subset, Smaller
  <2>2. /\ x \in Nat /\ LoadPenalty(more, Chosen(s)) = c * x
        /\ y \in Nat /\ g[s \ {Chosen(s)}] = c * y
    BY <1>4, <2>1
  <2>3. f[s] = x + y /\ g[s] = c * x + c * y
    BY <1>1, <1>2, <1>4, <2>2 DEF Sums
  <2>. HIDE DEF x, y
  <2>4. x + y \in Nat /\ c * (x + y) = c * x + c * y
    BY <2>2
  <2>. QED
    BY <2>3, <2>4
<1>5. SUBSET E \subseteq G
  <2>. HIDE DEF G
  <2>. QED
    BY <1>3, <1>4, SetInduction
<1>. QED
  BY <1>1, <1>2, <1>5 DEF Sums

\* Where no load is below the mean, or none above it, each of them is the mean.
LEMMA AllAtTheMean ==
    ASSUME NEW E, IsFiniteSet(E), NEW st, \A u \in E : LoadPenalty(st, u) \in Nat,
           NEW sign \in {1, -1}, \A u \in E : sign * RelativeLoad(st, E, u) >= 0
    PROVE  \A u \in E : RelativeLoad(st, E, u) = 0
<1>. DEFINE n == Cardinality(E)
            T == TotalLoad(st, E)
            L(u) == LoadPenalty(st, u)
<1>1. PICK f : Sums(st, E, f)
  BY LoadSums
<1>2. n \in Nat /\ T \in Nat
  BY FS_CardinalityType, TotalIsNatural
<1>3. \A u \in E : RelativeLoad(st, E, u) = n * L(u) - T /\ L(u) \in Nat
  BY DEF RelativeLoad
<1>. DEFINE Gap(s) == sign * (n * f[s] - Cardinality(s) * T)
            G == {s \in SUBSET E : /\ f[s] \in Nat
                                   /\ Gap(s) >= 0
                                   /\ \A u \in s : sign * (n * L(u) - T) <= Gap(s)}
<1>. HIDE DEF T, n, L
<1>4. {} \in G
  <2>1. f[{}] = 0 /\ Cardinality({}) = 0
    BY <1>1, FS_EmptySet DEF Sums
  <2>2. Gap({}) = 0
    BY <1>2, <2>1
  <2>. QED
    BY <2>1, <2>2
<1>5. ASSUME NEW s \in SUBSET E, s # {}, s \ {Chosen(s)} \in G PROVE s \in G
  <2>. DEFINE v == Chosen(s)
              r == s \ {Chosen(s)}
  <2>1. v \in E /\ v \in s
    BY <1>5, FS_Subset, Smaller
  <2>2. Cardinality(r) \in Nat /\ Cardinality(s) = Cardinality(r) + 1
    <3>1. IsFiniteSet(s)
      BY FS_Subset
    <3>2. /\ Cardinality(s) \in Nat /\ Cardinality(r) \in Nat
          /\ Cardinality(r) = Cardinality(s) - 1
      BY <1>5, <3>1, Smaller
    <3>. HIDE DEF r
    <3>. QED
      BY <3>2
  <2>3. /\ f[r] \in Nat /\ Gap(r) >= 0
        /\ \A u \in r : sign * (n * L(u) - T) <= Gap(r)
    BY <1>5
  <2>4. f[s] = L(v) + f[r]
    BY <1>1, <1>5 DEF Sums, L
  <2>5. L(v) \in Nat /\ sign * (n * L(v) - T) >= 0
    BY <1>3, <2>1
  <2>. HIDE DEF r, v
  <2>6. Gap(s) = sign * (n * L(v) - T) + Gap(r)
    <3>. DEFINE a == L(v)
                b == f[r]
                k == Cardinality(r)
    <3>1. a \in Nat /\ b \in Nat /\ k \in Nat /\ f[s] = a + b /\ Cardinality(s) = k + 1
      BY <2>2, <2>3, <2>4, <2>5
    <3>. HIDE DEF a, b, k
    <3>2. n * (a + b) - (k + 1) * T = (n * a - T) + (n * b - k * T)
      BY <1>2, <3>1
    <3>3. n * a - T \in Int /\ n * b - k * T \in Int
      BY <1>2, <3>1
    <3>4. sign * (n * (a + b) - (k + 1) * T) = sign * (n * a - T) + sign * (n * b - k * T)
      BY <3>2, <3>3
    <3>. QED
      BY <3>1, <3>4 DEF a, b, k
  <2>7. Gap(r) \in Int
    BY <1>2, <2>2, <2>3
  <2>8. f[s] \in Nat
    BY <2>3, <2>4, <2>5
  <2>9. \A u \in s : u = v \/ u \in r
    BY DEF r, v
  <2>10. /\ sign * (n * L(v) - T) \in Int
         /\ \A u \in r : sign * (n * L(u) - T) \in Int
    BY <1>2, <1>3, <2>5 DEF r
  <2>. HIDE DEF Gap
  <2>11. Gap(s) >= 0
    BY <2>3, <2>5, <2>6, <2>7, <2>10
  <2>12. ASSUME NEW u \in s PROVE sign * (n * L(u) - T) <= Gap(s)
    <3>1. CASE u = v
      BY <2>3, <2>6, <2>7, <2>10, <3>1
    <3>2. CASE u \in r
      <4>1. sign * (n * L(u) - T) <= Gap(r) /\ sign * (n * L(u) - T) \in Int
        BY <2>3, <2>10, <3>2
      <4>. QED
        BY <2>5, <2>6, <2>7, <2>10, <4>1
    <3>. QED
      BY <2>9, <3>1, <3>2
  <2>. QED
    BY <2>8, <2>11, <2>12
<1>6. E \in G
  <2>. HIDE DEF G
  <2>. QED
    BY <1>4, <1>5, SetInduction
<1>7. f[E] = T /\ Cardinality(E) = n
  BY <1>1 DEF Sums, T, n
<1>8. Gap(E) = 0
  BY <1>2, <1>7
<1>9. ASSUME NEW u \in E PROVE RelativeLoad(st, E, u) = 0
  <2>1. sign * (n * L(u) - T) <= 0 /\ sign * (n * L(u) - T) >= 0
    BY <1>3, <1>6, <1>8
  <2>2. n * L(u) - T \in Int
    BY <1>2, <1>3
  <2>. QED
    BY <1>3, <2>1, <2>2
<1>. QED
  BY <1>9
-----------------------------------------------------------------------------
(* The states, and the scores in them.                                     *)

TypeInv ==
    /\ beta \in Betas
    /\ stats \in [DOMAIN stats -> [prefill : Nat, decoding : Nat]]

LEMMA InitType == Init => TypeInv
  BY DEF Init, TypeInv

LEMMA StepType == TypeInv /\ [Next]_vars => TypeInv'
<1>. SUFFICES ASSUME TypeInv, [Next]_vars PROVE TypeInv'
  OBVIOUS
<1>. USE DEF TypeInv
<1>1. ASSUME NEW u, stats' = Started(u), UNCHANGED beta PROVE TypeInv'
  BY <1>1 DEF Started
<1>2. ASSUME NEW u \in DOMAIN stats, FirstToken(u) PROVE TypeInv'
  <2>1. stats[u].prefill - 1 \in Nat /\ stats[u].decoding + 1 \in Nat
    BY <1>2 DEF FirstToken
  <2>. DEFINE once == [stats EXCEPT ![u].prefill = @ - 1]
  <2>2. once \in [DOMAIN stats -> [prefill : Nat, decoding : Nat]]
        /\ once[u].decoding = stats[u].decoding
    BY <2>1
  <2>3. stats' = [once EXCEPT ![u].decoding = @ + 1]
    BY <1>2 DEF FirstToken
  <2>. HIDE DEF once
  <2>4. stats' \in [DOMAIN stats -> [prefill : Nat, decoding : Nat]]
    BY <2>1, <2>2, <2>3
  <2>. QED
    BY <1>2, <2>4 DEF FirstToken
<1>3. ASSUME NEW u \in DOMAIN stats, Finish(u) PROVE TypeInv'
  BY <1>3 DEF Finish
<1>4. ASSUME NEW E, NEW m, NEW p, Route(E, m, p) PROVE TypeInv'
  BY <1>1, <1>4 DEF Route
<1>5. CASE UNCHANGED vars
  BY <1>5 DEF vars
<1>. QED
  BY <1>2, <1>3, <1>4, <1>5 DEF Next

LEMMA Typed == Spec => []TypeInv
  BY InitType, StepType, PTL DEF Spec

BetaType == beta.num \in Int /\ beta.den \in Nat

LEMMA StateOf ==
    ASSUME TypeInv
    PROVE  BetaType /\ \A u : Load(u) \in Nat
  BY PlacementAssumption DEF TypeInv, BetaType, Load, LoadPenalty

LEMMA Request ==
    ASSUME NEW E \in EndpointSets
    PROVE  /\ E \subseteq Nat /\ NoUrl \notin E /\ IsFiniteSet(E)
           /\ Cardinality(E) \in Nat /\ Cardinality(E) # 0
<1>1. E \subseteq Url /\ E # {}
  BY DEF EndpointSets
<1>2. IsFiniteSet(E)
  BY <1>1, PlacementAssumption, FS_Subset
<1>. QED
  BY <1>1, <1>2, PlacementAssumption, FS_CardinalityType, FS_EmptySet

\* What an endpoint gains over the others, in whole numbers.
Value(E, st, m, p, u) ==
    AtMost(m[u], p) * beta.den * LoadScale(st, E)
        - (beta.num * RelativeLoad(st, E, u)) * AtLeast(p, 1)

LEMMA Numbers ==
    ASSUME BetaType, NEW E, NEW st, NEW m, NEW p, Asked(E, st, m, p)
    PROVE  /\ LoadScale(st, E) \in Nat /\ LoadScale(st, E) > 0 /\ AtLeast(p, 1) \in Nat
           /\ TotalLoad(st, E) \in Nat
           /\ \A u \in E : /\ RelativeLoad(st, E, u) \in Int
                           /\ beta.num * RelativeLoad(st, E, u) \in Int
                           /\ AtMost(m[u], p) \in Nat
                           /\ Value(E, st, m, p, u) \in Int
<1>1. E \in EndpointSets /\ m \in [E -> Nat] /\ p \in Nat
      /\ \A u \in E : LoadPenalty(st, u) \in Nat
  BY DEF Asked
<1>2. IsFiniteSet(E) /\ Cardinality(E) \in Nat /\ Cardinality(E) > 0
  BY <1>1, Request
<1>3. TotalLoad(st, E) \in Nat
  BY <1>1, <1>2, TotalIsNatural
<1>4. LoadScale(st, E) \in Nat /\ LoadScale(st, E) > 0 /\ AtLeast(p, 1) \in Nat
  BY <1>1, <1>2, <1>3 DEF LoadScale, AtLeast
<1>5. ASSUME NEW u \in E
      PROVE  /\ RelativeLoad(st, E, u) \in Int
             /\ AtMost(m[u], p) \in Nat
  BY <1>1, <1>2, <1>3 DEF RelativeLoad, AtMost
<1>6. ASSUME NEW u \in E
      PROVE  /\ beta.num * RelativeLoad(st, E, u) \in Int
             /\ Value(E, st, m, p, u) \in Int
  <2>1. beta.num * RelativeLoad(st, E, u) \in Int
    BY <1>5 DEF BetaType
  <2>2. AtMost(m[u], p) * beta.den * LoadScale(st, E) \in Int
    BY <1>4, <1>5 DEF BetaType
  <2>3. (beta.num * RelativeLoad(st, E, u)) * AtLeast(p, 1) \in Int
    BY <1>4, <2>1
  <2>. QED
    BY <2>1, <2>2, <2>3 DEF Value
<1>. QED
  BY <1>3, <1>4, <1>5, <1>6

LEMMA ScoreIs ==
    ASSUME BetaType, NEW E, NEW st, NEW m, NEW p, Asked(E, st, m, p), NEW u \in E
    PROVE  /\ beta.den # 0 => ScoreOf(E, st, m, p, u) = <<0, Value(E, st, m, p, u)>>
           /\ beta.den = 0 =>
                  /\ beta.num * RelativeLoad(st, E, u) = 0 => ScoreOf(E, st, m, p, u) = NaN
                  /\ beta.num * RelativeLoad(st, E, u) > 0 =>
                         ScoreOf(E, st, m, p, u) = MinusInfinity
                  /\ beta.num * RelativeLoad(st, E, u) < 0 =>
                         ScoreOf(E, st, m, p, u) = <<1, 0>>
           /\ ScoreOf(E, st, m, p, u) \in Score
<1>1. u \in DOMAIN m
  BY DEF Asked
<1>2. beta.num * RelativeLoad(st, E, u) \in Int /\ Value(E, st, m, p, u) \in Int
  BY Numbers
<1>. DEFINE penalty == beta.num * RelativeLoad(st, E, u)
<1>3. CASE beta.den # 0
  <2>1. ScoreOf(E, st, m, p, u) = <<0, Value(E, st, m, p, u)>>
    BY <1>1, <1>3 DEF ScoreOf, ScoreEndpoint, Benefit, Value
  <2>. QED
    BY <1>2, <1>3, <2>1 DEF Score
<1>4. CASE beta.den = 0
  <2>1. ScoreOf(E, st, m, p, u) =
            IF penalty = 0 THEN NaN ELSE <<IF penalty > 0 THEN -1 ELSE 1, 0>>
    BY <1>4 DEF ScoreOf, ScoreEndpoint
  <2>. HIDE DEF penalty
  <2>2. penalty \in Int
    BY <1>2 DEF penalty
  <2>3. penalty = 0 => ScoreOf(E, st, m, p, u) = NaN
    BY <2>1
  <2>4. penalty > 0 => ScoreOf(E, st, m, p, u) = MinusInfinity
    BY <2>1, <2>2 DEF MinusInfinity
  <2>5. penalty < 0 => ScoreOf(E, st, m, p, u) = <<1, 0>>
    BY <2>1, <2>2
  <2>6. ScoreOf(E, st, m, p, u) \in Score
    BY <2>2, <2>3, <2>4, <2>5 DEF Score, MinusInfinity
  <2>. QED
    BY <1>4, <2>3, <2>4, <2>5, <2>6 DEF penalty
<1>. QED
  BY <1>3, <1>4

LEMMA PairOrder ==
    /\ \A x, y \in Int : Exceeds(<<0, x>>, <<0, y>>) <=> x > y
    /\ \A x \in Int : Exceeds(<<0, x>>, MinusInfinity)
    /\ Exceeds(<<1, 0>>, MinusInfinity)
    /\ ~Exceeds(MinusInfinity, MinusInfinity) /\ ~Exceeds(NaN, MinusInfinity)
  BY DEF Exceeds, MinusInfinity, NaN

\* What select_url returns, from what it is asked.
LEMMA Selection ==
    ASSUME BetaType, NEW E, NEW st, NEW m, NEW p, Asked(E, st, m, p)
    PROVE  Selected([u \in E |-> ScoreOf(E, st, m, p, u)], E, SelectUrl(beta, E, st, m, p))
<1>1. E \subseteq Nat /\ IsFiniteSet(E)
  BY Request DEF Asked
<1>2. \A u \in E : ScoreOf(E, st, m, p, u) \in Score
  BY ScoreIs
<1>. QED
  BY <1>1, <1>2, SelectUrlSelects

\* Of finite scores, it is the greatest.
LEMMA FiniteSelection ==
    ASSUME BetaType, beta.den # 0, NEW E, NEW st, NEW m, NEW p, Asked(E, st, m, p),
           NEW u, u = SelectUrl(beta, E, st, m, p)
    PROVE  /\ u \in E
           /\ \A v \in E : /\ Value(E, st, m, p, v) <= Value(E, st, m, p, u)
                           /\ Value(E, st, m, p, v) = Value(E, st, m, p, u) => u <= v
<1>. DEFINE score == [v \in E |-> ScoreOf(E, st, m, p, v)]
<1>1. Selected(score, E, u)
  BY Selection
<1>2. \A v \in E : Value(E, st, m, p, v) \in Int /\ score[v] = <<0, Value(E, st, m, p, v)>>
  BY ScoreIs, Numbers
<1>3. E # {}
  BY DEF Asked, EndpointSets
<1>. HIDE DEF score
<1>4. \A v \in E : Exceeds(score[v], MinusInfinity)
  BY <1>2, PairOrder
<1>5. u \in E /\ \A v \in E : ~Exceeds(score[v], score[u]) /\ (score[v] = score[u] => u <= v)
  BY <1>1, <1>3, <1>4 DEF Selected
<1>6. ASSUME NEW v \in E
      PROVE  /\ Value(E, st, m, p, v) <= Value(E, st, m, p, u)
             /\ Value(E, st, m, p, v) = Value(E, st, m, p, u) => u <= v
  <2>1. ~(Value(E, st, m, p, v) > Value(E, st, m, p, u))
    BY <1>2, <1>5, PairOrder
  <2>2. Value(E, st, m, p, v) \in Int /\ Value(E, st, m, p, u) \in Int
    BY <1>2, <1>5
  <2>3. Value(E, st, m, p, v) = Value(E, st, m, p, u) => score[v] = score[u]
    BY <1>2, <1>5
  <2>. QED
    BY <1>5, <2>1, <2>2, <2>3
<1>. QED
  BY <1>5, <1>6

LEMMA AskedNow ==
    ASSUME TypeInv, NEW E \in EndpointSets, NEW p \in Prompts, NEW m \in [E -> Matches]
    PROVE  Asked(E, stats, m, p)
  BY StateOf, PlacementAssumption DEF Asked, Load
-----------------------------------------------------------------------------
(* The properties.                                                         *)

\* The documented comparison of two scores is that of their whole numbers.
LEMMA DocumentedOrder ==
    ASSUME TypeInv, NEW E, NEW m, NEW p, Asked(E, stats, m, p), NEW u \in E, NEW v \in E
    PROVE  NotBehind(u, v, E, m, p) <=> Value(E, stats, m, p, u) >= Value(E, stats, m, p, v)
<1>. DEFINE a == AtMost(m[u], p)
            b == AtMost(m[v], p)
            n == Cardinality(E)
            T == TotalLoad(stats, E)
            k == Load(u)
            l == Load(v)
            s == LoadScale(stats, E)
            q == AtLeast(p, 1)
<1>1. BetaType /\ k \in Nat /\ l \in Nat
  BY StateOf
<1>2. /\ a \in Nat /\ b \in Nat /\ T \in Nat /\ s \in Nat /\ q \in Nat
  BY <1>1, Numbers
<1>3. n \in Nat
  BY Request DEF Asked
<1>4. Value(E, stats, m, p, u) = a * beta.den * s - (beta.num * (n * k - T)) * q
  BY DEF Value, RelativeLoad, Load
<1>5. Value(E, stats, m, p, v) = b * beta.den * s - (beta.num * (n * l - T)) * q
  BY DEF Value, RelativeLoad, Load
<1>6. NotBehind(u, v, E, m, p) <=> (a - b) * beta.den * s >= beta.num * n * (k - l) * q
  BY DEF NotBehind, LoadScale
<1>. DEFINE d == beta.den
            z == beta.num
<1>7. d \in Int /\ z \in Int
  BY <1>1 DEF BetaType
<1>. HIDE DEF a, b, n, T, k, l, s, q, d, z
<1>8. (a - b) * d * s >= z * n * (k - l) * q
      <=> a * d * s - (z * (n * k - T)) * q >= b * d * s - (z * (n * l - T)) * q
  BY <1>1, <1>2, <1>3, <1>7
<1>. QED
  BY <1>4, <1>5, <1>6, <1>8 DEF d, z

\* For every fleet, finite beta and prompt, the engine of select_url is the one
\* that the class comment describes.
THEOREM LeastBest == Spec => []ChoiceIsLeastBest
<1>1. ASSUME TypeInv PROVE ChoiceIsLeastBest
  <2>. SUFFICES ASSUME beta.den # 0, NEW E \in EndpointSets, NEW p \in Prompts,
                       NEW m \in [E -> Matches],
                       NEW u, u = SelectUrl(beta, E, stats, m, p)
                PROVE  /\ u \in E
                       /\ \A v \in E : /\ NotBehind(u, v, E, m, p)
                                       /\ NotBehind(v, u, E, m, p) => u <= v
    BY DEF ChoiceIsLeastBest
  <2>1. Asked(E, stats, m, p) /\ BetaType
    BY <1>1, AskedNow, StateOf
  <2>2. /\ u \in E
        /\ \A v \in E : /\ Value(E, stats, m, p, v) <= Value(E, stats, m, p, u)
                        /\ Value(E, stats, m, p, v) = Value(E, stats, m, p, u) => u <= v
    BY <2>1, FiniteSelection
  <2>3. ASSUME NEW v \in E
        PROVE  /\ NotBehind(u, v, E, m, p)
               /\ NotBehind(v, u, E, m, p) => u <= v
    <3>1. Value(E, stats, m, p, v) \in Int /\ Value(E, stats, m, p, u) \in Int
      BY <2>1, <2>2, Numbers
    <3>2. NotBehind(u, v, E, m, p)
          <=> Value(E, stats, m, p, u) >= Value(E, stats, m, p, v)
      BY <1>1, <2>1, <2>2, DocumentedOrder
    <3>3. NotBehind(v, u, E, m, p)
          <=> Value(E, stats, m, p, v) >= Value(E, stats, m, p, u)
      BY <1>1, <2>1, <2>2, DocumentedOrder
    <3>. QED
      BY <2>2, <3>1, <3>2, <3>3
  <2>. QED
    BY <2>2, <2>3
<1>. QED
  BY <1>1, Typed, PTL

\* A factor that is positive cancels.
LEMMA Cancels ==
    ASSUME NEW x \in Int, NEW y \in Int, NEW q \in Nat, q > 0, x * q <= y * q
    PROVE  x <= y
  OBVIOUS

\* For every fleet, positive beta and prompt: no cache hit outweighs an overload.
THEOREM Bounded == Spec => []OverloadIsBounded
<1>1. ASSUME TypeInv PROVE OverloadIsBounded
  <2>. SUFFICES ASSUME beta.num > 0, NEW E \in EndpointSets, NEW p \in Prompts,
                       NEW m \in [E -> Matches],
                       NEW u, u = SelectUrl(beta, E, stats, m, p)
                PROVE  IF beta.den = 0
                       THEN u # NoUrl => Cardinality(E) * Load(u) < TotalLoad(stats, E)
                       ELSE \A v \in E :
                                beta.num * Cardinality(E) * (Load(u) - Load(v))
                                    <= beta.den * AtLeast(Cardinality(E), TotalLoad(stats, E))
    BY DEF OverloadIsBounded
  <2>1. Asked(E, stats, m, p) /\ BetaType /\ p \in Nat
    BY <1>1, AskedNow, StateOf DEF Asked
  <2>2. ASSUME beta.den = 0, u # NoUrl
        PROVE  Cardinality(E) * Load(u) < TotalLoad(stats, E)
    <3>. DEFINE r == RelativeLoad(stats, E, u)
                score == [v \in E |-> ScoreOf(E, stats, m, p, v)]
    <3>1. Selected(score, E, u)
      BY <2>1, Selection
    <3>2. u \in E /\ Exceeds(score[u], MinusInfinity)
      <4>. HIDE DEF score
      <4>. QED
        BY <2>2, <3>1 DEF Selected
    <3>3. Exceeds(ScoreOf(E, stats, m, p, u), MinusInfinity)
      BY <3>2
    <3>4. r \in Int /\ beta.num * r \in Int
      BY <2>1, <3>2, Numbers
    <3>5. ~(beta.num * r = 0) /\ ~(beta.num * r > 0)
      BY <2>1, <2>2, <3>2, <3>3, ScoreIs, PairOrder
    <3>. HIDE DEF r
    <3>6. r < 0
      BY <2>1, <3>4, <3>5 DEF BetaType
    <3>7. Cardinality(E) * Load(u) \in Nat /\ TotalLoad(stats, E) \in Nat
      <4>1. Cardinality(E) \in Nat /\ Load(u) \in Nat /\ TotalLoad(stats, E) \in Nat
        BY <1>1, <2>1, StateOf, Request, Numbers
      <4>. QED
        BY <4>1
    <3>. QED
      BY <3>6, <3>7 DEF r, RelativeLoad, Load
  <2>3. ASSUME beta.den # 0, NEW v \in E
        PROVE  beta.num * Cardinality(E) * (Load(u) - Load(v))
                   <= beta.den * AtLeast(Cardinality(E), TotalLoad(stats, E))
    <3>. DEFINE a == AtMost(m[u], p)
                b == AtMost(m[v], p)
                n == Cardinality(E)
                k == Load(u)
                l == Load(v)
                s == LoadScale(stats, E)
                q == AtLeast(p, 1)
                d == beta.den
                z == beta.num
    <3>1. u \in E /\ Value(E, stats, m, p, v) <= Value(E, stats, m, p, u)
      BY <2>1, <2>3, FiniteSelection
    <3>2. Value(E, stats, m, p, v) \in Int /\ Value(E, stats, m, p, u) \in Int
      BY <2>1, <3>1, Numbers
    <3>3. (a - b) * d * s >= z * n * (k - l) * q
      <4>1. NotBehind(u, v, E, m, p)
        BY <1>1, <2>1, <3>1, <3>2, DocumentedOrder
      <4>. QED
        BY <4>1 DEF NotBehind, LoadScale
    <3>4. /\ k \in Nat /\ l \in Nat /\ n \in Nat /\ d \in Nat /\ z \in Int
          /\ a \in Nat /\ b \in Nat /\ s \in Nat /\ q \in Nat
      BY <1>1, <2>1, <3>1, StateOf, Request, Numbers DEF BetaType
    <3>5. a <= p /\ p <= q /\ q > 0
      <4>1. m[u] \in Nat
        BY <2>1, <3>1 DEF Asked
      <4>. QED
        BY <2>1, <4>1 DEF AtMost, AtLeast
    <3>. HIDE DEF a, b, n, k, l, s, q, d, z
    <3>6. a - b <= q
      BY <2>1, <3>4, <3>5
    <3>7. d * s \in Nat /\ (a - b) * (d * s) <= q * (d * s)
      <4>1. d * s \in Nat
        BY <3>4
      <4>. DEFINE w == d * s
      <4>2. w \in Nat
        BY <4>1
      <4>. HIDE DEF w
      <4>3. (a - b) * w <= q * w
        BY <3>4, <3>6, <4>2
      <4>. QED
        BY <4>1, <4>3 DEF w
    <3>8. (a - b) * d * s = (a - b) * (d * s) /\ q * (d * s) = (d * s) * q
      BY <3>4
    <3>9. (z * n * (k - l)) * q <= (d * s) * q
      BY <3>3, <3>4, <3>7, <3>8
    <3>10. z * n * (k - l) \in Int /\ d * s \in Int
      BY <3>4
    <3>11. z * n * (k - l) <= d * s
      BY <3>4, <3>5, <3>9, <3>10, Cancels
    <3>. QED
      BY <3>11 DEF n, k, l, d, s, z, LoadScale
  <2>. QED
    BY <2>2, <2>3
<1>. QED
  BY <1>1, Typed, PTL

\* For every fleet, beta and prompt: select_url returns None only where no score
\* is above minus infinity.
THEOREM NoneHasCause == Spec => []FallbackHasCause
<1>1. ASSUME TypeInv PROVE FallbackHasCause
  <2>. SUFFICES ASSUME NEW E \in EndpointSets, NEW p \in Prompts, NEW m \in [E -> Matches],
                       SelectUrl(beta, E, stats, m, p) = NoUrl
                PROVE  /\ beta.den = 0
                       /\ beta.num = 0 \/ \A u, v \in E : Load(u) = Load(v)
    BY DEF FallbackHasCause
  <2>1. Asked(E, stats, m, p) /\ BetaType
    BY <1>1, AskedNow, StateOf
  <2>2. NoUrl \notin E /\ IsFiniteSet(E) /\ Cardinality(E) \in Nat /\ Cardinality(E) # 0
    BY Request
  <2>3. beta.den = 0
    BY <2>1, <2>2, FiniteSelection
  <2>4. \A u \in E : ~Exceeds(ScoreOf(E, stats, m, p, u), MinusInfinity)
    <3>1. Selected([v \in E |-> ScoreOf(E, stats, m, p, v)], E, NoUrl)
      BY <2>1, Selection
    <3>. QED
      BY <2>2, <3>1 DEF Selected
  <2>5. ASSUME NEW u \in E
        PROVE  beta.num * RelativeLoad(stats, E, u) >= 0 /\ RelativeLoad(stats, E, u) \in Int
    <3>1. beta.num * RelativeLoad(stats, E, u) \in Int /\ RelativeLoad(stats, E, u) \in Int
      BY <2>1, Numbers
    <3>2. ~(beta.num * RelativeLoad(stats, E, u) < 0)
      BY <2>1, <2>3, <2>4, ScoreIs, PairOrder
    <3>. QED
      BY <3>1, <3>2
  <2>6. ASSUME beta.num # 0, NEW u \in E, NEW v \in E
        PROVE  Load(u) = Load(v)
    <3>1. PICK sign \in {1, -1} : \A w \in E : sign * RelativeLoad(stats, E, w) >= 0
      <4>1. CASE beta.num > 0
        <5>1. ASSUME NEW w \in E PROVE 1 * RelativeLoad(stats, E, w) >= 0
          <6>. DEFINE r == RelativeLoad(stats, E, w)
          <6>1. beta.num * r >= 0 /\ r \in Int /\ beta.num \in Int
            BY <2>1, <2>5 DEF BetaType
          <6>. HIDE DEF r
          <6>2. r >= 0
            BY <4>1, <6>1
          <6>. QED
            BY <6>1, <6>2 DEF r
        <5>. QED
          BY <5>1
      <4>2. CASE beta.num < 0
        <5>1. ASSUME NEW w \in E PROVE (-1) * RelativeLoad(stats, E, w) >= 0
          <6>. DEFINE r == RelativeLoad(stats, E, w)
          <6>1. beta.num * r >= 0 /\ r \in Int /\ beta.num \in Int
            BY <2>1, <2>5 DEF BetaType
          <6>. HIDE DEF r
          <6>2. r <= 0
            BY <4>2, <6>1
          <6>. QED
            BY <6>1, <6>2 DEF r
        <5>. QED
          BY <5>1
      <4>. QED
        BY <2>1, <2>6, <4>1, <4>2 DEF BetaType
    <3>2. \A w \in E : LoadPenalty(stats, w) \in Nat
      BY <2>1 DEF Asked
    <3>3. RelativeLoad(stats, E, u) = 0 /\ RelativeLoad(stats, E, v) = 0
      BY <2>2, <3>1, <3>2, AllAtTheMean
    <3>. DEFINE n == Cardinality(E)
                T == TotalLoad(stats, E)
                k == Load(u)
                l == Load(v)
    <3>4. n * k - T = 0 /\ n * l - T = 0
      BY <3>3 DEF RelativeLoad, Load
    <3>5. n \in Nat /\ n # 0 /\ k \in Nat /\ l \in Nat /\ T \in Nat
      BY <1>1, <2>1, <2>2, StateOf, Numbers
    <3>. HIDE DEF n, T, k, l
    <3>6. k = l
      BY <3>4, <3>5
    <3>. QED
      BY <3>6 DEF k, l
  <2>. QED
    BY <2>3, <2>6
<1>. QED
  BY <1>1, Typed, PTL

\* Where the loads, or what the finite scores are made of, grow by common factors,
\* the same engine is chosen.
LEMMA SameChoice ==
    ASSUME BetaType, NEW E, NEW st, NEW m, NEW p, Asked(E, st, m, p),
           NEW st2, NEW m2, NEW p2, Asked(E, st2, m2, p2),
           NEW c \in Nat \ {0}, NEW e \in Nat \ {0},
           \A u \in E : RelativeLoad(st2, E, u) = e * RelativeLoad(st, E, u),
           \A u \in E : Value(E, st2, m2, p2, u) = c * Value(E, st, m, p, u)
    PROVE  SelectUrl(beta, E, st2, m2, p2) = SelectUrl(beta, E, st, m, p)
<1>. DEFINE score == [u \in E |-> ScoreOf(E, st, m, p, u)]
            scaled == [u \in E |-> ScoreOf(E, st2, m2, p2, u)]
            u1 == SelectUrl(beta, E, st, m, p)
            u2 == SelectUrl(beta, E, st2, m2, p2)
<1>1. Selected(score, E, u1) /\ Selected(scaled, E, u2)
  BY Selection
<1>2. E \subseteq Nat
  BY Request DEF Asked
<1>3. \A u \in E : score[u] \in Score /\ scaled[u] \in Score
  BY ScoreIs
<1>4. CASE beta.den # 0
  <2>1. \A u \in E : /\ Value(E, st, m, p, u) \in Int
                     /\ score[u] = <<0, Value(E, st, m, p, u)>>
                     /\ scaled[u] = <<0, c * Value(E, st, m, p, u)>>
    BY <1>4, ScoreIs, Numbers
  <2>. HIDE DEF score, scaled, u1, u2
  <2>2. \A u \in E : Exceeds(score[u], MinusInfinity) /\ Exceeds(scaled[u], MinusInfinity)
    <3>1. \A u \in E : c * Value(E, st, m, p, u) \in Int
      BY <2>1
    <3>. QED
      BY <2>1, <3>1, PairOrder
  <2>3. ASSUME NEW u \in E, NEW v \in E
        PROVE  Exceeds(scaled[u], scaled[v]) <=> Exceeds(score[u], score[v])
    <3>. DEFINE x == Value(E, st, m, p, u)
                y == Value(E, st, m, p, v)
    <3>1. /\ x \in Int /\ score[u] = <<0, x>> /\ scaled[u] = <<0, c * x>>
          /\ y \in Int /\ score[v] = <<0, y>> /\ scaled[v] = <<0, c * y>>
      BY <2>1
    <3>. HIDE DEF x, y
    <3>2. c * x \in Int /\ c * y \in Int /\ (c * x > c * y <=> x > y)
      BY <3>1
    <3>. QED
      BY <3>1, <3>2, PairOrder
  <2>4. u1 = u2
    BY <1>1, <1>2, <1>3, <2>2, <2>3, OnlyOneSelected
  <2>. QED
    BY <2>4 DEF u1, u2
<1>5. CASE beta.den = 0
  <2>1. ASSUME NEW u \in E PROVE ScoreOf(E, st, m, p, u) = ScoreOf(E, st2, m2, p2, u)
    <3>. DEFINE r == RelativeLoad(st, E, u)
                z == beta.num
    <3>1. r \in Int /\ z \in Int /\ z * r \in Int /\ RelativeLoad(st2, E, u) = e * r
      BY Numbers DEF BetaType
    <3>2. /\ z * r = 0 => ScoreOf(E, st, m, p, u) = NaN
          /\ z * r > 0 => ScoreOf(E, st, m, p, u) = MinusInfinity
          /\ z * r < 0 => ScoreOf(E, st, m, p, u) = <<1, 0>>
      BY <1>5, ScoreIs
    <3>3. /\ z * (e * r) = 0 => ScoreOf(E, st2, m2, p2, u) = NaN
          /\ z * (e * r) > 0 => ScoreOf(E, st2, m2, p2, u) = MinusInfinity
          /\ z * (e * r) < 0 => ScoreOf(E, st2, m2, p2, u) = <<1, 0>>
      BY <1>5, <3>1, ScoreIs
    <3>. HIDE DEF r, z
    <3>4. z * (e * r) = e * (z * r)
      BY <3>1
    <3>. DEFINE w == z * r
    <3>5. w \in Int
      BY <3>1
    <3>. HIDE DEF w
    <3>6. /\ w = 0 => e * w = 0
          /\ w > 0 => e * w > 0
          /\ w < 0 => e * w < 0
          /\ w = 0 \/ w > 0 \/ w < 0
      BY <3>5
    <3>. QED
      BY <3>2, <3>3, <3>4, <3>6 DEF w
  <2>2. score = scaled
    BY <2>1
  <2>. HIDE DEF score, scaled, u1, u2
  <2>3. u1 = u2
    BY <1>1, <1>2, <1>3, <2>2, OnlyOneSelected
  <2>. QED
    BY <2>3 DEF u1, u2
<1>. QED
  BY <1>4, <1>5

\* A prompt that grows with its matches.
LEMMA PromptScales ==
    ASSUME TypeInv, NEW E, NEW m, NEW p, Asked(E, stats, m, p), p # 0, NEW c \in Nat \ {0}
    PROVE  SelectUrl(beta, E, stats, [x \in E |-> c * m[x]], c * p)
               = SelectUrl(beta, E, stats, m, p)
<1>. DEFINE m2 == [x \in E |-> c * m[x]]
            p2 == c * p
<1>1. BetaType /\ m \in [E -> Nat] /\ p \in Nat
  BY StateOf DEF Asked
<1>2. m2 \in [E -> Nat] /\ p2 \in Nat /\ \A u \in E : m[u] \in Nat /\ m2[u] = c * m[u]
  BY <1>1
<1>. HIDE DEF m2
<1>3. Asked(E, stats, m2, p2)
  BY <1>2 DEF Asked
<1>4. AtLeast(p2, 1) = c * AtLeast(p, 1)
  BY <1>1 DEF AtLeast
<1>5. ASSUME NEW u \in E PROVE AtMost(m2[u], p2) = c * AtMost(m[u], p)
  <2>. DEFINE k == m[u]
  <2>1. k \in Nat /\ m2[u] = c * k
    BY <1>2
  <2>. HIDE DEF k
  <2>2. c * k < c * p <=> k < p
    BY <1>1, <2>1
  <2>3. AtMost(c * k, c * p) = c * AtMost(k, p)
    BY <2>2 DEF AtMost
  <2>. QED
    BY <2>1, <2>3 DEF k
<1>6. ASSUME NEW u \in E
      PROVE  Value(E, stats, m2, p2, u) = c * Value(E, stats, m, p, u)
  <2>. DEFINE a == AtMost(m[u], p)
              d == beta.den
              s == LoadScale(stats, E)
              w == beta.num * RelativeLoad(stats, E, u)
              q == AtLeast(p, 1)
  <2>1. a \in Nat /\ d \in Nat /\ s \in Nat /\ w \in Int /\ q \in Nat
    BY <1>1, Numbers DEF BetaType
  <2>2. Value(E, stats, m, p, u) = a * d * s - w * q
    BY DEF Value
  <2>3. Value(E, stats, m2, p2, u) = (c * a) * d * s - w * (c * q)
    <3>. HIDE DEF p2
    <3>. QED
      BY <1>4, <1>5 DEF Value
  <2>. HIDE DEF a, d, s, w, q
  <2>4. (c * a) * d * s - w * (c * q) = c * (a * d * s - w * q)
    BY <2>1
  <2>. QED
    BY <2>2, <2>3, <2>4
<1>7. \A u \in E : RelativeLoad(stats, E, u) = 1 * RelativeLoad(stats, E, u)
  BY <1>1, Numbers
<1>8. SelectUrl(beta, E, stats, m2, p2) = SelectUrl(beta, E, stats, m, p)
  <2>. HIDE DEF p2
  <2>. QED
    BY <1>1, <1>3, <1>6, <1>7, SameChoice
<1>. QED
  BY <1>8 DEF m2

LEMMA StretchedLoad ==
    ASSUME TypeInv, NEW c \in Nat
    PROVE  \A u : LoadPenalty(Stretched(c), u) = c * LoadPenalty(stats, u)
<1>. SUFFICES ASSUME NEW u
              PROVE  LoadPenalty(Stretched(c), u) = c * LoadPenalty(stats, u)
  OBVIOUS
<1>1. CASE u \in DOMAIN stats
  <2>. DEFINE a == stats[u].prefill
              b == stats[u].decoding
  <2>1. a \in Nat /\ b \in Nat
    BY <1>1 DEF TypeInv
  <2>2. LoadPenalty(stats, u) = a + b /\ LoadPenalty(Stretched(c), u) = c * a + c * b
    BY <1>1 DEF LoadPenalty, Stretched
  <2>. HIDE DEF a, b
  <2>3. c * a + c * b = c * (a + b)
    BY <2>1
  <2>. QED
    BY <2>2, <2>3
<1>2. CASE u \notin DOMAIN stats
  BY <1>2 DEF LoadPenalty, Stretched
<1>. QED
  BY <1>1, <1>2

\* Loads that all grow, from a mean of 1 or more.
LEMMA LoadsScale ==
    ASSUME TypeInv, NEW E, NEW m, NEW p, Asked(E, stats, m, p), NEW c \in Nat \ {0},
           TotalLoad(stats, E) >= Cardinality(E)
    PROVE  SelectUrl(beta, E, Stretched(c), m, p) = SelectUrl(beta, E, stats, m, p)
<1>. DEFINE st2 == Stretched(c)
            n == Cardinality(E)
            T == TotalLoad(stats, E)
<1>1. BetaType /\ IsFiniteSet(E) /\ n \in Nat /\ n > 0 /\ T \in Nat /\ T >= n
  <2>1. BetaType /\ E \in EndpointSets
    BY StateOf DEF Asked
  <2>2. IsFiniteSet(E) /\ n \in Nat /\ n # 0 /\ T \in Nat
    BY <2>1, Request, Numbers
  <2>. QED
    BY <2>1, <2>2
<1>2. \A u \in E : /\ LoadPenalty(stats, u) \in Nat
                   /\ LoadPenalty(st2, u) = c * LoadPenalty(stats, u)
                   /\ LoadPenalty(st2, u) \in Nat
  <2>1. \A u \in E : /\ LoadPenalty(stats, u) \in Nat
                     /\ LoadPenalty(st2, u) = c * LoadPenalty(stats, u)
    BY StretchedLoad DEF Asked
  <2>. HIDE DEF st2
  <2>. QED
    BY <2>1
<1>. HIDE DEF st2
<1>3. Asked(E, st2, m, p)
  BY <1>2 DEF Asked
<1>4. TotalLoad(st2, E) = c * T
  BY <1>1, <1>2, TotalScales
<1>. HIDE DEF T, n
<1>5. c * T \in Nat /\ c * T >= T /\ c * T >= n
  <2>1. c >= 1 /\ c \in Nat
    OBVIOUS
  <2>2. c * T >= 1 * T
    BY <1>1, <2>1
  <2>. QED
    BY <1>1, <2>1, <2>2
<1>6. LoadScale(stats, E) = T /\ LoadScale(st2, E) = c * T
  BY <1>1, <1>4, <1>5 DEF LoadScale, AtLeast, n, T
<1>7. ASSUME NEW u \in E
      PROVE  RelativeLoad(st2, E, u) = c * RelativeLoad(stats, E, u)
  <2>. DEFINE k == LoadPenalty(stats, u)
  <2>1. k \in Nat /\ LoadPenalty(st2, u) = c * k
    BY <1>2
  <2>2. /\ RelativeLoad(stats, E, u) = n * k - T
        /\ RelativeLoad(st2, E, u) = n * (c * k) - c * T
    BY <1>4, <2>1 DEF RelativeLoad, n, T
  <2>. HIDE DEF k
  <2>3. n * (c * k) - c * T = c * (n * k - T)
    BY <1>1, <2>1
  <2>. QED
    BY <2>2, <2>3
<1>8. ASSUME NEW u \in E
      PROVE  Value(E, st2, m, p, u) = c * Value(E, stats, m, p, u)
  <2>. DEFINE a == AtMost(m[u], p)
              d == beta.den
              z == beta.num
              r == RelativeLoad(stats, E, u)
              q == AtLeast(p, 1)
  <2>1. a \in Nat /\ d \in Nat /\ z \in Int /\ r \in Int /\ q \in Nat
    BY <1>1, Numbers DEF BetaType
  <2>2. Value(E, stats, m, p, u) = a * d * T - (z * r) * q
    BY <1>6 DEF Value
  <2>3. Value(E, st2, m, p, u) = a * d * (c * T) - (z * (c * r)) * q
    BY <1>6, <1>7 DEF Value
  <2>. HIDE DEF a, d, z, r, q
  <2>4. a * d * (c * T) - (z * (c * r)) * q = c * (a * d * T - (z * r) * q)
    BY <1>1, <2>1
  <2>. QED
    BY <2>2, <2>3, <2>4
<1>9. SelectUrl(beta, E, st2, m, p) = SelectUrl(beta, E, stats, m, p)
  BY <1>1, <1>3, <1>7, <1>8, SameChoice
<1>. QED
  BY <1>9 DEF st2

\* For every fleet, beta and prompt: the choice depends on shares and not on
\* sizes, so that one beta is one policy on every deployment.
THEOREM Scales == Spec => []ScaleFree
<1>1. ASSUME TypeInv PROVE ScaleFree
  <2>. SUFFICES ASSUME NEW E \in EndpointSets, NEW p \in Prompts \ {0}, NEW c \in Factors,
                       NEW m \in [E -> Matches],
                       NEW u, u = SelectUrl(beta, E, stats, m, p)
                PROVE  /\ u = SelectUrl(beta, E, stats, [x \in E |-> c * m[x]], c * p)
                       /\ TotalLoad(stats, E) >= Cardinality(E) =>
                              u = SelectUrl(beta, E, Stretched(c), m, p)
    BY DEF ScaleFree
  <2>1. Asked(E, stats, m, p) /\ c \in Nat \ {0} /\ p # 0
    BY <1>1, AskedNow, PlacementAssumption
  <2>. QED
    BY <1>1, <2>1, PromptScales, LoadsScale
<1>. QED
  BY <1>1, Typed, PTL
=============================================================================
