------------------------- MODULE KVControllerProofs -------------------------
(***************************************************************************)
(* Theorems about the controller's table, for any keys, instances,         *)
(* metadata and prompts: the dict stays well formed and implements         *)
(* Holdings, a lookup reports the longest prefixes, and one between whose  *)
(* steps the table changes loses and invents nothing.                      *)
(***************************************************************************)
EXTENDS ConcurrentLookup, SequenceTheorems, WellFoundedInduction, TLAPS

(* What the list comprehension of Lists.tla returns, for every list.  It   *)
(* is a recursive function, so its equation has to be justified first: the *)
(* library's theorems on recursive functions take operators as parameters, *)
(* and the induction here runs over sets instead.                          *)

\* A set of naturals that holds 0 and the successors of its members holds all.
LEMMA Induction ==
    ASSUME NEW S, 0 \in S, \A n \in Nat : n \in S => n + 1 \in S
    PROVE  Nat \subseteq S
<1>. DEFINE R == OpToRel(<, Nat)
            T == Nat \ S
<1>1. SUFFICES ASSUME T # {} PROVE FALSE
  OBVIOUS
<1>2. IsWellFoundedOn(R, Nat)
  BY NatLessThanWellFounded
<1>3. PICK x \in T : \A y \in T : ~ (<<y, x>> \in R)
  <2>1. T \subseteq Nat
    OBVIOUS
  <2>. HIDE DEF R, T
  <2>. QED
    BY <1>1, <1>2, <2>1, WFMin
<1>4. x # 0 /\ x - 1 \in Nat /\ x - 1 \notin S
  OBVIOUS
<1>5. <<x - 1, x>> \in R
  BY <1>4 DEF OpToRel
<1>. QED
  BY <1>3, <1>4, <1>5

\* Appending adds one value, and keeps a list distinct if the value is new.
LEMMA AppendRange ==
    ASSUME NEW S, NEW t \in Seq(S), NEW e \in S
    PROVE  /\ Append(t, e) \in Seq(S) \ {<<>>}
           /\ Range(Append(t, e)) = Range(t) \union {e}
           /\ Distinct(t) /\ e \notin Range(t) => Distinct(Append(t, e))
<1>. DEFINE u == Append(t, e)
<1>1. /\ u \in Seq(S) /\ u # <<>>
      /\ Len(t) \in Nat /\ DOMAIN t = 1..Len(t)
      /\ DOMAIN u = 1..(Len(t) + 1)
      /\ \A p \in 1..Len(t) : u[p] = t[p]
      /\ u[Len(t) + 1] = e
  BY AppendProperties
<1>. HIDE DEF u
<1>2. Range(u) = Range(t) \union {e}
  <2>1. \A p \in DOMAIN u : p \in DOMAIN t \/ p = Len(t) + 1
    BY <1>1
  <2>2. ASSUME NEW x \in Range(t) PROVE x \in Range(u)
    <3>1. PICK p \in DOMAIN t : x = t[p]
      BY DEF Range
    <3>. QED
      BY <1>1, <3>1 DEF Range
  <2>3. e \in Range(u)
    BY <1>1 DEF Range
  <2>4. ASSUME NEW x \in Range(u) PROVE x \in Range(t) \union {e}
    <3>1. PICK p \in DOMAIN u : x = u[p]
      BY DEF Range
    <3>. QED
      BY <1>1, <2>1, <3>1 DEF Range
  <2>. QED
    BY <2>2, <2>3, <2>4
<1>3. ASSUME Distinct(t), e \notin Range(t) PROVE Distinct(u)
  <2>1. \A p \in 1..Len(t) : t[p] # e
    BY <1>1, <1>3 DEF Range
  <2>2. \A p, q \in 1..Len(t) : t[p] = t[q] => p = q
    BY <1>1, <1>3 DEF Distinct
  <2>3. SUFFICES ASSUME NEW p \in 1..(Len(t) + 1), NEW q \in 1..(Len(t) + 1),
                        u[p] = u[q]
                 PROVE  p = q
    BY <1>1 DEF Distinct
  <2>. QED
    BY <1>1, <2>1, <2>2, <2>3
<1>. QED
  BY <1>1, <1>2, <1>3 DEF u

\* One turn of the comprehension, given the results f of the turns before.
Turn(f, s, B, n) ==
    IF n = 0 THEN <<>>
    ELSE IF s[n] \in B THEN f[n-1]
    ELSE Append(f[n-1], s[n])

\* f holds the results of the turns 0 to n.
Turns(f, s, B, n) == f = [i \in 0..n |-> Turn(f, s, B, i)]

\* The comprehension has a result after every number of turns.
LEMMA TurnsExist ==
    ASSUME NEW s, NEW B, NEW m \in Nat
    PROVE  \E f : Turns(f, s, B, m)
<1>. DEFINE Good == {n \in Nat : \E f : Turns(f, s, B, n)}
<1>1. 0 \in Good
  <2>1. Turns([i \in 0..0 |-> <<>>], s, B, 0)
    BY DEF Turns, Turn
  <2>. QED
    BY <2>1
<1>2. ASSUME NEW n \in Nat, n \in Good
      PROVE  n + 1 \in Good
  <2>1. PICK f : Turns(f, s, B, n)
    BY <1>2
  <2>. DEFINE g == [i \in 0..(n+1) |-> IF i <= n THEN f[i] ELSE Turn(f, s, B, n+1)]
  <2>2. ASSUME NEW i \in 0..(n+1) PROVE g[i] = Turn(g, s, B, i)
    <3>1. \A j \in 0..n : g[j] = f[j]
      OBVIOUS
    <3>2. Turn(g, s, B, i) = Turn(f, s, B, i)
      BY <3>1 DEF Turn
    <3>3. CASE i <= n
      BY <3>2, <3>3, <2>1 DEF Turns
    <3>4. CASE i = n + 1
      BY <3>2, <3>4
    <3>. QED
      BY <3>3, <3>4
  <2>3. Turns(g, s, B, n+1)
    BY <2>2 DEF Turns
  <2>. QED
    BY <2>3
<1>. QED
  BY <1>1, <1>2, Induction

\* The comprehension returns a list of the members outside B, each of them, and
\* no value twice if the list it reads holds none twice.
LEMMA WithoutProperties ==
    ASSUME NEW S, NEW s \in Seq(S), NEW B
    PROVE  /\ Without(s, B) \in Seq(S)
           /\ Range(Without(s, B)) = Range(s) \ B
           /\ Distinct(s) => Distinct(Without(s, B))
<1>. DEFINE f == CHOOSE g : Turns(g, s, B, Len(s))
            Seen(n) == {s[j] : j \in 1..n} \ B
            Ok(n) == /\ f[n] \in Seq(S)
                     /\ Range(f[n]) = Seen(n)
                     /\ Distinct(s) => Distinct(f[n])
            Good == {n \in Nat : n <= Len(s) => Ok(n)}
<1>0. Len(s) \in Nat /\ DOMAIN s = 1..Len(s)
  OBVIOUS
<1>1. Turns(f, s, B, Len(s))
  BY <1>0, TurnsExist
<1>2. \A n \in 0..Len(s) : f[n] = Turn(f, s, B, n)
  <2>. HIDE DEF f
  <2>. QED
    BY <1>1 DEF Turns
<1>3. Without(s, B) = f[Len(s)]
  BY DEF Without, Turns, Turn
<1>. HIDE DEF f
<1>4. 0 \in Good
  <2>1. f[0] = <<>>
    BY <1>0, <1>2 DEF Turn
  <2>2. Range(<<>>) = {} /\ Distinct(<<>>)
    BY DEF Range, Distinct
  <2>3. Seen(0) = {}
    OBVIOUS
  <2>4. Ok(0)
    BY <2>1, <2>2, <2>3
  <2>. QED
    BY <2>4
<1>5. ASSUME NEW n \in Nat, n \in Good
      PROVE  n + 1 \in Good
  <2>1. SUFFICES ASSUME n + 1 <= Len(s) PROVE Ok(n + 1)
    OBVIOUS
  <2>2. Ok(n) /\ s[n+1] \in S
    BY <1>0, <1>5, <2>1
  <2>3. f[n+1] = IF s[n+1] \in B THEN f[n] ELSE Append(f[n], s[n+1])
    BY <1>0, <1>2, <2>1 DEF Turn
  <2>4. 1..(n+1) = 1..n \union {n+1}
    OBVIOUS
  <2>5. CASE s[n+1] \in B
    <3>1. Seen(n+1) = Seen(n)
      BY <2>4, <2>5
    <3>. QED
      BY <2>2, <2>3, <2>5, <3>1
  <2>6. CASE s[n+1] \notin B
    <3>1. Seen(n+1) = Seen(n) \union {s[n+1]}
      BY <2>4, <2>6
    <3>2. Distinct(s) => s[n+1] \notin Seen(n)
      BY <1>0, <2>1 DEF Distinct
    <3>3. f[n+1] = Append(f[n], s[n+1])
      BY <2>3, <2>6
    <3>. DEFINE t == f[n]
                e == s[n+1]
    <3>4. /\ Append(t, e) \in Seq(S)
          /\ Range(Append(t, e)) = Range(t) \union {e}
          /\ Distinct(t) /\ e \notin Range(t) => Distinct(Append(t, e))
      <4>1. t \in Seq(S) /\ e \in S
        BY <2>2
      <4>. HIDE DEF t, e
      <4>. QED
        BY <4>1, AppendRange
    <3>. HIDE DEF Seen
    <3>. QED
      BY <2>2, <3>1, <3>2, <3>3, <3>4
  <2>. QED
    BY <2>5, <2>6
<1>6. Ok(Len(s))
  <2>. HIDE DEF Ok
  <2>1. Nat \subseteq Good
    <3>. HIDE DEF Good
    <3>. QED
      BY <1>4, <1>5, Induction
  <2>. QED
    BY <1>0, <2>1
<1>7. Seen(Len(s)) = Range(s) \ B
  BY <1>0 DEF Range
<1>. QED
  BY <1>3, <1>6, <1>7
-----------------------------------------------------------------------------
(* The dict stays well formed.                                             *)

\* What evict and deregister leave of a list of metadata.
LEMMA RemainingProperties ==
    ASSUME TypeOK, NEW k \in DOMAIN kv_pool, NEW B
    PROVE  /\ Remaining(k, B) \in Seq(Meta)
           /\ Range(Remaining(k, B)) = Range(kv_pool[k]) \ B
<1>. DEFINE list == kv_pool[k]
<1>1. list \in Seq(Meta)
  BY DEF TypeOK
<1>. HIDE DEF list
<1>2. /\ Without(list, B) \in Seq(Meta)
      /\ Range(Without(list, B)) = Range(list) \ B
  BY <1>1, WithoutProperties
<1>. QED
  BY <1>2 DEF Remaining, list

\* Deleting a key keeps the order a list of the keys that are left.
LEMMA DeleteKeyOrder ==
    ASSUME TypeOK, NEW k, order' = Without(order, {k})
    PROVE  /\ order' \in Seq(Key)
           /\ Range(order') = DOMAIN kv_pool \ {k}
           /\ Distinct(order')
  BY WithoutProperties DEF TypeOK

LEMMA AdmitTypeOK ==
    ASSUME TypeOK, NEW k \in Key, NEW m \in Meta, Admit(k, m)
    PROVE  TypeOK'
<1>1. CASE k \in DOMAIN kv_pool
  <2>. DEFINE list == kv_pool[k]
  <2>1. list \in Seq(Meta)
    BY <1>1 DEF TypeOK
  <2>2. Append(list, m) \in Seq(Meta) \ {<<>>}
    <3>. HIDE DEF list
    <3>. QED
      BY <2>1, AppendRange
  <2>3. /\ kv_pool' = [kv_pool EXCEPT ![k] = Append(list, m)]
        /\ order' = order
        /\ raised' = FALSE
    BY <1>1 DEF Admit
  <2>. QED
    BY <1>1, <2>2, <2>3 DEF TypeOK
<1>2. CASE k \notin DOMAIN kv_pool
  <2>1. /\ DOMAIN kv_pool' = DOMAIN kv_pool \union {k}
        /\ kv_pool'[k] = <<m>>
        /\ \A x \in DOMAIN kv_pool : kv_pool'[x] = kv_pool[x]
        /\ order' = Append(order, k)
        /\ raised' = FALSE
    BY <1>2 DEF Admit
  <2>2. /\ Append(order, k) \in Seq(Key)
        /\ Range(Append(order, k)) = DOMAIN kv_pool \union {k}
        /\ Distinct(Append(order, k))
    BY <1>2, AppendRange DEF TypeOK
  <2>3. <<m>> \in Seq(Meta) \ {<<>>}
    OBVIOUS
  <2>. QED
    BY <2>1, <2>2, <2>3 DEF TypeOK
<1>. QED
  BY <1>1, <1>2

LEMMA EvictTypeOK ==
    ASSUME TypeOK, NEW k \in Key, NEW m \in Meta, Evict(k, m)
    PROVE  TypeOK'
<1>1. /\ k \in DOMAIN kv_pool
      /\ raised' = FALSE
      /\ Remaining(k, {m}) \in Seq(Meta)
  BY RemainingProperties DEF Evict
<1>2. CASE Remaining(k, {m}) # <<>>
  <2>1. /\ kv_pool' = [kv_pool EXCEPT ![k] = Remaining(k, {m})]
        /\ order' = order
    BY <1>2 DEF Evict
  <2>. QED
    BY <1>1, <1>2, <2>1 DEF TypeOK
<1>3. CASE Remaining(k, {m}) = <<>>
  <2>1. /\ kv_pool' = [x \in DOMAIN kv_pool \ {k} |-> kv_pool[x]]
        /\ order' = Without(order, {k})
    BY <1>3 DEF Evict, DeleteKey
  <2>. QED
    BY <1>1, <2>1, DeleteKeyOrder DEF TypeOK
<1>. QED
  BY <1>2, <1>3

LEMMA DeregisterTypeOK ==
    ASSUME TypeOK, NEW i, NEW w, Deregister(i, w)
    PROVE  TypeOK'
<1>. DEFINE B == OfWorker(i, w)
<1>1. \A k \in DOMAIN kv_pool : Remaining(k, B) \in Seq(Meta)
  BY RemainingProperties
<1>2. \A n \in DOMAIN order : order[n] \in DOMAIN kv_pool
  BY DEF TypeOK, Range
<1>3. \A k \in DOMAIN kv_pool : \E n \in DOMAIN order : order[n] = k
  BY DEF TypeOK, Range
<1>4. DOMAIN order = 1..Len(order) /\ Len(order) \in Nat
  BY DEF TypeOK
<1>5. CASE DeregisterCompletes(i, w)
  <2>1. \A k \in DOMAIN kv_pool : Remaining(k, B) # <<>>
    BY <1>3, <1>5 DEF DeregisterCompletes, Emptied
  <2>2. /\ kv_pool' = [k \in DOMAIN kv_pool |-> Remaining(k, B)]
        /\ order' = order
        /\ raised' = FALSE
    BY <1>5 DEF DeregisterCompletes
  <2>. QED
    BY <1>1, <2>1, <2>2 DEF TypeOK
<1>6. CASE DeregisterRaises(i, w)
  <2>1. PICK cut \in Emptied(i, w) :
           /\ \A n \in Emptied(i, w) : cut <= n
           /\ raised' = TRUE
           /\ LET filtered == {order[n] : n \in 1..cut}
              IN  DeleteKey([x \in DOMAIN kv_pool |->
                                 IF x \in filtered THEN Remaining(x, B)
                                 ELSE kv_pool[x]],
                            order[cut])
    BY <1>6 DEF DeregisterRaises
  <2>. DEFINE filtered == {order[n] : n \in 1..cut}
              gone == order[cut]
  <2>2. /\ kv_pool' = [x \in DOMAIN kv_pool \ {gone} |->
                          IF x \in filtered THEN Remaining(x, B) ELSE kv_pool[x]]
        /\ order' = Without(order, {gone})
    BY <2>1 DEF DeleteKey
  <2>3. cut \in DOMAIN order
    BY DEF Emptied
  <2>4. ASSUME NEW x \in DOMAIN kv_pool \ {gone}, x \in filtered
        PROVE  Remaining(x, B) # <<>>
    <3>1. PICK n \in 1..cut : x = order[n]
      BY <2>4
    <3>2. n < cut /\ n \in DOMAIN order
      BY <1>4, <2>3, <3>1, <2>4
    <3>3. n \notin Emptied(i, w)
      BY <1>4, <2>1, <2>3, <3>2
    <3>. QED
      BY <3>1, <3>2, <3>3 DEF Emptied
  <2>5. \A x \in DOMAIN kv_pool' : kv_pool'[x] \in Seq(Meta) \ {<<>>}
    BY <1>1, <2>2, <2>4 DEF TypeOK
  <2>6. /\ order' \in Seq(Key)
        /\ Range(order') = DOMAIN kv_pool \ {gone}
        /\ Distinct(order')
    BY <2>2, DeleteKeyOrder
  <2>. QED
    BY <2>1, <2>2, <2>5, <2>6 DEF TypeOK
<1>. QED
  BY <1>5, <1>6 DEF Deregister

LEMMA InitTypeOK == Init => TypeOK
<1>1. SUFFICES ASSUME Init PROVE TypeOK
  OBVIOUS
<1>2. raised \in BOOLEAN
  BY <1>1, Zenon DEF Init
<1>3. kv_pool = <<>> /\ order = <<>>
  BY <1>1 DEF Init
<1>4. DOMAIN kv_pool = {} /\ order \in Seq(Key) /\ DOMAIN order = {}
  BY <1>3
<1>. QED
  BY <1>2, <1>4 DEF TypeOK, Range, Distinct

LEMMA NextTypeOK == TypeOK /\ [Next]_vars => TypeOK'
<1>1. SUFFICES ASSUME TypeOK, [Next]_vars PROVE TypeOK'
  OBVIOUS
<1>2. CASE \E k \in Key, m \in Meta : Admit(k, m) \/ Evict(k, m)
  BY <1>1, <1>2, AdmitTypeOK, EvictTypeOK
<1>3. CASE \E m \in Meta : Deregister(m.instance, m.worker)
  BY <1>1, <1>3, DeregisterTypeOK
<1>4. CASE UNCHANGED vars
  BY <1>1, <1>4 DEF vars, TypeOK
<1>. QED
  BY <1>1, <1>2, <1>3, <1>4 DEF Next

\* The dict of every reachable state is well formed, for any number of keys and
\* copies: no key is left with an empty list, and the order names each key once.
THEOREM TypeCorrect == Spec => []TypeOK
  BY InitTypeOK, NextTypeOK, PTL DEF Spec
-----------------------------------------------------------------------------
(* The lists implement the relation Holdings.                              *)

\* A pair is in the relation when the list of its key names its metadata.
LEMMA HeldPair ==
    ASSUME NEW k \in Key, NEW m \in Meta
    PROVE  /\ <<k, m>> \in held <=> k \in DOMAIN kv_pool /\ m \in Range(kv_pool[k])
           /\ (<<k, m>> \in held)' <=> k \in DOMAIN kv_pool' /\ m \in Range(kv_pool'[k])
  BY DEF held

\* Two relations on keys and metadata are equal if they hold the same pairs.
LEMMA SamePairs ==
    ASSUME NEW H1 \in SUBSET (Key \X Meta), NEW H2 \in SUBSET (Key \X Meta),
           \A k \in Key, m \in Meta : <<k, m>> \in H1 <=> <<k, m>> \in H2
    PROVE  H1 = H2
<1>1. \A h \in Key \X Meta : h \in H1 <=> h \in H2
  OBVIOUS
<1>. QED
  BY <1>1

LEMMA HeldType == held \subseteq Key \X Meta /\ held' \subseteq Key \X Meta
  BY DEF held

\* Admitting adds the pair, whether the list is new, or names it already.
LEMMA AdmitGains ==
    ASSUME TypeOK, NEW k \in Key, NEW m \in Meta, Admit(k, m)
    PROVE  held' = held \union {<<k, m>>}
<1>1. ASSUME k \in DOMAIN kv_pool
      PROVE  Range(Append(kv_pool[k], m)) = Range(kv_pool[k]) \union {m}
  <2>. DEFINE list == kv_pool[k]
  <2>1. list \in Seq(Meta)
    BY <1>1 DEF TypeOK
  <2>. HIDE DEF list
  <2>2. Range(Append(list, m)) = Range(list) \union {m}
    BY <2>1, AppendRange
  <2>. QED
    BY <2>2 DEF list
<1>2. Range(<<m>>) = {m}
  BY DEF Range
<1>3. ASSUME NEW x \in Key, NEW e \in Meta
      PROVE  <<x, e>> \in held' <=> <<x, e>> \in held \/ (x = k /\ e = m)
  <2>1. CASE k \in DOMAIN kv_pool
    <3>1. kv_pool' = [kv_pool EXCEPT ![k] = Append(kv_pool[k], m)]
      BY <2>1 DEF Admit
    <3>. QED
      BY <1>1, <2>1, <3>1, HeldPair
  <2>2. CASE k \notin DOMAIN kv_pool
    <3>1. kv_pool' = [y \in DOMAIN kv_pool \union {k} |->
                        IF y = k THEN <<m>> ELSE kv_pool[y]]
      BY <2>2 DEF Admit
    <3>2. \A y \in DOMAIN kv_pool : y # k /\ kv_pool'[y] = kv_pool[y]
      BY <2>2, <3>1
    <3>3. kv_pool'[k] = <<m>> /\ DOMAIN kv_pool' = DOMAIN kv_pool \union {k}
      BY <3>1
    <3>. QED
      BY <1>2, <2>2, <3>2, <3>3, HeldPair
  <2>. QED
    BY <2>1, <2>2
<1>. DEFINE H == held \union {<<k, m>>}
<1>4. H \subseteq Key \X Meta
  BY HeldType
<1>5. \A x \in Key, e \in Meta : <<x, e>> \in held' <=> <<x, e>> \in H
  BY <1>3
<1>. QED
  BY <1>4, <1>5, HeldType, SamePairs

\* One evict takes the pair away, however many copies the list holds.
LEMMA EvictLoses ==
    ASSUME TypeOK, NEW k \in Key, NEW m \in Meta, Evict(k, m)
    PROVE  held' = held \ {<<k, m>>}
<1>1. k \in DOMAIN kv_pool /\ Range(Remaining(k, {m})) = Range(kv_pool[k]) \ {m}
  BY RemainingProperties DEF Evict
<1>2. Range(<<>>) = {}
  BY DEF Range
<1>3. ASSUME NEW x \in Key, NEW e \in Meta
      PROVE  <<x, e>> \in held' <=> <<x, e>> \in held /\ ~(x = k /\ e = m)
  <2>1. CASE Remaining(k, {m}) # <<>>
    <3>1. kv_pool' = [kv_pool EXCEPT ![k] = Remaining(k, {m})]
      BY <2>1 DEF Evict
    <3>. QED
      BY <1>1, <3>1, HeldPair
  <2>2. CASE Remaining(k, {m}) = <<>>
    <3>1. kv_pool' = [y \in DOMAIN kv_pool \ {k} |-> kv_pool[y]]
      BY <2>2 DEF Evict, DeleteKey
    <3>. QED
      BY <1>1, <1>2, <2>2, <3>1, HeldPair
  <2>. QED
    BY <2>1, <2>2
<1>. DEFINE H == held \ {<<k, m>>}
<1>4. H \subseteq Key \X Meta
  BY HeldType
<1>5. \A x \in Key, e \in Meta : <<x, e>> \in held' <=> <<x, e>> \in H
  BY <1>3
<1>. QED
  BY <1>4, <1>5, HeldType, SamePairs

\* Deregistering takes away pairs of that instance-worker only, whether it ends
\* or raises.
LEMMA DeregisterForgets ==
    ASSUME TypeOK, NEW i, NEW w, Deregister(i, w)
    PROVE  Abstract!Forget(i, w)
<1>. DEFINE B == OfWorker(i, w)
<1>1. \A k \in DOMAIN kv_pool : Range(Remaining(k, B)) = Range(kv_pool[k]) \ B
  BY RemainingProperties
<1>2. ASSUME NEW k \in Key, NEW m \in Meta
      PROVE  /\ <<k, m>> \in held' => <<k, m>> \in held
             /\ <<k, m>> \in held /\ <<k, m>> \notin held' => m \in B
  <2>1. CASE DeregisterCompletes(i, w)
    <3>1. kv_pool' = [x \in DOMAIN kv_pool |-> Remaining(x, B)]
      BY <2>1 DEF DeregisterCompletes
    <3>. QED
      BY <1>1, <3>1, HeldPair
  <2>2. CASE DeregisterRaises(i, w)
    <3>1. PICK cut \in Emptied(i, w) :
             LET filtered == {order[n] : n \in 1..cut}
             IN  DeleteKey([x \in DOMAIN kv_pool |->
                                IF x \in filtered THEN Remaining(x, B)
                                ELSE kv_pool[x]],
                           order[cut])
      BY <2>2 DEF DeregisterRaises
    <3>. DEFINE filtered == {order[n] : n \in 1..cut}
    <3>2. kv_pool' = [x \in DOMAIN kv_pool \ {order[cut]} |->
                        IF x \in filtered THEN Remaining(x, B) ELSE kv_pool[x]]
      BY <3>1 DEF DeleteKey
    <3>3. order[cut] \in DOMAIN kv_pool /\ Remaining(order[cut], B) = <<>>
      BY DEF Emptied, TypeOK, Range
    <3>4. Range(kv_pool[order[cut]]) \subseteq B
      <4>1. Range(Remaining(order[cut], B)) = {}
        BY <3>3 DEF Range
      <4>. QED
        BY <1>1, <3>3, <4>1
    <3>. HIDE DEF filtered
    <3>. QED
      BY <1>1, <3>2, <3>3, <3>4, HeldPair
  <2>. QED
    BY <2>1, <2>2 DEF Deregister
<1>3. \A m \in B : m.instance = i /\ m.worker = w
  BY DEF OfWorker
<1>4. held' \subseteq held
  BY <1>2, HeldType
<1>5. \A h \in held \ held' : h[2] \in B
  BY <1>2, HeldType
<1>. QED
  BY <1>3, <1>4, <1>5 DEF Abstract!Forget

\* The lists with their duplicates, their order and a deregister that may raise
\* half-way implement the relation: a chunk is held from the first report of it
\* until one report of its loss, or a deregister of the worker that holds it.
THEOREM Refinement == Spec => ImplementsHoldings
<1>1. Init => Abstract!HoldingsInit
  BY DEF Init, Abstract!HoldingsInit, held
<1>2. TypeOK /\ [Next]_vars => [Abstract!HoldingsNext]_held
  <2>1. SUFFICES ASSUME TypeOK, [Next]_vars
                 PROVE  Abstract!HoldingsNext \/ UNCHANGED held
    OBVIOUS
  <2>2. ASSUME NEW k \in Key, NEW m \in Meta, Admit(k, m) \/ Evict(k, m)
        PROVE  Abstract!HoldingsNext
    BY <2>1, <2>2, AdmitGains, EvictLoses
       DEF Abstract!HoldingsNext, Abstract!Gain, Abstract!Lose
  <2>3. ASSUME NEW m \in Meta, Deregister(m.instance, m.worker)
        PROVE  Abstract!HoldingsNext
    BY <2>1, <2>3, DeregisterForgets DEF Abstract!HoldingsNext
  <2>4. ASSUME UNCHANGED vars PROVE UNCHANGED held
    BY <2>4 DEF vars, held
  <2>. QED
    BY <2>1, <2>2, <2>3, <2>4 DEF Next
<1>. QED
  BY <1>1, <1>2, TypeCorrect, PTL DEF Spec, ImplementsHoldings, Abstract!HoldingsSpec
-----------------------------------------------------------------------------
(* A lookup between whose steps the table changes.                         *)

IsWalk(w) == DOMAIN w = {"going", "contiguous", "first", "credit"}

WalkInv ==
    /\ pc \in {"idle", "test", "read", "done", "raised"}
    /\ request \in Seq(Key) /\ chunk \in Nat \ {0}
    /\ IsWalk(walk)
    /\ walk.contiguous \subseteq Instance
    /\ \A i \in DOMAIN walk.credit : walk.credit[i].matched \in Nat
    /\ Walking => walk.going = TRUE
    /\ pc = "read" => chunk \in DOMAIN request

\* The histories bracket what is held now.
HistoryInv == Walking => HeldNow \subseteq ever /\ always \subseteq HeldNow

AlwaysHeld(i, m) == \A j \in 1..m : <<request[j], i>> \in always

(* The three properties speak of the end of a walk; on its way, the set of  *)
(* the contiguous instances carries them.  It has only instances that held  *)
(* each chunk at some time, and it has all that held each chunk throughout. *)
CreditInv ==
    /\ CreditWasHeld /\ CreditNotMissed /\ FailsOnlyOnLoss
    /\ Walking => \A i \in walk.contiguous : \A j \in 1..(chunk-1) :
                      <<request[j], i>> \in ever
    /\ Walking => \A i \in Instance :
                      /\ AlwaysHeld(i, chunk-1) => i \in walk.contiguous
                      /\ \A m \in 1..(chunk-1) : AlwaysHeld(i, m) => Credited(i) >= m
    /\ pc = "read" => \E i \in Instance : <<request[chunk], i>> \in ever

IInv == TypeOK /\ WalkInv /\ HistoryInv /\ CreditInv
-----------------------------------------------------------------------------
(* One turn of the loop.                                                   *)

LEMMA Least ==
    ASSUME NEW S, S \subseteq Nat, S # {}
    PROVE  \E x \in S : \A y \in S : x <= y
<1>. DEFINE R == OpToRel(<, Nat)
<1>1. IsWellFoundedOn(R, Nat)
  BY NatLessThanWellFounded
<1>. HIDE DEF R
<1>2. PICK x \in S : \A y \in S : ~ (<<y, x>> \in R)
  BY <1>1, WFMin
<1>3. ASSUME NEW y \in S, y < x PROVE FALSE
  BY <1>2, <1>3 DEF R, OpToRel
<1>. QED
  BY <1>2, <1>3

Holders(list, contiguous) ==
    {i \in contiguous : \E p \in DOMAIN list : list[p].instance = i}

\* Taking the first metadata of each instance misses no instance.
LEMMA EachHasAFirst ==
    ASSUME NEW list \in Seq(Meta), NEW C
    PROVE  {list[p].instance : p \in FirstOfEach(list, C)} = Holders(list, C)
<1>1. ASSUME NEW i \in C, NEW p \in DOMAIN list, list[p].instance = i
      PROVE  \E q \in FirstOfEach(list, C) : list[q].instance = i
  <2>. DEFINE S == {n \in DOMAIN list : list[n].instance = i}
  <2>1. S \subseteq Nat /\ S # {} /\ DOMAIN list = 1..Len(list) /\ Len(list) \in Nat
    BY <1>1
  <2>2. PICK q \in S : \A n \in S : q <= n
    BY <2>1, Least
  <2>3. \A n \in 1..(q-1) : list[n].instance # i
    BY <2>1, <2>2
  <2>. QED
    BY <2>2, <2>3 DEF FirstOfEach
<1>. QED
  BY <1>1 DEF FirstOfEach, Holders

\* A turn ends the walk and keeps its credit, or credits each contiguous holder
\* of the chunk with this chunk and leaves the others behind.
Taken(w, holders, n, after) ==
    /\ IsWalk(after)
    /\ holders = {} => /\ after.going = FALSE
                       /\ after.contiguous = w.contiguous
                       /\ after.credit = w.credit
    /\ holders # {} =>
           /\ after.going = TRUE /\ after.contiguous = holders
           /\ DOMAIN after.credit = holders \union DOMAIN w.credit
           /\ \A i \in DOMAIN after.credit :
                  /\ i \in holders => after.credit[i].matched = n
                  /\ i \notin holders => after.credit[i].matched = w.credit[i].matched

LEMMA OneChunk ==
    ASSUME NEW w, IsWalk(w), w.going = TRUE, NEW list \in Seq(Meta), NEW n
    PROVE  Taken(w, Holders(list, w.contiguous), n, LookupChunk(w, list, n))
<1>. DEFINE after == LookupChunk(w, list, n)
            holders == Holders(list, w.contiguous)
            at == FirstOfEach(list, w.contiguous)
            found == {list[p].instance : p \in at}
            Location1(i) == list[CHOOSE p \in at : list[p].instance = i].location
<1>1. found = holders
  BY EachHasAFirst
<1>2. found = {} <=> at = {}
  OBVIOUS
<1>3. ASSUME at = {} PROVE Taken(w, holders, n, after)
  <2>1. after = [w EXCEPT !.going = FALSE]
    BY <1>3 DEF LookupChunk
  <2>. HIDE DEF found, at, after, holders
  <2>. QED
    BY <1>1, <1>2, <1>3, <2>1 DEF Taken, IsWalk
<1>4. ASSUME at # {} PROVE Taken(w, holders, n, after)
  <2>1. after = [going      |-> TRUE,
                 contiguous |-> found,
                 first      |-> IF DOMAIN w.credit = {}
                                THEN {FirstName(list, at)} ELSE w.first,
                 credit     |-> [i \in found \union DOMAIN w.credit |->
                                    IF i \in found
                                    THEN [location |-> Location1(i), matched |-> n]
                                    ELSE w.credit[i]]]
    BY <1>4 DEF LookupChunk
  <2>. HIDE DEF found, at, Location1, after, holders
  <2>. QED
    BY <1>1, <1>2, <1>4, <2>1 DEF Taken, IsWalk
<1>. HIDE DEF found, at, Location1
<1>. QED
  BY <1>3, <1>4
-----------------------------------------------------------------------------
(* The steps.                                                              *)

LEMMA HeldPairs ==
    ASSUME NEW k \in Key, NEW i \in Instance
    PROVE  <<k, i>> \in HeldNow <=>
               k \in DOMAIN kv_pool /\ \E n \in DOMAIN kv_pool[k] : kv_pool[k][n].instance = i
  BY DEF HeldNow, HeldBy, ListOf

LEMMA SameHeld == UNCHANGED vars => HeldNow' = HeldNow /\ TypeOK' = TypeOK
  BY DEF vars, HeldNow, HeldBy, ListOf, TypeOK

LEMMA Initial == LookupInit => IInv
  BY InitTypeOK
     DEF LookupInit, IInv, WalkInv, IsWalk, HistoryInv, CreditInv, Walking, LookupStart,
         CreditWasHeld, CreditNotMissed, FailsOnlyOnLoss, Credited

LEMMA BeginStep ==
    ASSUME KVAssumption, IInv, NEW r \in Requests, Begin(r)
    PROVE  IInv'
<1>1. TypeOK' /\ HeldNow' = HeldNow
  BY SameHeld DEF Begin, IInv
<1>2. /\ pc' = "test" /\ request' = r /\ r \in Seq(Key) /\ chunk' = 1
      /\ walk' = LookupStart /\ ever' = HeldNow /\ always' = HeldNow
  BY DEF Begin, KVAssumption
<1>3. WalkInv'
  BY <1>2 DEF WalkInv, IsWalk, Walking, LookupStart
<1>4. HistoryInv'
  BY <1>1, <1>2 DEF HistoryInv
<1>5. CreditWasHeld' /\ CreditNotMissed' /\ FailsOnlyOnLoss'
  BY <1>2 DEF CreditWasHeld, CreditNotMissed, FailsOnlyOnLoss, Credited, LookupStart
<1>. QED
  BY <1>1, <1>2, <1>3, <1>4, <1>5 DEF IInv, CreditInv, LookupStart

LEMMA ReportStep ==
    ASSUME IInv, Report
    PROVE  IInv'
<1>1. TypeOK'
  BY NextTypeOK DEF IInv, Report
<1>2. /\ UNCHANGED <<pc, request, chunk, walk>>
      /\ ever \subseteq ever' /\ always' \subseteq always
      /\ Walking => HeldNow' \subseteq ever' /\ always' \subseteq HeldNow'
      /\ ~Walking => UNCHANGED <<ever, always>>
  BY DEF Report, walkVars
<1>3. WalkInv' /\ HistoryInv'
  BY <1>2 DEF IInv, WalkInv, HistoryInv, Walking
<1>4. Walking' = Walking /\ \A i : Credited(i)' = Credited(i)
  BY <1>2 DEF Walking, Credited
<1>5. \A i, m : AlwaysHeld(i, m)' => AlwaysHeld(i, m)
  BY <1>2 DEF AlwaysHeld
<1>6. CreditWasHeld' /\ CreditNotMissed' /\ FailsOnlyOnLoss'
  <2>1. CreditWasHeld'
    BY <1>2, <1>4 DEF IInv, CreditInv, CreditWasHeld
  <2>2. CreditNotMissed'
    BY <1>2, <1>4 DEF IInv, CreditInv, CreditNotMissed
  <2>3. FailsOnlyOnLoss'
    BY <1>2 DEF IInv, CreditInv, FailsOnlyOnLoss
  <2>. QED
    BY <2>1, <2>2, <2>3
<1>. QED
  BY <1>1, <1>2, <1>3, <1>4, <1>5, <1>6 DEF IInv, CreditInv

\* A walk that ends has credited the prefixes held throughout: a chunk that ends
\* it early was held throughout by no instance of which the same is true so far.
LEMMA EndOfWalk ==
    ASSUME IInv, Walking, UNCHANGED <<vars, request, chunk, ever, always>>,
           pc' = "done", walk'.credit = walk.credit,
           walk'.contiguous = walk.contiguous,
           IsWalk(walk)',
           \/ chunk > Len(request)
           \/ chunk \in DOMAIN request /\ \A i \in Instance : ~AlwaysHeld(i, chunk)
    PROVE  IInv'
<1>1. TypeOK' /\ HeldNow' = HeldNow
  BY SameHeld DEF IInv
<1>2. /\ \A i : Credited(i)' = Credited(i)
      /\ \A i, m : AlwaysHeld(i, m)' = AlwaysHeld(i, m)
  BY DEF Credited, AlwaysHeld
<1>3. CreditWasHeld'
  BY <1>2 DEF IInv, CreditInv, CreditWasHeld
<1>4. ASSUME NEW i \in Instance, NEW m \in DOMAIN request, AlwaysHeld(i, m)
      PROVE  Credited(i) >= m
  <2>1. /\ request \in Seq(Key) /\ chunk \in Nat \ {0} /\ m \in 1..Len(request)
        /\ Len(request) \in Nat
    BY DEF IInv, WalkInv
  <2>2. CASE chunk > Len(request)
    BY <1>4, <2>1, <2>2 DEF IInv, CreditInv
  <2>3. CASE chunk \in DOMAIN request /\ ~AlwaysHeld(i, chunk)
    <3>1. ~(chunk <= m)
      BY <1>4, <2>1, <2>3 DEF AlwaysHeld
    <3>. QED
      BY <1>4, <2>1, <3>1 DEF IInv, CreditInv
  <2>. QED
    BY <2>2, <2>3
<1>5. CreditNotMissed'
  BY <1>2, <1>4 DEF CreditNotMissed, AlwaysHeld
<1>. QED
  BY <1>1, <1>3, <1>5 DEF IInv, WalkInv, HistoryInv, CreditInv, FailsOnlyOnLoss, Walking

LEMMA TestStep ==
    ASSUME KVAssumption, IInv, Test
    PROVE  IInv'
<1>1. /\ pc = "test" /\ Walking /\ UNCHANGED <<vars, request, chunk, walk, ever, always>>
  BY DEF Test, Walking
<1>2. /\ request \in Seq(Key) /\ chunk \in Nat \ {0} /\ Len(request) \in Nat
      /\ DOMAIN request = 1..Len(request)
  BY DEF IInv, WalkInv
<1>3. CASE chunk > Len(request)
  BY <1>1, <1>3, EndOfWalk DEF Test, IInv, WalkInv
<1>4. CASE chunk \in DOMAIN request /\ request[chunk] \notin DOMAIN kv_pool
  <2>1. ASSUME NEW i \in Instance, AlwaysHeld(i, chunk) PROVE FALSE
    <3>1. request[chunk] \in Key /\ <<request[chunk], i>> \in always
      BY <1>2, <1>4, <2>1 DEF AlwaysHeld
    <3>2. <<request[chunk], i>> \in HeldNow
      BY <1>1, <3>1 DEF IInv, HistoryInv
    <3>. QED
      BY <1>4, <3>1, <3>2, HeldPairs
  <2>. QED
    BY <1>1, <1>4, <2>1, EndOfWalk DEF Test, IInv, WalkInv
<1>5. CASE chunk \in DOMAIN request /\ request[chunk] \in DOMAIN kv_pool
  <2>1. pc' = "read"
    BY <1>2, <1>5 DEF Test
  <2>2. TypeOK' /\ HeldNow' = HeldNow
    BY <1>1, SameHeld DEF IInv
  <2>3. /\ \A i : Credited(i)' = Credited(i)
        /\ \A i, m : AlwaysHeld(i, m)' = AlwaysHeld(i, m)
    BY <1>1 DEF Credited, AlwaysHeld
  <2>4. CreditWasHeld'
    BY <1>1, <2>3 DEF IInv, CreditInv, CreditWasHeld
  <2>5. \E i \in Instance : <<request[chunk], i>> \in ever
    <3>. DEFINE list == kv_pool[request[chunk]]
    <3>1. request[chunk] \in Key /\ list \in Seq(Meta) \ {<<>>}
      BY <1>2, <1>5 DEF IInv, TypeOK
    <3>2. 1 \in DOMAIN list /\ list[1] \in Meta
      <4>. HIDE DEF list
      <4>. QED
        BY <3>1
    <3>3. list[1].instance \in Instance
      BY <3>2 DEF KVAssumption, KVChunkMetadata
    <3>. QED
      BY <1>1, <1>5, <3>1, <3>2, <3>3, HeldPairs DEF IInv, HistoryInv
  <2>6. WalkInv' /\ HistoryInv'
    BY <1>1, <1>5, <2>1, <2>2 DEF IInv, WalkInv, HistoryInv, Walking
  <2>7. CreditInv'
    <3>1. Walking' /\ CreditNotMissed' /\ FailsOnlyOnLoss'
      BY <2>1 DEF Walking, CreditNotMissed, FailsOnlyOnLoss
    <3>. QED
      BY <1>1, <2>3, <2>4, <2>5, <3>1 DEF IInv, CreditInv
  <2>. QED
    BY <2>2, <2>6, <2>7 DEF IInv
<1>. QED
  BY <1>2, <1>3, <1>4, <1>5

LEMMA ReadFailsStep ==
    ASSUME KVAssumption, IInv, ReadFails
    PROVE  IInv'
<1>1. /\ pc = "read" /\ pc' = "raised" /\ request[chunk] \notin DOMAIN kv_pool
      /\ UNCHANGED <<vars, request, chunk, walk, ever, always>>
  BY DEF ReadFails
<1>2. TypeOK' /\ HeldNow' = HeldNow
  BY <1>1, SameHeld DEF IInv
<1>3. CreditWasHeld'
  <2>1. \A i : Credited(i)' = Credited(i)
    BY <1>1 DEF Credited
  <2>. QED
    BY <1>1, <2>1 DEF IInv, CreditInv, CreditWasHeld
<1>4. ASSUME NEW i \in Instance PROVE <<request[chunk], i>> \notin always
  <2>1. request[chunk] \in Key
    BY <1>1 DEF IInv, WalkInv
  <2>2. <<request[chunk], i>> \notin HeldNow
    BY <1>1, <2>1, HeldPairs
  <2>. QED
    BY <1>1, <2>2 DEF IInv, HistoryInv, Walking
<1>5. FailsOnlyOnLoss'
  BY <1>1, <1>4 DEF FailsOnlyOnLoss, IInv, CreditInv
<1>. QED
  BY <1>1, <1>2, <1>3, <1>5
     DEF IInv, WalkInv, HistoryInv, CreditInv, CreditNotMissed, Walking

LEMMA ReadStep ==
    ASSUME KVAssumption, IInv, Read
    PROVE  IInv'
<1>1. /\ pc = "read" /\ Walking /\ request[chunk] \in DOMAIN kv_pool
      /\ UNCHANGED <<vars, request, ever, always>>
      /\ walk' = LookupChunk(walk, kv_pool[request[chunk]], chunk)
      /\ walk'.going = TRUE => pc' = "test" /\ chunk' = chunk + 1
      /\ walk'.going = FALSE => pc' = "done" /\ chunk' = chunk
  BY DEF Read, Walking
<1>2. /\ request \in Seq(Key) /\ chunk \in Nat \ {0} /\ chunk \in DOMAIN request
      /\ request[chunk] \in Key /\ kv_pool[request[chunk]] \in Seq(Meta)
      /\ IsWalk(walk) /\ walk.going = TRUE
      /\ walk.contiguous \subseteq Instance
  BY <1>1 DEF IInv, WalkInv, TypeOK
<1>3. PICK list \in Seq(Meta) : list = kv_pool[request[chunk]]
  BY <1>2
<1>4. PICK holders : holders = Holders(list, walk.contiguous)
  OBVIOUS
<1>5. Taken(walk, holders, chunk, walk')
  BY <1>1, <1>2, <1>3, <1>4, OneChunk
<1>6. /\ holders \subseteq walk.contiguous
      /\ \A i \in walk.contiguous :
             /\ i \in Instance
             /\ i \in holders <=> <<request[chunk], i>> \in HeldNow
  BY <1>1, <1>2, <1>3, <1>4, HeldPairs DEF Holders
<1>7. ASSUME NEW i \in Instance, AlwaysHeld(i, chunk) PROVE i \in holders
  <2>1. AlwaysHeld(i, chunk - 1) /\ <<request[chunk], i>> \in always
    BY <1>2, <1>7 DEF AlwaysHeld
  <2>2. i \in walk.contiguous /\ <<request[chunk], i>> \in HeldNow
    BY <1>1, <2>1 DEF IInv, CreditInv, HistoryInv
  <2>. QED
    BY <1>6, <2>2
<1>8. CASE holders = {}
  BY <1>1, <1>2, <1>5, <1>7, <1>8, EndOfWalk DEF Taken, IsWalk
<1>9. CASE holders # {}
  <2>1. /\ pc' = "test" /\ chunk' = chunk + 1 /\ Walking'
        /\ walk'.going = TRUE /\ walk'.contiguous = holders
    BY <1>1, <1>5, <1>9 DEF Walking, Taken
  <2>2. TypeOK' /\ HeldNow' = HeldNow
    BY <1>1, SameHeld DEF IInv
  <2>3. /\ \A i \in holders : Credited(i)' = chunk
        /\ \A i : i \notin holders => Credited(i)' = Credited(i)
    BY <1>5, <1>9 DEF Credited, Taken
  <2>4. WalkInv' /\ HistoryInv'
    <3>1. \A i \in DOMAIN walk'.credit : walk'.credit[i].matched \in Nat
      BY <1>2, <1>5, <1>9 DEF IInv, WalkInv, Taken
    <3>. QED
      BY <1>1, <1>2, <1>4, <1>5, <2>1, <2>2, <3>1
         DEF IInv, WalkInv, IsWalk, HistoryInv, Taken, Holders
  <2>5. \A i \in holders : \A j \in 1..chunk : <<request[j], i>> \in ever
    <3>1. ASSUME NEW i \in holders PROVE <<request[chunk], i>> \in ever
      BY <1>1, <1>6, <3>1 DEF IInv, HistoryInv
    <3>2. ASSUME NEW i \in holders, NEW j \in 1..chunk, j # chunk
          PROVE  <<request[j], i>> \in ever
      BY <1>1, <1>2, <1>6, <3>2 DEF IInv, CreditInv
    <3>. QED
      BY <3>1, <3>2
  <2>6. CreditWasHeld'
    BY <1>1, <2>3, <2>5 DEF IInv, CreditInv, CreditWasHeld
  <2>7. ASSUME NEW i \in Instance, NEW m \in 1..chunk, AlwaysHeld(i, m)
        PROVE  Credited(i)' >= m
    <3>1. CASE i \in holders
      BY <1>2, <2>3, <3>1
    <3>2. CASE i \notin holders /\ m = chunk
      BY <1>7, <2>7, <3>2
    <3>3. CASE i \notin holders /\ m # chunk
      BY <1>1, <1>2, <2>3, <2>7, <3>3 DEF IInv, CreditInv
    <3>. QED
      BY <3>1, <3>2, <3>3
  <2>8. CreditInv'
    <3>1. CreditNotMissed' /\ FailsOnlyOnLoss' /\ pc' # "read" /\ chunk' - 1 = chunk
      BY <1>2, <2>1 DEF CreditNotMissed, FailsOnlyOnLoss
    <3>2. \A i \in holders : \A j \in 1..chunk : <<request'[j], i>> \in ever'
      BY <1>1, <2>5
    <3>3. ASSUME NEW i \in Instance
          PROVE  /\ (\A j \in 1..chunk : <<request'[j], i>> \in always') => i \in holders
                 /\ \A m \in 1..chunk :
                        (\A j \in 1..m : <<request'[j], i>> \in always') => Credited(i)' >= m
      BY <1>1, <1>7, <2>7 DEF AlwaysHeld
    <3>. QED
      BY <2>1, <2>6, <3>1, <3>2, <3>3 DEF CreditInv, AlwaysHeld
  <2>. QED
    BY <2>2, <2>4, <2>8 DEF IInv
<1>. QED
  BY <1>8, <1>9

LEMMA Inductive ==
    ASSUME KVAssumption, IInv, [LookupNext]_allVars
    PROVE  IInv'
<1>1. CASE UNCHANGED allVars
  <2>1. UNCHANGED <<vars, pc, request, chunk, walk, ever, always>>
    BY <1>1 DEF allVars, walkVars
  <2>2. TypeOK' /\ HeldNow' = HeldNow
    BY <2>1, SameHeld DEF IInv
  <2>3. /\ \A i : Credited(i)' = Credited(i)
        /\ \A i, m : AlwaysHeld(i, m)' = AlwaysHeld(i, m)
        /\ Walking' = Walking
    BY <2>1 DEF Credited, AlwaysHeld, Walking
  <2>4. CreditWasHeld' /\ CreditNotMissed' /\ FailsOnlyOnLoss'
    <3>1. CreditWasHeld'
      BY <2>1, <2>3 DEF IInv, CreditInv, CreditWasHeld
    <3>2. CreditNotMissed'
      BY <2>1, <2>3 DEF IInv, CreditInv, CreditNotMissed
    <3>3. FailsOnlyOnLoss'
      BY <2>1 DEF IInv, CreditInv, FailsOnlyOnLoss
    <3>. QED
      BY <3>1, <3>2, <3>3
  <2>5. WalkInv' /\ HistoryInv'
    BY <2>1, <2>2, <2>3 DEF IInv, WalkInv, HistoryInv
  <2>. QED
    BY <2>1, <2>2, <2>3, <2>4, <2>5 DEF IInv, CreditInv
<1>2. CASE \E r \in Requests : Begin(r)
  BY <1>2, BeginStep
<1>. QED
  BY <1>1, <1>2, TestStep, ReadStep, ReadFailsStep, ReportStep DEF LookupNext

LEMMA Invariance == LookupSpec => []IInv
  BY Initial, Inductive, KVAssumption, PTL DEF LookupSpec
-----------------------------------------------------------------------------
\* Whatever engines report while a lookup walks, and however often, each chunk
\* that an instance is credited with was in its cache at some time of the walk.
THEOREM NoCreditWithoutEvidence == LookupSpec => []CreditWasHeld
<1>1. IInv => CreditWasHeld
  BY DEF IInv, CreditInv
<1>. QED
  BY <1>1, Invariance, PTL

\* A prefix that an instance held throughout the walk is credited in full.
THEOREM NoLossWithoutCause == LookupSpec => []CreditNotMissed
<1>1. IInv => CreditNotMissed
  BY DEF IInv, CreditInv
<1>. QED
  BY <1>1, Invariance, PTL

\* The KeyError strikes only for a chunk that lost its last holder during the
\* walk.
THEOREM NoFailureWithoutLoss == LookupSpec => []FailsOnlyOnLoss
<1>1. IInv => FailsOnlyOnLoss
  BY DEF IInv, CreditInv
<1>. QED
  BY <1>1, Invariance, PTL
-----------------------------------------------------------------------------
(* A lookup while the table stands still.                                  *)

\* One turn of the loop of lookup, given the results f of the turns before.
LookupTurn(f, r, n) ==
    IF n = 0 THEN LookupStart ELSE LookupChunk(f[n-1], ListOf(r[n]), n)

\* f holds the results of the turns 0 to n.
LookupTurns(f, r, n) == f = [i \in 0..n |-> LookupTurn(f, r, i)]

LEMMA LookupTurnsExist ==
    ASSUME NEW r, NEW m \in Nat
    PROVE  \E f : LookupTurns(f, r, m)
<1>. DEFINE Good == {n \in Nat : \E f : LookupTurns(f, r, n)}
<1>1. 0 \in Good
  <2>1. LookupTurns([i \in 0..0 |-> LookupStart], r, 0)
    BY DEF LookupTurns, LookupTurn
  <2>. QED
    BY <2>1
<1>2. ASSUME NEW n \in Nat, n \in Good
      PROVE  n + 1 \in Good
  <2>1. PICK f : LookupTurns(f, r, n)
    BY <1>2
  <2>. DEFINE g == [i \in 0..(n+1) |-> IF i <= n THEN f[i] ELSE LookupTurn(f, r, n+1)]
  <2>2. ASSUME NEW i \in 0..(n+1) PROVE g[i] = LookupTurn(g, r, i)
    <3>1. \A j \in 0..n : g[j] = f[j]
      OBVIOUS
    <3>2. LookupTurn(g, r, i) = LookupTurn(f, r, i)
      BY <3>1 DEF LookupTurn
    <3>3. CASE i <= n
      BY <3>2, <3>3, <2>1 DEF LookupTurns
    <3>4. CASE i = n + 1
      BY <3>2, <3>4
    <3>. QED
      BY <3>3, <3>4
  <2>3. LookupTurns(g, r, n+1)
    BY <2>2 DEF LookupTurns
  <2>. QED
    BY <2>3
<1>. QED
  BY <1>1, <1>2, Induction

\* lookup is its turns, one after the other.
LEMMA LookupInTurns ==
    ASSUME NEW r \in Seq(Key)
    PROVE  \E f : /\ f[0] = LookupStart
                  /\ \A n \in 1..Len(r) : f[n] = LookupChunk(f[n-1], ListOf(r[n]), n)
                  /\ Lookup(r) = f[Len(r)]
<1>. DEFINE f == CHOOSE g : LookupTurns(g, r, Len(r))
<1>0. Len(r) \in Nat
  OBVIOUS
<1>1. LookupTurns(f, r, Len(r))
  BY <1>0, LookupTurnsExist
<1>2. \A n \in 0..Len(r) : f[n] = LookupTurn(f, r, n)
  <2>. HIDE DEF f
  <2>. QED
    BY <1>1 DEF LookupTurns
<1>3. Lookup(r) = f[Len(r)]
  BY DEF Lookup, LookupTurns, LookupTurn
<1>. HIDE DEF f
<1>4. f[0] = LookupStart
  BY <1>0, <1>2 DEF LookupTurn
<1>5. \A n \in 1..Len(r) : f[n] = LookupChunk(f[n-1], ListOf(r[n]), n)
  BY <1>0, <1>2 DEF LookupTurn
<1>. QED
  BY <1>3, <1>4, <1>5

\* Instance i holds the first n chunks of r.
HasPrefix(i, r, n) == \A j \in 1..n : HeldBy(i, r[j])

\* The location of the first metadata of instance i in a list.
FirstLocation(list, i) ==
    list[Min({p \in DOMAIN list : list[p].instance = i})].location

\* What the walk knows when m chunks have been credited.
Knows(w, r, m) ==
    /\ IsWalk(w)
    /\ w.contiguous = {i \in Instance : HasPrefix(i, r, m)}
    /\ DOMAIN w.credit = {i \in Instance : m > 0 /\ HasPrefix(i, r, 1)}
    /\ m > 0 => DOMAIN w.credit # {}
    /\ \A i \in DOMAIN w.credit : \E n \in 1..m :
           /\ HasPrefix(i, r, n)
           /\ n = m \/ ~HeldBy(i, r[n+1])
           /\ w.credit[i] = [location |-> FirstLocation(ListOf(r[n]), i), matched |-> n]
    /\ w.first = IF m = 0 THEN {} ELSE {ListOf(r[1])[1].instance}

\* The walk after n turns: it goes on, all chunks credited, or it has met one
\* after whose like nobody is contiguous.
After(w, r, n) ==
    \E m \in 0..n :
        /\ Knows(w, r, m)
        /\ \/ w.going = TRUE /\ m = n
           \/ w.going = FALSE /\ m < n /\ \A i \in Instance : ~HasPrefix(i, r, m+1)

LEMMA MinIsLeast ==
    ASSUME NEW S, S \subseteq Nat, S # {}
    PROVE  Min(S) \in S /\ \A n \in S : Min(S) <= n
  BY Least DEF Min

\* The metadata that is credited to an instance is the first of its in the list.
LEMMA CreditedIsFirst ==
    ASSUME NEW list \in Seq(Meta), NEW C, NEW i \in Holders(list, C)
    PROVE  list[CHOOSE p \in FirstOfEach(list, C) : list[p].instance = i].location
              = FirstLocation(list, i)
<1>. DEFINE S == {p \in DOMAIN list : list[p].instance = i}
            Mine(p) == list[p].instance = i
            at == FirstOfEach(list, C)
<1>0. DOMAIN list = 1..Len(list) /\ Len(list) \in Nat
  OBVIOUS
<1>1. S \subseteq Nat /\ S # {} /\ i \in C
  BY <1>0 DEF Holders
<1>2. Min(S) \in S /\ \A n \in S : Min(S) <= n
  <2>. HIDE DEF S
  <2>. QED
    BY <1>1, MinIsLeast
<1>3. PICK m \in S : m = Min(S) /\ \A n \in S : m <= n
  BY <1>2
<1>4. m \in at /\ Mine(m)
  <2>1. ASSUME NEW n \in 1..(m - 1), list[n].instance = i PROVE FALSE
    <3>1. m \in 1..Len(list)
      BY <1>0, <1>3
    <3>2. n \in S
      BY <1>0, <2>1, <3>1
    <3>. HIDE DEF S
    <3>3. m <= n
      BY <1>3, <3>2
    <3>. QED
      BY <2>1, <3>1, <3>3
  <2>. HIDE DEF S
  <2>2. m \in DOMAIN list /\ list[m].instance = i
    BY <1>3 DEF S
  <2>. QED
    BY <1>1, <2>1, <2>2 DEF FirstOfEach
<1>5. ASSUME NEW p \in at, Mine(p) PROVE p = m
  <2>1. p \in S /\ \A n \in 1..(p-1) : list[n].instance # i
    BY <1>5 DEF FirstOfEach
  <2>2. m <= p /\ ~(m < p)
    BY <1>0, <1>3, <2>1
  <2>. QED
    BY <1>0, <1>3, <2>1, <2>2
<1>6. (CHOOSE p \in at : Mine(p)) = Min(S)
  <2>. HIDE DEF S, at, Mine
  <2>. QED
    BY <1>3, <1>4, <1>5
<1>. QED
  BY <1>6 DEF FirstLocation

\* The list of a key, as lookup reads it.
LEMMA ListOfKey ==
    ASSUME TypeOK, NEW k \in Key
    PROVE  /\ ListOf(k) \in Seq(Meta)
           /\ k \in DOMAIN kv_pool => ListOf(k) = kv_pool[k] /\ ListOf(k) # <<>>
           /\ k \notin DOMAIN kv_pool => ListOf(k) = <<>>
           /\ \A i : HeldBy(i, k) <=> \E p \in DOMAIN ListOf(k) : ListOf(k)[p].instance = i
  BY DEF TypeOK, ListOf, HeldBy

\* Of all instances, the first of the list is the first.
LEMMA FirstOfAll ==
    ASSUME KVAssumption, NEW list \in Seq(Meta), FirstOfEach(list, Instance) # {}
    PROVE  FirstName(list, FirstOfEach(list, Instance)) = list[1].instance
<1>. DEFINE at == FirstOfEach(list, Instance)
<1>1. DOMAIN list = 1..Len(list) /\ Len(list) \in Nat /\ at \subseteq DOMAIN list
  BY DEF FirstOfEach
<1>2. 1 \in DOMAIN list /\ list[1] \in Meta
  BY <1>1
<1>3. 1 \in at
  BY <1>2 DEF FirstOfEach, KVAssumption, KVChunkMetadata
<1>4. Min(at) = 1
  <2>1. at \subseteq Nat
    BY <1>1
  <2>2. Min(at) \in at /\ Min(at) <= 1
    <3>. HIDE DEF at
    <3>. QED
      BY <1>3, <2>1, MinIsLeast
  <2>. QED
    BY <1>1, <2>2
<1>. QED
  BY <1>4 DEF FirstName

\* A turn of the loop keeps what the walk knows.
LEMMA LookupStep ==
    ASSUME KVAssumption, TypeOK, NEW r \in Seq(Key), NEW n \in 1..Len(r),
           NEW w, After(w, r, n-1)
    PROVE  After(LookupChunk(w, ListOf(r[n]), n), r, n)
<1>. DEFINE after == LookupChunk(w, ListOf(r[n]), n)
<1>. SUFFICES After(after, r, n)
  OBVIOUS
<1>0. n \in Nat /\ n > 0 /\ r[n] \in Key /\ ListOf(r[n]) \in Seq(Meta)
  BY ListOfKey
<1>1. PICK m \in 0..(n-1) :
          /\ Knows(w, r, m)
          /\ \/ w.going = TRUE /\ m = n - 1
             \/ w.going = FALSE /\ m < n - 1 /\ \A i \in Instance : ~HasPrefix(i, r, m+1)
  BY DEF After
<1>2. PICK list \in Seq(Meta) : list = ListOf(r[n])
  BY <1>0
<1>3. \A i : HeldBy(i, r[n]) <=> \E p \in DOMAIN list : list[p].instance = i
  BY <1>0, <1>2, ListOfKey
<1>. DEFINE at == FirstOfEach(list, w.contiguous)
            found == {list[p].instance : p \in at}
            Location1(i) == list[CHOOSE p \in at : list[p].instance = i].location
<1>4. found = Holders(list, w.contiguous) /\ (found = {} <=> at = {})
  <2>1. found = Holders(list, w.contiguous)
    BY EachHasAFirst
  <2>2. found = {} <=> at = {}
    OBVIOUS
  <2>. QED
    BY <2>1, <2>2
<1>5. CASE w.going = FALSE
  <2>1. after = [w EXCEPT !.going = FALSE]
    BY <1>5 DEF LookupChunk
  <2>2. after.going = FALSE /\ Knows(after, r, m)
    <3>. HIDE DEF after
    <3>. QED
      BY <1>1, <2>1 DEF Knows, IsWalk
  <2>3. m \in 0..n /\ m < n
    BY <1>0, <1>1
  <2>. HIDE DEF after
  <2>. QED
    BY <1>1, <1>5, <2>2, <2>3 DEF After
<1>6. ASSUME w.going = TRUE
      PROVE  /\ m = n - 1 /\ m + 1 = n
             /\ \A i : i \in found <=> i \in Instance /\ HasPrefix(i, r, n)
  <2>1. m = n - 1 /\ m + 1 = n
    BY <1>0, <1>1, <1>6
  <2>2. w.contiguous = {i \in Instance : HasPrefix(i, r, m)}
    BY <1>1 DEF Knows
  <2>3. ASSUME NEW i PROVE HasPrefix(i, r, n) <=> HasPrefix(i, r, m) /\ HeldBy(i, r[n])
    BY <1>0, <2>1 DEF HasPrefix
  <2>. QED
    BY <1>3, <1>4, <2>1, <2>2, <2>3 DEF Holders
<1>7. CASE w.going = TRUE /\ at = {}
  <2>1. after = [w EXCEPT !.going = FALSE]
    BY <1>2, <1>7 DEF LookupChunk
  <2>2. after.going = FALSE /\ Knows(after, r, m)
    <3>. HIDE DEF after
    <3>. QED
      BY <1>1, <2>1 DEF Knows, IsWalk
  <2>3. m \in 0..n /\ m < n /\ \A i \in Instance : ~HasPrefix(i, r, m+1)
    <3>. HIDE DEF found, at
    <3>1. m + 1 = n /\ \A i : i \in found <=> i \in Instance /\ HasPrefix(i, r, n)
      BY <1>6, <1>7
    <3>2. m \in 0..n /\ m < n
      BY <1>0, <1>1, <3>1
    <3>3. found = {}
      BY <1>4, <1>7
    <3>. QED
      BY <3>1, <3>2, <3>3
  <2>. HIDE DEF after
  <2>. QED
    BY <2>2, <2>3 DEF After
<1>8. CASE w.going = TRUE /\ at # {}
  <2>1. after = [going      |-> TRUE,
                 contiguous |-> found,
                 first      |-> IF DOMAIN w.credit = {}
                                THEN {FirstName(list, at)} ELSE w.first,
                 credit     |-> [i \in found \union DOMAIN w.credit |->
                                    IF i \in found
                                    THEN [location |-> Location1(i), matched |-> n]
                                    ELSE w.credit[i]]]
    BY <1>2, <1>8 DEF LookupChunk
  <2>2. /\ after.going = TRUE /\ after.contiguous = found
        /\ after.first = IF DOMAIN w.credit = {} THEN {FirstName(list, at)} ELSE w.first
        /\ DOMAIN after.credit = found \union DOMAIN w.credit
        /\ \A i \in found : after.credit[i] = [location |-> Location1(i), matched |-> n]
        /\ \A i \in DOMAIN w.credit : i \notin found => after.credit[i] = w.credit[i]
        /\ IsWalk(after)
    <3>. HIDE DEF after, found, at, Location1
    <3>. QED
      BY <2>1 DEF IsWalk
  <2>3. \A i \in found : Location1(i) = FirstLocation(ListOf(r[n]), i)
    <3>1. ASSUME NEW i \in Holders(list, w.contiguous)
          PROVE  Location1(i) = FirstLocation(list, i)
      BY CreditedIsFirst
    <3>. HIDE DEF found, Location1
    <3>. QED
      BY <1>2, <1>4, <3>1
  <2>. HIDE DEF after, Location1, found, at
  <2>0. m = n - 1 /\ m + 1 = n /\ \A i : i \in found <=> i \in Instance /\ HasPrefix(i, r, n)
    BY <1>6, <1>8
  <2>4. after.contiguous = {i \in Instance : HasPrefix(i, r, n)}
    <3>. QED
      BY <1>6, <1>8, <2>2
  <2>5. DOMAIN after.credit = {i \in Instance : n > 0 /\ HasPrefix(i, r, 1)}
    <3>1. \A i : HasPrefix(i, r, n) => HasPrefix(i, r, 1)
      BY <1>0 DEF HasPrefix
    <3>2. DOMAIN w.credit = {i \in Instance : m > 0 /\ HasPrefix(i, r, 1)}
      BY <1>1 DEF Knows
    <3>3. CASE m > 0
      <4>. QED
        BY <1>0, <1>6, <1>8, <2>2, <3>1, <3>2, <3>3
    <3>4. CASE m = 0
      <4>1. n = 1
        BY <1>0, <2>0, <3>4
      <4>. QED
        BY <1>0, <1>6, <1>8, <2>2, <3>2, <3>4, <4>1
    <3>. QED
      BY <1>1, <3>3, <3>4
  <2>6. ASSUME NEW i \in DOMAIN after.credit
        PROVE  \E l \in 1..n :
                   /\ HasPrefix(i, r, l)
                   /\ l = n \/ ~HeldBy(i, r[l+1])
                   /\ after.credit[i] = [location |-> FirstLocation(ListOf(r[l]), i),
                                         matched |-> l]
    <3>1. CASE i \in found
      <4>1. n \in 1..n
        BY <1>0
      <4>. QED
        BY <1>6, <1>8, <2>2, <2>3, <3>1, <4>1
    <3>2. CASE i \notin found
      <4>1. i \in DOMAIN w.credit /\ after.credit[i] = w.credit[i] /\ i \in Instance
        BY <2>2, <2>5, <3>2
      <4>2. PICK l \in 1..m :
                /\ HasPrefix(i, r, l)
                /\ l = m \/ ~HeldBy(i, r[l+1])
                /\ w.credit[i] = [location |-> FirstLocation(ListOf(r[l]), i),
                                  matched |-> l]
        BY <1>1, <4>1 DEF Knows
      <4>3. ~HasPrefix(i, r, n)
        BY <1>6, <1>8, <3>2, <4>1
      <4>4. ASSUME l = m PROVE ~HeldBy(i, r[l+1])
        <5>1. HasPrefix(i, r, m) /\ l + 1 = n
          BY <1>6, <1>8, <4>2, <4>4
        <5>. QED
          BY <1>0, <4>3, <4>4, <5>1 DEF HasPrefix
      <4>5. l \in 1..n
        BY <1>0, <1>1, <4>2
      <4>. QED
        BY <4>1, <4>2, <4>4, <4>5
    <3>. QED
      BY <3>1, <3>2
  <2>7. after.first = {ListOf(r[1])[1].instance}
    <3>1. CASE m = 0
      <4>1. n = 1 /\ DOMAIN w.credit = {} /\ w.contiguous = Instance
        BY <1>1, <1>6, <1>8, <3>1 DEF Knows, HasPrefix
      <4>2. FirstName(list, at) = list[1].instance
        BY <1>8, <4>1, FirstOfAll DEF at
      <4>. QED
        BY <1>2, <2>2, <4>1, <4>2
    <3>2. CASE m # 0
      <4>1. DOMAIN w.credit # {}
        BY <1>1, <3>2 DEF Knows
      <4>2. w.first = {ListOf(r[1])[1].instance}
        BY <1>1, <3>2 DEF Knows
      <4>. QED
        BY <2>2, <4>1, <4>2
    <3>. QED
      BY <3>1, <3>2
  <2>8. Knows(after, r, n)
    <3>1. after.first = IF n = 0 THEN {} ELSE {ListOf(r[1])[1].instance}
      BY <1>0, <2>7
    <3>2. DOMAIN after.credit # {}
      BY <1>4, <1>8, <2>2
    <3>. QED
      BY <2>2, <2>4, <2>5, <2>6, <3>1, <3>2 DEF Knows
  <2>9. n \in 0..n
    BY <1>0
  <2>. QED
    BY <2>2, <2>8, <2>9 DEF After
<1>9. w.going \in BOOLEAN
  BY <1>1
<1>. QED
  BY <1>5, <1>7, <1>8, <1>9

\* What the caller of lookup is told.
LEMMA LookupKnows ==
    ASSUME KVAssumption, TypeOK, NEW r \in Seq(Key)
    PROVE  After(Lookup(r), r, Len(r))
<1>0. Len(r) \in Nat
  OBVIOUS
<1>1. PICK f : /\ f[0] = LookupStart
               /\ \A n \in 1..Len(r) : f[n] = LookupChunk(f[n-1], ListOf(r[n]), n)
               /\ Lookup(r) = f[Len(r)]
  BY LookupInTurns
<1>. DEFINE Good == {n \in Nat : n <= Len(r) => After(f[n], r, n)}
<1>2. 0 \in Good
  <2>1. Knows(LookupStart, r, 0) /\ LookupStart.going = TRUE
    BY DEF Knows, LookupStart, IsWalk, HasPrefix
  <2>2. After(f[0], r, 0)
    BY <1>1, <2>1 DEF After
  <2>. QED
    BY <2>2
<1>3. ASSUME NEW n \in Nat, n \in Good PROVE n + 1 \in Good
  <2>1. SUFFICES ASSUME n + 1 <= Len(r) PROVE After(f[n+1], r, n+1)
    OBVIOUS
  <2>2. n + 1 \in 1..Len(r) /\ (n + 1) - 1 = n /\ After(f[n], r, n)
    BY <1>0, <1>3, <2>1
  <2>3. PICK q \in 1..Len(r) : q = n + 1
    BY <2>2
  <2>4. f[q] = LookupChunk(f[q-1], ListOf(r[q]), q) /\ After(f[q-1], r, q-1)
    BY <1>1, <2>2, <2>3
  <2>5. After(f[q], r, q)
    BY <2>4, LookupStep
  <2>. QED
    BY <2>3, <2>5
<1>4. Nat \subseteq Good
  <2>. HIDE DEF Good
  <2>. QED
    BY <1>2, <1>3, Induction
<1>. QED
  BY <1>0, <1>1, <1>4

\* The longest prefix is the one the walk ended with.
LEMMA LongestIsUnique ==
    ASSUME NEW r \in Seq(Key), NEW i, NEW n \in 0..Len(r), HasPrefix(i, r, n),
           n = Len(r) \/ ~HeldBy(i, r[n+1])
    PROVE  LongestPrefix(i, r) = n
<1>. DEFINE Longest(m) == /\ \A j \in 1..m : HeldBy(i, r[j])
                          /\ m = Len(r) \/ ~HeldBy(i, r[m+1])
<1>0. Len(r) \in Nat
  OBVIOUS
<1>1. Longest(n)
  BY DEF HasPrefix
<1>2. ASSUME NEW m \in 0..Len(r), Longest(m) PROVE m = n
  <2>1. ~(m < n)
    BY <1>0, <1>2 DEF HasPrefix
  <2>2. ~(n < m)
    BY <1>0, <1>2
  <2>. QED
    BY <1>0, <2>1, <2>2
<1>3. (CHOOSE m \in 0..Len(r) : Longest(m)) = n
  <2>. HIDE DEF Longest
  <2>. QED
    BY <1>1, <1>2
<1>. QED
  BY <1>3 DEF LongestPrefix

LEMMA LookupReports ==
    ASSUME KVAssumption, TypeOK, NEW r \in Requests
    PROVE  /\ DOMAIN Lookup(r).credit = {i \in Instance : HeldBy(i, r[1])}
           /\ \A i \in DOMAIN Lookup(r).credit :
                  /\ r[LongestPrefix(i, r)] \in DOMAIN kv_pool
                  /\ Lookup(r).credit[i] =
                         [location |-> FirstLocation(ListOf(r[LongestPrefix(i, r)]), i),
                          matched  |-> LongestPrefix(i, r)]
           /\ Lookup(r).first = IF r[1] \in DOMAIN kv_pool
                                THEN {ListOf(r[1])[1].instance} ELSE {}
<1>0. r \in Seq(Key) /\ Len(r) \in Nat /\ Len(r) > 0 /\ r[1] \in Key
  BY DEF KVAssumption
<1>1. PICK w : w = Lookup(r)
  OBVIOUS
<1>2. PICK m \in 0..Len(r) :
          /\ Knows(w, r, m)
          /\ \/ m = Len(r)
             \/ m < Len(r) /\ \A i \in Instance : ~HasPrefix(i, r, m+1)
  BY <1>0, <1>1, LookupKnows DEF After
<1>3. \A i : HasPrefix(i, r, 1) <=> HeldBy(i, r[1])
  BY DEF HasPrefix
<1>4. DOMAIN w.credit = {i \in Instance : HeldBy(i, r[1])}
  <2>1. CASE m > 0
    BY <1>2, <1>3, <2>1 DEF Knows
  <2>2. CASE m = 0
    BY <1>0, <1>2, <1>3, <2>2 DEF Knows
  <2>. QED
    BY <1>0, <2>1, <2>2
<1>5. ASSUME NEW i \in DOMAIN w.credit
      PROVE  /\ r[LongestPrefix(i, r)] \in DOMAIN kv_pool
             /\ w.credit[i] = [location |-> FirstLocation(ListOf(r[LongestPrefix(i, r)]), i),
                               matched  |-> LongestPrefix(i, r)]
  <2>1. PICK n \in 1..m :
            /\ HasPrefix(i, r, n)
            /\ n = m \/ ~HeldBy(i, r[n+1])
            /\ w.credit[i] = [location |-> FirstLocation(ListOf(r[n]), i), matched |-> n]
    BY <1>2 DEF Knows
  <2>2. n = Len(r) \/ ~HeldBy(i, r[n+1])
    <3>1. i \in Instance
      BY <1>4
    <3>2. CASE n = m /\ m < Len(r)
      <4>1. ~HasPrefix(i, r, m+1)
        BY <1>2, <3>1, <3>2
      <4>. QED
        BY <1>0, <2>1, <3>2, <4>1 DEF HasPrefix
    <3>. QED
      BY <1>0, <1>2, <2>1, <3>2
  <2>3. n \in 0..Len(r)
    BY <1>0
  <2>4. LongestPrefix(i, r) = n
    BY <1>0, <2>1, <2>2, <2>3, LongestIsUnique
  <2>5. r[n] \in DOMAIN kv_pool
    <3>1. HeldBy(i, r[n])
      BY <2>1 DEF HasPrefix
    <3>. QED
      BY <3>1 DEF HeldBy, ListOf
  <2>. QED
    BY <2>1, <2>4, <2>5
<1>6. w.first = IF r[1] \in DOMAIN kv_pool THEN {ListOf(r[1])[1].instance} ELSE {}
  <2>1. r[1] \in DOMAIN kv_pool <=> \E i \in Instance : HeldBy(i, r[1])
    <3>1. ASSUME r[1] \in DOMAIN kv_pool PROVE \E i \in Instance : HeldBy(i, r[1])
      <4>1. PICK list \in Seq(Meta) : list = ListOf(r[1]) /\ list # <<>>
        BY <1>0, <3>1, ListOfKey
      <4>2. 1 \in DOMAIN list /\ list[1] \in Meta
        BY <4>1
      <4>3. list[1].instance \in Instance
        BY <4>2 DEF KVAssumption, KVChunkMetadata
      <4>. QED
        BY <1>0, <4>1, <4>2, <4>3, ListOfKey
    <3>2. ASSUME r[1] \notin DOMAIN kv_pool PROVE \A i : ~HeldBy(i, r[1])
      BY <3>2 DEF HeldBy, ListOf
    <3>. QED
      BY <3>1, <3>2
  <2>2. CASE m = 0
    BY <1>0, <1>2, <1>3, <2>1, <2>2 DEF Knows
  <2>3. CASE m > 0
    <3>1. w.first = {ListOf(r[1])[1].instance}
      BY <1>2, <2>3 DEF Knows
    <3>2. \E i \in Instance : HeldBy(i, r[1])
      BY <1>2, <1>4, <2>3 DEF Knows
    <3>. QED
      BY <2>1, <3>1, <3>2
  <2>. QED
    BY <1>0, <2>2, <2>3
<1>. QED
  BY <1>1, <1>4, <1>5, <1>6

\* For any table and prompt: lookup reports each instance that holds the first
\* chunk, and no other, with its own longest gapless prefix and the location of
\* the first of its metadata for the last chunk of that.
THEOREM LongestPrefixes == Spec => []LookupIsLongestPrefix
<1>1. ASSUME TypeOK PROVE LookupIsLongestPrefix
  <2>1. ASSUME NEW r \in Requests, NEW i \in DOMAIN Lookup(r).credit
        PROVE  LET n  == LongestPrefix(i, r)
                   at == {p \in DOMAIN ListOf(r[n]) : kv_pool[r[n]][p].instance = i}
               IN  Lookup(r).credit[i] = [location |-> kv_pool[r[n]][Min(at)].location,
                                          matched  |-> n]
    <3>. DEFINE n == LongestPrefix(i, r)
    <3>1. /\ r[n] \in DOMAIN kv_pool
          /\ Lookup(r).credit[i] = [location |-> FirstLocation(ListOf(r[n]), i),
                                    matched  |-> n]
      BY <1>1, <2>1, LookupReports, KVAssumption
    <3>. HIDE DEF n
    <3>2. ListOf(r[n]) = kv_pool[r[n]]
      BY <3>1 DEF ListOf
    <3>3. Lookup(r).credit[i] =
              [location |-> kv_pool[r[n]][Min({p \in DOMAIN ListOf(r[n]) :
                                kv_pool[r[n]][p].instance = i})].location,
               matched  |-> n]
      BY <3>1, <3>2 DEF FirstLocation
    <3>. QED
      BY <3>3 DEF n
  <2>2. ASSUME NEW r \in Requests
        PROVE  DOMAIN Lookup(r).credit = {i \in Instance : HeldBy(i, r[1])}
    BY <1>1, LookupReports, KVAssumption
  <2>. QED
    BY <2>1, <2>2 DEF LookupIsLongestPrefix
<1>. QED
  BY <1>1, TypeCorrect, PTL

\* For any table and prompt: the first name in lookup's answer, which kvaware
\* follows, is the instance at the head of the list of the prompt's first chunk.
THEOREM HeadIsNamed == Spec => []FirstNameIsUpstreams
<1>1. ASSUME TypeOK PROVE FirstNameIsUpstreams
  <2>1. ASSUME NEW r \in Requests
        PROVE  Lookup(r).first = IF r[1] \in DOMAIN kv_pool
                                 THEN {kv_pool[r[1]][1].instance} ELSE {}
    BY <1>1, LookupReports, KVAssumption DEF ListOf
  <2>. QED
    BY <2>1 DEF FirstNameIsUpstreams
<1>. QED
  BY <1>1, TypeCorrect, PTL
-----------------------------------------------------------------------------
(* A peer-to-peer lookup.                                                  *)

\* One turn of batched_p2p_lookup, given the results f of the turns before.
PeerChunk(before, k, query) ==
    IF \/ ~before.going
       \/ Peers(k, query) = {}
       \/ before.hits > 0 /\ before.peer # FirstPeer(k, query)
    THEN [before EXCEPT !.going = FALSE]
    ELSE [going |-> TRUE, hits |-> before.hits + 1, peer |-> FirstPeer(k, query)]

PeerStart == [going |-> TRUE, hits |-> 0, peer |-> <<>>]

PeerTurn(f, query, r, n) ==
    IF n = 0 THEN PeerStart ELSE PeerChunk(f[n-1], r[n], query)

\* f holds the results of the turns 0 to n.
PeerTurns(f, query, r, n) == f = [i \in 0..n |-> PeerTurn(f, query, r, i)]

LEMMA PeerTurnsExist ==
    ASSUME NEW query, NEW r, NEW m \in Nat
    PROVE  \E f : PeerTurns(f, query, r, m)
<1>. DEFINE Good == {n \in Nat : \E f : PeerTurns(f, query, r, n)}
<1>1. 0 \in Good
  <2>1. PeerTurns([i \in 0..0 |-> PeerStart], query, r, 0)
    BY DEF PeerTurns, PeerTurn
  <2>. QED
    BY <2>1
<1>2. ASSUME NEW n \in Nat, n \in Good
      PROVE  n + 1 \in Good
  <2>1. PICK f : PeerTurns(f, query, r, n)
    BY <1>2
  <2>. DEFINE g == [i \in 0..(n+1) |-> IF i <= n THEN f[i] ELSE PeerTurn(f, query, r, n+1)]
  <2>2. ASSUME NEW i \in 0..(n+1) PROVE g[i] = PeerTurn(g, query, r, i)
    <3>1. \A j \in 0..n : g[j] = f[j]
      OBVIOUS
    <3>2. PeerTurn(g, query, r, i) = PeerTurn(f, query, r, i)
      BY <3>1 DEF PeerTurn
    <3>3. CASE i <= n
      BY <3>2, <3>3, <2>1 DEF PeerTurns
    <3>4. CASE i = n + 1
      BY <3>2, <3>4
    <3>. QED
      BY <3>3, <3>4
  <2>3. PeerTurns(g, query, r, n+1)
    BY <2>2 DEF PeerTurns
  <2>. QED
    BY <2>3
<1>. QED
  BY <1>1, <1>2, Induction

LEMMA PeerLookupInTurns ==
    ASSUME NEW query, NEW r \in Seq(Key)
    PROVE  \E f : /\ f[0] = PeerStart
                  /\ \A n \in 1..Len(r) : f[n] = PeerChunk(f[n-1], r[n], query)
                  /\ BatchedP2PLookup(query, r) = f[Len(r)]
<1>. DEFINE f == CHOOSE g : PeerTurns(g, query, r, Len(r))
<1>0. Len(r) \in Nat
  OBVIOUS
<1>1. PeerTurns(f, query, r, Len(r))
  BY <1>0, PeerTurnsExist
<1>2. \A n \in 0..Len(r) : f[n] = PeerTurn(f, query, r, n)
  <2>. HIDE DEF f
  <2>. QED
    BY <1>1 DEF PeerTurns
<1>3. BatchedP2PLookup(query, r) = f[Len(r)]
  BY DEF BatchedP2PLookup, PeerTurns, PeerTurn, PeerStart, PeerChunk
<1>. HIDE DEF f
<1>4. f[0] = PeerStart
  BY <1>0, <1>2 DEF PeerTurn
<1>5. \A n \in 1..Len(r) : f[n] = PeerChunk(f[n-1], r[n], query)
  BY <1>0, <1>2 DEF PeerTurn
<1>. QED
  BY <1>3, <1>4, <1>5

\* The count after n turns: its chunks have one first peer, and the walk goes on
\* while that is so.
Counted(w, query, r, n) ==
    /\ DOMAIN w = {"going", "hits", "peer"}
    /\ w.hits \in 0..n
    /\ \A j \in 1..w.hits : Peers(r[j], query) # {} /\ FirstPeer(r[j], query) = w.peer
    /\ \/ w.going = TRUE /\ w.hits = n
       \/ /\ w.going = FALSE /\ w.hits < n
          /\ \/ Peers(r[w.hits + 1], query) = {}
             \/ w.hits > 0 /\ w.peer # FirstPeer(r[w.hits + 1], query)

LEMMA PeerStep ==
    ASSUME NEW query, NEW r \in Seq(Key), NEW n \in 1..Len(r),
           NEW w, Counted(w, query, r, n-1)
    PROVE  Counted(PeerChunk(w, r[n], query), query, r, n)
<1>. DEFINE after == PeerChunk(w, r[n], query)
<1>. SUFFICES Counted(after, query, r, n)
  OBVIOUS
<1>0. /\ n \in Nat /\ n > 0 /\ w.hits \in 0..(n-1) /\ w.hits \in Nat
      /\ DOMAIN w = {"going", "hits", "peer"}
  BY DEF Counted
<1>1. CASE w.going = FALSE
  <2>1. after = [w EXCEPT !.going = FALSE]
    BY <1>1 DEF PeerChunk
  <2>. HIDE DEF after
  <2>2. /\ DOMAIN after = {"going", "hits", "peer"} /\ after.going = FALSE
        /\ after.hits = w.hits /\ after.peer = w.peer
    BY <1>0, <2>1
  <2>. QED
    BY <1>0, <1>1, <2>2 DEF Counted
<1>2. CASE /\ w.going = TRUE
           /\ \/ Peers(r[n], query) = {}
              \/ w.hits > 0 /\ w.peer # FirstPeer(r[n], query)
  <2>1. after = [w EXCEPT !.going = FALSE]
    BY <1>2 DEF PeerChunk
  <2>. HIDE DEF after
  <2>2. /\ DOMAIN after = {"going", "hits", "peer"} /\ after.going = FALSE
        /\ after.hits = w.hits /\ after.peer = w.peer
    BY <1>0, <2>1
  <2>3. w.hits + 1 = n
    BY <1>0, <1>2 DEF Counted
  <2>. QED
    BY <1>0, <1>2, <2>2, <2>3 DEF Counted
<1>3. CASE /\ w.going = TRUE
           /\ Peers(r[n], query) # {}
           /\ w.hits > 0 => w.peer = FirstPeer(r[n], query)
  <2>1. after = [going |-> TRUE, hits |-> w.hits + 1, peer |-> FirstPeer(r[n], query)]
    BY <1>3 DEF PeerChunk
  <2>. HIDE DEF after
  <2>2. w.hits + 1 = n
    BY <1>0, <1>3 DEF Counted
  <2>3. /\ DOMAIN after = {"going", "hits", "peer"} /\ after.going = TRUE
        /\ after.hits = n /\ after.peer = FirstPeer(r[n], query)
    BY <2>1, <2>2
  <2>4. ASSUME NEW j \in 1..n
        PROVE  Peers(r[j], query) # {} /\ FirstPeer(r[j], query) = after.peer
    <3>1. CASE j = n
      BY <1>3, <2>3, <3>1
    <3>2. CASE j # n
      <4>1. j \in 1..w.hits /\ w.hits > 0
        BY <1>0, <2>2, <3>2
      <4>. QED
        BY <1>3, <2>3, <4>1 DEF Counted
    <3>. QED
      BY <3>1, <3>2
  <2>. QED
    BY <1>0, <2>3, <2>4 DEF Counted
<1>. QED
  BY <1>1, <1>2, <1>3 DEF Counted

LEMMA PeerLookupCounts ==
    ASSUME NEW query, NEW r \in Seq(Key)
    PROVE  Counted(BatchedP2PLookup(query, r), query, r, Len(r))
<1>0. Len(r) \in Nat
  OBVIOUS
<1>1. PICK f : /\ f[0] = PeerStart
               /\ \A n \in 1..Len(r) : f[n] = PeerChunk(f[n-1], r[n], query)
               /\ BatchedP2PLookup(query, r) = f[Len(r)]
  BY PeerLookupInTurns
<1>. DEFINE Good == {n \in Nat : n <= Len(r) => Counted(f[n], query, r, n)}
<1>2. 0 \in Good
  <2>1. Counted(f[0], query, r, 0)
    BY <1>1 DEF Counted, PeerStart
  <2>. QED
    BY <2>1
<1>3. ASSUME NEW n \in Nat, n \in Good PROVE n + 1 \in Good
  <2>1. SUFFICES ASSUME n + 1 <= Len(r) PROVE Counted(f[n+1], query, r, n+1)
    OBVIOUS
  <2>2. n + 1 \in 1..Len(r) /\ (n + 1) - 1 = n /\ Counted(f[n], query, r, n)
    BY <1>0, <1>3, <2>1
  <2>3. PICK q \in 1..Len(r) : q = n + 1
    BY <2>2
  <2>4. f[q] = PeerChunk(f[q-1], r[q], query) /\ Counted(f[q-1], query, r, q-1)
    BY <1>1, <2>2, <2>3
  <2>5. Counted(f[q], query, r, q)
    BY <2>4, PeerStep
  <2>. QED
    BY <2>3, <2>5
<1>4. Nat \subseteq Good
  <2>. HIDE DEF Good
  <2>. QED
    BY <1>2, <1>3, Induction
<1>. QED
  BY <1>0, <1>1, <1>4

\* A first peer is a holder of the chunk, and another instance than the asking one.
LEMMA FirstPeerHolds ==
    ASSUME TypeOK, NEW k \in Key, NEW query, Peers(k, query) # {}
    PROVE  /\ FirstPeer(k, query)[1] # query
           /\ \E m \in Range(ListOf(k)) : FirstPeer(k, query) = <<m.instance, m.location>>
<1>1. k \in DOMAIN kv_pool /\ ListOf(k) = kv_pool[k] /\ ListOf(k) \in Seq(Meta)
  <2>1. k \in DOMAIN kv_pool
    BY ListOfKey DEF Peers
  <2>. QED
    BY <2>1, ListOfKey
<1>2. PICK list \in Seq(Meta) : list = kv_pool[k] /\ list = ListOf(k)
  BY <1>1
<1>3. DOMAIN list = 1..Len(list) /\ Len(list) \in Nat
  OBVIOUS
<1>4. Peers(k, query) = {n \in DOMAIN list : list[n].instance # query}
  BY <1>2 DEF Peers
<1>5. Peers(k, query) \subseteq Nat
  BY <1>3, <1>4
<1>6. PICK p \in Peers(k, query) : p = Min(Peers(k, query))
  BY <1>5, MinIsLeast
<1>7. p \in DOMAIN list /\ list[p].instance # query
  BY <1>4
<1>8. FirstPeer(k, query) = <<list[p].instance, list[p].location>>
  BY <1>2, <1>6 DEF FirstPeer
<1>9. list[p] \in Range(ListOf(k))
  BY <1>2, <1>7 DEF Range
<1>. QED
  BY <1>7, <1>8, <1>9

\* For any table, prompt and asking instance: the reply counts leading chunks that
\* one other instance holds at one location, and stops only where nobody else
\* holds the next or the first of those who do is another peer.
THEOREM OnePeer == Spec => []P2PReplyIsOnePeer
<1>1. ASSUME TypeOK PROVE P2PReplyIsOnePeer
  <2>1. SUFFICES ASSUME NEW r \in Requests, NEW query \in Instance
                 PROVE  LET reply == BatchedP2PLookup(query, r)
                        IN  /\ \A n \in 1..reply.hits :
                                   /\ reply.peer[1] # query
                                   /\ \E m \in Range(ListOf(r[n])) :
                                          reply.peer = <<m.instance, m.location>>
                            /\ reply.hits < Len(r) =>
                                   LET k == r[reply.hits + 1]
                                   IN  \/ \A i \in Instance : HeldBy(i, k) => i = query
                                       \/ reply.hits > 0 /\ FirstPeer(k, query) # reply.peer
    BY Zenon DEF P2PReplyIsOnePeer
  <2>. DEFINE reply == BatchedP2PLookup(query, r)
  <2>2. r \in Seq(Key) /\ Len(r) \in Nat
    BY KVAssumption DEF KVAssumption
  <2>3. Counted(reply, query, r, Len(r))
    BY <2>2, PeerLookupCounts
  <2>. HIDE DEF reply
  <2>4. ASSUME NEW n \in 1..reply.hits
        PROVE  /\ reply.peer[1] # query
               /\ \E m \in Range(ListOf(r[n])) : reply.peer = <<m.instance, m.location>>
    <3>1. r[n] \in Key /\ Peers(r[n], query) # {} /\ FirstPeer(r[n], query) = reply.peer
      BY <2>2, <2>3 DEF Counted
    <3>2. /\ FirstPeer(r[n], query)[1] # query
          /\ \E m \in Range(ListOf(r[n])) : FirstPeer(r[n], query) = <<m.instance, m.location>>
      BY <1>1, <3>1, FirstPeerHolds
    <3>. QED
      BY <3>1, <3>2
  <2>5. ASSUME reply.hits < Len(r)
        PROVE  \/ \A i \in Instance : HeldBy(i, r[reply.hits + 1]) => i = query
               \/ reply.hits > 0 /\ FirstPeer(r[reply.hits + 1], query) # reply.peer
    <3>. DEFINE k == r[reply.hits + 1]
    <3>1. k \in Key
      BY <2>2, <2>3, <2>5 DEF Counted
    <3>2. \/ Peers(k, query) = {}
          \/ reply.hits > 0 /\ reply.peer # FirstPeer(k, query)
      <4>1. reply.hits # Len(r)
        BY <2>2, <2>3, <2>5 DEF Counted
      <4>. QED
        BY <2>3, <4>1 DEF Counted
    <3>. HIDE DEF k
    <3>3. ASSUME Peers(k, query) = {}, NEW i \in Instance, HeldBy(i, k) PROVE i = query
      <4>1. PICK p \in DOMAIN ListOf(k) : ListOf(k)[p].instance = i
        BY <3>3 DEF HeldBy
      <4>2. ListOf(k) = kv_pool[k]
        BY <4>1 DEF ListOf
      <4>. QED
        BY <3>3, <4>1, <4>2 DEF Peers
    <3>4. \/ \A i \in Instance : HeldBy(i, k) => i = query
          \/ reply.hits > 0 /\ FirstPeer(k, query) # reply.peer
      BY <3>2, <3>3
    <3>. QED
      BY <3>4 DEF k
  <2>. QED
    BY <2>4, <2>5 DEF reply
<1>. QED
  BY <1>1, TypeCorrect, PTL
=============================================================================
