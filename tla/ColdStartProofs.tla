--------------------------- MODULE ColdStartProofs ---------------------------
(***************************************************************************)
(* Theorems about cold_start.sh, for any number of replicas, of container  *)
(* restarts and of lost pods: what a start that ends clean, and whose      *)
(* tests were answered, leaves behind.                                     *)
(***************************************************************************)
EXTENDS ColdStart, FiniteSetTheorems, WellFoundedInduction, TLAPS

(* The start, from its last state to its first.                            *)
Scaled == {"scaling", "registrations", "stale ids", "clean"}

TypeInv ==
    /\ pc \in Scaled \union {"idle", "drain", "draining", "restart", "restarting"}
    /\ blind \in BOOLEAN /\ restarted \in BOOLEAN /\ rolling \in BOOLEAN
    /\ desired \in {0, Replicas}
    /\ pods \subseteq Pod /\ terminating \subseteq pods
    /\ older \subseteq pods /\ joined \subseteq pods
    /\ logged \in [Pod -> Nat]

\* Kubernetes keeps no more engines than the deployment may ask for.
ReplicasInv == Cardinality(pods \ terminating) <= Replicas

\* What the answered tests of a start have made of the engines: from the end of
\* the drain to the scaling up there is none, so those there are since then have
\* seen no router but this one, and none of them is told to stop.
DrainInv ==
    /\ pc = "draining" => desired = 0
    /\ pc \in {"restart", "restarting"} /\ ~blind => pods = {} /\ desired = 0
    /\ pc \in Scaled => ~rolling
    /\ pc \in Scaled /\ ~blind => terminating = {} /\ older = {}

\* Since the router was restarted, and while no container was, no name is in the
\* log twice, and those of the pods there are belong to engines it knows.
LogInv ==
    pc \in Scaled \union {"restarting"} /\ ~rolling /\ ~restarted =>
        \A p \in Pod : /\ logged[p] <= 1
                       /\ p \in pods /\ logged[p] > 0 => p \in joined

\* What the assertions have established and nothing takes back: the names of the
\* pods are at most as many as the replicas, and those in the log at least.
AssertionInv ==
    /\ pc \in {"stale ids", "clean"} =>
           live \subseteq Pod /\ (~restarted => Cardinality(Ids) >= Replicas)
    /\ pc = "stale ids" /\ ~blind =>
           live \subseteq pods \union lost /\ Cardinality(live) <= Replicas
    /\ pc = "clean" /\ ~blind =>
           Ids \subseteq pods \union lost /\ (~restarted => live \subseteq Ids)

IInv == TypeInv /\ ReplicasInv /\ DrainInv /\ LogInv /\ AssertionInv
-----------------------------------------------------------------------------
(* The log, which Registrations sums over the names of the pods.           *)

LEMMA Least ==
    ASSUME NEW S, S \subseteq Nat, S # {}
    PROVE  \E x \in S : \A y \in S : x <= y
<1>. DEFINE R == OpToRel(<, Nat)
<1>1. IsWellFoundedOn(R, Nat)
  BY NatLessThanWellFounded
<1>. HIDE DEF R
<1>2. PICK x \in S : \A y \in S : ~ (<<y, x>> \in R)
  BY <1>1, WFMin
<1>3. ASSUME NEW y \in S, y < x PROVE FALSE
  BY <1>2, <1>3 DEF R, OpToRel
<1>. QED
  BY <1>2, <1>3

LEMMA Induction ==
    ASSUME NEW S, 0 \in S, \A n \in Nat : n \in S => n + 1 \in S
    PROVE  Nat \subseteq S
<1>. SUFFICES ASSUME Nat \ S # {} PROVE FALSE
  OBVIOUS
<1>1. PICK x \in Nat \ S : \A y \in Nat \ S : x <= y
  BY Least
<1>2. x # 0 /\ x - 1 \in Nat /\ x - 1 \in S
  BY <1>1
<1>. QED
  BY <1>1, <1>2

LEMMA LeastIsMember ==
    ASSUME NEW S, S \subseteq Nat, S # {}
    PROVE  Min(S) \in S
  BY Least DEF Min

\* One turn of the sum over s, given the sums f of the sets that are smaller.
Turn(f, s) ==
    IF s = {} THEN 0
    ELSE LET x == CHOOSE y \in s : TRUE IN logged[x] + f[s \ {x}]

Chosen(s) == CHOOSE x \in s : TRUE

LEMMA Smaller ==
    ASSUME NEW s \in SUBSET Pod, s # {}
    PROVE  /\ Chosen(s) \in s /\ s \ {Chosen(s)} \in SUBSET Pod
           /\ Cardinality(s) \in Nat /\ Cardinality(s \ {Chosen(s)}) \in Nat
           /\ Cardinality(s \ {Chosen(s)}) = Cardinality(s) - 1
<1>1. Chosen(s) \in s
  BY DEF Chosen
<1>2. IsFiniteSet(s)
  BY EnginesAssumption, FS_Subset
<1>3. IsFiniteSet(s \ {Chosen(s)})
  BY <1>2, FS_RemoveElement
<1>. QED
  BY <1>1, <1>2, <1>3, FS_RemoveElement, FS_CardinalityType

LEMMA OnlyTheEmpty ==
    ASSUME NEW s \in SUBSET Pod, Cardinality(s) <= 0
    PROVE  s = {}
<1>1. IsFiniteSet(s)
  BY EnginesAssumption, FS_Subset
<1>2. Cardinality(s) \in Nat
  BY <1>1, FS_CardinalityType
<1>3. Cardinality(s) = 0
  BY <1>2
<1>. QED
  BY <1>1, <1>3, FS_EmptySet

\* The recursion of the sum has a solution.
LEMMA TurnsExist == \E f : f = [s \in SUBSET Pod |-> Turn(f, s)]
<1>. DEFINE Upto(f, n) == \A s \in SUBSET Pod : Cardinality(s) <= n => f[s] = Turn(f, s)
            Good == {n \in Nat : \E f : Upto(f, n)}
<1>1. 0 \in Good
  <2>. DEFINE f == [s \in SUBSET Pod |-> 0]
  <2>1. ASSUME NEW s \in SUBSET Pod, Cardinality(s) <= 0 PROVE f[s] = Turn(f, s)
    <3>1. s = {}
      BY <2>1, OnlyTheEmpty
    <3>. QED
      BY <3>1 DEF Turn
  <2>. QED
    BY <2>1
<1>2. ASSUME NEW n \in Nat, n \in Good PROVE n + 1 \in Good
  <2>1. PICK f : Upto(f, n)
    BY <1>2
  <2>. DEFINE g == [s \in SUBSET Pod |-> IF Cardinality(s) <= n THEN f[s] ELSE Turn(f, s)]
  <2>2. ASSUME NEW s \in SUBSET Pod, Cardinality(s) <= n + 1 PROVE g[s] = Turn(g, s)
    <3>1. Turn(g, s) = Turn(f, s)
      <4>1. CASE s = {}
        BY <4>1 DEF Turn
      <4>2. CASE s # {}
        <5>1. g[s \ {Chosen(s)}] = f[s \ {Chosen(s)}]
          BY <2>2, <4>2, Smaller
        <5>. HIDE DEF g
        <5>. QED
          BY <4>2, <5>1 DEF Turn, Chosen
      <4>. QED
        BY <4>1, <4>2
    <3>2. CASE Cardinality(s) <= n
      BY <2>1, <3>1, <3>2
    <3>3. CASE ~(Cardinality(s) <= n)
      BY <3>1, <3>3
    <3>. QED
      BY <3>2, <3>3
  <2>3. Upto(g, n + 1)
    BY <2>2
  <2>. HIDE DEF Upto, g
  <2>. QED
    BY <2>3
<1>3. IsFiniteSet(Pod) /\ Cardinality(Pod) \in Nat
  BY EnginesAssumption, FS_CardinalityType
<1>4. Cardinality(Pod) \in Good
  <2>. HIDE DEF Good
  <2>. QED
    BY <1>1, <1>2, <1>3, Induction
<1>5. PICK f : Upto(f, Cardinality(Pod))
  BY <1>4
<1>. DEFINE g == [s \in SUBSET Pod |-> f[s]]
<1>6. ASSUME NEW s \in SUBSET Pod PROVE f[s] = Turn(f, s)
  BY <1>3, <1>5, FS_Subset
<1>7. ASSUME NEW s \in SUBSET Pod PROVE Turn(g, s) = Turn(f, s)
  BY Smaller DEF Turn, Chosen
<1>8. g = [s \in SUBSET Pod |-> Turn(g, s)]
  <2>1. \A s \in SUBSET Pod : g[s] = Turn(g, s)
    BY <1>6, <1>7
  <2>. QED
    BY <2>1
<1>. HIDE DEF g
<1>. QED
  BY <1>8

\* Where no name is in the log twice, it has no more lines than names.
LEMMA LinesPerName ==
    ASSUME logged \in [Pod -> Nat], \A p \in Pod : logged[p] <= 1
    PROVE  /\ Registrations \in Nat /\ Cardinality(Ids) \in Nat
           /\ Registrations <= Cardinality(Ids)
<1>. DEFINE f == CHOOSE g : g = [s \in SUBSET Pod |-> Turn(g, s)]
            Fine(s) == f[s] \in Nat /\ f[s] <= Cardinality(s \intersect Ids)
            Good == {n \in Nat : \A s \in SUBSET Pod : Cardinality(s) <= n => Fine(s)}
<1>0. IsFiniteSet(Pod) /\ Cardinality(Pod) \in Nat
  BY EnginesAssumption, FS_CardinalityType
<1>1. f = [s \in SUBSET Pod |-> Turn(f, s)]
  BY TurnsExist
<1>2. Registrations = f[Pod]
  BY DEF Registrations, MapThenSumSet, MapThenFoldSet, Turn
<1>. HIDE DEF f
<1>3. \A s \in SUBSET Pod : f[s] = Turn(f, s)
  BY <1>1
<1>4. Fine({})
  <2>1. f[{}] = 0
    BY <1>3 DEF Turn
  <2>2. {} \intersect Ids = {}
    OBVIOUS
  <2>. QED
    BY <2>1, <2>2, FS_EmptySet
<1>5. 0 \in Good
  <2>1. \A s \in SUBSET Pod : Cardinality(s) <= 0 => s = {}
    BY OnlyTheEmpty
  <2>. QED
    BY <1>4, <2>1
<1>6. ASSUME NEW n \in Nat, n \in Good PROVE n + 1 \in Good
  <2>1. SUFFICES ASSUME NEW s \in SUBSET Pod, Cardinality(s) <= n + 1, s # {}
                 PROVE  Fine(s)
    <3>. HIDE DEF Fine
    <3>. QED
      BY <1>4
  <2>. DEFINE x == Chosen(s)
              r == s \ {x}
  <2>2. x \in s /\ r \in SUBSET Pod /\ Cardinality(r) \in Nat /\ Cardinality(r) <= n
    BY <2>1, Smaller
  <2>3. f[r] \in Nat /\ f[r] <= Cardinality(r \intersect Ids)
    BY <1>6, <2>2
  <2>4. f[s] = logged[x] + f[r]
    BY <1>3, <2>1 DEF Turn, Chosen
  <2>5. IsFiniteSet(r \intersect Ids)
    BY <1>0, <2>2, FS_Subset
  <2>6. Cardinality(r \intersect Ids) \in Nat
    BY <2>5, FS_CardinalityType
  <2>7. CASE logged[x] = 0
    <3>1. s \intersect Ids = r \intersect Ids
      BY <2>7 DEF Ids
    <3>2. f[s] = f[r]
      <4>. HIDE DEF r, x
      <4>. QED
        BY <2>3, <2>4, <2>7
    <3>. QED
      BY <2>3, <3>1, <3>2
  <2>8. CASE logged[x] = 1
    <3>1. s \intersect Ids = (r \intersect Ids) \union {x}
      BY <2>2, <2>8 DEF Ids
    <3>2. x \notin r \intersect Ids
      OBVIOUS
    <3>3. Cardinality(s \intersect Ids) = Cardinality(r \intersect Ids) + 1
      <4>. HIDE DEF r, x
      <4>. QED
        BY <2>5, <3>1, <3>2, FS_AddElement
    <3>. QED
      BY <2>3, <2>4, <2>6, <2>8, <3>3
  <2>9. logged[x] = 0 \/ logged[x] = 1
    BY <2>2
  <2>. QED
    BY <2>7, <2>8, <2>9
<1>7. Cardinality(Pod) \in Good
  <2>. HIDE DEF Good
  <2>. QED
    BY <1>0, <1>5, <1>6, Induction
<1>8. Fine(Pod)
  BY <1>0, <1>7
<1>9. Pod \intersect Ids = Ids /\ IsFiniteSet(Ids)
  BY <1>0, FS_Subset DEF Ids
<1>. QED
  BY <1>2, <1>8, <1>9, FS_CardinalityType
-----------------------------------------------------------------------------
(* The steps.                                                              *)

LEMMA Finite ==
    ASSUME NEW S \in SUBSET Pod
    PROVE  IsFiniteSet(S) /\ Cardinality(S) \in Nat
  BY EnginesAssumption, FS_Subset, FS_CardinalityType

LEMMA InitInv == Init => IInv
<1>. SUFFICES ASSUME Init PROVE IInv
  OBVIOUS
<1>1. TypeInv /\ DrainInv /\ LogInv /\ AssertionInv
  BY DEF Init, EnginesInit, TypeInv, DrainInv, LogInv, AssertionInv, Scaled
<1>2. ReplicasInv
  <2>1. pods \ terminating = {}
    BY DEF Init, EnginesInit
  <2>. QED
    BY <2>1, FS_EmptySet, EnginesAssumption DEF ReplicasInv
<1>. QED
  BY <1>1, <1>2 DEF IInv

\* The commands of the script that ask for another state of the deployments.
LEMMA CommandStep ==
    ASSUME IInv, Deploy \/ Begin \/ Drain \/ RestartRouter \/ ScaleUp \/ Ends
    PROVE  IInv'
<1>1. TypeInv'
  BY DEF IInv, TypeInv, Scaled, Deploy, Begin, Drain, RestartRouter, ScaleUp, Ends,
         engineVars, history
<1>2. ReplicasInv'
  <2>1. CASE Drain
    <3>1. pods' \ terminating' = {}
      BY <2>1 DEF Drain
    <3>. QED
      BY <3>1, FS_EmptySet, EnginesAssumption DEF ReplicasInv
  <2>2. CASE Deploy \/ Begin \/ RestartRouter \/ ScaleUp \/ Ends
    BY <2>2 DEF IInv, ReplicasInv, Deploy, Begin, RestartRouter, ScaleUp, Ends, engineVars
  <2>. QED
    BY <2>1, <2>2
<1>3. DrainInv'
  <2>1. CASE ScaleUp
    <3>1. pc' = "scaling" /\ ~rolling' /\ blind' = blind
          /\ terminating' = terminating /\ older' = older
      BY <2>1 DEF ScaleUp
    <3>2. ~blind => terminating = {} /\ older = {}
      BY <2>1 DEF ScaleUp, IInv, TypeInv, DrainInv
    <3>. QED
      BY <3>1, <3>2 DEF DrainInv
  <2>2. CASE RestartRouter
    BY <2>2 DEF RestartRouter, IInv, DrainInv, Scaled
  <2>3. CASE Deploy \/ Begin \/ Drain \/ Ends
    BY <2>3 DEF DrainInv, Scaled, Deploy, Begin, Drain, Ends
  <2>. QED
    BY <2>1, <2>2, <2>3
<1>4. LogInv'
  BY DEF IInv, LogInv, Scaled, Deploy, Begin, Drain, RestartRouter, ScaleUp, Ends,
         engineVars, history
<1>5. AssertionInv'
  BY DEF IInv, AssertionInv, Scaled, Deploy, Begin, Drain, RestartRouter, ScaleUp, Ends
<1>. QED
  BY <1>1, <1>2, <1>3, <1>4, <1>5 DEF IInv

\* Its tests of the pods.
LEMMA TestStep ==
    ASSUME IInv, Drained \/ ScaledUp
    PROVE  IInv'
<1>. USE DEF Drained, ScaledUp, engineVars, accidents, history
<1>1. TypeInv'
  BY DEF IInv, TypeInv, Scaled
<1>2. ReplicasInv'
  BY DEF IInv, ReplicasInv
<1>3. DrainInv'
  <2>1. CASE Drained
    <3>1. desired = 0
      BY <2>1 DEF IInv, DrainInv
    <3>2. pc' = "restart" /\ pods' = pods /\ desired' = desired /\ (~blind' => pods = {})
      BY <2>1
    <3>. HIDE DEF Drained
    <3>. QED
      BY <3>1, <3>2 DEF DrainInv, Scaled
  <2>2. CASE ScaledUp
    BY <2>2 DEF IInv, DrainInv, Scaled
  <2>. QED
    BY <2>1, <2>2
<1>4. LogInv'
  BY DEF IInv, LogInv, Scaled
<1>5. AssertionInv'
  BY DEF AssertionInv
<1>. QED
  BY <1>1, <1>2, <1>3, <1>4, <1>5 DEF IInv

\* With as many lines as replicas the log has as many names: no name has two.
LEMMA RegisteredStep ==
    ASSUME IInv, Registered
    PROVE  IInv'
<1>. USE DEF Registered, engineVars, accidents
<1>1. TypeInv'
  BY DEF IInv, TypeInv, Scaled
<1>2. ReplicasInv'
  BY DEF IInv, ReplicasInv
<1>3. DrainInv'
  BY DEF IInv, DrainInv, Scaled
<1>4. LogInv'
  BY DEF IInv, LogInv, Scaled
<1>5. AssertionInv'
  <2>1. ASSUME ~restarted PROVE Cardinality(Ids) >= Replicas
    <3>1. /\ logged \in [Pod -> Nat] /\ \A p \in Pod : logged[p] <= 1
          /\ pods \subseteq Pod
      BY <2>1 DEF IInv, TypeInv, DrainInv, LogInv, Scaled
    <3>2. /\ Registrations \in Nat /\ Cardinality(Ids) \in Nat
          /\ Registrations <= Cardinality(Ids)
      BY <3>1, LinesPerName
    <3>3. Registrations >= Replicas
      OBVIOUS
    <3>. HIDE DEF Registered
    <3>. QED
      BY <3>2, <3>3, EnginesAssumption
  <2>2. Ids' = Ids
    BY DEF Ids
  <2>3. ASSUME ~blind PROVE Cardinality(pods) <= Replicas
    <3>1. pods \ terminating = pods
      BY <2>3 DEF IInv, DrainInv, Scaled
    <3>. QED
      BY <3>1 DEF IInv, ReplicasInv
  <2>4. pods \subseteq Pod
    BY DEF IInv, TypeInv
  <2>. HIDE DEF Registered
  <2>5. live' = pods /\ pods' = pods /\ lost' = {} /\ pc' = "stale ids"
        /\ blind' = blind /\ restarted' = restarted
    BY DEF Registered
  <2>6. Cardinality(live') = Cardinality(pods) /\ Cardinality(Ids') = Cardinality(Ids)
    BY <2>2, <2>5
  <2>. QED
    BY <2>1, <2>3, <2>4, <2>5, <2>6 DEF AssertionInv
<1>. QED
  BY <1>1, <1>2, <1>3, <1>4, <1>5 DEF IInv

\* With no name that is not live, and as many of them as pods were live, each
\* pod that was live is named.
LEMMA NoStaleIdStep ==
    ASSUME IInv, NoStaleId
    PROVE  IInv'
<1>. USE DEF NoStaleId, engineVars, accidents, history
<1>1. TypeInv'
  BY DEF IInv, TypeInv, Scaled
<1>2. ReplicasInv'
  BY DEF IInv, ReplicasInv
<1>3. DrainInv'
  BY DEF IInv, DrainInv, Scaled
<1>4. LogInv'
  BY DEF IInv, LogInv, Scaled
<1>5. AssertionInv'
  <2>1. Ids' = Ids
    BY DEF Ids
  <2>2. live \subseteq Pod /\ (~restarted => Cardinality(Ids) >= Replicas)
    BY DEF IInv, AssertionInv
  <2>3. ASSUME ~blind'
        PROVE  Ids \subseteq pods \union lost /\ (~restarted => live \subseteq Ids)
    <3>1. ~blind /\ Ids \subseteq live
      <4>1. CASE Ids \subseteq live /\ UNCHANGED blind
        BY <2>3, <4>1
      <4>2. CASE blind' = TRUE
        BY <2>3, <4>2
      <4>. QED
        BY <4>1, <4>2
    <3>2. live \subseteq pods \union lost /\ Cardinality(live) <= Replicas
      BY <3>1 DEF IInv, AssertionInv
    <3>3. ASSUME ~restarted PROVE live = Ids
      <4>1. IsFiniteSet(live) /\ Cardinality(live) \in Nat /\ Cardinality(Ids) \in Nat
        BY <2>2, <3>1, Finite
      <4>2. Cardinality(Ids) <= Cardinality(live)
        BY <3>1, <4>1, FS_Subset
      <4>3. Cardinality(Ids) >= Replicas
        BY <2>2, <3>3
      <4>4. Cardinality(live) = Cardinality(Ids)
        <5>. HIDE DEF NoStaleId
        <5>. QED
          BY <3>2, <4>1, <4>2, <4>3, EnginesAssumption
      <4>. QED
        BY <3>1, <4>1, <4>4, FS_Subset
    <3>. QED
      BY <3>1, <3>2, <3>3
  <2>4. pc' = "clean" /\ live' = live /\ pods' = pods /\ lost' = lost /\ restarted' = restarted
    OBVIOUS
  <2>5. Cardinality(Ids') = Cardinality(Ids)
    BY <2>1
  <2>. HIDE DEF NoStaleId
  <2>. QED
    BY <2>1, <2>2, <2>3, <2>4, <2>5 DEF AssertionInv
<1>. QED
  BY <1>1, <1>2, <1>3, <1>4, <1>5 DEF IInv
\* What the assertions have established, no engine's step takes back.
LEMMA AssertionFrame ==
    ASSUME AssertionInv, UNCHANGED <<pc, live, blind>>, restarted' = restarted \/ restarted',
           pods \union lost \subseteq pods' \union lost' \/ pc \notin Scaled \/ blind,
           Ids \subseteq Ids', Ids' \subseteq Ids \union pods',
           Cardinality(Ids) >= Replicas => Cardinality(Ids') >= Replicas
    PROVE  AssertionInv'
<1>1. CASE pc \notin {"stale ids", "clean"}
  BY <1>1 DEF AssertionInv
<1>2. CASE pc = "stale ids"
  <2>1. Cardinality(live') = Cardinality(live)
    OBVIOUS
  <2>. QED
    BY <1>2, <2>1 DEF AssertionInv, Scaled
<1>3. CASE pc = "clean"
  BY <1>3 DEF AssertionInv, Scaled
<1>. QED
  BY <1>1, <1>2, <1>3

\* No process that the script waited for is there when the new router starts.
LEMMA RouterStartsStep ==
    ASSUME IInv, RouterStarts, UNCHANGED <<pc, live, blind, history>>
    PROVE  IInv'
<1>. USE DEF RouterStarts, accidents, history
<1>0. pc \notin Scaled
  BY DEF IInv, DrainInv
<1>1. TypeInv'
  BY DEF IInv, TypeInv, Scaled
<1>2. ReplicasInv'
  BY DEF IInv, ReplicasInv
<1>3. DrainInv'
  BY <1>0 DEF IInv, DrainInv, Scaled
<1>4. LogInv'
  BY DEF IInv, LogInv
<1>5. AssertionInv'
  BY <1>0 DEF AssertionInv, Scaled
<1>. QED
  BY <1>1, <1>2, <1>3, <1>4, <1>5 DEF IInv

\* A new pod has a name that is not in the log, and none starts in a deployment
\* that is scaled to zero.
LEMMA PodStartsStep ==
    ASSUME IInv, PodStarts(live \union lost), UNCHANGED <<pc, live, blind, history>>
    PROVE  IInv'
<1>. DEFINE unused == Pod \ (pods \union Ids \union (live \union lost))
            q == Min(unused)
<1>1. /\ unused # {} /\ pods' = pods \union {q}
      /\ Cardinality(pods \ terminating) < desired
      /\ UNCHANGED <<rolling, desired, terminating, older, joined, logged, pc, live, blind,
                     lost, restarted>>
  BY DEF PodStarts, accidents, history
<1>2. q \in unused
  <2>. HIDE DEF unused
  <2>1. unused \subseteq Nat
    BY EnginesAssumption DEF unused
  <2>. QED
    BY <1>1, <2>1, LeastIsMember
<1>. HIDE DEF q
<1>3. pods \subseteq Pod /\ terminating \subseteq pods /\ desired \in {0, Replicas}
      /\ logged \in [Pod -> Nat]
  BY DEF IInv, TypeInv
<1>4. desired # 0
  BY <1>1, <1>3, Finite
<1>5. logged[q] = 0
  BY <1>2, <1>3 DEF Ids
<1>6. TypeInv'
  BY <1>1, <1>2 DEF IInv, TypeInv
<1>7. ReplicasInv'
  <2>1. pods' \ terminating' = (pods \ terminating) \union {q} /\ q \notin pods \ terminating
    BY <1>1, <1>2, <1>3
  <2>2. IsFiniteSet(pods \ terminating) /\ Cardinality(pods \ terminating) \in Nat
    BY <1>3, Finite
  <2>3. Cardinality(pods' \ terminating') = Cardinality(pods \ terminating) + 1
    BY <2>1, <2>2, FS_AddElement
  <2>. QED
    BY <1>1, <1>3, <2>2, <2>3, EnginesAssumption DEF ReplicasInv
<1>8. DrainInv'
  BY <1>1, <1>4 DEF IInv, DrainInv
<1>9. LogInv'
  BY <1>1, <1>2, <1>5 DEF IInv, LogInv
<1>10. AssertionInv'
  <2>1. Ids' = Ids
    BY <1>1 DEF Ids
  <2>2. Cardinality(Ids') = Cardinality(Ids)
    BY <2>1
  <2>. QED
    BY <1>1, <2>1, <2>2, AssertionFrame DEF IInv
<1>. QED
  BY <1>6, <1>7, <1>8, <1>9, <1>10 DEF IInv

\* A pod that goes is one that was told to stop, or is among the lost.
LEMMA GoneStep ==
    ASSUME IInv, NEW p \in Pod, Gone(p),
           \/ p \in terminating /\ lost' = lost
           \/ p \in pods \ terminating /\ lost' = lost \union {p},
           UNCHANGED <<pc, live, blind, restarted>>
    PROVE  IInv'
<1>. USE DEF Gone
<1>1. TypeInv'
  BY DEF IInv, TypeInv
<1>2. ReplicasInv'
  <2>. DEFINE S == pods \ terminating
  <2>1. pods' \ terminating' = S \/ pods' \ terminating' = S \ {p}
    BY DEF IInv, TypeInv
  <2>2. S \in SUBSET Pod
    BY DEF IInv, TypeInv
  <2>. HIDE DEF S
  <2>3. /\ Cardinality(S) \in Nat /\ Cardinality(S \ {p}) \in Nat
        /\ Cardinality(S \ {p}) <= Cardinality(S)
    BY <2>2, Finite, FS_Subset
  <2>4. Cardinality(S) <= Replicas
    BY DEF IInv, ReplicasInv, S
  <2>5. Cardinality(pods' \ terminating') <= Replicas
    BY <2>1, <2>3, <2>4, EnginesAssumption
  <2>. QED
    BY <2>5 DEF ReplicasInv
<1>3. DrainInv'
  BY DEF IInv, DrainInv
<1>4. LogInv'
  BY DEF IInv, LogInv
<1>5. AssertionInv'
  <2>1. Ids' = Ids
    BY DEF Ids
  <2>2. Cardinality(Ids') = Cardinality(Ids)
    BY <2>1
  <2>3. pc \in Scaled /\ ~blind => terminating = {}
    BY DEF IInv, DrainInv
  <2>4. pc \in Scaled /\ ~blind => pods \union lost \subseteq pods' \union lost'
    BY <2>3
  <2>. QED
    BY <2>1, <2>2, <2>4, AssertionFrame DEF IInv
<1>. QED
  BY <1>1, <1>2, <1>3, <1>4, <1>5 DEF IInv

LEMMA RestartStep ==
    ASSUME IInv, NEW p \in Pod, ContainerRestarts(p), restarted' = TRUE,
           UNCHANGED <<lost, pc, live, blind>>
    PROVE  IInv'
<1>. USE DEF ContainerRestarts
<1>1. TypeInv'
  BY DEF IInv, TypeInv
<1>2. ReplicasInv'
  BY DEF IInv, ReplicasInv
<1>3. DrainInv'
  BY DEF IInv, DrainInv
<1>4. LogInv'
  BY DEF LogInv
<1>5. AssertionInv'
  <2>1. Ids' = Ids
    BY DEF Ids
  <2>. QED
    BY <2>1, AssertionFrame DEF IInv
<1>. QED
  BY <1>1, <1>2, <1>3, <1>4, <1>5 DEF IInv

\* A process joins once; the name that it may add to the log is that of a pod.
LEMMA JoinStep ==
    ASSUME IInv, NEW p \in Pod, Join(p), UNCHANGED <<pc, live, blind, history>>
    PROVE  IInv'
<1>1. /\ p \in pods \ joined /\ joined' = joined \union {p}
      /\ logged' = [logged EXCEPT ![p] = @ + 1]
      /\ UNCHANGED <<rolling, desired, pods, terminating, older, pc, live, blind, lost,
                     restarted>>
  BY DEF Join, history
<1>2. logged \in [Pod -> Nat]
  BY DEF IInv, TypeInv
<1>3. /\ logged' \in [Pod -> Nat] /\ logged'[p] = logged[p] + 1
      /\ \A q \in Pod : q # p => logged'[q] = logged[q]
  BY <1>1, <1>2
<1>4. TypeInv'
  BY <1>1, <1>3 DEF IInv, TypeInv
<1>5. ReplicasInv'
  BY <1>1 DEF IInv, ReplicasInv
<1>6. DrainInv'
  BY <1>1 DEF IInv, DrainInv
<1>7. LogInv'
  <2>1. SUFFICES ASSUME pc \in Scaled \union {"restarting"}, ~rolling, ~restarted,
                        NEW q \in Pod
                 PROVE  /\ logged'[q] <= 1
                        /\ q \in pods /\ logged'[q] > 0 => q \in joined'
    BY <1>1 DEF LogInv
  <2>2. /\ logged[q] <= 1 /\ (q \in pods /\ logged[q] > 0 => q \in joined)
    BY <2>1 DEF IInv, LogInv
  <2>3. CASE q = p
    BY <1>1, <1>2, <1>3, <2>2, <2>3
  <2>4. CASE q # p
    BY <1>1, <1>3, <2>2, <2>4
  <2>. QED
    BY <2>3, <2>4
<1>8. AssertionInv'
  <2>1. Ids' = Ids \union {p}
    BY <1>2, <1>3 DEF Ids
  <2>2. Ids \in SUBSET Pod /\ Ids' \in SUBSET Pod
    BY DEF Ids
  <2>3. /\ Cardinality(Ids) \in Nat /\ Cardinality(Ids') \in Nat
        /\ Cardinality(Ids) <= Cardinality(Ids')
    BY <2>1, <2>2, Finite, FS_Subset
  <2>4. Cardinality(Ids) >= Replicas => Cardinality(Ids') >= Replicas
    BY <2>3, EnginesAssumption
  <2>. QED
    BY <1>1, <2>1, <2>4, AssertionFrame DEF IInv
<1>. QED
  BY <1>4, <1>5, <1>6, <1>7, <1>8 DEF IInv

LEMMA StutterStep ==
    ASSUME IInv, UNCHANGED vars
    PROVE  IInv'
<1>. USE DEF vars, engineVars, history
<1>1. TypeInv' /\ ReplicasInv' /\ DrainInv' /\ LogInv'
  BY DEF IInv, TypeInv, ReplicasInv, DrainInv, LogInv
<1>2. Ids' = Ids
  BY DEF Ids
<1>. QED
  BY <1>1, <1>2, AssertionFrame DEF IInv

LEMMA Inductive == IInv /\ [Next]_vars => IInv'
<1>. SUFFICES ASSUME IInv, [Next]_vars PROVE IInv'
  OBVIOUS
<1>1. CASE Deploy \/ Script
  BY <1>1, CommandStep, TestStep, RegisteredStep, NoStaleIdStep DEF Script
<1>2. CASE Kubernetes
  <2>1. CASE RouterStarts
    BY <1>2, <2>1, RouterStartsStep DEF Kubernetes
  <2>2. CASE PodStarts(live \union lost)
    BY <1>2, <2>2, PodStartsStep DEF Kubernetes
  <2>3. ASSUME NEW p \in Pod, PodStops(p) PROVE IInv'
    BY <1>2, <2>3, GoneStep DEF Kubernetes, PodStops, history
  <2>4. ASSUME NEW p \in Pod, Join(p) PROVE IInv'
    BY <1>2, <2>4, JoinStep DEF Kubernetes
  <2>. QED
    BY <1>2, <2>1, <2>2, <2>3, <2>4 DEF Kubernetes
<1>3. CASE Accident
  <2>1. ASSUME NEW p \in Pod, PodIsLost(p), lost' = lost \union {p}, UNCHANGED restarted
        PROVE  IInv'
    BY <1>3, <2>1, GoneStep DEF Accident, PodIsLost
  <2>2. ASSUME NEW p \in Pod, ContainerRestarts(p), restarted' = TRUE, UNCHANGED lost
        PROVE  IInv'
    BY <1>3, <2>2, RestartStep DEF Accident
  <2>. QED
    BY <1>3, <2>1, <2>2 DEF Accident
<1>4. CASE UNCHANGED vars
  BY <1>4, StutterStep
<1>. QED
  BY <1>1, <1>2, <1>3, <1>4 DEF Next

LEMMA Invariance == Spec => []IInv
<1>. QED
  BY InitInv, Inductive, PTL DEF Spec
-----------------------------------------------------------------------------
\* Whatever stops, starts and registers meanwhile, the registry that an answered
\* start leaves names no engine that was gone when it looked: run_cell.sh may
\* measure it.
THEOREM NothingStale == Spec => []NoStaleRegistration
<1>1. IInv => NoStaleRegistration
  BY DEF IInv, AssertionInv, NoStaleRegistration
<1>. QED
  BY <1>1, Invariance, PTL

\* The order that cold_start.sh is there for: every engine that serves the
\* measurement was started after the router that it reports to.
THEOREM RouterFirst == Spec => []RouterBeforeEngines
<1>1. IInv => RouterBeforeEngines
  BY DEF IInv, DrainInv, Scaled, RouterBeforeEngines
<1>. QED
  BY <1>1, Invariance, PTL

\* The count of the log's lines and the comparison of its names are enough
\* together: while no container restarts, no engine is missing from the registry.
THEOREM NobodyMissing == Spec => []EveryEngineIsKnown
<1>1. IInv => EveryEngineIsKnown
  <2>. SUFFICES ASSUME IInv, pc = "clean", ~blind, ~restarted
                PROVE  Cardinality(Ids) >= Replicas /\ live \intersect pods \subseteq joined
    BY DEF EveryEngineIsKnown
  <2>1. Cardinality(Ids) >= Replicas /\ live \subseteq Ids /\ ~rolling /\ pods \subseteq Pod
    BY DEF IInv, TypeInv, DrainInv, AssertionInv, Scaled
  <2>2. \A p \in Pod : p \in pods /\ logged[p] > 0 => p \in joined
    BY <2>1 DEF IInv, LogInv, Scaled
  <2>. QED
    BY <2>1, <2>2 DEF Ids
<1>. QED
  BY <1>1, Invariance, PTL
=============================================================================
