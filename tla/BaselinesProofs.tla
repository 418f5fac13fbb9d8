--------------------------- MODULE BaselinesProofs ---------------------------
(***************************************************************************)
(* Theorems about the whole router process, for any command lines, files,  *)
(* configurations and lists: which router serves and what becomes of the   *)
(* controllers, and what the routers without a controller answer.          *)
(***************************************************************************)
EXTENDS Baselines, FiniteSetTheorems, SequenceTheorems, WellFoundedInduction, TLAPS

LEMMA Least ==
    ASSUME NEW S, S \subseteq Nat, S # {}
    PROVE  \E x \in S : \A y \in S : x <= y
<1>. DEFINE R == OpToRel(<, Nat)
<1>1. IsWellFoundedOn(R, Nat)
  BY NatLessThanWellFounded
<1>. HIDE DEF R
<1>2. PICK x \in S : \A y \in S : ~ (<<y, x>> \in R)
  BY <1>1, WFMin
<1>3. ASSUME NEW y \in S, y < x PROVE FALSE
  BY <1>2, <1>3 DEF R, OpToRel
<1>. QED
  BY <1>2, <1>3
-----------------------------------------------------------------------------
(* The registry.                                                           *)

RegistryType ==
    /\ instances \subseteq Registry!RoutingLogic
    /\ task \in [Registry!WithController -> {"none", "running", "failed"}]
    /\ pc \in {"down", "idle", "cleanup"}
    /\ cleaning \in 1..(Len(Registry!ClassOrder) + 1)
    /\ found \in {"none"} \union Registry!Default

(* Neither property is inductive.  A reconfiguration installs the next      *)
(* router over what its cleanup left, so the invariant has to say what the  *)
(* cleanup has done so far: of the classes it has passed, only those that a *)
(* late call brought back are registered.  While it goes on the old         *)
(* configuration is still the current one, and an exception that cuts it    *)
(* short leaves the router that raised, which is that one.                  *)
RegistryInv ==
    /\ RegistryType
    /\ revived \subseteq instances \cap Registry!Default
    /\ instances \subseteq {current.routing_logic} \union revived
    /\ pc = "down" => instances = {} /\ found = "none"
    /\ pc # "cleanup" => cleaning = 1
    /\ pc = "idle" /\ instances = {} => current.routing_logic = "none"
    /\ \A n \in 1..(cleaning - 1) :
           Registry!ClassOrder[n] \in instances => Registry!ClassOrder[n] \in revived
    /\ NoOrphanController

\* Every class has its place in the tuple.
LEMMA Order ==
    /\ Len(Registry!ClassOrder) = 6 /\ DOMAIN Registry!ClassOrder = 1..6
    /\ \A c \in Registry!RoutingLogic : \E n \in 1..6 : Registry!ClassOrder[n] = c
    /\ "none" \notin Registry!RoutingLogic
<1>1. Len(Registry!ClassOrder) = 6 /\ DOMAIN Registry!ClassOrder = 1..6
  BY DEF Registry!ClassOrder
<1>2. /\ Registry!ClassOrder[1] = "session" /\ Registry!ClassOrder[2] = "roundrobin"
      /\ Registry!ClassOrder[3] = "kvaware" /\ Registry!ClassOrder[4] = "loadaware"
      /\ Registry!ClassOrder[5] = "prefixaware" /\ Registry!ClassOrder[6] = "disaggregated_prefill"
  BY DEF Registry!ClassOrder
<1>. QED
  BY <1>1, <1>2 DEF Registry!RoutingLogic

LEMMA MinOfPositions ==
    ASSUME NEW S, S \subseteq 1..6, S # {}
    PROVE  Registry!Min(S) \in S /\ \A n \in S : Registry!Min(S) <= n
<1>1. S \subseteq Nat
  OBVIOUS
<1>. QED
  BY <1>1, Least DEF Registry!Min

\* get_routing_logic returns a registered class, if there is one.
LEMMA Serving ==
    ASSUME instances \subseteq Registry!RoutingLogic
    PROVE  IF instances = {} THEN Registry!GetRoutingLogic = "none"
                             ELSE Registry!GetRoutingLogic \in instances
<1>1. CASE instances = {}
  BY <1>1 DEF Registry!GetRoutingLogic
<1>2. CASE instances # {}
  <2>. DEFINE S == {n \in 1..6 : Registry!ClassOrder[n] \in instances}
              First(n) == /\ Registry!ClassOrder[n] \in instances
                          /\ \A p \in 1..(n-1) : Registry!ClassOrder[p] \notin instances
  <2>1. S # {} /\ S \subseteq 1..6
    BY <1>2, Order
  <2>2. PICK m \in S : \A n \in S : m <= n
    BY <2>1, MinOfPositions
  <2>3. m \in DOMAIN Registry!ClassOrder /\ First(m)
    BY <2>2, Order
  <2>4. First(CHOOSE n \in DOMAIN Registry!ClassOrder : First(n))
    BY <2>3
  <2>. QED
    BY <1>2, <2>4 DEF Registry!GetRoutingLogic
<1>. QED
  BY <1>1, <1>2

LEMMA RegistryInitial == Registry!Init => RegistryInv
<1>1. Len(Registry!ClassOrder) = 6
  BY Order
<1>. QED
  BY <1>1 DEF Registry!Init, RegistryInv, RegistryType, NoOrphanController,
              Registry!NoOrphanController, Registry!WithController

\* initialize, for any configuration, whether it returns or raises.
LEMMA ConfigureStep ==
    ASSUME RegistryInv, NEW config,
           Registry!Initialize(config) \/ Registry!InitializeRaises(config)
    PROVE  RegistryInv'
<1>. USE DEF RegistryInv, RegistryType, NoOrphanController, Registry!NoOrphanController
<1>1. instances \subseteq revived /\ cleaning' = 1 /\ Len(Registry!ClassOrder) = 6
  <2>1. CASE pc = "down"
    BY <2>1, Order DEF Registry!Initialize, Registry!InitializeRaises
  <2>2. CASE cleaning > Len(Registry!ClassOrder)
    BY <2>2, Order DEF Registry!Initialize, Registry!InitializeRaises
  <2>. QED
    BY <2>1, <2>2, Order DEF Registry!Initialize, Registry!InitializeRaises, Registry!Initializing
<1>2. CASE Registry!Initialize(config)
  <2>. DEFINE c == config.routing_logic
  <2>1. /\ c \in Registry!RoutingLogic /\ instances' = instances \union {c}
        /\ task' = IF c \in Registry!WithController THEN [task EXCEPT ![c] = "running"] ELSE task
        /\ pc' = "idle" /\ cleaning' = 1 /\ current' = config
        /\ UNCHANGED <<found, revived>>
    BY <1>2 DEF Registry!Initialize, Registry!Constructible
  <2>. HIDE DEF c
  <2>2. current'.routing_logic = c
    BY <2>1 DEF c
  <2>. QED
    BY <1>1, <2>1, <2>2
<1>3. CASE Registry!InitializeRaises(config)
  <2>1. current'.routing_logic = "none"
    BY <1>3 DEF Registry!InitializeRaises, Registry!NoConfiguration
  <2>. QED
    BY <1>1, <1>3, <2>1 DEF Registry!InitializeRaises
<1>. QED
  BY <1>2, <1>3

LEMMA CleanStep ==
    ASSUME RegistryInv, Registry!Clean
    PROVE  RegistryInv'
<1>. USE DEF RegistryInv, RegistryType, NoOrphanController, Registry!NoOrphanController
<1>. DEFINE ahead == {n \in cleaning..Len(Registry!ClassOrder) :
                        Registry!ClassOrder[n] \in instances}
            c == Registry!ClassOrder[Registry!Min(ahead)]
<1>1. /\ pc = "cleanup" /\ cleaning \in 1..6 /\ Len(Registry!ClassOrder) = 6
      /\ revived' = revived \intersect instances'
      /\ UNCHANGED <<found, current>>
  BY Order DEF Registry!Clean
<1>2. CASE ahead = {}
  <2>1. cleaning' = 7 /\ UNCHANGED <<instances, task, pc>>
    BY <1>1, <1>2 DEF Registry!Clean
  <2>2. ASSUME NEW n \in 1..6, Registry!ClassOrder[n] \in instances
        PROVE  Registry!ClassOrder[n] \in revived
    BY <1>1, <1>2, <2>2
  <2>. QED
    BY <1>1, <2>1, <2>2
<1>3. ASSUME ahead # {}
      PROVE  /\ Registry!Min(ahead) \in cleaning..6 /\ c \in instances
             /\ \A n \in cleaning..(Registry!Min(ahead) - 1) : Registry!ClassOrder[n] \notin instances
  <2>1. ahead \subseteq 1..6
    BY <1>1
  <2>2. PICK m \in ahead : m = Registry!Min(ahead) /\ \A n \in ahead : m <= n
    BY <1>3, <2>1, MinOfPositions
  <2>3. m \in cleaning..6 /\ Registry!ClassOrder[m] \in instances
    BY <1>1, <2>2
  <2>4. ASSUME NEW n \in cleaning..(m - 1), Registry!ClassOrder[n] \in instances PROVE FALSE
    BY <1>1, <2>2, <2>3, <2>4
  <2>. HIDE DEF ahead
  <2>. QED
    BY <2>2, <2>3, <2>4
<1>4. CASE ahead # {} /\ ~Registry!CloseRaises(c)
  <2>1. PICK m \in cleaning..6 :
            /\ m = Registry!Min(ahead)
            /\ \A n \in cleaning..(m - 1) : Registry!ClassOrder[n] \notin instances
    BY <1>3, <1>4
  <2>2. /\ instances' = instances \ {Registry!ClassOrder[m]}
        /\ task' = IF Registry!ClassOrder[m] \in Registry!WithController
                   THEN [task EXCEPT ![Registry!ClassOrder[m]] = "none"] ELSE task
        /\ cleaning' = m + 1 /\ UNCHANGED pc
    BY <1>4, <2>1 DEF Registry!Clean, Registry!Deregistered
  <2>3. ASSUME NEW n \in 1..m, Registry!ClassOrder[n] \in instances'
        PROVE  Registry!ClassOrder[n] \in revived'
    BY <1>1, <2>1, <2>2, <2>3
  <2>. HIDE DEF ahead, c
  <2>. QED
    BY <1>1, <2>1, <2>2, <2>3
<1>5. CASE ahead # {} /\ Registry!CloseRaises(c)
  <2>1. pc' = "idle" /\ cleaning' = 1 /\ UNCHANGED <<instances, task>>
    BY <1>5 DEF Registry!Clean
  <2>2. instances # {}
    BY <1>3, <1>5
  <2>. HIDE DEF ahead, c
  <2>. QED
    BY <1>1, <2>1, <2>2
<1>. QED
  BY <1>1, <1>2, <1>4, <1>5 DEF Registry!Clean

LEMMA IsServed ==
    ASSUME RegistryInv
    PROVE  ServedByTheConfigured
<1>1. CASE instances = {}
  BY <1>1, Serving
     DEF RegistryInv, RegistryType, ServedByTheConfigured, Registry!ServedByTheConfigured
<1>2. CASE instances # {}
  BY <1>2, Serving
     DEF RegistryInv, RegistryType, ServedByTheConfigured, Registry!ServedByTheConfigured
<1>. QED
  BY <1>1, <1>2

\* The watcher, a request that overlaps it, a failing task, the end of the process.
LEMMA RegistryStepInv ==
    ASSUME RegistryInv, RegistryStep
    PROVE  RegistryInv'
<1>. USE DEF NoOrphanController, Registry!NoOrphanController
<1>1. CASE Registry!Stop
  BY <1>1, Order DEF Registry!Stop, RegistryInv, RegistryType, Registry!WithController
<1>2. CASE Registry!Reconfigure
  BY <1>2, Order DEF Registry!Reconfigure, RegistryInv, RegistryType
<1>3. CASE Registry!Find
  <2>1. found' \in Registry!Default
    BY <1>3 DEF Registry!Find
  <2>. QED
    BY <1>3, <2>1, Order DEF Registry!Find, RegistryInv, RegistryType
<1>4. CASE Registry!Call
  <2>1. found \in Registry!RoutingLogic /\ found \in Registry!Default
    BY <1>4 DEF Registry!Call, RegistryInv, RegistryType, Registry!Default,
                Registry!RoutingLogic
  <2>. QED
    BY <1>4, <2>1, Order DEF Registry!Call, RegistryInv, RegistryType
<1>5. ASSUME NEW c \in Registry!WithController, Registry!TaskFails(c) PROVE RegistryInv'
  BY <1>5, Order DEF Registry!TaskFails, RegistryInv, RegistryType
<1>. QED
  BY <1>1, <1>2, <1>3, <1>4, <1>5, CleanStep, ConfigureStep
     DEF RegistryStep, Registry!Watcher

LEMMA RegistryInductive ==
    ASSUME RegistryInv, [BaselinesNext]_allVars
    PROVE  RegistryInv'
<1>1. CASE Launch
  BY <1>1, ConfigureStep DEF Launch, Registry!Launch
<1>2. CASE RegistryStep
  BY <1>2, RegistryStepInv
<1>3. CASE Serve \/ UNCHANGED allVars
  <2>1. UNCHANGED registryVars
    BY <1>3 DEF Serve, allVars
  <2>. QED
    BY <2>1, Order DEF registryVars, RegistryInv, RegistryType, NoOrphanController,
                       Registry!NoOrphanController
<1>. QED
  BY <1>1, <1>2, <1>3 DEF BaselinesNext

LEMMA RegistryInvariance == BaselinesSpec => []RegistryInv
<1>1. BaselinesInit => RegistryInv
  BY RegistryInitial DEF BaselinesInit
<1>. QED
  BY <1>1, RegistryInductive, PTL DEF BaselinesSpec

\* Whatever the router process is started with and reconfigured to, whatever a
\* cleanup, a failed one or a request that overlaps it leaves registered:
\* get_routing_logic answers with the router configured last, with one that such
\* a request brought back, or with none.
THEOREM Served == BaselinesSpec => []ServedByTheConfigured
  BY IsServed, RegistryInvariance, PTL

\* In such a process a controller's task that was not told to end belongs to a
\* registered router, so a later cleanup finds it.
THEOREM Owned == BaselinesSpec => []NoOrphanController
<1>1. RegistryInv => NoOrphanController
  BY DEF RegistryInv
<1>. QED
  BY <1>1, RegistryInvariance, PTL
-----------------------------------------------------------------------------
(* The disaggregated router.                                               *)

\* The router that is registered has the labels of the configuration, for none is
\* installed over another one.
LabelsInv ==
    "disaggregated_prefill" \in instances =>
        labels = [prefill |-> current.prefill_model_labels,
                  decode  |-> current.decode_model_labels]

\* A configuration is installed only when the disaggregated router is gone.
LEMMA InstalledLate ==
    ASSUME RegistryInv, Registry!Initializing
    PROVE  "disaggregated_prefill" \notin instances
<1>1. "disaggregated_prefill" \notin Registry!Default
  BY DEF Registry!Default
<1>2. CASE pc = "down"
  BY <1>2 DEF RegistryInv
<1>3. CASE cleaning > Len(Registry!ClassOrder)
  <2>1. cleaning = 7 /\ Registry!ClassOrder[6] = "disaggregated_prefill"
    BY <1>3, Order DEF RegistryInv, RegistryType, Registry!ClassOrder
  <2>. QED
    BY <1>1, <2>1, Order DEF RegistryInv
<1>. QED
  BY <1>2, <1>3 DEF Registry!Initializing

LEMMA CurrentStays ==
    ASSUME RegistryInv, Launch \/ RegistryStep,
           "disaggregated_prefill" \in instances, "disaggregated_prefill" \in instances'
    PROVE  current' = current
<1>1. ~Registry!Initializing
  BY InstalledLate
<1>2. ASSUME NEW config, Registry!Initialize(config) \/ Registry!InitializeRaises(config)
      PROVE  FALSE
  BY <1>1, <1>2 DEF Registry!Initialize, Registry!InitializeRaises
<1>3. ~Registry!Stop
  BY DEF Registry!Stop
<1>4. ~Launch
  BY <1>2 DEF Launch, Registry!Launch
<1>5. RegistryStep
  BY <1>4
<1>. QED
  BY <1>2, <1>3, <1>5
     DEF RegistryStep, Registry!Watcher, Registry!Reconfigure, Registry!Clean,
         Registry!Find, Registry!Call, Registry!TaskFails

LEMMA LabelsInductive ==
    ASSUME RegistryInv, LabelsInv, [BaselinesNext]_allVars
    PROVE  LabelsInv'
<1>1. CASE Launch \/ RegistryStep
  <2>1. labels' = IF "disaggregated_prefill" \notin instances' THEN NoLabels
                  ELSE IF "disaggregated_prefill" \in instances THEN labels
                  ELSE [prefill |-> current'.prefill_model_labels,
                        decode  |-> current'.decode_model_labels]
    BY <1>1 DEF Launch, RegistryStep, Remembered
  <2>. QED
    BY <1>1, <2>1, CurrentStays DEF LabelsInv
<1>2. CASE Serve \/ UNCHANGED allVars
  <2>1. UNCHANGED <<registryVars, labels>>
    BY <1>2 DEF Serve, allVars, ServeDisaggregated
  <2>. QED
    BY <2>1 DEF registryVars, LabelsInv
<1>. QED
  BY <1>1, <1>2 DEF BaselinesNext

\* The filter takes an engine of the role, and the labels decide whether it can.
LEMMA RoleOfTheChosen ==
    ASSUME NEW endpoints \in Seq(Nat), NEW isPrefill \in BOOLEAN, NEW p, NEW d
    PROVE  LET role == IF isPrefill THEN p ELSE d
               able == {u \in Range(endpoints) : Label[u] = role}
               answer == DP!RouteByRole(endpoints, isPrefill, p, d)
           IN  \/ answer \in able
               \/ answer = 0 /\ (able = {} \/ DP!NoLabels \in {p, d})
<1>. DEFINE role == IF isPrefill THEN p ELSE d
            able == {u \in Range(endpoints) : Label[u] = role}
            S == DP!Labelled(endpoints, role)
            answer == DP!RouteByRole(endpoints, isPrefill, p, d)
<1>. HIDE DEF role
<1>1. answer = IF DP!NoLabels \in {p, d} \/ S = {} THEN 0 ELSE endpoints[DP!Min(S)]
  BY DEF DP!RouteByRole, role
<1>2. S = {n \in DOMAIN endpoints : Label[endpoints[n]] = role}
  BY DEF DP!Labelled
<1>3. S # {} => DP!Min(S) \in S
  <2>1. S \subseteq Nat
    BY <1>2
  <2>. HIDE DEF S
  <2>2. S # {} => \E x \in S : \A y \in S : x <= y
    BY <2>1, Least
  <2>. QED
    BY <2>2 DEF DP!Min
<1>4. able = {} <=> S = {}
  BY <1>2 DEF Range
<1>5. \A n \in S : endpoints[n] \in able
  BY <1>2 DEF Range
<1>. HIDE DEF S, answer, able
<1>6. \/ answer \in able
      \/ answer = 0 /\ (able = {} \/ DP!NoLabels \in {p, d})
  BY <1>1, <1>3, <1>4, <1>5
<1>. QED
  BY <1>6 DEF answer, able, role

\* For any labels, lists and configurations, whatever was configured before: a
\* request is answered with an engine of its role by the current configuration,
\* or fails, for want of labels or of such an engine.
THEOREM RolesKept == BaselinesSpec => RolesAreKept
<1>. DEFINE Kept(endpoints, isPrefill) ==
              LET role == IF isPrefill THEN current.prefill_model_labels
                          ELSE current.decode_model_labels
                  able == {u \in Range(endpoints) : Label[u] = role}
              IN  /\ current.routing_logic = "disaggregated_prefill"
                  /\ ServeDisaggregated(endpoints, isPrefill)
                  => \/ url' \in able
                     \/ /\ url' = 0
                        /\ \/ able = {}
                           \/ DP!NoLabels \in {current.prefill_model_labels,
                                               current.decode_model_labels}
<1>1. ASSUME RegistryInv, LabelsInv, NEW endpoints \in EndpointLists,
             NEW isPrefill \in BOOLEAN, ServeDisaggregated(endpoints, isPrefill)
      PROVE  Kept(endpoints, isPrefill)
  <2>1. "disaggregated_prefill" \in instances
    BY <1>1, Serving DEF ServeDisaggregated, RegistryInv, RegistryType
  <2>2. url' = DP!RouteByRole(endpoints, isPrefill, current.prefill_model_labels,
                              current.decode_model_labels)
    BY <1>1, <2>1 DEF ServeDisaggregated, LabelsInv
  <2>3. endpoints \in Seq(Nat)
    BY RoundRobinAssumption DEF RoundRobinAssumption
  <2>. QED
    BY <2>2, <2>3, RoleOfTheChosen
<1>2. ASSUME RegistryInv, LabelsInv
      PROVE  \A endpoints \in EndpointLists, isPrefill \in BOOLEAN :
                 Kept(endpoints, isPrefill)
  BY <1>1, <1>2
<1>3. BaselinesInit => LabelsInv
  BY DEF BaselinesInit, Registry!Init, LabelsInv
<1>. QED
  BY <1>2, <1>3, LabelsInductive, RegistryInvariance, PTL DEF BaselinesSpec, RolesAreKept
-----------------------------------------------------------------------------
(* The session router.                                                     *)

\* What is remembered of a session is an answer of the ring.
SessionInv ==
    /\ last \in [Session -> [among : SUBSET SR!Url, url : Nat]]
    /\ \A s \in Session :
           last[s].among # {} => last[s].url = SR!GetNode(s, last[s].among)

\* The ring answers with the first node in the order of the session.
LEMMA FirstNode ==
    ASSUME SR!SessionAssumption, NEW s \in Session, NEW ring,
           ring \subseteq SR!Url, ring # {}
    PROVE  \E n \in DOMAIN RingOrder[s] :
               /\ RingOrder[s][n] = SR!GetNode(s, ring) /\ RingOrder[s][n] \in ring
               /\ n \in Nat
               /\ \A p \in DOMAIN RingOrder[s] : RingOrder[s][p] \in ring => n <= p
<1>. DEFINE S == {n \in DOMAIN RingOrder[s] : RingOrder[s][n] \in ring}
<1>1. RingOrder[s] \in Seq(Nat) /\ SR!Url \subseteq SR!Range(RingOrder[s])
  BY DEF SR!SessionAssumption
<1>2. S \subseteq Nat /\ S # {}
  BY <1>1 DEF SR!Range
<1>3. SR!GetNode(s, ring) = RingOrder[s][SR!Min(S)]
  BY DEF SR!GetNode
<1>4. PICK n \in S : n = SR!Min(S) /\ \A p \in S : n <= p
  <2>. HIDE DEF S
  <2>. QED
    BY <1>2, Least DEF SR!Min
<1>5. n \in DOMAIN RingOrder[s] /\ RingOrder[s][n] \in ring /\ n \in Nat
  BY <1>2, <1>4
<1>6. \A p \in DOMAIN RingOrder[s] : RingOrder[s][p] \in ring => n <= p
  BY <1>4
<1>. QED
  BY <1>3, <1>4, <1>5, <1>6

\* The nodes are those of the list, whatever they were.
LEMMA RingUpdated ==
    ASSUME NEW endpoints \in EndpointLists, SR!UpdateHashRing(endpoints)
    PROVE  nodes' = SR!Range(endpoints) /\ SR!Range(endpoints) \subseteq SR!Url
  BY DEF SR!UpdateHashRing, SR!Url

LEMMA ListedSome ==
    ASSUME NEW endpoints \in EndpointLists
    PROVE  SR!Range(endpoints) # {}
<1>1. endpoints \in Seq(Nat) /\ endpoints # <<>>
  BY RoundRobinAssumption DEF RoundRobinAssumption
<1>2. 1 \in DOMAIN endpoints
  BY <1>1
<1>. QED
  BY <1>2 DEF SR!Range

LEMMA SessionInductive ==
    ASSUME SR!SessionAssumption, SessionInv, [BaselinesNext]_allVars
    PROVE  SessionInv'
<1>1. CASE UNCHANGED last
  BY <1>1 DEF SessionInv
<1>2. ASSUME NEW s \in Session, NEW endpoints \in EndpointLists,
             SR!RouteSession(s, endpoints)
      PROVE  SessionInv'
  <2>. DEFINE R == SR!Range(endpoints)
  <2>1. R \subseteq SR!Url /\ R # {} /\ nodes' = R
    BY <1>2, RingUpdated, ListedSome DEF SR!RouteSession
  <2>2. SR!GetNode(s, R) \in R
    BY <2>1, FirstNode
  <2>3. SR!Url \subseteq Nat
    <3>1. ASSUME NEW list \in EndpointLists PROVE SR!Range(list) \subseteq Nat
      <4>1. list \in Seq(Nat)
        BY RoundRobinAssumption DEF RoundRobinAssumption
      <4>. QED
        BY <4>1 DEF SR!Range
    <3>. QED
      BY <3>1 DEF SR!Url
  <2>. HIDE DEF R
  <2>4. last' = [last EXCEPT ![s] = [among |-> R, url |-> SR!GetNode(s, R)]]
    BY <1>2, <2>1 DEF SR!RouteSession, R
  <2>. QED
    BY <2>1, <2>2, <2>3, <2>4 DEF SessionInv
<1>3. ASSUME ForgetSessions PROVE SessionInv'
  BY <1>3 DEF ForgetSessions, SessionInv
<1>4. CASE Launch \/ RegistryStep
  BY <1>1, <1>3, <1>4 DEF Launch, RegistryStep, Remembered, sessionVars
<1>5. CASE Serve
  BY <1>1, <1>2, <1>5 DEF Serve, SR!Next, SR!RouteByQps, sessionVars, ServeDisaggregated
<1>6. CASE UNCHANGED allVars
  BY <1>1, <1>6 DEF allVars, sessionVars
<1>. QED
  BY <1>4, <1>5, <1>6 DEF BaselinesNext

\* A node before another in the order of the session stays before it.
LEMMA SessionStays ==
    ASSUME SR!SessionAssumption, SessionInv, NEW s \in Session,
           NEW endpoints \in EndpointLists, SR!RouteSession(s, endpoints),
           last[s].url \in SR!Range(endpoints), url' \in last[s].among
    PROVE  url' = last[s].url
<1>. DEFINE R == SR!Range(endpoints)
            among == last[s].among
            order == RingOrder[s]
<1>1. R \subseteq SR!Url /\ R # {} /\ url' = SR!GetNode(s, R)
  BY RingUpdated, ListedSome DEF SR!RouteSession
<1>2. among \subseteq SR!Url /\ among # {} /\ last[s].url = SR!GetNode(s, among)
  BY DEF SessionInv
<1>3. PICK n \in DOMAIN order :
          /\ order[n] = SR!GetNode(s, R) /\ order[n] \in R /\ n \in Nat
          /\ \A p \in DOMAIN order : order[p] \in R => n <= p
  <2>. HIDE DEF R
  <2>. QED
    BY <1>1, FirstNode
<1>4. PICK m \in DOMAIN order :
          /\ order[m] = SR!GetNode(s, among) /\ order[m] \in among /\ m \in Nat
          /\ \A p \in DOMAIN order : order[p] \in among => m <= p
  <2>. HIDE DEF among
  <2>. QED
    BY <1>2, FirstNode
<1>5. n <= m /\ m <= n
  BY <1>1, <1>2, <1>3, <1>4
<1>. QED
  BY <1>1, <1>2, <1>3, <1>4, <1>5

\* For any order in which sessions meet the engines and any lists: a session
\* leaves an engine that is still listed only for one that was not listed when it
\* was last asked for.
THEOREM SessionsKept == BaselinesSpec => SessionsStay
<1>1. SR!SessionAssumption
  BY BaselinesAssumption DEF BaselinesAssumption
<1>2. ASSUME SR!SessionAssumption, SessionInv
      PROVE  \A s \in Session, endpoints \in EndpointLists :
                 SR!RouteSession(s, endpoints) /\ last[s].url \in SR!Range(endpoints) =>
                     url' = last[s].url \/ url' \notin last[s].among
  BY <1>2, SessionStays
<1>3. BaselinesInit => SessionInv
  BY DEF BaselinesInit, SR!Init, SessionInv
<1>. QED
  BY <1>1, <1>2, <1>3, SessionInductive, PTL DEF BaselinesSpec, SessionsStay, SR!SessionsStay
-----------------------------------------------------------------------------
(* The prefix-aware router.                                                *)

\* The trie knows the engines of exactly the paths of the prompts they served.
TrieInv ==
    \A path, u : <<path, u>> \in hashtrie <=>
        \E x \in served : x[2] = u /\ path \in PA!Paths(x[1])

LEMMA InsertKeepsTrie ==
    ASSUME TrieInv, NEW prompt, NEW v, PA!Insert(prompt, v)
    PROVE  TrieInv'
<1>. DEFINE new == {<<path, v>> : path \in PA!Paths(prompt)}
<1>1. hashtrie' = hashtrie \union new /\ served' = served \union {<<prompt, v>>}
  BY DEF PA!Insert
<1>2. ASSUME NEW path, NEW u
      PROVE  <<path, u>> \in new <=> u = v /\ path \in PA!Paths(prompt)
  OBVIOUS
<1>. HIDE DEF new
<1>3. ASSUME NEW path, NEW u
      PROVE  <<path, u>> \in hashtrie' <=>
                 \E x \in served' : x[2] = u /\ path \in PA!Paths(x[1])
  <2>1. (\E x \in served' : x[2] = u /\ path \in PA!Paths(x[1])) <=>
            \/ \E x \in served : x[2] = u /\ path \in PA!Paths(x[1])
            \/ v = u /\ path \in PA!Paths(prompt)
    <3>1. /\ <<prompt, v>>[1] = prompt /\ <<prompt, v>>[2] = v
          /\ <<prompt, v>> \in served'
          /\ \A x \in served' : x \in served \/ x = <<prompt, v>>
          /\ served \subseteq served'
      BY <1>1
    <3>. QED
      BY <3>1
  <2>2. <<path, u>> \in hashtrie <=>
            \E x \in served : x[2] = u /\ path \in PA!Paths(x[1])
    BY DEF TrieInv
  <2>. QED
    BY <1>1, <1>2, <2>1, <2>2
<1>. QED
  BY <1>3 DEF TrieInv

LEMMA TrieInductive ==
    ASSUME TrieInv, [BaselinesNext]_allVars
    PROVE  TrieInv'
<1>1. CASE UNCHANGED <<hashtrie, served>>
  BY <1>1 DEF TrieInv
<1>2. ASSUME ForgetPrefixes PROVE TrieInv'
  BY <1>2 DEF ForgetPrefixes, TrieInv
<1>3. CASE Launch \/ RegistryStep
  BY <1>1, <1>2, <1>3 DEF Launch, RegistryStep, Remembered, prefixVars
<1>4. CASE Serve
  BY <1>1, <1>4, InsertKeepsTrie
     DEF Serve, PA!Next, PA!Select, prefixVars, ServeDisaggregated
<1>5. CASE UNCHANGED allVars
  BY <1>1, <1>5 DEF allVars, prefixVars
<1>. QED
  BY <1>3, <1>4, <1>5 DEF BaselinesNext

LEMMA Greatest ==
    ASSUME NEW n \in Nat, NEW S, S \subseteq 0..n, S # {}
    PROVE  PA!Max(S) \in S /\ \A y \in S : y <= PA!Max(S)
<1>. DEFINE T == {n - y : y \in S}
<1>1. T \subseteq Nat /\ T # {}
  <2>1. ASSUME NEW y \in S PROVE n - y \in Nat
    BY SMT
  <2>2. PICK y \in S : TRUE
    OBVIOUS
  <2>3. n - y \in T
    OBVIOUS
  <2>. QED
    BY <2>1, <2>3
<1>2. PICK t \in T : \A x \in T : t <= x
  <2>. HIDE DEF T
  <2>. QED
    BY <1>1, Least
<1>3. PICK m \in S : t = n - m
  BY <1>2
<1>4. ASSUME NEW y \in S PROVE m >= y
  <2>1. n - m <= n - y
    BY <1>2, <1>3
  <2>2. m \in 0..n /\ y \in 0..n
    OBVIOUS
  <2>. QED
    BY <2>1, <2>2
<1>5. PA!Max(S) \in S /\ \A y \in S : PA!Max(S) >= y
  BY <1>4 DEF PA!Max
<1>6. \A y \in S : y \in Int
  OBVIOUS
<1>. QED
  BY <1>5, <1>6

LEMMA MostIsChosen ==
    ASSUME PA!PromptsAssumption, TrieInv, NEW prompt \in Prompts, NEW endpoints,
           NEW u \in PA!LongestPrefixMatch(prompt, PA!Range(endpoints)),
           NEW v \in PA!Range(endpoints)
    PROVE  PA!Shared(u, prompt) >= PA!Shared(v, prompt)
<1>. DEFINE L == Len(prompt)
            T(w) == {n \in 1..L : <<SubSeq(prompt, 1, n), w>> \in hashtrie}
            available == PA!Range(endpoints)
            Known(n) == {w \in available : <<SubSeq(prompt, 1, n), w>> \in hashtrie}
            matched == {n \in 1..L : Known(n) # {}}
<1>0. L \in Nat
  BY DEF PA!PromptsAssumption
<1>1. ASSUME NEW w PROVE PA!Shared(w, prompt) = PA!Max({0} \union T(w))
  <2>1. ASSUME NEW n
        PROVE  (\E s \in served : s[2] = w /\ SubSeq(prompt, 1, n) \in PA!Paths(s[1]))
                   <=> <<SubSeq(prompt, 1, n), w>> \in hashtrie
    BY DEF TrieInv
  <2>2. {n \in 1..L : \E s \in served :
                          s[2] = w /\ SubSeq(prompt, 1, n) \in PA!Paths(s[1])} = T(w)
    BY <2>1
  <2>. QED
    BY <2>2 DEF PA!Shared
<1>2. ASSUME NEW w
      PROVE  /\ PA!Shared(w, prompt) \in {0} \union T(w)
             /\ \A n \in {0} \union T(w) : n <= PA!Shared(w, prompt)
             /\ PA!Shared(w, prompt) \in 0..L
  <2>1. {0} \union T(w) \subseteq 0..L /\ {0} \union T(w) # {}
    BY <1>0
  <2>2. /\ PA!Max({0} \union T(w)) \in {0} \union T(w)
        /\ \A n \in {0} \union T(w) : n <= PA!Max({0} \union T(w))
    <3>. HIDE DEF T
    <3>. QED
      BY <1>0, <2>1, Greatest
  <2>. QED
    BY <1>1, <2>1, <2>2
<1>3. PA!LongestPrefixMatch(prompt, available) =
          IF matched = {} THEN available ELSE Known(PA!Max(matched))
  BY DEF PA!LongestPrefixMatch
<1>4. ASSUME NEW n \in T(v) PROVE n \in matched
  OBVIOUS
<1>5. CASE matched = {}
  <2>1. T(v) = {}
    BY <1>4, <1>5
  <2>2. PA!Shared(v, prompt) = 0
    BY <1>2, <2>1
  <2>. HIDE DEF T
  <2>. QED
    BY <1>0, <1>2, <2>2
<1>6. CASE matched # {}
  <2>1. PICK M \in matched : M = PA!Max(matched) /\ \A n \in matched : n <= M
    <3>1. matched \subseteq 0..L
      BY <1>0
    <3>. HIDE DEF matched
    <3>. QED
      BY <1>0, <1>6, <3>1, Greatest
  <2>2. u \in Known(M)
    <3>. HIDE DEF Known, matched
    <3>. QED
      BY <1>3, <1>6, <2>1
  <2>3. M \in T(u) /\ M \in 0..L
    BY <1>0, <2>2
  <2>4. M <= PA!Shared(u, prompt)
    <3>. HIDE DEF T, matched
    <3>. QED
      BY <1>2, <2>3
  <2>5. PA!Shared(v, prompt) <= M
    <3>. HIDE DEF T, matched
    <3>. QED
      BY <1>0, <1>2, <1>4, <2>1, <2>3
  <2>. HIDE DEF T, matched
  <2>. QED
    BY <1>0, <1>2, <2>3, <2>4, <2>5
<1>. QED
  BY <1>5, <1>6

\* For any prompts, lists and order of questions and insertions: of the engines
\* listed, none served more of the prompt than the one it is sent to.
THEOREM LongestChosen == BaselinesSpec => LongestServedIsChosen
<1>1. PA!PromptsAssumption
  BY BaselinesAssumption DEF BaselinesAssumption
<1>2. ASSUME PA!PromptsAssumption, TrieInv
      PROVE  \A prompt \in Prompts, endpoints \in EndpointLists :
                 PA!Select(prompt, endpoints) =>
                     \A s \in selected' \ selected :
                         \A v \in PA!Range(endpoints) :
                             PA!Shared(s[2], prompt) >= PA!Shared(v, prompt)
  <2>1. SUFFICES ASSUME NEW prompt \in Prompts, NEW endpoints \in EndpointLists,
                        PA!Select(prompt, endpoints),
                        NEW s \in selected' \ selected, NEW v \in PA!Range(endpoints)
                 PROVE  PA!Shared(s[2], prompt) >= PA!Shared(v, prompt)
    OBVIOUS
  <2>2. PICK u \in PA!LongestPrefixMatch(prompt, PA!Range(endpoints)) :
            selected' = selected \union {<<prompt, u>>}
    BY <2>1 DEF PA!Select
  <2>3. s[2] = u
    BY <2>1, <2>2
  <2>. QED
    BY <1>2, <2>3, MostIsChosen
<1>3. BaselinesInit => TrieInv
  BY DEF BaselinesInit, PA!Init, TrieInv
<1>. QED
  BY <1>1, <1>2, <1>3, TrieInductive, PTL
     DEF BaselinesSpec, LongestServedIsChosen, PA!LongestServedIsChosen
-----------------------------------------------------------------------------
(* The round-robin router.                                                 *)

\* The order of the URLs depends on the set of them only.
SortOf(E) ==
    [n \in 1..Cardinality(E) |->
        CHOOSE u \in E : Cardinality({v \in E : v <= u}) = n]

\* Each URL has one place.
InOrder(s, E) ==
    /\ \A n \in 1..Cardinality(E) : s[n] \in E
    /\ \A u \in E : \E n \in 1..Cardinality(E) : s[n] = u
    /\ \A n, p \in 1..Cardinality(E) : s[n] = s[p] => n = p

LEMMA InOrderWhenSorted ==
    ASSUME NEW E, E \subseteq Nat, IsFiniteSet(E)
    PROVE  InOrder(SortOf(E), E)
<1>. DEFINE N == Cardinality(E)
            Upto(u) == {v \in E : v <= u}
            rank == [u \in E |-> Cardinality(Upto(u))]
            s == SortOf(E)
<1>1. N \in Nat
  BY FS_CardinalityType
<1>2. ASSUME NEW u \in E
      PROVE  IsFiniteSet(Upto(u)) /\ rank[u] \in 1..N
  <2>1. IsFiniteSet(Upto(u)) /\ Cardinality(Upto(u)) \in Nat /\ Cardinality(Upto(u)) <= N
    BY FS_Subset, FS_CardinalityType
  <2>2. u \in Upto(u)
    OBVIOUS
  <2>3. Cardinality(Upto(u)) # 0
    BY <2>1, <2>2, FS_EmptySet
  <2>. QED
    BY <2>1, <2>3
<1>3. ASSUME NEW u \in E, NEW v \in E, u < v
      PROVE  rank[u] < rank[v]
  <2>0. u \in Nat /\ v \in Nat
    OBVIOUS
  <2>1. Upto(u) \subseteq Upto(v) /\ v \in Upto(v) /\ v \notin Upto(u)
    <3>1. ASSUME NEW w \in Upto(u) PROVE w \in Upto(v)
      <4>1. w \in E /\ w \in Nat /\ w <= u
        OBVIOUS
      <4>. QED
        BY <1>3, <2>0, <4>1
    <3>2. v <= v /\ ~(v <= u)
      BY <1>3, <2>0
    <3>. QED
      BY <3>1, <3>2
  <2>2. IsFiniteSet(Upto(v))
    BY <1>2
  <2>3. Cardinality(Upto(u)) <= Cardinality(Upto(v))
        /\ Cardinality(Upto(u)) # Cardinality(Upto(v))
    <3>. HIDE DEF Upto
    <3>. QED
      BY <2>1, <2>2, FS_Subset
  <2>4. rank[u] \in Nat /\ rank[v] \in Nat
    BY <1>2
  <2>. QED
    BY <2>3, <2>4
<1>4. \A u, v \in E : rank[u] = rank[v] => u = v
  <2>. SUFFICES ASSUME NEW u \in E, NEW v \in E, rank[u] = rank[v], u # v PROVE FALSE
    OBVIOUS
  <2>1. rank[u] \in Nat /\ rank[v] \in Nat
    BY <1>2
  <2>2. u < v \/ v < u
    OBVIOUS
  <2>. HIDE DEF rank
  <2>. QED
    BY <1>3, <2>1, <2>2
<1>5. ASSUME NEW n \in 1..N PROVE \E u \in E : rank[u] = n
  <2>1. rank \in [E -> 1..N]
    BY <1>2
  <2>. HIDE DEF rank
  <2>2. rank \in Injection(E, 1..N)
    BY <1>4, <2>1 DEF Injection, IsInjective
  <2>3. IsFiniteSet(1..N) /\ Cardinality(1..N) = N
    BY <1>1, FS_Interval
  <2>4. rank \in Surjection(E, 1..N)
    BY <2>2, <2>3, FS_Injection
  <2>. QED
    BY <2>4 DEF Surjection
<1>6. ASSUME NEW n \in 1..N PROVE s[n] \in E /\ rank[s[n]] = n
  <2>1. s[n] = CHOOSE u \in E : Cardinality(Upto(u)) = n
    BY DEF SortOf
  <2>2. \E u \in E : Cardinality(Upto(u)) = n
    BY <1>5
  <2>3. s[n] \in E /\ Cardinality(Upto(s[n])) = n
    BY <2>1, <2>2
  <2>. QED
    BY <2>3
<1>. HIDE DEF rank, s
<1>7. ASSUME NEW u \in E PROVE \E n \in 1..N : s[n] = u
  BY <1>2, <1>4, <1>6
<1>8. ASSUME NEW n \in 1..N, NEW p \in 1..N, s[n] = s[p] PROVE n = p
  BY <1>6, <1>8
<1>. QED
  BY <1>6, <1>7, <1>8 DEF InOrder, s

\* The sorted list of a list has its URLs, each once.
LEMMA SortedList ==
    ASSUME NEW list \in EndpointLists
    PROVE  LET E == Range(list)
           IN  /\ E # {} /\ E \subseteq Nat /\ IsFiniteSet(E)
               /\ Cardinality(E) \in Nat \ {0}
               /\ SortedByUrl(list) = SortOf(E)
               /\ InOrder(SortOf(E), E)
               /\ Len(SortOf(E)) = Cardinality(E)
               /\ Range(SortOf(E)) = E
<1>. DEFINE E == Range(list)
            N == Cardinality(E)
            s == SortOf(E)
<1>1. list \in Seq(Nat) /\ list # <<>>
  BY RoundRobinAssumption DEF RoundRobinAssumption
<1>2. Len(list) \in Nat /\ DOMAIN list = 1..Len(list) /\ list \in [1..Len(list) -> Nat]
  BY <1>1
<1>3. E # {} /\ E \subseteq Nat
  <2>1. 1 \in DOMAIN list
    BY <1>1, <1>2
  <2>. QED
    BY <1>2, <2>1 DEF Range
<1>4. IsFiniteSet(E)
  <2>1. list \in Surjection(1..Len(list), E)
    BY <1>2 DEF Surjection, Range
  <2>2. IsFiniteSet(1..Len(list))
    BY <1>2, FS_Interval
  <2>. HIDE DEF E
  <2>. QED
    BY <2>1, <2>2, FS_Surjection
<1>5. N \in Nat /\ N # 0
  <2>. HIDE DEF E
  <2>. QED
    BY <1>3, <1>4, FS_CardinalityType, FS_EmptySet
<1>6. SortedByUrl(list) = s
  BY DEF SortedByUrl, SortOf
<1>7. InOrder(s, E)
  <2>. HIDE DEF E
  <2>. QED
    BY <1>3, <1>4, InOrderWhenSorted
<1>8. s \in [1..N -> E]
  <2>1. s = [n \in 1..N |-> s[n]]
    BY DEF SortOf
  <2>. HIDE DEF E, s
  <2>. QED
    BY <1>7, <2>1 DEF InOrder
<1>. HIDE DEF E, N, s
<1>9. Len(s) = N
  <2>1. s \in Seq(E)
    BY <1>5, <1>8, SeqDef
  <2>. QED
    BY <1>5, <1>8, <2>1
<1>10. Range(s) = E
  BY <1>7, <1>8 DEF Range, InOrder, N
<1>. QED
  BY <1>3, <1>4, <1>5, <1>6, <1>7, <1>9, <1>10 DEF E, N, s

LEMMA NextPosition ==
    ASSUME NEW N \in Nat \ {0}, NEW r \in Nat
    PROVE  /\ r % N \in 0..(N-1)
           /\ (r + 1) % N = IF r % N = N - 1 THEN 0 ELSE (r % N) + 1
<1>. DEFINE q == r \div N
            m == r % N
            q1 == (r + 1) \div N
            m1 == (r + 1) % N
<1>1. r = N * q + m /\ m \in 0..(N-1) /\ q \in Int
  BY SMT
<1>2. r + 1 = N * q1 + m1 /\ m1 \in 0..(N-1) /\ q1 \in Int
  BY SMT
<1>. HIDE DEF q, m, q1, m1
<1>. DEFINE d == q1 - q
<1>3. d \in Int /\ N * q1 = N * q + N * d
  BY <1>1, <1>2
<1>4. m + 1 - m1 = N * d
  <2>. HIDE DEF d
  <2>. QED
    BY <1>1, <1>2, <1>3
<1>. HIDE DEF d
<1>5. d = 0 \/ d = 1
  <2>1. CASE d >= 2
    <3>1. N * d >= 2 * N
      BY <1>3, <2>1
    <3>. QED
      BY <1>1, <1>2, <1>4, <3>1
  <2>2. CASE d <= -1
    <3>1. N * d <= -N
      BY <1>3, <2>2
    <3>. QED
      BY <1>1, <1>2, <1>4, <3>1
  <2>. QED
    BY <1>3, <2>1, <2>2
<1>6. m1 = IF m = N - 1 THEN 0 ELSE m + 1
  <2>1. CASE d = 0
    BY <1>1, <1>2, <1>4, <2>1
  <2>2. CASE d = 1
    BY <1>1, <1>2, <1>4, <2>2
  <2>. QED
    BY <1>5, <2>1, <2>2
<1>. QED
  BY <1>1, <1>6 DEF m, m1

\* From position k on and around, p comes no later than q.
Sooner(p, q, k) ==
    \/ p >= k /\ q < k
    \/ p <= q /\ (p >= k <=> q >= k)

\* The counts c of the N URLs in s before request r: those whose turn comes sooner
\* have had as many requests as the others, or one less.
Even(c, s, N, r) ==
    \A p, q \in 1..N :
        Sooner(p, q, (r % N) + 1) => c[s[p]] <= c[s[q]] /\ c[s[q]] <= c[s[p]] + 1

LEMMA OneTurn ==
    ASSUME NEW E, NEW s, NEW N \in Nat \ {0}, N = Cardinality(E), InOrder(s, E),
           NEW c \in [E -> Nat], NEW r \in Nat, Even(c, s, N, r)
    PROVE  LET after == [c EXCEPT ![s[(r % N) + 1]] = @ + 1]
           IN  after \in [E -> Nat] /\ Even(after, s, N, r + 1)
<1>. DEFINE k == (r % N) + 1
            k1 == ((r + 1) % N) + 1
            after == [c EXCEPT ![s[k]] = @ + 1]
<1>1. k \in 1..N /\ k1 = IF k = N THEN 1 ELSE k + 1
  <2>. DEFINE m == r % N
              m1 == (r + 1) % N
  <2>1. m \in 0..(N-1) /\ m1 = IF m = N - 1 THEN 0 ELSE m + 1
    BY NextPosition
  <2>2. k = m + 1 /\ k1 = m1 + 1
    OBVIOUS
  <2>. HIDE DEF k, k1, m, m1
  <2>. QED
    BY <2>1, <2>2
<1>2. \A p, q \in 1..N : Sooner(p, q, k) => c[s[p]] <= c[s[q]] /\ c[s[q]] <= c[s[p]] + 1
  BY DEF Even
<1>3. \A p \in 1..N : s[p] \in E /\ c[s[p]] \in Nat /\ (s[p] = s[k] => p = k)
  BY <1>1 DEF InOrder
<1>. HIDE DEF k, k1
<1>4. /\ after \in [E -> Nat]
      /\ after[s[k]] = c[s[k]] + 1
      /\ \A p \in 1..N : p # k => after[s[p]] = c[s[p]]
  BY <1>1, <1>3
<1>. HIDE DEF after
<1>5. ASSUME NEW p \in 1..N, NEW q \in 1..N, Sooner(p, q, k1)
      PROVE  after[s[p]] <= after[s[q]] /\ after[s[q]] <= after[s[p]] + 1
  <2>1. CASE p = q
    BY <1>1, <1>3, <1>4, <2>1
  <2>2. CASE p = k /\ q # k
    <3>1. FALSE
      BY <1>1, <1>5, <2>2 DEF Sooner
    <3>. QED
      BY <3>1
  <2>3. CASE q = k /\ p # k
    <3>1. Sooner(k, p, k)
      BY <1>1 DEF Sooner
    <3>2. c[s[k]] <= c[s[p]] /\ c[s[p]] <= c[s[k]] + 1
      BY <1>1, <1>2, <3>1
    <3>. QED
      BY <1>1, <1>3, <1>4, <2>3, <3>2
  <2>4. CASE q # k /\ p # k
    <3>1. Sooner(p, q, k)
      BY <1>1, <1>5, <2>4 DEF Sooner
    <3>2. c[s[p]] <= c[s[q]] /\ c[s[q]] <= c[s[p]] + 1
      BY <1>2, <3>1
    <3>. QED
      BY <1>4, <2>4, <3>2
  <2>. QED
    BY <2>1, <2>2, <2>3, <2>4
<1>6. Even(after, s, N, r + 1)
  BY <1>5 DEF Even, k1
<1>. QED
  BY <1>4, <1>6 DEF after, k

(* TurnsAreEven is not inductive: which counts may differ depends on whose   *)
(* turn is next.  And the sorted list that is reused has to be that of the   *)
(* list last hashed, or its length would be another than that of the counts. *)
RoundRobinInv ==
    /\ heap \in [Address -> EndpointLists]
    /\ req_id \in Nat
    /\ last_endpoints_hash = None => last_endpoints_id = None /\ turns = <<>>
    /\ last_endpoints_hash # None =>
           LET E == Range(last_endpoints_hash)
           IN  /\ last_endpoints_hash \in EndpointLists
               /\ sorted_endpoints = SortOf(E)
               /\ turns \in [E -> Nat]
               /\ Even(turns, SortOf(E), Cardinality(E), req_id)

\* The list that a request is answered from.
LEMMA AnsweredFrom ==
    ASSUME RoundRobinInv, NEW a \in Address, RouteRequest(a)
    PROVE  \E list \in EndpointLists :
               /\ last_endpoints_hash' = list
               /\ sorted_endpoints' = SortOf(Range(list))
               /\ a # last_endpoints_id => list = heap[a]
               /\ url' = Choose(SortOf(Range(list)))
               /\ Count(SortOf(Range(list)))
<1>. DEFINE changed == a # last_endpoints_id /\ IsNew(heap[a])
            sorted == IF changed THEN SortedByUrl(heap[a]) ELSE sorted_endpoints
<1>1. /\ last_endpoints_hash' = IF changed THEN heap[a] ELSE last_endpoints_hash
      /\ sorted_endpoints' = sorted /\ url' = Choose(sorted) /\ Count(sorted)
  BY DEF RouteRequest
<1>2. heap[a] \in EndpointLists /\ heap[a] # None
  BY RoundRobinAssumption DEF RoundRobinInv, RoundRobinAssumption, None
<1>3. CASE changed
  <2>1. SortedByUrl(heap[a]) = SortOf(Range(heap[a]))
    BY <1>2, SortedList
  <2>2. sorted = SortOf(Range(heap[a]))
    BY <1>3, <2>1
  <2>3. last_endpoints_hash' = heap[a]
    BY <1>1, <1>3
  <2>. HIDE DEF sorted, changed
  <2>. QED
    BY <1>1, <1>2, <2>2, <2>3
<1>4. CASE ~changed
  <2>1. last_endpoints_hash # None
    <3>1. CASE a = last_endpoints_id
      BY <3>1, RoundRobinAssumption DEF RoundRobinInv, RoundRobinAssumption
    <3>2. CASE heap[a] = last_endpoints_hash
      BY <1>2, <3>2
    <3>. QED
      BY <1>4, <3>1, <3>2 DEF IsNew
  <2>2. /\ last_endpoints_hash \in EndpointLists
        /\ sorted = SortOf(Range(last_endpoints_hash))
    BY <1>4, <2>1 DEF RoundRobinInv
  <2>3. a # last_endpoints_id => last_endpoints_hash = heap[a]
    BY <1>4 DEF IsNew
  <2>4. last_endpoints_hash' = last_endpoints_hash
    BY <1>1, <1>4
  <2>. HIDE DEF sorted, changed
  <2>. QED
    BY <1>1, <2>1, <2>2, <2>3, <2>4
<1>. QED
  BY <1>3, <1>4

LEMMA RouteRequestStep ==
    ASSUME RoundRobinInv, NEW a \in Address, RouteRequest(a)
    PROVE  RoundRobinInv'
<1>1. PICK list \in EndpointLists :
          /\ last_endpoints_hash' = list
          /\ sorted_endpoints' = SortOf(Range(list))
          /\ Count(SortOf(Range(list)))
  BY AnsweredFrom
<1>. DEFINE E == Range(list)
            N == Cardinality(E)
            s == SortOf(E)
            before == IF DOMAIN turns = E THEN turns ELSE [u \in E |-> 0]
            after == [before EXCEPT ![s[(req_id % N) + 1]] = @ + 1]
<1>2. /\ E # {} /\ N \in Nat \ {0} /\ InOrder(s, E) /\ Len(s) = N /\ Range(s) = E
  BY SortedList
<1>3. req_id \in Nat /\ req_id' = req_id + 1 /\ heap' = heap /\ list # None
  BY RoundRobinAssumption DEF RoundRobinInv, RouteRequest, RoundRobinAssumption, None
<1>4. turns' = after
  BY <1>1, <1>2 DEF Count, Choose
<1>5. before \in [E -> Nat] /\ Even(before, s, N, req_id)
  <2>1. CASE DOMAIN turns = E
    <3>1. last_endpoints_hash # None
      BY <1>2, <2>1 DEF RoundRobinInv
    <3>2. Range(last_endpoints_hash) = E
      BY <2>1, <3>1 DEF RoundRobinInv
    <3>. HIDE DEF E
    <3>. QED
      BY <2>1, <3>1, <3>2 DEF RoundRobinInv
  <2>2. CASE DOMAIN turns # E
    <3>1. before = [u \in E |-> 0]
      BY <2>2
    <3>. HIDE DEF before, E, s
    <3>2. \A p \in 1..N : s[p] \in E /\ before[s[p]] = 0
      BY <1>2, <3>1 DEF InOrder
    <3>. QED
      BY <3>1, <3>2 DEF Even
  <2>. QED
    BY <2>1, <2>2
<1>6. after \in [E -> Nat] /\ Even(after, s, N, req_id + 1)
  <2>. HIDE DEF before, E, s
  <2>. QED
    BY <1>2, <1>3, <1>5, OneTurn
<1>. HIDE DEF after
<1>7. RoundRobinInv'
  <2>1. heap' \in [Address -> EndpointLists] /\ req_id' \in Nat
    BY <1>3 DEF RoundRobinInv
  <2>. QED
    BY <1>1, <1>3, <1>4, <1>6, <2>1 DEF RoundRobinInv
<1>. QED
  BY <1>7

LEMMA RoundRobinInductive ==
    ASSUME RoundRobinInv, [BaselinesNext]_allVars
    PROVE  RoundRobinInv'
<1>1. CASE UNCHANGED roundRobinVars
  BY <1>1 DEF roundRobinVars, RoundRobinInv
<1>2. ASSUME ForgetRoundRobin PROVE RoundRobinInv'
  BY <1>2, RoundRobinAssumption
     DEF ForgetRoundRobin, RoundRobinInv, RoundRobinAssumption
<1>3. CASE Launch \/ RegistryStep
  BY <1>1, <1>2, <1>3 DEF Launch, RegistryStep, Remembered
<1>4. CASE Next
  <2>1. ASSUME NEW a \in Address, NEW list \in EndpointLists, Reallocate(a, list)
        PROVE  RoundRobinInv'
    BY <2>1 DEF Reallocate, RoundRobinInv
  <2>. QED
    BY <1>4, <2>1, RouteRequestStep DEF Next
<1>5. CASE Serve
  BY <1>1, <1>4, <1>5 DEF Serve, ServeDisaggregated
<1>6. CASE UNCHANGED allVars
  BY <1>1, <1>6 DEF allVars, vars, roundRobinVars
<1>. QED
  BY <1>3, <1>4, <1>5, <1>6 DEF BaselinesNext

LEMMA RoundRobinInvariance == BaselinesSpec => []RoundRobinInv
<1>1. BaselinesInit => RoundRobinInv
  BY RoundRobinAssumption
     DEF BaselinesInit, Init, RoundRobinInv, RoundRobinAssumption
<1>. QED
  BY <1>1, RoundRobinInductive, PTL DEF BaselinesSpec

\* For any number of engines, orders of the lists and addresses they lie at: while
\* the set of engines is the same, no two have had numbers of requests that differ
\* by two.
THEOREM InTurn == BaselinesSpec => []TurnsAreEven
<1>1. ASSUME RoundRobinInv PROVE TurnsAreEven
  <2>1. SUFFICES ASSUME last_endpoints_hash # None PROVE TurnsAreEven
    BY <1>1 DEF RoundRobinInv, TurnsAreEven
  <2>. DEFINE E == Range(last_endpoints_hash)
              s == SortOf(E)
              N == Cardinality(E)
  <2>2. /\ turns \in [E -> Nat] /\ Even(turns, s, N, req_id) /\ InOrder(s, E)
        /\ N \in Nat \ {0} /\ req_id \in Nat
    BY <1>1, <2>1, SortedList DEF RoundRobinInv
  <2>. HIDE DEF E, s, N
  <2>3. ASSUME NEW p \in 1..N, NEW q \in 1..N
        PROVE  turns[s[p]] - turns[s[q]] \in {-1, 0, 1}
    <3>. DEFINE k == (req_id % N) + 1
    <3>1. k \in Int
      BY <2>2, NextPosition
    <3>2. turns[s[p]] \in Nat /\ turns[s[q]] \in Nat
      BY <2>2 DEF InOrder, N
    <3>3. Sooner(p, q, k) => turns[s[p]] <= turns[s[q]] /\ turns[s[q]] <= turns[s[p]] + 1
      BY <2>2 DEF Even
    <3>4. Sooner(q, p, k) => turns[s[q]] <= turns[s[p]] /\ turns[s[p]] <= turns[s[q]] + 1
      BY <2>2 DEF Even
    <3>. HIDE DEF k
    <3>5. Sooner(p, q, k) \/ Sooner(q, p, k)
      BY <3>1 DEF Sooner
    <3>. QED
      BY <3>2, <3>3, <3>4, <3>5
  <2>. QED
    BY <2>2, <2>3 DEF TurnsAreEven, InOrder, N
<1>. QED
  BY <1>1, RoundRobinInvariance, PTL

\* However many engines discovery lists and wherever: a list at another address
\* than the last one is answered with an engine in it.
THEOREM OtherListSeen == BaselinesSpec => AnotherListIsSeen
<1>1. ASSUME RoundRobinInv, NEW a \in Address \ {last_endpoints_id}, RouteRequest(a)
      PROVE  url' \in Range(heap[a])
  <2>. DEFINE E == Range(heap[a])
              N == Cardinality(E)
              m == req_id % N
  <2>1. heap[a] \in EndpointLists /\ url' = Choose(SortOf(E))
    BY <1>1, AnsweredFrom
  <2>2. N \in Nat \ {0} /\ InOrder(SortOf(E), E) /\ Len(SortOf(E)) = N
    BY <2>1, SortedList
  <2>3. url' = SortOf(E)[m + 1]
    BY <2>1, <2>2 DEF Choose
  <2>4. m \in 0..(N-1)
    BY <1>1, <2>2, NextPosition DEF RoundRobinInv
  <2>. HIDE DEF E, N, m
  <2>5. m + 1 \in 1..N
    BY <2>2, <2>4
  <2>6. url' \in E
    BY <2>2, <2>3, <2>5 DEF InOrder, N
  <2>. QED
    BY <2>6 DEF E
<1>2. ASSUME RoundRobinInv
      PROVE  \A a \in Address \ {last_endpoints_id} :
                 RouteRequest(a) => url' \in Range(heap[a])
  BY <1>1, <1>2
<1>. QED
  BY <1>2, RoundRobinInvariance, PTL DEF BaselinesSpec, AnotherListIsSeen
-----------------------------------------------------------------------------
(* The command line.  Of the options only how they override each other is  *)
(* used, so the proofs hold for any contents of the files.                 *)

LEMMA Overridden ==
    ASSUME NEW given, NEW rest
    PROVE  /\ DOMAIN CL!Over(given, rest) = DOMAIN given \union DOMAIN rest
           /\ \A option \in DOMAIN given : CL!Over(given, rest)[option] = given[option]
           /\ \A option \in DOMAIN rest \ DOMAIN given :
                  CL!Over(given, rest)[option] = rest[option]
  BY DEF CL!Over

CheckedOptions ==
    {"routing_logic", "session_key", "service_discovery", "static_backends",
     "static_models", "static_model_types", "static_backend_health_checks",
     "k8s_port", "engine_stats_interval", "request_stats_window", "log_stats",
     "log_stats_interval", "sentry_traces_sample_rate",
     "sentry_profile_session_sample_rate"}

FileOptions == {"dynamic_config_yaml", "dynamic_config_json"}

LEMMA DefaultOptions == CheckedOptions \union FileOptions \subseteq DOMAIN CL!Defaults
<1>. DEFINE first  == CL!Over(CL!DiscoveryDefaults, CL!RoutingDefaults)
            second == CL!Over(first, CL!LabelDefaults)
            third  == CL!Over(CL!StatisticsDefaults, CL!SentryDefaults)
            fourth == CL!Over(third, CL!FileDefaults)
<1>1. /\ DOMAIN first = DOMAIN CL!DiscoveryDefaults \union DOMAIN CL!RoutingDefaults
      /\ DOMAIN third = DOMAIN CL!StatisticsDefaults \union DOMAIN CL!SentryDefaults
  BY Overridden
<1>. HIDE DEF first, third
<1>2. /\ DOMAIN second = DOMAIN first \union DOMAIN CL!LabelDefaults
      /\ DOMAIN fourth = DOMAIN third \union DOMAIN CL!FileDefaults
  BY Overridden
<1>. HIDE DEF second, fourth
<1>3. CL!Defaults = CL!Over(second, fourth)
  BY DEF CL!Defaults, first, second, third, fourth
<1>4. DOMAIN CL!Defaults = DOMAIN second \union DOMAIN fourth
  BY <1>3, Overridden
<1>. QED
  BY <1>1, <1>2, <1>4 DEF CheckedOptions, FileOptions, CL!DiscoveryDefaults, CL!RoutingDefaults,
     CL!LabelDefaults, CL!StatisticsDefaults, CL!SentryDefaults, CL!FileDefaults

\* A policy that is given is the one that is parsed.
LEMMA GivenPolicy ==
    ASSUME NEW argv, "routing_logic" \in DOMAIN argv
    PROVE  CL!Args(argv).routing_logic = argv.routing_logic
<1>1. \A file : CL!Parse(argv, file).routing_logic = argv.routing_logic
  BY Overridden DEF CL!Parse
<1>. QED
  BY <1>1 DEF CL!Args

\* For any command lines and files: what validate_args accepts is a policy that
\* initialize_routing_logic constructs, but for one that only a file names.
THEOREM AllAccepted == BaselinesSpec => []AcceptedStarts
<1>1. ASSUME NEW argv, CL!Accepted(argv), NEW config, config = Configured(CL!Args(argv))
      PROVE  \/ Registry!Constructible(config)
             \/ /\ "routing_logic" \notin DOMAIN argv
                /\ config.routing_logic \notin Registry!RoutingLogic
  <2>. DEFINE args == CL!Args(argv)
  <2>1. CL!Usable(argv) /\ CL!ValidArgs(args)
    BY <1>1 DEF CL!Accepted
  <2>. HIDE DEF args
  <2>2. config = Configured(args)
    BY <1>1 DEF args
  <2>3. /\ config.routing_logic = args.routing_logic
        /\ args.routing_logic = "session" => config.session_key = args.session_key
    BY <2>2 DEF Configured, Registry!NoConfiguration
  <2>4. args.routing_logic = "session" => args.session_key # "None"
    BY <2>1 DEF CL!ValidArgs, CL!None
  <2>5. ASSUME "routing_logic" \in DOMAIN argv
        PROVE  args.routing_logic \in Registry!RoutingLogic
    <3>1. args.routing_logic = argv.routing_logic
      BY <2>5, GivenPolicy DEF args
    <3>. QED
      BY <2>1, <2>5, <3>1
         DEF CL!Usable, CL!GivenAmong, CL!RoutingChoices, Registry!RoutingLogic
  <2>. QED
    BY <2>3, <2>4, <2>5 DEF Registry!Constructible
<1>2. AcceptedStarts
  BY <1>1 DEF AcceptedStarts
<1>. QED
  BY <1>2, PTL

\* Another policy on a command line changes the policy that is parsed, and
\* nothing else of what is checked.
Differs(other, argv, c) ==
    /\ DOMAIN other = DOMAIN argv /\ other.routing_logic = c
    /\ \A option \in DOMAIN argv \ {"routing_logic"} : other[option] = argv[option]

LEMMA OtherPolicy ==
    ASSUME NEW argv, "routing_logic" \in DOMAIN argv, NEW c,
           NEW other, Differs(other, argv, c)
    PROVE  /\ CL!Args(other).routing_logic = c
           /\ \A option \in CheckedOptions \ {"routing_logic"} :
                  CL!Args(other)[option] = CL!Args(argv)[option]
<1>1. /\ DOMAIN other = DOMAIN argv /\ other.routing_logic = c
      /\ \A option \in DOMAIN argv \ {"routing_logic"} : other[option] = argv[option]
  BY DEF Differs
<1>2. ASSUME NEW file, NEW option \in DOMAIN CL!Defaults \ {"routing_logic"}
      PROVE  CL!Parse(other, file)[option] = CL!Parse(argv, file)[option]
  <2>. DEFINE rest == CL!Over(file, CL!Defaults)
  <2>1. option \in DOMAIN rest
    BY <1>2, Overridden
  <2>. HIDE DEF rest
  <2>2. \A given :
            CL!Over(given, rest)[option] =
                IF option \in DOMAIN given THEN given[option] ELSE rest[option]
    BY <2>1 DEF CL!Over
  <2>. QED
    BY <1>1, <1>2, <2>2, Zenon DEF CL!Parse, rest
<1>3. \A option \in (CheckedOptions \union FileOptions) \ {"routing_logic"} :
          \A file : CL!Parse(other, file)[option] = CL!Parse(argv, file)[option]
  BY <1>2, DefaultOptions
<1>4. \A option \in FileOptions :
          CL!Parse(other, <<>>)[option] = CL!Parse(argv, <<>>)[option]
  BY <1>3 DEF FileOptions
<1>5. \E file : CL!Args(other) = CL!Parse(other, file) /\ CL!Args(argv) = CL!Parse(argv, file)
  BY <1>4 DEF CL!Args, CL!NamesFile, FileOptions
<1>6. CL!Args(other).routing_logic = c
  BY <1>1, GivenPolicy
<1>. QED
  BY <1>3, <1>5, <1>6

\* For any command lines and files: no policy asks more of the other options than
\* another, but for the key of a session.
THEOREM EveryPolicyAccepted == BaselinesSpec => []EveryPolicyStarts
<1>1. ASSUME NEW argv, NEW c \in Registry!RoutingLogic, CL!Accepted(argv),
             "routing_logic" \in DOMAIN argv,
             c = "session" => CL!Args(argv).session_key # "None",
             NEW other, Differs(other, argv, c)
      PROVE  CL!Accepted(other)
  <2>. DEFINE args == CL!Args(argv)
              changed == CL!Args(other)
  <2>1. CL!Usable(argv) /\ CL!ValidArgs(args)
    BY <1>1 DEF CL!Accepted
  <2>2. /\ changed.routing_logic = c
        /\ \A option \in CheckedOptions \ {"routing_logic"} :
               changed[option] = args[option]
    BY <1>1, OtherPolicy
  <2>3. c = "session" => args.session_key # "None"
    BY <1>1
  <2>. HIDE DEF args, changed
  <2>4. /\ changed.session_key = args.session_key
        /\ changed.service_discovery = args.service_discovery
        /\ changed.static_backends = args.static_backends
        /\ changed.static_models = args.static_models
        /\ changed.static_model_types = args.static_model_types
        /\ changed.static_backend_health_checks = args.static_backend_health_checks
        /\ changed.k8s_port = args.k8s_port
        /\ changed.engine_stats_interval = args.engine_stats_interval
        /\ changed.request_stats_window = args.request_stats_window
        /\ changed.log_stats = args.log_stats
        /\ changed.log_stats_interval = args.log_stats_interval
        /\ changed.sentry_traces_sample_rate = args.sentry_traces_sample_rate
        /\ changed.sentry_profile_session_sample_rate
               = args.sentry_profile_session_sample_rate
    BY <2>2 DEF CheckedOptions
  <2>5. CL!ValidArgs(changed)
    BY <2>1, <2>2, <2>3, <2>4
       DEF CL!ValidArgs, CL!RequiredArgsProvided, CL!ModelTypesValid, CL!None,
           Registry!RoutingLogic
  <2>6. CL!Usable(other)
    <3>1. DOMAIN other = DOMAIN argv /\ other.routing_logic = c
      BY <1>1 DEF Differs
    <3>2. "service_discovery" \in DOMAIN argv =>
              other.service_discovery = argv.service_discovery
      BY <1>1 DEF Differs
    <3>. QED
      BY <2>1, <3>1, <3>2
         DEF CL!Usable, CL!GivenAmong, CL!RoutingChoices, Registry!RoutingLogic
  <2>. QED
    BY <2>5, <2>6 DEF CL!Accepted, changed
<1>2. ASSUME NEW argv, "routing_logic" \in DOMAIN argv, NEW c
      PROVE  Differs([argv EXCEPT !.routing_logic = c], argv, c)
  BY <1>2, Zenon DEF Differs
<1>3. EveryPolicyStarts
  BY <1>1, <1>2, Zenon DEF EveryPolicyStarts
<1>. QED
  BY <1>3, PTL
=============================================================================
