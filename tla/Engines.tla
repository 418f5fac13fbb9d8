------------------------------- MODULE Engines -------------------------------
(***************************************************************************)
(* The engine pods and the router they register with, as cold_start.sh     *)
(* uses them.  Kubernetes and the engines are outside src/.                *)
(***************************************************************************)
EXTENDS Naturals, FiniteSetsExt, Folds

CONSTANTS
    Pod,            \* names of engine pods, as numbers
    Replicas,       \* REPLICAS
    MaxRestarts,    \* bound on engine containers that restart in their pod
    MaxLosses       \* bound on engine pods that are lost

ASSUME EnginesAssumption ==
    /\ Pod \subseteq Nat /\ IsFiniteSet(Pod)
    /\ Replicas \in Nat \ {0}
    /\ MaxRestarts \in Nat /\ MaxLosses \in Nat

VARIABLES
    rolling,        \* does the router's deployment ask for another process?
    desired,        \* replicas of the engines' deployment
    pods,           \* the engine pods there are
    terminating,    \* those of them that are told to stop
    older,          \* those whose process started before the router's
    joined,         \* those whose process is registered with this router
    logged,         \* registrations in this router's log, per pod name
    restarts, losses

accidents == <<restarts, losses>>
engineVars == <<rolling, desired, pods, terminating, older, joined, logged, accidents>>

EnginesInit ==
    /\ rolling = FALSE /\ desired = Replicas
    /\ pods = {} /\ terminating = {} /\ older = {} /\ joined = {}
    /\ logged = [p \in Pod |-> 0]
    /\ restarts = 0 /\ losses = 0

\* The pod names in the router's log, and the lines they make.
Ids == {p \in Pod : logged[p] > 0}
Registrations == MapThenSumSet(LAMBDA p : logged[p], Pod)

\* The rollout ends: a new process, that no engine is registered with.
RouterStarts ==
    /\ rolling /\ rolling' = FALSE
    /\ older' = pods /\ joined' = {} /\ logged' = [p \in Pod |-> 0]
    /\ UNCHANGED <<desired, pods, terminating, accidents>>

\* Pod names are not used twice: a new one is in nobody's memory.
PodStarts(remembered) ==
    /\ Cardinality(pods \ terminating) < desired
    /\ LET unused == Pod \ (pods \union Ids \union remembered)
       IN  unused # {} /\ pods' = pods \union {Min(unused)}
    /\ UNCHANGED <<rolling, desired, terminating, older, joined, logged, accidents>>

Gone(p) ==
    /\ pods' = pods \ {p} /\ terminating' = terminating \ {p}
    /\ older' = older \ {p} /\ joined' = joined \ {p}
    /\ UNCHANGED <<rolling, desired, logged, restarts>>

PodStops(p) == p \in terminating /\ Gone(p) /\ UNCHANGED losses

PodIsLost(p) ==
    /\ p \in pods \ terminating /\ losses < MaxLosses
    /\ Gone(p) /\ losses' = losses + 1

\* The process is a new one, under the name of the old.
ContainerRestarts(p) ==
    /\ p \in pods \ terminating /\ restarts < MaxRestarts
    /\ restarts' = restarts + 1
    /\ older' = older \ {p} /\ joined' = joined \ {p}
    /\ UNCHANGED <<rolling, desired, pods, terminating, logged, losses>>

\* A heartbeat finds a router that does not know the worker: "Registered
\* instance-worker".
Join(p) ==
    /\ p \in pods \ joined
    /\ joined' = joined \union {p}
    /\ logged' = [logged EXCEPT ![p] = @ + 1]
    /\ UNCHANGED <<rolling, desired, pods, terminating, older, accidents>>
=============================================================================
