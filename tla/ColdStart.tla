------------------------------ MODULE ColdStart ------------------------------
(***************************************************************************)
(* cold_start.sh on an arm that uses the registry, start after start; the  *)
(* engines stop, start and register between any two of its steps.  Its     *)
(* loops are bounded: each may give up while what it waits for is not      *)
(* there.  A kubectl that does not reach the cluster ends the script (set  *)
(* -e), except where its output is the word of a test or of a for loop:    *)
(* there it reads as an empty answer.                                      *)
(***************************************************************************)
EXTENDS Engines

VARIABLES
    pc,         \* where the script is
    live,       \* the pods that the stale-id assertion found live
    blind,      \* history: did a test of this start have no answer?
    lost,       \* history: pods lost since that assertion
    restarted   \* history: did a container restart since the router did?

history == <<lost, restarted>>
vars == <<engineVars, pc, live, blind, history>>

Init ==
    /\ EnginesInit
    /\ pc = "idle" /\ live = {} /\ blind = FALSE
    /\ lost = {} /\ restarted = FALSE

\* run_cell.sh before it: helm upgrade and set env roll the router, and restore
\* the replicas of the chart.
Deploy ==
    /\ pc = "idle"
    /\ rolling' = TRUE /\ desired' = Replicas
    /\ UNCHANGED <<pods, terminating, older, joined, logged, accidents,
                   pc, live, blind, history>>

\* run_cell.sh has waited for the router to settle.
Begin ==
    /\ pc = "idle" /\ ~rolling
    /\ pc' = "drain" /\ live' = {} /\ blind' = FALSE
    /\ UNCHANGED <<engineVars, history>>

\* A plausible wrong version of Drain, for the mutation run: the engines are told
\* to stop and nobody waits for it.
DrainAtOnce ==
    /\ pc = "drain"
    /\ desired' = 0 /\ terminating' = pods
    /\ pc' = "restart"
    /\ UNCHANGED <<rolling, pods, older, joined, logged, accidents, live, blind, history>>

Drain ==
    /\ pc = "drain"
    /\ desired' = 0 /\ terminating' = pods
    /\ pc' = "draining"
    /\ UNCHANGED <<rolling, pods, older, joined, logged, accidents, live, blind, history>>

\* The count of pods, at the end of the loop, is 0; so is that of no answer.
Drained ==
    /\ pc = "draining"
    /\ blind' \in {FALSE, TRUE} /\ (~blind' => pods = {})
    /\ pc' = "restart"
    /\ UNCHANGED <<engineVars, live, history>>

RestartRouter ==
    /\ pc = "restart"
    /\ rolling' = TRUE /\ restarted' = FALSE
    /\ pc' = "restarting"
    /\ UNCHANGED <<desired, pods, terminating, older, joined, logged, accidents,
                   live, blind, lost>>

\* rollout status of the router, then the engines are scaled up.
ScaleUp ==
    /\ pc = "restarting" /\ ~rolling
    /\ desired' = Replicas
    /\ pc' = "scaling"
    /\ UNCHANGED <<rolling, pods, terminating, older, joined, logged, accidents,
                   live, blind, history>>

\* rollout status of the engines.
ScaledUp ==
    /\ pc = "scaling" /\ Cardinality(pods \ terminating) = desired
    /\ pc' = "registrations"
    /\ UNCHANGED <<engineVars, live, blind, history>>

\* A plausible wrong version of Registered, for the mutation run: one worker is
\* enough.
RegisteredOne ==
    /\ pc = "registrations" /\ Registrations >= 1
    /\ live' = pods /\ lost' = {}
    /\ pc' = "stale ids"
    /\ UNCHANGED <<engineVars, blind, restarted>>

\* [ registered -ge REPLICAS ], then the names of the pods there are.
Registered ==
    /\ pc = "registrations" /\ Registrations >= Replicas
    /\ live' = pods /\ lost' = {}
    /\ pc' = "stale ids"
    /\ UNCHANGED <<engineVars, blind, restarted>>

\* A plausible wrong version of NoStaleId, for the mutation run: each id says
\* anew whether there is a stale one, and the last id has its way.
NoStaleIdAtLast ==
    /\ pc = "stale ids"
    /\ \/ Ids # {} /\ Max(Ids) \in live /\ UNCHANGED blind
       \/ blind' = TRUE
    /\ pc' = "clean"
    /\ UNCHANGED <<engineVars, live, history>>

\* for id in $(kubectl logs ...): no id that is not live, or no answer.
NoStaleId ==
    /\ pc = "stale ids"
    /\ \/ Ids \subseteq live /\ UNCHANGED blind
       \/ blind' = TRUE
    /\ pc' = "clean"
    /\ UNCHANGED <<engineVars, live, history>>

\* The end of a clean start is followed by the cell's measurement.
Ends ==
    /\ pc # "idle"
    /\ pc' = "idle"
    /\ UNCHANGED <<engineVars, live, blind, history>>

Script ==
    Begin \/ Drain \/ Drained \/ RestartRouter \/ ScaleUp \/ ScaledUp \/ Registered
    \/ NoStaleId \/ Ends

Kubernetes ==
    /\ \/ RouterStarts
       \/ PodStarts(live \union lost)
       \/ \E p \in Pod : PodStops(p) \/ Join(p)
    /\ UNCHANGED <<pc, live, blind, history>>

Accident ==
    /\ \/ \E p \in Pod : /\ PodIsLost(p)
                         /\ lost' = lost \union {p} /\ UNCHANGED restarted
       \/ \E p \in Pod : /\ ContainerRestarts(p)
                         /\ restarted' = TRUE /\ UNCHANGED lost
    /\ UNCHANGED <<pc, live, blind>>

Next == Deploy \/ Script \/ Kubernetes \/ Accident

Spec == Init /\ [][Next]_vars
-----------------------------------------------------------------------------
\* The invariant (b) of cold_start.sh, of a start whose tests were answered: the
\* router holds no registration of an engine that is gone, unless it was lost
\* after the assertion had looked.
NoStaleRegistration == pc = "clean" /\ ~blind => Ids \subseteq pods \union lost

\* Its invariant (a): no engine's process is older than the router's, so none can
\* have admitted a chunk before the router could hear of it.
RouterBeforeEngines == pc = "clean" /\ ~blind => older = {}

\* "cold start clean: N registrations, all live": every engine of the start is in
\* the registry.  A container that restarts is logged twice, and counts as two.
EveryEngineIsKnown ==
    pc = "clean" /\ ~blind /\ ~restarted =>
        /\ Cardinality(Ids) >= Replicas
        /\ live \intersect pods \subseteq joined
=============================================================================
