------------------------------- MODULE RunCell -------------------------------
(***************************************************************************)
(* run_cell.sh, cell after cell on one cluster: what each leaves on the    *)
(* router's deployment and what the next one finds there, up to the        *)
(* measured replay (BenchJob.tla).  The engines are counted; ColdStart.tla *)
(* tells them apart.                                                       *)
(***************************************************************************)
EXTENDS Naturals

CONSTANTS
    Replicas,   \* REPLICAS
    Betas       \* the values of beta of the loadaware cells, as strings

NoBeta == "unset"

ASSUME RunCellAssumption ==
    Replicas \in Nat \ {0} /\ NoBeta \notin Betas

VARIABLES
    pc,             \* where the script is
    arm, beta,      \* its cell: the routing policy, and beta or NoBeta
    blind,          \* history: did the question for an overlay have no answer?
    deploy,         \* the router's deployment
    configmap,      \* does the overlay's ConfigMap exist?
    router,         \* the deployment that the running router was started from
    registered,     \* registrations in its log, of interest up to Replicas
    desired, up     \* the engines there should be, and there are

cell == <<arm, beta, blind>>
engines == <<desired, up>>
cluster == <<deploy, configmap, router, registered, engines>>
cellVars == <<pc, cell, cluster>>

Stock == [image |-> "stock", logic |-> "kvaware", beta |-> NoBeta,
          overlay |-> FALSE, revision |-> 0]

CellInit ==
    /\ pc = "ended" /\ arm = "kvaware" /\ beta = NoBeta /\ blind = FALSE
    /\ deploy = Stock /\ router = Stock /\ configmap = FALSE
    /\ registered = 0 /\ desired = Replicas /\ up = 0

\* Has the arm a registry (USES_LOOKUP), and which image does it run?
UsesLookup(logic) == logic # "roundrobin"
Image(logic) == IF logic = "loadaware" THEN "loadaware" ELSE "stock"

Cells == ({"kvaware", "roundrobin"} \X {NoBeta}) \union ({"loadaware"} \X Betas)

NextCell ==
    /\ pc = "ended"
    /\ \E c \in Cells : arm' = c[1] /\ beta' = c[2]
    /\ blind' = FALSE
    /\ pc' = "upgrade"
    /\ UNCHANGED cluster

\* helm upgrade restores what the chart says and keeps what was added to it: the
\* environment and the volumes.
Upgrade ==
    /\ pc = "upgrade"
    /\ deploy' = [deploy EXCEPT !.image = Image(arm), !.logic = arm]
    /\ desired' = Replicas
    /\ pc' = "overlay"
    /\ UNCHANGED <<cell, configmap, router, registered, up>>

\* if kubectl get deploy ... | grep -q router-patch
OverlayMounted ==
    /\ pc = "overlay" /\ deploy.overlay
    /\ pc' = "revert"
    /\ UNCHANGED <<cell, cluster>>

\* No answer is no overlay.
NoOverlay ==
    /\ pc = "overlay"
    /\ blind' \in {FALSE, TRUE} /\ (~blind' => ~deploy.overlay)
    /\ pc' = "environment"
    /\ UNCHANGED <<arm, beta, cluster>>

\* revert-router-patch.sh.  A patch that fails passes for "already clean"; the
\* ConfigMap is deleted after it, so what still mounts it cannot start again.
Revert ==
    /\ pc = "revert"
    /\ deploy' \in {deploy, [deploy EXCEPT !.overlay = FALSE]}
    /\ configmap' = FALSE
    /\ pc' = "re-registration"
    /\ UNCHANGED <<cell, router, registered, engines>>

\* A plausible wrong version of Reverted, for the mutation run: -gt for -ge.
RevertedByMore ==
    /\ pc = "re-registration" /\ router = deploy
    /\ registered > 2
    /\ pc' = "environment"
    /\ UNCHANGED <<cell, cluster>>

\* rollout status, then until [ ... -ge 2 ].
Reverted ==
    /\ pc = "re-registration" /\ router = deploy
    /\ registered >= 2
    /\ pc' = "environment"
    /\ UNCHANGED <<cell, cluster>>

\* A plausible wrong version of SetEnvironment, for the mutation run: baselines
\* keep the variable as it is.
SetEnvironmentOfLoadaware ==
    /\ pc = "environment"
    /\ deploy' = IF arm = "loadaware" THEN [deploy EXCEPT !.beta = beta] ELSE deploy
    /\ pc' = "settle"
    /\ UNCHANGED <<cell, configmap, router, registered, engines>>

\* LOADAWARE_BETA=$BETA, or LOADAWARE_BETA- on the baselines.
SetEnvironment ==
    /\ pc = "environment"
    /\ deploy' = [deploy EXCEPT !.beta = beta]
    /\ pc' = "settle"
    /\ UNCHANGED <<cell, configmap, router, registered, engines>>

\* rollout status, and the image is asserted.
Settled ==
    /\ pc = "settle" /\ router = deploy /\ deploy.image = Image(arm)
    /\ pc' = "drain"
    /\ UNCHANGED <<cell, cluster>>

\* cold_start.sh, first half: no engine is left when the router restarts (or the
\* count of them had no answer).
Drain ==
    /\ pc = "drain"
    /\ desired' = 0
    /\ pc' = "restart"
    /\ UNCHANGED <<cell, deploy, configmap, router, registered, up>>

RestartRouter ==
    /\ pc = "restart"
    /\ deploy' = [deploy EXCEPT !.revision = 1 - @]
    /\ pc' = "restarting"
    /\ UNCHANGED <<cell, configmap, router, registered, engines>>

\* A plausible wrong version of ScaleUp, for the mutation run: the engines come up
\* while the router restarts.
ScaleUpMeanwhile ==
    /\ pc = "restarting"
    /\ desired' = Replicas
    /\ pc' = "registrations"
    /\ UNCHANGED <<cell, deploy, configmap, router, registered, up>>

\* Second half: rollout status, the engines come back.
ScaleUp ==
    /\ pc = "restarting" /\ router = deploy
    /\ desired' = Replicas
    /\ pc' = "registrations"
    /\ UNCHANGED <<cell, deploy, configmap, router, registered, up>>

\* All of them are up, and on an arm with a registry in it; then the forward to
\* the router is opened.
ColdStarted ==
    /\ pc = "registrations" /\ up = Replicas
    /\ UsesLookup(arm) => registered >= Replicas
    /\ pc' = "warm-up"
    /\ UNCHANGED <<cell, cluster>>

\* The probe, the warm-up and its gate; the replay follows.
WarmUp ==
    /\ pc = "warm-up"
    /\ UsesLookup(arm) => registered > 0
    /\ pc' = "measure"
    /\ UNCHANGED <<cell, cluster>>

Measured ==
    /\ pc = "measure"
    /\ pc' = "ended"
    /\ UNCHANGED <<cell, cluster>>

\* set -e, a timeout, a gate.  Only until is not ended by a command that fails.
Waits == pc = "re-registration" /\ router = deploy

Fails ==
    /\ pc # "ended" /\ ~Waits
    /\ pc' = "ended"
    /\ UNCHANGED <<cell, cluster>>

Commands ==
    \/ Upgrade \/ OverlayMounted \/ NoOverlay \/ Revert \/ Reverted
    \/ SetEnvironment \/ Settled
    \/ Drain \/ RestartRouter \/ ScaleUp \/ ColdStarted
    \/ WarmUp \/ Measured \/ Fails

\* apply-router-patch.sh, run by hand between two cells.
ApplyOverlay ==
    /\ pc = "ended"
    /\ configmap' = TRUE
    /\ deploy' = [deploy EXCEPT !.overlay = TRUE, !.revision = 1 - @]
    /\ UNCHANGED <<pc, cell, router, registered, engines>>

\* A rollout ends.  A pod whose ConfigMap is missing does not start.
RouterStarts ==
    /\ router # deploy
    /\ deploy.overlay => configmap
    /\ router' = deploy /\ registered' = 0
    /\ UNCHANGED <<pc, cell, deploy, configmap, engines>>

EnginesScale ==
    /\ up' = IF up < desired THEN up + 1 ELSE up - 1
    /\ up # desired
    /\ UNCHANGED <<pc, cell, deploy, configmap, router, registered, desired>>

\* A heartbeat, of an engine that this router does not know.
Register ==
    /\ up > 0 /\ UsesLookup(router.logic) /\ registered < Replicas
    /\ registered' = registered + 1
    /\ UNCHANGED <<pc, cell, deploy, configmap, router, engines>>

CellNext ==
    NextCell \/ Commands \/ ApplyOverlay \/ RouterStarts \/ EnginesScale \/ Register

\* Every command of the script ends, the engines come and go as they are told, and
\* send their heartbeats.
FairCells ==
    /\ CellInit /\ [][CellNext]_cellVars
    /\ WF_cellVars(Commands) /\ WF_cellVars(EnginesScale) /\ WF_cellVars(Register)
-----------------------------------------------------------------------------
\* What is measured is what the cell is named for: its policy, its image and its
\* beta, whatever the cells before it, finished or not, left on the deployment.
\* An overlay is measured only if the question for it had no answer.
MeasuredAsLabelled ==
    pc = "measure" =>
        /\ router.image = Image(arm) /\ router.logic = arm
        /\ router.beta = beta
        /\ router.overlay => blind

\* "The cold start above is the final restart in this cell, so a forward opened
\* here survives the probe and the warm-up" (run_cell.sh), and the measurement:
\* the router a cell warms up is the one it measures.
WarmedUpIsMeasured ==
    [][(pc \in {"warm-up", "measure"}) => (router' = router)]_cellVars

\* A cell that finds an overlay ends, in a measurement or an error, except on an
\* arm without a registry: its router logs no registration, and until is not
\* ended.
OtherCellsEnd ==
    pc = "upgrade" ~> pc = "ended" \/ (Waits /\ arm = "roundrobin")
=============================================================================
