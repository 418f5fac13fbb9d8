------------------------------ MODULE Baselines ------------------------------
(***************************************************************************)
(* The router process as requests meet it.  Its command line decides which *)
(* router is made and with what; the watcher thread replaces it between    *)
(* any two requests; the routers without a controller answer from what     *)
(* they remember, and one that is deregistered takes its memory with it.   *)
(* All see the lists of discovery; the routers with a controller have      *)
(* modules of their own.                                                   *)
(***************************************************************************)
EXTENDS RoundRobin

CONSTANTS
    CommandLines, File, ModelType,  \* CommandLine
    Configurations,                 \* RoutingRegistry
    Session, RingOrder, Qps,        \* SessionFallback
    Prompts, MaxSelected,           \* PrefixAware
    Label                           \* Disaggregated

VARIABLES
    instances, task, pc, cleaning, found, current, revived, \* RoutingRegistry
    nodes, last,                    \* SessionFallback; url is that of RoundRobin
    hashtrie, selected, served,     \* PrefixAware
    labels      \* what the disaggregated router was made with

roundRobinVars == <<heap, req_id, sorted_endpoints, last_endpoints_id,
                    last_endpoints_hash, turns>>
sessionVars == <<nodes, last>>
prefixVars == <<hashtrie, selected, served>>
registryVars == <<instances, task, pc, cleaning, found, current, revived>>
allVars == <<vars, sessionVars, prefixVars, labels, registryVars>>

CL == INSTANCE CommandLine
SR == INSTANCE SessionFallback
PA == INSTANCE PrefixAware
DP == INSTANCE Disaggregated
Registry == INSTANCE RoutingRegistry

ASSUME BaselinesAssumption ==
    /\ SR!SessionAssumption
    /\ PA!PromptsAssumption
    /\ \A u \in SR!Url : Label[u] \in STRING
    /\ \A list \in EndpointLists : list # <<>>

ForgetRoundRobin ==
    /\ heap' = [a \in Address |-> CHOOSE list \in EndpointLists : TRUE]
    /\ req_id' = 0 /\ sorted_endpoints' = <<>> /\ turns' = <<>>
    /\ last_endpoints_id' = None /\ last_endpoints_hash' = None

ForgetSessions ==
    nodes' = {} /\ last' = [s \in Session |-> [among |-> {}, url |-> 0]]

ForgetPrefixes == hashtrie' = {} /\ selected' = {} /\ served' = {}

NoLabels == [prefill |-> DP!NoLabels, decode |-> DP!NoLabels]

BaselinesInit ==
    /\ Init /\ heap = [a \in Address |-> CHOOSE list \in EndpointLists : TRUE]
    /\ SR!Init /\ PA!Init /\ labels = NoLabels
    /\ Registry!Init

\* What the routers remember, after a step of the registry.
Remembered ==
    /\ IF "roundrobin" \in instances' THEN UNCHANGED roundRobinVars
                                      ELSE ForgetRoundRobin
    /\ IF "session" \in instances' THEN UNCHANGED sessionVars ELSE ForgetSessions
    /\ IF "prefixaware" \in instances' THEN UNCHANGED prefixVars ELSE ForgetPrefixes
    /\ labels' = IF "disaggregated_prefill" \notin instances' THEN NoLabels
                 ELSE IF "disaggregated_prefill" \in instances THEN labels
                 ELSE [prefill |-> current'.prefill_model_labels,
                       decode  |-> current'.decode_model_labels]
    /\ url' = 0

\* What the constructor is passed of the arguments, and this model tells apart.
Configured(args) ==
    LET given == [Registry!NoConfiguration EXCEPT !.routing_logic = args.routing_logic]
    IN  CASE args.routing_logic = "session" ->
                 [given EXCEPT !.session_key = args.session_key]
          [] args.routing_logic = "disaggregated_prefill" ->
                 [given EXCEPT !.prefill_model_labels = args.prefill_model_labels,
                               !.decode_model_labels = args.decode_model_labels]
          [] OTHER -> given

\* The process starts with a command line that parse_args accepts.
Launch ==
    /\ pc = "down"
    /\ \E config \in {Configured(CL!Args(argv)) : argv \in
                          {given \in CommandLines : CL!Accepted(given)}} :
           Registry!Launch(config)
    /\ Remembered

ServeDisaggregated(endpoints, isPrefill) ==
    /\ Registry!GetRoutingLogic = "disaggregated_prefill"
    /\ url' = DP!RouteByRole(endpoints, isPrefill, labels.prefill, labels.decode)
    /\ UNCHANGED <<roundRobinVars, sessionVars, prefixVars, labels>>

\* A request of the serving router, or a change of the lists.  A router that a
\* late call revived starts like one that is configured: its requests are not
\* followed.
Serve ==
    /\ Registry!GetRoutingLogic \notin revived
    /\ \/ /\ Registry!GetRoutingLogic = "roundrobin" /\ Next
          /\ UNCHANGED <<sessionVars, prefixVars, labels>>
       \/ /\ Registry!GetRoutingLogic = "session" /\ SR!Next
          /\ UNCHANGED <<roundRobinVars, prefixVars, labels>>
       \/ /\ Registry!GetRoutingLogic = "prefixaware" /\ PA!Next
          /\ url' = 0 /\ UNCHANGED <<roundRobinVars, sessionVars, labels>>
       \/ \E endpoints \in EndpointLists, isPrefill \in BOOLEAN :
              ServeDisaggregated(endpoints, isPrefill)
    /\ UNCHANGED registryVars

RegistryStep ==
    /\ \/ Registry!Stop \/ Registry!Watcher \/ Registry!Find \/ Registry!Call
       \/ \E c \in Registry!WithController : Registry!TaskFails(c)
    /\ Remembered

BaselinesNext == Launch \/ Serve \/ RegistryStep

BaselinesSpec == BaselinesInit /\ [][BaselinesNext]_allVars
-----------------------------------------------------------------------------
\* A command line that is accepted starts its router, if the port of its
\* controller is free; but for a policy that only the file names, which is not
\* held against the choices.
AcceptedStarts ==
    pc = "down" =>
        \A argv \in CommandLines :
            LET config == Configured(CL!Args(argv))
            IN  CL!Accepted(argv) =>
                    \/ Registry!Constructible(config)
                    \/ /\ "routing_logic" \notin DOMAIN argv
                       /\ config.routing_logic \notin Registry!RoutingLogic

\* Every policy that the registry can make can be asked for: what is accepted
\* with one is accepted with any other, the session's key supposed.
EveryPolicyStarts ==
    pc = "down" =>
        \A argv \in CommandLines, c \in Registry!RoutingLogic :
            /\ CL!Accepted(argv) /\ "routing_logic" \in DOMAIN argv
            /\ c = "session" => CL!Args(argv).session_key # "None"
            => CL!Accepted([argv EXCEPT !.routing_logic = c])

\* A session leaves its engine only for a cause (SessionFallback), for as long
\* as its router is not replaced.
SessionsStay == SR!SessionsStay

\* A prompt goes to an engine with the most of it (PrefixAware), for as long as
\* its router is not replaced.
LongestServedIsChosen == PA!LongestServedIsChosen

\* A request is answered with an engine of its role, as the configuration that
\* was installed last assigns the roles; it fails only when that assigns none,
\* or when discovery lists no engine of the role.
RolesAreKept ==
    [][\A endpoints \in EndpointLists, isPrefill \in BOOLEAN :
          LET role == IF isPrefill THEN current.prefill_model_labels
                      ELSE current.decode_model_labels
              able == {u \in Range(endpoints) : Label[u] = role}
          IN  /\ current.routing_logic = "disaggregated_prefill"
              /\ ServeDisaggregated(endpoints, isPrefill)
              => \/ url' \in able
                 \/ /\ url' = 0
                    /\ \/ able = {}
                       \/ DP!NoLabels \in {current.prefill_model_labels,
                                           current.decode_model_labels}]_allVars

\* Requests get the router configured last, or none (RoutingRegistry).
ServedByTheConfigured == Registry!ServedByTheConfigured

\* No controller task is left without a router (RoutingRegistry).
NoOrphanController == Registry!NoOrphanController
=============================================================================
