--------------------------- MODULE LoadAwareRouter ---------------------------
(***************************************************************************)
(* LoadAwareRouter.route_request: the lookup, the refresh of the bridge,   *)
(* one awaited question for each endpoint, and the placement decision.     *)
(* The controller runs on a thread of its own, so the fleet changes        *)
(* between any two steps.  Its answers come without suspending the event   *)
(* loop ("this path blocks the event loop"), so one request at a time is   *)
(* inside the handler; the loads that earlier ones built up are Placement  *)
(* .tla's subject, and any of Loads here.                                  *)
(***************************************************************************)
EXTENDS Fleet, Bridge, LoadAwareSelect

CONSTANTS
    EndpointLists,  \* the endpoints service discovery may report, as lists
    Loads,          \* the request statistics the monitor may report
    Beta,           \* self.beta, as a ratio
    PromptTokens    \* length of the prompt; a holder holds all of it

ASSUME RouterAssumption ==
    /\ EndpointLists \subseteq Seq(Url) \ {<<>>}
    /\ Beta \in [num : Int, den : Nat]
    /\ PromptTokens \in Nat
    /\ Loads # {}

VARIABLES
    bridge,     \* instance_id_to_ip
    pc,         \* where the handler is
    endpoints,  \* its argument
    layout,     \* the ids its lookup named
    asking,     \* position of the endpoint it asks about
    answer,     \* the id it was answered with
    url,        \* the engine it chose
    fresh       \* history: the URLs asked about since the last fleet change

handlerVars == <<pc, endpoints, layout, asking, answer, url>>
vars == <<fleetVars, bridge, handlerVars, fresh>>

Init ==
    /\ FleetInit
    /\ bridge = <<>>
    /\ pc = "idle" /\ endpoints = <<>> /\ layout = {} /\ asking = 1
    /\ answer = NoId /\ url = NoUrl
    /\ fresh = {}

Arrive(list) ==
    /\ pc \in {"idle", "routed", "raised"}
    /\ pc' = "lookup" /\ endpoints' = list
    /\ layout' = {} /\ asking' = 1 /\ answer' = NoId /\ url' = NoUrl
    /\ UNCHANGED <<fleetVars, bridge, fresh>>

\* Plausible wrong versions of Stale, for the mutation runs: a count of the
\* entries; no gate at all.
CountIsStale(b, ids) == Len(b) < Len(endpoints)
AlwaysStale(b, ids) == TRUE

\* instance_map_is_stale: an endpoint we cannot score, or an unknown holder.
Stale(b, ids) ==
    \/ \E n \in DOMAIN endpoints : endpoints[n] \notin MappedUrls(b)
    \/ \E i \in ids : i \notin KnownIds(b)

\* matched_tokens_by_url.
Matched(b, ids) ==
    [u \in {v \in MappedUrls(b) : IdOf(b, v) \in ids} |-> PromptTokens]

\* What select_url returns, by the loads of the moment.
Selected(b, ids) ==
    {SelectUrl(Beta, among, stats, matched, PromptTokens) :
         stats \in Loads, matched \in {Matched(b, ids)}, among \in {Range(endpoints)}}

\* select_url, or else the fallback, and the return.
Decide(b, ids) ==
    /\ pc' = "routed"
    /\ \E best \in Selected(b, ids) :
           url' \in IF best = NoUrl THEN Range(endpoints) ELSE {best}

\* Nothing here catches an exception of the tokenizers, or the KeyError of a lookup
\* whose chunk an engine evicts between the test and the read (ConcurrentLookup
\* .tla, ReadFails).
RouteRequestRaises ==
    /\ pc = "lookup"
    /\ pc' = "raised"
    /\ UNCHANGED <<fleetVars, bridge, endpoints, layout, asking, answer, url, fresh>>

\* Nothing is cached anywhere: fallback_url, which is some endpoint.
LookupFindsNothing ==
    /\ pc = "lookup" /\ named = {}
    /\ pc' = "routed" /\ url' \in Range(endpoints)
    /\ UNCHANGED <<fleetVars, bridge, endpoints, layout, asking, answer, fresh>>

LookupThenRefresh ==
    /\ pc = "lookup" /\ named # {} /\ Stale(bridge, named)
    /\ pc' = "ask" /\ layout' = named
    /\ UNCHANGED <<fleetVars, bridge, endpoints, asking, answer, url, fresh>>

LookupThenDecide ==
    /\ pc = "lookup" /\ named # {} /\ ~Stale(bridge, named)
    /\ layout' = named
    /\ Decide(bridge, named)
    /\ UNCHANGED <<fleetVars, bridge, endpoints, asking, answer, fresh>>

\* The registry answers about the next endpoint.
Ask ==
    /\ pc = "ask"
    /\ pc' = "write"
    /\ answer' = Registered(endpoints[asking])
    /\ fresh' = fresh \union {endpoints[asking]}
    /\ UNCHANGED <<fleetVars, bridge, endpoints, layout, asking, url>>

AskAbout(n) == pc' = "ask" /\ asking' = n /\ UNCHANGED url

\* A plausible wrong Continue, for the mutation run: refresh until it is fresh.
RefreshUntilFresh(b) ==
    \/ asking < Len(endpoints) /\ AskAbout(asking + 1)
    \/ asking = Len(endpoints) /\ Stale(b, layout) /\ AskAbout(1)
    \/ /\ asking = Len(endpoints) /\ ~Stale(b, layout)
       /\ Decide(b, layout) /\ UNCHANGED asking

\* After an answer is written: the next endpoint, or the decision.
Continue(b) ==
    \/ asking < Len(endpoints) /\ AskAbout(asking + 1)
    \/ asking = Len(endpoints) /\ Decide(b, layout) /\ UNCHANGED asking

\* The handler resumes with the answer.
Write ==
    /\ pc = "write"
    /\ bridge' = Put(bridge, answer, endpoints[asking])
    /\ Continue(bridge')
    /\ UNCHANGED <<fleetVars, endpoints, layout, answer, fresh>>

Handler ==
    \/ RouteRequestRaises \/ LookupFindsNothing \/ LookupThenRefresh
    \/ LookupThenDecide \/ Ask \/ Write

Environment ==
    /\ \/ FleetChange /\ fresh' = {}
       \/ CacheChange /\ UNCHANGED fresh
    /\ UNCHANGED <<bridge, handlerVars>>

Next ==
    \/ \E list \in EndpointLists : Arrive(list)
    \/ Handler
    \/ Environment

Spec == Init /\ [][Next]_vars

\* A handler that has its answer runs on; the fleet and the clients need not.
FairSpec == Spec /\ WF_vars(Handler)
-----------------------------------------------------------------------------
\* The bridge is a dict, and it never maps an id to another engine's URL.
TypeOK ==
    /\ FleetTypeOK
    /\ \A n \in DOMAIN bridge :
           /\ bridge[n].id \in Id \union {NoId}
           /\ bridge[n].url \in Url
           /\ bridge[n].id # NoId => bridge[n].url = bridge[n].id.url
           /\ \A p \in 1..(n-1) : bridge[p].id # bridge[n].id
    /\ pc \in {"idle", "lookup", "ask", "write", "routed", "raised"}
    /\ layout \subseteq Id
    /\ fresh \subseteq Url

\* "The last id written for a URL is the live one" (matched_tokens_by_url): of
\* the processes of one URL, the bridge has a later one in a later place.
NewestIdIsLast ==
    \A p, q \in DOMAIN bridge :
        /\ p < q
        /\ bridge[p].url = bridge[q].url
        /\ NoId \notin {bridge[p].id, bridge[q].id}
        => bridge[p].id.nth < bridge[q].id.nth

\* An engine that the lookup named and that is registered still is scored with
\* its own match, not with that of a process it replaced.
LiveHolderIsScored ==
    [][pc # "routed" /\ pc' = "routed" =>
          \A u \in Range(endpoints) :
              Registered(u) \in layout' =>
                  u \in MappedUrls(bridge') /\ IdOf(bridge', u) = Registered(u)]_vars

\* "The bridge has caught up" (matched_tokens_by_url): the residual window in
\* which a restarted engine is scored by its dead id ends with the first question
\* about its URL; from the writing of the answer until the fleet next changes,
\* every registered engine that was asked about is scored under its own id.
AskedIsExact ==
    \A u \in fresh :
        registered[u] # 0 /\ ~(pc = "write" /\ endpoints[asking] = u) =>
            u \in MappedUrls(bridge) /\ IdOf(bridge, u) = Registered(u)

\* A refresh starts though every endpoint was asked about since the fleet last
\* changed.
RefreshesAgain ==
    pc = "lookup" /\ pc' = "ask" /\ Range(endpoints) \subseteq fresh

AllRegistered == \A u \in Range(endpoints) : registered[u] # 0

\* "A once-per-fleet-change cost, not a per-request one" (refresh_instance_map),
\* at the least while every endpoint is registered.
OncePerFleetChange == [][AllRegistered => ~RefreshesAgain]_vars

\* What the code does keep of that: such a refresh has a cause that another
\* refresh cannot remove, a holder that the registry answers no endpoint with,
\* or an unregistered endpoint that shares the one place of None with another
\* unregistered engine, which a request was about, if not this one.
RefreshHasCause ==
    [][RefreshesAgain =>
          \/ named \ {Registered(u) : u \in Range(endpoints)} # {}
          \/ \E u \in Range(endpoints), v \in fresh :
                 u # v /\ registered[u] = 0 /\ registered[v] = 0]_vars

\* Every refresh ends, and the request that it is for is given an engine, whatever
\* the fleet does meanwhile.  (A request whose lookup raises is given none.)
EveryRefreshIsRouted == pc = "ask" ~> pc = "routed"
=============================================================================
